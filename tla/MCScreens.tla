----------------------------- MODULE MCScreens -----------------------------
(* What the dashboard shows and decides, with no thread that has to get on:  *)
(* the risk tab's book of positions, the sizes it works out, the watchlists  *)
(* with the tabs that follow them, and the live tables.  They share no      *)
(* state, so a behaviour is about one of them, which `component' names.     *)
EXTENDS Screens, TLC

CONSTANTS
    scanner, securities,             \* tabs of the dashboard
    Ids                              \* of the positions that are sized

\* Two lists, the seeded one the second of them; two tabs, of which one follows the
\* watchlist; and what the filter box lets through of two rows.
TwoNames == <<"banks", "default">>
TwoTabs == {scanner, securities}
Following == {scanner}
Typed == {{1, 2}, {2}}

\* The rates and fees of a schedule, in percent and in prices of one digit.
TheSchedule == [brokerage |-> 1, stt |-> 1, exchange |-> 1, sebi |-> 0, stamp |-> 1, gst |-> 20,
                gstOnSebi |-> TRUE, dp |-> 1, dpIncludesGst |-> FALSE]

\* A stop of each kind, at and around the low of 7 and the range of 1.
Inputs == {[method |-> "price", value |-> 8], [method |-> "percent", value |-> 10],
           [method |-> "atr", value |-> 2], [method |-> "low", value |-> 3]}

StockSymmetry == Permutations(Stocks)

VARIABLES component, planned, price, trade, low, high, sized

planVars == <<planned, price, trade, low, high, sized>>
allVars == <<component, vars, planVars, shellVars, liveVars>>

Plan == INSTANCE RiskPlan WITH
    Capital <- 200, Risk <- [mode |-> "percent", value |-> 15], MaxAllocation <- 60,
    MaxHeat <- 18, Schedule <- TheSchedule, AssumedPercent <- 8, Entries <- {10},
    Prices <- {7, 9, 11}, StopInputs <- Inputs, Low <- {7}, Average <- {1}, Lots <- {3},
    positions <- planned

ASSUME BookAssumption
ASSUME Plan!PlanAssumption
ASSUME Shell!DashboardAssumption
ASSUME Live!TableAssumption

\* What a behaviour is not about starts in one state and stays there.
MCInit ==
    /\ component \in {"book", "plan", "shell", "live"}
    /\ Init /\ Plan!Init /\ Shell!Init /\ Live!Init
    /\ component # "book" => book = [s \in Stocks |-> NoRow]
    /\ component # "shell" => DOMAIN db.lists = {}
    /\ component # "live" => pane = "scanner"

BookStep == component = "book" /\ UNCHANGED <<component, planVars, shellVars, liveVars>>
PlanStep == component = "plan" /\ UNCHANGED <<component, vars, shellVars, liveVars>>
ShellStep == component = "shell" /\ UNCHANGED <<component, vars, planVars, liveVars>>
LiveStep == component = "live" /\ UNCHANGED <<component, vars, planVars, shellVars>>

PlanNext ==
    \/ PlanStep /\ \E entry \in {10}, input \in Inputs, lot \in {3} : Plan!Sized(entry, input, lot)
    \/ PlanStep /\ Plan!Sizing
    \/ PlanStep /\ Plan!Decide
    \/ \E i \in Ids :
          \/ PlanStep /\ \E withStop \in BOOLEAN : Plan!Take(i, withStop)
          \/ PlanStep /\ \E stop \in {{}, {7}, {9}, {11}} : Plan!MoveStop(i, stop)
          \/ PlanStep /\ Plan!Close(i)
    \/ PlanStep /\ \E to \in {7, 9, 11} : Plan!PriceMoves(to)

ShellNext ==
    \/ ShellStep /\ Shell!Start
    \/ ShellStep /\ Shell!Quit
    \/ \E t \in Tabs :
          \/ ShellStep /\ Shell!SwitchTab(t)
          \/ ShellStep /\ Shell!TabMounted(t)
          \/ ShellStep /\ Shell!RefreshFails(t)
    \/ \E n \in {"banks", "default"} : ShellStep /\ Shell!SelectWatchlist(n)
    \/ ShellStep /\ Shell!NewWatchlist
    \/ ShellStep /\ Shell!EditWatchlist
    \/ ShellStep /\ Shell!DeleteWatchlist
    \/ ShellStep /\ Shell!SaveResult
    \/ ShellStep /\ Shell!Cancelled
    \/ \E n \in {"banks", "default"}, x \in Symbols :
          \/ ShellStep /\ Shell!SaveWatchlist(n, x)
          \/ ShellStep /\ Shell!WatchlistNamed(n, x)
    \/ \E x \in Symbols : ShellStep /\ Shell!Replaced(x)
    \/ ShellStep /\ Shell!ConfirmDelete

LiveNext ==
    \/ \E k \in {1, 2}, v \in 0 .. 2 : LiveStep /\ Live!Ticked(k, v)
    \/ \E symbols \in SUBSET {1, 2} : LiveStep /\ Live!OnWatchlistChanged(symbols)
    \/ LiveStep /\ Live!Frame
    \/ \E let \in Filters : LiveStep /\ Live!TypeFilter(let)
    \/ LiveStep /\ Live!ToggleFreeze
    \/ LiveStep /\ Live!ReverseSort
    \/ LiveStep /\ Live!CycleSort
    \/ \E row \in {1, 2} : LiveStep /\ Live!Navigate(row)
    \/ LiveStep /\ Live!ReorderSecondsPass
    \/ LiveStep /\ Live!HoldEnds

MCNext ==
    \/ BookStep /\ Next
    \/ PlanNext
    \/ ShellNext
    \/ LiveNext

MCSpec == MCInit /\ [][MCNext]_allVars

-----------------------------------------------------------------------------
\* The plan: the largest trade that keeps every limit, within the capital; a risk
\* that is only assumed is flagged, and a trade that is taken keeps the heat.
PlanSound ==
    /\ [](/\ Plan!TypeOK
          /\ Plan!MostThatKeeps
          /\ Plan!AssumedIsFlagged
          /\ Plan!UsedWithinCapital)
    /\ Plan!TradeKeepsHeat
=============================================================================
