------------------------------ MODULE RiskBook ------------------------------
(* RiskService (services/risk.py) as the Risk tab (ui/tabs/risk/pane.py) and *)
(* a broker sync use it: the list of positions, the dialogs that change it, *)
(* the one subscription that streams their prices, and the daily history   *)
(* that is topped up behind it.                                            *)
(*                                                                         *)
(* The tab works on the user interface's thread, a sync on its own.  The    *)
(* service has a lock for its histories only, so a step here ends where a   *)
(* thread reads or writes the database or calls the hub.                   *)
EXTENDS Naturals, FiniteSets, Sequences, SequencesExt

CONSTANTS
    Stocks,    \* each has at most one position, and the instrument key of it
    MaxSubscriptions, \* bound: subscriptions at the hub
    MaxChanges  \* bound: changes of the book and of the watched symbol

BookAssumption == {MaxSubscriptions, MaxChanges} \subseteq Nat \ {0}

Threads == {"ui", "sync"}

VARIABLES
    book,       \* the positions table: per stock, whose open row it has
    positions,  \* _positions: at most one list of the open rows
    watched,    \* _watched_key, none or one
    hub,        \* the hub's open subscriptions of this service
    subscription, \* _subscription: which of them, 0 for None
    subscribed, \* _subscribed
    thread,     \* what each thread is at
    dialog,     \* the dialog that is open and the stock it is about
    overlapped, \* history: two threads were in the service at a time
    changes     \* how often the book or the watched symbol has changed

vars == <<book, positions, watched, hub, subscription, subscribed, thread, dialog, overlapped,
          changes>>

table == <<book, positions>>
feed == <<hub, subscription, subscribed>>

NoRow == "none"
NoDialog == [kind |-> "none", stock |-> "none"]
Open(b) == {s \in Stocks : b[s] # NoRow}
At(at, rows, then) == [at |-> at, rows |-> rows, then |-> then, has |-> <<>>]
Idle == At("idle", {}, "none")
Goto(t, at, rows) == thread' = [thread EXCEPT ![t] = At(at, rows, @.then)]
Holds(t, subscriber) ==
    thread' = [thread EXCEPT ![t] =
                  [at |-> "subscribed", rows |-> @.rows, then |-> @.then, has |-> subscriber]]
Done(t) == thread' = [thread EXCEPT ![t] = Idle]

\* The table is what earlier sessions left.
Init ==
    /\ book \in [Stocks -> {NoRow, "manual", "dhan"}] /\ positions = {}
    /\ watched = {} /\ hub = <<>> /\ subscription = 0 /\ subscribed = {}
    /\ thread = [t \in Threads |-> Idle]
    /\ dialog = NoDialog
    /\ overlapped = FALSE /\ changes = 0

-----------------------------------------------------------------------------
(* positions(), _changed() and _resubscribe(), on either thread.           *)

Remembered == positions
Forgotten == {}

\* _changed: the list is forgotten, then the subscription follows.
Changed(t) ==
    /\ positions' = Forgotten
    /\ thread' = [thread EXCEPT ![t] = At("positions", {}, "resubscribe")]

Read(t) ==
    /\ thread[t].at = "positions"
    /\ IF positions # {} THEN Goto(t, thread[t].then, CHOOSE p \in positions : TRUE)
       ELSE Goto(t, "keep", Open(book))
    /\ UNCHANGED <<table, watched, feed, dialog>>

Keep(t) ==
    /\ thread[t].at = "keep"
    /\ positions' = {thread[t].rows}
    /\ Goto(t, thread[t].then, thread[t].rows)
    /\ UNCHANGED <<book, watched, feed, dialog>>

\* Mutant: no symbol is added to the keys as one.
WantedNone(t) == thread[t].rows \cup IF watched = {} THEN {NoRow} ELSE watched

Wanted(t) == thread[t].rows \cup watched

Resubscribe(t) ==
    /\ thread[t].at = "resubscribe"
    /\ IF Wanted(t) = subscribed THEN Done(t) ELSE Goto(t, "hub", Wanted(t))
    /\ UNCHANGED <<table, watched, feed, dialog>>

BelievedAnyway(t) == thread[t].rows
Believed(t) == subscribed

\* The hub may refuse: over its cap, what was subscribed stays.
HubRefuses(t) ==
    /\ thread[t].at = "hub" /\ thread[t].rows # {}
    /\ subscribed' = Believed(t)
    /\ Done(t)
    /\ UNCHANGED <<table, watched, hub, subscription, dialog>>

Unsubscribe(t) ==
    /\ thread[t].at = "hub" /\ thread[t].rows = {}
    /\ hub' = IF subscription = 0 THEN hub ELSE [hub EXCEPT ![subscription] = {}]
    /\ Holds(t, IF subscription = 0 THEN <<>> ELSE <<0>>)
    /\ UNCHANGED <<table, watched, subscription, subscribed, dialog>>

UpdateSubscription(t) ==
    /\ thread[t].at = "hub" /\ thread[t].rows # {} /\ subscription # 0
    /\ hub' = [hub EXCEPT ![subscription] = thread[t].rows]
    /\ Goto(t, "subscribed", thread[t].rows)
    /\ UNCHANGED <<table, watched, subscription, subscribed, dialog>>

\* hub.subscribe.
Subscribe(t) ==
    /\ thread[t].at = "hub" /\ thread[t].rows # {} /\ subscription = 0
    /\ LET i == Min({j \in DOMAIN hub : hub[j] = {}} \cup {Len(hub) + 1})
       IN  /\ i <= MaxSubscriptions
           /\ hub' = IF i \in DOMAIN hub THEN [hub EXCEPT ![i] = thread[t].rows]
                     ELSE Append(hub, thread[t].rows)
           /\ Holds(t, <<i>>)
    /\ UNCHANGED <<table, watched, subscription, subscribed, dialog>>

\* What the hub did is kept.
Subscribed(t) ==
    /\ thread[t].at = "subscribed"
    /\ subscription' = IF thread[t].has = <<>> THEN subscription ELSE thread[t].has[1]
    /\ subscribed' = thread[t].rows
    /\ Done(t)
    /\ UNCHANGED <<table, watched, hub, dialog>>

-----------------------------------------------------------------------------
(* The tab.                                                                *)

\* _recalc: the symbol in the form is watched.
Watch(symbol) ==
    /\ thread["ui"] = Idle /\ symbol # watched
    /\ watched' = symbol
    /\ thread' = [thread EXCEPT !["ui"] = At("positions", {}, "resubscribe")]
    /\ UNCHANGED <<table, feed, dialog>>

\* refresh_view draws the portfolio: the rows it reads are the list's.
Frame ==
    /\ thread["ui"] = Idle
    /\ thread' = [thread EXCEPT !["ui"] = At("positions", {}, "drawn")]
    /\ UNCHANGED <<table, watched, feed, dialog>>

Drawn ==
    /\ thread["ui"].at = "drawn"
    /\ Done("ui")
    /\ UNCHANGED <<table, watched, feed, dialog>>

Ask(kind, s) ==
    /\ thread["ui"] = Idle /\ dialog = NoDialog
    /\ dialog' = [kind |-> kind, stock |-> s]
    /\ UNCHANGED <<table, watched, feed, thread>>

TakeTrade(s) == {s} = watched /\ book[s] = NoRow /\ Ask("take", s)

Shown(s) == positions # {} /\ \E p \in positions : s \in p

EditPosition(s) == Shown(s) /\ book[s] # NoRow /\ Ask("edit", s)

\* The tab sends the user to the broker when it shows an imported row.
ClosePosition(s) == Shown(s) /\ book[s] = "manual" /\ Ask("close", s)

DeletePosition(s) == book[s] # NoRow /\ Ask("delete", s)

Cancelled ==
    /\ thread["ui"] = Idle /\ dialog # NoDialog
    /\ dialog' = NoDialog
    /\ UNCHANGED <<table, watched, feed, thread>>

\* A dialog's answer: the row is read again before it is written.
Answered(kind, s) ==
    thread["ui"] = Idle /\ dialog = [kind |-> kind, stock |-> s] /\ dialog' = NoDialog

Refused == UNCHANGED <<table, thread>>

TradeTaken(s) ==
    /\ Answered("take", s)
    /\ book[s] = NoRow  \* the model has one row per stock
    /\ book' = [book EXCEPT ![s] = "manual"]
    /\ Changed("ui")
    /\ UNCHANGED <<watched, feed>>

PositionEdited(s) ==
    /\ Answered("edit", s)
    /\ IF book[s] = NoRow THEN Refused ELSE book' = book /\ Changed("ui")
    /\ UNCHANGED <<watched, feed>>

CanCloseAnyway(row) == row # NoRow

\* close_position refuses a row that is gone or the broker's.
CanClose(row) == row = "manual"

PositionClosed(s) ==
    /\ Answered("close", s)
    /\ IF CanClose(book[s])
       THEN book' = [book EXCEPT ![s] = NoRow] /\ Changed("ui")
       ELSE Refused
    /\ UNCHANGED <<watched, feed>>

PositionDeleted(s) ==
    /\ Answered("delete", s)
    /\ book' = [book EXCEPT ![s] = NoRow] /\ Changed("ui")
    /\ UNCHANGED <<watched, feed>>

-----------------------------------------------------------------------------
(* A sync writes the broker's rows, takes over a plan, and reloads.        *)

SyncWrites(s) ==
    /\ thread["sync"] = Idle
    /\ \/ book[s] # "dhan" /\ book' = [book EXCEPT ![s] = "dhan"]
       \/ book[s] = "dhan" /\ book' = [book EXCEPT ![s] = NoRow]
    /\ thread' = [thread EXCEPT !["sync"] = At("reload", {}, "none")]
    /\ UNCHANGED <<positions, watched, feed, dialog>>

Reload ==
    /\ thread["sync"].at = "reload"
    /\ Changed("sync")
    /\ UNCHANGED <<book, watched, feed, dialog>>

-----------------------------------------------------------------------------

OneThread(t) ==
    \/ Read(t) \/ Keep(t) \/ Resubscribe(t) \/ HubRefuses(t) \/ Unsubscribe(t)
    \/ UpdateSubscription(t) \/ Subscribe(t) \/ Subscribed(t)

Dialogs(s) ==
    \/ TakeTrade(s) \/ EditPosition(s) \/ ClosePosition(s) \/ DeletePosition(s)
    \/ TradeTaken(s) \/ PositionEdited(s) \/ PositionClosed(s) \/ PositionDeleted(s)

Steps ==
    \/ \E t \in Threads : OneThread(t)
    \/ \E symbol \in {{}} \cup {{s} : s \in Stocks} : Watch(symbol)
    \/ Frame \/ Drawn \/ Cancelled \/ Reload
    \/ \E s \in Stocks : Dialogs(s) \/ SyncWrites(s)

Next ==
    /\ Steps
    /\ overlapped' = (overlapped \/ \A t \in Threads : thread'[t] # Idle)
    /\ changes' = IF <<book, watched>>' = <<book, watched>> THEN changes ELSE changes + 1
    /\ changes' <= MaxChanges

Spec == Init /\ [][Next]_vars

-----------------------------------------------------------------------------

TypeOK ==
    /\ book \in [Stocks -> {NoRow, "manual", "dhan"}]
    /\ positions \subseteq SUBSET Stocks /\ Cardinality(positions) <= 1
    /\ watched \subseteq Stocks /\ Cardinality(watched) <= 1
    /\ hub \in Seq(SUBSET Stocks) /\ subscription \in {0} \cup DOMAIN hub
    /\ subscribed \subseteq Stocks

Quiet == thread = [t \in Threads |-> Idle]

\* One subscription at the hub, for the keys that the service believes to be
\* streamed: docs of the module.
OneSubscription ==
    Quiet => \A i \in DOMAIN hub : hub[i] = IF i = subscription THEN subscribed ELSE {}

\* As long as the tab and a sync never were in the service at a time.
OneSubscriptionApart == ~overlapped => OneSubscription

\* The list that the tab draws is the table's, as long as they never were.
DrawnIsCurrent == Quiet /\ ~overlapped => positions \subseteq {Open(book)}

\* The book: one subscription for the keys that the service believes in, and
\* the list that is drawn is the table's, unless two threads were in it.
BookSound == TypeOK /\ OneSubscriptionApart /\ DrawnIsCurrent

\* The broker's rows change by a sync, or go: a dialog opened while the row
\* was the user's own does not close it after a sync has taken it over.
BrokerOwns ==
    [][\A s \in Stocks :
          book[s] = "dhan" /\ book'[s] # "dhan"
          => dialog = [kind |-> "delete", stock |-> s] \/ thread'["sync"] # thread["sync"]]_vars

\* The rows that the tab has drawn are streamed, from the first frame on.
\* The code does not keep to it: see the README.
StreamsOpenPositions == Quiet /\ positions # {} /\ changes = 0 => Open(book) \subseteq subscribed
=============================================================================
