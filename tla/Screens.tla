------------------------------ MODULE Screens ------------------------------
(* What the dashboard shows, with no thread that has to get on: the risk     *)
(* tab's book of positions, the watchlists with the tabs that follow them,   *)
(* and the live tables.  They share no state here.                           *)
EXTENDS RiskBook

CONSTANTS
    Names, Symbols, Tabs, FirstTab, WatchlistTabs, MaxDialogs,    \* of the shell
    Keys, Values, Missing, Filters                                \* of the live tables

VARIABLES
    db, running, watchlist, bar, dialogs, front, tabs,
    pane, rows, filter, sort, frozen, holding, due, follow, navTable, drawn, seen

shellVars == <<db, running, watchlist, bar, dialogs, front, tabs>>
liveVars == <<pane, rows, filter, sort, frozen, holding, due, follow, navTable, drawn, seen>>

Shell == INSTANCE Dashboard
Live == INSTANCE LiveTable WITH table <- navTable

\* The shell and the tables: the open list is a saved one, the picker and the tabs
\* show it, the tab in front is the one that refreshes, and a table holds the rows
\* there are, from the top on.
ScreensSound ==
    /\ Shell!TypeOK
    /\ Shell!OpenListSaved
    /\ Shell!RefreshesInFront
    /\ Shell!TabsShowList
    /\ Live!TypeOK
    /\ Live!RowsInStep
    /\ Live!TopUntilMoved

\* No saved list is lost, overwritten, or forgotten as the open one, and the
\* example list is made once, through dialogs, renames and deaths.
ListsKept ==
    /\ Shell!OpenedRemembered
    /\ Shell!NothingLost
    /\ Shell!NoneOverwritten
    /\ Shell!DeletedDefaultStays

\* What a step may not do: a sync's rows stay the broker's, the cursor stays on its
\* row, and held rows keep their order.
NothingMoved == BrokerOwns /\ Live!CursorFollows /\ Live!OrderHolds
=============================================================================
