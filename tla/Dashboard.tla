----------------------------- MODULE Dashboard ------------------------------
(* The dashboard's shell (ui/app.py), the watchlists it owns               *)
(* (services/watchlists.py) and the lifecycle of the tabs (ui/tabs/base.py).*)
(*                                                                         *)
(* The user interface is one thread, so a handler is one step; it writes to *)
(* the database in several transactions, though, and the process may be    *)
(* killed after each of them.  Mounting a tab is a message of its own.      *)
(* ctrl+p opens the command palette over any dialog and its commands call   *)
(* the app's methods themselves, so nothing they reach waits for a dialog.  *)
EXTENDS Naturals, Sequences, FiniteSets, SequencesExt

CONSTANTS
    Names,          \* the names of lists, in the order of the alphabet
    Symbols,        \* what a list may hold
    Tabs,
    FirstTab,       \* the one in front when the app starts
    WatchlistTabs,  \* those that use the watchlist
    MaxDialogs      \* bound: dialogs on top of each other

DashboardAssumption ==
    /\ Names \in Seq(STRING) /\ "default" \in Range(Names) /\ "none" \notin Range(Names)
    /\ Symbols # {}
    /\ FirstTab \in Tabs /\ WatchlistTabs \subseteq Tabs
    /\ MaxDialogs \in Nat

VARIABLES
    db,         \* what the database keeps: the lists, the active name, the seeded mark
    running,
    watchlist,  \* SwingDashApp.watchlist
    bar,        \* the picker: the names it offers and its value
    dialogs,    \* the dialogs that are open, the last one on top
    front,      \* _active_tab
    tabs

vars == <<db, running, watchlist, bar, dialogs, front, tabs>>

NoName == "none"
NoList == [name |-> NoName, symbols |-> NoName]
AdHoc == [name |-> "(ad-hoc)", symbols |-> NoName]
Dialog(kind, list, taken) == [kind |-> kind, list |-> list, taken |-> taken]
Unbuilt ==
    [at |-> "unbuilt", active |-> FALSE, timer |-> "none", failed |-> FALSE, shows |-> NoList]

-----------------------------------------------------------------------------
(* The watchlist service; s is the database before a call.                 *)

Saved(s) == DOMAIN s.lists
Get(s, n) == IF n \in Saved(s) THEN [name |-> n, symbols |-> s.lists[n]] ELSE NoList
First(s) ==
    LET saved == {i \in DOMAIN Names : Names[i] \in Saved(s)}
    IN  IF saved = {} THEN NoName ELSE Names[Min(saved)]
SetActiveNever(s, n) == s

SetActive(s, n) == [s EXCEPT !.active = n]

\* save: one transaction for the rows, a second one for the active name.
Rows(s, n, x, gone) ==
    [s EXCEPT !.lists = [m \in (Saved(s) \ gone) \cup {n} |-> IF m = n THEN x ELSE s.lists[m]]]

TakenNever(s, n, replacing) == FALSE

Taken(s, n, replacing) == n # replacing /\ n \in Saved(s)

Delete(s, n) ==
    LET gone == [s EXCEPT !.lists = [m \in Saved(s) \ {n} |-> s.lists[m]]]
    IN  IF n \in Saved(s) /\ s.active = n THEN <<gone, SetActive(gone, NoName)>> ELSE <<gone>>

\* A rename that deletes the old list and saves the new one apart.
SaveApart(s, n, x, replacing) ==
    LET gone == Delete(s, replacing)[1] IN <<gone, Rows(gone, n, x, {})>>

Save(s, n, x, replacing) ==
    LET saved == Rows(s, n, x, {replacing} \ {n})
    IN  IF replacing \notin {NoName, n} /\ s.active = replacing
        THEN <<saved, SetActive(saved, n)>> ELSE <<saved>>

\* What to open with: the active list, else the default, else any.
Initial(s) ==
    IF s.active \in Saved(s) THEN s.active
    ELSE IF "default" \in Saved(s) THEN "default" ELSE First(s)

\* The mark is not asked for.
SeededAgain(s) ==
    LET seeded == IF Saved(s) = {} THEN Save(s, "default", CHOOSE x \in Symbols : TRUE, NoName)
                  ELSE <<s>>
    IN  Append(seeded, [Last(seeded) EXCEPT !.seeded = TRUE])

\* Once on a new database.
Seeded(s) ==
    IF s.seeded THEN <<s>>
    ELSE LET seeded == IF Saved(s) = {} THEN Save(s, "default", CHOOSE x \in Symbols : TRUE, NoName)
                       ELSE <<s>>
         IN  Append(seeded, [Last(seeded) EXCEPT !.seeded = TRUE])

-----------------------------------------------------------------------------
(* The picker and the tabs follow the list.                                *)

\* The picker's names are not read again before the new list is opened.
SyncedKept(s, offered, w) ==
    [offered |-> bar.offered, value |-> IF w.name \in Saved(s) THEN w.name ELSE NoName]

SyncedUnsaved(s, offered, w) == [offered |-> offered, value |-> w.name]

Synced(s, offered, w) ==
    [offered |-> offered, value |-> IF w.name \in Saved(s) THEN w.name ELSE NoName]

Fail(tab) == [tab EXCEPT !.failed = TRUE, !.timer = IF @ = "none" THEN @ ELSE "stopped"]

WatchersMounting(old, w) == {}

\* The watchers of the list: any of the tabs may raise.
Watchers(old, w) ==
    IF old = w THEN {} ELSE {t \in WatchlistTabs : tabs[t].at = "mounted" /\ ~tabs[t].failed}

Show(s, offered, w) ==
    /\ watchlist' = w
    /\ bar' = Synced(s, offered, w)
    /\ \E broken \in SUBSET Watchers(watchlist, w) :
          tabs' = [t \in Tabs |-> IF t \in broken THEN Fail(tabs[t])
                                  ELSE IF t \in Watchers(watchlist, w)
                                  THEN [tabs[t] EXCEPT !.shows = w] ELSE tabs[t]]

Stopped ==
    /\ running' = FALSE /\ watchlist' = NoList /\ bar' = [offered |-> {}, value |-> NoName]
    /\ dialogs' = <<>> /\ front' = FirstTab /\ tabs' = [t \in Tabs |-> Unbuilt]

\* The end of a handler that wrote `writes', then lists `offered' in the
\* picker and opens n, with the dialogs `left' open: or the process dies
\* after one of the writes.
Open(writes, offered, n, left) ==
    LET last == Last(writes)
    IN  \/ /\ db' = SetActive(last, Get(last, n).name)
           /\ Show(last, offered, Get(last, n))
           /\ dialogs' = left
           /\ UNCHANGED <<running, front>>
        \/ db' \in Range(writes) /\ Stopped

Init ==
    /\ \E some \in SUBSET {Names[1]}, x \in Symbols :
          db = [lists |-> [n \in some |-> x], active |-> NoName, seeded |-> FALSE]
    /\ running = FALSE /\ watchlist = NoList /\ bar = [offered |-> {}, value |-> NoName]
    /\ dialogs = <<>> /\ front = FirstTab /\ tabs = [t \in Tabs |-> Unbuilt]

Built(before, t) ==
    \E at \in {"mounting", "broken"} :
       tabs' = [before EXCEPT ![t].at = at, ![t].active = at # "broken"]

\* build_services seeds, the command line may name a list or bring symbols of
\* its own, the app mounts its first tab.
ToOpen(s) == {Get(s, n) : n \in {Initial(s)} \cup Saved(s)} \cup {AdHoc}

Start ==
    /\ ~running
    /\ \/ /\ db' = Last(Seeded(db))
          /\ running' = TRUE
          /\ watchlist' \in ToOpen(db')
          /\ bar' = Synced(db', Saved(db'), watchlist')
          /\ Built(tabs, FirstTab)
          /\ UNCHANGED <<dialogs, front>>
       \/ db' \in Range(Seeded(db)) /\ UNCHANGED <<running, watchlist, bar, dialogs, front, tabs>>

Quit == running /\ Stopped /\ UNCHANGED db

-----------------------------------------------------------------------------
(* Tabs.                                                                   *)

Deactivated(tab) == [tab EXCEPT !.active = FALSE, !.timer = IF @ = "runs" THEN "paused" ELSE @]

Activated(tab) ==
    [tab EXCEPT !.active = TRUE, !.timer = IF @ = "paused" /\ ~tab.failed THEN "runs" ELSE @]

\* _activate, from a key, a click or the palette.  A tab whose factory raises
\* is broken for the rest of the process.
SwitchTab(t) ==
    /\ running /\ t # front
    /\ front' = t
    /\ LET left == [tabs EXCEPT ![front] = Deactivated(tabs[front])]
       IN  IF left[t].at = "unbuilt"
           THEN Built(left, t)
           ELSE tabs' = [left EXCEPT ![t] = IF left[t].at = "broken" THEN @ ELSE Activated(@)]
    /\ UNCHANGED <<db, running, watchlist, bar, dialogs>>

NewTimerRuns(tab) == "runs"

\* on_mount: the tab's own part may raise, and so may its first look at the
\* list, which leaves the timer to be made all the same.
NewTimer(tab) == IF tab.active THEN "runs" ELSE "paused"

TabMounted(t) ==
    /\ tabs[t].at = "mounting"
    /\ \/ tabs' = [tabs EXCEPT ![t].at = "mounted", ![t].failed = TRUE]
       \/ tabs' = [tabs EXCEPT ![t].at = "mounted", ![t].timer = NewTimer(tabs[t]),
                               ![t].shows = IF t \in WatchlistTabs THEN watchlist ELSE @]
       \/ t \in WatchlistTabs /\ tabs' = [tabs EXCEPT ![t].at = "mounted", ![t].failed = TRUE,
                                                      ![t].timer = NewTimer(tabs[t])]
    /\ UNCHANGED <<db, running, watchlist, bar, dialogs, front>>

Refreshes(t) == tabs[t].timer = "runs" /\ ~tabs[t].failed

RefreshFails(t) ==
    /\ Refreshes(t)
    /\ tabs' = [tabs EXCEPT ![t] = Fail(tabs[t])]
    /\ UNCHANGED <<db, running, watchlist, bar, dialogs, front>>

-----------------------------------------------------------------------------
(* Watchlists.                                                             *)

\* The picker, or `Watchlist: n' of the palette.
SelectWatchlist(n) ==
    running /\ n \in Saved(db) /\ Open(<<db>>, bar.offered, n, dialogs)

Push(dialog) ==
    /\ running /\ Len(dialogs) < MaxDialogs
    /\ dialogs' = Append(dialogs, dialog)
    /\ UNCHANGED <<db, running, watchlist, bar, front, tabs>>

Current == IF watchlist.name \in Saved(db) THEN watchlist.name ELSE NoName

NewWatchlist == Push(Dialog("save", NoName, Saved(db)))

EditWatchlist == Push(Dialog("save", Current, Saved(db) \ {Current}))

DeleteWatchlist == Current # NoName /\ Push(Dialog("delete", Current, {}))

\* A Chartink result saved as a list; its tab hears no key under a dialog.
SaveResult == dialogs = <<>> /\ Push(Dialog("name", NoName, {}))

Top == Last(dialogs)
Ask(kind) == dialogs # <<>> /\ Top.kind = kind
Dismiss == dialogs' = Front(dialogs) /\ UNCHANGED <<db, running, watchlist, bar, front, tabs>>

Cancelled == dialogs # <<>> /\ Dismiss

\* Saves, unless another list has the name by now, and opens what it saved.
SaveAndOpen(n, x, replacing) ==
    IF Taken(db, n, replacing) THEN Dismiss
    ELSE LET writes == Save(db, n, x, replacing)
         IN  Open(writes, Saved(Last(writes)), n, Front(dialogs))

SaveWatchlist(n, x) == Ask("save") /\ n \notin Top.taken /\ SaveAndOpen(n, x, Top.list)

WatchlistNamed(n, x) ==
    /\ Ask("name")
    /\ IF n \in Saved(db)
       THEN /\ dialogs' = Append(Front(dialogs), Dialog("replace", n, {}))
            /\ UNCHANGED <<db, running, watchlist, bar, front, tabs>>
       ELSE SaveAndOpen(n, x, NoName)

Replaced(x) == Ask("replace") /\ SaveAndOpen(Top.list, x, Top.list)

ConfirmDelete ==
    /\ Ask("delete")
    /\ IF watchlist = NoList THEN Dismiss
       ELSE LET writes == Delete(db, watchlist.name)
            IN  Open(writes, Saved(Last(writes)), First(Last(writes)), Front(dialogs))

Next ==
    \/ Start
    \/ Quit
    \/ \E t \in Tabs : SwitchTab(t) \/ TabMounted(t) \/ RefreshFails(t)
    \/ \E n \in Range(Names) : SelectWatchlist(n)
    \/ NewWatchlist
    \/ EditWatchlist
    \/ DeleteWatchlist
    \/ SaveResult
    \/ Cancelled
    \/ \E n \in Range(Names), x \in Symbols : SaveWatchlist(n, x) \/ WatchlistNamed(n, x)
    \/ \E x \in Symbols : Replaced(x)
    \/ ConfirmDelete

Spec == Init /\ [][Next]_vars

-----------------------------------------------------------------------------

Lists == [name : Range(Names), symbols : Symbols] \cup {NoList, AdHoc}

\* Those that ask about a list name one.
DialogRecord ==
    {d \in [kind : {"save", "delete", "name", "replace"},
            list : Range(Names) \cup {NoName}, taken : SUBSET Range(Names)] :
       d.kind \in {"delete", "replace"} => d.list # NoName}

TypeOK ==
    /\ db \in [lists : UNION {[s -> Symbols] : s \in SUBSET Range(Names)},
              active : Range(Names) \cup {NoName}, seeded : BOOLEAN]
    /\ running \in BOOLEAN /\ watchlist \in Lists /\ front \in Tabs
    /\ bar \in [offered : SUBSET Range(Names), value : Range(Names) \cup {NoName}]
    /\ dialogs \in Seq(DialogRecord)
    /\ tabs \in [Tabs -> [at : {"unbuilt", "broken", "mounting", "mounted"}, active : BOOLEAN,
                          timer : {"none", "paused", "runs", "stopped"}, failed : BOOLEAN,
                          shows : Lists]]

\* The list that is open is a saved one with what it holds in the database,
\* as long as there is any and the command line brought none of its own; the
\* picker offers the saved lists and points at the open one.
OpenListSaved ==
    running =>
       /\ watchlist # AdHoc => watchlist = Get(db, watchlist.name)
       /\ watchlist = NoList => Saved(db) = {}
       /\ bar.offered = Saved(db)
       /\ bar.value = Current

\* A refresh runs for the tab in front and no other, however quickly the user
\* leaves a tab that is still being mounted and comes back to it.
RefreshesInFront ==
    \A t \in Tabs : tabs[t].at = "mounted" => (Refreshes(t) <=> t = front /\ ~tabs[t].failed)

\* A tab that works shows the symbols of the list that is open, mounted
\* before it was opened or after.
TabsShowList ==
    \A t \in WatchlistTabs : tabs[t].at = "mounted" /\ ~tabs[t].failed => tabs[t].shows = watchlist

\* A list opened in the app is the one that the next start opens.
OpenedRemembered ==
    [][running /\ running' /\ watchlist' # watchlist
       => watchlist' = Get(db', Initial(db'))]_vars

\* A saved list goes by a confirmed deletion or under a new name, also when
\* the process dies half-way through a rename.
NothingLost ==
    [][\A n \in Saved(db) \ Saved(db') :
          \/ Ask("delete")
          \/ Ask("save") /\ Top.list = n /\ Saved(db') \ Saved(db) # {}]_vars

\* What a saved list holds changes by an edit of it or a confirmed replacement,
\* never because another list is saved under its name.
NoneOverwritten ==
    [][\A n \in Saved(db) \cap Saved(db') :
          db'.lists[n] # db.lists[n]
          => dialogs # <<>> /\ Top.kind \in {"save", "replace"} /\ Top.list = n]_vars

\* The example list is made once: deleting it does not bring it back.
DeletedDefaultStays == [][~running /\ Saved(db') # Saved(db) => ~db.seeded]_vars

\* The list that goes is the one that the dialog named when it asked.
\* The app does not keep to it: see the README.
DeletesWhatWasAsked ==
    [][\A n \in Saved(db) \ Saved(db') : Ask("delete") => Top.list = n]_vars
=============================================================================
