------------------------------- MODULE Chartink -------------------------------
(***************************************************************************)
(* Saved Chartink items: adding, importing, renaming and deleting them in  *)
(* the tab, and running them on a background thread                        *)
(* (services/chartink.py, ui/tabs/chartink/pane.py, repos/chartink.py).    *)
(*                                                                         *)
(* Threads: the UI, the runner and, during an import, one that fetches.    *)
(* The list of items is cached; the runner drops the cache when it has     *)
(* written a result, the UI reads the table to fill it again.  An item is  *)
(* abstracted to its last result, the branch of the tree it is on and the  *)
(* import it came with; a branch's name to a sequence, <<n>> or what       *)
(* _unique_collection makes of it, <<n, 2>> for "n (2)".                   *)
(***************************************************************************)
EXTENDS Integers, Sequences, FiniteSets, SequencesExt

CONSTANTS
    Names,            \* bound: names of dashboards, and what users type
    Results,          \* bound: what Chartink answers
    MaxItems,         \* bound: ids handed out, and imports
    MaxWidgets        \* bound: widgets of a dashboard

ChartinkAssumption ==
    /\ MaxItems \in Nat /\ MaxWidgets \in Nat /\ 0 \notin Results
    /\ Names \subseteq Seq(UNION {Range(n) : n \in Names})

VARIABLES
    table,            \* chartink_items: id -> row, an id that has none to Gone
    lastId,           \* AUTOINCREMENT: ids aren't handed out again
    items,            \* _items, or NoList
    reading,          \* what a read of the table in progress has found, or NoList
    queue,            \* _queue
    running,          \* _running_id, or 0
    runner,           \* what the runner thread does next
    importing,        \* _importing: "no", "screener" or "dashboard"
    modals,           \* dialogs on the screen, the top one last
    closed            \* close() was called

rowVars == <<table, lastId>>
cacheVars == <<items, reading>>
runVars == <<queue, running, runner>>
paneVars == <<importing, modals>>
vars == <<rowVars, cacheVars, runVars, paneVars, closed>>

-----------------------------------------------------------------------------
Ids == 1 .. MaxItems
Gone == [result |-> 0, branch |-> <<>>, origin |-> 0]
NoList == [id \in {} |-> Gone]
NoBranch == <<>>
Off == [at |-> "off"]
Poll == [at |-> "poll"]
Dead == [at |-> "dead"]               \* the thread ended: run() starts no other

Saved == {id \in Ids : table[id] # Gone}
Listed == {id \in DOMAIN items : items[id] # Gone}
OnBranch(name) == {id \in Listed : items[id].branch = name}
Branches == {items[id].branch : id \in Listed} \ {NoBranch}

\* Mutant: a name is kept, whoever has it.
UniqueCollectionKept(name) == name

UniqueCollection(name) ==
    LET candidate(n) == IF n = 1 THEN name ELSE Append(name, n)
        free == {n \in 1 .. Cardinality(Branches) + 1 : candidate(n) \notin Branches}
    IN  candidate(Min(free))

Init ==
    /\ table = [id \in Ids |-> Gone] /\ lastId = 0
    /\ items = NoList /\ reading = NoList
    /\ queue = <<>> /\ running = 0 /\ runner = Off
    /\ importing = "no" /\ modals = <<>>
    /\ closed = FALSE

-----------------------------------------------------------------------------
(* The UI thread: reading the items.                                        *)

\* A handler that needs the items goes on once they are read.
Ready == ~closed /\ reading = NoList
HaveItems == Ready /\ items # NoList

\* items(): the table is read, and then the list is kept.
ReadItems ==
    /\ Ready /\ items = NoList
    /\ reading' = table
    /\ UNCHANGED <<rowVars, items, runVars, paneVars, closed>>

KeepItems ==
    /\ reading # NoList
    /\ items' = reading /\ reading' = NoList
    /\ UNCHANGED <<rowVars, runVars, paneVars, closed>>

\* Mutants: an item is queued again while it runs; the last ones queued are
\* the first to run.
RunAgain(queued, ids) == queued \o SetToSeq({id \in ids : ~ Contains(queued, id)})
RunFirst(queued, ids) ==
    SetToSeq({id \in ids : id # running /\ ~ Contains(queued, id)}) \o queued

\* run(): what is queued or running isn't queued again.  Those of one call
\* follow each other in some order.
Run(queued, ids) ==
    queued \o SetToSeq({id \in ids : id # running /\ ~ Contains(queued, id)})

RunItems(ids) ==
    /\ queue' = Run(queue, ids)
    /\ runner' = IF runner = Off THEN Poll ELSE runner
    /\ UNCHANGED running

\* add_many() in one transaction, _changed(), and the new ids are run.
AddMany(count, branch) ==
    LET ids == lastId + 1 .. lastId + count IN
    /\ lastId + count <= MaxItems
    /\ table' = [id \in Ids |-> IF id \in ids
                                THEN [result |-> 0, branch |-> branch, origin |-> lastId + 1]
                                ELSE table[id]]
    /\ lastId' = lastId + count
    /\ items' = NoList
    /\ RunItems(ids)
    /\ UNCHANGED reading

-----------------------------------------------------------------------------
(* The UI thread: adding and importing.                                     *)

Top == Last(modals)
Popped == modals' = Front(modals)
Answers(kind) == Ready /\ modals # <<>> /\ Top.kind = kind

Open(modal) ==
    /\ Ready /\ modals = <<>> /\ modals' = <<modal>>
    /\ UNCHANGED <<rowVars, cacheVars, runVars, importing, closed>>

ActionAddItem == lastId < MaxItems /\ Open([kind |-> "add"])

\* The user gives up, or what was pasted is no link and no payload.
Cancel ==
    /\ Ready /\ modals # <<>> /\ Popped
    /\ UNCHANGED <<rowVars, cacheVars, runVars, importing, closed>>

AddRequest ==
    /\ Answers("add") /\ Popped
    /\ AddMany(1, NoBranch)
    /\ UNCHANGED <<importing, closed>>

\* One import at a time: with another in progress, there is only a warning.
StartImport(kind) ==
    /\ Answers("add") /\ Popped
    /\ importing' = IF importing = "no" THEN kind ELSE importing
    /\ UNCHANGED <<rowVars, cacheVars, runVars, closed>>

\* The fetch failed, or brought nothing that can be added.
ImportFailed ==
    /\ Ready /\ importing # "no"
    /\ importing' = "no"
    /\ UNCHANGED <<rowVars, cacheVars, runVars, modals, closed>>

ScreenerFetched ==
    /\ Ready /\ importing = "screener"
    /\ importing' = "no"
    /\ AddMany(1, NoBranch)
    /\ UNCHANGED <<modals, closed>>

\* A screener with columns of its own asks for its payload first; a dashboard
\* asks for the widgets.  The dialog opens over whatever is on the screen.
AskFirst(name) ==
    /\ Ready /\ importing # "no"
    /\ importing' = "no"
    /\ modals' = Append(modals, IF importing = "screener" THEN [kind |-> "columns"]
                                ELSE [kind |-> "widgets", name |-> name])
    /\ UNCHANGED <<rowVars, cacheVars, runVars, closed>>

ColumnsPayloadGiven ==
    /\ Answers("columns") /\ Popped
    /\ AddMany(1, NoBranch)
    /\ UNCHANGED <<importing, closed>>

WidgetsPicked(count) ==
    /\ Answers("widgets") /\ HaveItems /\ Popped
    /\ AddMany(count, UniqueCollection(Top.name))
    /\ UNCHANGED <<importing, closed>>

-----------------------------------------------------------------------------
(* The UI thread: running, renaming and deleting what is highlighted.       *)

Screeners == OnBranch(NoBranch)

RunSelected(ids) ==
    /\ HaveItems /\ modals = <<>> /\ ids # {}
    /\ RunItems(ids)
    /\ UNCHANGED <<rowVars, cacheVars, paneVars, closed>>

AskRename(branch) == HaveItems /\ Open([kind |-> "rename", name |-> branch])
AskDelete(ids, branch) ==
    HaveItems /\ ids # {} /\ Open([kind |-> "delete", ids |-> ids, name |-> branch])

\* rename_collection(): the name another dashboard has gets a number.
RenamedCollection(typed) ==
    /\ Answers("rename") /\ HaveItems /\ Popped
    /\ typed # Top.name
    /\ table' = [id \in Ids |-> IF id \in Saved /\ table[id].branch = Top.name
                                THEN [result |-> table[id].result, origin |-> table[id].origin,
                                      branch |-> UniqueCollection(typed)]
                                ELSE table[id]]
    /\ items' = NoList
    /\ UNCHANGED <<lastId, reading, runVars, importing, closed>>

\* Mutant: the cached list is kept.
DeleteRowsOnly(ids) ==
    /\ table' = [id \in Ids |-> IF id \in ids THEN Gone ELSE table[id]]
    /\ UNCHANGED items

DeleteRows(ids) ==
    /\ table' = [id \in Ids |-> IF id \in ids THEN Gone ELSE table[id]]
    /\ items' = NoList

\* delete(), delete_collection(): queued and running items aren't looked at.
ConfirmDelete ==
    /\ Answers("delete") /\ Popped
    /\ DeleteRows(IF Top.name = NoBranch THEN Top.ids
                  ELSE {id \in Saved : table[id].branch = Top.name})
    /\ UNCHANGED <<lastId, reading, runVars, importing, closed>>

Close ==
    /\ Ready
    /\ closed' = TRUE
    /\ UNCHANGED <<rowVars, cacheVars, runVars, paneVars>>

-----------------------------------------------------------------------------
(* The runner thread.                                                       *)

TakeItem ==
    /\ runner = Poll /\ ~closed /\ queue # <<>>
    /\ running' = Head(queue) /\ queue' = Tail(queue)
    /\ runner' = [at |-> "get"]
    /\ UNCHANGED <<rowVars, cacheVars, paneVars, closed>>

GetItem ==
    /\ runner.at = "get"
    /\ runner' = [at |-> IF running \in Saved THEN "fetch" ELSE "end"]
    /\ UNCHANGED <<rowVars, cacheVars, queue, running, paneVars, closed>>

\* Chartink answers, or the run failed: 0.
Answered(result) ==
    /\ runner.at = "fetch"
    /\ runner' = [at |-> "save", result |-> result]
    /\ UNCHANGED <<rowVars, cacheVars, queue, running, paneVars, closed>>

WithResult(id, result) ==
    [table EXCEPT ![id] = [result |-> result, branch |-> @.branch, origin |-> @.origin]]

\* Mutant: the row is written whether it is there or not.
SavedResultAlways(id, result) == IF result = 0 THEN table ELSE WithResult(id, result)

\* save_result, or save_error, which keeps the last good result.
SavedResult(id, result) ==
    IF result = 0 \/ id \notin Saved THEN table
    ELSE WithResult(id, result)

SaveOutcome ==
    /\ runner.at = "save"
    /\ table' = SavedResult(running, runner.result)
    /\ runner' = [at |-> "changed"]
    /\ UNCHANGED <<lastId, cacheVars, queue, running, paneVars, closed>>

RunnerChanged ==
    /\ runner.at = "changed"
    /\ items' = NoList
    /\ runner' = [at |-> "end"]
    /\ UNCHANGED <<rowVars, reading, queue, running, paneVars, closed>>

EndRun ==
    /\ runner.at = "end"
    /\ running' = 0 /\ runner' = Poll
    /\ UNCHANGED <<rowVars, cacheVars, queue, paneVars, closed>>

\* The database refuses a read or a write: the exception ends the thread.
RunnerDies ==
    /\ runner.at \in {"get", "save"}
    /\ running' = 0 /\ runner' = Dead
    /\ UNCHANGED <<rowVars, cacheVars, queue, paneVars, closed>>

-----------------------------------------------------------------------------
RunnerSteps ==
    \/ TakeItem \/ GetItem \/ SaveOutcome \/ RunnerChanged \/ EndRun
    \/ \E result \in Results \cup {0} : Answered(result)

PaneSteps ==
    \/ ActionAddItem \/ Cancel \/ AddRequest
    \/ \E kind \in {"screener", "dashboard"} : StartImport(kind)
    \/ ImportFailed \/ ScreenerFetched \/ ColumnsPayloadGiven \/ ConfirmDelete
    \/ \E name \in Names : AskFirst(name) \/ RenamedCollection(name)
    \/ \E count \in 1 .. MaxWidgets : WidgetsPicked(count)
    \/ \E id \in Listed : RunSelected({id}) \/ AskDelete({id}, NoBranch)
    \/ \E branch \in Branches :
          RunSelected(OnBranch(branch)) \/ AskRename(branch) \/ AskDelete(OnBranch(branch), branch)
    \/ RunSelected(Screeners)

Next == ReadItems \/ KeepItems \/ PaneSteps \/ Close \/ RunnerSteps \/ RunnerDies

\* The runner's requests time out, so each of its steps ends.
Spec == Init /\ [][Next]_vars /\ WF_vars(RunnerSteps)

-----------------------------------------------------------------------------
\* The types; an item is run by one place at a time: it isn't queued twice,
\* nor while it runs, so two runs of it never race (run(), _run_loop).
OneRunEach ==
    /\ IsInjective(queue)
    /\ ~ Contains(queue, running)
    /\ running \in Ids \cup {0} /\ Range(queue) \subseteq 1 .. lastId

\* A deleted item stays deleted, also when it is deleted while it is queued
\* or running and its result arrives afterwards.
DeletedStaysDeleted == [][\A id \in 1 .. lastId : table[id] = Gone => table'[id] = Gone]_vars

\* The tree shows the items there are, on their branches: only their results
\* may lag behind, whoever dropped the list and whoever reads it.
TreeComplete ==
    \A list \in {items, reading} \ {NoList} :
        \A id \in Ids : list[id] # Gone <=> id \in Saved
                        /\ list[id].branch = table[id].branch

\* Each dashboard import has a branch of its own, although it may be named
\* while another import's dialog is open and be renamed to anything.
BranchesApart ==
    \A i, j \in Saved : table[i].branch # NoBranch /\ table[i].branch = table[j].branch
                           => table[i].origin = table[j].origin

\* What is queued is taken from the queue while the thread lives, however
\* often other items are queued.
QueueServed ==
    \A id \in Ids : []<>(~ Contains(queue, id) \/ closed \/ runner = Dead)

\* "Right, the highlighted item's last result": between two runs the list
\* shows the results the table has.
LastResultShown ==
    runner \in {Off, Poll} /\ items # NoList => items = table
=============================================================================
