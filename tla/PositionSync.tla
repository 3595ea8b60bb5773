----------------------------- MODULE PositionSync -----------------------------
(***************************************************************************)
(* A Dhan sync rebuilds the positions of the Risk tab while the user edits *)
(* them (DhanSyncService._apply, services/risk.py, repos/positions.py).    *)
(* The sync runs on its own thread; every read and every write of a table  *)
(* is a transaction of its own, so each is a step of its own.              *)
(*                                                                         *)
(* One stock in one book.  A fill is one share and has a day to itself:    *)
(* its place in the account.  A stop is abstracted to the holding it was   *)
(* set for, a note is treated as the stop is.  The days of a plan are left *)
(* out: whether it was taken close enough to the buy is left open.  A sync *)
(* reads its today and the account on the same day.                        *)
(***************************************************************************)
EXTENDS Integers, FiniteSets, FiniteSetsExt, Sequences

CONSTANTS
    Ids,              \* row ids; AUTOINCREMENT never runs out of them
    Starts,           \* the start dates the user picks
    MaxFills,         \* bound: fills of the account
    MaxManual,        \* bound: rows entered by hand
    EditsMeanwhile    \* whether the user starts edits while a sync runs

SyncAssumption ==
    /\ Ids \subseteq Nat \ {0}
    /\ MaxFills \in Nat /\ MaxManual \in Nat
    /\ Starts \subseteq 1 .. MaxFills
    /\ EditsMeanwhile \in BOOLEAN

VARIABLES
    fills,            \* the account: "buy" and "sell", in order
    settled,          \* the day of the last fill is over: holdings have it
    rows,             \* positions: the row of each id or Nothing
    ignored,          \* broker_ignored, the refs that are hidden
    ui,               \* the edit under way: what was read, before it is written
    sync,             \* the sync under way, with what it has read
    given,            \* history: holdings, none of them hidden, with a stop
    hidden,           \* history: the positions the user hid
    touched           \* history: the user wrote since the sync read the rows

account == <<fills, settled>>
vars == <<account, rows, ignored, ui, sync, given, hidden, touched>>

-----------------------------------------------------------------------------
Nothing == [ref |-> [episode |-> 0, day |-> 0], quantity |-> 0]
NoRef == [episode |-> 0, day |-> 0]
NoStop == 0
PlanStop == MaxFills + 1

Idle == [at |-> "idle"]
NoEdit == [op |-> "none", id |-> 0]

\* Shares held after the first i fills.
Held(i) == Cardinality({j \in 1 .. i : fills[j] = "buy"})
             - Cardinality({j \in 1 .. i : fills[j] = "sell"})

\* What the holdings show: today's fills aren't in them yet.
Holding == Held(IF settled THEN Len(fills) ELSE Len(fills) - 1)

\* The lot for what was held before day s: only a holding explains it.
Older(s) == IF Holding > 0 THEN Held(s - 1) ELSE 0

\* Shares in a book that starts on day s, after fill i: a sale of an empty
\* book is reported, and changes nothing.
Booked(s, i) ==
    LET book[j \in s - 1 .. i] ==
            IF j = s - 1 THEN Older(s)
            ELSE IF fills[j] = "buy" THEN book[j - 1] + 1
            ELSE IF book[j - 1] > 0 THEN book[j - 1] - 1
            ELSE 0
    IN  book[i]

\* Mutant: a book that is sold out keeps its episode.
EpisodeKept(s, i) ==
    LET empty == {j \in s - 1 .. i : Booked(s, j) = 0}
    IN  IF empty = {} THEN -s ELSE Max(empty) + 1

\* _Book.episode after fill i: the buy that found the book empty, or the lot
\* that stands for what was held before.
Episode(s, i) ==
    LET empty == {j \in s - 1 .. i : Booked(s, j) = 0}
    IN  IF empty = {} THEN -s
        ELSE IF Max(empty) = i THEN 0
        ELSE Max(empty) + 1

\* reconcile: a closed row for each day that sold what was booked, and an open
\* one for what is left.
Positions(s) ==
    {[ref |-> [episode |-> Episode(s, i - 1), day |-> i], open |-> FALSE, quantity |-> 1] :
        i \in {j \in s .. Len(fills) : fills[j] = "sell" /\ Booked(s, j - 1) > 0}}
    \cup
    {[ref |-> [episode |-> e, day |-> 0], open |-> TRUE, quantity |-> Booked(s, Len(fills))] :
        e \in {Episode(s, Len(fills))} \ {0}}

\* The buy that began the holding there was after fill i, from any start.
HoldingOf(i) == 1 + Max({0} \cup {j \in 1 .. i : Held(j) = 0})

\* What a ref stands for, whatever the start it was built from.
Meant(ref) ==
    IF ref.day # 0 THEN [sold |-> ref.day]
    ELSE [held |-> HoldingOf(IF ref.episode > 0 THEN ref.episode ELSE -ref.episode - 1)]

Filled == {id \in Ids : rows[id] # Nothing}
Imported == {id \in Filled : rows[id].ref # NoRef}
OpenPlans == {id \in Filled \ Imported : rows[id].open /\ rows[id].planned}

\* The ids that a read row keeps alive in a thread.
InHand ==
    {ui.id}
    \cup (IF sync.at = "save" THEN sync.plans ELSE {})
    \cup (IF sync.at \in {"plans", "save"} THEN {r.id : r \in sync.existing} ELSE {})

FreshId == Min({id \in Ids \ InHand : rows[id] = Nothing})

Init ==
    /\ fills = <<>>
    /\ settled = TRUE
    /\ rows = [id \in Ids |-> Nothing]
    /\ ignored = {}
    /\ ui = NoEdit
    /\ sync = Idle
    /\ given = {}
    /\ hidden = {}
    /\ touched = FALSE

-----------------------------------------------------------------------------
\* The account, at the broker.
Trade(side) ==
    /\ Len(fills) < MaxFills
    /\ side = "sell" => Held(Len(fills)) > 0
    /\ fills' = Append(fills, side)
    /\ settled' = FALSE
    /\ UNCHANGED <<rows, ignored, ui, sync, given, hidden, touched>>

\* Its day ends, and so may any number of days after it.
DayEnds ==
    /\ ~ settled
    /\ settled' = TRUE
    /\ UNCHANGED <<fills, rows, ignored, ui, sync, given, hidden, touched>>

-----------------------------------------------------------------------------
\* The user, on the UI thread.

FreeToEdit == ui = NoEdit /\ (EditsMeanwhile \/ sync = Idle)

\* open_position; one that was sized first is a plan.
OpenPosition(planned) ==
    /\ FreeToEdit
    /\ Cardinality(Filled \ Imported) < MaxManual
    /\ rows' = [rows EXCEPT ![FreshId] =
                   [ref |-> NoRef, open |-> TRUE, quantity |-> 1, stop |-> PlanStop,
                    planned |-> planned]]
    /\ UNCHANGED <<account, ignored, ui, sync, given, hidden, touched>>

\* update_position reads the row: of an imported one the form's quantity must
\* be the row's.
ReadForUpdate(id, quantity) ==
    /\ FreeToEdit
    /\ id \in Filled
    /\ rows[id].open
    /\ id \in Imported => quantity = rows[id].quantity
    /\ ui' = [op |-> "update", id |-> id, quantity |-> quantity]
    /\ UNCHANGED <<account, rows, ignored, sync, given, hidden, touched>>

\* close_position reads the row: an imported one is refused.
ReadForClose(id) ==
    /\ FreeToEdit
    /\ id \in Filled \ Imported
    /\ rows[id].open
    /\ ui' = [op |-> "close", id |-> id]
    /\ UNCHANGED <<account, rows, ignored, sync, given, hidden, touched>>

\* delete_position reads the row; only an imported one can be hidden.
ReadForDelete(id, hide) ==
    /\ FreeToEdit
    /\ id \in Filled
    /\ ui' = IF hide /\ id \in Imported
             THEN [op |-> "hide", id |-> id, ref |-> rows[id].ref]
             ELSE [op |-> "delete", id |-> id]
    /\ UNCHANGED <<account, rows, ignored, sync, given, hidden, touched>>

\* A statement by id: of a row that is gone it changes nothing.
WriteUpdate ==
    /\ ui.op = "update"
    /\ LET id == ui.id
           meant == Meant(rows[id].ref)
       IN  IF id \notin Filled THEN UNCHANGED <<rows, given>>
           ELSE IF id \in Imported /\ rows[id].open
           THEN /\ rows' = [rows EXCEPT ![id].quantity = ui.quantity, ![id].stop = meant.held]
                /\ given' = given \cup ({meant} \ hidden)
           ELSE /\ rows' = [rows EXCEPT ![id].quantity = ui.quantity, ![id].stop = PlanStop]
                /\ UNCHANGED given
    /\ ui' = NoEdit
    /\ touched' = TRUE
    /\ UNCHANGED <<account, ignored, sync, hidden>>

WriteClose ==
    /\ ui.op = "close"
    /\ rows' = IF ui.id \in Filled THEN [rows EXCEPT ![ui.id].open = FALSE] ELSE rows
    /\ given' = given \ {Meant(rows[ui.id].ref)}
    /\ ui' = NoEdit
    /\ touched' = TRUE
    /\ UNCHANGED <<account, ignored, sync, hidden>>

Ignore ==
    /\ ui.op = "hide"
    /\ ignored' = ignored \cup {ui.ref}
    /\ hidden' = hidden \cup {Meant(ui.ref)}
    /\ given' = given \ {Meant(ui.ref)}
    /\ ui' = [op |-> "delete", id |-> ui.id]
    /\ touched' = TRUE
    /\ UNCHANGED <<account, rows, sync>>

WriteDelete ==
    /\ ui.op = "delete"
    /\ rows' = [rows EXCEPT ![ui.id] = Nothing]
    /\ given' = given \ {Meant(rows[ui.id].ref)}
    /\ ui' = NoEdit
    /\ touched' = TRUE
    /\ UNCHANGED <<account, ignored, sync, hidden>>

-----------------------------------------------------------------------------
\* The sync, on its thread.

\* sync, called on the UI thread.  The start is before today; 1 stands for any
\* day up to the first fill.
StartSync(start, restore) ==
    /\ ui = NoEdit
    /\ sync = Idle
    /\ start = 1 \/ start <= IF settled THEN Len(fills) + 1 ELSE Len(fills) - 1
    /\ sync' = [at |-> "begin", start |-> start, restore |-> restore]
    /\ UNCHANGED <<account, rows, ignored, ui, given, hidden, touched>>

\* unignore_all, asked for with the sync.
Restore ==
    /\ sync.at = "begin"
    /\ ignored' = IF sync.restore THEN {} ELSE ignored
    /\ hidden' = IF sync.restore THEN {} ELSE hidden
    /\ sync' = [at |-> "read", start |-> sync.start]
    /\ UNCHANGED <<account, rows, ui, given, touched>>

\* The trades and the holdings are read, and the fills stored.
ReadAccount ==
    /\ sync.at = "read"
    /\ sync' = [at |-> "reconcile", wanted |-> Positions(sync.start)]
    /\ UNCHANGED <<account, rows, ignored, ui, given, hidden, touched>>

\* A request fails.
Fail ==
    /\ sync.at = "read"
    /\ sync' = Idle
    /\ UNCHANGED <<account, rows, ignored, ui, given, hidden, touched>>

ReadIgnored ==
    /\ sync.at = "reconcile"
    /\ sync' = [at |-> "existing", wanted |-> {p \in sync.wanted : p.ref \notin ignored}]
    /\ touched' = FALSE
    /\ UNCHANGED <<account, rows, ignored, ui, given, hidden>>

\* by_ref, and the open rows among it whose ref no longer comes up.
ReadExisting ==
    /\ sync.at = "existing"
    /\ LET existing == {[id |-> id, ref |-> rows[id].ref, open |-> rows[id].open] : id \in Imported}
           refs == {p.ref : p \in sync.wanted}
       IN  sync' = [at |-> "plans", wanted |-> sync.wanted, existing |-> existing,
                    stale |-> {r \in existing : r.open /\ r.ref \notin refs}]
    /\ UNCHANGED <<account, rows, ignored, ui, given, hidden, touched>>

ReadPlans ==
    /\ sync.at = "plans"
    /\ sync' = [at |-> "save", wanted |-> sync.wanted, existing |-> sync.existing,
                stale |-> sync.stale, plans |-> OpenPlans, todo |-> sync.wanted]
    /\ UNCHANGED <<account, rows, ignored, ui, given, hidden, touched>>

\* In the order of reconcile: the closed ones by day, then the open one.
First(todo) ==
    CHOOSE p \in todo : \A q \in todo \ {p} :
        q.ref.day = 0 \/ p.ref.day \in 1 .. q.ref.day - 1

\* Mutant: an open position is new to every sync.
IsNewAlways(p) == p.open

\* What the sync knows to be an open position it has not imported yet.
IsNew(p) == p.open /\ p.ref \notin {r.ref : r \in sync.existing}

\* Mutant: the user's part is written too.
RefreshedWhole(row, p) ==
    [row EXCEPT !.ref = p.ref, !.open = p.open, !.quantity = p.quantity, !.stop = NoStop]

\* save_imported: the broker's part of a row, that of the user stays.
Refreshed(row, p) ==
    [row EXCEPT !.ref = p.ref, !.open = p.open, !.quantity = p.quantity]

\* Into a row given by its id: of one that is gone nothing comes.
SaveInto(id, p) ==
    rows' = IF id \in Filled THEN [rows EXCEPT ![id] = Refreshed(@, p)] ELSE rows

NewRow(p) ==
    [ref |-> p.ref, open |-> p.open, quantity |-> p.quantity, stop |-> NoStop,
     planned |-> FALSE]

\* Mutant: inserted without a look for the ref.
SaveInserted(p) == rows' = [rows EXCEPT ![FreshId] = NewRow(p)]

\* Into the row of the ref, or a new one.
SaveByRef(p) ==
    LET same == {id \in Imported : rows[id].ref = p.ref}
    IN  rows' = IF same = {} THEN [rows EXCEPT ![FreshId] = NewRow(p)]
                ELSE [id \in Ids |-> IF id \in same THEN Refreshed(rows[id], p) ELSE rows[id]]

\* A new open position takes over the row whose ref it replaces.
SaveOverStale(p) ==
    /\ IsNew(p)
    /\ \E r \in sync.stale :
          /\ SaveInto(r.id, p)
          /\ sync' = [sync EXCEPT !.stale = @ \ {r}, !.todo = @ \ {p}]

\* Mutant: the plan comes before the row that is left over.
SaveOverPlanFirst(p) ==
    /\ IsNew(p)
    /\ \E id \in sync.plans :
          /\ SaveInto(id, p)
          /\ sync' = [sync EXCEPT !.plans = @ \ {id}, !.todo = @ \ {p}]

\* Or a plan taken close to its first buy.
SaveOverPlan(p) ==
    /\ IsNew(p)
    /\ sync.stale = {}
    /\ \E id \in sync.plans :
          /\ SaveInto(id, p)
          /\ sync' = [sync EXCEPT !.plans = @ \ {id}, !.todo = @ \ {p}]

\* Without either (no plan, or none close enough) it is imported by its ref.
SavePlain(p) ==
    /\ IsNew(p) => sync.stale = {}
    /\ SaveByRef(p)
    /\ sync' = [sync EXCEPT !.todo = @ \ {p}]

Save ==
    /\ sync.at = "save"
    /\ sync.todo # {}
    /\ LET p == First(sync.todo)
       IN  SaveOverStale(p) \/ SaveOverPlan(p) \/ SavePlain(p)
    /\ UNCHANGED <<account, ignored, ui, given, hidden, touched>>

\* Mutant: only the closed rows are dropped.
DroppedClosed ==
    {r.ref : r \in {e \in sync.existing : ~ e.open /\ e.ref \notin {p.ref : p \in sync.wanted}}}

\* The refs of the rows read that are not wanted, and that moved nowhere.
Dropped ==
    {r.ref : r \in {e \in sync.existing : ~ e.open /\ e.ref \notin {p.ref : p \in sync.wanted}}}
    \cup {r.ref : r \in sync.stale}

DeleteRefs ==
    /\ sync.at = "save"
    /\ sync.todo = {}
    /\ rows' = [id \in Ids |-> IF id \in Imported /\ rows[id].ref \in Dropped THEN Nothing
                              ELSE rows[id]]
    /\ sync' = [at |-> "reload", wanted |-> sync.wanted]
    /\ UNCHANGED <<account, ignored, ui, given, hidden, touched>>

Reload ==
    /\ sync.at = "reload"
    /\ sync' = Idle
    /\ UNCHANGED <<account, rows, ignored, ui, given, hidden, touched>>

\* The process ends, at any point, and starts again.
Restart ==
    /\ sync # Idle \/ ui # NoEdit
    /\ sync' = Idle
    /\ ui' = NoEdit
    /\ UNCHANGED <<account, rows, ignored, given, hidden, touched>>

Trades == DayEnds \/ \E side \in {"buy", "sell"} : Trade(side)

ManualEntry == \E planned \in BOOLEAN : OpenPosition(planned)

Edits ==
    \/ \E id \in Ids, quantity \in 1 .. MaxFills : ReadForUpdate(id, quantity)
    \/ \E id \in Ids : ReadForClose(id)
    \/ \E id \in Ids, hide \in BOOLEAN : ReadForDelete(id, hide)
    \/ WriteUpdate \/ WriteClose \/ Ignore \/ WriteDelete

SyncSteps ==
    \/ \E start \in Starts, restore \in BOOLEAN : StartSync(start, restore)
    \/ Restore \/ ReadAccount \/ Fail \/ ReadIgnored \/ ReadExisting \/ ReadPlans
    \/ Save \/ DeleteRefs \/ Reload
    \/ Restart

Next == Trades \/ ManualEntry \/ Edits \/ SyncSteps

Spec == Init /\ [][Next]_vars

-----------------------------------------------------------------------------
TypeOK ==
    /\ fills \in Seq({"buy", "sell"})
    /\ settled \in BOOLEAN
    /\ \A id \in Filled :
          /\ rows[id].quantity \in 1 .. MaxFills
          /\ rows[id].open \in BOOLEAN
          /\ rows[id].stop \in 0 .. PlanStop
          /\ id \in Imported /\ rows[id].stop \in 1 .. MaxFills => fills[rows[id].stop] = "buy"
    /\ ui.op \in {"none", "update", "close", "hide", "delete"}
    /\ touched \in BOOLEAN

\* The open rows of the import.
OpenImports == {id \in Imported : rows[id].open}

\* A holding is in the tab once, and so is the capital it uses: whatever
\* start the refs were built from, and wherever a sync stopped.
OneOpenRow == Cardinality(OpenImports) <= 1

\* No ref has two rows: the UNIQUE of the table never stops a sync.
OneRowPerRef == \A i, j \in Imported : rows[i].ref = rows[j].ref => i = j

\* The stop the user set for a holding is on its row for as long as the
\* holding is open, through every start date and every sync that stopped
\* halfway: until the user removes, hides or closes the row.
StopFollows ==
    \A id \in OpenImports :
        Meant(rows[id].ref) \in given => rows[id].stop = Meant(rows[id].ref).held

\* A sync that no edit raced leaves what the broker has and is not hidden,
\* and nothing else.
SyncedRows ==
    sync.at = "reload" /\ ~ touched =>
        {[ref |-> rows[id].ref, open |-> rows[id].open, quantity |-> rows[id].quantity] :
            id \in Imported} = sync.wanted

\* What is in the tab because the broker has it.
Shown == {Meant(rows[id].ref) : id \in Imported}

\* A hidden position doesn't come back until hidden rows are brought back.
HiddenStaysHidden == [][(Shown' \ Shown) \cap hidden' = {}]_vars

=============================================================================
