----------------------------- MODULE LiveTable ------------------------------
(* The tables whose values change every frame: the scanner's, which a       *)
(* LiveTable keeps (ui/widgets/live_table.py), and the live RVOL tab's,     *)
(* which keeps its own (ui/tabs/rvol/pane.py).  Both draw the engine's rows *)
(* in place, sort them again now and then, and move the cursor along.       *)
(*                                                                         *)
(* A row is a number, in the order of the alphabet, and a value or none.    *)
EXTENDS Naturals, Sequences, FiniteSets, SequencesExt, Functions

CONSTANTS Keys, Values, Missing, Filters  \* what the filter box may let through

TableAssumption ==
    /\ Keys \subseteq Nat /\ IsFiniteSet(Keys) /\ Values \subseteq Nat
    /\ Missing \notin Values /\ Filters \subseteq SUBSET Keys

VARIABLES
    pane,    \* which of the two: "scanner" or "rvol"
    rows,    \* the engine's snapshot
    filter,
    sort,    \* the sort column and its direction
    frozen,
    holding, \* a key of navigation within NAV_FREEZE_SECONDS
    due,     \* REORDER_SECONDS since the last reorder
    follow,  \* _follow_cursor, _cursor_follows_symbol
    table,   \* the NavTable: its rows from the top, their cells, the cursor
    drawn,   \* _rendered and _order
    seen     \* the rows that the last frame had to show, none since a reset

vars == <<pane, rows, filter, sort, frozen, holding, due, follow, table, drawn, seen>>

Empty == [k \in {} |-> Missing]
Visible == Restrict(rows, DOMAIN rows \cap filter)

\* Rows without a value sink to the bottom, whichever way the others go.
Before(shown, by, a, b) ==
    IF by.column = "symbol" THEN IF by.descending THEN a > b ELSE a < b
    ELSE LET x == shown[a]
             y == shown[b]
         IN  \/ x # Missing /\ y = Missing
             \/ x = y /\ a < b
             \/ Missing \notin {x, y} /\ IF by.descending THEN x > y ELSE x < y

SortedKeys(shown, by) ==
    CHOOSE keys \in [1 .. Cardinality(DOMAIN shown) -> DOMAIN shown] :
       \A i, j \in DOMAIN keys : i < j => Before(shown, by, keys[i], keys[j])

CursorKey == IF table.keys = <<>> THEN {} ELSE {table.keys[table.cursor]}

CursorPinned(keys) == table.cursor

\* _restore_cursor: to the row it was on, once the user has moved it.
RestoreCursor(keys) ==
    IF follow /\ CursorKey \cap Range(keys) # {}
    THEN CHOOSE i \in DOMAIN keys : keys[i] \in CursorKey ELSE 1

Ordered(keys, shown) == [keys |-> keys, cells |-> shown, cursor |-> RestoreCursor(keys)]

Rebuild(shown, by) ==
    /\ table' = Ordered(SortedKeys(shown, by), shown)
    /\ drawn' = DOMAIN shown
    /\ due' = FALSE

SettledAnyway == due

Settled == due /\ ~frozen /\ ~holding

UpdatedNever(shown) == table.cells

\* Cells are written where a row is drawn; what else the table holds stays.
UpdatedCells(shown) ==
    [k \in DOMAIN table.cells |-> IF k \in DOMAIN shown THEN shown[k] ELSE table.cells[k]]

\* LiveTable.render, and the frame of the RVOL tab: rebuild when the set of
\* rows changed, otherwise write the cells and sort when it is time to.
Render(shown, by, now) ==
    IF DOMAIN shown # drawn THEN Rebuild(shown, by)
    ELSE /\ drawn' = drawn
         /\ due' = (due /\ ~now /\ ~Settled)
         /\ LET keys == SortedKeys(shown, by)
            IN  table' = IF (now \/ Settled) /\ shown # Empty /\ keys # table.keys
                         THEN Ordered(keys, UpdatedCells(shown))
                         ELSE [table EXCEPT !.cells = UpdatedCells(shown)]

Draw(shown, by, now) == Render(shown, by, now) /\ seen' = {shown}

Undrawn == UNCHANGED <<table, drawn, due, seen>>

Init ==
    /\ pane \in {"scanner", "rvol"}
    /\ rows = Empty /\ filter = Keys
    /\ sort = [column |-> "value", descending |-> TRUE]
    /\ frozen = FALSE /\ holding = FALSE /\ due = FALSE /\ follow = FALSE
    /\ table = [keys |-> <<>>, cells |-> Empty, cursor |-> 1]
    /\ drawn = {} /\ seen = {}

-----------------------------------------------------------------------------

\* The engine's rows: a tick, or a value that becomes known or stale.
Ticked(k, v) ==
    /\ k \in DOMAIN rows /\ v # rows[k]
    /\ rows' = [rows EXCEPT ![k] = v]
    /\ UNCHANGED <<pane, filter, sort, frozen, holding, follow>> /\ Undrawn

\* LiveTable.reset, and its like in the RVOL tab: the table itself is left.
Forgotten == {}

\* Another watchlist: its engine has its symbols and no values yet.
OnWatchlistChanged(symbols) ==
    /\ rows' = [k \in symbols |-> Missing]
    /\ drawn' = Forgotten /\ seen' = {} /\ follow' = FALSE
    /\ UNCHANGED <<pane, filter, sort, frozen, holding, due, table>>

Frame ==
    /\ Draw(Visible, sort, FALSE)
    /\ UNCHANGED <<pane, rows, filter, sort, frozen, holding, follow>>

\* The scanner draws at once what the RVOL tab leaves to its next frame.
TypeFilter(let) ==
    /\ filter # let
    /\ filter' = let
    /\ IF pane = "scanner" THEN Draw(Restrict(rows, DOMAIN rows \cap let), sort, FALSE) ELSE Undrawn
    /\ UNCHANGED <<pane, rows, sort, frozen, holding, follow>>

ToggleFreeze ==
    /\ frozen' = ~frozen
    /\ IF pane = "rvol" THEN Undrawn
       ELSE LET settled == due /\ frozen /\ ~holding
            IN  Draw(Visible, sort, settled)
    /\ UNCHANGED <<pane, rows, filter, sort, holding, follow>>

\* s and r: the scanner sorts in place, the RVOL tab adds its rows again.
Resort(by) ==
    /\ sort' = by
    /\ IF pane = "scanner" THEN Draw(Visible, by, TRUE)
       ELSE Rebuild(Visible, by) /\ seen' = {Visible}
    /\ UNCHANGED <<pane, rows, filter, frozen, holding, follow>>

ReverseSort == Resort([sort EXCEPT !.descending = ~@])

CycleSort ==
    LET column == IF sort.column = "value" THEN "symbol" ELSE "value"
    IN  Resort([column |-> column,
                descending |-> IF pane = "scanner" THEN column = "value" ELSE sort.descending])

\* A key of navigation.
Navigate(row) ==
    /\ row \in DOMAIN table.keys
    /\ table' = [table EXCEPT !.cursor = row]
    /\ follow' = TRUE /\ holding' = TRUE
    /\ UNCHANGED <<pane, rows, filter, sort, frozen, due, drawn, seen>>

ReorderSecondsPass ==
    ~due /\ due' = TRUE
    /\ UNCHANGED <<pane, rows, filter, sort, frozen, holding, follow, table, drawn, seen>>

HoldEnds ==
    /\ holding /\ holding' = FALSE
    /\ UNCHANGED <<pane, rows, filter, sort, frozen, due, follow, table, drawn, seen>>

Next ==
    \/ \E k \in Keys, v \in Values \cup {Missing} : Ticked(k, v)
    \/ \E symbols \in SUBSET Keys : OnWatchlistChanged(symbols)
    \/ Frame
    \/ \E let \in Filters : TypeFilter(let)
    \/ ToggleFreeze
    \/ ReverseSort
    \/ CycleSort
    \/ \E row \in 1..Cardinality(Keys) : Navigate(row)
    \/ ReorderSecondsPass
    \/ HoldEnds

Spec == Init /\ [][Next]_vars

-----------------------------------------------------------------------------

TypeOK ==
    /\ DOMAIN rows \subseteq Keys /\ rows \in [DOMAIN rows -> Values \cup {Missing}]
    /\ filter \in Filters \cup {Keys}
    /\ sort \in [column : {"value", "symbol"}, descending : BOOLEAN]
    /\ {frozen, holding, due, follow} \subseteq BOOLEAN
    /\ table.keys \in Seq(Keys) /\ IsInjective(table.keys) /\ drawn \subseteq Keys
    /\ table.cursor \in DOMAIN table.keys \cup {1}

\* After a frame with rows to show, the table holds these rows with these
\* values, whatever was reset, filtered or sorted before.
RowsInStep ==
    \A shown \in seen \ {Empty} : table.cells = shown /\ Range(table.keys) = DOMAIN shown

\* Until the user moves it the cursor is on the top row.
TopUntilMoved == seen \notin {{}, {Empty}} /\ ~follow => table.cursor = 1

\* Once moved it stays on its row, however the rows are sorted, rebuilt or
\* filtered around it, as long as that row is there.
CursorFollows ==
    [][follow /\ follow' /\ table'.cells # Empty
       => \/ CursorKey \cap Range(table'.keys) = {}
          \/ table'.keys[table'.cursor] \in CursorKey
          \/ holding' /\ table'.keys = table.keys]_vars

\* Rows do not slide while the table is frozen or the user moves about: their
\* order changes with the rows or on a key of sorting, and not otherwise; what
\* a reset left in the table is none of them.
OrderHolds ==
    [][/\ frozen \/ holding
       /\ table'.keys # table.keys
       => \/ Range(table'.keys) # Range(table.keys)
          \/ sort' # sort
          \/ Range(table.keys) # drawn
          \/ frozen # frozen']_vars

\* After a frame with no row to show the table is empty.
\* The code does not keep to it: see the README.
EmptyInStep == seen = {Empty} => table.keys = <<>>
=============================================================================
