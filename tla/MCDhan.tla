------------------------------- MODULE MCDhan -------------------------------
(* The Dhan sync for TLC: which days of the history it has read, the rows it *)
(* rebuilds from the fills with the user's edits at any time, a position     *)
(* entered by hand that a sync is to take over, and the token; the database  *)
(* that all of it is in, and the calendar with the timings stored there.     *)
(* They are checked apart, so a behaviour is about one of them, which        *)
(* `component' names.                                                        *)
EXTENDS DhanService

VARIABLE component

\* A position entered by hand, for a sync to take over; the user waits for it.
Link == INSTANCE PositionSync WITH
    Ids <- RowIds, Starts <- RowStarts, MaxManual <- 1, EditsMeanwhile <- FALSE,
    sync <- importing

ASSUME Position!SyncAssumption
ASSUME Link!SyncAssumption
ASSUME Token!TokenAssumption
ASSUME Storage!StorageAssumption
ASSUME Calendar!CalendarAssumption

MCInit ==
    /\ component \in {"history", "import", "link", "token", "storage", "calendar"}
    /\ Init
    /\ Position!Init
    /\ Token!Init
    /\ Storage!Init
    /\ Calendar!Init
    /\ component # "calendar" => \A d \in Calendar!Days : ~exchange[d].trading

storedVars == <<storageVars, calendarVars>>

HistoryStep == component = "history" /\ UNCHANGED <<component, rowVars, tokenVars, storedVars>>
ImportStep == component = "import" /\ UNCHANGED <<component, vars, tokenVars, storedVars>>
LinkStep == component = "link" /\ UNCHANGED <<component, vars, tokenVars, storedVars>>
TokenStep == component = "token" /\ UNCHANGED <<component, vars, rowVars, storedVars>>
StorageStep ==
    component = "storage" /\ UNCHANGED <<component, vars, rowVars, tokenVars, calendarVars>>
CalendarStep ==
    component = "calendar" /\ UNCHANGED <<component, vars, rowVars, tokenVars, storageVars>>

MCNext ==
    \/ \E from \in {Unset} \cup 1 .. LastDay : HistoryStep /\ StartSync(from)
    \/ HistoryStep /\ Begin
    \/ HistoryStep /\ Settle
    \/ HistoryStep /\ ReadEarlier
    \/ HistoryStep /\ ReadLater
    \/ HistoryStep /\ SetCovered
    \/ HistoryStep /\ SetThrough
    \/ HistoryStep /\ SetFrom
    \/ HistoryStep /\ ReadBook
    \/ HistoryStep /\ Apply
    \/ HistoryStep /\ Stop
    \/ HistoryStep /\ NextDay
    \/ ImportStep /\ Position!Trades
    \/ ImportStep /\ Position!Edits
    \/ ImportStep /\ Position!SyncSteps
    \/ LinkStep /\ Link!Trades
    \/ LinkStep /\ Link!ManualEntry
    \/ \E id \in RowIds, quantity \in {1, 2} : LinkStep /\ Link!ReadForUpdate(id, quantity)
    \/ LinkStep /\ Link!WriteUpdate
    \/ \E id \in RowIds : LinkStep /\ Link!ReadForClose(id)
    \/ LinkStep /\ Link!WriteClose
    \/ \E id \in RowIds : LinkStep /\ Link!ReadForDelete(id, FALSE)
    \/ LinkStep /\ Link!WriteDelete
    \/ LinkStep /\ Link!SyncSteps
    \/ \E works \in BOOLEAN : TokenStep /\ Token!Paste(works)
    \/ TokenStep /\ Token!Connected
    \/ TokenStep /\ Token!SyncNow
    \/ TokenStep /\ Token!AutoSync
    \/ TokenStep /\ Token!SyncSteps
    \/ \E t \in Token!Tokens : TokenStep /\ Token!Expires(t)
    \/ TokenStep /\ Token!NextDay
    \/ TokenStep /\ Token!Restart
    \/ \E r \in 6 .. 8 :
          \/ StorageStep /\ Storage!Start("run", r)
          \/ \E force \in BOOLEAN : StorageStep /\ Storage!Import("run", r, force)
    \/ StorageStep /\ Storage!Apply("run")
    \/ StorageStep /\ Storage!Ready("run")
    \/ StorageStep /\ Storage!StoreFills("run")
    \/ StorageStep /\ Storage!Close("run")
    \/ StorageStep /\ Storage!Crash("run")
    \/ StorageStep /\ Storage!Copy("run")
    \/ \E stop \in {1, 2} :
          \/ StorageStep /\ Storage!Enter("run", 1, stop)
          \/ StorageStep /\ Storage!Trail("run", 1, stop)
    \/ StorageStep /\ Storage!Fold
    \/ \E t \in Calendar!Threads :
          \/ CalendarStep /\ Calendar!Begin(t)
          \/ CalendarStep /\ Calendar!PassBy(t)
          \/ CalendarStep /\ Calendar!ReadStored(t)
          \/ CalendarStep /\ Calendar!Ask(t)
          \/ CalendarStep /\ Calendar!AskFails(t)
          \/ CalendarStep /\ Calendar!End(t)
    \/ CalendarStep /\ Calendar!Tick
    \/ \E d \in Calendar!Days : CalendarStep /\ Calendar!Announce(d)

MCSpec == MCInit /\ [][MCNext]_<<component, vars, rowVars, tokenVars, storedVars>>
=============================================================================
