---------------------------- MODULE DhanService ----------------------------
(* The Dhan sync and what it stands on: which days of the history it has     *)
(* read, the rows it rebuilds from the fills, its access token, the database *)
(* that all of it is in, and the calendar with the timings stored there.     *)
(* They share no state here.                                                 *)
EXTENDS DhanHistory

CONSTANTS
    RowIds, RowStarts, MaxFills, MaxManual, EditsMeanwhile,     \* of the rows
    MaxTokens, TokenDays,                   \* of the token
    Processes, Releases, Ids, Stops, Copies, \* of the database
    CalendarDays, Weekend, Lookback         \* of the calendar

VARIABLES
    fills, settled, rows, ignored, ui, importing, given, hidden, touched,
    accepts, handed, current, env, needsToken, reading, connecting, date, lastSync, root, pasted,
    rejected, overlapped, retried,
    db, file, backups, process, entered, fetched, partial,
    now, time, exchange, timings, walk, found

rowVars == <<fills, settled, rows, ignored, ui, importing, given, hidden, touched>>
tokenVars == <<accepts, handed, current, env, needsToken, reading, connecting, date, lastSync,
               root, pasted, rejected, overlapped, retried>>
storageVars == <<db, file, backups, process, entered, fetched, partial>>
calendarVars == <<now, time, exchange, timings, walk, found>>

Position == INSTANCE PositionSync WITH
    Ids <- RowIds, Starts <- RowStarts, sync <- importing
Token == INSTANCE DhanToken WITH LastDay <- TokenDays, sync <- reading, day <- date
Storage == INSTANCE Storage
Calendar == INSTANCE Calendar WITH LastDay <- CalendarDays, day <- now, stored <- timings

\* One row for a position, of whichever start, one that is open, and what it says
\* of the trade is what the fills say.
RowsSound == Position!OneRowPerRef /\ Position!OneOpenRow /\ Position!SyncedRows

\* The user's stop stays on the holding it was meant for, edited at any time or
\* planned before the fill came.
StopsFollow == Position!TypeOK /\ Position!StopFollows

\* The token: the one pasted last is kept over renewals and restarts, none that
\* was refused is tried by itself, and the user is asked for no other reason.
TokenSound == Token!TokenSound

\* The database: every migration once and whole, whichever releases open it and
\* wherever they end, and nothing of the user's lost by it or by an import.
StorageSound ==
    /\ Storage!TypeOK
    /\ Storage!SchemaMatches
    /\ Storage!PlansKept
    /\ Storage!FillsCurrent
    /\ Storage!FillsKept
    /\ Storage!NothingReplaced

\* The calendar: what is stored is what the exchange says, and the session that
\* is found is the last that has opened.
CalendarSound == Calendar!TypeOK /\ Calendar!StoredTrue /\ Calendar!LastOpened
=============================================================================
