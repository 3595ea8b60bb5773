----------------------------- MODULE DhanHistory -----------------------------
(***************************************************************************)
(* Which days of the broker's trade history have been read                 *)
(* (services/dhan_sync.py).  The fills are stored in one table, and what   *)
(* of the history they cover in three keys of another, each written in a   *)
(* transaction of its own.  The process may end between any two of them:   *)
(* the sync runs on a daemon thread.  One sync runs at a time.             *)
(*                                                                         *)
(* A fill is abstracted to its day.  A day read after it ended is complete *)
(* in the table; what is read of the running day is read again later.      *)
(***************************************************************************)
EXTENDS Integers

CONSTANTS
    LastDay,          \* bound: the calendar stops here
    HistoryDays       \* the setting broker_history_days

ASSUME HistoryAssumption ==
    /\ HistoryDays \in Nat \ {0}
    /\ LastDay \in Nat
    /\ LastDay > HistoryDays

VARIABLES
    today,
    covered_from,     \* _HISTORY_COVERED_FROM
    through,          \* _HISTORY_THROUGH
    history_from,     \* _HISTORY_FROM
    stored,           \* days whose fills are in the table, complete
    sync,             \* what the running sync does next; "idle" without one
    asked,            \* the start the user picked for it, or Unset
    start,            \* the start it settled on
    day,              \* today, when it began
    earlier, later,   \* the days it has to read, before and after those covered
    skipped           \* history: days between what was covered and a later start

stateKeys == <<covered_from, through, history_from>>
gaps == <<earlier, later>>
locals == <<asked, start, day, gaps>>
vars == <<today, stateKeys, stored, sync, locals, skipped>>

-----------------------------------------------------------------------------
Unset == 0

\* Days are counted so that the default start of the first sync is day 1.
FirstDay == HistoryDays + 1

\* Mutant: the day before what is covered is left out.
EarlierGapShort(from, to) ==
    IF covered_from = Unset \/ through = Unset THEN {}
    ELSE {d \in from .. to : d < covered_from - 1}

\* _missing_history, each range as its set of days: of an empty one nothing
\* is read.
EarlierGap(from, to) ==
    IF covered_from = Unset \/ through = Unset THEN {}
    ELSE {d \in from .. to : d < covered_from}

\* Mutant: the day after the last one read is left out.
LaterGapShort(from, to) ==
    IF covered_from = Unset \/ through = Unset THEN from .. to
    ELSE {d \in from .. to : d > through + 1}

LaterGap(from, to) ==
    IF covered_from = Unset \/ through = Unset THEN from .. to
    ELSE {d \in from .. to : d > through}

Init ==
    /\ today = FirstDay
    /\ covered_from = Unset
    /\ through = Unset
    /\ history_from = Unset
    /\ stored = {}
    /\ sync = "idle"
    /\ asked = Unset
    /\ start = Unset
    /\ day = FirstDay
    /\ earlier = {}
    /\ later = {}
    /\ skipped = {}

-----------------------------------------------------------------------------
\* sync(history_from): the start must be before today.
StartSync(from) ==
    /\ sync = "idle"
    /\ from # Unset => from < today
    /\ asked' = from
    /\ sync' = "begin"
    /\ UNCHANGED <<today, stateKeys, stored, start, day, gaps, skipped>>

\* _sync: the account was read, and the token renewed if need be.
Begin ==
    /\ sync = "begin"
    /\ day' = today
    /\ sync' = "settle"
    /\ UNCHANGED <<today, stateKeys, stored, asked, start, gaps, skipped>>

\* Mutant: without the default of the first sync.
SettledStartStored == IF asked # Unset THEN asked ELSE history_from

\* The default start counts back from the day it is asked for.
SettledStart ==
    IF asked # Unset THEN asked
    ELSE IF history_from # Unset THEN history_from
    ELSE today - HistoryDays

Settle ==
    /\ sync = "settle"
    /\ start' = SettledStart
    /\ earlier' = EarlierGap(SettledStart, day - 1)
    /\ later' = LaterGap(SettledStart, day - 1)
    /\ sync' = "earlier"
    /\ UNCHANGED <<today, stateKeys, stored, asked, day, skipped>>

\* trade_history of a range, all its pages, saved in one transaction.
ReadEarlier ==
    /\ sync = "earlier"
    /\ stored' = stored \cup earlier
    /\ sync' = "later"
    /\ UNCHANGED <<today, stateKeys, locals, skipped>>

ReadLater ==
    /\ sync = "later"
    /\ stored' = stored \cup later
    /\ sync' = "covered"
    /\ UNCHANGED <<today, stateKeys, locals, skipped>>

SetCovered ==
    /\ sync = "covered"
    /\ covered_from' = IF covered_from = Unset \/ start < covered_from
                       THEN start ELSE covered_from
    /\ sync' = "through"
    /\ UNCHANGED <<today, through, history_from, stored, locals, skipped>>

\* What was covered and what was read become one range: the days between
\* them are marked as covered too.
SteppedOver == (covered_from .. start - 1) \ stored

\* Mutant: the running day is taken as read.
SetThroughToday ==
    /\ sync = "through"
    /\ through' = day
    /\ sync' = "from"
    /\ skipped' = skipped \cup SteppedOver
    /\ UNCHANGED <<today, covered_from, history_from, stored, locals>>

SetThrough ==
    /\ sync = "through"
    /\ through' = day - 1
    /\ sync' = "from"
    /\ skipped' = skipped \cup SteppedOver
    /\ UNCHANGED <<today, covered_from, history_from, stored, locals>>

SetFrom ==
    /\ sync = "from"
    /\ history_from' = start
    /\ sync' = "book"
    /\ UNCHANGED <<today, covered_from, through, stored, locals, skipped>>

\* The running day's trade book and the holdings.
ReadBook ==
    /\ sync = "book"
    /\ sync' = "apply"
    /\ UNCHANGED <<today, stateKeys, stored, locals, skipped>>

\* Positions are rebuilt from every fill since the start.
Apply ==
    /\ sync = "apply"
    /\ sync' = "idle"
    /\ UNCHANGED <<today, stateKeys, stored, locals, skipped>>

\* A request fails, or the process ends: what was written stays.
Stop ==
    /\ sync # "idle"
    /\ sync' = "idle"
    /\ UNCHANGED <<today, stateKeys, stored, locals, skipped>>

\* A sync, with the timeouts of its requests, spans at most one midnight.
NextDay ==
    /\ today < LastDay
    /\ sync \in {"idle", "begin"} \/ day = today
    /\ today' = today + 1
    /\ UNCHANGED <<stateKeys, stored, sync, locals, skipped>>

Next ==
    \/ \E from \in {Unset} \cup 1 .. LastDay : StartSync(from)
    \/ Begin \/ Settle \/ ReadEarlier \/ ReadLater \/ SetCovered \/ SetThrough \/ SetFrom
    \/ ReadBook \/ Apply \/ Stop
    \/ NextDay

Spec == Init /\ [][Next]_vars

-----------------------------------------------------------------------------
Steps == {"idle", "begin", "settle", "earlier", "later", "covered", "through", "from", "book",
          "apply"}

TypeOK ==
    /\ today \in Nat
    /\ covered_from \in Nat
    /\ through \in Nat
    /\ history_from \in Nat
    /\ stored \subseteq Nat
    /\ sync \in Steps
    /\ asked \in Nat
    /\ start \in Nat
    /\ sync \notin {"idle", "begin", "settle"} => start # Unset
    /\ day \in Nat
    /\ earlier \subseteq Nat
    /\ later \subseteq Nat
    /\ skipped \subseteq Nat

\* What the keys claim to be covered was read, but for the days a later start
\* stepped over: whatever the order of starts, and wherever a sync stopped.
CoverageHonest ==
    (covered_from # Unset /\ through # Unset) =>
        covered_from .. through \subseteq stored \cup skipped

\* Positions are rebuilt only when every day since the start was read, with
\* the same exception.
HistoryRead ==
    sync = "apply" => start .. day - 1 \subseteq stored \cup skipped

\* No day is marked as covered before it is over: its last fills are not lost.
OnlyPastCovered == through < today

\* "The day ranges between `start` and `end` that haven't been read yet": by
\* the time the positions are rebuilt, every day since the start was read.
EveryDayRead ==
    sync = "apply" => start .. day - 1 \subseteq stored
=============================================================================
