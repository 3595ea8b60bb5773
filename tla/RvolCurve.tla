------------------------------ MODULE RvolCurve ------------------------------
(* The baseline of Live RVOL (domain/rvol/curve.py) and the two ratios that   *)
(* are read against it (domain/rvol/calc.py).  Time is counted in minutes of  *)
(* a day's clock; averages are kept as a sum and the number of days.          *)
EXTENDS Integers, Sequences, SequencesExt, FiniteSets, FiniteSetsExt

CONSTANTS
    Clock,      \* bound: the last minute of a day's clock
    Volumes,    \* bound: what is traded in a minute
    Opens, Lengths,     \* bound: when sessions open, and how many minutes they have
    MaxBars,    \* bound: the days a history has
    Days        \* DEFAULT_BASELINE_DAYS

CurveAssumption ==
    /\ Volumes \subseteq Nat /\ Opens \subseteq Nat /\ Lengths \subseteq Nat \ {0}
    /\ Clock \in Nat /\ MaxBars \in Nat /\ Days \in Nat \ {0}

None == -1

VARIABLES
    session,    \* the active session: [open, minutes]
    history,    \* the days with bars, the oldest first: [open, minutes, known, bars]
    now,        \* the minute of the last tick
    vtt         \* the volume of the day so far that it had

vars == <<session, history, now, vtt>>

-----------------------------------------------------------------------------
\* Session.minute_of.  Mutant: a tick after the close is in no minute.
MinuteUnclamped(s, t) ==
    IF t < s.open \/ t - s.open >= s.minutes THEN None ELSE t - s.open
MinuteOf(s, t) == IF t < s.open THEN None ELSE Min({t - s.open, s.minutes - 1})

\* Mutant: a day's minutes are counted from the open of the active session.
TradedThroughToday(day, m) ==
    LET at(t) == day.bars[t]
        in(t) == LET i == MinuteOf(session, t) IN i # None /\ i <= m
    IN MapThenSumSet(at, {t \in 0 .. Clock : in(t)})
\* The volume that stands in the first m + 1 buckets of a day.
TradedThrough(day, m) ==
    LET at(t) == day.bars[t]
        in(t) == LET i == MinuteOf(day, t) IN i # None /\ i <= m
    IN MapThenSumSet(at, {t \in 0 .. Clock : in(t)})

\* The days that make the baseline: the last ones, with a session and a volume.
\* Mutant: a day without volume counts.
CountedHalts == SelectSeq(SubSeq(history, Max({1, Len(history) - Days + 1}), Len(history)),
                          LAMBDA day : day.known)
Counted ==
    SelectSeq(SubSeq(history, Max({1, Len(history) - Days + 1}), Len(history)),
              LAMBDA day : day.known /\ TradedThrough(day, session.minutes - 1) > 0)

Curve(m) == FoldLeft(LAMBDA sum, day : sum + TradedThrough(day, m), 0, Counted)
FullDay == Curve(session.minutes - 1)

\* A ratio is <<numerator, denominator>>; <<>> where there is none.
Ratio(volume) == IF volume <= 0 THEN <<>> ELSE <<vtt * Len(Counted), volume>>

RvolIntraday ==
    LET minute == MinuteOf(session, now) IN
    IF vtt = None \/ Counted = <<>> \/ minute = None THEN <<>> ELSE Ratio(Curve(minute))

RvolDay == IF vtt = None \/ Counted = <<>> THEN <<>> ELSE Ratio(FullDay)

-----------------------------------------------------------------------------
Init ==
    /\ session \in [open : Opens, minutes : Lengths]
    /\ history = <<>> /\ now = 0 /\ vtt = None

\* The bars of one more day; a day may be one the calendar knows no session of.
Day(open, minutes, known) ==
    /\ Len(history) < MaxBars /\ vtt = None
    /\ \E bars \in [0 .. Clock -> Volumes] :
          /\ \A t \in 0 .. Clock : t < open \/ t > open + minutes => bars[t] = 0
          /\ ~known => \A t \in 0 .. Clock : bars[t] = 0 => t < open \/ t > open + minutes
          /\ history' = Append(history,
                [open |-> open, minutes |-> minutes, known |-> known, bars |-> bars])
    /\ UNCHANGED <<session, now, vtt>>

Tick(t, volume) ==
    /\ t >= now /\ vtt <= volume
    /\ now' = t /\ vtt' = volume
    /\ UNCHANGED <<session, history>>

Next ==
    \/ \E o \in Opens, n \in Lengths, known \in BOOLEAN : Day(o, n, known)
    \/ \E t \in 0 .. Clock, v \in Volumes : Tick(t, v)

Spec == Init /\ [][Next]_vars

-----------------------------------------------------------------------------
TypeOK ==
    /\ session \in [open : Opens, minutes : Lengths]
    /\ Len(history) <= MaxBars /\ now \in 0 .. Clock /\ vtt \in Volumes \cup {None}

\* "so a special session doesn't shift that day's curve": what a minute is compared
\* with is the average, over the days that had any volume, of what was traded up to
\* the same minute after their own open.  What comes after a close is in its last minute.
OwnOpen ==
    LET cut == Max({0, Len(history) - Days})
        within(day, m) == {t \in day.open .. Clock :
                              t <= day.open + m \/ m >= day.minutes - 1}
        volume(day, m) == LET at(t) == day.bars[t] IN MapThenSumSet(at, within(day, m))
        days == {i \in cut + 1 .. Len(history) :
                   history[i].known /\ volume(history[i], session.minutes - 1) > 0}
    IN \A m \in 0 .. session.minutes - 1 :
          LET of(i) == volume(history[i], m) IN
          Curve(m) = MapThenSumSet(of, days) /\ Len(Counted) = Cardinality(days)

\* "converges at close": in the last minute, and after it, the two ratios are one.
Converges ==
    now >= session.open + session.minutes - 1 => RvolIntraday = RvolDay
=============================================================================
