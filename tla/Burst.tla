------------------------------- MODULE Burst -------------------------------
(* The Burst Score of a symbol (domain/metrics/burst_score.py) as the       *)
(* scanner makes it (domain/scanner.py): a fold over the completed history, *)
(* once per session, and today's bar on top of it once the session is over. *)
(* Sessions are counted; the years of the lookback are a number of them.    *)
EXTENDS Integers, Sequences, SequencesExt, FiniteSets, TLC

CONSTANTS
    Closes,     \* bound: the closes that bars have
    LastDay,    \* bound: the sessions of a behaviour
    Lookback    \* DEFAULT_LOOKBACK_YEARS

BurstAssumption == Closes \subseteq Nat /\ LastDay \in Nat /\ Lookback \in Nat

None == -1

VARIABLES
    market,     \* the sessions that are over: [close, flat], flat when high = low
    today,      \* TodayBar: the session that has opened last, its price and whether
    ltp, closed,\* it is over
    context     \* SymbolContext, or NoContext before it is there

vars == <<market, today, ltp, closed, context>>

-----------------------------------------------------------------------------
\* The percentage of the move from one close to the next is at least n.
AtLeast(n, from, to) == (to - from) * 100 >= n * from

\* A move is kept as its two closes, and two are compared as fractions.
NotBelow(from, to, best) ==
    best = <<>> \/ (to - from) * best[1] >= (best[2] - best[1]) * from

Empty == [count |-> [b \in {5, 10, 19} |-> 0], last |-> [b \in {5, 10, 19} |-> None],
          max |-> <<>>, maxDate |-> None]

\* Mutant: a move of ten per cent is still one of five.
BucketsLate(from, to) ==
    CASE AtLeast(19, from, to) -> {19}
      [] (to - from) * 100 > 10 * from /\ ~AtLeast(19, from, to) -> {10}
      [] (to - from) * 100 <= 10 * from /\ AtLeast(5, from, to) -> {5}
      [] OTHER -> {}
Buckets(from, to) ==
    CASE AtLeast(19, from, to) -> {19}
      [] AtLeast(10, from, to) /\ ~AtLeast(19, from, to) -> {10}
      [] AtLeast(5, from, to) /\ ~AtLeast(10, from, to) -> {5}
      [] OTHER -> {}

\* Mutant: of two equal moves the earlier one is the largest.
AddEarlier(tally, from, date, bar) ==
    IF from = 0 \/ bar.flat THEN tally
    ELSE LET in == Buckets(from, bar.close)
             best == tally.max = <<>> \/ ~NotBelow(tally.max[1], tally.max[2], <<from, bar.close>>)
         IN [count |-> [b \in {5, 10, 19} |-> tally.count[b] + IF b \in in THEN 1 ELSE 0],
             last |-> [b \in {5, 10, 19} |-> IF b \in in THEN date ELSE tally.last[b]],
             max |-> IF best THEN <<from, bar.close>> ELSE tally.max,
             maxDate |-> IF best THEN date ELSE tally.maxDate]
Add(tally, from, date, bar) ==
    IF from = 0 \/ bar.flat THEN tally
    ELSE LET in == Buckets(from, bar.close)
             best == NotBelow(from, bar.close, tally.max)
         IN [count |-> [b \in {5, 10, 19} |-> tally.count[b] + IF b \in in THEN 1 ELSE 0],
             last |-> [b \in {5, 10, 19} |-> IF b \in in THEN date ELSE tally.last[b]],
             max |-> IF best THEN <<from, bar.close>> ELSE tally.max,
             maxDate |-> IF best THEN date ELSE tally.maxDate]

\* round(): of two integers that are equally near, the even one.
Power(count) ==
    LET tenths == 2 * count[5] + 5 * count[10] + 20 * count[19]
        floor == tenths \div 10
    IN IF tenths % 10 > 5 \/ (tenths % 10 = 5 /\ floor % 2 = 1) THEN floor + 1 ELSE floor

Classify(power) ==
    CASE power >= 15 -> "strong" [] power >= 10 /\ power < 15 -> "moderate" [] OTHER -> "weak"

\* compute_burst_score: the pairs of bars whose second one is in the lookback.
\* Mutant: the bars before the lookback are cut off first.
ComputeInside(bars, since) ==
    FoldLeft(LAMBDA tally, i : IF i > since THEN Add(tally, bars[i - 1].close, i, bars[i])
                               ELSE tally,
             Empty, [i \in 1 .. Len(bars) - 1 |-> i + 1])
Compute(bars, since) ==
    FoldLeft(LAMBDA tally, i : IF i >= since THEN Add(tally, bars[i - 1].close, i, bars[i])
                               ELSE tally,
             Empty, [i \in 1 .. Len(bars) - 1 |-> i + 1])

CloseAt(bars, i) == IF i < 1 THEN None ELSE bars[i].close

Prepare(bars, day) ==
    [through |-> Len(bars), lastClose |-> CloseAt(bars, Len(bars)),
     previousClose |-> CloseAt(bars, Len(bars) - 1),
     since |-> day - Lookback, burst |-> Compute(bars, day - Lookback)]

NoContext == [Prepare(<<>>, 0) EXCEPT !.through = None]

Change(close, previous) ==
    IF close = None \/ previous \in {None, 0} THEN <<>> ELSE <<previous, close>>

\* live_symbol: today counts when there is a price, and the history ends at the
\* session before it.
\* Mutants: a history that has today already is extended, or one with a gap.
IncludesTwice(c) == ltp # None /\ c.through # 0 /\ c.through >= today - 1
IncludesAcross(c) == ltp # None /\ c.through # 0 /\ c.through < today
Includes(c) ==
    /\ ltp # None
    /\ c.through # 0
    /\ c.through < today /\ c.through >= today - 1

Shown(c) ==
    LET burst == IF Includes(c) /\ closed
                 THEN Add(c.burst, c.lastClose, today, [close |-> ltp, flat |-> FALSE])
                 ELSE c.burst
    IN [burst |-> burst, class |-> Classify(Power(burst.count)), includesToday |-> Includes(c),
        change |-> IF Includes(c) THEN Change(ltp, c.lastClose)
                   ELSE Change(c.lastClose, c.previousClose)]

-----------------------------------------------------------------------------
Init ==
    /\ market = <<>> /\ today = 1 /\ ltp = None /\ closed = FALSE /\ context = NoContext

Trades(close) ==
    /\ ~closed
    /\ ltp' = close
    /\ UNCHANGED <<market, today, closed, context>>

\* The session ends; it had a range unless all its trades were at one price.
Ends(flat) ==
    /\ ~closed /\ ltp # None
    /\ closed' = TRUE
    /\ market' = Append(market, [close |-> ltp, flat |-> flat])
    /\ UNCHANGED <<today, ltp, context>>

\* The next session opens; what was prepared for the one before it stays until it is
\* prepared again.  That its price may stay as well is for Scanner.
Opens ==
    /\ closed /\ today < LastDay
    /\ today' = today + 1 /\ closed' = FALSE /\ ltp' = None
    /\ UNCHANGED <<market, context>>

\* The history is there, through today, the day before, or one that is long past.
Load(n) ==
    /\ n <= Len(market)
    /\ context' = Prepare(SubSeq(market, 1, n), today)
    /\ UNCHANGED <<market, today, ltp, closed>>

Next ==
    \/ \E c \in Closes : Trades(c)
    \/ \E flat \in BOOLEAN : Ends(flat)
    \/ Opens
    \/ \E n \in 0 .. LastDay : Load(n)

Spec == Init /\ [][Next]_vars

-----------------------------------------------------------------------------
TypeOK ==
    /\ market \in Seq([close : Closes, flat : BOOLEAN])
    /\ today \in 1 .. LastDay /\ Len(market) = IF closed THEN today ELSE today - 1
    /\ ltp \in Closes \cup {None} /\ closed \in BOOLEAN
    /\ context # NoContext => context.through \in 0 .. Len(market)

\* The days of the lookback through one of them with a move of at least low and
\* less than high per cent.
Moves(low, high, through) ==
    {d \in 2 .. through :
       /\ d >= context.since /\ market[d - 1].close > 0
       /\ ~market[d].flat \/ (d = today /\ context.through < today)
       /\ AtLeast(low, market[d - 1].close, market[d].close)
       /\ ~AtLeast(high, market[d - 1].close, market[d].close)}

Latest(days) == IF days = {} THEN None ELSE CHOOSE d \in days : \A e \in days : e <= d

\* What the score counts: the days of the lookback through the last of the history,
\* and through today once it is over and the history ends at the session before it.
CountedThrough ==
    IF closed /\ ltp # None /\ context.through = today - 1 /\ today > 1
    THEN today ELSE context.through

\* The score that was extended at a tick is that of the whole history: nothing is
\* skipped and nothing counted twice.  A day without a range counts only live, and
\* until it is prepared again a score has the lookback of the session before.
BurstWhole ==
    context # NoContext =>
       LET burst == Shown(context).burst
           high == (5 :> 10) @@ (10 :> 19) @@ (19 :> 1000000)
           all == Moves(-1000, 1000000, CountedThrough)
       IN /\ \A b \in {5, 10, 19} :
                LET days == Moves(b, high[b], CountedThrough) IN
                /\ burst.count[b] = Cardinality(days)
                /\ burst.last[b] = Latest(days)
          /\ burst.maxDate = Latest({d \in all : \A e \in all :
                 NotBelow(market[d - 1].close, market[d].close,
                          <<market[e - 1].close, market[e].close>>)})

\* The change of the day is the change of one session against the one before it.
ChangeOfADay ==
    context # NoContext /\ Shown(context).change # <<>> =>
       \E d \in 2 .. today :
          /\ Shown(context).change[1] = market[d - 1].close
          /\ Shown(context).change[2] = (IF d <= Len(market) THEN market[d].close ELSE ltp)
          /\ d = IF Shown(context).includesToday THEN today ELSE context.through
=============================================================================
