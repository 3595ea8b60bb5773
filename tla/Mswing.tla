------------------------------- MODULE Mswing -------------------------------
(* The Mswing of a symbol (domain/metrics/mswing.py, ema.py): prepared once  *)
(* per session from the completed history, and at each tick extended by the  *)
(* price as today's close.  Numbers are counted in parts of 1 / Unit, which  *)
(* the bounds choose so that every quotient is whole.                        *)
EXTENDS Integers, Sequences, SequencesExt, FiniteSetsExt

CONSTANTS
    Closes,         \* bound: the closes that bars have
    MaxBars,        \* bound: the bars of a history
    Length1, Length2, EmaLength,
    Unit

MswingAssumption ==
    /\ Closes \subseteq Nat /\ MaxBars \in Nat
    /\ {Length1, Length2, EmaLength, Unit} \subseteq Nat \ {0}

Na == -1000000
NoValue == [score |-> Na, short |-> Na, long |-> Na, ema |-> Na]

VARIABLES
    ipo,        \* ipo_adjusted
    closes,     \* the completed bars, the oldest first
    context,    \* what was prepared from them
    tick,       \* the last price, or Na
    live        \* the value that is shown

vars == <<ipo, closes, context, tick, live>>

-----------------------------------------------------------------------------
\* How many bars back momentum looks from the bar with index bars before it.
Span(index, length) ==
    LET actual == IF ipo THEN Min({length, index}) ELSE length IN
    IF index < 1 \/ index < actual THEN Na ELSE actual

Momentum(close, past, span) ==
    IF past = 0 THEN 0 ELSE ((close - past) * Unit) \div (past * span)

MomentumAt(cs, index, length) ==
    LET span == Span(index, length) IN
    IF span = Na THEN Na ELSE Momentum(cs[index + 1], cs[index - span + 1], span)

Both(short, long) == IF Na \in {short, long} THEN Na ELSE short + long

ScoreAt(cs, index) == Both(MomentumAt(cs, index, Length1), MomentumAt(cs, index, Length2))

Scores(cs) == SelectSeq([i \in 1 .. Len(cs) |-> ScoreAt(cs, i - 1)], LAMBDA s : s # Na)

SumOf(s) == FoldSeq(LAMBDA x, y : x + y, 0, s)
Smoothed(ema, score) == ema + ((score - ema) * 2) \div (EmaLength + 1)

\* ema.py: the average of the first values, smoothed by those that follow.
Ema(values) ==
    IF Len(values) < EmaLength THEN Na
    ELSE FoldLeft(Smoothed, SumOf(SubSeq(values, 1, EmaLength)) \div EmaLength,
                  SubSeq(values, EmaLength + 1, Len(values)))

LastOf(s, n) == SubSeq(s, Max({1, Len(s) - n + 1}), Len(s))

Kept(cs) == LastOf(cs, Max({Length1, Length2}))
Seed(scores) == IF Ema(scores) = Na /\ EmaLength > 1 THEN LastOf(scores, EmaLength - 1) ELSE <<>>

Prepare(cs) ==
    LET scores == Scores(cs)
        last == Len(cs) - 1
    IN [barCount |-> Len(cs), tail |-> Kept(cs), ema |-> Ema(scores),
        scoreCount |-> Len(scores), seed |-> Seed(scores),
        last |-> IF cs = <<>> THEN NoValue
                 ELSE [score |-> ScoreAt(cs, last), short |-> MomentumAt(cs, last, Length1),
                       long |-> MomentumAt(cs, last, Length2), ema |-> Ema(scores)]]

LiveMomentum(ctx, close, length) ==
    LET span == Span(ctx.barCount, length) IN
    IF span = Na THEN Na ELSE Momentum(close, ctx.tail[Len(ctx.tail) - span + 1], span)

\* Mutant: the average is seeded one score late.
SeededLate(ctx) == ctx.scoreCount >= EmaLength
Seeded(ctx) == ctx.scoreCount + 1 >= EmaLength

LiveEma(ctx, score) ==
    CASE score # Na /\ ctx.ema # Na -> Smoothed(ctx.ema, score)
      [] score # Na /\ ctx.ema = Na /\ Seeded(ctx) ->
             SumOf(LastOf(Append(ctx.seed, score), EmaLength)) \div EmaLength
      [] OTHER -> ctx.ema

LiveMswing(ctx, close) ==
    LET momentum1 == LiveMomentum(ctx, close, Length1)
        momentum2 == LiveMomentum(ctx, close, Length2)
        score == Both(momentum1, momentum2)
    IN [score |-> score, short |-> momentum1, long |-> momentum2,
        ema |-> LiveEma(ctx, score)]

\* compute_mswing, which raises where there is no momentum.
OneShot(cs) ==
    [score |-> ScoreAt(cs, Len(cs) - 1),
     ema |-> IF Len(Scores(cs)) >= EmaLength THEN Ema(Scores(cs)) ELSE Na]

-----------------------------------------------------------------------------
Init ==
    /\ ipo \in BOOLEAN /\ closes = <<>> /\ tick = Na
    /\ context = Prepare(closes) /\ live = NoValue

\* A session is completed, and the history prepared again.
Completed(close) ==
    /\ Len(closes) < MaxBars
    /\ closes' = Append(closes, close)
    /\ context' = Prepare(closes')
    /\ tick' = Na /\ live' = context'.last
    /\ UNCHANGED ipo

Ticks(close) ==
    /\ tick' = close /\ live' = LiveMswing(context, close)
    /\ UNCHANGED <<ipo, closes, context>>

Next == \E c \in Closes : Completed(c) \/ Ticks(c)

Spec == Init /\ [][Next]_vars

-----------------------------------------------------------------------------
Values == -Unit * Max(Closes) * 2 .. Unit * Max(Closes) * 2
TypeOK ==
    /\ Len(context.tail) <= Max({Length1, Length2}) /\ Len(context.seed) < EmaLength
    /\ \A f \in DOMAIN live : live[f] \in Values \cup {Na}

\* A tick costs a few operations and loses nothing: what it shows is what the
\* whole history with the price as its last close would give.
LiveIsWhole == tick # Na => live = Prepare(Append(closes, tick)).last

\* The prepared value and the one-shot one agree, with a history of any length.
OneShotAgrees ==
    LET cs == IF tick = Na THEN closes ELSE Append(closes, tick)
        one == OneShot(cs)
    IN live.score # Na => live.score = one.score /\ live.ema = one.ema

\* "a stock with less history uses however many bars exist": from its second bar on
\* it has a score, and from then on always.
IpoHasScore == ipo => (live.score # Na <=> Len(closes) + (IF tick = Na THEN 0 ELSE 1) > 1)
=============================================================================
