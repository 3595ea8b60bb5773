------------------------------ MODULE MCUpstox ------------------------------
(* What every REST call to the broker goes through, the cache that spares   *)
(* most of them, the numbers that are made of the bars, and what is asked   *)
(* of Chartink and answered.  They share no state, so a behaviour is about  *)
(* one of them, which `component' names.                                    *)
EXTENDS Upstox, TLC

CONSTANTS short, long, risk, scanner

Limits == (short :> 1) @@ (long :> 2)
Lengths == (short :> 1) @@ (long :> 4)
Symmetry == Permutations(Callers)

\* A risk-tab and a scanner window over a calendar with a weekend in it.
CacheWindow == (risk :> 3) @@ (scanner :> 6)

VARIABLES
    component,
    pasted, read, sent, answer, rows,
    days, trading, ticked, volume,
    ipo, closes, swing, tick, live,
    bars, last, ltp, over, burst

inputVars == <<pasted, read, sent, answer, rows>>
curveVars == <<days, trading, ticked, volume>>
swingVars == <<ipo, closes, swing, tick, live>>
burstVars == <<bars, last, ltp, over, burst>>

Input == INSTANCE ChartinkInput WITH MaxBars <- 3

\* Sessions of one minute or two, that open at the same time or a minute later.
Curve == INSTANCE RvolCurve WITH
    Clock <- 2, Volumes <- {0, 1}, Opens <- {0, 1}, Lengths <- {1, 2}, MaxBars <- 3, Days <- 2,
    session <- trading, history <- days, now <- ticked, vtt <- volume

\* Lengths as short as shows their differences; Unit has the divisors of all quotients.
Swing == INSTANCE Mswing WITH
    Closes <- {0, 1, 2}, MaxBars <- 5, Length1 <- 2, Length2 <- 3, EmaLength <- 3, Unit <- 288,
    context <- swing

\* Moves of eight, of exactly ten and of exactly nineteen per cent, and equal ones.
Power == INSTANCE Burst WITH
    Closes <- {0, 100, 110, 119}, LastDay <- 4, Lookback <- 2,
    market <- bars, today <- last, closed <- over, context <- burst

ASSUME Candles!CandleAssumption
ASSUME Input!InputAssumption
ASSUME Curve!CurveAssumption
ASSUME Swing!MswingAssumption
ASSUME Power!BurstAssumption

\* What a behaviour is not about starts in one state and stays there.
MCInit ==
    /\ component \in {"limiter", "candles", "input", "curve", "mswing", "burst"}
    /\ Init /\ Candles!Init /\ Input!Init
    /\ Curve!Init /\ trading.open = 0
    /\ Swing!Init
    /\ Power!Init
    /\ component # "candles" => published = 1
    /\ component # "curve" => trading.minutes = 1
    /\ component # "mswing" => ~ipo

otherVars == <<inputVars, curveVars, swingVars, burstVars>>

LimiterStep == component = "limiter" /\ UNCHANGED <<component, candleVars, otherVars>>
CandleStep == component = "candles" /\ UNCHANGED <<component, vars, otherVars>>
InputStep ==
    /\ component = "input"
    /\ UNCHANGED <<component, vars, candleVars, curveVars, swingVars, burstVars>>
CurveStep ==
    /\ component = "curve"
    /\ UNCHANGED <<component, vars, candleVars, inputVars, swingVars, burstVars>>
SwingStep ==
    /\ component = "mswing"
    /\ UNCHANGED <<component, vars, candleVars, inputVars, curveVars, burstVars>>
PowerStep ==
    /\ component = "burst"
    /\ UNCHANGED <<component, vars, candleVars, inputVars, curveVars, swingVars>>

MCNext ==
    \/ LimiterStep /\ Tick
    \/ \E c \in Callers :
          \/ LimiterStep /\ Call(c)
          \/ LimiterStep /\ Acquire(c)
          \/ LimiterStep /\ Wake(c)
          \/ LimiterStep /\ Answered(c)
          \/ LimiterStep /\ RateLimited(c)
    \/ CandleStep /\ Candles!NextDay
    \/ CandleStep /\ Candles!Publish
    \/ \E c \in Readers :
          \/ CandleStep /\ Candles!Daily(c)
          \/ CandleStep /\ Candles!Check(c)
          \/ CandleStep /\ Candles!Fetch(c)
          \/ CandleStep /\ Candles!FetchFails(c)
          \/ CandleStep /\ Candles!Upsert(c)
          \/ CandleStep /\ Candles!Read(c)
          \/ CandleStep /\ Candles!Return(c)
    \/ InputStep /\ Input!PastePayload
    \/ InputStep /\ Input!PasteText
    \/ \E query \in {"grouped", "series"}, size \in Input!Values("size") :
          \/ InputStep /\ Input!Import(query, size)
          \/ InputStep /\ Input!SavedBefore(query, size)
    \/ InputStep /\ Input!Run
    \/ \E n, k, l \in 0 .. 3 : InputStep /\ Input!Answer(n, k, l)
    \/ \E o \in {0, 1}, n \in {1, 2}, known \in BOOLEAN : CurveStep /\ Curve!Day(o, n, known)
    \/ \E t \in 0 .. 2 : CurveStep /\ Curve!Tick(t, 1)
    \/ \E c \in {0, 1, 2} :
          \/ SwingStep /\ Swing!Completed(c)
          \/ SwingStep /\ Swing!Ticks(c)
    \/ \E c \in {0, 100, 110, 119} : PowerStep /\ Power!Trades(c)
    \/ \E flat \in BOOLEAN : PowerStep /\ Power!Ends(flat)
    \/ PowerStep /\ Power!Opens
    \/ \E n \in 0 .. 4 : PowerStep /\ Power!Load(n)

MCSpec == MCInit /\ [][MCNext]_<<component, vars, candleVars, otherVars>>

\* What Chartink is asked is what was pasted, in whichever form and with the bars
\* it needs, and its values stand in the rows of their bars.
InputSound ==
    component = "input" =>
       /\ Input!TypeOK
       /\ Input!FormsAgree
       /\ Input!SentRight
       /\ Input!RowsOfTheirBars

\* The numbers: what a minute is compared with, what a tick makes of the prepared
\* Mswing and of the Burst Score, is what the whole history would give.
NumbersSound ==
    /\ component = "curve" => Curve!TypeOK /\ Curve!OwnOpen /\ Curve!Converges
    /\ component = "mswing" =>
          Swing!TypeOK /\ Swing!LiveIsWhole /\ Swing!OneShotAgrees /\ Swing!IpoHasScore
    /\ component = "burst" => Power!TypeOK /\ Power!BurstWhole /\ Power!ChangeOfADay
=============================================================================
