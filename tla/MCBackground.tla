--------------------------- MODULE MCBackground ---------------------------
(* The services behind the dashboard for TLC.  They share no state, so a    *)
(* behaviour is about one of them, which `component' names.                 *)
EXTENDS Background

CONSTANT
    FirstStreamed  \* one of the two keys whose bars the risk tab draws

DatasetNames == <<"bands", "etfs">>
TypedNames == {<<"n1">>}

VARIABLE component

allVars == <<component, vars, securityVars, quoteVars, barVars>>

ASSUME ChartinkAssumption
ASSUME Security!SecuritiesAssumption
ASSUME Quotes!QuoteAssumption
ASSUME FirstStreamed \in Streamed /\ Cardinality(Streamed) = 2

\* What a behaviour is not about starts in one state and stays there.
MCInit ==
    /\ component \in {"chartink", "securities", "quotes", "bars"}
    /\ Init /\ Security!Init /\ Quotes!Init /\ Bars!Init
    /\ component # "securities" => stored["bands"] = 0 /\ profiles = [i \in Isins |-> "none"]
    /\ component # "bars" => current = {}

ChartinkStep == component = "chartink" /\ UNCHANGED <<component, securityVars, quoteVars, barVars>>
SecurityStep == component = "securities" /\ UNCHANGED <<component, vars, quoteVars, barVars>>
QuoteStep == component = "quotes" /\ UNCHANGED <<component, vars, securityVars, barVars>>
BarStep == component = "bars" /\ UNCHANGED <<component, vars, securityVars, quoteVars>>

\* The disjuncts of each module's Next, so that each is seen to fire.
ChartinkNext ==
    \/ ChartinkStep /\ ReadItems
    \/ ChartinkStep /\ KeepItems
    \/ ChartinkStep /\ PaneSteps
    \/ ChartinkStep /\ Close
    \/ ChartinkStep /\ RunnerSteps
    \/ ChartinkStep /\ RunnerDies

SecurityNext ==
    \/ SecurityStep /\ Security!UiThread
    \/ SecurityStep /\ Security!RefreshThread
    \/ \E i \in Isins : SecurityStep /\ Security!ProfileAges(i)

QuoteNext ==
    \/ \E k \in Positions \cup {Sized} : QuoteStep /\ Quotes!OnTick(k)
    \/ QuoteStep /\ Quotes!Frame
    \/ QuoteStep /\ Quotes!Worker

BarNext ==
    \/ \E c \in Bars!Callers : BarStep /\ Bars!StartFetch(c)
    \/ \E c \in Bars!Callers, k \in Streamed : BarStep /\ Bars!EnsureHistory(c, k)
    \/ \E k \in Streamed : BarStep /\ Bars!Unsubscribe(k)
    \/ \E k \in Streamed : BarStep /\ Bars!ReadBars(k)
    \/ \E f \in fetches : BarStep /\ Bars!Worker(f)
    \/ BarStep /\ Bars!KeepBars
    \/ BarStep /\ Bars!SaveSettings
    \/ BarStep /\ Bars!NextDay

MCNext == ChartinkNext \/ SecurityNext \/ QuoteNext \/ BarNext

\* Each module's fairness, for the behaviours that are about it.  As a behaviour
\* is about one module, a condition holds for the disjunction of several when it
\* holds for each.
Serving ==
    \/ ChartinkStep /\ RunnerSteps
    \/ SecurityStep /\ Security!RefreshThread
    \/ QuoteStep /\ Quotes!Frame
    \/ BarStep /\ Bars!Fetch(FirstStreamed)

Joining ==
    \/ SecurityStep /\ Security!UiJoins
    \/ QuoteStep /\ Quotes!Worker
    \/ \E k \in Streamed \ {FirstStreamed} : BarStep /\ Bars!Fetch(k)

MCSpec == MCInit /\ [][MCNext]_allVars /\ WF_allVars(Serving) /\ WF_allVars(Joining)

-----------------------------------------------------------------------------
\* Whatever waits has its turn: a queued item, a thread that is to end, a key
\* without a price, a history that is pending.
AllServed ==
    /\ QueueServed
    /\ Security!CancelEnds
    /\ component = "quotes" => Quotes!EveryoneAsked
    /\ Bars!PendingEnds
=============================================================================
