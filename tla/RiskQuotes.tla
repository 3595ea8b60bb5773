----------------------------- MODULE RiskQuotes -----------------------------
(* The prices of RiskService (services/risk.py): ticks of the feed, and the *)
(* last traded prices that a worker asks the quote API for when the feed    *)
(* has nothing recent.  Time is counted in frames of the tab; an age counts *)
(* up to RefreshAfter, which also stands for older and for never.           *)
EXTENDS Naturals, FiniteSets

CONSTANTS
    Positions,     \* the instrument keys of the open positions
    Sized,         \* the key of the symbol in the form
    RefreshAfter,  \* QUOTE_REFRESH_SECONDS
    RequestTakes   \* the longest a request to the quote API takes

\* The symbol in the form is asked for after the positions, and only when no
\* request is under way.  Were the positions' requests to fill the time that
\* prices are good for, one after the other, it would never have its turn.
QuoteAssumption ==
    /\ IsFiniteSet(Positions) /\ {RefreshAfter, RequestTakes} \subseteq Nat
    /\ Cardinality(Positions) * (RequestTakes + 1) < RefreshAfter

Keys == Positions \cup {Sized}
Never == RefreshAfter

VARIABLES
    tickAge,     \* since a key's last tick
    askAge,      \* _quote_attempts: since a key was last asked for
    source,      \* which of _ticks and _rest has the later stamp
    inFlight,    \* _quotes_in_flight
    requests,    \* the workers' requests: keys, age, whether it is answered
    turn,        \* what comes next: the positions, the symbol, the next frame
    sinceAsked   \* history: since a request for the key was last sent

vars == <<tickAge, askAge, source, inFlight, requests, turn, sinceAsked>>

Init ==
    /\ tickAge = [k \in Keys |-> Never] /\ askAge = [k \in Keys |-> Never]
    /\ source = [k \in Keys |-> "close"]
    /\ inFlight = FALSE /\ requests = {} /\ turn = "portfolio"
    /\ sinceAsked = [k \in Keys |-> Never]

\* _on_tick, on the feed's thread.
OnTick(k) ==
    /\ tickAge' = [tickAge EXCEPT ![k] = 0]
    /\ source' = [source EXCEPT ![k] = "live"]
    /\ UNCHANGED <<askAge, inFlight, requests, turn, sinceAsked>>

StaleByTick(keys) == {k \in keys : tickAge[k] >= RefreshAfter}

\* The keys that the feed has not updated lately, and nobody has asked for.
Stale(keys) == {k \in keys : tickAge[k] >= RefreshAfter /\ askAge[k] >= RefreshAfter}

NeverBusy == FALSE
Busy == inFlight

\* _refresh_quotes: one request at a time, and what it refuses is no attempt.
RefreshQuotes(keys) ==
    LET stale == Stale(keys)
        Now(ages) == [k \in Keys |-> IF k \in stale THEN 0 ELSE ages[k]]
    IN  IF stale = {} \/ Busy
        THEN UNCHANGED <<askAge, inFlight, requests, sinceAsked>>
        ELSE /\ inFlight' = TRUE
             /\ askAge' = Now(askAge) /\ sinceAsked' = Now(sinceAsked)
             /\ requests' = requests \cup {[keys |-> stale, age |-> 0, answered |-> FALSE]}

\* A frame draws the portfolio, then the symbol that is being sized.
Portfolio ==
    /\ turn = "portfolio" /\ turn' = "info"
    /\ RefreshQuotes(Positions)
    /\ UNCHANGED <<tickAge, source>>

Info ==
    /\ turn = "info" /\ turn' = "time"
    /\ RefreshQuotes({Sized})
    /\ UNCHANGED <<tickAge, source>>

\* The prices above zero are kept; a request that fails brings none.
Answered(r, priced) ==
    /\ ~r.answered
    /\ source' = [k \in Keys |-> IF k \in priced THEN "quote" ELSE source[k]]
    /\ requests' = (requests \ {r}) \cup {[r EXCEPT !.answered = TRUE]}
    /\ UNCHANGED <<tickAge, askAge, inFlight, turn, sinceAsked>>

Kept(r) == \E k \in r.keys : source[k] = "quote"
LandedIfKept(r) == ~Kept(r)
Landed(r) == FALSE

\* The finally of _fetch_quotes.
Land(r) ==
    /\ r.answered
    /\ requests' = requests \ {r}
    /\ inFlight' = Landed(r)
    /\ UNCHANGED <<tickAge, askAge, source, turn, sinceAsked>>

Older(ages) == [k \in Keys |-> IF ages[k] = Never THEN Never ELSE ages[k] + 1]

\* The client gives up on a request that takes longer.
NextFrame ==
    /\ turn = "time" /\ turn' = "portfolio"
    /\ \A r \in requests : r.age < RequestTakes
    /\ tickAge' = Older(tickAge) /\ askAge' = Older(askAge) /\ sinceAsked' = Older(sinceAsked)
    /\ requests' = {[r EXCEPT !.age = r.age + 1] : r \in requests}
    /\ UNCHANGED <<source, inFlight>>

Worker == \E r \in requests : Land(r) \/ \E priced \in SUBSET r.keys : Answered(r, priced)

Frame == Portfolio \/ Info \/ NextFrame

Next == (\E k \in Keys : OnTick(k)) \/ Frame \/ Worker

\* A timer draws the frames, and a thread that was started runs.
Spec == Init /\ [][Next]_vars /\ WF_vars(Frame) /\ WF_vars(Worker)

-----------------------------------------------------------------------------

TypeOK ==
    /\ {tickAge, askAge, sinceAsked} \subseteq [Keys -> 0 .. Never]
    /\ source \in [Keys -> {"close", "quote", "live"}]
    /\ inFlight = (requests # {}) /\ turn \in {"portfolio", "info", "time"}
    /\ requests \subseteq [keys : SUBSET Keys, age : 0 .. RequestTakes, answered : BOOLEAN]

\* A worker at most asks the quote API, whatever asked for prices.
OneAtATime == Cardinality(requests) <= 1

\* A price is asked for at most once a minute: the service's docstring.
OnceAMinute ==
    [][\A r \in requests' : r.age = 0 /\ ~r.answered /\ r \notin requests
          => \A k \in r.keys : sinceAsked[k] >= RefreshAfter]_vars

\* No key is left without a tick or a request for good: not when a request
\* fails, and not when the positions' requests are always first.
EveryoneAsked == \A k \in Keys : []<>(tickAge[k] < RefreshAfter \/ sinceAsked[k] < RefreshAfter)
=============================================================================
