------------------------------ MODULE RiskBars ------------------------------
(* The daily histories of RiskService (services/risk.py), of which the      *)
(* stops, the volume and the assumed stops are computed: _bars, what has    *)
(* been read of the candle cache today, and the threads that top the cache  *)
(* up.  The tab and a sync start them, the tab draws with what it has read.  *)
EXTENDS Naturals, FiniteSets

CONSTANT Keys

Callers == {"ui", "sync"}

VARIABLES
    subscribed, \* the keys that are streamed
    asking,     \* per caller: the key it is ensuring the history of, and how far
    current,    \* the keys whose kept candles reach the last session
    attempted,  \* _attempted: those asked for today
    fetching,   \* _fetching
    fetches,    \* the threads of _fetch_history: key, and what has come of it
    bars,       \* _bars: per key, what was read today
    reading,    \* the key that a draw has read, and not yet kept, the bars of
    overtaken,  \* history: the keys whose fetch ended in the midst of a draw
    asked,      \* history: the keys that the broker was asked for today
    askedTwice  \* history: twice

vars == <<subscribed, asking, current, attempted, fetching, fetches, bars, reading, overtaken,
          asked, askedTwice>>
drawing == <<bars, reading, overtaken>>
past == <<asked, askedTwice>>

Idle == [key |-> "none", at |-> "idle"]
NoDraw == [key |-> "none", has |-> "none"]

Init ==
    /\ subscribed = {} /\ asking = [c \in Callers |-> Idle]
    /\ current \in SUBSET Keys /\ attempted = {} /\ fetching = {} /\ fetches = {}
    /\ bars = [k \in Keys |-> "none"] /\ reading = NoDraw /\ overtaken = {}
    /\ asked = {} /\ askedTwice = FALSE

UnderWay == fetching
Claimed == attempted \cup fetching

\* A key is newly subscribed: _ensure_history claims it for today, or not.
EnsureHistory(c, k) ==
    /\ asking[c] = Idle /\ k \notin subscribed
    /\ IF k \in Claimed
       THEN subscribed' = subscribed \cup {k} /\ UNCHANGED <<asking, attempted>>
       ELSE /\ attempted' = attempted \cup {k}
            /\ asking' = [asking EXCEPT ![c] = [key |-> k, at |-> "claimed"]]
            /\ UNCHANGED subscribed
    /\ UNCHANGED <<current, fetching, fetches, drawing, past>>

\* candles.is_current, then the thread.
StartFetch(c) ==
    LET k == asking[c].key
    IN  /\ asking[c].at = "claimed"
        /\ asking' = [asking EXCEPT ![c] = Idle]
        /\ subscribed' = subscribed \cup {k}
        /\ IF k \in current
           THEN UNCHANGED <<fetching, fetches, past>>
           ELSE /\ fetching' = fetching \cup {k}
                /\ fetches' = fetches \cup {[key |-> k, came |-> "nothing"]}
                /\ asked' = asked \cup {k}
                /\ askedTwice' = (askedTwice \/ k \in asked)
        /\ UNCHANGED <<current, attempted, drawing>>

\* The key is streamed no more.
Unsubscribe(k) ==
    /\ k \in subscribed
    /\ subscribed' = subscribed \ {k}
    /\ UNCHANGED <<asking, current, attempted, fetching, fetches, drawing, past>>

\* candles.daily, which keeps what it gets.  One that was asked for before
\* midnight may as well bring nothing new: Fails.
Arrives(f) ==
    /\ f.came = "nothing"
    /\ current' = current \cup {f.key}
    /\ fetches' = (fetches \ {f}) \cup {[f EXCEPT !.came = "candles"]}
    /\ UNCHANGED <<subscribed, asking, attempted, fetching, drawing, past>>

Fails(f) ==
    /\ f.came = "nothing"
    /\ fetches' = (fetches \ {f}) \cup {[f EXCEPT !.came = "error"]}
    /\ UNCHANGED <<subscribed, asking, current, attempted, fetching, drawing, past>>

KeptBars(k) == bars[k]
PoppedBars(k) == "none"

DiscardedIfKept(f) == IF f.came = "candles" THEN fetching \ {f.key} ELSE fetching
Discarded(f) == fetching \ {f.key}

\* The finally of _fetch_history.
Ends(f) ==
    /\ f.came # "nothing"
    /\ fetches' = fetches \ {f}
    /\ fetching' = Discarded(f)
    /\ bars' = [bars EXCEPT ![f.key] = PoppedBars(f.key)]
    /\ overtaken' = IF reading.key = f.key THEN overtaken \cup {f.key} ELSE overtaken
    /\ UNCHANGED <<subscribed, asking, current, attempted, reading, past>>

\* _history: the bars of a drawn key are read once a day...
ReadBars(k) ==
    /\ reading = NoDraw /\ bars[k] = "none"
    /\ reading' = [key |-> k, has |-> IF k \in current THEN "current" ELSE "old"]
    /\ overtaken' = overtaken \ {k}
    /\ UNCHANGED <<subscribed, asking, current, attempted, fetching, fetches, bars, past>>

\* ...and kept.
KeepBars ==
    /\ reading # NoDraw
    /\ bars' = [bars EXCEPT ![reading.key] = reading.has]
    /\ reading' = NoDraw
    /\ UNCHANGED <<subscribed, asking, current, attempted, fetching, fetches, overtaken, past>>

\* save_settings: the window of the histories depends on the settings.
SaveSettings ==
    /\ reading = NoDraw /\ \E k \in Keys : bars[k] # "none"
    /\ bars' = [k \in Keys |-> "none"]
    /\ UNCHANGED <<subscribed, asking, current, attempted, fetching, fetches, reading, overtaken,
                   past>>

\* The candles lack a session, nothing was asked for, the bars are read again.
\* (A draw or a claim that midnight falls into is not modelled.)
NextDay ==
    /\ reading = NoDraw /\ \A c \in Callers : asking[c] = Idle
    /\ current' = {} /\ attempted' = {} /\ bars' = [k \in Keys |-> "none"]
    /\ overtaken' = {} /\ asked' = {}
    /\ UNCHANGED <<subscribed, asking, fetching, fetches, reading, askedTwice>>

Worker(f) == Arrives(f) \/ Fails(f) \/ Ends(f)

Next ==
    \/ \E c \in Callers : StartFetch(c) \/ \E k \in Keys : EnsureHistory(c, k)
    \/ \E k \in Keys : Unsubscribe(k) \/ ReadBars(k)
    \/ \E f \in fetches : Worker(f)
    \/ KeepBars \/ SaveSettings \/ NextDay

Fetch(k) == \E f \in fetches : f.key = k /\ Worker(f)

\* A thread that was started runs.
Spec == Init /\ [][Next]_vars /\ \A k \in Keys : WF_vars(Fetch(k))

-----------------------------------------------------------------------------

TypeOK ==
    /\ {subscribed, current, attempted, fetching, overtaken, asked} \subseteq SUBSET Keys
    /\ asking \in [Callers -> {Idle} \cup [key : Keys, at : {"claimed"}]]
    /\ \A f, g \in fetches : f.key = g.key => f = g
    /\ fetches \subseteq [key : Keys, came : {"nothing", "candles", "error"}]
    /\ bars \in [Keys -> {"none", "old", "current"}]
    /\ reading \in {NoDraw} \cup [key : Keys, has : {"old", "current"}]

\* What the tab says of a history that is on its way is so: the key has one
\* thread, and only as long as it is in _fetching.
PendingHonest ==
    \A k \in Keys : Cardinality({f \in fetches : f.key = k}) = IF k \in fetching THEN 1 ELSE 0

\* A history is asked for once a day, whoever subscribes to it how often.
OnceADay == ~askedTwice

\* Once a fetch has ended, nothing older is drawn of its key, unless the fetch
\* ended between the draw's read and its write: then the old bars stay until
\* the day or the settings change, which no line of the code prevents.
NothingOld ==
    \A k \in Keys : k \in current \ (fetching \cup overtaken) => bars[k] # "old"

\* The bars of a key that is being fetched are pending for a while only.
PendingEnds == \A k \in Keys : []<>(k \notin fetching)

\* "Topped up once per session": every day that the tab draws a streamed key,
\* its history has been asked for.  The code does not keep to it: the README.
ToppedUpEachDay ==
    \A k \in Keys : k \in subscribed /\ bars[k] # "none" => k \in attempted \cup fetching
=============================================================================
