----------------------------- MODULE RvolEngine -----------------------------
(***************************************************************************)
(* The live relative-volume engine (services/rvol/engine.py).  Four kinds  *)
(* of threads share the per-symbol state objects without a lock:           *)
(*                                                                         *)
(*   - the UI thread switches symbols and takes snapshots (`setter');      *)
(*   - the minute ticker rolls every symbol onto a newly opened session    *)
(*     (`ticker');                                                         *)
(*   - the builders fetch missing baselines (`batches', `tasks');          *)
(*   - the feed thread writes volumes (Tick).                              *)
(*                                                                         *)
(* A volume is abstracted to the session it was traded in, a baseline and  *)
(* the minute of the session to the session they were computed for: what   *)
(* the engine must never do is divide one session's volume by another's    *)
(* opening minutes.  A symbol that leaves and returns gets a new state     *)
(* object, so an object is a key and a generation; builders and the roll   *)
(* hold objects.  The contents of an object that is no longer shown can    *)
(* never be seen again and are not kept.                                   *)
(***************************************************************************)
EXTENDS Integers, FiniteSets

CONSTANTS
    Keys,             \* instrument keys of the symbols
    LastSession,      \* bound: sessions the exchange opens, in order
    Attempts,         \* RATE_LIMIT_ATTEMPTS
    MaxSwitches       \* bound: how often the user switches symbols

ASSUME RvolAssumption ==
    /\ LastSession \in Nat
    /\ Attempts \in Nat \ {0}
    /\ MaxSwitches \in Nat

Sessions == 1 .. LastSession
None == 0                           \* no session, no baseline, no volume
Generations == 1 .. MaxSwitches + 1
Objects == Keys \X Generations
NoObject == 0
NothingCached == [k \in {} |-> None]

VARIABLES
    market,        \* the session the exchange last opened
    session,       \* _session
    session_date,  \* _session_date
    minute,        \* _minute, by the session it belongs to
    states,        \* _states: key -> generation of its object, or NoObject
    baseline,      \* shown key -> session of its baseline
    vtt,           \* shown key -> session of its volume
    subscribed,    \* keys of the hub subscription
    saved,         \* the rvol_baseline table: <<key, session>>
    ticker,        \* what the ticker does next; "off" until it starts
    rolling,       \* objects the roll goes over, <<key, generation>>
    rollCached,    \* what the roll read from the table
    setter,        \* what the UI thread does next; "idle" between calls
    arrived,       \* keys set_symbols added
    setCached,     \* what set_symbols read from the table
    switches,
    batches,       \* builder threads that have not read the session yet
    tasks,         \* builds in progress
    fruitless,     \* shown keys whose build for `session' ended without a baseline
    shown_minute   \* the minute that a snapshot in progress has read

sessionVars == <<market, session, session_date, minute>>
tickerVars == <<ticker, rolling, rollCached>>
setterVars == <<setter, arrived, setCached, switches>>
buildVars == <<batches, tasks, fruitless>>
objectVars == <<baseline, vtt>>
vars == <<sessionVars, states, objectVars, subscribed, saved, tickerVars,
          setterVars, buildVars, shown_minute>>

-----------------------------------------------------------------------------
Shown == {k \in Keys : states[k] # NoObject}
IsShown(o) == states[o[1]] = o[2]

Cached(K, s) == {k \in K : <<k, s>> \in saved}

Missing(K) == {k \in K : baseline[k] = None}

\* _start_baseline_build: one thread for a non-empty list of keys.
Started(K) == IF K = {} THEN batches ELSE batches \cup {K}

Init ==
    /\ market \in Sessions \cup {None}
    /\ session = market
    /\ session_date = market
    /\ minute = None
    /\ \E K \in SUBSET Keys :
          states = [k \in Keys |-> IF k \in K THEN 1 ELSE NoObject]
    /\ baseline = [k \in Keys |-> None]
    /\ vtt = [k \in Keys |-> None]
    /\ subscribed = {}
    /\ saved \in SUBSET (Keys \X (Sessions \cap {market}))
    /\ ticker = "off"
    /\ rolling = {}
    /\ rollCached = {}
    /\ setter = "init"
    /\ arrived = {}
    /\ setCached = NothingCached
    /\ switches = 0
    /\ batches = {}
    /\ tasks = {}
    /\ fruitless = {}
    /\ shown_minute = None

-----------------------------------------------------------------------------
(* start() and set_symbols(), on the UI thread.                             *)

\* start(): cached baselines, subscription, ticker, then the missing ones.
Start ==
    /\ setter = "init"
    /\ baseline' = [k \in Keys |-> IF k \in Cached(Shown, session_date)
                                   THEN session_date ELSE None]
    /\ subscribed' = Shown
    /\ ticker' = "check"
    /\ setter' = "begun"
    /\ UNCHANGED <<sessionVars, states, vtt, saved, rolling, rollCached, arrived,
                   setCached, switches, buildVars, shown_minute>>

StartBuilding ==
    /\ setter = "begun"
    /\ batches' = Started(Missing(Shown))
    /\ setter' = "idle"
    /\ UNCHANGED <<sessionVars, states, objectVars, subscribed, saved, tickerVars,
                   arrived, setCached, switches, tasks, fruitless, shown_minute>>

\* A new dict reusing the objects of the symbols that stay, rebound at once.
SetSymbols(K) ==
    /\ setter = "idle"
    /\ switches < MaxSwitches
    /\ switches' = switches + 1
    /\ states' = [k \in Keys |-> IF k \notin K THEN NoObject
                                 ELSE IF k \in Shown THEN states[k]
                                 ELSE switches + 2]
    /\ baseline' = [k \in Keys |-> IF k \in K THEN baseline[k] ELSE None]
    /\ vtt' = [k \in Keys |-> IF k \in K THEN vtt[k] ELSE None]
    /\ arrived' = K \ Shown
    /\ setter' = "update"
    /\ fruitless' = fruitless \cap K
    /\ UNCHANGED <<sessionVars, subscribed, saved, tickerVars, setCached, batches,
                   tasks, shown_minute>>

UpdateSubscription ==
    /\ setter = "update"
    /\ subscribed' = Shown
    /\ setter' = IF arrived = {} THEN "idle" ELSE "load"
    /\ UNCHANGED <<sessionVars, states, objectVars, saved, tickerVars, arrived,
                   setCached, switches, buildVars, shown_minute>>

LoadArrived ==
    /\ setter = "load"
    /\ setCached' = [k \in Cached(arrived, session_date) |-> session_date]
    /\ setter' = "write"
    /\ UNCHANGED <<sessionVars, states, objectVars, subscribed, saved, tickerVars,
                   arrived, switches, buildVars, shown_minute>>

WriteArrived ==
    /\ setter = "write"
    /\ baseline' = [k \in Keys |-> IF k \in DOMAIN setCached
                                   THEN setCached[k] ELSE baseline[k]]
    /\ setCached' = NothingCached
    /\ setter' = "missing"
    /\ UNCHANGED <<sessionVars, states, vtt, subscribed, saved, tickerVars, arrived,
                   switches, buildVars, shown_minute>>

BuildArrived ==
    /\ setter = "missing"
    /\ batches' = Started(Missing(arrived))
    /\ arrived' = {}
    /\ setter' = "idle"
    /\ UNCHANGED <<sessionVars, states, objectVars, subscribed, saved, tickerVars,
                   setCached, switches, tasks, fruitless, shown_minute>>

\* stop(): the ticker ends, the builders stop retrying, the keys are released.
Stop ==
    /\ setter = "idle"
    /\ setter' = "stopped"
    /\ subscribed' = {}
    /\ UNCHANGED <<sessionVars, states, objectVars, saved, tickerVars, arrived,
                   setCached, switches, buildVars, shown_minute>>

\* snapshot() reads the minute first, then the volume and baseline of each row.
SnapshotMinute ==
    /\ setter = "idle"
    /\ Shown # {}
    /\ shown_minute' = minute
    /\ setter' = "snapshot"
    /\ UNCHANGED <<sessionVars, states, objectVars, subscribed, saved, tickerVars,
                   arrived, setCached, switches, buildVars>>

SnapshotRows ==
    /\ setter = "snapshot"
    /\ shown_minute' = None
    /\ setter' = "idle"
    /\ UNCHANGED <<sessionVars, states, objectVars, subscribed, saved, tickerVars,
                   arrived, setCached, switches, buildVars>>

-----------------------------------------------------------------------------
(* The builder threads of _build_missing.                                   *)

Task(k, s) ==
    [key |-> k, session |-> s, step |-> "lookup", object |-> NoObject, try |-> 1]

\* One thread reads the session once, for all its keys.
CaptureSession(K) ==
    /\ K \in batches
    /\ batches' = batches \ {K}
    /\ tasks' = tasks \cup (IF session = None THEN {} ELSE {Task(k, session) : k \in K})
    /\ UNCHANGED <<sessionVars, states, objectVars, subscribed, saved, tickerVars,
                   setterVars, fruitless, shown_minute>>

Advance(t, u) == tasks' = (tasks \ {t}) \cup {u}
Finish(t) == tasks' = tasks \ {t}

Lookup(t) ==
    /\ t \in tasks
    /\ t.step = "lookup"
    /\ IF states[t.key] = NoObject
       THEN Finish(t)    \* dropped from the watchlist
       ELSE Advance(t, [t EXCEPT !.step = "fetch", !.object = states[t.key]])
    /\ UNCHANGED <<sessionVars, states, objectVars, subscribed, saved, tickerVars,
                   setterVars, batches, fruitless, shown_minute>>

\* Mutant: a rate-limited build is retried without a limit.
FetchLimitedForever(t) ==
    /\ t \in tasks
    /\ t.step = "fetch"
    /\ t.try < Attempts + 1
    /\ setter # "stopped"
    /\ Advance(t, [t EXCEPT !.try = @ + 1])
    /\ UNCHANGED <<sessionVars, states, objectVars, subscribed, saved, tickerVars,
                   setterVars, batches, fruitless, shown_minute>>

FetchLimited(t) ==
    /\ t \in tasks
    /\ t.step = "fetch"
    /\ t.try < Attempts
    /\ setter # "stopped"
    /\ Advance(t, [t EXCEPT !.try = @ + 1])
    /\ UNCHANGED <<sessionVars, states, objectVars, subscribed, saved, tickerVars,
                   setterVars, batches, fruitless, shown_minute>>

\* An exception, the last rate-limited attempt, or no history.
FetchFails(t) ==
    /\ t \in tasks
    /\ t.step = "fetch"
    /\ Finish(t)
    /\ fruitless' = IF IsShown(<<t.key, t.object>>) /\ t.session = session
                    THEN fruitless \cup {t.key} ELSE fruitless
    /\ UNCHANGED <<sessionVars, states, objectVars, subscribed, saved, tickerVars,
                   setterVars, batches, shown_minute>>

FetchSaves(t) ==
    /\ t \in tasks
    /\ t.step = "fetch"
    /\ saved' = saved \cup {<<t.key, t.session>>}
    /\ Advance(t, [t EXCEPT !.step = "compare"])
    /\ UNCHANGED <<sessionVars, states, objectVars, subscribed, tickerVars,
                   setterVars, batches, fruitless, shown_minute>>

\* "A session rollover may have happened while this was fetching"
CompareSession(t) ==
    /\ t \in tasks
    /\ t.step = "compare"
    /\ IF session = t.session THEN Advance(t, [t EXCEPT !.step = "write"]) ELSE Finish(t)
    /\ UNCHANGED <<sessionVars, states, objectVars, subscribed, saved, tickerVars,
                   setterVars, batches, fruitless, shown_minute>>

WriteBuilt(t) ==
    /\ t \in tasks
    /\ t.step = "write"
    /\ baseline' = [baseline EXCEPT ![t.key] =
                       IF IsShown(<<t.key, t.object>>) THEN t.session ELSE @]
    /\ Finish(t)
    /\ UNCHANGED <<sessionVars, states, vtt, subscribed, saved, tickerVars,
                   setterVars, batches, fruitless, shown_minute>>

Build(t) ==
    \/ Lookup(t) \/ FetchLimited(t) \/ FetchFails(t) \/ FetchSaves(t)
    \/ CompareSession(t) \/ WriteBuilt(t)

-----------------------------------------------------------------------------
(* The minute ticker and _roll_session.                                     *)

CheckSession ==
    /\ ticker = "check"
    /\ setter # "stopped"
    /\ IF market # None /\ market # session
       THEN session' = market /\ ticker' = "date" /\ fruitless' = {}
       ELSE ticker' = "minute" /\ UNCHANGED <<session, fruitless>>
    /\ UNCHANGED <<market, session_date, minute, states, objectVars, subscribed,
                   saved, rolling, rollCached, setterVars, batches, tasks, shown_minute>>

RollDate ==
    /\ ticker = "date"
    /\ session_date' = session
    /\ ticker' = "states"
    /\ UNCHANGED <<market, session, minute, states, objectVars, subscribed, saved,
                   rolling, rollCached, setterVars, buildVars, shown_minute>>

RollStates ==
    /\ ticker = "states"
    /\ rolling' = {<<k, states[k]>> : k \in Shown}
    /\ ticker' = "load"
    /\ UNCHANGED <<sessionVars, states, objectVars, subscribed, saved, rollCached,
                   setterVars, buildVars, shown_minute>>

RollLoad ==
    /\ ticker = "load"
    /\ rollCached' = Cached({o[1] : o \in rolling}, session)
    /\ ticker' = "swap"
    /\ UNCHANGED <<sessionVars, states, objectVars, subscribed, saved, rolling,
                   setterVars, buildVars, shown_minute>>

\* Each object gets the new session's baseline, then loses its volume.
RollBaselines ==
    /\ ticker = "swap"
    /\ baseline' = [k \in Keys |-> IF <<k, states[k]>> \notin rolling THEN baseline[k]
                                   ELSE IF k \in rollCached THEN session ELSE None]
    /\ ticker' = "clear"
    /\ UNCHANGED <<sessionVars, states, vtt, subscribed, saved, rolling, rollCached,
                   setterVars, buildVars, shown_minute>>

\* Mutant: the old session's volume stays.
RollVolumesKept ==
    /\ ticker = "clear"
    /\ ticker' = "missing"
    /\ UNCHANGED <<sessionVars, states, objectVars, subscribed, saved, rolling,
                   rollCached, setterVars, buildVars, shown_minute>>

RollVolumes ==
    /\ ticker = "clear"
    /\ vtt' = [k \in Keys |-> IF <<k, states[k]>> \in rolling THEN None ELSE vtt[k]]
    /\ ticker' = "missing"
    /\ UNCHANGED <<sessionVars, states, baseline, subscribed, saved, rolling,
                   rollCached, setterVars, buildVars, shown_minute>>

\* Mutant: the roll leaves the builds to the next switch of symbols.
RollMissingNever ==
    /\ ticker = "missing"
    /\ rolling' = {}
    /\ rollCached' = {}
    /\ ticker' = "minute"
    /\ UNCHANGED <<sessionVars, states, objectVars, subscribed, saved, setterVars,
                   buildVars, shown_minute>>

\* An object that was dropped meanwhile still has what the roll wrote.
RollMissing ==
    /\ ticker = "missing"
    /\ batches' = Started({o[1] : o \in {p \in rolling :
                                          IF IsShown(p) THEN baseline[p[1]] = None
                                          ELSE p[1] \notin rollCached}})
    /\ rolling' = {}
    /\ rollCached' = {}
    /\ ticker' = "minute"
    /\ UNCHANGED <<sessionVars, states, objectVars, subscribed, saved, setterVars,
                   tasks, fruitless, shown_minute>>

SetMinute ==
    /\ ticker = "minute"
    /\ minute' = session
    /\ ticker' = "check"
    /\ UNCHANGED <<market, session, session_date, states, objectVars, subscribed,
                   saved, rolling, rollCached, setterVars, buildVars, shown_minute>>

-----------------------------------------------------------------------------
(* The exchange and the feed thread.                                        *)

OpenSession ==
    /\ market + 1 \in Sessions
    /\ market' = market + 1
    /\ UNCHANGED <<session, session_date, minute, states, objectVars, subscribed,
                   saved, tickerVars, setterVars, buildVars, shown_minute>>

\* Sessions are hours apart, so a tick carries the volume of the session that
\* is open when it is handled.
Tick(k) ==
    /\ k \in subscribed \cap Shown
    /\ market # None
    /\ vtt' = [vtt EXCEPT ![k] = market]
    /\ UNCHANGED <<sessionVars, states, baseline, subscribed, saved, tickerVars,
                   setterVars, buildVars, shown_minute>>

-----------------------------------------------------------------------------
UiThread ==
    \/ Start \/ StartBuilding
    \/ UpdateSubscription \/ LoadArrived \/ WriteArrived \/ BuildArrived

Roll ==
    \/ CheckSession \/ RollDate \/ RollStates \/ RollLoad \/ RollBaselines
    \/ RollVolumes \/ RollMissing \/ SetMinute

Builders ==
    \/ \E K \in batches : CaptureSession(K)
    \/ \E t \in tasks : Build(t)

Next ==
    \/ UiThread
    \/ \E K \in SUBSET Keys : SetSymbols(K)
    \/ Stop
    \/ SnapshotMinute
    \/ SnapshotRows
    \/ Roll
    \/ Builders
    \/ OpenSession
    \/ \E k \in Keys : Tick(k)

Spec == Init /\ [][Next]_vars

-----------------------------------------------------------------------------
NoneOrSession == {None} \cup Sessions

Builds == [key : Keys, session : Sessions, try : 1 .. Attempts,
           step : {"lookup", "fetch", "compare", "write"}, object : {NoObject} \cup Generations]

TypeOK ==
    /\ {market, session, session_date, minute, shown_minute} \subseteq NoneOrSession
    /\ states \in [Keys -> {NoObject} \cup Generations]
    /\ {baseline, vtt} \subseteq [Keys -> NoneOrSession]
    /\ subscribed \subseteq Keys
    /\ saved \subseteq Keys \X Sessions
    /\ rolling \subseteq Objects
    /\ rollCached \subseteq Keys
    /\ ticker \in {"off", "check", "date", "states", "load", "swap", "clear", "missing", "minute"}
    /\ setter \in {"init", "begun", "idle", "update", "load", "write", "missing", "stopped",
                   "snapshot"}
    /\ switches \in 0 .. MaxSwitches
    /\ arrived \subseteq Keys
    /\ setCached \in [DOMAIN setCached -> Sessions]
    /\ DOMAIN setCached \subseteq IF setter = "write" THEN arrived ELSE {}
    /\ batches \subseteq SUBSET Keys
    /\ fruitless \subseteq Keys
    /\ tasks \subseteq Builds
    /\ \A t \in tasks : t.step = "lookup" <=> t.object = NoObject

\* "divided by the new session's minute-0 baseline would read as an enormous
\* spike": whatever row a snapshot reads next, and however the roll, the ticks
\* and a switch interleave with it, it does not divide an older session's
\* volume by the baseline at a newer session's minute.
NoFakeSpike ==
    (setter = "snapshot" /\ shown_minute # None) =>
        \A k \in Shown : (baseline[k] # None /\ vtt[k] # None) => vtt[k] >= shown_minute

\* A shown symbol without a baseline is being built, or its build for this
\* session ended without one: no interleaving of a switch with a roll leaves
\* a row that nobody will ever fill.
Pending(k) ==
    \/ \E K \in batches : k \in K
    \/ \E t \in tasks : /\ t.key = k /\ t.session = session
                       /\ t.object \in {NoObject, states[k]}

NobodyForgotten ==
    (ticker = "check" /\ setter \in {"idle", "snapshot", "stopped"} /\ session # None) =>
        \A k \in Shown :
            \/ baseline[k] # None
            \/ k \in fruitless
            \/ Pending(k)

\* What a check of the engine is about, beside NoFakeSpike.
RvolSound == TypeOK /\ NobodyForgotten
=============================================================================
