------------------------------- MODULE Scanner -------------------------------
(***************************************************************************)
(* The Scanner (services/scanner/engine.py) and the loader that prepares   *)
(* its daily histories (services/daily_contexts.py).                       *)
(*                                                                         *)
(* Day d has session d, which opens some time after midnight; its candle   *)
(* is in the history from day d + 1 on.  A context is abstracted to the    *)
(* session it was prepared for and the last candle in it, a price to the   *)
(* session it was traded in.  The benchmark index is a slot like a symbol  *)
(* of the watchlist.  A slot that is filled again gets a new state object, *)
(* a generation; what lands on an object that left is never seen.          *)
(*                                                                         *)
(* Threads: the UI (`ui'), the session check (`runner', which loads in     *)
(* line), a thread for each load_async (`loads') and the workers.          *)
(***************************************************************************)
EXTENDS Integers, Sequences, FiniteSets

CONSTANTS
    Keys,             \* instruments of watchlists
    Index,            \* the slot of the benchmark index
    Ticking,          \* bound: the slots whose instrument trades
    Workers,          \* FETCH_WORKERS
    LastDay,          \* bound: the calendar stops here
    MaxSwitches       \* bound: calls of set_symbols and set_index

ScannerAssumption ==
    /\ Index \notin Keys /\ Ticking \subseteq Keys \cup {Index}
    /\ IsFiniteSet(Workers)
    /\ LastDay \in Nat \ {0, 1} /\ MaxSwitches \in Nat

Slots == Keys \cup {Index}
Loaders == 0 .. MaxSwitches           \* the runner's load is number 0
None == 0
NoContext == [of |-> None, through |-> None]

VARIABLES
    day, opened,      \* the calendar: today, and whether its session opened
    cached,           \* slot -> its latest cached candle
    session,          \* _session
    previous,         \* _previous_session
    states,           \* slot -> generation of its object, or None
    context,          \* slot -> context of the object shown
    price,            \* slot -> session of its last tick
    ui,               \* what the UI thread does next: "idle", "load", "snapshot", "stopped"
    added,            \* slots the call in progress filled
    switches,         \* calls of set_symbols and set_index
    shown,            \* the session a snapshot in progress has read
    runner,           \* "check", "session", "states" or "load"
    loads,            \* loader -> jobs to read, a delivery, jobs to check
    queue,            \* _jobs
    work,             \* worker -> the job in its hands
    pending,          \* _pending
    failed,           \* history: <<slot, object>> whose fetch failed
    missed            \* history: those read when behind and found current when checked

calendar == <<day, opened>>
engine == <<session, previous, states, price>>
uiVars == <<ui, added, switches, shown>>
fetching == <<queue, work, pending>>
history == <<failed, missed>>
vars == <<calendar, cached, engine, context, uiVars, runner, loads, fetching, history>>

-----------------------------------------------------------------------------
NoLoad == [read |-> {}, ready |-> {}, check |-> {}]
Free == [step |-> "free"]
Filled == {s \in Slots : states[s] # None}

Jobs(S, date) == {[slot |-> s, object |-> states[s], date |-> date] : s \in S}
Object(job) == <<job.slot, job.object>>
Live(job) == states[job.slot] = job.object
Wanted(job) == Live(job) /\ session = job.date

ActiveSession == IF opened THEN day ELSE day - 1
LatestToday == day                    \* Mutant: today included.
LatestSession == day - 1              \* latest_available_session

\* prepare_symbol's result on the object of the job.
Delivered(job, through) ==
    IF Live(job) THEN [context EXCEPT ![job.slot] = [of |-> job.date, through |-> through]]
                 ELSE context

Init ==
    /\ day = 2 /\ opened = TRUE
    /\ \E c \in {None, 1} : cached = [s \in Slots |-> c]
    /\ session = None /\ previous = None
    /\ \E K \in SUBSET Keys : states = [s \in Slots |-> IF s \in K \cup {Index} THEN 1 ELSE None]
    /\ context = [s \in Slots |-> NoContext]
    /\ price = [s \in Slots |-> None]
    /\ ui = "idle" /\ added = {} /\ switches = 0 /\ shown = None
    /\ runner = "check"
    /\ loads = [l \in Loaders |-> NoLoad]
    /\ queue = <<>> /\ work = [w \in Workers |-> Free] /\ pending = 0
    /\ failed = {} /\ missed = {}

-----------------------------------------------------------------------------
(* The UI thread.                                                           *)

\* Slots S are filled by new objects, and T stay.
Switch(S, T) ==
    /\ ui = "idle" /\ switches < MaxSwitches
    /\ switches' = switches + 1
    /\ states' = [s \in Slots |-> CASE s \in S -> switches + 2
                                    [] s \in T \ S -> states[s]
                                    [] OTHER -> None]
    /\ context' = [s \in Slots |-> IF s \in T \ S THEN context[s] ELSE NoContext]
    /\ price' = [s \in Slots |-> IF s \in T \ S THEN price[s] ELSE None]
    /\ added' = S /\ ui' = "load"
    /\ UNCHANGED <<calendar, cached, session, previous, shown, runner, loads, fetching, history>>

SetSymbols(K) == Switch(K \ Filled, (K \cap Filled) \cup {Index})
SetIndex == Switch({Index}, Filled)

\* load_async for what arrived, if there is a session yet.
LoadAdded ==
    /\ ui = "load"
    /\ loads' = IF session = None THEN loads
                ELSE [loads EXCEPT ![switches].read = Jobs(added, session)]
    /\ added' = {} /\ ui' = "idle"
    /\ UNCHANGED <<calendar, cached, engine, context, switches, shown, runner, fetching, history>>

\* Closing the tab ends the workers after the job in their hands.
Stop ==
    /\ ui = "idle"
    /\ ui' = "stopped"
    /\ UNCHANGED <<calendar, cached, engine, context, added, switches, shown, runner, loads,
                   fetching, history>>

\* snapshot() reads the session, and the previous one later, for each row.
SnapshotSession ==
    /\ ui = "idle" /\ session # None
    /\ shown' = session /\ ui' = "snapshot"
    /\ UNCHANGED <<calendar, cached, engine, context, added, switches, runner, loads, fetching,
                   history>>

SnapshotRows ==
    /\ ui = "snapshot"
    /\ shown' = None /\ ui' = "idle"
    /\ UNCHANGED <<calendar, cached, engine, context, added, switches, runner, loads, fetching,
                   history>>

-----------------------------------------------------------------------------
(* _run: the session check.                                                 *)

SetPrevious ==
    /\ runner = "check" /\ ui # "stopped"
    /\ ActiveSession # session
    /\ previous' = ActiveSession - 1
    /\ runner' = "session"
    /\ UNCHANGED <<calendar, cached, session, states, price, context, uiVars, loads, fetching,
                   history>>

SetSession ==
    /\ runner = "session"
    /\ session' = previous + 1
    /\ runner' = "states"
    /\ UNCHANGED <<calendar, cached, previous, states, price, context, uiVars, loads, fetching,
                   history>>

LoadStates ==
    /\ runner = "states"
    /\ loads' = [loads EXCEPT ![0].read = Jobs(Filled, session)]
    /\ runner' = "load"
    /\ UNCHANGED <<calendar, cached, engine, context, uiVars, fetching, history>>

Loaded ==
    /\ runner = "load" /\ loads[0] = NoLoad
    /\ runner' = "check"
    /\ UNCHANGED <<calendar, cached, engine, context, uiVars, loads, fetching, history>>

-----------------------------------------------------------------------------
(* DailyContextLoader.load: the cache first, then the queue.                *)

\* The bars are read and the job is wanted: a delivery is on its way.
ReadCache(l, job) ==
    /\ job \in loads[l].read /\ loads[l].ready = {}
    /\ loads' = [loads EXCEPT ![l] =
          [read |-> @.read \ {job},
           ready |-> {r \in {<<job, cached[job.slot]>>} : r[2] # None /\ Wanted(job)},
           check |-> @.check \cup {<<job, cached[job.slot]>>}]]
    /\ UNCHANGED <<calendar, cached, engine, context, uiVars, runner, fetching, history>>

DeliverCached(l) ==
    /\ \E r \in loads[l].ready : context' = Delivered(r[1], r[2])
    /\ loads' = [loads EXCEPT ![l].ready = {}]
    /\ UNCHANGED <<calendar, cached, engine, uiVars, runner, fetching, history>>

CheckCurrent(l, job, read) ==
    /\ <<job, read>> \in loads[l].check
    /\ loads[l].read = {} /\ loads[l].ready = {}
    /\ loads' = [loads EXCEPT ![l].check = @ \ {<<job, read>>}]
    /\ IF cached[job.slot] >= LatestSession
       THEN /\ missed' = missed \cup {o \in {Object(job)} : read < LatestSession}
            /\ UNCHANGED <<queue, pending>>
       ELSE /\ queue' = Append(queue, job) /\ pending' = pending + 1
            /\ UNCHANGED missed
    /\ UNCHANGED <<calendar, cached, engine, context, uiVars, runner, work, failed>>

\* stop() ends the cache pass, and load() with it.
LoadStopped(l) ==
    /\ ui = "stopped" /\ loads[l].read # {} /\ loads[l].ready = {}
    /\ loads' = [loads EXCEPT ![l] = NoLoad]
    /\ UNCHANGED <<calendar, cached, engine, context, uiVars, runner, fetching, history>>

-----------------------------------------------------------------------------
(* The workers.                                                             *)

\* The worker is free again, and the job is over.
Done(w) == work' = [work EXCEPT ![w] = Free] /\ pending' = pending - 1

Take(w) ==
    /\ work[w] = Free /\ queue # <<>>
    /\ queue' = Tail(queue)
    /\ IF ui # "stopped" /\ Wanted(Head(queue))
       THEN /\ work' = [work EXCEPT ![w] = [step |-> "fetch", job |-> Head(queue)]]
            /\ UNCHANGED pending
       ELSE Done(w)
    /\ UNCHANGED <<calendar, cached, engine, context, uiVars, runner, loads, history>>

\* daily() answers, and the job is still wanted or it is not.
Fetch(w) ==
    /\ work[w].step = "fetch"
    /\ cached' = [cached EXCEPT ![work[w].job.slot] = LatestSession]
    /\ IF Wanted(work[w].job)
       THEN /\ work' = [work EXCEPT ![w] = [step |-> "deliver", job |-> @.job,
                                            through |-> LatestSession]]
            /\ UNCHANGED pending
       ELSE Done(w)
    /\ UNCHANGED <<calendar, engine, context, uiVars, runner, loads, queue, history>>

\* Mutants: a job that goes back to the queue is counted as done; it does not
\* go back.
FetchLimitedDone(w) ==
    /\ work[w].step = "fetch"
    /\ queue' = Append(queue, work[w].job)
    /\ Done(w)
    /\ UNCHANGED <<calendar, cached, engine, context, uiVars, runner, loads, history>>

FetchLimitedDropped(w) ==
    /\ work[w].step = "fetch"
    /\ Done(w)
    /\ UNCHANGED <<calendar, cached, engine, context, uiVars, runner, loads, queue, history>>

\* RateLimitedError: the job goes back to the queue.
FetchLimited(w) ==
    /\ work[w].step = "fetch"
    /\ IF ui # "stopped"
       THEN /\ queue' = Append(queue, work[w].job)
            /\ work' = [work EXCEPT ![w] = Free]
            /\ UNCHANGED pending
       ELSE Done(w) /\ UNCHANGED queue
    /\ UNCHANGED <<calendar, cached, engine, context, uiVars, runner, loads, history>>

FetchFails(w) ==
    /\ work[w].step = "fetch"
    /\ failed' = failed \cup {Object(work[w].job)}
    /\ Done(w)
    /\ UNCHANGED <<calendar, cached, engine, context, uiVars, runner, loads, queue, missed>>

Deliver(w) ==
    /\ work[w].step = "deliver"
    /\ context' = Delivered(work[w].job, work[w].through)
    /\ Done(w)
    /\ UNCHANGED <<calendar, cached, engine, uiVars, runner, loads, queue, history>>

-----------------------------------------------------------------------------
NextDay ==
    /\ opened /\ day < LastDay /\ session # None /\ ui # "stopped"
    /\ day' = day + 1 /\ opened' = FALSE
    /\ UNCHANGED <<cached, engine, context, uiVars, runner, loads, fetching, history>>

OpenSession ==
    /\ ~opened /\ ui # "stopped"
    /\ opened' = TRUE
    /\ UNCHANGED <<day, cached, engine, context, uiVars, runner, loads, fetching, history>>

Tick(s) ==
    /\ s \in Filled \cap Ticking /\ opened /\ ui # "stopped"
    /\ price' = [price EXCEPT ![s] = day]
    /\ UNCHANGED <<calendar, cached, session, previous, states, context, uiVars, runner, loads,
                   fetching, history>>

Next ==
    \/ \E K \in SUBSET Keys : SetSymbols(K)
    \/ SetIndex \/ LoadAdded \/ Stop
    \/ SnapshotSession \/ SnapshotRows
    \/ SetPrevious \/ SetSession \/ LoadStates \/ Loaded
    \/ \E l \in Loaders :
          \/ \E job \in loads[l].read : ReadCache(l, job)
          \/ DeliverCached(l)
          \/ \E c \in loads[l].check : CheckCurrent(l, c[1], c[2])
          \/ LoadStopped(l)
    \/ \E w \in Workers :
          Take(w) \/ Fetch(w) \/ FetchLimited(w) \/ FetchFails(w) \/ Deliver(w)
    \/ NextDay \/ OpenSession
    \/ \E s \in Slots : Tick(s)

Spec == Init /\ [][Next]_vars

-----------------------------------------------------------------------------
\* The types, and no context holds a candle of today.
TypeOK ==
    /\ day \in 1 .. LastDay /\ {session, previous, shown} \subseteq 0 .. LastDay
    /\ \A s \in Slots : context[s].through < day

\* The count the status line waits on ("updating...") is exact through
\* requeues, failures and jobs that nobody wants any more (_fetch_worker).
PendingExact == pending = Len(queue) + Cardinality({w \in Workers : work[w] # Free})

\* Mutant: the history may end before the previous session.
CountsBehind(s) == price[s] # None /\ context[s].through # None /\ context[s].through < shown

\* live_symbol counts the price as today's bar of the session shown.
CountsToday(s) ==
    /\ price[s] # None /\ context[s].through # None
    /\ context[s].through < shown
    /\ context[s].through >= previous

\* "Today's bar only exists when the history ends at the session before it":
\* no redraw skips a session, although the engine may roll over between its
\* reads of the two sessions (snapshot(), live_symbol).
NothingSkipped ==
    ui = "snapshot" =>
       \A s \in Filled : CountsToday(s) => context[s].through = shown - 1

\* ... and none counts a session twice, as history and as today's price.
NothingCountedTwice ==
    ui = "snapshot" => \A s \in Filled : CountsToday(s) => price[s] >= shown

\* Someone still carries a job for the object that slot s shows.
Carried(s) ==
    LET Of(job) == job.slot = s /\ Live(job) IN
    \/ ui = "load" /\ s \in added
    \/ runner \in {"session", "states"}
    \/ \E l \in Loaders : \/ \E job \in loads[l].read : Of(job)
                          \/ \E r \in loads[l].ready \cup loads[l].check : Of(r[1])
    \/ \E i \in DOMAIN queue : Of(queue[i])
    \/ \E w \in Workers : work[w] # Free /\ Of(work[w].job)

Failed(s) == <<s, states[s]>> \in failed
Behind(s) == context[s] = NoContext /\ session # None /\ ui # "stopped"

\* A row without metrics has its history on the way, or its fetch failed:
\* switching watchlists and indices, rolling over and requeues leave no row
\* empty for the day.  Excepted is what EverybodyArrives shows.
NobodyForgotten ==
    \A s \in Filled : Behind(s) => \/ Carried(s) \/ Failed(s)
                                   \/ <<s, states[s]>> \in missed

\* What a check of the scanner is about.
ContextsSound == TypeOK /\ NothingSkipped /\ PendingExact /\ NobodyForgotten

\* "only symbols whose cache is behind are fetched, and re-prepared as they
\* land": with no exception.
EverybodyArrives == \A s \in Filled : Behind(s) => Carried(s) \/ Failed(s)
=============================================================================
