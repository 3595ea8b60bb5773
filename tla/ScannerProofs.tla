--------------------------- MODULE ScannerProofs ---------------------------
(* Proofs about Scanner, for any watchlists, switches, workers and days: the *)
(* two fields of the session never make a snapshot skip a bar, the count of  *)
(* pending jobs is exact, and no row waits for a history that nobody brings. *)
EXTENDS Scanner, FiniteSetTheorems, SequenceTheorems, TLAPS

-----------------------------------------------------------------------------
(* The inductive invariant.                                                 *)

Days == 0 .. LastDay
Job == [slot : Slots, object : Nat \ {0}, date : Days]
Candles == Job \X Days
Load == [read : SUBSET Job, ready : SUBSET Candles, check : SUBSET Candles]
Busy == [step : {"fetch"}, job : Job] \cup [step : {"deliver"}, job : Job, through : Days \ {0}]
Context == [of : Days, through : Days]

\* What each variable holds.
ScanTypes ==
    /\ day \in 2 .. LastDay
    /\ {session, previous, shown} \subseteq Days
    /\ cached \in [Slots -> Days]
    /\ states \in [Slots -> Nat]
    /\ context \in [Slots -> Context]
    /\ ui \in {"idle", "load", "snapshot", "stopped"}
    /\ added \subseteq Filled
    /\ switches \in 0 .. MaxSwitches
    /\ runner \in {"check", "session", "states", "load"}
    /\ loads \in [Loaders -> Load]
    /\ queue \in Seq(Job)
    /\ work \in [Workers -> {Free} \cup Busy]

\* The previous session is set first: a session in use, or in a snapshot, is at
\* most the one after it, and a new one is later than the one it replaces.
ClockOK ==
    /\ session <= previous + 1
    /\ previous + 1 <= ActiveSession
    /\ shown <= session
    /\ runner = "session" => session < previous + 1

\* Candles are those of days that are over.
PastOnly ==
    /\ \A s \in Slots : cached[s] < day /\ context[s].through < day
    /\ \A l \in Loaders : \A r \in loads[l].check : r[2] < day
    /\ \A w \in Workers : work[w].step = "deliver" => work[w].through < day

\* A pass over the cache delivers what it has read before it reads on, and a load
\* that nobody has started has nothing to do.
LoadsOK ==
    /\ \A l \in Loaders :
          /\ loads[l].ready \subseteq loads[l].check
          /\ \A r \in loads[l].ready : r[2] # None /\ loads[l].ready = {r}
    /\ \A l \in Loaders \ {0} :
          l > switches \/ (l = switches /\ ui = "load") => loads[l].read = {}
    /\ ui = "load" => switches # 0
    /\ states[Index] # None

\* A job is about an object and a session there have been.
FromPast(job) == job.object <= switches + 1 /\ job.date <= session

JobsOK ==
    /\ \A s \in Slots : states[s] <= switches + 1
    /\ \A l \in Loaders : /\ \A job \in loads[l].read : FromPast(job)
                          /\ \A r \in loads[l].check : FromPast(r[1])
    /\ \A i \in DOMAIN queue : FromPast(queue[i])
    /\ \A w \in Workers : work[w] # Free => FromPast(work[w].job)

\* The candles that were read for a job that is still wanted are on their way to
\* the row, or there.
Landed ==
    \A l \in Loaders : \A r \in loads[l].check :
        Wanted(r[1]) /\ r[2] # None => context[r[1].slot] # NoContext \/ r \in loads[l].ready

\* A job for the row s, of the session at hand.
For(job, s) == job.slot = s /\ Wanted(job)

InLoad(l, s) ==
    \/ \E job \in loads[l].read : For(job, s)
    \/ \E r \in loads[l].check : For(r[1], s)

\* Somebody is to bring the history of row s, in the session at hand.
OnItsWay(s) ==
    \/ ui = "load" /\ s \in added
    \/ runner \in {"session", "states"}
    \/ \E l \in Loaders : InLoad(l, s)
    \/ \E i \in DOMAIN queue : For(queue[i], s)
    \/ \E w \in Workers : work[w] # Free /\ For(work[w].job, s)

Served == \A s \in Filled : Behind(s) => OnItsWay(s) \/ Failed(s) \/ <<s, states[s]>> \in missed

ScanInv == ScanTypes /\ ClockOK /\ PastOnly /\ LoadsOK /\ JobsOK /\ Landed /\ Served /\ PendingExact

-----------------------------------------------------------------------------
\* At the start nothing is loaded, queued or shown.
LEMMA InitScan == ASSUME ScannerAssumption, Init PROVE ScanInv
<1> USE ScannerAssumption
    DEF ScannerAssumption, Init, Slots, Filled, None, NoContext, NoLoad, Free, Loaders, Days
<1>1. loads \in [Loaders -> Load] /\ context \in [Slots -> Context]
  BY DEF Load, Context
<1>2. states \in [Slots -> Nat] /\ cached \in [Slots -> Days] /\ states[Index] # None
  OBVIOUS
<1>3. queue \in Seq(Job) /\ work \in [Workers -> {Free} \cup Busy] /\ Len(queue) = 0
  OBVIOUS
<1>4. ScanTypes
  <2>1. /\ day \in 2 .. LastDay /\ {session, previous, shown} \subseteq Days
        /\ added \subseteq Filled /\ switches \in 0 .. MaxSwitches
    OBVIOUS
  <2>2. ui \in {"idle", "load"} /\ runner \in {"check"}
    OBVIOUS
  <2> QED
    BY <1>1, <1>2, <1>3, <2>1, <2>2 DEF ScanTypes
<1>5. ClockOK /\ PastOnly
  BY DEF ClockOK, PastOnly, ActiveSession
<1>6. LoadsOK /\ JobsOK /\ Landed /\ Served
  BY <1>2 DEF LoadsOK, JobsOK, Landed, Served, Behind
<1>7. PendingExact
  <2>1. {w \in Workers : work[w] # Free} = {}
    OBVIOUS
  <2>2. pending = 0
    OBVIOUS
  <2> QED
    BY ONLY <1>3, <2>1, <2>2, FS_EmptySet DEF PendingExact
<1> QED
  BY <1>4, <1>5, <1>6, <1>7 DEF ScanInv

-----------------------------------------------------------------------------
(* What the state holds, and what a switch of the watchlist or the index is. *)

\* What is read, queued or in a worker's hands is a job, and what is read with
\* it a day.
LEMMA TypesOfState ==
  ASSUME ScannerAssumption, ScanTypes
  PROVE  /\ \A l \in Loaders : /\ loads[l].read \subseteq Job
                               /\ loads[l].ready \subseteq Candles
                               /\ loads[l].check \subseteq Candles
         /\ \A w \in Workers :
               \/ work[w] = Free
               \/ /\ work[w] # Free /\ work[w].step = "fetch" /\ work[w].job \in Job
               \/ /\ work[w] # Free /\ work[w].step = "deliver" /\ work[w].job \in Job
                  /\ work[w].through \in Days \ {0}
         /\ \A i \in DOMAIN queue : queue[i] \in Job
         /\ DOMAIN queue = 1 .. Len(queue) /\ Len(queue) \in Nat
         /\ switches \in Loaders /\ 0 \in Loaders /\ switches \in Nat
         /\ {day, session, previous, shown} \subseteq Int /\ 2 <= day
         /\ LatestSession \in Days \ {0}
<1> USE DEF ScanTypes
<1>1. \A l \in Loaders : loads[l] \in Load
  OBVIOUS
<1>2. \A w \in Workers : work[w] = Free \/ work[w] \in Busy
  OBVIOUS
<1>3. \A b \in Busy : /\ b.job \in Job /\ b # Free
                      /\ b.step = "fetch" \/ (b.step = "deliver" /\ b.through \in Days \ {0})
  BY DEF Busy, Free
<1>4. /\ switches \in Loaders /\ 0 \in Loaders /\ switches \in Nat
      /\ {day, session, previous, shown} \subseteq Int /\ 2 <= day
      /\ LatestSession \in Days \ {0}
  BY ScannerAssumption DEF ScannerAssumption, Loaders, Days, LatestSession
<1> QED
  BY <1>1, <1>2, <1>3, <1>4 DEF Load

\* A job names a slot, an object and a day.
LEMMA JobFields == \A job \in Job : /\ job.slot \in Slots
                                    /\ job.object \in Nat /\ job.object # None
                                    /\ job.date \in Int /\ job.date \in Days
BY DEF Job, Days, None

\* The slots that stay had an object, and that of the index stays or is new.
LEMMA SwitchOf ==
  ASSUME ScanTypes, LoadsOK, \/ \E K \in SUBSET Keys : SetSymbols(K)
                             \/ SetIndex
  PROVE  \E S, T \in SUBSET Slots : Switch(S, T) /\ T \subseteq Filled /\ Index \in S \cup T
<1>1. Index \in Filled /\ Filled \subseteq Slots
  BY DEF Filled, Slots, LoadsOK
<1>2. ASSUME NEW K \in SUBSET Keys, SetSymbols(K)
      PROVE  Switch(K \ Filled, (K \cap Filled) \cup {Index})
  BY <1>2 DEF SetSymbols
<1>3. SetIndex => Switch({Index}, Filled) /\ {Index} \in SUBSET Slots
  BY <1>1 DEF SetIndex
<1>4. CASE \E K \in SUBSET Keys : SetSymbols(K)
  <2>1. PICK K \in SUBSET Keys : SetSymbols(K)
    BY <1>4
  <2>2. /\ K \ Filled \in SUBSET Slots /\ (K \cap Filled) \cup {Index} \in SUBSET Slots
        /\ (K \cap Filled) \cup {Index} \subseteq Filled
    BY <1>1 DEF Slots
  <2> QED
    BY <1>2, <2>1, <2>2
<1>5. CASE SetIndex
  BY <1>1, <1>3, <1>5
<1> QED
  BY <1>4, <1>5

\* Jobs for objects there are.
LEMMA JobsAreJobs ==
  ASSUME ScanTypes, NEW S \in SUBSET Filled
  PROVE  Jobs(S, session) \subseteq Job
BY DEF ScanTypes, Jobs, Job, Filled, None

\* A delivery changes the context of the job's slot, if its object is there.
LEMMA DeliveredContext ==
  ASSUME ScanTypes, NEW job \in Job, NEW through \in Days
  PROVE  /\ Delivered(job, through) \in [Slots -> Context]
         /\ \A s \in Slots : \/ Delivered(job, through)[s] = context[s]
                               \/ Delivered(job, through)[s].through = through
         /\ Live(job) => Delivered(job, through)[job.slot].through = through
<1>1. [of |-> job.date, through |-> through] \in Context
  BY JobFields DEF Context
<1> QED
  BY <1>1, JobFields DEF Delivered, ScanTypes

\* A load that gets jobs to read goes on with the rest.
LEMMA ReadSet ==
  ASSUME ScanTypes, NEW l \in Loaders, NEW J, loads' = [loads EXCEPT ![l].read = J]
  PROVE  /\ loads'[l].read = J
         /\ \A k \in Loaders : loads'[k].ready = loads[k].ready /\ loads'[k].check = loads[k].check
         /\ \A k \in Loaders \ {l} : loads'[k] = loads[k]
<1>1. loads[l] \in Load /\ l \in DOMAIN loads
  BY DEF ScanTypes
<1>2. loads'[l] = [loads[l] EXCEPT !.read = J] /\ \A k \in Loaders \ {l} : loads'[k] = loads[k]
  BY <1>1 DEF ScanTypes
<1> QED
  BY <1>1, <1>2 DEF Load

\* A worker that is done leaves the others alone.
LEMMA WorkerFreed ==
  ASSUME ScanTypes, NEW w \in Workers, work' = [work EXCEPT ![w] = Free]
  PROVE  work'[w] = Free /\ \A v \in Workers \ {w} : work'[v] = work[v]
BY DEF ScanTypes

\* What is in the queue after a job came.
LEMMA AppendedOrOld ==
  ASSUME ScanTypes, NEW job \in Job
  PROVE  /\ \A i \in DOMAIN queue : /\ i \in DOMAIN Append(queue, job)
                                    /\ Append(queue, job)[i] = queue[i]
         /\ \E i \in DOMAIN Append(queue, job) : Append(queue, job)[i] = job
         /\ \A i \in DOMAIN Append(queue, job) : \/ Append(queue, job)[i] = job
                                                 \/ /\ i \in DOMAIN queue
                                                    /\ Append(queue, job)[i] = queue[i]
         /\ Len(Append(queue, job)) = Len(queue) + 1
<1>1. queue \in Seq(Job) /\ Len(queue) \in Nat /\ DOMAIN queue = 1 .. Len(queue)
  BY LenProperties DEF ScanTypes
<1>2. /\ Append(queue, job) \in Seq(Job) /\ Len(Append(queue, job)) = Len(queue) + 1
      /\ \A i \in 1 .. Len(queue) : Append(queue, job)[i] = queue[i]
      /\ Append(queue, job)[Len(queue) + 1] = job
  BY <1>1, AppendProperties
<1>3. DOMAIN Append(queue, job) = 1 .. Len(queue) + 1
  BY <1>2, LenProperties
<1>4. Len(queue) + 1 \in DOMAIN Append(queue, job)
  BY <1>1, <1>3
<1>5. \A i \in DOMAIN Append(queue, job) : i \in 1 .. Len(queue) \/ i = Len(queue) + 1
  BY <1>1, <1>3
<1>6. \A i \in 1 .. Len(queue) : i \in DOMAIN Append(queue, job)
  BY <1>1, <1>3
<1> QED
  BY <1>1, <1>2, <1>4, <1>5, <1>6

\* What is in it after one went: the rest of the queue moves up.
LEMMA TailIsOld ==
  ASSUME ScanTypes, queue # <<>>
  PROVE  /\ 1 \in DOMAIN queue /\ Head(queue) = queue[1]
         /\ \A i \in DOMAIN Tail(queue) : i + 1 \in DOMAIN queue /\ Tail(queue)[i] = queue[i + 1]
         /\ \A i \in DOMAIN queue : i # 1 =>
               i - 1 \in DOMAIN Tail(queue) /\ Tail(queue)[i - 1] = queue[i]
         /\ Len(Tail(queue)) = Len(queue) - 1
BY HeadTailProperties DEF ScanTypes

-----------------------------------------------------------------------------
(* One step keeps each part.                                                *)

\* No step reads, queues or delivers what is no job, context or day.
LEMMA TypesKept ==
  ASSUME ScannerAssumption, ScanTypes, LoadsOK, ClockOK, [Next]_vars
  PROVE  ScanTypes'
<1> USE DEF calendar, engine, uiVars, fetching, history
<1>1. ASSUME \/ \E K \in SUBSET Keys : SetSymbols(K)
             \/ SetIndex
      PROVE  ScanTypes'
  <2>1. PICK S \in SUBSET Slots, T \in SUBSET Slots :
           Switch(S, T) /\ T \subseteq Filled /\ Index \in S \cup T
    BY <1>1, SwitchOf
  <2>2. /\ switches \in Nat /\ switches + 1 \in 0 .. MaxSwitches
        /\ switches + 2 \in Nat /\ switches + 2 # None
    BY <2>1, ScannerAssumption DEF Switch, ScanTypes, ScannerAssumption, None
  <2>3. states' \in [Slots -> Nat] /\ \A s \in S : states'[s] = switches + 2
    BY <2>1, <2>2 DEF Switch, ScanTypes, None
  <2>4. context' \in [Slots -> Context]
    BY <2>1, ScannerAssumption
    DEF Switch, ScanTypes, NoContext, Context, Days, None, ScannerAssumption
  <2>5. added' \subseteq Filled'
    BY <2>1, <2>2, <2>3 DEF Switch, Filled
  <2> QED
    BY <2>1, <2>2, <2>3, <2>4, <2>5 DEF Switch, ScanTypes, ActiveSession
<1>2. CASE LoadAdded
  <2>1. Jobs(added, session) \subseteq Job /\ switches \in Loaders
    BY JobsAreJobs, TypesOfState, ScannerAssumption DEF ScanTypes
  <2>2. loads' \in [Loaders -> Load]
    <3>1. loads[switches] \in Load
      BY <2>1 DEF ScanTypes
    <3>2. [loads[switches] EXCEPT !.read = Jobs(added, session)] \in Load
      BY <2>1, <3>1 DEF Load
    <3> QED
      BY <1>2, <2>1, <3>2 DEF LoadAdded, ScanTypes
  <2> QED
    BY <1>2, <2>2 DEF LoadAdded, ScanTypes, Filled
<1>3. CASE Stop \/ SnapshotSession \/ SnapshotRows
  BY <1>3, ScannerAssumption
  DEF Stop, SnapshotSession, SnapshotRows, ScanTypes, Filled, Days, None, ScannerAssumption
<1>4. CASE SetPrevious \/ SetSession \/ Loaded
  BY <1>4, ScannerAssumption
  DEF SetPrevious, SetSession, Loaded, ScanTypes, Filled, Days, ActiveSession, ClockOK,
      ScannerAssumption
<1>5. CASE LoadStates
  <2>1. Jobs(Filled, session) \subseteq Job /\ 0 \in Loaders
    BY JobsAreJobs, TypesOfState, ScannerAssumption DEF ScanTypes
  <2>2. loads[0] \in Load
    BY <2>1 DEF ScanTypes
  <2>3. [loads[0] EXCEPT !.read = Jobs(Filled, session)] \in Load
    BY <2>1, <2>2 DEF Load
  <2> QED
    BY <1>5, <2>1, <2>3 DEF LoadStates, ScanTypes, Filled
<1>6. ASSUME NEW l \in Loaders, NEW job \in loads[l].read, ReadCache(l, job)
      PROVE  ScanTypes'
  <2> DEFINE read == <<job, cached[job.slot]>>
             load == [read |-> loads[l].read \ {job},
                      ready |-> {r \in {read} : r[2] # None /\ Wanted(job)},
                      check |-> loads[l].check \cup {read}]
  <2>1. job \in Job /\ loads[l] \in Load
    BY TypesOfState DEF ScanTypes
  <2>2. read \in Candles
    BY <2>1, JobFields DEF ScanTypes, Candles
  <2>3. load \in Load
    BY <2>1, <2>2 DEF Load
  <2>4. loads' = [loads EXCEPT ![l] = load]
    BY <1>6 DEF ReadCache
  <2> HIDE DEF load
  <2>5. loads' \in [Loaders -> Load]
    BY <2>3, <2>4 DEF ScanTypes
  <2> QED
    BY <1>6, <2>5 DEF ReadCache, ScanTypes, Filled
<1>7. ASSUME NEW l \in Loaders, DeliverCached(l)
      PROVE  ScanTypes'
  <2>1. loads[l] \in Load /\ loads[l].ready \subseteq Candles
    BY TypesOfState DEF ScanTypes
  <2>2. loads' \in [Loaders -> Load]
    <3>1. [loads[l] EXCEPT !.ready = {}] \in Load
      BY <2>1 DEF Load
    <3> QED
      BY <1>7, <3>1 DEF DeliverCached, ScanTypes
  <2>3. context' \in [Slots -> Context]
    <3>1. PICK r \in loads[l].ready : context' = Delivered(r[1], r[2])
      BY <1>7 DEF DeliverCached
    <3>2. r[1] \in Job /\ r[2] \in Days
      BY <2>1 DEF Candles
    <3> QED
      BY <3>1, <3>2, DeliveredContext
  <2> QED
    BY <1>7, <2>2, <2>3 DEF DeliverCached, ScanTypes, Filled
<1>8. ASSUME NEW l \in Loaders, NEW c \in loads[l].check, CheckCurrent(l, c[1], c[2])
      PROVE  ScanTypes'
  <2>1. loads[l] \in Load /\ c[1] \in Job
    BY TypesOfState DEF ScanTypes, Candles
  <2>2. loads' \in [Loaders -> Load]
    <3>1. [loads[l] EXCEPT !.check = @ \ {<<c[1], c[2]>>}] \in Load
      BY <2>1 DEF Load
    <3> QED
      BY <1>8, <3>1 DEF CheckCurrent, ScanTypes
  <2>3. queue' \in Seq(Job)
    <3>1. queue \in Seq(Job) /\ Append(queue, c[1]) \in Seq(Job)
      BY <2>1, AppendProperties DEF ScanTypes
    <3> QED
      BY <1>8, <3>1 DEF CheckCurrent
  <2> QED
    BY <1>8, <2>2, <2>3 DEF CheckCurrent, ScanTypes, Filled
<1>9. ASSUME NEW l \in Loaders, LoadStopped(l)
      PROVE  ScanTypes'
  <2>1. NoLoad \in Load
    BY DEF NoLoad, Load
  <2> QED
    BY <1>9, <2>1 DEF LoadStopped, ScanTypes, Filled
<1>10. ASSUME NEW w \in Workers, Take(w)
       PROVE  ScanTypes'
  <2>1. Head(queue) \in Job /\ queue' \in Seq(Job)
    BY <1>10, HeadTailProperties DEF Take, ScanTypes
  <2>2. [step |-> "fetch", job |-> Head(queue)] \in Busy
    BY <2>1 DEF Busy
  <2>3. work' \in [Workers -> {Free} \cup Busy]
    BY <1>10, <2>2 DEF Take, Done, ScanTypes
  <2> QED
    BY <1>10, <2>1, <2>3 DEF Take, ScanTypes, Filled
<1>11. ASSUME NEW w \in Workers, Fetch(w)
       PROVE  ScanTypes'
  <2>1. work[w].job \in Job /\ LatestSession \in Days \ {0}
    BY <1>11, TypesOfState DEF Fetch, Free
  <2>2. [step |-> "deliver", job |-> work[w].job, through |-> LatestSession] \in Busy
    BY <2>1 DEF Busy
  <2>3. work' \in [Workers -> {Free} \cup Busy]
    BY <1>11, <2>2 DEF Fetch, Done, ScanTypes
  <2>4. cached' \in [Slots -> Days]
    BY <1>11, <2>1 DEF Fetch, ScanTypes
  <2> QED
    BY <1>11, <2>3, <2>4 DEF Fetch, ScanTypes, Filled
<1>12. ASSUME NEW w \in Workers, FetchLimited(w) \/ FetchFails(w)
       PROVE  ScanTypes'
  <2>1. work[w].job \in Job
    BY <1>12, TypesOfState DEF FetchLimited, FetchFails, Free
  <2>2. queue' \in Seq(Job)
    <3>1. queue \in Seq(Job) /\ Append(queue, work[w].job) \in Seq(Job)
      BY <2>1, AppendProperties DEF ScanTypes
    <3> QED
      BY <1>12, <3>1 DEF FetchLimited, FetchFails
  <2>3. work' \in [Workers -> {Free} \cup Busy]
    BY <1>12 DEF FetchLimited, FetchFails, Done, ScanTypes
  <2> QED
    BY <1>12, <2>2, <2>3 DEF FetchLimited, FetchFails, ScanTypes, Filled
<1>13. ASSUME NEW w \in Workers, Deliver(w)
       PROVE  ScanTypes'
  <2>1. work[w].job \in Job /\ work[w].through \in Days
    BY <1>13, TypesOfState DEF Deliver, Free
  <2>2. context' \in [Slots -> Context]
    BY <1>13, <2>1, DeliveredContext DEF Deliver
  <2>3. work' \in [Workers -> {Free} \cup Busy]
    BY <1>13 DEF Deliver, Done, ScanTypes
  <2> QED
    BY <1>13, <2>2, <2>3 DEF Deliver, ScanTypes, Filled
<1>14. CASE NextDay \/ OpenSession \/ \E s \in Slots : Tick(s)
  <2>1. day' \in 2 .. LastDay
    BY <1>14, ScannerAssumption DEF NextDay, OpenSession, Tick, ScanTypes, ScannerAssumption
  <2> QED
    BY <1>14, <2>1 DEF NextDay, OpenSession, Tick, ScanTypes, Filled
<1>15. CASE UNCHANGED vars
  BY <1>15 DEF vars, ScanTypes, Filled
<1> QED
  BY <1>1, <1>2, <1>3, <1>4, <1>5, <1>6, <1>7, <1>8, <1>9, <1>10, <1>11, <1>12, <1>13, <1>14,
     <1>15 DEF Next

\* The two fields of the session only move on.
LEMMA ClockKept ==
  ASSUME ScannerAssumption, ScanTypes, ClockOK, [Next]_vars
  PROVE  ClockOK'
<1> USE DEF calendar, engine, uiVars, fetching, history, ClockOK, ActiveSession
<1>1. {day, session, previous, shown} \subseteq Int
  BY TypesOfState
<1>2. CASE SetPrevious \/ SetSession
  BY <1>1, <1>2 DEF SetPrevious, SetSession
<1>3. CASE SnapshotSession \/ SnapshotRows
  BY <1>1, <1>3 DEF SnapshotSession, SnapshotRows, ScanTypes, Days, None
<1>4. CASE NextDay \/ OpenSession
  BY <1>1, <1>4 DEF NextDay, OpenSession
<1>5. CASE LoadStates \/ Loaded
  BY <1>5 DEF LoadStates, Loaded
<1>6. CASE UNCHANGED <<day, opened, session, previous, shown, runner>>
  BY <1>6
<1>7. \/ SetPrevious \/ SetSession \/ SnapshotSession \/ SnapshotRows \/ NextDay \/ OpenSession
      \/ LoadStates \/ Loaded
      \/ UNCHANGED <<day, opened, session, previous, shown, runner>>
  BY ZenonT(40)
  DEF Next, vars, SetSymbols, SetIndex, Switch, LoadAdded, Stop, ReadCache, DeliverCached,
      CheckCurrent, LoadStopped, Take, Fetch, FetchLimited, FetchFails, Deliver, Tick
<1> QED
  BY <1>2, <1>3, <1>4, <1>5, <1>6, <1>7

\* What the broker answers ends yesterday, and no day ends twice.
LEMMA PastKept ==
  ASSUME ScannerAssumption, ScanTypes, LoadsOK, PastOnly, [Next]_vars
  PROVE  PastOnly'
<1> USE DEF calendar, engine, uiVars, fetching, history, PastOnly
<1>1. CASE \/ \E K \in SUBSET Keys : SetSymbols(K)
           \/ SetIndex
  <2>1. PICK S \in SUBSET Slots, T \in SUBSET Slots : Switch(S, T)
    BY <1>1, SwitchOf
  <2> QED
    BY <2>1, TypesOfState DEF Switch, NoContext, None
<1>2. CASE LoadAdded \/ LoadStates
  <2>1. \A k \in Loaders : loads'[k].check = loads[k].check
    BY <1>2, ReadSet, TypesOfState DEF LoadAdded, LoadStates
  <2> QED
    BY <1>2, <2>1 DEF LoadAdded, LoadStates
<1>3. ASSUME NEW l \in Loaders, NEW job \in loads[l].read, ReadCache(l, job)
      PROVE  PastOnly'
  BY <1>3, TypesOfState, JobFields DEF ReadCache, ScanTypes
<1>4. ASSUME NEW l \in Loaders, DeliverCached(l)
      PROVE  PastOnly'
  <2>1. PICK r \in loads[l].ready : context' = Delivered(r[1], r[2])
    BY <1>4 DEF DeliverCached
  <2>2. r[2] < day /\ r[1] \in Job /\ r[2] \in Days
    BY TypesOfState DEF LoadsOK, Candles
  <2>3. \A s \in Slots : context'[s].through < day
    BY <2>1, <2>2, DeliveredContext
  <2>4. \A k \in Loaders : loads'[k].check = loads[k].check
    BY <1>4 DEF DeliverCached, ScanTypes
  <2> QED
    BY <1>4, <2>3, <2>4 DEF DeliverCached
<1>5. ASSUME NEW l \in Loaders, NEW c \in loads[l].check, CheckCurrent(l, c[1], c[2])
      PROVE  PastOnly'
  <2>1. \A k \in Loaders : loads'[k].check \subseteq loads[k].check
    BY <1>5 DEF CheckCurrent, ScanTypes
  <2> QED
    BY <1>5, <2>1 DEF CheckCurrent
<1>6. ASSUME NEW l \in Loaders, LoadStopped(l)
      PROVE  PastOnly'
  BY <1>6 DEF LoadStopped, ScanTypes, NoLoad
<1>7. ASSUME NEW w \in Workers, Take(w)
      PROVE  PastOnly'
  <2> DEFINE taken == [step |-> "fetch", job |-> Head(queue)]
  <2>1. work' = [work EXCEPT ![w] = taken] \/ work' = [work EXCEPT ![w] = Free]
    BY <1>7 DEF Take, Done
  <2>2. taken.step # "deliver" /\ Free.step # "deliver"
    BY DEF Free
  <2> HIDE DEF taken
  <2>3. \A v \in Workers : work'[v].step = "deliver" => work'[v] = work[v]
    BY <2>1, <2>2 DEF ScanTypes
  <2> QED
    BY <1>7, <2>3 DEF Take
<1>8. ASSUME NEW w \in Workers, Fetch(w)
      PROVE  PastOnly'
  <2>1. LatestSession < day /\ work[w].job \in Job
    BY <1>8, TypesOfState DEF LatestSession, Fetch, Free
  <2>2. \A s \in Slots : cached'[s] < day
    BY <1>8, <2>1 DEF Fetch, ScanTypes
  <2>3. \A v \in Workers : work'[v].step = "deliver" => work'[v].through < day
    <3> DEFINE brought == [step |-> "deliver", job |-> work[w].job, through |-> LatestSession]
    <3>1. work' = [work EXCEPT ![w] = brought] \/ work' = [work EXCEPT ![w] = Free]
      BY <1>8 DEF Fetch, Done
    <3>2. brought.through < day /\ Free.step # "deliver"
      BY <2>1 DEF Free
    <3> HIDE DEF brought
    <3> QED
      BY <3>1, <3>2 DEF ScanTypes
  <2> QED
    BY <1>8, <2>2, <2>3 DEF Fetch
<1>9. ASSUME NEW w \in Workers, FetchLimited(w) \/ FetchFails(w)
      PROVE  PastOnly'
  <2>1. work' = [work EXCEPT ![w] = Free]
    BY <1>9 DEF FetchLimited, FetchFails, Done
  <2>2. \A v \in Workers : work'[v].step = "deliver" => work'[v] = work[v]
    BY <2>1, WorkerFreed DEF Free
  <2> QED
    BY <1>9, <2>2 DEF FetchLimited, FetchFails
<1>10. ASSUME NEW w \in Workers, Deliver(w)
       PROVE  PastOnly'
  <2>1. work[w].job \in Job /\ work[w].through \in Days /\ work[w].through < day
    BY <1>10, TypesOfState DEF Deliver, Free
  <2>2. \A s \in Slots : context'[s].through < day
    BY <1>10, <2>1, DeliveredContext DEF Deliver
  <2> QED
    BY <1>10, <2>2, WorkerFreed DEF Deliver, Done, Free
<1>11. CASE NextDay
  <2>1. /\ \A s \in Slots : cached[s] \in Int /\ context[s].through \in Int
        /\ \A l \in Loaders : \A r \in loads[l].check : r[2] \in Int
        /\ day' = day + 1
    BY <1>11, TypesOfState DEF NextDay, ScanTypes, Context, Candles, Days
  <2>2. \A w \in Workers : work[w].step = "deliver" => work[w].through \in Int
    BY TypesOfState DEF Days, Free
  <2> QED
    BY <1>11, <2>1, <2>2, TypesOfState DEF NextDay
<1>12. CASE UNCHANGED <<day, cached, context, loads, work>>
  BY <1>12
<1> QED
  BY <1>1, <1>2, <1>3, <1>4, <1>5, <1>6, <1>7, <1>8, <1>9, <1>10, <1>11, <1>12
  DEF Next, vars, Stop, SnapshotSession, SnapshotRows, SetPrevious, SetSession, Loaded,
      OpenSession, Tick

\* Each switch has a load of its own, and each read of it a delivery.
LEMMA LoadsKept ==
  ASSUME ScannerAssumption, ScanTypes, LoadsOK, [Next]_vars
  PROVE  LoadsOK'
<1> USE DEF calendar, engine, uiVars, fetching, history, LoadsOK
<1>1. CASE \/ \E K \in SUBSET Keys : SetSymbols(K)
           \/ SetIndex
  <2>1. PICK S \in SUBSET Slots, T \in SUBSET Slots :
           Switch(S, T) /\ T \subseteq Filled /\ Index \in S \cup T
    BY <1>1, SwitchOf
  <2>2. states'[Index] # None
    BY <2>1, TypesOfState DEF Switch, None, Slots
  <2> QED
    BY <2>1, <2>2, TypesOfState DEF Switch, Loaders
<1>2. CASE LoadAdded \/ LoadStates
  <2>1. CASE LoadAdded
    <3>1. UNCHANGED loads \/ loads' = [loads EXCEPT ![switches].read = Jobs(added, session)]
      BY <2>1 DEF LoadAdded
    <3>2. /\ \A l \in Loaders : loads'[l].ready = loads[l].ready /\ loads'[l].check = loads[l].check
          /\ \A l \in Loaders \ {switches} : loads'[l].read = loads[l].read
      BY <3>1, ReadSet, TypesOfState, ZenonT(40)
    <3>3. \A l \in Loaders : l > switches => l # switches
      BY TypesOfState DEF Loaders
    <3> QED
      BY <2>1, <3>2, <3>3 DEF LoadAdded
  <2>2. CASE LoadStates
    <3>1. loads' = [loads EXCEPT ![0].read = Jobs(Filled, session)]
      BY <2>2 DEF LoadStates
    <3>2. /\ \A l \in Loaders : loads'[l].ready = loads[l].ready /\ loads'[l].check = loads[l].check
          /\ \A l \in Loaders \ {0} : loads'[l].read = loads[l].read
      BY <3>1, ReadSet, TypesOfState
    <3> QED
      BY <2>2, <3>2 DEF LoadStates
  <2> QED
    BY <1>2, <2>1, <2>2
<1>3. ASSUME NEW l \in Loaders, NEW job \in loads[l].read, ReadCache(l, job)
      PROVE  LoadsOK'
  <2> DEFINE read == <<job, cached[job.slot]>>
  <2>1. /\ loads'[l].read \subseteq loads[l].read
        /\ loads'[l].ready \subseteq {read} /\ loads'[l].check = loads[l].check \cup {read}
        /\ \A r \in loads'[l].ready : r[2] # None
        /\ \A k \in Loaders \ {l} : loads'[k] = loads[k]
    BY <1>3 DEF ReadCache, ScanTypes
  <2> HIDE DEF read
  <2>2. \A k \in Loaders : loads'[k].read \subseteq loads[k].read
    BY <2>1
  <2> QED
    BY <1>3, <2>1, <2>2 DEF ReadCache
<1>4. ASSUME NEW l \in Loaders, DeliverCached(l)
      PROVE  LoadsOK'
  BY <1>4 DEF DeliverCached, ScanTypes
<1>5. ASSUME NEW l \in Loaders, NEW c \in loads[l].check, CheckCurrent(l, c[1], c[2])
      PROVE  LoadsOK'
  BY <1>5 DEF CheckCurrent, ScanTypes
<1>6. ASSUME NEW l \in Loaders, LoadStopped(l)
      PROVE  LoadsOK'
  BY <1>6 DEF LoadStopped, ScanTypes, NoLoad
<1>7. CASE Stop \/ SnapshotSession \/ SnapshotRows
  BY <1>7 DEF Stop, SnapshotSession, SnapshotRows
<1>8. CASE UNCHANGED <<loads, switches, ui, states>>
  BY <1>8
<1> QED
  BY <1>1, <1>2, <1>3, <1>4, <1>5, <1>6, <1>7, <1>8
  DEF Next, vars, SetPrevious, SetSession, Loaded, Take, Fetch, FetchLimited, FetchFails, Deliver,
      NextDay, OpenSession, Tick

\* A job is made of what there is, and neither the switches nor the session go back.
LEMMA JobsKept ==
  ASSUME ScannerAssumption, ScanTypes, ClockOK, LoadsOK, JobsOK, [Next]_vars
  PROVE  JobsOK'
<1> USE DEF calendar, engine, uiVars, fetching, history, JobsOK, FromPast
<1>1. /\ switches \in Int /\ session \in Int /\ previous \in Int
      /\ \A s \in Slots : states[s] \in Int
      /\ \A l \in Loaders : /\ \A job \in loads[l].read : job.object \in Int /\ job.date \in Int
                            /\ \A r \in loads[l].check : r[1].object \in Int /\ r[1].date \in Int
      /\ \A i \in DOMAIN queue : queue[i].object \in Int /\ queue[i].date \in Int
      /\ \A w \in Workers : work[w] # Free => work[w].job.object \in Int /\ work[w].job.date \in Int
  BY TypesOfState, JobFields DEF ScanTypes, Candles
<1>2. CASE \/ \E K \in SUBSET Keys : SetSymbols(K)
           \/ SetIndex
  <2>1. PICK S \in SUBSET Slots, T \in SUBSET Slots : Switch(S, T)
    BY <1>2, SwitchOf
  <2>2. switches' = switches + 1 /\ \A s \in Slots : states'[s] \in {None, states[s], switches + 2}
    BY <2>1 DEF Switch
  <2> HIDE DEF FromPast
  <2>3. \A job : job.object \in Int /\ FromPast(job) => FromPast(job)'
    BY <1>1, <2>1, <2>2 DEF FromPast, Switch
  <2>4. \A s \in Slots : states'[s] <= switches' + 1
    <3> SUFFICES ASSUME NEW s \in Slots
                 PROVE  states'[s] <= switches' + 1
      OBVIOUS
    <3>1. states[s] \in Int /\ states[s] <= switches + 1 /\ switches \in Nat
      BY <1>1, TypesOfState
    <3> QED
      BY <2>2, <3>1 DEF None
  <2> QED
    BY <1>1, <2>1, <2>3, <2>4 DEF Switch
<1>3. CASE LoadAdded \/ LoadStates
  <2>1. PICK l \in Loaders, S \in SUBSET Filled :
           UNCHANGED loads \/ loads' = [loads EXCEPT ![l].read = Jobs(S, session)]
    BY <1>3, TypesOfState DEF LoadAdded, LoadStates, ScanTypes
  <2>2. \A job \in Jobs(S, session) : FromPast(job)
    BY <1>1 DEF Jobs, Filled
  <2> HIDE DEF FromPast
  <2>3. \A k \in Loaders : /\ \A job \in loads'[k].read : FromPast(job)
                           /\ loads'[k].check = loads[k].check
    <3>1. CASE UNCHANGED loads
      BY <3>1
    <3>2. CASE loads' = [loads EXCEPT ![l].read = Jobs(S, session)]
      <4>1. loads'[l].read = Jobs(S, session) /\ \A k \in Loaders \ {l} : loads'[k] = loads[k]
        BY <3>2, ReadSet
      <4>2. \A k \in Loaders : loads'[k].check = loads[k].check
        BY <3>2, ReadSet
      <4> QED
        BY <2>2, <4>1, <4>2
    <3> QED
      BY <2>1, <3>1, <3>2
  <2>4. UNCHANGED <<switches, session, states, queue, work>>
    BY <1>3 DEF LoadAdded, LoadStates
  <2> QED
    BY <2>3, <2>4 DEF FromPast
<1>4. CASE SetSession
  <2> HIDE DEF FromPast
  <2>1. \A job : job.date \in Int /\ FromPast(job) => FromPast(job)'
    BY <1>1, <1>4 DEF SetSession, FromPast, ClockOK
  <2> QED
    BY <1>1, <1>4, <2>1 DEF SetSession
<1>5. ASSUME NEW l \in Loaders, NEW job \in loads[l].read, ReadCache(l, job)
      PROVE  JobsOK'
  <2> DEFINE read == <<job, cached[job.slot]>>
  <2>1. /\ \A k \in Loaders : loads'[k].read \subseteq loads[k].read
        /\ \A k \in Loaders : loads'[k].check \subseteq loads[k].check \cup {read}
    BY <1>5 DEF ReadCache, ScanTypes
  <2>2. FromPast(read[1])
    OBVIOUS
  <2> HIDE DEF read
  <2> QED
    BY <1>5, <2>1, <2>2 DEF ReadCache
<1>6. ASSUME NEW l \in Loaders, DeliverCached(l)
      PROVE  JobsOK'
  <2>1. \A k \in Loaders : loads'[k].read = loads[k].read /\ loads'[k].check = loads[k].check
    BY <1>6 DEF DeliverCached, ScanTypes
  <2> QED
    BY <1>6, <2>1 DEF DeliverCached
<1>7. ASSUME NEW l \in Loaders, NEW c \in loads[l].check, CheckCurrent(l, c[1], c[2])
      PROVE  JobsOK'
  <2>1. \A k \in Loaders : /\ loads'[k].read = loads[k].read
                           /\ loads'[k].check \subseteq loads[k].check
    BY <1>7 DEF CheckCurrent, ScanTypes
  <2>2. queue' = queue \/ queue' = Append(queue, c[1])
    BY <1>7 DEF CheckCurrent
  <2>3. \A i \in DOMAIN queue' : FromPast(queue'[i])
    <3>1. c[1] \in Job /\ FromPast(c[1])
      BY TypesOfState DEF Candles
    <3> QED
      BY <2>2, <3>1, AppendedOrOld
  <2> QED
    BY <1>7, <2>1, <2>3 DEF CheckCurrent
<1>8. ASSUME NEW l \in Loaders, LoadStopped(l)
      PROVE  JobsOK'
  BY <1>8 DEF LoadStopped, ScanTypes, NoLoad
<1>9. ASSUME NEW w \in Workers, Take(w)
      PROVE  JobsOK'
  <2>1. \A i \in DOMAIN queue' : FromPast(queue'[i])
    BY <1>9, TailIsOld DEF Take
  <2>2. FromPast(Head(queue))
    BY <1>9, TailIsOld DEF Take
  <2>3. work' = [work EXCEPT ![w] = [step |-> "fetch", job |-> Head(queue)]]
          \/ work' = [work EXCEPT ![w] = Free]
    BY <1>9 DEF Take, Done
  <2>4. \A v \in Workers : work'[v] # Free => FromPast(work'[v].job)
    BY <2>2, <2>3, SMTT(30) DEF ScanTypes
  <2> QED
    BY <1>9, <2>1, <2>4 DEF Take
<1>10. ASSUME NEW w \in Workers, Fetch(w)
       PROVE  JobsOK'
  <2>1. work' = [work EXCEPT ![w] = [step |-> "deliver", job |-> work[w].job,
                                     through |-> LatestSession]]
          \/ work' = [work EXCEPT ![w] = Free]
    BY <1>10 DEF Fetch, Done
  <2>2. FromPast(work[w].job)
    BY <1>10 DEF Fetch, Free
  <2>3. \A v \in Workers : work'[v] # Free => FromPast(work'[v].job)
    BY <2>1, <2>2, SMTT(30) DEF ScanTypes
  <2> QED
    BY <1>10, <2>3 DEF Fetch
<1>11. ASSUME NEW w \in Workers, FetchLimited(w) \/ FetchFails(w) \/ Deliver(w)
       PROVE  JobsOK'
  <2>1. work' = [work EXCEPT ![w] = Free] /\ work[w] # Free
    BY <1>11 DEF FetchLimited, FetchFails, Deliver, Done, Free
  <2>2. queue' = queue \/ queue' = Append(queue, work[w].job)
    BY <1>11 DEF FetchLimited, FetchFails, Deliver
  <2>3. \A i \in DOMAIN queue' : FromPast(queue'[i])
    <3>1. work[w].job \in Job /\ FromPast(work[w].job)
      BY <2>1, TypesOfState
    <3> QED
      BY <2>2, <3>1, AppendedOrOld
  <2>4. \A v \in Workers : work'[v] # Free => FromPast(work'[v].job)
    BY <2>1, WorkerFreed
  <2> QED
    BY <1>11, <2>3, <2>4 DEF FetchLimited, FetchFails, Deliver
<1>12. CASE UNCHANGED <<session, states, switches, loads, queue, work>>
  BY <1>12
<1> QED
  BY <1>2, <1>3, <1>4, <1>5, <1>6, <1>7, <1>8, <1>9, <1>10, <1>11, <1>12
  DEF Next, vars, Stop, SnapshotSession, SnapshotRows, SetPrevious, Loaded, NextDay,
      OpenSession, Tick

\* What was read as wanted was delivered, or is on its way: neither a switch nor
\* a roll makes a job wanted again that no longer was.
LEMMA LandedKept ==
  ASSUME ScannerAssumption, ScanTypes, ClockOK, LoadsOK, JobsOK, Landed, [Next]_vars
  PROVE  Landed'
<1> USE DEF calendar, engine, uiVars, fetching, history, Landed
<1>1. \A l \in Loaders : \A r \in loads[l].check :
         /\ r[1] \in Job /\ r[1].slot \in Slots /\ r[1].object # None
         /\ r[1].object \in Int /\ r[1].date \in Int
         /\ FromPast(r[1])
  BY TypesOfState, JobFields DEF Candles, JobsOK
<1>2. CASE \/ \E K \in SUBSET Keys : SetSymbols(K)
           \/ SetIndex
  <2>1. PICK S \in SUBSET Slots, T \in SUBSET Slots : Switch(S, T)
    BY <1>2, SwitchOf
  <2>2. UNCHANGED <<loads, session>> /\ switches \in Int
    BY <2>1, TypesOfState DEF Switch
  <2>3. ASSUME NEW s \in Slots, states'[s] # None, states'[s] # switches + 2
        PROVE  states'[s] = states[s] /\ context'[s] = context[s]
    BY <2>1, <2>3 DEF Switch
  <2>4. \A l \in Loaders : \A r \in loads[l].check : r[1].object # switches + 2
    BY <1>1, <2>2 DEF FromPast
  <2> QED
    BY <1>1, <2>2, <2>3, <2>4 DEF Wanted, Live
<1>3. CASE LoadAdded \/ LoadStates
  <2>1. \A l \in Loaders : loads'[l].ready = loads[l].ready /\ loads'[l].check = loads[l].check
    BY <1>3, ReadSet, TypesOfState DEF LoadAdded, LoadStates
  <2> QED
    BY <1>3, <2>1 DEF LoadAdded, LoadStates, Wanted, Live
<1>4. CASE SetSession
  <2>1. \A l \in Loaders : \A r \in loads[l].check : ~Wanted(r[1])'
    BY <1>1, <1>4, TypesOfState DEF SetSession, ClockOK, FromPast, Wanted
  <2> QED
    BY <1>4, <2>1 DEF SetSession
<1>5. ASSUME NEW l \in Loaders, NEW job \in loads[l].read, ReadCache(l, job)
      PROVE  Landed'
  <2> DEFINE read == <<job, cached[job.slot]>>
  <2>1. /\ loads'[l].ready = {r \in {read} : r[2] # None /\ Wanted(job)}
        /\ loads'[l].check = loads[l].check \cup {read}
        /\ \A k \in Loaders \ {l} : loads'[k] = loads[k]
        /\ loads[l].ready = {}
        /\ UNCHANGED <<context, states, session>>
    BY <1>5 DEF ReadCache, ScanTypes
  <2>2. read[1] = job
    OBVIOUS
  <2> HIDE DEF read
  <2> QED
    BY <2>1, <2>2 DEF Wanted, Live
<1>6. ASSUME NEW l \in Loaders, DeliverCached(l)
      PROVE  Landed'
  <2>1. PICK r \in loads[l].ready : context' = Delivered(r[1], r[2])
    BY <1>6 DEF DeliverCached
  <2>2. /\ r[1] \in Job /\ r[2] \in Days /\ r[2] # None
        /\ loads[l].ready = {r}
    BY TypesOfState DEF LoadsOK, Candles
  <2>3. UNCHANGED <<states, session>>
    BY <1>6 DEF DeliverCached
  <2>4. \A k \in Loaders : /\ loads'[k].check = loads[k].check
                           /\ k # l => loads'[k].ready = loads[k].ready
    BY <1>6 DEF DeliverCached, ScanTypes
  <2>5. Live(r[1]) => context'[r[1].slot] # NoContext
    BY <2>1, <2>2, DeliveredContext DEF NoContext
  <2>6. \A s \in Slots : context[s] # NoContext => context'[s] # NoContext
    BY <2>1, <2>2, DeliveredContext DEF NoContext
  <2> QED
    BY <1>1, <2>2, <2>3, <2>4, <2>5, <2>6 DEF Wanted, Live
<1>7. ASSUME NEW l \in Loaders, NEW c \in loads[l].check, CheckCurrent(l, c[1], c[2])
      PROVE  Landed'
  <2>1. \A k \in Loaders : /\ loads'[k].ready = loads[k].ready
                           /\ loads'[k].check \subseteq loads[k].check
    BY <1>7 DEF CheckCurrent, ScanTypes
  <2> QED
    BY <1>7, <2>1 DEF CheckCurrent, Wanted, Live
<1>8. ASSUME NEW l \in Loaders, LoadStopped(l)
      PROVE  Landed'
  <2>1. \A k \in Loaders : \/ loads'[k] = loads[k]
                           \/ loads'[k].check = {}
    BY <1>8 DEF LoadStopped, ScanTypes, NoLoad
  <2> QED
    BY <1>8, <2>1 DEF LoadStopped, Wanted, Live
<1>9. ASSUME NEW w \in Workers, Deliver(w)
      PROVE  Landed'
  <2>1. work[w].job \in Job /\ work[w].through \in Days \ {0}
    BY <1>9, TypesOfState DEF Deliver, Free
  <2>2. \A s \in Slots : context[s] # NoContext => context'[s] # NoContext
    BY <1>9, <2>1, DeliveredContext DEF Deliver, NoContext, None
  <2> QED
    BY <1>1, <1>9, <2>2 DEF Deliver, Wanted, Live
<1>10. CASE UNCHANGED <<session, states, context, loads>>
  BY <1>10 DEF Wanted, Live
<1> QED
  BY <1>2, <1>3, <1>4, <1>5, <1>6, <1>7, <1>8, <1>9, <1>10
  DEF Next, vars, Stop, SnapshotSession, SnapshotRows, SetPrevious, Loaded, Take, Fetch,
      FetchLimited, FetchFails, NextDay, OpenSession, Tick

BusyWorkers == {w \in Workers : work[w] # Free}

\* Every job in the queue or in a worker's hands is counted, once.
LEMMA PendingKept ==
  ASSUME ScannerAssumption, ScanTypes, PendingExact, [Next]_vars
  PROVE  PendingExact'
<1> USE DEF calendar, engine, uiVars, fetching, history
<1>1. /\ pending = Len(queue) + Cardinality(BusyWorkers)
      /\ Len(queue) \in Nat /\ Cardinality(BusyWorkers) \in Nat
      /\ IsFiniteSet(BusyWorkers)
  <2>1. IsFiniteSet(BusyWorkers)
    BY FS_Subset, ScannerAssumption DEF ScannerAssumption, BusyWorkers
  <2> QED
    BY <2>1, FS_CardinalityType, TypesOfState DEF PendingExact, BusyWorkers
<1>2. PendingExact' <=> pending' = Len(queue') + Cardinality(BusyWorkers')
  BY DEF PendingExact, BusyWorkers
<1>3. ASSUME NEW w \in Workers, Done(w)
      PROVE  /\ pending' = pending - 1
             /\ work[w] = Free => BusyWorkers' = BusyWorkers
             /\ work[w] # Free => Cardinality(BusyWorkers') = Cardinality(BusyWorkers) - 1
  <2>1. work'[w] = Free /\ \A v \in Workers \ {w} : work'[v] = work[v]
    BY <1>3, WorkerFreed DEF Done
  <2>2. BusyWorkers' = BusyWorkers \ {w}
    BY <2>1 DEF BusyWorkers
  <2>3. work[w] # Free <=> w \in BusyWorkers
    BY DEF BusyWorkers
  <2>4. w \in BusyWorkers => Cardinality(BusyWorkers \ {w}) = Cardinality(BusyWorkers) - 1
    BY <1>1, FS_RemoveElement
  <2> QED
    BY <1>3, <2>2, <2>3, <2>4 DEF Done
<1>4. ASSUME NEW l \in Loaders, NEW c \in loads[l].check, CheckCurrent(l, c[1], c[2])
      PROVE  PendingExact'
  <2>1. Len(Append(queue, c[1])) = Len(queue) + 1
    BY AppendedOrOld, TypesOfState DEF Candles
  <2>2. BusyWorkers' = BusyWorkers
    BY <1>4 DEF CheckCurrent, BusyWorkers
  <2>3. \/ queue' = queue /\ pending' = pending
        \/ queue' = Append(queue, c[1]) /\ pending' = pending + 1
    BY <1>4 DEF CheckCurrent
  <2> QED
    BY <1>1, <1>2, <2>1, <2>2, <2>3
<1>5. ASSUME NEW w \in Workers, Take(w)
      PROVE  PendingExact'
  <2>1. queue' = Tail(queue) /\ Len(queue') = Len(queue) - 1 /\ work[w] = Free
    BY <1>5, TailIsOld DEF Take
  <2>2. CASE Done(w)
    <3>1. pending' = pending - 1 /\ Cardinality(BusyWorkers') = Cardinality(BusyWorkers)
      BY <1>3, <2>1, <2>2
    <3> QED
      BY <1>1, <1>2, <2>1, <3>1
  <2>3. CASE ~Done(w)
    <3>1. /\ work' = [work EXCEPT ![w] = [step |-> "fetch", job |-> Head(queue)]]
          /\ pending' = pending
      BY <1>5, <2>3 DEF Take
    <3>2. work'[w] # Free /\ \A v \in Workers \ {w} : work'[v] = work[v]
      BY <3>1 DEF ScanTypes, Free
    <3>3. BusyWorkers' = BusyWorkers \cup {w} /\ w \notin BusyWorkers
      BY <2>1, <3>2 DEF BusyWorkers
    <3>4. Cardinality(BusyWorkers') = Cardinality(BusyWorkers) + 1
      BY <1>1, <3>3, FS_AddElement
    <3> QED
      <4>1. Len(queue') = Len(queue) - 1
        BY <2>1
      <4>2. pending' = Len(queue) + Cardinality(BusyWorkers)
        BY <1>1, <3>1
      <4> HIDE DEF calendar, engine, uiVars, fetching, history
      <4> QED
        BY <1>1, <1>2, <3>4, <4>1, <4>2
  <2> QED
    BY <2>2, <2>3
<1>6. ASSUME NEW w \in Workers, Fetch(w)
      PROVE  PendingExact'
  <2>1. work[w] # Free /\ queue' = queue
    BY <1>6 DEF Fetch, Free
  <2>2. CASE Done(w)
    BY <1>1, <1>2, <1>3, <2>1, <2>2
  <2>3. CASE ~Done(w)
    <3>1. /\ work' = [work EXCEPT ![w] = [step |-> "deliver", job |-> work[w].job,
                                          through |-> LatestSession]]
          /\ pending' = pending
      BY <1>6, <2>3 DEF Fetch
    <3>2. work'[w] # Free /\ \A v \in Workers \ {w} : work'[v] = work[v]
      BY <3>1 DEF ScanTypes, Free
    <3>3. BusyWorkers' = BusyWorkers
      BY <2>1, <3>2 DEF BusyWorkers
    <3> QED
      BY <1>1, <1>2, <2>1, <3>1, <3>3
  <2> QED
    BY <2>2, <2>3
<1>7. ASSUME NEW w \in Workers, FetchLimited(w)
      PROVE  PendingExact'
  <2>1. work[w] # Free /\ work[w].job \in Job
    BY <1>7, TypesOfState DEF FetchLimited, Free
  <2>2. CASE ui = "stopped"
    BY <1>1, <1>2, <1>3, <1>7, <2>1, <2>2 DEF FetchLimited
  <2>3. CASE ui # "stopped"
    <3>1. /\ queue' = Append(queue, work[w].job) /\ work' = [work EXCEPT ![w] = Free]
          /\ pending' = pending
      BY <1>7, <2>3 DEF FetchLimited
    <3>2. Len(queue') = Len(queue) + 1
      BY <2>1, <3>1, AppendedOrOld
    <3>3. BusyWorkers' = BusyWorkers \ {w} /\ w \in BusyWorkers
      BY <2>1, <3>1, WorkerFreed DEF BusyWorkers
    <3>4. Cardinality(BusyWorkers') = Cardinality(BusyWorkers) - 1
      BY <1>1, <3>3, FS_RemoveElement
    <3> QED
      BY <1>1, <1>2, <3>1, <3>2, <3>4
  <2> QED
    BY <2>2, <2>3
<1>8. ASSUME NEW w \in Workers, FetchFails(w) \/ Deliver(w)
      PROVE  PendingExact'
  <2>1. work[w] # Free /\ queue' = queue /\ Done(w)
    BY <1>8 DEF FetchFails, Deliver, Free
  <2> QED
    BY <1>1, <1>2, <1>3, <2>1
<1>9. CASE UNCHANGED <<queue, work, pending>>
  <2>1. BusyWorkers' = BusyWorkers
    BY <1>9 DEF BusyWorkers
  <2> QED
    BY <1>1, <1>2, <1>9, <2>1
<1> QED
  BY <1>4, <1>5, <1>6, <1>7, <1>8, <1>9
  DEF Next, vars, SetSymbols, SetIndex, Switch, LoadAdded, Stop, SnapshotSession, SnapshotRows,
      SetPrevious, SetSession, LoadStates, Loaded, ReadCache, DeliverCached, LoadStopped, NextDay,
      OpenSession, Tick

-----------------------------------------------------------------------------
(* Who brings a history hands it on.                                        *)

\* Jobs for slots are jobs for each of them.
LEMMA JobsServe == ASSUME NEW S, NEW s \in S PROVE \E job \in Jobs(S, session) : For(job, s)
<1> DEFINE job == [slot |-> s, object |-> states[s], date |-> session]
<1>1. job \in Jobs(S, session)
  BY DEF Jobs
<1>2. job.slot = s /\ job.object = states[s] /\ job.date = session
  OBVIOUS
<1> HIDE DEF job
<1>3. For(job, s)
  BY <1>2 DEF For, Wanted, Live
<1> QED
  BY <1>1, <1>3

\* As long as the session and the objects stay, so do the jobs that are wanted.
LEMMA StaysOnItsWay ==
  ASSUME NEW s, OnItsWay(s), UNCHANGED <<session, states>>,
         ui = "load" /\ s \in added => ui' = "load" /\ s \in added',
         runner \in {"session", "states"} => runner' \in {"session", "states"},
         \A l \in Loaders :
            loads[l].read \subseteq loads'[l].read \cup {r[1] : r \in loads'[l].check},
         \A l \in Loaders : \A r \in loads[l].check : r \in loads'[l].check \/ ~For(r[1], s),
         \A i \in DOMAIN queue : \/ \E j \in DOMAIN queue' : queue'[j] = queue[i]
                                 \/ \E w \in Workers : work'[w] # Free /\ work'[w].job = queue[i]
                                 \/ ~Wanted(queue[i]),
         \A w \in Workers : work[w] # Free =>
            \/ work'[w] # Free /\ work'[w].job = work[w].job
            \/ \E j \in DOMAIN queue' : queue'[j] = work[w].job
            \/ ~For(work[w].job, s)
  PROVE  OnItsWay(s)'
<1>1. \A job : For(job, s)' <=> For(job, s)
  BY DEF For, Wanted, Live
<1>2. ASSUME NEW l \in Loaders, InLoad(l, s)
      PROVE  InLoad(l, s)'
  BY <1>1, <1>2 DEF InLoad
<1>3. ASSUME NEW i \in DOMAIN queue, For(queue[i], s)
      PROVE  OnItsWay(s)'
  <2>1. Wanted(queue[i])
    BY <1>3 DEF For
  <2> QED
    BY <1>1, <1>3, <2>1 DEF OnItsWay
<1>4. ASSUME NEW w \in Workers, work[w] # Free, For(work[w].job, s)
      PROVE  OnItsWay(s)'
  BY <1>1, <1>4 DEF OnItsWay
<1> QED
  BY <1>2, <1>3, <1>4 DEF OnItsWay

\* A row without a history has one on the way, from the switch or the roll that
\* emptied it to the delivery, or the word that there is none.
LEMMA ServedKept ==
  ASSUME ScannerAssumption, ScanTypes, PastOnly, LoadsOK, Landed, Served, [Next]_vars
  PROVE  Served'
<1> USE DEF calendar, engine, uiVars, fetching, history
<1> DEFINE Ok(s) == OnItsWay(s) \/ Failed(s) \/ <<s, states[s]>> \in missed
<1> SUFFICES ASSUME NEW s \in Filled', Behind(s)'
             PROVE  Ok(s)'
  BY DEF Served
<1>1. s \in Slots /\ states'[s] # None /\ session' # None /\ ui' # "stopped"
  BY DEF Filled, Behind
<1>2. CASE \/ \E K \in SUBSET Keys : SetSymbols(K)
           \/ SetIndex
  <2>1. PICK S \in SUBSET Slots, T \in SUBSET Slots : Switch(S, T)
    BY <1>2, SwitchOf
  <2>2. CASE s \in S
    BY <2>1, <2>2 DEF Switch, OnItsWay
  <2>3. CASE s \notin S
    <3>1. states'[s] = states[s] /\ context'[s] = context[s] /\ s \in Filled /\ ui = "idle"
      BY <1>1, <2>1, <2>3 DEF Switch, Filled
    <3>2. UNCHANGED <<session, loads, queue, work, runner, failed, missed>>
      BY <2>1 DEF Switch
    <3>3. Ok(s)
      BY <3>1, <3>2 DEF Served, Behind
    <3>4. \A job : For(job, s)' <=> For(job, s)
      BY <3>1, <3>2 DEF For, Wanted, Live
    <3>5. OnItsWay(s) => OnItsWay(s)'
      BY <3>1, <3>2, <3>4 DEF OnItsWay, InLoad
    <3> QED
      BY <3>1, <3>2, <3>3, <3>5 DEF Failed
  <2> QED
    BY <2>2, <2>3
<1>3. CASE SetPrevious \/ SetSession
  BY <1>3 DEF SetPrevious, SetSession, OnItsWay
\* Every other step leaves the session and the objects alone.
<1>4. ASSUME UNCHANGED <<session, states>>, context'[s] = NoContext => context[s] = NoContext,
             ui = "stopped" => ui' = "stopped", failed \subseteq failed', missed \subseteq missed'
      PROVE  /\ OnItsWay(s) \/ Ok(s)'
             /\ context[s] = NoContext
             /\ \A job : For(job, s)' <=> For(job, s)
  BY <1>1, <1>4 DEF Served, Behind, Filled, Failed, For, Wanted, Live
<1>5. CASE LoadAdded
  <2>1. \/ session = None
        \/ loads' = [loads EXCEPT ![switches].read = Jobs(added, session)]
    BY <1>5 DEF LoadAdded
  <2>2. /\ UNCHANGED <<session, states, context, runner, queue, work, failed, missed>>
        /\ ui = "load" /\ ui' = "idle"
    BY <1>5 DEF LoadAdded
  <2>3. \A job : For(job, s)' <=> For(job, s)
    BY <1>4, <2>2
  <2>4. loads' = [loads EXCEPT ![switches].read = Jobs(added, session)]
    BY <1>1, <2>1, <2>2
  <2>5. /\ switches \in Loaders \ {0} /\ loads[switches].read = {}
        /\ loads'[switches].read = Jobs(added, session)
        /\ \A l \in Loaders : /\ loads'[l].check = loads[l].check
                              /\ loads[l].read \subseteq loads'[l].read
    <3>1. switches \in Loaders \ {0} /\ loads[switches].read = {}
      BY <2>2, TypesOfState DEF LoadsOK
    <3> QED
      BY <2>4, <3>1, ReadSet, ZenonT(40)
  <2>6. s \in added => \E l \in Loaders : InLoad(l, s)'
    <3> SUFFICES ASSUME s \in added
                 PROVE  \E l \in Loaders : InLoad(l, s)'
      OBVIOUS
    <3>1. PICK job \in Jobs(added, session) : For(job, s)
      BY JobsServe
    <3>2. PICK l \in Loaders : job \in loads'[l].read
      BY <2>5
    <3> QED
      BY <2>3, <3>1, <3>2 DEF InLoad
  <2>7. \A l \in Loaders : InLoad(l, s) => InLoad(l, s)'
    BY <2>3, <2>5 DEF InLoad
  <2>8. OnItsWay(s) => OnItsWay(s)'
    BY <2>2, <2>3, <2>5, <2>6, <2>7 DEF OnItsWay
  <2> QED
    BY <1>4, <2>2, <2>8
<1>6. CASE LoadStates
  <2>1. loads' = [loads EXCEPT ![0].read = Jobs(Filled, session)] /\ UNCHANGED <<states, session>>
    BY <1>6 DEF LoadStates
  <2>2. 0 \in Loaders /\ loads'[0].read = Jobs(Filled, session)
    BY <2>1, ReadSet, TypesOfState
  <2>3. s \in Filled
    BY <1>1, <2>1 DEF Filled
  <2>4. PICK job \in Jobs(Filled, session) : For(job, s)
    BY <2>3, JobsServe
  <2>5. For(job, s)'
    BY <2>1, <2>4 DEF For, Wanted, Live
  <2>6. PICK l \in Loaders : job \in loads'[l].read
    BY <2>2
  <2>7. InLoad(l, s)'
    BY <2>5, <2>6 DEF InLoad
  <2> QED
    BY <2>7 DEF OnItsWay
<1>7. CASE Loaded \/ SnapshotSession \/ SnapshotRows
  <2>1. /\ UNCHANGED <<session, states, context, loads, queue, work, failed, missed>>
        /\ runner' = runner \/ runner = "load"
        /\ ui # "load" \/ UNCHANGED <<ui, added>>
        /\ ui # "stopped" \/ ui' = ui
    BY <1>7 DEF Loaded, SnapshotSession, SnapshotRows
  <2>2. OnItsWay(s) => OnItsWay(s)'
    BY <2>1, StaysOnItsWay
  <2> QED
    BY <1>4, <2>1, <2>2
<1>8. ASSUME NEW l \in Loaders, NEW job \in loads[l].read, ReadCache(l, job)
      PROVE  Ok(s)'
  <2> DEFINE read == <<job, cached[job.slot]>>
  <2>1. UNCHANGED <<session, states, context, ui, added, runner, queue, work, failed, missed>>
    BY <1>8 DEF ReadCache
  <2>2. /\ loads'[l].read = loads[l].read \ {job} /\ loads'[l].check = loads[l].check \cup {read}
        /\ \A k \in Loaders \ {l} : loads'[k] = loads[k]
    BY <1>8 DEF ReadCache, ScanTypes
  <2>3. read[1] = job
    OBVIOUS
  <2> HIDE DEF read
  <2>4. OnItsWay(s) => OnItsWay(s)'
    BY <2>1, <2>2, <2>3, StaysOnItsWay
  <2> QED
    BY <1>4, <2>1, <2>4
<1>9. ASSUME NEW l \in Loaders, DeliverCached(l)
      PROVE  Ok(s)'
  <2>1. UNCHANGED <<session, states, ui, added, runner, queue, work, failed, missed>>
    BY <1>9 DEF DeliverCached
  <2>2. \A k \in Loaders : loads'[k].check = loads[k].check /\ loads'[k].read = loads[k].read
    BY <1>9 DEF DeliverCached, ScanTypes
  <2>3. context'[s] = NoContext => context[s] = NoContext
    <3>1. PICK r \in loads[l].ready : context' = Delivered(r[1], r[2])
      BY <1>9 DEF DeliverCached
    <3>2. r[1] \in Job /\ r[2] \in Days /\ r[2] # None
      BY TypesOfState DEF LoadsOK, Candles
    <3> QED
      BY <1>1, <3>1, <3>2, DeliveredContext DEF NoContext
  <2>4. OnItsWay(s) => OnItsWay(s)'
    BY <2>1, <2>2, StaysOnItsWay
  <2> QED
    BY <1>4, <2>1, <2>3, <2>4
<1>10. ASSUME NEW l \in Loaders, NEW c \in loads[l].check, CheckCurrent(l, c[1], c[2])
       PROVE  Ok(s)'
  <2>1. /\ UNCHANGED <<session, states, context, ui, added, runner, work, failed>>
        /\ missed \subseteq missed'
    BY <1>10 DEF CheckCurrent
  <2>2. c[1] \in Job /\ c[2] \in Days /\ c = <<c[1], c[2]>>
    BY TypesOfState DEF Candles
  <2>3. /\ \A k \in Loaders : loads'[k].read = loads[k].read
        /\ \A k \in Loaders \ {l} : loads'[k] = loads[k]
        /\ loads'[l].check = loads[l].check \ {c}
    <3>1. loads[l] \in Load /\ l \in DOMAIN loads
      BY DEF ScanTypes
    <3>2. loads' = [loads EXCEPT ![l].check = loads[l].check \ {c}]
      BY <1>10, <2>2 DEF CheckCurrent
    <3> QED
      BY <3>1, <3>2 DEF ScanTypes, Load
  <2>4. \A i \in DOMAIN queue : \E j \in DOMAIN queue' : queue'[j] = queue[i]
    BY <1>10, <2>2, AppendedOrOld DEF CheckCurrent
  <2>5. ASSUME For(c[1], s)
        PROVE  Ok(s)'
    <3>1. CASE cached[c[1].slot] >= LatestSession /\ c[2] < LatestSession
      BY <1>10, <2>1, <2>5, <3>1 DEF CheckCurrent, Object, For, Wanted, Live
    <3>2. CASE cached[c[1].slot] >= LatestSession /\ ~(c[2] < LatestSession)
      <4>1. c[2] # None
        BY <2>2, <3>2, TypesOfState DEF Days, None
      <4>2. loads[l].ready = {}
        BY <1>10 DEF CheckCurrent
      <4>3. context[s] # NoContext
        BY <2>5, <4>1, <4>2 DEF Landed, For
      <4> QED
        BY <2>1, <4>3 DEF Behind
    <3>3. CASE ~(cached[c[1].slot] >= LatestSession)
      <4>1. queue' = Append(queue, c[1])
        BY <1>10, <3>3 DEF CheckCurrent
      <4>2. \E j \in DOMAIN queue' : queue'[j] = c[1]
        BY <2>2, <4>1, AppendedOrOld
      <4>3. For(c[1], s)'
        BY <1>4, <2>1, <2>5
      <4> QED
        BY <4>2, <4>3 DEF OnItsWay
    <3> QED
      BY <3>1, <3>2, <3>3
  <2>6. ASSUME ~For(c[1], s), OnItsWay(s)
        PROVE  OnItsWay(s)'
    <3>1. \A k \in Loaders : \A r \in loads[k].check : r \in loads'[k].check \/ ~For(r[1], s)
      BY <2>3, <2>6
    <3> QED
      BY <2>1, <2>3, <2>4, <2>6, <3>1, StaysOnItsWay
  <2> QED
    BY <1>4, <2>1, <2>5, <2>6
<1>11. ASSUME NEW l \in Loaders, LoadStopped(l)
       PROVE  Ok(s)'
  BY <1>1, <1>11 DEF LoadStopped
<1>12. ASSUME NEW w \in Workers, Take(w)
       PROVE  Ok(s)'
  <2>1. /\ UNCHANGED <<session, states, context, ui, added, runner, loads, failed, missed>>
        /\ queue' = Tail(queue) /\ work[w] = Free
    BY <1>12 DEF Take
  <2> DEFINE taken == [step |-> "fetch", job |-> Head(queue)]
  <2>2. IF ui # "stopped" /\ Wanted(Head(queue)) THEN work' = [work EXCEPT ![w] = taken]
                                                ELSE work' = [work EXCEPT ![w] = Free]
    BY <1>12 DEF Take, Done
  <2>3. taken # Free /\ taken.job = Head(queue)
    BY DEF Free
  <2> HIDE DEF taken
  <2>4. \A v \in Workers : work[v] # Free => work'[v] = work[v]
    BY <2>1, <2>2 DEF ScanTypes
  <2>5. \/ work'[w] # Free /\ work'[w].job = Head(queue)
        \/ ~Wanted(Head(queue))
    BY <1>1, <2>1, <2>2, <2>3 DEF ScanTypes
  <2>6. \A i \in DOMAIN queue : \/ queue[i] = Head(queue)
                                \/ \E j \in DOMAIN queue' : queue'[j] = queue[i]
    <3> SUFFICES ASSUME NEW i \in DOMAIN queue, i # 1
                 PROVE  \E j \in DOMAIN queue' : queue'[j] = queue[i]
      BY <1>12, TailIsOld DEF Take
    <3>1. i - 1 \in DOMAIN queue' /\ queue'[i - 1] = queue[i]
      BY <1>12, <2>1, TailIsOld DEF Take
    <3> QED
      BY <3>1
  <2>7. OnItsWay(s) => OnItsWay(s)'
    BY <2>1, <2>4, <2>5, <2>6, StaysOnItsWay
  <2> QED
    BY <1>4, <2>1, <2>7
<1>13. ASSUME NEW w \in Workers, Fetch(w)
       PROVE  Ok(s)'
  <2>1. UNCHANGED <<session, states, context, ui, added, runner, loads, queue, failed, missed>>
    BY <1>13 DEF Fetch
  <2> DEFINE brought == [step |-> "deliver", job |-> work[w].job, through |-> LatestSession]
  <2>2. IF Wanted(work[w].job) THEN work' = [work EXCEPT ![w] = brought]
                               ELSE work' = [work EXCEPT ![w] = Free]
    BY <1>13 DEF Fetch, Done
  <2>3. brought # Free /\ brought.job = work[w].job
    BY DEF Free
  <2> HIDE DEF brought
  <2>4. \A v \in Workers : work[v] # Free =>
           \/ work'[v] # Free /\ work'[v].job = work[v].job
           \/ ~For(work[v].job, s)
    BY <2>2, <2>3 DEF ScanTypes, For
  <2>5. OnItsWay(s) => OnItsWay(s)'
    BY <2>1, <2>4, StaysOnItsWay
  <2> QED
    BY <1>4, <2>1, <2>5
<1>14. ASSUME NEW w \in Workers, FetchLimited(w)
       PROVE  Ok(s)'
  <2>1. /\ UNCHANGED <<session, states, context, ui, added, runner, loads, failed, missed>>
        /\ work[w] # Free
    BY <1>14 DEF FetchLimited, Free
  <2>2. queue' = Append(queue, work[w].job) /\ work' = [work EXCEPT ![w] = Free]
    BY <1>1, <1>14, <2>1 DEF FetchLimited
  <2>3. /\ \A i \in DOMAIN queue : \E j \in DOMAIN queue' : queue'[j] = queue[i]
        /\ \E j \in DOMAIN queue' : queue'[j] = work[w].job
    BY <2>1, <2>2, AppendedOrOld, TypesOfState
  <2>4. \A v \in Workers \ {w} : work'[v] = work[v]
    BY <2>2, WorkerFreed
  <2>5. OnItsWay(s) => OnItsWay(s)'
    BY <2>1, <2>3, <2>4, StaysOnItsWay
  <2> QED
    BY <1>4, <2>1, <2>5
<1>15. ASSUME NEW w \in Workers, FetchFails(w) \/ Deliver(w)
       PROVE  Ok(s)'
  <2>1. /\ UNCHANGED <<session, states, ui, added, runner, loads, queue, missed>>
        /\ failed \subseteq failed'
        /\ work' = [work EXCEPT ![w] = Free] /\ work[w] # Free
    BY <1>15 DEF FetchFails, Deliver, Done, Free
  <2>2. \A v \in Workers \ {w} : work'[v] = work[v]
    BY <2>1, WorkerFreed
  <2>3. CASE For(work[w].job, s)
    <3>1. CASE FetchFails(w)
      BY <2>1, <2>3, <3>1 DEF FetchFails, Failed, Object, For, Wanted, Live
    <3>2. CASE Deliver(w)
      <4>1. work[w].job \in Job /\ work[w].through \in Days \ {0}
        BY <3>2, TypesOfState DEF Deliver, Free
      <4>2. context'[s] # NoContext
        BY <2>3, <3>2, <4>1, DeliveredContext DEF Deliver, For, Wanted, NoContext, None
      <4> QED
        BY <4>2 DEF Behind
    <3> QED
      BY <1>15, <3>1, <3>2
  <2>4. CASE ~For(work[w].job, s)
    <3>1. OnItsWay(s) => OnItsWay(s)'
      BY <2>1, <2>2, <2>4, StaysOnItsWay
    <3>2. context'[s] = NoContext => context[s] = NoContext
      <4>1. CASE Deliver(w)
        <5>1. work[w].job \in Job /\ work[w].through \in Days \ {0}
          BY <4>1, TypesOfState DEF Deliver, Free
        <5> QED
          BY <1>1, <4>1, <5>1, DeliveredContext DEF Deliver, NoContext, None
      <4> QED
        BY <1>15, <4>1 DEF FetchFails
    <3> QED
      BY <1>4, <2>1, <3>1, <3>2
  <2> QED
    BY <2>3, <2>4
<1>16. CASE Stop
  BY <1>1, <1>16 DEF Stop
<1>17. CASE NextDay \/ OpenSession \/ (\E t \in Slots : Tick(t)) \/ UNCHANGED vars
  <2>1. UNCHANGED <<session, states, context, ui, added, runner, loads, queue, work, failed,
                    missed>>
    BY <1>17 DEF NextDay, OpenSession, Tick, vars
  <2>2. OnItsWay(s) => OnItsWay(s)'
    BY <2>1, StaysOnItsWay
  <2> QED
    BY <1>4, <2>1, <2>2
<1> HIDE DEF Ok
<1> QED
  BY <1>2, <1>3, <1>5, <1>6, <1>7, <1>8, <1>9, <1>10, <1>11, <1>12, <1>13, <1>14, <1>15, <1>16,
     <1>17 DEF Next

-----------------------------------------------------------------------------
(* The theorems.                                                            *)

\* The invariant holds whatever the UI, the session check, the loads and the
\* workers do, in any order.
THEOREM Invariant == ASSUME ScannerAssumption PROVE Spec => []ScanInv
<1>1. Init => ScanInv
  BY InitScan
<1>2. ScanInv /\ [Next]_vars => ScanInv'
  BY TypesKept, ClockKept, PastKept, LoadsKept, JobsKept, LandedKept, PendingKept, ServedKept
  DEF ScanInv
<1> QED
  BY <1>1, <1>2, PTL DEF Spec

\* A row that waits for its history has a job that is of the session at hand:
\* one that nobody drops on the way.
LEMMA CarriedOnItsWay == ASSUME NEW s, OnItsWay(s) PROVE Carried(s)
BY DEF OnItsWay, InLoad, For, Wanted, Carried

\* No candle of today is in a history, no redraw skips a session, the count of
\* pending jobs is exact, and no row of the scanner is forgotten
\* (ScannerEngine, DailyContextLoader): for any watchlists, workers and days.
THEOREM ContextsAlwaysSound == ASSUME ScannerAssumption PROVE Spec => []ContextsSound
<1>1. ScanInv => ContextsSound
  <2> SUFFICES ASSUME ScanInv
               PROVE  ContextsSound
    OBVIOUS
  <2>1. TypeOK
    BY ScannerAssumption DEF ScanInv, ScanTypes, PastOnly, TypeOK, Days, ScannerAssumption
  <2>2. NothingSkipped
    <3> SUFFICES ASSUME ui = "snapshot", NEW s \in Filled, CountsToday(s)
                 PROVE  context[s].through = shown - 1
      BY DEF NothingSkipped
    <3>1. shown \in Int /\ previous \in Int /\ session \in Int
      BY TypesOfState, ScannerAssumption DEF ScanInv
    <3>2. context[s].through \in Int
      BY DEF ScanInv, ScanTypes, Context, Days, Filled
    <3> QED
      BY <3>1, <3>2 DEF ScanInv, ClockOK, CountsToday
  <2>3. NobodyForgotten
    BY CarriedOnItsWay DEF ScanInv, Served, NobodyForgotten
  <2> QED
    BY <2>1, <2>2, <2>3 DEF ContextsSound, ScanInv
<1> QED
  BY <1>1, Invariant, PTL
=============================================================================
