-------------------------- MODULE RvolEngineProofs --------------------------
(***************************************************************************)
(* For any symbols, sessions, switches and attempts: no snapshot divides   *)
(* an old session's volume by a newer minute, and no shown symbol is left  *)
(* without a baseline that nobody is building.  The invariants say, step   *)
(* by step of the roll and of a switch, who answers for a symbol.          *)
(***************************************************************************)
EXTENDS Engines, Sequences, FiniteSetTheorems, TLAPS

Rolling(k) == <<k, states[k]>> \in rolling

\* What a snapshot shows is never ahead of what the engine rolled onto, nor that of
\* the exchange; the ticker runs only after start().
ClockOK ==
    /\ shown_minute <= minute
    /\ minute <= session
    /\ session <= market
    /\ setter = "init" => ticker = "off"

\* A volume is of the session at hand, unless the roll has yet to clear it; none is
\* kept for a symbol that is not shown.
VolumesOK ==
    \A k \in Keys : vtt[k] # None =>
        /\ k \in Shown
        /\ minute <= vtt[k]
        /\ \/ session <= vtt[k]
           \/ ticker \in {"date", "states"}
           \/ ticker \in {"load", "swap", "clear"} /\ Rolling(k)

\* Somebody answers for a shown symbol: a build, or what start(), a switch or the
\* roll has still to do.
AnsweredFor(k) ==
    \/ baseline[k] # None
    \/ k \in fruitless
    \/ Pending(k)
    \/ setter \in {"init", "begun"}
    \/ setter \in {"update", "load", "write", "missing"} /\ k \in arrived
    \/ ticker \in {"date", "states"}
    \/ ticker \in {"load", "swap", "clear", "missing"} /\ Rolling(k)

BuildsOK == session # None => \A k \in Shown : AnsweredFor(k)

RvolInv == TypeOK /\ ClockOK /\ VolumesOK /\ BuildsOK

-----------------------------------------------------------------------------
\* At the start nothing is rolled, built or shown.
LEMMA InitRvol == Init => RvolInv
BY RvolAssumption
DEF Init, RvolInv, TypeOK, Builds, ClockOK, VolumesOK, BuildsOK, AnsweredFor, Sessions, None,
    Generations, NoObject, NothingCached, NoneOrSession

\* A build is a record of its step; what each step makes of it is one, too.
LEMMA TypesKept == TypeOK /\ [Next]_vars => TypeOK'
<1> SUFFICES ASSUME TypeOK, [Next]_vars
             PROVE  TypeOK'
  OBVIOUS
<1> USE RvolAssumption
    DEF TypeOK, Builds, sessionVars, tickerVars, setterVars, buildVars, objectVars, NoneOrSession,
        None, NoObject
<1>1. CASE UiThread
  <2>1. CASE Start
    BY <2>1 DEF Start, Cached, Shown
  <2>2. CASE StartBuilding
    BY <2>2 DEF StartBuilding, Started, Missing, Shown
  <2>3. CASE UpdateSubscription
    BY <2>3 DEF UpdateSubscription, Shown
  <2>4. CASE LoadArrived
    BY <2>4 DEF LoadArrived, Cached
  <2>5. CASE WriteArrived
    BY <2>5 DEF WriteArrived, NothingCached
  <2>6. CASE BuildArrived
    BY <2>6 DEF BuildArrived, Started, Missing
  <2> QED
    BY <1>1, <2>1, <2>2, <2>3, <2>4, <2>5, <2>6 DEF UiThread
<1>2. ASSUME NEW K \in SUBSET Keys, SetSymbols(K)
      PROVE  TypeOK'
  <2>1. switches + 2 \in Generations /\ switches' \in 0 .. MaxSwitches
    BY <1>2 DEF SetSymbols, Generations
  <2> QED
    BY <1>2, <2>1 DEF SetSymbols, Shown
<1>3. CASE Stop \/ SnapshotMinute \/ SnapshotRows
  BY <1>3 DEF Stop, SnapshotMinute, SnapshotRows
<1>4. CASE Roll
  <2>1. CASE CheckSession
    BY <2>1 DEF CheckSession
  <2>2. CASE RollDate
    BY <2>2 DEF RollDate
  <2>3. CASE RollStates
    BY <2>3 DEF RollStates, Shown, Objects
  <2>4. CASE RollLoad
    BY <2>4 DEF RollLoad, Cached, Objects
  <2>5. CASE RollBaselines
    BY <2>5 DEF RollBaselines
  <2>6. CASE RollVolumes
    BY <2>6 DEF RollVolumes
  <2>7. CASE RollMissing
    <3>1. \A o \in rolling : o[1] \in Keys
      BY DEF Objects
    <3>2. batches' \subseteq SUBSET Keys
      BY <2>7, <3>1 DEF RollMissing, Started
    <3> QED
      BY <2>7, <3>2 DEF RollMissing
  <2>8. CASE SetMinute
    BY <2>8 DEF SetMinute
  <2> QED
    BY <1>4, <2>1, <2>2, <2>3, <2>4, <2>5, <2>6, <2>7, <2>8 DEF Roll
<1>5. ASSUME NEW K \in batches, CaptureSession(K)
      PROVE  TypeOK'
  BY <1>5 DEF CaptureSession, Task
<1>6. ASSUME NEW t \in tasks, Build(t)
      PROVE  TypeOK'
  <2>1. CASE Lookup(t)
    <3> DEFINE u == [t EXCEPT !.step = "fetch", !.object = states[t.key]]
    <3>1. CASE states[t.key] = NoObject
      BY <2>1, <3>1 DEF Lookup, Finish
    <3>2. CASE states[t.key] # NoObject
      <4>1. /\ t \in Builds
            /\ states[t.key] \in Generations
        BY <3>2
      <4>2. /\ u \in Builds
            /\ u.step # "lookup" /\ u.object # NoObject
        BY <3>2, <4>1
      <4> HIDE DEF u
      <4>3. tasks' = (tasks \ {t}) \cup {u}
        BY <2>1, <3>2 DEF Lookup, Advance, u
      <4>4. UNCHANGED <<sessionVars, states, objectVars, subscribed, saved, tickerVars,
                        setterVars, batches, fruitless, shown_minute>>
        BY <2>1 DEF Lookup
      <4> QED
        BY <4>2, <4>3, <4>4
    <3> QED
      BY <3>1, <3>2
  <2>2. CASE FetchLimited(t)
    BY <2>2 DEF FetchLimited, Advance
  <2>3. CASE FetchFails(t)
    BY <2>3 DEF FetchFails, Finish
  <2>4. CASE FetchSaves(t)
    BY <2>4 DEF FetchSaves, Advance
  <2>5. CASE CompareSession(t)
    BY <2>5 DEF CompareSession, Advance, Finish
  <2>6. CASE WriteBuilt(t)
    BY <2>6 DEF WriteBuilt, Finish
  <2> QED
    BY <1>6, <2>1, <2>2, <2>3, <2>4, <2>5, <2>6 DEF Build
<1>7. CASE OpenSession
  BY <1>7 DEF OpenSession
<1>8. ASSUME NEW k \in Keys, Tick(k)
      PROVE  TypeOK'
  BY <1>8 DEF Tick
<1>9. CASE UNCHANGED vars
  BY <1>9 DEF vars
<1> QED
  BY <1>1, <1>2, <1>3, <1>4, <1>5, <1>6, <1>7, <1>8, <1>9 DEF Next, Builders

\* Sessions are rolled onto in the order in which the exchange opens them.
LEMMA ClockKept == TypeOK /\ ClockOK /\ [Next]_vars => ClockOK'
<1> SUFFICES ASSUME TypeOK, ClockOK, [Next]_vars
             PROVE  ClockOK'
  OBVIOUS
<1> USE RvolAssumption
    DEF ClockOK, sessionVars, tickerVars, setterVars, buildVars, objectVars
<1>1. {market, session, minute, shown_minute} \subseteq Int /\ 0 <= minute
  BY DEF TypeOK, NoneOrSession, None, Sessions
<1>2. CASE UiThread \/ Stop
  BY <1>2 DEF UiThread, Start, StartBuilding, UpdateSubscription, LoadArrived, WriteArrived,
              BuildArrived, Stop
<1>3. ASSUME NEW K \in SUBSET Keys, SetSymbols(K)
      PROVE  ClockOK'
  BY <1>3 DEF SetSymbols
<1>4. CASE SnapshotMinute \/ SnapshotRows
  BY <1>1, <1>4 DEF SnapshotMinute, SnapshotRows, None
<1>5. CASE Roll
  BY <1>1, <1>5 DEF Roll, CheckSession, RollDate, RollStates, RollLoad, RollBaselines, RollVolumes,
                    RollMissing, SetMinute
<1>6. ASSUME NEW K \in batches, CaptureSession(K)
      PROVE  ClockOK'
  BY <1>6 DEF CaptureSession
<1>7. ASSUME NEW t \in tasks, Build(t)
      PROVE  ClockOK'
  BY <1>7 DEF Build, Lookup, FetchLimited, FetchFails, FetchSaves, CompareSession, WriteBuilt
<1>8. CASE OpenSession
  BY <1>1, <1>8 DEF OpenSession
<1>9. ASSUME NEW k \in Keys, Tick(k)
      PROVE  ClockOK'
  BY <1>9 DEF Tick
<1>10. CASE UNCHANGED vars
  BY <1>10 DEF vars
<1> QED
  BY <1>2, <1>3, <1>4, <1>5, <1>6, <1>7, <1>8, <1>9, <1>10 DEF Next, Builders

\* The roll comes to every volume of the old session before the minute moves on.
LEMMA VolumesKept == TypeOK /\ ClockOK /\ VolumesOK /\ [Next]_vars => VolumesOK'
<1> SUFFICES ASSUME TypeOK, ClockOK, VolumesOK, [Next]_vars
             PROVE  VolumesOK'
  OBVIOUS
<1> USE RvolAssumption
    DEF VolumesOK, Rolling, Shown, sessionVars, tickerVars, setterVars, buildVars, objectVars
<1>1. /\ {market, session, minute} \subseteq Int
      /\ states \in [Keys -> {NoObject} \cup Generations]
      /\ vtt \in [Keys -> NoneOrSession]
      /\ \A k \in Keys : vtt[k] \in Int
  BY DEF TypeOK, NoneOrSession, None, Sessions
<1>2. CASE UiThread
  <2>1. CASE Start
    BY <2>1 DEF Start, ClockOK
  <2>2. CASE ~Start
    <3> USE <1>2, <2>2 DEF UiThread, StartBuilding, UpdateSubscription, LoadArrived, WriteArrived,
                           BuildArrived
    <3>1. UNCHANGED <<minute, session, states, vtt, ticker, rolling>>
      OBVIOUS
    <3> QED
      BY <3>1
  <2> QED
    BY <2>1, <2>2
<1>3. ASSUME NEW K \in SUBSET Keys, SetSymbols(K)
      PROVE  VolumesOK'
  <2>1. ASSUME NEW k \in Keys, vtt'[k] # None
        PROVE  k \in K /\ vtt'[k] = vtt[k] /\ states'[k] = states[k] /\ k \in Shown
    BY <1>1, <1>3, <2>1 DEF SetSymbols
  <2> QED
    BY <1>1, <1>3, <2>1 DEF SetSymbols
<1>4. CASE Stop \/ SnapshotMinute \/ SnapshotRows
  BY <1>4 DEF Stop, SnapshotMinute, SnapshotRows
<1>5. CASE Roll
  <2>1. CASE CheckSession
    BY <1>1, <2>1 DEF CheckSession
  <2>2. CASE RollDate
    BY <2>2 DEF RollDate
  <2>3. CASE RollStates
    BY <2>3 DEF RollStates
  <2>4. CASE RollLoad
    BY <2>4 DEF RollLoad
  <2>5. CASE RollBaselines
    BY <2>5 DEF RollBaselines
  <2>6. CASE RollVolumes
    BY <1>1, <2>6 DEF RollVolumes
  <2>7. CASE RollMissing
    BY <2>7 DEF RollMissing
  <2>8. CASE SetMinute
    BY <1>1, <2>8 DEF SetMinute
  <2> QED
    BY <1>5, <2>1, <2>2, <2>3, <2>4, <2>5, <2>6, <2>7, <2>8 DEF Roll
<1>6. CASE Builders
  <2>1. UNCHANGED <<minute, session, states, vtt, ticker, rolling>>
    BY <1>6 DEF Builders, CaptureSession, Build, Lookup, FetchLimited, FetchFails, FetchSaves,
                CompareSession, WriteBuilt
  <2> QED
    BY <2>1
<1>7. CASE OpenSession
  BY <1>7 DEF OpenSession
<1>8. ASSUME NEW k \in Keys, Tick(k)
      PROVE  VolumesOK'
  BY <1>1, <1>8 DEF Tick, ClockOK
<1>9. CASE UNCHANGED vars
  BY <1>9 DEF vars
<1> QED
  BY <1>2, <1>3, <1>4, <1>5, <1>6, <1>7, <1>8, <1>9 DEF Next

answerVars == <<session, states, baseline, fruitless, setter, arrived, ticker, rolling>>

\* A build that takes a step answers for the symbol it answered for.
LEMMA BuildGoesOn ==
  ASSUME BuildsOK, UNCHANGED <<answerVars, batches>>,
         NEW t \in tasks, NEW u, tasks' = (tasks \ {t}) \cup {u},
         u.key = t.key, u.session = t.session, u.object \in {t.object, states[t.key]}
  PROVE  BuildsOK'
<1> SUFFICES ASSUME session # None, NEW k \in Shown
             PROVE  AnsweredFor(k)'
  BY DEF BuildsOK, Shown, answerVars
<1>1. AnsweredFor(k)
  BY DEF BuildsOK
<1>2. Pending(k) => Pending(k)'
  BY DEF Pending, answerVars
<1> QED
  BY <1>1, <1>2 DEF AnsweredFor, Rolling, answerVars

\* A build that ends was for nobody, or left a baseline or the word that there is none.
LEMMA BuildEnds ==
  ASSUME BuildsOK,
         UNCHANGED <<session, states, setter, arrived, ticker, rolling, batches>>,
         fruitless \subseteq fruitless',
         \A k \in Shown : baseline[k] # None => baseline'[k] # None,
         NEW t \in tasks, tasks' = tasks \ {t},
         \/ t.key \notin Shown
         \/ t.session # session
         \/ t.object \notin {NoObject, states[t.key]}
         \/ baseline'[t.key] # None
         \/ t.key \in fruitless'
  PROVE  BuildsOK'
<1> SUFFICES ASSUME session # None, NEW k \in Shown
             PROVE  AnsweredFor(k)'
  BY DEF BuildsOK, Shown
<1>1. AnsweredFor(k)
  BY DEF BuildsOK
<1>2. Pending(k) => Pending(k)' \/ baseline'[k] # None \/ k \in fruitless'
  BY DEF Pending
<1> QED
  BY <1>1, <1>2 DEF AnsweredFor, Rolling

\* Whoever answered for a symbol has handed it on: to a thread, to the table of the
\* builds that ended in vain, or to the next step of the switch or the roll.
LEMMA BuildsKept == TypeOK /\ BuildsOK /\ [Next]_vars => BuildsOK'
<1> SUFFICES ASSUME TypeOK, BuildsOK, [Next]_vars
             PROVE  BuildsOK'
  OBVIOUS
<1> USE RvolAssumption
    DEF Builds, BuildsOK, AnsweredFor, Pending, Rolling, Shown, sessionVars, tickerVars,
        setterVars, buildVars, objectVars
<1>1. /\ states \in [Keys -> {NoObject} \cup Generations]
      /\ baseline \in [Keys -> NoneOrSession]
      /\ arrived \subseteq Keys
      /\ \A s \in Sessions : s # None
      /\ \A g \in Generations : g # NoObject
  BY DEF TypeOK, Sessions, None, Generations, NoObject
<1>2. CASE UiThread
  <2>1. CASE Start
    BY <2>1 DEF Start
  <2>2. CASE StartBuilding
    BY <2>2 DEF StartBuilding, Started, Missing
  <2>3. CASE UpdateSubscription
    BY <2>3 DEF UpdateSubscription
  <2>4. CASE LoadArrived
    BY <2>4 DEF LoadArrived
  <2>5. CASE WriteArrived
    BY <1>1, <2>5 DEF WriteArrived, TypeOK
  <2>6. CASE BuildArrived
    <3> SUFFICES ASSUME session # None, NEW k \in Shown
                 PROVE  AnsweredFor(k)'
      BY <2>6 DEF BuildArrived
    <3>1. AnsweredFor(k)
      OBVIOUS
    <3>2. batches \subseteq batches'
      BY <2>6 DEF BuildArrived, Started
    <3>3. k \in arrived /\ baseline[k] = None => \E K \in batches' : k \in K
      BY <1>1, <2>6 DEF BuildArrived, Started, Missing
    <3>4. Pending(k) => Pending(k)'
      BY <2>6, <3>2 DEF BuildArrived
    <3> QED
      BY <2>6, <3>1, <3>3, <3>4 DEF BuildArrived
  <2> QED
    BY <1>2, <2>1, <2>2, <2>3, <2>4, <2>5, <2>6 DEF UiThread
<1>3. ASSUME NEW K \in SUBSET Keys, SetSymbols(K)
      PROVE  BuildsOK'
  <2> SUFFICES ASSUME session # None, NEW k \in Shown'
               PROVE  AnsweredFor(k)'
    BY <1>3 DEF SetSymbols
  <2>1. k \in K
    BY <1>1, <1>3 DEF SetSymbols
  <2>2. CASE k \in Shown
    BY <1>3, <2>1, <2>2 DEF SetSymbols
  <2>3. CASE k \notin Shown
    BY <1>3, <2>1, <2>3 DEF SetSymbols
  <2> QED
    BY <2>2, <2>3
<1>4. CASE Stop \/ SnapshotMinute \/ SnapshotRows
  BY <1>4 DEF Stop, SnapshotMinute, SnapshotRows
<1>5. CASE Roll
  <2>1. CASE CheckSession
    BY <2>1 DEF CheckSession
  <2>2. CASE RollDate
    BY <2>2 DEF RollDate
  <2>3. CASE RollStates
    BY <2>3 DEF RollStates
  <2>4. CASE RollLoad
    BY <2>4 DEF RollLoad
  <2>5. CASE RollBaselines
    BY <1>1, <2>5 DEF RollBaselines
  <2>6. CASE RollVolumes
    BY <2>6 DEF RollVolumes
  <2>7. CASE RollMissing
    <3> SUFFICES ASSUME session # None, NEW k \in Shown
                 PROVE  AnsweredFor(k)'
      BY <2>7 DEF RollMissing
    <3>1. AnsweredFor(k)
      OBVIOUS
    <3>2. batches \subseteq batches'
      BY <2>7 DEF RollMissing, Started
    <3>3. Pending(k) => Pending(k)'
      BY <2>7, <3>2 DEF RollMissing
    <3>4. Rolling(k) /\ baseline[k] = None => \E K \in batches' : k \in K
      <4> SUFFICES ASSUME Rolling(k), baseline[k] = None
                   PROVE  \E K \in batches' : k \in K
        OBVIOUS
      <4> DEFINE left == {o[1] : o \in {p \in rolling : IF IsShown(p) THEN baseline[p[1]] = None
                                                     ELSE p[1] \notin rollCached}}
      <4>1. k \in left
        BY DEF IsShown
      <4>2. batches' = Started(left)
        BY <2>7 DEF RollMissing
      <4> HIDE DEF left
      <4> QED
        BY <4>1, <4>2 DEF Started
    <3> HIDE DEF Rolling
    <3> QED
      BY <2>7, <3>1, <3>3, <3>4 DEF RollMissing
  <2>8. CASE SetMinute
    BY <2>8 DEF SetMinute
  <2> QED
    BY <1>5, <2>1, <2>2, <2>3, <2>4, <2>5, <2>6, <2>7, <2>8 DEF Roll
<1>6. ASSUME NEW K \in batches, CaptureSession(K)
      PROVE  BuildsOK'
  <2> SUFFICES ASSUME session # None, NEW k \in Shown
               PROVE  AnsweredFor(k)'
    BY <1>6 DEF CaptureSession
  <2>1. AnsweredFor(k)
    OBVIOUS
  <2>2. tasks \subseteq tasks' /\ \A L \in batches : L # K => L \in batches'
    BY <1>6 DEF CaptureSession
  <2>3. k \in K => Task(k, session) \in tasks'
    BY <1>6 DEF CaptureSession
  <2>4. Pending(k) => Pending(k)'
    BY <1>6, <2>2, <2>3 DEF CaptureSession, Task
  <2> HIDE DEF Pending
  <2> QED
    BY <1>6, <2>1, <2>4 DEF CaptureSession
<1>7. ASSUME NEW t \in tasks, Build(t)
      PROVE  BuildsOK'
  <2>0. /\ t \in Builds
        /\ t.step = "lookup" <=> t.object = NoObject
    BY DEF TypeOK
  <2> USE DEF answerVars
  <2> HIDE DEF BuildsOK, AnsweredFor, Pending, Rolling
  <2>1. CASE Lookup(t)
    <3>1. CASE states[t.key] = NoObject
      BY <2>0, <2>1, <3>1, BuildEnds DEF Lookup, Finish
    <3>2. CASE states[t.key] # NoObject
      <4> DEFINE u == [t EXCEPT !.step = "fetch", !.object = states[t.key]]
      <4>1. u.key = t.key /\ u.session = t.session /\ u.object = states[t.key]
        BY <2>0
      <4>2. tasks' = (tasks \ {t}) \cup {u} /\ UNCHANGED <<answerVars, batches>>
        BY <2>1, <3>2 DEF Lookup, Advance
      <4> HIDE DEF u
      <4> QED
        BY <4>1, <4>2, BuildGoesOn
    <3> QED
      BY <3>1, <3>2
  <2>2. CASE FetchLimited(t)
    <3> DEFINE u == [t EXCEPT !.try = @ + 1]
    <3>1. u.key = t.key /\ u.session = t.session /\ u.object = t.object
      BY <2>0
    <3>2. tasks' = (tasks \ {t}) \cup {u} /\ UNCHANGED <<answerVars, batches>>
      BY <2>2 DEF FetchLimited, Advance
    <3> HIDE DEF u
    <3> QED
      BY <3>1, <3>2, BuildGoesOn
  <2>3. CASE FetchFails(t)
    BY <2>0, <2>3, BuildEnds DEF FetchFails, Finish, IsShown
  <2>4. CASE FetchSaves(t)
    <3> DEFINE u == [t EXCEPT !.step = "compare"]
    <3>1. u.key = t.key /\ u.session = t.session /\ u.object = t.object
      BY <2>0
    <3>2. tasks' = (tasks \ {t}) \cup {u} /\ UNCHANGED <<answerVars, batches>>
      BY <2>4 DEF FetchSaves, Advance
    <3> HIDE DEF u
    <3> QED
      BY <3>1, <3>2, BuildGoesOn
  <2>5. CASE CompareSession(t)
    <3>1. CASE session = t.session
      <4> DEFINE u == [t EXCEPT !.step = "write"]
      <4>1. u.key = t.key /\ u.session = t.session /\ u.object = t.object
        BY <2>0
      <4>2. tasks' = (tasks \ {t}) \cup {u} /\ UNCHANGED <<answerVars, batches>>
        BY <2>5, <3>1 DEF CompareSession, Advance
      <4> HIDE DEF u
      <4> QED
        BY <4>1, <4>2, BuildGoesOn
    <3>2. CASE session # t.session
      BY <2>0, <2>5, <3>2, BuildEnds DEF CompareSession, Finish
    <3> QED
      BY <3>1, <3>2
  <2>6. CASE WriteBuilt(t)
    BY <1>1, <2>0, <2>6, BuildEnds DEF WriteBuilt, Finish, IsShown
  <2> QED
    BY <1>7, <2>1, <2>2, <2>3, <2>4, <2>5, <2>6 DEF Build
<1>8. CASE OpenSession
  BY <1>8 DEF OpenSession
<1>9. ASSUME NEW k \in Keys, Tick(k)
      PROVE  BuildsOK'
  BY <1>9 DEF Tick
<1>10. CASE UNCHANGED vars
  BY <1>10 DEF vars
<1> QED
  BY <1>2, <1>3, <1>4, <1>5, <1>6, <1>7, <1>8, <1>9, <1>10 DEF Next, Builders

-----------------------------------------------------------------------------
\* The invariant holds throughout.
THEOREM Invariant == Spec => []RvolInv
<1>1. RvolInv /\ [Next]_vars => RvolInv'
  BY TypesKept, ClockKept, VolumesKept, BuildsKept DEF RvolInv
<1> QED
  BY InitRvol, <1>1, PTL DEF Spec

\* Whatever row a snapshot reads, it does not divide an older session's volume by
\* the baseline at a newer session's minute.
THEOREM NeverAFakeSpike == Spec => []NoFakeSpike
<1>1. RvolInv => NoFakeSpike
  <2> SUFFICES ASSUME RvolInv, NEW k \in Shown, vtt[k] # None
               PROVE  vtt[k] >= shown_minute
    BY DEF NoFakeSpike
  <2>1. shown_minute <= minute /\ minute <= vtt[k]
    BY DEF RvolInv, ClockOK, VolumesOK, Shown
  <2>2. shown_minute \in Int /\ minute \in Int /\ vtt[k] \in Int
    BY DEF RvolInv, TypeOK, NoneOrSession, None, Sessions, Shown
  <2> QED
    BY <2>1, <2>2
<1> QED
  BY <1>1, Invariant, PTL

\* The state is of its types, and no interleaving of a switch with a roll leaves a
\* shown symbol without a baseline that nobody is building.
THEOREM RvolAlwaysSound == Spec => []RvolSound
<1>1. RvolInv => RvolSound
  BY DEF RvolInv, BuildsOK, AnsweredFor, NobodyForgotten, RvolSound
<1> QED
  BY <1>1, Invariant, PTL

-----------------------------------------------------------------------------
(* The scanner: ScannerProofs, with the constants of Engines.               *)

LOCAL Prepared == INSTANCE ScannerProofs WITH
    LastDay <- ScanDays, MaxSwitches <- ScanSwitches,
    session <- scanned, states <- slots, switches <- changes

\* Whatever is switched, delivered, requeued or fails, and whenever the session
\* rolls over (Scanner.snapshot, set_symbols, DailyContextLoader): no history
\* holds a candle of today, no redraw skips a session, what is pending is
\* counted exactly, and no row is left without a history that somebody brings.
THEOREM ContextsAlwaysSound ==
  ASSUME Scan!ScannerAssumption PROVE Scan!Spec => []ContextsSound
<1>1. Prepared!ScannerAssumption
  BY DEF Scan!ScannerAssumption, Prepared!ScannerAssumption, Scan!IsFiniteSet, Prepared!IsFiniteSet
<1>2. Prepared!Spec => []Prepared!ContextsSound
  BY <1>1, Prepared!ContextsAlwaysSound
<1>3. Scan!Init => Prepared!Init
  BY DEF Prepared!Init, Scan!Init, Prepared!None, Scan!None, Prepared!NoContext, Scan!NoContext,
      Prepared!NoLoad, Scan!NoLoad, Prepared!Free, Scan!Free, Prepared!Slots, Scan!Slots,
      Prepared!Loaders, Scan!Loaders, Prepared!Filled, Scan!Filled, Prepared!Live, Scan!Live,
      Prepared!Jobs, Scan!Jobs, Prepared!Delivered, Scan!Delivered, Prepared!LatestSession,
      Scan!LatestSession, Prepared!ActiveSession, Scan!ActiveSession
<1>4. [Scan!Next]_(Scan!vars) => [Prepared!Next]_(Prepared!vars)
  BY DEF Prepared!ActiveSession, Scan!ActiveSession, Prepared!CheckCurrent, Scan!CheckCurrent,
      Prepared!Deliver, Scan!Deliver, Prepared!DeliverCached, Scan!DeliverCached,
      Prepared!Delivered, Scan!Delivered, Prepared!Done, Scan!Done, Prepared!Fetch, Scan!Fetch,
      Prepared!FetchFails, Scan!FetchFails, Prepared!FetchLimited, Scan!FetchLimited,
      Prepared!Filled, Scan!Filled, Prepared!Free, Scan!Free, Prepared!Jobs, Scan!Jobs,
      Prepared!LatestSession, Scan!LatestSession, Prepared!Live, Scan!Live, Prepared!LoadAdded,
      Scan!LoadAdded, Prepared!LoadStates, Scan!LoadStates, Prepared!LoadStopped,
      Scan!LoadStopped, Prepared!Loaded, Scan!Loaded, Prepared!Loaders, Scan!Loaders,
      Prepared!Next, Scan!Next, Prepared!NextDay, Scan!NextDay, Prepared!NoContext,
      Scan!NoContext, Prepared!NoLoad, Scan!NoLoad, Prepared!None, Scan!None, Prepared!Object,
      Scan!Object, Prepared!OpenSession, Scan!OpenSession, Prepared!ReadCache, Scan!ReadCache,
      Prepared!SetIndex, Scan!SetIndex, Prepared!SetPrevious, Scan!SetPrevious,
      Prepared!SetSession, Scan!SetSession, Prepared!SetSymbols, Scan!SetSymbols, Prepared!Slots,
      Scan!Slots, Prepared!SnapshotRows, Scan!SnapshotRows, Prepared!SnapshotSession,
      Scan!SnapshotSession, Prepared!Stop, Scan!Stop, Prepared!Switch, Scan!Switch,
      Prepared!Take, Scan!Take, Prepared!Tick, Scan!Tick, Prepared!Wanted, Scan!Wanted,
      Prepared!calendar, Scan!calendar, Prepared!engine, Scan!engine, Prepared!fetching,
      Scan!fetching, Prepared!history, Scan!history, Prepared!uiVars, Scan!uiVars, Prepared!vars,
      Scan!vars
<1>5. Prepared!ContextsSound => ContextsSound
  BY DEF Prepared!TypeOK, Scan!TypeOK, Prepared!PendingExact, Scan!PendingExact,
      Prepared!CountsToday, Scan!CountsToday, Prepared!NothingSkipped, Scan!NothingSkipped,
      Prepared!Carried, Scan!Carried, Prepared!Failed, Scan!Failed, Prepared!Behind, Scan!Behind,
      Prepared!NobodyForgotten, Scan!NobodyForgotten, Prepared!ContextsSound, Scan!ContextsSound,
      Prepared!Cardinality, Scan!Cardinality, Prepared!None, Scan!None, Prepared!NoContext,
      Scan!NoContext, Prepared!NoLoad, Scan!NoLoad, Prepared!Free, Scan!Free, Prepared!Slots,
      Scan!Slots, Prepared!Loaders, Scan!Loaders, Prepared!Filled, Scan!Filled, Prepared!Live,
      Scan!Live, ContextsSound
<1> QED
  BY <1>2, <1>3, <1>4, <1>5, PTL DEF Scan!Spec, Prepared!Spec

-----------------------------------------------------------------------------
(* The Chartink tab.  Its invariant ties the jobs of the loader to what was  *)
(* asked for, and the view to the versions that its stamp stands for.        *)

viewState == View!vars

\* What is kept of the n-th run; none of run 0.
ResultAt(n) == IF n = 0 THEN View!NoResult ELSE [at |-> n, rows |-> Lists[n]]

ViewJob == [symbol : Symbols, session : 1 .. ViewSessions, at : {"cached", "fetch", "over"}]

ViewTypes ==
    /\ seen \in 1 .. ViewSessions /\ contextSession \in 0 .. seen
    /\ result.at \in 0 .. Len(Lists) /\ result = ResultAt(result.at)
    /\ item.at \in 0 .. result.at /\ item = ResultAt(item.at)
    /\ requested \subseteq Symbols /\ DOMAIN contexts \subseteq requested
    /\ jobs \subseteq ViewJob
    /\ pane \in {"idle", "request", "enrich", "draw"}
    /\ moved \in BOOLEAN

\* The loader was given each stock that was asked for in the session once, and
\* none of a later session.
JobsApart ==
    /\ \A j \in jobs :
          /\ j.session <= contextSession
          /\ j.session = contextSession => j.symbol \in requested
    /\ \A s \in requested : \E j \in jobs : j.symbol = s /\ j.session = contextSession
    /\ \A j, k \in jobs : j.symbol = k.symbol /\ j.session = k.session => j = k

\* What is drawn, or is about to be, has been asked for.
AllAsked ==
    /\ pane # "enrich" => \A i \in DOMAIN view.rows : view.rows[i].symbol \in requested
    /\ pane = "enrich" => View!ToSet(item.rows) \subseteq requested

\* As long as no version moves, the view is that of the last result, or made of it.
ViewFollows ==
    ~moved =>
       /\ pane \in {"request", "enrich"} => item = result
       /\ pane \in {"idle", "draw"} /\ result.at # 0 =>
             view = [at |-> result.at,
                     rows |-> [i \in DOMAIN result.rows |-> View!Row(result.rows[i])]]

\* The order of a table follows from its signature.
OrderOf(signature) ==
    IF signature[2] = "none" THEN [i \in DOMAIN Lists[signature[1]] |-> i]
    ELSE View!SortedBy(signature[3], signature[2])

TableFollows ==
    /\ view.at \in 0 .. Len(Lists)
    /\ view.at # 0 => DOMAIN view.rows = DOMAIN Lists[view.at]
    /\ table = [signature |-> table.signature, order |-> table.order, extras |-> table.extras]
    /\ table = View!NoTable \/ table.order = OrderOf(table.signature)
    /\ pane = "idle" /\ view.at # 0 => table = View!Rebuilt(view)

ViewInv ==
    ViewTypes /\ View!ContextsOfSession /\ JobsApart /\ AllAsked /\ ViewFollows /\ TableFollows

LEMMA ResultRows ==
  ASSUME View!ViewAssumption, NEW n \in 0 .. Len(Lists)
  PROVE  /\ ResultAt(n).at = n
         /\ View!ToSet(ResultAt(n).rows) \subseteq Symbols
         /\ \A i \in DOMAIN ResultAt(n).rows :
               ResultAt(n).rows[i] \in View!ToSet(ResultAt(n).rows)
         /\ n # 0 => ResultAt(n).rows = Lists[n]
<1>1. CASE n = 0
  BY <1>1 DEF ResultAt, View!NoResult, View!ToSet
<1>2. CASE n # 0
  <2>1. n \in 1 .. Len(Lists) /\ Lists \in Seq(Seq(Symbols))
    BY <1>2 DEF View!ViewAssumption
  <2>2. Lists[n] \in Seq(Symbols)
    BY <2>1
  <2> QED
    BY <1>2, <2>2 DEF ResultAt, View!ToSet
<1> QED
  BY <1>1, <1>2

LEMMA ViewInit == ASSUME View!ViewAssumption, View!Init PROVE ViewInv
<1>1. ViewTypes
  <2>1. result.at = 0 /\ item.at = 0 /\ Len(Lists) \in Nat
    BY DEF View!Init, View!NoResult, View!ViewAssumption
  <2> QED
    BY <2>1 DEF View!Init, ViewTypes, ResultAt, View!ViewAssumption, View!NoResult
<1>2. View!ContextsOfSession /\ JobsApart
  BY DEF View!Init, View!ContextsOfSession, JobsApart
<1>3. AllAsked /\ ViewFollows
  BY DEF View!Init, AllAsked, ViewFollows, View!NoResult
<1>4. TableFollows
  <2>1. view.at = 0 /\ Len(Lists) \in Nat
    BY DEF View!Init, View!NoResult, View!ViewAssumption
  <2> QED
    BY <2>1 DEF View!Init, TableFollows, View!NoTable
<1> QED
  BY <1>1, <1>2, <1>3, <1>4 DEF ViewInv

\* What the loader and its workers do: a job goes on, and may deliver.
LEMMA DeliveryKeeps ==
  ASSUME View!ViewAssumption, ViewInv, NEW job \in jobs,
         jobs' \in {View!Becomes(job, "fetch"), View!Becomes(job, "over")},
         \/ UNCHANGED <<contexts, moved>>
         \/ \E score : View!Deliver(job, score),
         UNCHANGED <<seen, result, bands, contextSession, requested, pane, item, view, sort, table>>
  PROVE  ViewInv'
<1>1. PICK at \in {"fetch", "over"} : jobs' = View!Becomes(job, at)
  OBVIOUS
<1> DEFINE next == [job EXCEPT !.at = at]
<1>2. job \in ViewJob /\ next \in ViewJob /\ next.symbol = job.symbol /\ next.session = job.session
  BY DEF ViewInv, ViewTypes, ViewJob
<1>3. jobs' = (jobs \ {job}) \cup {next}
  BY <1>1 DEF View!Becomes
<1> HIDE DEF next
<1>4. JobsApart'
  BY <1>2, <1>3 DEF ViewInv, JobsApart
<1>5. /\ ViewTypes' /\ View!ContextsOfSession'
      /\ moved' = FALSE => moved = FALSE /\ contexts' = contexts
  <2>1. jobs' \subseteq ViewJob
    BY <1>2, <1>3 DEF ViewInv, ViewTypes
  <2>2. CASE UNCHANGED <<contexts, moved>>
    BY <2>1, <2>2 DEF ViewInv, ViewTypes, View!ContextsOfSession
  <2>3. ASSUME NEW score, View!Deliver(job, score), contextSession = job.session
        PROVE  ViewTypes' /\ View!ContextsOfSession' /\ moved' = TRUE
    <3>1. job.symbol \in requested
      BY <2>3 DEF ViewInv, JobsApart
    <3>2. /\ DOMAIN contexts' = DOMAIN contexts \cup {job.symbol}
          /\ \A s \in DOMAIN contexts' :
                contexts'[s] = IF s = job.symbol THEN [session |-> job.session, score |-> score]
                               ELSE contexts[s]
          /\ moved' = TRUE
      BY <2>3 DEF View!Deliver, View!Put
    <3>3. DOMAIN contexts' \subseteq requested
      BY <3>1, <3>2 DEF ViewInv, ViewTypes
    <3>4. ViewTypes'
      BY <2>1, <3>2, <3>3 DEF ViewInv, ViewTypes
    <3>5. View!ContextsOfSession'
      BY <2>3, <3>2 DEF ViewInv, View!ContextsOfSession
    <3> QED
      BY <3>2, <3>4, <3>5
  <2>4. ASSUME NEW score, View!Deliver(job, score), contextSession # job.session
        PROVE  UNCHANGED <<contexts, moved>>
    BY <2>4 DEF View!Deliver
  <2> QED
    BY <2>2, <2>3, <2>4
<1>6. ViewFollows'
  BY <1>5 DEF ViewInv, ViewFollows, View!Row, ViewTypes
<1>7. AllAsked' /\ TableFollows'
  BY DEF ViewInv, AllAsked, TableFollows, View!Rebuilt, View!Signature, View!VisibleRows
<1> QED
  BY <1>4, <1>5, <1>6, <1>7 DEF ViewInv

\* The service is told the session: the stocks that nobody asked for in it are.
LEMMA RequestKeeps ==
  ASSUME View!ViewAssumption, ViewInv, NEW today, View!EnsureContexts(today)
  PROVE  ViewInv'
<1> DEFINE rows == View!ToSet(item.rows)
           asked == IF contextSession # today THEN {} ELSE requested
           missing == rows \ asked
           new(s) == [symbol |-> s, session |-> today, at |-> "cached"]
<1>1. /\ pane = "request" /\ pane' = "enrich" /\ today \in {seen, contextSession} \ {0}
      /\ contextSession' = today
      /\ contexts' = IF contextSession # today THEN <<>> ELSE contexts
      /\ requested' = asked \cup missing
      /\ jobs' = jobs \cup {new(s) : s \in missing}
      /\ UNCHANGED <<seen, result, bands, moved, item, view, sort, table>>
  BY DEF View!EnsureContexts, View!Request
<1>2. rows \subseteq Symbols
  <2>1. item.at \in 0 .. Len(Lists) /\ item = ResultAt(item.at)
    BY DEF ViewInv, ViewTypes, View!ViewAssumption
  <2> QED
    BY <2>1, ResultRows
<1>3. /\ today \in 1 .. ViewSessions /\ today \in contextSession .. seen /\ contextSession \in Nat
      /\ seen \in 1 .. ViewSessions /\ ViewSessions \in Nat
  BY <1>1 DEF ViewInv, ViewTypes, View!ViewAssumption
<1>4. asked \subseteq Symbols /\ missing \subseteq Symbols /\ missing \cap asked = {}
      /\ rows \subseteq asked \cup missing
  BY <1>2 DEF ViewInv, ViewTypes
<1>5. \A s \in missing : new(s) \in ViewJob /\ new(s).symbol = s /\ new(s).session = today
  BY <1>3, <1>4 DEF ViewJob
<1>6. \A j \in jobs : j.session <= contextSession /\ j.session \in 1 .. ViewSessions
  BY DEF ViewInv, ViewTypes, JobsApart, ViewJob
<1>7. \A j \in jobs : j.session = today => contextSession = today
  BY <1>3, <1>6
<1>8. \A j \in jobs : j.session = today => j.symbol \in asked
  BY <1>7 DEF ViewInv, JobsApart
<1>9. \A s \in asked : \E j \in jobs : j.symbol = s /\ j.session = today
  BY DEF ViewInv, JobsApart
<1> HIDE DEF asked, missing, rows, new
<1>10. \A j \in jobs' : j \in jobs \/ \E s \in missing : j = new(s)
  BY <1>1
<1>11. JobsApart'
  <2>1. \A j \in jobs' : j.session <= today
    BY <1>3, <1>5, <1>6, <1>10
  <2>2. \A j \in jobs' : j.session = today => j.symbol \in asked \cup missing
    BY <1>5, <1>8, <1>10
  <2>3. \A s \in asked \cup missing : \E j \in jobs' : j.symbol = s /\ j.session = today
    BY <1>1, <1>5, <1>9
  <2>4. ASSUME NEW j \in jobs', NEW k \in jobs', j.symbol = k.symbol, j.session = k.session
        PROVE  j = k
    <3>1. CASE j \in jobs /\ k \in jobs
      BY <2>4, <3>1 DEF ViewInv, JobsApart
    <3>2. ASSUME NEW s \in missing, j = new(s) PROVE j = k
      BY <1>4, <1>5, <1>8, <1>10, <2>4, <3>2
    <3>3. ASSUME NEW s \in missing, k = new(s) PROVE j = k
      BY <1>4, <1>5, <1>8, <1>10, <2>4, <3>3
    <3> QED
      BY <1>10, <3>1, <3>2, <3>3
  <2> QED
    BY <1>1, <2>1, <2>2, <2>3, <2>4 DEF JobsApart
<1>12. DOMAIN contexts' \subseteq requested' /\ View!ContextsOfSession'
  <2>1. CASE contextSession # today
    BY <1>1, <2>1 DEF View!ContextsOfSession
  <2>2. CASE contextSession = today
    BY <1>1, <2>2 DEF View!ContextsOfSession, ViewInv, ViewTypes, asked
  <2> QED
    BY <2>1, <2>2
<1>13. ViewTypes'
  <2>1. jobs' \subseteq ViewJob
    BY <1>5, <1>10 DEF ViewInv, ViewTypes
  <2>2. contextSession' \in 0 .. seen'
    BY <1>1, <1>3
  <2>3. requested' \subseteq Symbols
    BY <1>1, <1>4
  <2> QED
    BY <1>1, <1>12, <2>1, <2>2, <2>3 DEF ViewInv, ViewTypes
<1>14. AllAsked'
  BY <1>1, <1>4 DEF AllAsked, rows
<1>15. ViewFollows'
  BY <1>1 DEF ViewInv, ViewFollows
<1>16. TableFollows'
  BY <1>1 DEF ViewInv, TableFollows
<1> QED
  BY <1>11, <1>12, <1>13, <1>14, <1>15, <1>16 DEF ViewInv

LEMMA EnrichKeeps == ASSUME View!ViewAssumption, ViewInv, View!Enrich PROVE ViewInv'
<1>1. /\ pane = "enrich" /\ pane' = "draw" /\ item' = View!NoResult /\ view' = View!View
      /\ UNCHANGED <<seen, result, bands, moved, contextSession, contexts, requested, jobs, sort,
                     table>>
  BY DEF View!Enrich, View!serviceVars
<1>2. item.at \in 0 .. Len(Lists) /\ item = ResultAt(item.at)
  BY DEF ViewInv, ViewTypes, View!ViewAssumption
<1>3. /\ view'.at = item.at /\ DOMAIN view'.rows = DOMAIN item.rows
      /\ view' = [at |-> item.at, rows |-> [i \in DOMAIN item.rows |-> View!Row(item.rows[i])]]
      /\ \A i \in DOMAIN item.rows : view'.rows[i].symbol = item.rows[i]
  BY <1>1 DEF View!View, View!Row
<1>4. ViewTypes'
  <2>1. item'.at = 0 /\ item' = ResultAt(item'.at) /\ result.at \in Nat
    BY <1>1 DEF View!NoResult, ResultAt, ViewInv, ViewTypes
  <2> QED
    BY <1>1, <2>1 DEF ViewInv, ViewTypes
<1>5. View!ContextsOfSession' /\ JobsApart'
  BY <1>1 DEF ViewInv, View!ContextsOfSession, JobsApart
<1>6. AllAsked'
  BY <1>1, <1>2, <1>3, ResultRows DEF ViewInv, AllAsked
<1>7. ViewFollows'
  <2>1. ~moved => item = result
    BY <1>1 DEF ViewInv, ViewFollows
  <2> QED
    BY <1>1, <1>3, <2>1 DEF ViewFollows, View!Row
<1>8. TableFollows'
  BY <1>1, <1>2, <1>3, ResultRows DEF ViewInv, TableFollows
<1> QED
  BY <1>4, <1>5, <1>6, <1>7, <1>8 DEF ViewInv

LEMMA RefreshKeeps == ASSUME View!ViewAssumption, ViewInv, View!RefreshView PROVE ViewInv'
<1>1. /\ pane = "idle" /\ moved' = FALSE
      /\ pane' = IF ~moved \/ result.at = 0 THEN "draw" ELSE "request"
      /\ item' = IF moved THEN result ELSE View!NoResult
      /\ view' = IF moved /\ result.at = 0 THEN View!NoResult ELSE view
      /\ UNCHANGED <<seen, result, bands, contextSession, contexts, requested, jobs, sort,
                     table>>
  BY DEF View!RefreshView, View!serviceVars
<1>2. ViewTypes'
  <2>1. item'.at \in 0 .. result.at /\ item' = ResultAt(item'.at)
    BY <1>1 DEF ViewInv, ViewTypes, View!NoResult, ResultAt
  <2> QED
    BY <1>1, <2>1 DEF ViewInv, ViewTypes
<1>3. View!ContextsOfSession' /\ JobsApart'
  BY <1>1 DEF ViewInv, View!ContextsOfSession, JobsApart
<1>4. AllAsked'
  BY <1>1 DEF ViewInv, AllAsked, View!NoResult
<1>5. ViewFollows'
  BY <1>1 DEF ViewInv, ViewFollows, View!Row, ViewTypes
<1>6. TableFollows'
  <2>1. view'.at \in 0 .. Len(Lists) /\ (view'.at # 0 => view' = view)
    BY <1>1 DEF ViewInv, TableFollows, View!NoResult, View!ViewAssumption
  <2> QED
    BY <1>1, <2>1 DEF ViewInv, TableFollows
<1> QED
  BY <1>2, <1>3, <1>4, <1>5, <1>6 DEF ViewInv

\* A table that keeps its signature keeps its order.
LEMMA DrawKeeps == ASSUME View!ViewAssumption, ViewInv, View!DrawTable PROVE ViewInv'
<1>1. /\ pane = "draw" /\ pane' = "idle"
      /\ table' = IF view.at = 0 THEN View!NoTable
                  ELSE IF View!Signature(view) # table.signature THEN View!Rebuilt(view)
                  ELSE [table EXCEPT !.extras = View!Extras(view)]
      /\ UNCHANGED <<seen, result, bands, moved, contextSession, contexts, requested, jobs, item,
                     view, sort>>
  BY DEF View!DrawTable, View!serviceVars
<1>2. ViewTypes' /\ View!ContextsOfSession' /\ JobsApart' /\ AllAsked'
  BY <1>1 DEF ViewInv, ViewTypes, View!ContextsOfSession, JobsApart, AllAsked
<1>3. ViewFollows'
  BY <1>1 DEF ViewInv, ViewFollows, View!Row
<1>4. view.at # 0 => View!VisibleRows(view) = OrderOf(View!Signature(view))
  BY DEF ViewInv, TableFollows, View!VisibleRows, OrderOf, View!Signature
<1>5. View!Signature(view) # <<>>
  BY DEF View!Signature
<1>6. view.at # 0 => table' = View!Rebuilt(view)
  <2>1. CASE view.at # 0 /\ View!Signature(view) = table.signature
    <3>1. table # View!NoTable
      BY <1>5, <2>1 DEF View!NoTable
    <3>2. table.order = View!VisibleRows(view)
      BY <1>4, <2>1, <3>1 DEF ViewInv, TableFollows
    <3>3. table = [signature |-> table.signature, order |-> table.order, extras |-> table.extras]
      BY DEF ViewInv, TableFollows
    <3>4. [table EXCEPT !.extras = View!Extras(view)]
          = [signature |-> table.signature, order |-> table.order, extras |-> View!Extras(view)]
      BY <3>3
    <3> QED
      BY <1>1, <2>1, <3>2, <3>4 DEF View!Rebuilt
  <2> QED
    BY <1>1, <2>1
<1>7. TableFollows'
  <2>1. View!Rebuilt(view)' = View!Rebuilt(view)
    BY <1>1 DEF View!Rebuilt, View!Signature, View!VisibleRows
  <2>2. CASE view.at = 0
    BY <1>1, <2>2 DEF ViewInv, TableFollows, View!NoTable
  <2>3. CASE view.at # 0
    <3>1. /\ table' = [signature |-> View!Signature(view), order |-> View!VisibleRows(view),
                       extras |-> View!Extras(view)]
          /\ table'.order = OrderOf(table'.signature)
      BY <1>4, <1>6, <2>3 DEF View!Rebuilt
    <3> QED
      BY <1>1, <1>6, <2>1, <2>3, <3>1 DEF ViewInv, TableFollows
  <2> QED
    BY <2>2, <2>3
<1> QED
  BY <1>2, <1>3, <1>7 DEF ViewInv

\* The order that is chosen, a run, a download, and the opening of a session.
LEMMA AroundKeeps ==
  ASSUME View!ViewAssumption, ViewInv,
         \/ View!CycleSort \/ View!Ran \/ View!Downloaded \/ View!Opens \/ UNCHANGED viewState
  PROVE  ViewInv'
<1>1. CASE View!CycleSort
  BY <1>1
  DEF View!CycleSort, View!serviceVars, ViewInv, ViewTypes, View!ContextsOfSession, JobsApart,
      AllAsked, ViewFollows, View!Row, TableFollows
<1>2. CASE View!Ran
  <2>1. /\ result' = ResultAt(result.at + 1) /\ result.at + 1 \in 1 .. Len(Lists)
        /\ result'.at = result.at + 1 /\ moved' = TRUE
    BY <1>2 DEF View!Ran, ViewInv, ViewTypes, ResultAt, View!ViewAssumption
  <2>2. UNCHANGED <<seen, bands, contextSession, contexts, requested, jobs, pane, item, view, sort,
                    table>>
    BY <1>2 DEF View!Ran, View!serviceVars, View!paneVars
  <2>3. ViewTypes'
    BY <2>1, <2>2 DEF ViewInv, ViewTypes
  <2> QED
    BY <2>1, <2>2, <2>3
    DEF ViewInv, View!ContextsOfSession, JobsApart, AllAsked, ViewFollows, TableFollows,
        View!Rebuilt, View!Signature, View!VisibleRows
<1>3. CASE View!Downloaded
  BY <1>3
  DEF View!Downloaded, ViewInv, ViewTypes, View!ContextsOfSession, JobsApart, AllAsked,
      ViewFollows, TableFollows, View!Rebuilt, View!Signature, View!VisibleRows,
      View!serviceVars, View!paneVars
<1>4. CASE View!Opens
  <2>1. seen' \in 1 .. ViewSessions /\ contextSession' \in 0 .. seen'
    BY <1>4 DEF View!Opens, ViewInv, ViewTypes, View!ViewAssumption, View!serviceVars
  <2> QED
    BY <1>4, <2>1
    DEF View!Opens, ViewInv, ViewTypes, View!ContextsOfSession, JobsApart, AllAsked, ViewFollows,
        TableFollows, View!Row, View!Rebuilt, View!Signature, View!VisibleRows,
        View!serviceVars, View!paneVars
<1>5. CASE UNCHANGED viewState
  BY <1>5
  DEF viewState, View!vars, View!serviceVars, View!paneVars, ViewInv, ViewTypes,
      View!ContextsOfSession, JobsApart, AllAsked, ViewFollows, TableFollows, View!Row,
      View!Rebuilt, View!Signature, View!VisibleRows
<1> QED
  BY <1>1, <1>2, <1>3, <1>4, <1>5

LEMMA ViewStep ==
  ASSUME View!ViewAssumption, ViewInv, [View!Next]_viewState
  PROVE  ViewInv'
<1>1. ASSUME NEW j \in jobs, NEW s, View!Cached(j, s) \/ View!Fetched(j, s) \/ View!FetchFails(j)
      PROVE  ViewInv'
  BY <1>1, DeliveryKeeps
  DEF View!Cached, View!Fetched, View!FetchFails, View!paneVars
<1> QED
  BY <1>1, RequestKeeps, EnrichKeeps, RefreshKeeps, DrawKeeps, AroundKeeps DEF View!Next

\* ViewInv holds of every behaviour of the tab, the service and the loader.
THEOREM ViewInvariant == ASSUME View!ViewAssumption PROVE View!Spec => []ViewInv
BY ViewInit, ViewStep, PTL DEF View!Spec, viewState

\* The Chartink tab (ChartinkService.view, _ensure_contexts, _deliver, and the
\* pane's _draw_table), whatever is delivered, run or downloaded while it draws:
\* no context of an earlier session is shown, nothing that came is left out once
\* nothing moves, the table is the one its view would give anew, and each stock
\* was asked for once in the session.
THEOREM ViewAlwaysSound == ASSUME View!ViewAssumption PROVE View!Spec => []ViewSound
<1>1. ASSUME ViewInv PROVE View!TypeOK
  <2>1. item \in {result, View!NoResult} \/ item.at < result.at
    BY <1>1 DEF ViewInv, ViewTypes, View!ViewAssumption
  <2>2. \A j \in jobs : j.symbol \in Symbols /\ j.session \in 1 .. seen
    BY <1>1 DEF ViewInv, ViewTypes, JobsApart, ViewJob
  <2> QED
    BY <1>1, <2>1, <2>2 DEF ViewInv, ViewTypes, View!TypeOK
<1>2. ASSUME ViewInv PROVE View!DrawnIsKnown
  BY <1>2 DEF ViewInv, ViewTypes, ViewFollows, View!DrawnIsKnown
<1>3. ASSUME ViewInv PROVE View!AskedOnce
  <2> SUFFICES ASSUME pane = "idle", NEW i \in DOMAIN view.rows
               PROVE  View!Cardinality({j \in jobs : /\ j.symbol = view.rows[i].symbol
                                                     /\ j.session = contextSession}) = 1
    BY DEF View!AskedOnce
  <2>1. PICK k \in jobs : k.symbol = view.rows[i].symbol /\ k.session = contextSession
    BY <1>3 DEF ViewInv, AllAsked, JobsApart
  <2>2. {j \in jobs : j.symbol = view.rows[i].symbol /\ j.session = contextSession} = {k}
    BY <1>3, <2>1 DEF ViewInv, JobsApart
  <2>3. Cardinality({k}) = 1
    BY FS_Singleton
  <2>4. View!Cardinality({k}) = Cardinality({k})
    BY DEF View!Cardinality, Cardinality
  <2> QED
    BY <2>2, <2>3, <2>4
<1>4. ASSUME ViewInv PROVE ViewSound
  BY <1>1, <1>2, <1>3, <1>4 DEF ViewInv, TableFollows, View!TableIsView, ViewSound
<1> QED
  BY <1>4, ViewInvariant, PTL
=============================================================================
