------------------------- MODULE MarketDataHubProofs -------------------------
(***************************************************************************)
(* Proofs about MarketDataHub, for every set of consumers and keys, every  *)
(* limit and either behaviour of the SDK.                                  *)
(***************************************************************************)
EXTENDS MarketDataHub, FiniteSetTheorems, TLAPS

\* A step keeps every variable in its range.
LEMMA TypeStep == TypeOK /\ [Next]_vars => TypeOK'
<1> SUFFICES ASSUME TypeOK, [Next]_vars PROVE TypeOK'
  OBVIOUS
<1> USE DEF TypeOK, Statuses, Feeds, NoFeed, Nothing, Wanted
<1> USE DEF vars, lockVars, jobVars, closeVars, socketVars, eventVars
<1>1. ASSUME NEW c \in Consumers, NEW K \in SUBSET Keys, Subscribe(c, K)
      PROVE TypeOK'
  BY <1>1 DEF Subscribe, Counted, NewlyNeeded
<1>2. ASSUME NEW c \in Consumers, NEW K \in SUBSET Keys, Update(c, K)
      PROVE TypeOK'
  BY <1>2 DEF Update, Counted, NewlyNeeded, NoLongerNeeded
<1>3. ASSUME NEW c \in Consumers, Close(c) PROVE TypeOK'
  BY <1>3 DEF Close, Counted, NoLongerNeeded
<1>4. CASE HubClose
  BY <1>4 DEF HubClose, Live
<1>5. CASE Rebuild
  BY <1>5 DEF Rebuild, AfterRebuild, RoutesOf, Live
<1>6. CASE SendUnsubscribe
  BY <1>6 DEF SendUnsubscribe
<1>7. CASE SendSubscribe
  BY <1>7 DEF SendSubscribe
<1>8. ASSUME NEW ok \in BOOLEAN, StartFeed(ok) PROVE TypeOK'
  BY <1>8 DEF StartFeed
<1>9. CASE StopFeed
  <2>1. CASE victim # NoFeed /\ phase[victim] = "started"
    <3>1. victim \in Feeds
      BY <2>1
    <3>2. open' \in SUBSET Feeds
      BY <1>9, <2>1 DEF StopFeed
    <3>3. lost' \in {lost, lost \cup {victim}}
      BY <1>9, <2>1 DEF StopFeed
    <3>4. lost' \in SUBSET Feeds
      BY <3>1, <3>3
    <3> QED
      BY <1>9, <2>1, <3>1, <3>2, <3>4 DEF StopFeed
  <2>2. CASE ~(victim # NoFeed /\ phase[victim] = "started")
    BY <1>9, <2>2 DEF StopFeed
  <2> QED
    BY <2>1, <2>2
<1>10. CASE MarkClosed
  BY <1>10 DEF MarkClosed
<1>11. ASSUME NEW g \in Feeds, OnConnected(g) PROVE TypeOK'
  BY <1>11 DEF OnConnected
<1>12. ASSUME NEW g \in Feeds, Capture(g) PROVE TypeOK'
  BY <1>12 DEF Capture
<1>13. ASSUME NEW g \in Feeds, Resend(g) PROVE TypeOK'
  BY <1>13 DEF Resend
<1>14. ASSUME NEW g \in Feeds, OnDisconnected(g) PROVE TypeOK'
  BY <1>14 DEF OnDisconnected
<1>15. ASSUME NEW g \in Feeds, Open(g) PROVE TypeOK'
  <2>1. PICK resent \in SUBSET Keys : wire' = [wire EXCEPT ![g] = resent]
    BY <1>15 DEF Open
  <2> QED
    BY <1>15, <2>1 DEF Open
<1>16. ASSUME NEW g \in Feeds, Drop(g) PROVE TypeOK'
  BY <1>16 DEF Drop
<1>17. CASE UNCHANGED vars
  BY <1>17
<1> QED
  BY <1>1, <1>2, <1>3, <1>4, <1>5, <1>6, <1>7, <1>8, <1>9, <1>10, <1>11,
     <1>12, <1>13, <1>14, <1>15, <1>16, <1>17 DEF Next, LockHolder, Callback

\* Type correctness: every variable stays in its range through every call,
\* callback, drop and shutdown.
THEOREM TypeCorrect == Spec => []TypeOK
<1>1. Init => TypeOK
  BY HubAssumption DEF Init, TypeOK, Statuses, Feeds, NoFeed, Nothing
<1> QED
  BY <1>1, TypeStep, PTL DEF Spec

-----------------------------------------------------------------------------
(* What the reference counts, the sockets and the lock holder keep true     *)
(* together: the strengthening from which the safety properties follow.    *)

\* Only a live consumer holds keys, and a running subscribe() is for a live one.
OnlyLiveHold ==
    /\ \A c \in Consumers : status[c] \notin {"live", "orphan"} => keys[c] = {}
    /\ opener # Nobody => status[opener] = "live"

\* What the lock holder still has to do is consistent with where it is.
JobConsistent ==
    /\ pc = "free" => added = {} /\ removed = {} /\ opener = Nobody
    /\ pc = "start" => added = {} /\ removed = {} /\ feed = NoFeed /\ opener # Nobody
    /\ pc \in {"unsubscribe", "subscribe"} => feed # NoFeed /\ opener = Nobody
    /\ pc = "subscribe" => removed = {}
    /\ added \subseteq Wanted
    /\ removed \cap Wanted = {}
    /\ pc # "rebuild" => routes = [k \in Keys |-> RoutesOf(k)]

\* Only a feed that was made has a socket or runs a callback.
FeedsConsistent ==
    /\ feed \in {NoFeed, made}
    /\ \A g \in Feeds : g > made => phase[g] = "none" /\ cb[g] = "idle"
    /\ \A g \in open : phase[g] = "started"

\* While the callback is about to resend, its copy covers what the socket lacks.
ResendCovers ==
    (feed # NoFeed /\ cb[feed] = "send") =>
        /\ captured[feed].feed = feed
        /\ feed \in open => Wanted \subseteq wire[feed] \cup added \cup captured[feed].keys

\* A socket that is not open streams nothing.
ClosedSilent == \A g \in Feeds \ open : wire[g] = {}

HubInv ==
    /\ TypeOK
    /\ OnlyLiveHold
    /\ RefcountsExact
    /\ WithinCapacity
    /\ JobConsistent
    /\ FeedsConsistent
    /\ ClosedSilent
    /\ WantedStreamed
    /\ ResendCovers

-----------------------------------------------------------------------------
\* _retain and _release change which keys are wanted as _check_capacity foresees.
LEMMA CountedWanted ==
    ASSUME TypeOK, NEW K \in SUBSET Keys, NEW L \in SUBSET Keys, K \cap L = {},
           refcounts' = Counted(K, L)
    PROVE  Wanted' = (Wanted \cup K) \ NoLongerNeeded(L)
  BY DEF TypeOK, Counted, Wanted, NoLongerNeeded

\* Which keys are wanted after each call.
LEMMA WantedAfter ==
    ASSUME TypeOK
    PROVE  /\ \A c \in Consumers, K \in SUBSET Keys :
                 Subscribe(c, K) => Wanted' = (Wanted \cup K) \ NoLongerNeeded({})
           /\ \A c \in Consumers, K \in SUBSET Keys :
                 Update(c, K) =>
                    Wanted' = (Wanted \cup (K \ keys[c])) \ NoLongerNeeded(keys[c] \ K)
           /\ \A c \in Consumers :
                 Close(c) => Wanted' = Wanted \ NoLongerNeeded(keys[c])
<1>1. ASSUME NEW c \in Consumers, NEW K \in SUBSET Keys, Subscribe(c, K)
      PROVE  Wanted' = (Wanted \cup K) \ NoLongerNeeded({})
  BY <1>1, CountedWanted, ZenonT(40) DEF Subscribe
<1>2. ASSUME NEW c \in Consumers, NEW K \in SUBSET Keys, Update(c, K)
      PROVE  Wanted' = (Wanted \cup (K \ keys[c])) \ NoLongerNeeded(keys[c] \ K)
  <2>1. keys[c] \in SUBSET Keys
    BY DEF TypeOK
  <2> QED
    BY <1>2, <2>1, CountedWanted DEF Update
<1>3. ASSUME NEW c \in Consumers, Close(c)
      PROVE  Wanted' = Wanted \ NoLongerNeeded(keys[c])
  <2>1. keys[c] \in SUBSET Keys
    BY DEF TypeOK
  <2>2. Wanted' = (Wanted \cup {}) \ NoLongerNeeded(keys[c])
    BY <1>3, <2>1, CountedWanted DEF Close
  <2> QED
    BY <2>2
<1> QED
  BY <1>1, <1>2, <1>3

\* The consumers of a key are a finite set, so their number is a natural.
LEMMA RoutesFinite ==
    ASSUME NEW k \in Keys
    PROVE  IsFiniteSet(RoutesOf(k)) /\ Cardinality(RoutesOf(k)) \in Nat
<1>1. RoutesOf(k) \subseteq Consumers
  BY DEF RoutesOf, Live
<1> QED
  BY <1>1, FS_Subset, FS_CardinalityType, HubAssumption

\* Cardinality when one element joins or leaves a finite set.
LEMMA CardinalityPlusOne ==
    ASSUME NEW S, NEW x, IsFiniteSet(S), x \notin S
    PROVE  Cardinality(S \cup {x}) = Cardinality(S) + 1
  BY FS_AddElement

\* ... and when one leaves.
LEMMA CardinalityMinusOne ==
    ASSUME NEW S, NEW x, IsFiniteSet(S), x \in S
    PROVE  /\ Cardinality(S \ {x}) = Cardinality(S) - 1
           /\ Cardinality(S) > 0
<1>1. Cardinality(S \ {x}) = Cardinality(S) - 1
  BY FS_RemoveElement
<1>2. Cardinality(S) # 0
  BY FS_EmptySet
<1> QED
  BY <1>1, <1>2, FS_CardinalityType

\* Reference counts follow the consumers through every call.
LEMMA CountsStep ==
    TypeOK /\ OnlyLiveHold /\ RefcountsExact /\ JobConsistent /\ [Next]_vars
        => OnlyLiveHold' /\ RefcountsExact'
<1> SUFFICES ASSUME TypeOK, OnlyLiveHold, RefcountsExact, JobConsistent, [Next]_vars
             PROVE  OnlyLiveHold' /\ RefcountsExact'
  OBVIOUS
<1> USE DEF TypeOK, OnlyLiveHold, Statuses
<1>1. ASSUME NEW c \in Consumers, NEW K \in SUBSET Keys, Subscribe(c, K)
      PROVE  OnlyLiveHold' /\ RefcountsExact'
  <2> USE <1>1 DEF Subscribe
  <2>1. OnlyLiveHold'
    OBVIOUS
  <2>2. ASSUME NEW k \in Keys PROVE refcounts'[k] = Cardinality(RoutesOf(k))'
    <3>1. CASE k \in K
      <4>1. RoutesOf(k)' = RoutesOf(k) \cup {c} /\ c \notin RoutesOf(k)
        BY <3>1 DEF RoutesOf, Live
      <4>2. Cardinality(RoutesOf(k)') = Cardinality(RoutesOf(k)) + 1
        BY ONLY <4>1, RoutesFinite, CardinalityPlusOne
      <4> QED
        BY <4>2, <3>1 DEF RefcountsExact, Counted
    <3>2. CASE k \notin K
      <4>1. RoutesOf(k)' = RoutesOf(k)
        BY <3>2 DEF RoutesOf, Live
      <4> QED
        BY <4>1, <3>2 DEF RefcountsExact, Counted
    <3> QED
      BY <3>1, <3>2
  <2> QED
    BY <2>1, <2>2 DEF RefcountsExact
<1>2. ASSUME NEW c \in Consumers, NEW K \in SUBSET Keys, Update(c, K)
      PROVE  OnlyLiveHold' /\ RefcountsExact'
  <2> USE <1>2 DEF Update
  <2>1. OnlyLiveHold'
    OBVIOUS
  <2>2. ASSUME NEW k \in Keys PROVE refcounts'[k] = Cardinality(RoutesOf(k))'
    <3>1. CASE k \in K \ keys[c]
      <4>1. RoutesOf(k)' = RoutesOf(k) \cup {c} /\ c \notin RoutesOf(k)
        BY <3>1 DEF RoutesOf, Live
      <4>2. Cardinality(RoutesOf(k)') = Cardinality(RoutesOf(k)) + 1
        BY ONLY <4>1, RoutesFinite, CardinalityPlusOne
      <4> QED
        BY <4>2, <3>1 DEF RefcountsExact, Counted
    <3>2. CASE k \in keys[c] \ K
      <4>1. RoutesOf(k)' = RoutesOf(k) \ {c} /\ c \in RoutesOf(k)
        BY <3>2 DEF RoutesOf, Live
      <4>2. /\ Cardinality(RoutesOf(k)') = Cardinality(RoutesOf(k)) - 1
            /\ Cardinality(RoutesOf(k)) > 0
        BY ONLY <4>1, RoutesFinite, CardinalityMinusOne
      <4> QED
        BY <4>2, <3>2, RoutesFinite DEF RefcountsExact, Counted
    <3>3. CASE k \notin K \ keys[c] /\ k \notin keys[c] \ K
      <4>1. RoutesOf(k)' = RoutesOf(k)
        BY <3>3 DEF RoutesOf, Live
      <4> QED
        BY <4>1, <3>3 DEF RefcountsExact, Counted
    <3> QED
      BY <3>1, <3>2, <3>3
  <2> QED
    BY <2>1, <2>2 DEF RefcountsExact
<1>3. ASSUME NEW c \in Consumers, Close(c)
      PROVE  OnlyLiveHold' /\ RefcountsExact'
  <2> USE <1>3 DEF Close
  <2>1. OnlyLiveHold'
    BY DEF JobConsistent
  <2>2. ASSUME NEW k \in Keys PROVE refcounts'[k] = Cardinality(RoutesOf(k))'
    <3>1. CASE k \in keys[c]
      <4>1. RoutesOf(k)' = RoutesOf(k) \ {c} /\ c \in RoutesOf(k)
        BY <3>1 DEF RoutesOf, Live
      <4>2. /\ Cardinality(RoutesOf(k)') = Cardinality(RoutesOf(k)) - 1
            /\ Cardinality(RoutesOf(k)) > 0
        BY ONLY <4>1, RoutesFinite, CardinalityMinusOne
      <4> QED
        BY <4>2, <3>1, RoutesFinite DEF RefcountsExact, Counted
    <3>2. CASE k \notin keys[c]
      <4>1. RoutesOf(k)' = RoutesOf(k)
        BY <3>2 DEF RoutesOf, Live
      <4> QED
        BY <4>1, <3>2 DEF RefcountsExact, Counted
    <3> QED
      BY <3>1, <3>2
  <2> QED
    BY <2>1, <2>2 DEF RefcountsExact
<1>4. CASE HubClose
  <2> USE <1>4 DEF HubClose
  <2>1. OnlyLiveHold'
    BY DEF JobConsistent
  <2>2. ASSUME NEW k \in Keys PROVE refcounts'[k] = Cardinality(RoutesOf(k))'
    <3>1. RoutesOf(k)' = {}
      BY DEF RoutesOf, Live
    <3> QED
      BY <3>1, FS_EmptySet
  <2> QED
    BY <2>1, <2>2 DEF RefcountsExact
<1>5. ASSUME NEW ok \in BOOLEAN, StartFeed(ok)
      PROVE  OnlyLiveHold' /\ RefcountsExact'
  <2>1. Live' = Live
    BY <1>5 DEF StartFeed, JobConsistent, Live
  <2>2. OnlyLiveHold'
    BY <1>5 DEF StartFeed, JobConsistent
  <2>3. \A k \in Keys : RoutesOf(k)' = RoutesOf(k)
    BY <1>5, <2>1 DEF StartFeed, RoutesOf
  <2> QED
    BY <1>5, <2>2, <2>3 DEF StartFeed, RefcountsExact
<1>6. CASE UNCHANGED <<status, keys, refcounts>> /\ opener' \in {opener, Nobody}
  BY <1>6 DEF RefcountsExact, RoutesOf, Live
<1>7. CASE Rebuild \/ SendUnsubscribe \/ SendSubscribe \/ StopFeed \/ MarkClosed
  BY <1>6, <1>7 DEF Rebuild, SendUnsubscribe, SendSubscribe, StopFeed, MarkClosed,
     lockVars, jobVars
<1>8. ASSUME NEW g \in Feeds, Callback(g) \/ Open(g) \/ Drop(g)
      PROVE  OnlyLiveHold' /\ RefcountsExact'
  BY <1>6, <1>8 DEF Callback, OnConnected, Capture, Resend, OnDisconnected, Open,
     Drop, lockVars, jobVars
<1>9. CASE UNCHANGED vars
  BY <1>6, <1>9 DEF vars, lockVars, jobVars
<1> QED
  BY <1>1, <1>2, <1>3, <1>4, <1>5, <1>7, <1>8, <1>9 DEF Next, LockHolder

\* The capacity check of each call bounds what is wanted after it.
LEMMA CapacityStep ==
    TypeOK /\ OnlyLiveHold /\ WithinCapacity /\ [Next]_vars => WithinCapacity'
<1> SUFFICES ASSUME TypeOK, OnlyLiveHold, WithinCapacity, [Next]_vars
             PROVE  WithinCapacity'
  OBVIOUS
<1> USE DEF WithinCapacity
<1>1. ASSUME Wanted' \subseteq Wanted PROVE WithinCapacity'
  <2>1. IsFiniteSet(Wanted)
    BY HubAssumption, FS_Subset DEF Wanted
  <2>2. /\ Cardinality(Wanted') <= Cardinality(Wanted)
        /\ Cardinality(Wanted') \in Nat /\ Cardinality(Wanted) \in Nat
    BY <1>1, <2>1, FS_Subset, FS_CardinalityType
  <2> QED
    BY <2>2, HubAssumption
<1>2. ASSUME NEW c \in Consumers, NEW K \in SUBSET Keys, Subscribe(c, K)
      PROVE  WithinCapacity'
  <2>1. Wanted' = (Wanted \cup K) \ NoLongerNeeded({})
    BY <1>2, WantedAfter
  <2> QED
    BY <1>2, <2>1 DEF Subscribe, FitsCapacity
<1>3. ASSUME NEW c \in Consumers, NEW K \in SUBSET Keys, Update(c, K)
      PROVE  WithinCapacity'
  <2>1. Wanted' = (Wanted \cup (K \ keys[c])) \ NoLongerNeeded(keys[c] \ K)
    BY <1>3, WantedAfter
  <2> QED
    BY <1>3, <2>1 DEF Update, FitsCapacity
<1>4. ASSUME NEW c \in Consumers, Close(c) PROVE WithinCapacity'
  <2>1. Wanted' \subseteq Wanted
    BY <1>4 DEF Close, Wanted, Counted, TypeOK
  <2> QED
    BY <1>1, <2>1
<1>5. CASE HubClose
  <2>1. Wanted' \subseteq Wanted
    BY <1>5 DEF HubClose, Wanted
  <2> QED
    BY <1>1, <2>1
<1>6. CASE UNCHANGED refcounts
  <2>1. Wanted' \subseteq Wanted
    BY <1>6 DEF Wanted
  <2> QED
    BY <1>1, <2>1
<1>7. CASE LockHolder \/ StopFeed \/ MarkClosed
  BY <1>6, <1>7 DEF LockHolder, Rebuild, SendUnsubscribe, SendSubscribe, StartFeed,
     StopFeed, MarkClosed, lockVars
<1>8. ASSUME NEW g \in Feeds, Callback(g) \/ Open(g) \/ Drop(g)
      PROVE  WithinCapacity'
  BY <1>6, <1>8 DEF Callback, OnConnected, Capture, Resend, OnDisconnected, Open,
     Drop, lockVars
<1>9. CASE UNCHANGED vars
  BY <1>6, <1>9 DEF vars, lockVars
<1> QED
  BY <1>2, <1>3, <1>4, <1>5, <1>7, <1>8, <1>9 DEF Next

\* The lock holder's remaining work stays consistent with where it is.
LEMMA JobStep ==
    TypeOK /\ OnlyLiveHold /\ JobConsistent /\ [Next]_vars => JobConsistent'
<1> SUFFICES ASSUME TypeOK, OnlyLiveHold, JobConsistent, [Next]_vars
             PROVE  JobConsistent'
  OBVIOUS
<1> USE DEF JobConsistent
<1>1. ASSUME NEW c \in Consumers, NEW K \in SUBSET Keys, Subscribe(c, K)
      PROVE  JobConsistent'
  <2>1. Wanted' = (Wanted \cup K) \ NoLongerNeeded({})
    BY <1>1, WantedAfter
  <2> QED
    BY <1>1, <2>1 DEF Subscribe, NewlyNeeded, NoLongerNeeded
<1>2. ASSUME NEW c \in Consumers, NEW K \in SUBSET Keys, Update(c, K)
      PROVE  JobConsistent'
  <2>2. Wanted' = (Wanted \cup (K \ keys[c])) \ NoLongerNeeded(keys[c] \ K)
    BY <1>2, WantedAfter
  <2>3. added' \subseteq Wanted'
    BY <1>2, <2>2 DEF Update, NewlyNeeded, NoLongerNeeded
  <2>4. removed' \cap Wanted' = {}
    BY <1>2, <2>2 DEF Update
  <2> QED
    BY <1>2, <2>3, <2>4 DEF Update
<1>3. ASSUME NEW c \in Consumers, Close(c) PROVE JobConsistent'
  <2>2. Wanted' = Wanted \ NoLongerNeeded(keys[c])
    BY <1>3, WantedAfter
  <2> QED
    BY <1>3, <2>2 DEF Close
<1>4. CASE HubClose
  BY <1>4 DEF HubClose, Wanted
<1>5. CASE Rebuild
  <2>1. Wanted' = Wanted /\ \A k \in Keys : RoutesOf(k)' = RoutesOf(k)
    BY <1>5 DEF Rebuild, Wanted, RoutesOf, Live, lockVars
  <2>2. routes' = [k \in Keys |-> RoutesOf(k)']
    BY <1>5, <2>1 DEF Rebuild
  <2>3. routes' = [k \in Keys |-> RoutesOf(k)]'
    BY <2>2
  <2>4. added' \in {added, {}} /\ removed' \in {removed, {}}
    BY <1>5 DEF Rebuild
  <2>5. CASE AfterRebuild \in {"unsubscribe", "subscribe"}
    <3>1. feed' = feed /\ feed # NoFeed
      BY <1>5, <2>5 DEF Rebuild, AfterRebuild, lockVars
    <3>2. /\ pc' \in {"unsubscribe", "subscribe"}
          /\ added' = added /\ removed' = removed /\ opener' = Nobody
      BY <1>5, <2>5 DEF Rebuild
    <3>3. pc' = "subscribe" => removed = {}
      BY <1>5, <2>5 DEF Rebuild, AfterRebuild
    <3> QED
      BY <2>1, <2>3, <3>1, <3>2, <3>3
  <2>6. CASE AfterRebuild \in {"start", "free"}
    BY <1>5, <2>1, <2>3, <2>4, <2>6 DEF Rebuild, AfterRebuild, lockVars
  <2> QED
    BY <2>5, <2>6 DEF AfterRebuild
<1>6. ASSUME NEW ok \in BOOLEAN, StartFeed(ok) PROVE JobConsistent'
  <2>1. Wanted' = Wanted
    BY <1>6 DEF StartFeed, Wanted
  <2>2. Live' = Live
    BY <1>6 DEF StartFeed, OnlyLiveHold, Live, TypeOK
  <2>3. \A k \in Keys : RoutesOf(k)' = RoutesOf(k)
    BY <1>6, <2>2 DEF StartFeed, RoutesOf
  <2>4. [k \in Keys |-> RoutesOf(k)]' = [k \in Keys |-> RoutesOf(k)]
    BY <2>3
  <2>5. /\ pc = "start" /\ pc' = "free" /\ opener' = Nobody
        /\ UNCHANGED <<added, removed, routes>>
    BY <1>6 DEF StartFeed
  <2>6. routes' = [k \in Keys |-> RoutesOf(k)]'
    BY <2>4, <2>5
  <2>7. added = {} /\ removed = {}
    BY <2>5
  <2> QED
    BY <2>1, <2>5, <2>6, <2>7
<1>7. CASE /\ UNCHANGED <<lockVars, routes>>
           /\ UNCHANGED jobVars \/ SendUnsubscribe \/ SendSubscribe
  <2>1. Wanted' = Wanted /\ \A k \in Keys : RoutesOf(k)' = RoutesOf(k)
    BY <1>7 DEF Wanted, RoutesOf, Live, lockVars
  <2>2. [k \in Keys |-> RoutesOf(k)]' = [k \in Keys |-> RoutesOf(k)]
    BY <2>1
  <2>3. CASE UNCHANGED jobVars
    BY <1>7, <2>1, <2>2, <2>3 DEF lockVars, jobVars
  <2>4. CASE SendUnsubscribe
    BY <1>7, <2>1, <2>2, <2>4 DEF SendUnsubscribe, lockVars
  <2>5. CASE SendSubscribe
    BY <1>7, <2>1, <2>2, <2>5 DEF SendSubscribe, lockVars
  <2> QED
    BY <1>7, <2>3, <2>4, <2>5
<1>8. CASE SendUnsubscribe \/ SendSubscribe \/ StopFeed \/ MarkClosed
  BY <1>7, <1>8 DEF SendUnsubscribe, SendSubscribe, StopFeed, MarkClosed, lockVars
<1>9. ASSUME NEW g \in Feeds, Callback(g) \/ Open(g) \/ Drop(g)
      PROVE  JobConsistent'
  BY <1>7, <1>9 DEF Callback, OnConnected, Capture, Resend, OnDisconnected, Open,
     Drop
<1>10. CASE UNCHANGED vars
  BY <1>7, <1>10 DEF vars
<1> QED
  BY <1>1, <1>2, <1>3, <1>4, <1>5, <1>6, <1>8, <1>9, <1>10 DEF Next, LockHolder

\* Sockets and callbacks belong to feeds that were made.
LEMMA FeedsStep ==
    TypeOK /\ JobConsistent /\ FeedsConsistent /\ [Next]_vars => FeedsConsistent'
<1> SUFFICES ASSUME TypeOK, JobConsistent, FeedsConsistent, [Next]_vars
             PROVE  FeedsConsistent'
  OBVIOUS
<1> USE DEF FeedsConsistent, TypeOK, Feeds, NoFeed
<1>1. ASSUME NEW ok \in BOOLEAN, StartFeed(ok) PROVE FeedsConsistent'
  BY <1>1 DEF StartFeed, eventVars
<1>2. CASE HubClose
  BY <1>2 DEF HubClose, socketVars, eventVars
<1>3. CASE StopFeed
  <2>1. CASE victim # NoFeed /\ phase[victim] = "started"
    <3>1. victim \in Feeds /\ ~(victim > made)
      BY <2>1
    <3>2. /\ phase' = [phase EXCEPT ![victim] = "stopped"]
          /\ open' = open \ {victim}
          /\ UNCHANGED <<feed, made, cb>>
      BY <1>3, <2>1 DEF StopFeed, lockVars
    <3> QED
      BY <3>1, <3>2
  <2>2. CASE ~(victim # NoFeed /\ phase[victim] = "started")
    BY <1>3, <2>2 DEF StopFeed, lockVars
  <2> QED
    BY <2>1, <2>2
<1>4. ASSUME NEW g \in Feeds, Callback(g) \/ Open(g) \/ Drop(g)
      PROVE  FeedsConsistent'
  <2>1. UNCHANGED <<feed, made, phase>>
    BY <1>4 DEF Callback, OnConnected, Capture, Resend, OnDisconnected, Open, Drop,
       lockVars, socketVars
  <2>2. CASE Open(g)
    BY <2>1, <2>2 DEF Open
  <2>3. CASE Drop(g)
    BY <2>1, <2>3 DEF Drop
  <2>4. CASE Callback(g)
    <3>1. open' = open
      BY <2>4 DEF Callback, OnConnected, Capture, Resend, OnDisconnected, socketVars
    <3>2. \A h \in Feeds : cb'[h] = cb[h] \/ (cb[h] # "idle" /\ h = g)
      BY <2>4 DEF Callback, OnConnected, Capture, Resend, OnDisconnected
    <3> QED
      BY <2>1, <3>1, <3>2
  <2> QED
    BY <1>4, <2>2, <2>3, <2>4
<1>5. CASE UNCHANGED <<feed, made, phase, open, cb>>
  BY <1>5
<1>6. CASE Rebuild \/ SendUnsubscribe \/ SendSubscribe \/ MarkClosed
  BY <1>5, <1>6 DEF Rebuild, SendUnsubscribe, SendSubscribe, MarkClosed, lockVars,
     socketVars, eventVars
<1>7. ASSUME NEW c \in Consumers, NEW K \in SUBSET Keys,
             Subscribe(c, K) \/ Update(c, K)
      PROVE  FeedsConsistent'
  <2>1. UNCHANGED <<feed, made, phase, open, cb>>
    BY <1>7 DEF Subscribe, Update, socketVars, eventVars
  <2> QED
    BY <1>5, <2>1
<1>8. CASE UNCHANGED vars
  BY <1>5, <1>8 DEF vars, lockVars, socketVars, eventVars
<1>9. ASSUME NEW c \in Consumers, Close(c) PROVE FeedsConsistent'
  BY <1>5, <1>9 DEF Close, socketVars, eventVars
<1> QED
  BY <1>1, <1>2, <1>3, <1>4, <1>6, <1>7, <1>8, <1>9 DEF Next, LockHolder

\* Messages reach only open sockets, and a socket forgets when it closes.
LEMMA ClosedStep == TypeOK /\ ClosedSilent /\ [Next]_vars => ClosedSilent'
<1> SUFFICES ASSUME TypeOK, ClosedSilent, [Next]_vars PROVE ClosedSilent'
  OBVIOUS
<1> USE DEF TypeOK, ClosedSilent
<1>1. CASE UNCHANGED <<open, wire>>
  BY <1>1
<1>2. CASE SendUnsubscribe \/ SendSubscribe
  <2>1. open' = open /\ \A g \in Feeds \ open : wire'[g] = wire[g]
    BY <1>2 DEF SendUnsubscribe, SendSubscribe
  <2> QED
    BY <2>1
<1>3. CASE StopFeed
  <2>1. \A g \in Feeds : wire'[g] = wire[g] \/ wire'[g] = {}
    BY <1>3 DEF StopFeed
  <2>2. \A g \in open \ open' : wire'[g] = {}
    BY <1>3 DEF StopFeed
  <2> QED
    BY <2>1, <2>2
<1>4. ASSUME NEW g \in Feeds, Open(g) PROVE ClosedSilent'
  BY <1>4 DEF Open
<1>5. ASSUME NEW g \in Feeds, Drop(g) PROVE ClosedSilent'
  BY <1>5 DEF Drop
<1>6. ASSUME NEW g \in Feeds, Resend(g) PROVE ClosedSilent'
  <2>1. open' = open /\ \A h \in Feeds \ open : wire'[h] = wire[h]
    BY <1>6 DEF Resend
  <2> QED
    BY <2>1
<1>7. ASSUME NEW g \in Feeds, OnConnected(g) \/ Capture(g) \/ OnDisconnected(g)
      PROVE  ClosedSilent'
  BY <1>1, <1>7 DEF OnConnected, Capture, OnDisconnected, socketVars
<1>8. ASSUME NEW c \in Consumers, NEW K \in SUBSET Keys,
             Subscribe(c, K) \/ Update(c, K)
      PROVE  ClosedSilent'
  BY <1>1, <1>8 DEF Subscribe, Update, socketVars
<1>9. ASSUME NEW c \in Consumers, Close(c) PROVE ClosedSilent'
  BY <1>1, <1>9 DEF Close, socketVars
<1>10. ASSUME NEW ok \in BOOLEAN, StartFeed(ok) PROVE ClosedSilent'
  BY <1>1, <1>10 DEF StartFeed
<1>11. CASE HubClose \/ Rebuild \/ MarkClosed \/ UNCHANGED vars
  BY <1>1, <1>11 DEF HubClose, Rebuild, MarkClosed, vars, socketVars
<1> QED
  BY <1>2, <1>3, <1>4, <1>5, <1>6, <1>7, <1>8, <1>9, <1>10, <1>11
     DEF Next, LockHolder, Callback

\* No step loses a wanted key between the socket, the unsent job and the
\* callback's copy.
LEMMA StreamStep ==
    HubInv /\ [Next]_vars => WantedStreamed' /\ ResendCovers'
<1> SUFFICES ASSUME HubInv, [Next]_vars PROVE WantedStreamed' /\ ResendCovers'
  OBVIOUS
<1> USE DEF HubInv, WantedStreamed, ResendCovers
<1>1. ASSUME UNCHANGED <<feed, open, wire, cb, captured>>,
             Wanted' \subseteq Wanted \cup added', added = {}
      PROVE  WantedStreamed' /\ ResendCovers'
  BY <1>1
<1>2. ASSUME NEW c \in Consumers, NEW K \in SUBSET Keys, Subscribe(c, K)
      PROVE  WantedStreamed' /\ ResendCovers'
  <2>1. Wanted' = (Wanted \cup K) \ NoLongerNeeded({})
    BY <1>2, WantedAfter
  <2>2. Wanted' \subseteq Wanted \cup added'
    BY <1>2, <2>1 DEF Subscribe, NewlyNeeded, Wanted, TypeOK
  <2> QED
    BY <1>1, <1>2, <2>2 DEF Subscribe, JobConsistent, socketVars, eventVars
<1>3. ASSUME NEW c \in Consumers, NEW K \in SUBSET Keys, Update(c, K)
      PROVE  WantedStreamed' /\ ResendCovers'
  <2>1. Wanted' = (Wanted \cup (K \ keys[c])) \ NoLongerNeeded(keys[c] \ K)
    BY <1>3, WantedAfter
  <2>2. Wanted' \subseteq Wanted \cup added'
    <3>1. ASSUME NEW k \in K \ keys[c] PROVE k \in Wanted \cup added'
      BY <1>3 DEF Update, NewlyNeeded, Wanted, TypeOK
    <3> QED
      BY <2>1, <3>1
  <2> QED
    BY <1>1, <1>3, <2>2 DEF Update, JobConsistent, socketVars, eventVars
<1>4. ASSUME NEW c \in Consumers, Close(c)
      PROVE  WantedStreamed' /\ ResendCovers'
  <2>1. Wanted' \subseteq Wanted
    BY <1>4, WantedAfter
  <2> QED
    BY <1>1, <1>4, <2>1 DEF Close, JobConsistent, socketVars, eventVars
<1>5. CASE HubClose
  <2>1. feed' = NoFeed /\ NoFeed \notin open'
    BY <1>5 DEF HubClose, socketVars, TypeOK, NoFeed, Feeds
  <2> QED
    BY <2>1
<1>6. CASE Rebuild
  <2>1. Wanted' = Wanted
    BY <1>6 DEF Rebuild, lockVars, Wanted
  <2>2. feed # NoFeed => added' = added
    BY <1>6 DEF Rebuild, AfterRebuild
  <2>3. NoFeed \notin open
    BY DEF TypeOK, NoFeed, Feeds
  <2> QED
    BY <1>6, <2>1, <2>2, <2>3 DEF Rebuild, lockVars, socketVars, eventVars
<1>7. CASE SendUnsubscribe
  <2>1. Wanted' = Wanted
    BY <1>7 DEF SendUnsubscribe, lockVars, Wanted
  <2>2. feed \in open => wire'[feed] = wire[feed] \ removed
    BY <1>7 DEF SendUnsubscribe, TypeOK
  <2> QED
    BY <1>7, <2>1, <2>2 DEF SendUnsubscribe, lockVars, eventVars, JobConsistent
<1>8. CASE SendSubscribe
  <2>1. Wanted' = Wanted
    BY <1>8 DEF SendSubscribe, lockVars, Wanted
  <2>2. feed \in open => wire'[feed] = wire[feed] \cup added
    BY <1>8 DEF SendSubscribe, TypeOK
  <2> QED
    BY <1>8, <2>1, <2>2 DEF SendSubscribe, lockVars, eventVars
<1>9. ASSUME NEW ok \in BOOLEAN, StartFeed(ok)
      PROVE  WantedStreamed' /\ ResendCovers'
  <2>1. made + 1 \in Feeds /\ made + 1 > made
    BY <1>9 DEF StartFeed, Feeds, TypeOK, NoFeed
  <2>2. feed' \notin open' /\ cb'[feed'] = "idle"
    BY <1>9, <2>1 DEF StartFeed, FeedsConsistent, eventVars
  <2> QED
    BY <2>2
<1>10. CASE StopFeed
  <2>1. UNCHANGED <<feed, added, cb, captured, refcounts>>
    BY <1>10 DEF StopFeed, lockVars, jobVars
  <2>2. Wanted' = Wanted
    BY <2>1 DEF Wanted
  <2>3. open' \subseteq open
    BY <1>10 DEF StopFeed
  <2>4. \A g \in open' : wire'[g] = wire[g]
    BY <1>10, <2>3 DEF StopFeed, TypeOK
  <2> QED
    BY <2>1, <2>2, <2>3, <2>4
<1>11. ASSUME UNCHANGED <<lockVars, jobVars, open, wire, cb, captured>>
       PROVE  WantedStreamed' /\ ResendCovers'
  BY <1>11 DEF lockVars, jobVars, Wanted
<1>12. CASE MarkClosed
  BY <1>11, <1>12 DEF MarkClosed, socketVars, eventVars
<1>13. ASSUME NEW g \in Feeds, Callback(g) \/ Open(g) \/ Drop(g)
       PROVE  WantedStreamed' /\ ResendCovers'
  <2>1. UNCHANGED <<feed, added, refcounts>>
    BY <1>13 DEF Callback, OnConnected, Capture, Resend, OnDisconnected, Open, Drop,
       lockVars, jobVars
  <2>2. Wanted' = Wanted
    BY <2>1 DEF Wanted
  <2>3. CASE OnConnected(g)
    BY <2>1, <2>2, <2>3 DEF OnConnected, socketVars, TypeOK
  <2>4. CASE Capture(g)
    <3>1. feed \in Feeds => wire'[feed] = wire[feed] /\ open' = open
      BY <2>4 DEF Capture, socketVars
    <3>2. CASE feed = g /\ Wanted # {}
      <4>1. /\ cb'[feed] = "send"
            /\ captured'[feed] = [feed |-> feed, keys |-> Wanted]
        BY <2>4, <3>2 DEF Capture, TypeOK, NoFeed, Feeds
      <4> QED
        BY <2>1, <2>2, <4>1
    <3>3. CASE Wanted = {}
      <4>1. feed = g => cb'[feed] = "idle"
        BY <2>4, <3>3 DEF Capture, TypeOK
      <4>2. feed \in Feeds \ {g} =>
               cb'[feed] = cb[feed] /\ captured'[feed] = captured[feed]
        BY <2>4, <3>3 DEF Capture, TypeOK
      <4>3. NoFeed \notin open'
        BY <2>4 DEF Capture, socketVars, TypeOK, NoFeed, Feeds
      <4> QED
        BY <2>1, <2>2, <3>1, <3>3, <4>1, <4>2, <4>3 DEF TypeOK
    <3>4. CASE feed # g
      <4>1. feed \in Feeds => cb'[feed] = cb[feed] /\ captured'[feed] = captured[feed]
        BY <2>4, <3>4 DEF Capture, TypeOK
      <4>2. NoFeed \notin open'
        BY <2>4 DEF Capture, socketVars, TypeOK, NoFeed, Feeds
      <4> QED
        BY <2>1, <2>2, <3>1, <4>1, <4>2 DEF TypeOK
    <3> QED
      BY <3>2, <3>3, <3>4
  <2>5. CASE Resend(g)
    <3>1. open' = open /\ NoFeed \notin open
      BY <2>5 DEF Resend, TypeOK, NoFeed, Feeds
    <3>2. \A h \in Feeds : wire[h] \subseteq wire'[h]
      <4>1. CASE captured[g].feed \in open
        <5>1. wire' = [wire EXCEPT ![captured[g].feed] = @ \cup captured[g].keys]
          BY <2>5, <4>1 DEF Resend
        <5>2. wire \in [Feeds -> SUBSET Keys]
          BY DEF TypeOK
        <5> QED
          BY ONLY <5>1, <5>2
      <4>2. CASE captured[g].feed \notin open
        BY <2>5, <4>2 DEF Resend
      <4> QED
        BY <4>1, <4>2
    <3>3. CASE feed = g
      <4>1. cb'[feed] = "idle" /\ cb[feed] = "send"
        BY <2>5, <3>3 DEF Resend, TypeOK
      <4>2. feed # NoFeed /\ captured[feed].feed = feed
        BY <3>3, <4>1 DEF NoFeed, Feeds
      <4>3. feed \in open => wire'[feed] = wire[feed] \cup captured[feed].keys
        BY <2>5, <3>3, <4>2 DEF Resend, TypeOK
      <4> QED
        BY <2>1, <2>2, <3>1, <4>1, <4>2, <4>3
    <3>4. CASE feed # g
      <4>1. feed \in Feeds => cb'[feed] = cb[feed] /\ captured'[feed] = captured[feed]
        BY <2>5, <3>4 DEF Resend, TypeOK
      <4> QED
        BY <2>1, <2>2, <3>1, <3>2, <4>1 DEF TypeOK
    <3> QED
      BY <3>3, <3>4
  <2>6. CASE OnDisconnected(g)
    BY <2>1, <2>2, <2>6 DEF OnDisconnected, socketVars
  <2>7. CASE Open(g)
    <3>1. /\ open' = open \cup {g} /\ cb' = [cb EXCEPT ![g] = "opened"]
          /\ captured' = captured
      BY <2>7 DEF Open
    <3>2. \A h \in Feeds : h # g => wire'[h] = wire[h]
      BY <2>7 DEF Open, TypeOK
    <3> QED
      BY <2>1, <2>2, <3>1, <3>2 DEF TypeOK
  <2>8. CASE Drop(g)
    <3>1. open' = open \ {g} /\ UNCHANGED <<cb, captured>>
      BY <2>8 DEF Drop
    <3>2. \A h \in Feeds : h # g => wire'[h] = wire[h]
      BY <2>8 DEF Drop, TypeOK
    <3> QED
      BY <2>1, <2>2, <3>1, <3>2 DEF TypeOK
  <2> QED
    BY <1>13, <2>3, <2>4, <2>5, <2>6, <2>7, <2>8 DEF Callback
<1>14. CASE UNCHANGED vars
  BY <1>11, <1>14 DEF vars, socketVars, eventVars
<1> QED
  BY <1>2, <1>3, <1>4, <1>5, <1>6, <1>7, <1>8, <1>9, <1>10, <1>12, <1>13, <1>14
     DEF Next, LockHolder

-----------------------------------------------------------------------------
\* HubInv is an inductive invariant of the hub.
LEMMA Inductive == Spec => []HubInv
<1>1. Init => HubInv
  <2> SUFFICES ASSUME Init PROVE HubInv
    OBVIOUS
  <2>1. TypeOK
    BY HubAssumption DEF Init, TypeOK, Statuses, Feeds, NoFeed, Nothing
  <2>2. Wanted = {} /\ Live = {}
    BY DEF Init, Wanted, Live
  <2>3. \A k \in Keys : RoutesOf(k) = {}
    BY <2>2 DEF RoutesOf
  <2>4. RefcountsExact
    BY <2>3, FS_EmptySet DEF Init, RefcountsExact
  <2>5. WithinCapacity
    BY <2>2, FS_EmptySet, HubAssumption DEF WithinCapacity
  <2>6. OnlyLiveHold /\ FeedsConsistent
    BY DEF Init, OnlyLiveHold, FeedsConsistent
  <2>9. ClosedSilent
    BY DEF Init, ClosedSilent
  <2>7. JobConsistent
    BY <2>2, <2>3 DEF Init, JobConsistent
  <2>8. WantedStreamed /\ ResendCovers
    BY <2>2 DEF Init, WantedStreamed, ResendCovers
  <2> QED
    BY <2>1, <2>4, <2>5, <2>6, <2>7, <2>8, <2>9 DEF HubInv
<1>2. HubInv /\ [Next]_vars => HubInv'
  BY TypeStep, CountsStep, CapacityStep, JobStep, FeedsStep, ClosedStep, StreamStep
     DEF HubInv
<1> QED
  BY <1>1, <1>2, PTL DEF Spec

\* _retain and _release count exactly the live consumers of every key, in
\* whatever order calls and callbacks interleave.
THEOREM RefcountsAlwaysExact == Spec => []RefcountsExact
<1>1. HubInv => RefcountsExact
  BY DEF HubInv
<1> QED
  BY Inductive, <1>1, PTL

\* The hub never wants more instruments than one connection may carry.
THEOREM AlwaysWithinCapacity == Spec => []WithinCapacity
<1>1. HubInv => WithinCapacity
  BY DEF HubInv
<1> QED
  BY Inductive, <1>1, PTL

\* On an open socket whose connection callback has finished, every wanted
\* key is streamed or still to be sent by the call in progress.
THEOREM AlwaysWantedStreamed == Spec => []WantedStreamed
<1>1. HubInv => WantedStreamed
  BY DEF HubInv
<1> QED
  BY Inductive, <1>1, PTL

\* Control-plane calls and callbacks take a key off a socket that stays open
\* only when its last consumer has left.
THEOREM AlwaysKeptWhileWanted == Spec => KeptWhileWanted
<1> DEFINE Kept == \A g \in Feeds : g \in open' =>
                      \A k \in wire[g] \ wire'[g] : refcounts'[k] = 0
<1>1. HubInv /\ [Next]_vars => [Kept]_vars
  <2> SUFFICES ASSUME HubInv, Next PROVE Kept
    OBVIOUS
  <2> USE DEF HubInv, TypeOK, ClosedSilent
  <2>1. CASE wire' = wire
    BY <2>1
  <2>2. CASE SendUnsubscribe
    <3>1. refcounts' = refcounts /\ removed \cap Wanted = {}
      BY <2>2 DEF SendUnsubscribe, lockVars, JobConsistent
    <3>2. \A g \in Feeds : wire[g] \ wire'[g] \subseteq removed
      <4>1. CASE feed \in open
        BY <2>2, <4>1 DEF SendUnsubscribe
      <4>2. CASE feed \notin open
        BY <2>2, <4>2 DEF SendUnsubscribe
      <4> QED
        BY <4>1, <4>2
    <3>3. \A k \in removed : refcounts[k] = 0
      BY <3>1 DEF Wanted
    <3> QED
      BY <3>1, <3>2, <3>3
  <2>3. CASE \A g \in Feeds : wire[g] \subseteq wire'[g]
    BY <2>3
  <2>4. CASE SendSubscribe
    BY <2>3, <2>4 DEF SendSubscribe
  <2>5. ASSUME NEW h \in Feeds, Resend(h) PROVE Kept
    BY <2>3, <2>5 DEF Resend
  <2>6. ASSUME NEW h \in Feeds, Open(h) PROVE Kept
    <3>1. wire[h] = {} /\ \A g \in Feeds \ {h} : wire'[g] = wire[g]
      BY <2>6 DEF Open
    <3> QED
      BY <3>1
  <2>7. ASSUME NEW h \in Feeds, Drop(h) PROVE Kept
    <3>1. h \notin open' /\ \A g \in Feeds \ {h} : wire'[g] = wire[g]
      BY <2>7 DEF Drop
    <3> QED
      BY <3>1
  <2>8. CASE StopFeed
    <3>1. \A g \in open' : wire'[g] = wire[g]
      BY <2>8 DEF StopFeed
    <3> QED
      BY <3>1
  <2>9. CASE HubClose \/ Rebuild \/ MarkClosed
    BY <2>1, <2>9 DEF HubClose, Rebuild, MarkClosed, socketVars
  <2>10. ASSUME NEW ok \in BOOLEAN, StartFeed(ok) PROVE Kept
    BY <2>1, <2>10 DEF StartFeed
  <2>11. ASSUME NEW c \in Consumers, NEW K \in SUBSET Keys,
                Subscribe(c, K) \/ Update(c, K)
         PROVE  Kept
    BY <2>1, <2>11 DEF Subscribe, Update, socketVars
  <2>12. ASSUME NEW c \in Consumers, Close(c) PROVE Kept
    BY <2>1, <2>12 DEF Close, socketVars
  <2>13. ASSUME NEW g \in Feeds, OnConnected(g) \/ Capture(g) \/ OnDisconnected(g)
         PROVE  Kept
    BY <2>1, <2>13 DEF OnConnected, Capture, OnDisconnected, socketVars
  <2> QED
    BY <2>2, <2>4, <2>5, <2>6, <2>7, <2>8, <2>9, <2>10, <2>11, <2>12, <2>13
       DEF Next, LockHolder, Callback
<1> QED
  BY <1>1, Inductive, PTL DEF Spec, KeptWhileWanted

\* A consumer that keeps a key across a call stays in the table the feed thread
\* reads without the lock: only a rebuild replaces it, with all who hold the key.
THEOREM AlwaysNoTickGap == Spec => NoTickGap
<1> DEFINE Gapless == \A k \in Keys, c \in Consumers :
                         (c \in routes[k] /\ c \in Live' /\ k \in keys'[c]) => c \in routes'[k]
<1>1. [Next]_vars => [Gapless]_vars
  <2> SUFFICES ASSUME Next PROVE Gapless
    OBVIOUS
  <2>1. CASE UNCHANGED routes
    BY <2>1
  <2>2. CASE Rebuild
    <3>1. /\ routes' = [k \in Keys |-> RoutesOf(k)]
          /\ Live' = Live /\ keys' = keys
      BY <2>2 DEF Rebuild, lockVars, Live
    <3> QED
      BY <3>1 DEF RoutesOf
  <2> QED
    BY <2>1, <2>2
    DEF Next, LockHolder, Callback, Subscribe, Update, Close, HubClose, SendUnsubscribe,
        SendSubscribe, StartFeed, StopFeed, MarkClosed, OnConnected, Capture, Resend, Open,
        OnDisconnected, Drop
<1> QED
  BY <1>1, PTL DEF Spec, NoTickGap

\* The table the feed thread reads is rebuilt before the call's keys are put
\* on the socket, so their first tick is routed.
THEOREM AlwaysRoutedBeforeStreamed == Spec => RoutedBeforeStreamed
<1> DEFINE Routed == (cb' = cb) =>
                        \A g \in Feeds : \A k \in wire'[g] \ wire[g] : routes[k] # {}
<1>1. HubInv /\ [Next]_vars => [Routed]_vars
  <2> SUFFICES ASSUME HubInv, Next, cb' = cb PROVE Routed
    OBVIOUS
  <2> USE DEF HubInv, TypeOK
  <2>1. CASE \A g \in Feeds : wire'[g] \subseteq wire[g]
    BY <2>1
  <2>2. CASE SendSubscribe
    <3>1. \A g \in Feeds : wire'[g] \ wire[g] \subseteq added
      BY <2>2 DEF SendSubscribe
    <3>2. ASSUME NEW k \in added PROVE routes[k] # {}
      <4>1. k \in Keys /\ refcounts[k] > 0
        BY DEF JobConsistent, Wanted
      <4>2. routes[k] = RoutesOf(k)
        BY <2>2, <4>1 DEF SendSubscribe, JobConsistent
      <4>3. RoutesOf(k) # {}
        <5>1. refcounts[k] = Cardinality(RoutesOf(k))
          BY <4>1 DEF RefcountsExact
        <5> QED
          BY ONLY <4>1, <5>1, FS_EmptySet
      <4> QED
        BY <4>2, <4>3
    <3> QED
      BY <3>1, <3>2
  <2>3. CASE SendUnsubscribe \/ StopFeed
    BY <2>1, <2>3 DEF SendUnsubscribe, StopFeed
  <2>4. CASE HubClose \/ Rebuild \/ MarkClosed
    BY <2>1, <2>4 DEF HubClose, Rebuild, MarkClosed, socketVars
  <2>5. ASSUME NEW ok \in BOOLEAN, StartFeed(ok) PROVE Routed
    BY <2>1, <2>5 DEF StartFeed
  <2>6. ASSUME NEW c \in Consumers, NEW K \in SUBSET Keys,
               Subscribe(c, K) \/ Update(c, K)
        PROVE  Routed
    BY <2>1, <2>6 DEF Subscribe, Update, socketVars
  <2>7. ASSUME NEW c \in Consumers, Close(c) PROVE Routed
    BY <2>1, <2>7 DEF Close, socketVars
  <2>8. ASSUME NEW g \in Feeds, OnConnected(g) \/ OnDisconnected(g) \/ Drop(g)
        PROVE  Routed
    BY <2>1, <2>8 DEF OnConnected, OnDisconnected, Drop, socketVars
  <2>9. ASSUME NEW g \in Feeds, Capture(g) \/ Resend(g) \/ Open(g) PROVE Routed
    BY <2>9 DEF Capture, Resend, Open
  <2> QED
    BY <2>2, <2>3, <2>4, <2>5, <2>6, <2>7, <2>8, <2>9 DEF Next, LockHolder, Callback
<1> QED
  BY <1>1, Inductive, PTL DEF Spec, RoutedBeforeStreamed

-----------------------------------------------------------------------------
\* The first feed is shown as connected, or about to be, only while its socket is
\* open or the event of its loss still waits for the callback.
ShownConnected ==
    made <= 1 /\ (connection_state = "connected" \/ cb[1] = "opened") => 1 \in open \cup lost

\* Every step of a feed that goes down leaves the word of it in the queue.
LEMMA ShownStep == HubInv /\ ShownConnected /\ [Next]_vars => ShownConnected'
<1> SUFFICES ASSUME HubInv, ShownConnected, [Next]_vars
             PROVE  ShownConnected'
  OBVIOUS
<1> USE DEF HubInv, ShownConnected, lockVars, jobVars, closeVars, socketVars, eventVars
<1>1. /\ made \in 0 .. 2
      /\ cb \in [Feeds -> {"idle", "opened", "capture", "send"}]
      /\ made <= 1 => cb[2] = "idle"
      /\ made = 0 => cb[1] = "idle"
  <2>1. made \in 0 .. 2
    BY DEF TypeOK, Feeds, NoFeed
  <2> QED
    BY <2>1 DEF TypeOK, FeedsConsistent, Feeds
<1>2. ASSUME NEW c \in Consumers, NEW K \in SUBSET Keys,
             Subscribe(c, K) \/ Update(c, K) \/ Close(c)
      PROVE  ShownConnected'
  BY <1>2 DEF Subscribe, Update, Close
<1>3. CASE HubClose \/ Rebuild \/ SendUnsubscribe \/ SendSubscribe
  BY <1>3 DEF HubClose, Rebuild, SendUnsubscribe, SendSubscribe
<1>4. ASSUME NEW ok \in BOOLEAN, StartFeed(ok)
      PROVE  ShownConnected'
  BY <1>1, <1>4 DEF StartFeed
<1>5. CASE StopFeed \/ MarkClosed
  BY <1>5 DEF StopFeed, MarkClosed
<1>6. ASSUME NEW g \in Feeds, Open(g) \/ Drop(g)
      PROVE  ShownConnected'
  BY <1>1, <1>6 DEF Open, Drop, Feeds
<1>7. ASSUME NEW g \in Feeds, OnConnected(g)
      PROVE  ShownConnected'
  BY <1>1, <1>7 DEF OnConnected, Feeds
<1>8. ASSUME NEW g \in Feeds, Capture(g) \/ Resend(g)
      PROVE  ShownConnected'
  <2>0. cb' = [cb EXCEPT ![g] = "send"] \/ cb' = [cb EXCEPT ![g] = "idle"]
    BY <1>8 DEF Capture, Resend
  <2>1. cb'[1] = "opened" => cb[1] = "opened"
    BY <1>1, <2>0 DEF Feeds
  <2>2. UNCHANGED <<made, connection_state, open, lost>>
    BY <1>8 DEF Capture, Resend
  <2> HIDE DEF HubInv
  <2> QED
    BY <2>1, <2>2
<1>9. ASSUME NEW g \in Feeds, OnDisconnected(g)
      PROVE  ShownConnected'
  <2>1. connection_state' = "disconnected" /\ cb' = cb /\ cb[g] = "idle" /\ made' = made
    BY <1>9 DEF OnDisconnected
  <2> QED
    BY <1>1, <1>9, <2>1 DEF OnDisconnected, Feeds
<1>10. CASE UNCHANGED vars
  BY <1>10 DEF vars
<1> QED
  BY <1>2, <1>3, <1>4, <1>5, <1>6, <1>7, <1>8, <1>9, <1>10 DEF Next, LockHolder, Callback

\* The state shown to the user says "connected" only if the socket of the only feed
\* is open or its loss is still to be handled.
THEOREM AlwaysStateHonest == Spec => []StateHonest
<1>1. Init => ShownConnected
  BY DEF Init, ShownConnected, Feeds
<1>2. ShownConnected => StateHonest
  BY DEF ShownConnected, StateHonest
<1> QED
  BY <1>1, <1>2, Inductive, ShownStep, PTL DEF Spec
=============================================================================
