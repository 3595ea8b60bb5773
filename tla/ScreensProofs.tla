---------------------------- MODULE ScreensProofs ----------------------------
(***************************************************************************)
(* What the dashboard shows, for any stocks, lists, tabs and rows.         *)
(*                                                                         *)
(* The book of the Risk tab's service with its subscription: its list and  *)
(* subscription are exact as long as no two threads were in it, because    *)
(* then one thread at most is in the midst of a call, and the invariant    *)
(* says what its step has left to do.  The shell: every handler that       *)
(* writes ends with a list open that the database has, or with the death   *)
(* of the process after one of its transactions.  The live tables: the     *)
(* sorted keys are the rows, each once, because the order is total.        *)
(***************************************************************************)
EXTENDS Screens, FiniteSetTheorems, FunctionTheorems, SequenceTheorems, WellFoundedInduction, TLAPS

\* What a thread holds: which subscription the hub gave it, after the call only.
HeldThread ==
    [at : {"idle", "positions", "keep", "resubscribe", "hub", "subscribed", "drawn", "reload"},
     rows : SUBSET Stocks, then : {"none", "resubscribe", "drawn"},
     has : {<<>>} \cup {<<i>> : i \in {0} \cup DOMAIN hub}]

ThreadsOK ==
    /\ thread \in [Threads -> HeldThread]
    /\ \A t \in Threads :
          /\ thread[t].at \in {"positions", "keep"} => thread[t].then # "none"
          /\ thread[t].at # "subscribed" => thread[t].has = <<>>

\* As long as the service was left to one thread at a time.
OneInside == \E t \in Threads : thread[t] = Idle

\* The hub streams what is believed, to the one subscription; between the hub's
\* answer and its being kept, what the thread has in its hands.
Streams(subscriber, keys) ==
    \A i \in DOMAIN hub : hub[i] = IF i = subscriber THEN keys ELSE {}

Given(t) == IF thread[t].has = <<>> THEN subscription ELSE thread[t].has[1]

HubFollows ==
    /\ (\A t \in Threads : thread[t].at # "subscribed") => Streams(subscription, subscribed)
    /\ \A t \in Threads :
          thread[t].at = "subscribed" => Streams(Given(t), thread[t].rows)

\* The kept list is the table's, until the reload when a sync has written.
ListFollows ==
    /\ thread["sync"].at # "reload" => positions \subseteq {Open(book)}
    /\ \A t \in Threads : thread[t].at = "keep" => thread[t].rows = Open(book)

BookInv ==
    /\ TypeOK /\ ThreadsOK
    /\ ~overlapped => OneInside /\ HubFollows /\ ListFollows
-----------------------------------------------------------------------------
(* The types.                                                               *)

\* A set of numbers has a least one.
LEMMA LeastIsThere == ASSUME NEW S, S \subseteq Nat, S # {} PROVE Min(S) \in S
<1> DEFINE R == OpToRel(<, Nat)
<1>1. PICK x \in S : \A y \in S : ~(<<y, x>> \in R)
  <2> HIDE DEF R
  <2>1. IsWellFoundedOn(R, Nat)
    BY NatLessThanWellFounded DEF R
  <2> QED
    BY <2>1, WFMin
<1>2. \A y \in S : x <= y
  <2> SUFFICES ASSUME NEW y \in S PROVE x <= y
    OBVIOUS
  <2>1. x \in Nat /\ y \in Nat /\ ~(<<y, x>> \in R)
    <3> HIDE DEF R
    <3> QED
      BY <1>1
  <2> QED
    BY <2>1 DEF OpToRel
<1> QED
  BY <1>2 DEF Min

\* One thread's step leaves the other where it is.
LEMMA ThreadSet ==
  ASSUME ThreadsOK, DOMAIN hub \subseteq DOMAIN hub',
         NEW t \in Threads, NEW r \in HeldThread', thread' = [thread EXCEPT ![t] = r],
         r.at \in {"positions", "keep"} => r.then # "none",
         r.at # "subscribed" => r.has = <<>>
  PROVE  ThreadsOK' /\ thread'[t] = r /\ \A u \in Threads \ {t} : thread'[u] = thread[u]
<1>1. HeldThread \subseteq HeldThread'
  BY DEF HeldThread
<1>2. thread' \in [Threads -> HeldThread']
  <2> HIDE DEF HeldThread
  <2> QED
    BY <1>1 DEF ThreadsOK
<1>3. /\ thread'[t] = r
      /\ \A u \in Threads \ {t} : thread'[u] = thread[u]
  BY DEF ThreadsOK
<1> HIDE DEF HeldThread
<1> QED
  BY <1>2, <1>3 DEF ThreadsOK

\* A record of a thread that is not in the midst of keeping what the hub gave it.
LEMMA HeldAt ==
  ASSUME NEW at \in {"idle", "positions", "keep", "resubscribe", "hub", "drawn", "reload"},
         NEW kept \in SUBSET Stocks, NEW then \in {"none", "resubscribe", "drawn"}
  PROVE  [at |-> at, rows |-> kept, then |-> then, has |-> <<>>] \in HeldThread'
BY DEF HeldThread

\* One of the hub's subscriptions is set, or one more is made.
LEMMA HubSet ==
  ASSUME TypeOK, NEW keys \in SUBSET Stocks
  PROVE  /\ DOMAIN hub = 1 .. Len(hub) /\ Len(hub) \in Nat
         /\ \A i \in DOMAIN hub :
               /\ [hub EXCEPT ![i] = keys] \in Seq(SUBSET Stocks)
               /\ DOMAIN [hub EXCEPT ![i] = keys] = DOMAIN hub
         /\ Append(hub, keys) \in Seq(SUBSET Stocks)
         /\ DOMAIN Append(hub, keys) = 1 .. Len(hub) + 1
<1>1. hub \in Seq(SUBSET Stocks) /\ DOMAIN hub = 1 .. Len(hub) /\ Len(hub) \in Nat
  BY DEF TypeOK
<1>2. /\ Append(hub, keys) \in Seq(SUBSET Stocks)
      /\ Len(Append(hub, keys)) = Len(hub) + 1
  BY <1>1, AppendProperties
<1>3. DOMAIN Append(hub, keys) = 1 .. Len(hub) + 1
  BY <1>2, LenProperties
<1>4. ASSUME NEW i \in DOMAIN hub
      PROVE  /\ [hub EXCEPT ![i] = keys] \in Seq(SUBSET Stocks)
             /\ DOMAIN [hub EXCEPT ![i] = keys] = DOMAIN hub
  BY <1>1, <1>4, ExceptSeq
<1> QED
  BY <1>1, <1>2, <1>3, <1>4

\* hub.subscribe hands out one subscription: one that was closed, or a new one.
SubscribesAs(t, i) ==
    /\ i \in 1 .. Len(hub) + 1
    /\ i \in DOMAIN hub => hub[i] = {}
    /\ hub' = IF i \in DOMAIN hub THEN [hub EXCEPT ![i] = thread[t].rows]
               ELSE Append(hub, thread[t].rows)
    /\ Holds(t, <<i>>)

LEMMA SubscribesOnce ==
  ASSUME TypeOK, NEW t \in Threads, Subscribe(t)
  PROVE  \E i : SubscribesAs(t, i)
<1> DEFINE S == {j \in DOMAIN hub : hub[j] = {}} \cup {Len(hub) + 1}
<1>1. Len(hub) \in Nat /\ DOMAIN hub = 1 .. Len(hub)
  BY DEF TypeOK
<1>2. S \subseteq Nat /\ S # {}
  BY <1>1
<1>3. Min(S) \in S
  <2> HIDE DEF S
  <2> QED
    BY <1>2, LeastIsThere
<1>4. /\ hub' = IF Min(S) \in DOMAIN hub THEN [hub EXCEPT ![Min(S)] = thread[t].rows]
                ELSE Append(hub, thread[t].rows)
      /\ Holds(t, <<Min(S)>>)
  BY DEF Subscribe
<1>5. Min(S) \in 1 .. Len(hub) + 1 /\ (Min(S) \in DOMAIN hub => hub[Min(S)] = {})
  BY <1>1, <1>3
<1> HIDE DEF S
<1> QED
  BY <1>4, <1>5 DEF SubscribesAs

\* No step stores or holds what is no list of stocks, or no subscription.
LEMMA BookTypes == ASSUME TypeOK, ThreadsOK, Next PROVE TypeOK' /\ ThreadsOK'
<1>1. /\ thread \in [Threads -> HeldThread] /\ Threads = {"ui", "sync"}
      /\ DOMAIN hub = 1 .. Len(hub) /\ Len(hub) \in Nat
      /\ hub \in Seq(SUBSET Stocks)
      /\ \A t \in Threads : /\ thread[t].rows \in SUBSET Stocks
                             /\ thread[t].then \in {"none", "resubscribe", "drawn"}
  BY DEF TypeOK, ThreadsOK, Threads, HeldThread
<1>2. Idle \in HeldThread'
  BY DEF Idle, At, HeldThread
<1>3. \A t \in Threads, at \in {"positions", "reload"}, then \in {"none", "resubscribe", "drawn"} :
         /\ at = "positions" => then # "none"
         /\ thread' = [thread EXCEPT ![t] = At(at, {}, then)]
         /\ hub' = hub
         => ThreadsOK'
  BY HeldAt, ThreadSet DEF At
<1>4. ASSUME NEW t \in Threads, Done(t), DOMAIN hub \subseteq DOMAIN hub' PROVE ThreadsOK'
  BY <1>2, <1>4, ThreadSet DEF Done, Idle, At
<1>5. ASSUME NEW t \in Threads, NEW at, NEW kept \in SUBSET Stocks,
             at \in {"keep", "resubscribe", "hub", "drawn"},
             thread[t].at # "subscribed", Goto(t, at, kept),
             at = "keep" => thread[t].then # "none", UNCHANGED hub
      PROVE  ThreadsOK'
  <2> DEFINE r == [at |-> at, rows |-> kept, then |-> thread[t].then, has |-> <<>>]
  <2>1. r \in HeldThread'
    BY <1>1, <1>5, HeldAt
  <2>2. thread' = [thread EXCEPT ![t] = r]
    BY <1>1, <1>5 DEF Goto, At
  <2> QED
    BY <1>5, <2>1, <2>2, ThreadSet
<1>6. ASSUME NEW t \in Threads, Read(t) PROVE TypeOK' /\ ThreadsOK'
  <2>1. positions # {} => (CHOOSE p \in positions : TRUE) \in SUBSET Stocks
    BY DEF TypeOK
  <2>2. Open(book) \in SUBSET Stocks
    BY DEF Open
  <2>3. thread[t].then \in {"resubscribe", "drawn"} /\ thread[t].at # "subscribed"
    BY <1>1, <1>6 DEF Read, ThreadsOK
  <2>4. ThreadsOK'
    BY <1>5, <1>6, <2>1, <2>2, <2>3 DEF Read, feed
  <2> QED
    BY <1>6, <2>4 DEF Read, TypeOK, table, feed
<1>7. ASSUME NEW t \in Threads, Keep(t) PROVE TypeOK' /\ ThreadsOK'
  <2>1. thread[t].then \in {"resubscribe", "drawn"} /\ thread[t].at # "subscribed"
    BY <1>1, <1>7 DEF Keep, ThreadsOK
  <2>2. ThreadsOK'
    BY <1>1, <1>5, <1>7, <2>1 DEF Keep, feed
  <2>3. Cardinality({thread[t].rows}) = 1
    BY FS_Singleton
  <2> QED
    BY <1>1, <1>7, <2>2, <2>3 DEF Keep, TypeOK, feed
<1>8. ASSUME NEW t \in Threads, Resubscribe(t) \/ HubRefuses(t) PROVE TypeOK' /\ ThreadsOK'
  <2>1. Wanted(t) \in SUBSET Stocks
    BY <1>1 DEF Wanted, TypeOK
  <2>2. ThreadsOK'
    BY <1>4, <1>5, <1>8, <2>1 DEF Resubscribe, HubRefuses, feed
  <2> QED
    BY <1>8, <2>2 DEF Resubscribe, HubRefuses, Believed, TypeOK, table, feed
<1>9. ASSUME NEW t \in Threads,
             NEW has \in {<<>>} \cup {<<i>> : i \in {0} \cup DOMAIN hub'},
             thread[t].at = "hub", DOMAIN hub \subseteq DOMAIN hub', Holds(t, has)
      PROVE  ThreadsOK'
  <2> DEFINE r == [at |-> "subscribed", rows |-> thread[t].rows, then |-> thread[t].then,
                   has |-> has]
  <2>1. r \in HeldThread'
    BY <1>1 DEF HeldThread
  <2>2. thread' = [thread EXCEPT ![t] = r]
    BY <1>1, <1>9 DEF Holds, At
  <2> QED
    BY <1>9, <2>1, <2>2, ThreadSet
<1>11. ASSUME NEW t \in Threads, Unsubscribe(t) PROVE TypeOK' /\ ThreadsOK'
  <2>1. thread[t].at = "hub" /\ DOMAIN hub' = DOMAIN hub /\ hub' \in Seq(SUBSET Stocks)
    <3>1. subscription \in {0} \cup DOMAIN hub
      BY DEF TypeOK
    <3> QED
      BY <1>1, <1>11, <3>1, HubSet DEF Unsubscribe
  <2>2. PICK has \in {<<>>, <<0>>} : Holds(t, has)
    BY <1>11 DEF Unsubscribe
  <2>3. has \in {<<>>} \cup {<<i>> : i \in {0} \cup DOMAIN hub'}
    OBVIOUS
  <2>4. ThreadsOK'
    BY <1>9, <2>1, <2>2, <2>3
  <2> QED
    BY <1>11, <2>1, <2>4 DEF Unsubscribe, TypeOK, table
<1>12. ASSUME NEW t \in Threads, UpdateSubscription(t) PROVE TypeOK' /\ ThreadsOK'
  <2>1. thread[t].at = "hub" /\ DOMAIN hub' = DOMAIN hub /\ hub' \in Seq(SUBSET Stocks)
    <3>1. subscription \in {0} \cup DOMAIN hub
      BY DEF TypeOK
    <3> QED
      BY <1>1, <1>12, <3>1, HubSet DEF UpdateSubscription
  <2>2. Holds(t, <<>>)
    BY <1>1, <1>12 DEF UpdateSubscription, Goto, Holds, At
  <2>3. ThreadsOK'
    BY <1>9, <2>1, <2>2
  <2> QED
    BY <1>12, <2>1, <2>3 DEF UpdateSubscription, TypeOK, table
<1>13. ASSUME NEW t \in Threads, Subscribe(t) PROVE TypeOK' /\ ThreadsOK'
  <2>1. PICK i : SubscribesAs(t, i)
    BY <1>13, SubscribesOnce
  <2>2. thread[t].at = "hub" /\ thread[t].rows \in SUBSET Stocks
    BY <1>1, <1>13 DEF Subscribe
  <2>3. i \in DOMAIN hub' /\ DOMAIN hub \subseteq DOMAIN hub' /\ hub' \in Seq(SUBSET Stocks)
    BY <2>1, <2>2, HubSet, SMTT(30) DEF SubscribesAs
  <2>4. ThreadsOK'
    BY <1>9, <2>1, <2>2, <2>3 DEF SubscribesAs
  <2> QED
    BY <1>13, <2>3, <2>4 DEF Subscribe, TypeOK, table
<1>14. ASSUME NEW t \in Threads, Subscribed(t) PROVE TypeOK' /\ ThreadsOK'
  <2>1. ThreadsOK'
    BY <1>4, <1>14 DEF Subscribed
  <2>2. thread[t].has = <<>> \/ \E i \in {0} \cup DOMAIN hub : thread[t].has = <<i>>
    BY <1>1 DEF HeldThread
  <2>3. subscription' \in {0} \cup DOMAIN hub
    BY <1>14, <2>2 DEF Subscribed, TypeOK
  <2> QED
    BY <1>1, <1>14, <2>1, <2>3 DEF Subscribed, TypeOK, table
<1>15. ASSUME NEW symbol \in {{}} \cup {{s} : s \in Stocks}, Watch(symbol)
       PROVE  TypeOK' /\ ThreadsOK'
  <2>1. symbol \subseteq Stocks /\ Cardinality(symbol) <= 1
    <3>1. Cardinality({}) = 0 /\ \A s \in Stocks : Cardinality({s}) = 1
      BY FS_EmptySet, FS_Singleton
    <3> QED
      BY <3>1
  <2>2. ThreadsOK'
    BY <1>1, <1>3, <1>15 DEF Watch, feed
  <2> QED
    BY <1>15, <2>1, <2>2 DEF Watch, TypeOK, table, feed
<1>16. CASE Frame \/ Drawn \/ Cancelled
  <2>1. ThreadsOK'
    BY <1>1, <1>3, <1>4, <1>16 DEF Frame, Drawn, Cancelled, feed, ThreadsOK, HeldThread
  <2> QED
    BY <1>16, <2>1 DEF Frame, Drawn, Cancelled, TypeOK, table, feed
<1>17. ASSUME NEW t \in Threads, Changed(t), UNCHANGED <<watched, feed>>,
              book' \in [Stocks -> {NoRow, "manual", "dhan"}]
       PROVE  TypeOK' /\ ThreadsOK'
  <2>1. ThreadsOK'
    BY <1>3, <1>17 DEF Changed, feed
  <2>2. positions' = {} /\ Cardinality({}) = 0
    BY <1>17, FS_EmptySet DEF Changed, Forgotten
  <2> QED
    BY <1>17, <2>1, <2>2 DEF TypeOK, feed
<1>18. CASE Reload
  BY <1>1, <1>17, <1>18 DEF Reload, TypeOK
<1>19. ASSUME NEW s \in Stocks, Dialogs(s) PROVE TypeOK' /\ ThreadsOK'
  <2>1. \/ /\ Changed("ui") /\ UNCHANGED <<watched, feed>>
           /\ book' \in [Stocks -> {NoRow, "manual", "dhan"}]
        \/ UNCHANGED <<table, thread, watched, feed>>
    BY <1>19
    DEF Dialogs, TakeTrade, EditPosition, ClosePosition, DeletePosition, Ask, TradeTaken,
        PositionEdited, PositionClosed, PositionDeleted, Refused, TypeOK
  <2>2. CASE UNCHANGED <<table, thread, watched, feed>>
    BY <2>2 DEF TypeOK, ThreadsOK, HeldThread, table, feed
  <2> QED
    BY <1>1, <1>17, <2>1, <2>2
<1>20. ASSUME NEW s \in Stocks, SyncWrites(s) PROVE TypeOK' /\ ThreadsOK'
  <2>1. ThreadsOK'
    BY <1>1, <1>3, <1>20 DEF SyncWrites, feed
  <2>2. book' \in [Stocks -> {NoRow, "manual", "dhan"}]
    BY <1>20 DEF SyncWrites, TypeOK
  <2> QED
    BY <1>20, <2>1, <2>2 DEF SyncWrites, TypeOK, feed
<1> QED
  BY <1>6, <1>7, <1>8, <1>11, <1>12, <1>13, <1>14, <1>15, <1>16, <1>18, <1>19, <1>20
  DEF Next, Steps, OneThread
-----------------------------------------------------------------------------
(* What is exact as long as the threads take turns.                        *)

\* One thread at most is in the midst of a call.
LEMMA Alone ==
  ASSUME NEW f, \E t \in Threads : f[t] = Idle, NEW t \in Threads, f[t].at # "idle"
  PROVE  \A u \in Threads \ {t} : f[u] = Idle /\ f[u].at = "idle"
BY DEF Threads, Idle, At

\* A step that is not the hub's nor keeps its answer leaves the subscription so.
LEMMA FeedKept ==
  ASSUME HubFollows, UNCHANGED feed,
         \A u \in Threads : \/ thread'[u] = thread[u]
                            \/ thread[u].at # "subscribed" /\ thread'[u].at # "subscribed"
  PROVE  HubFollows'
<1>1. \A i, keys : Streams(i, keys)' <=> Streams(i, keys)
  BY DEF Streams, feed
<1>2. subscription' = subscription /\ subscribed' = subscribed
  BY DEF feed
<1>3. ASSUME \A t \in Threads : thread'[t].at # "subscribed"
      PROVE  Streams(subscription, subscribed)'
  BY <1>1, <1>2, <1>3 DEF HubFollows, Streams, feed
<1>4. ASSUME NEW t \in Threads, thread'[t].at = "subscribed"
      PROVE  Streams(Given(t), thread[t].rows)'
  BY <1>1, <1>2, <1>4 DEF HubFollows, Given, Streams, feed
<1> QED
  BY <1>3, <1>4 DEF HubFollows

\* What the hub does is what the thread holds.
LEMMA HubKeeps ==
  ASSUME BookInv, Next, ~overlapped
  PROVE  HubFollows'
<1>1. TypeOK /\ ThreadsOK /\ OneInside /\ HubFollows
  BY DEF BookInv
<1>2. thread \in [Threads -> HeldThread] /\ Threads = {"ui", "sync"}
  BY <1>1 DEF ThreadsOK, Threads
<1>3. ASSUME NEW t \in Threads, NEW r, thread' = [thread EXCEPT ![t] = r],
             thread[t].at # "subscribed", r.at # "subscribed", UNCHANGED feed
      PROVE  HubFollows'
  <2>1. thread'[t] = r /\ \A u \in Threads \ {t} : thread'[u] = thread[u]
    BY <1>2, <1>3
  <2>2. \A u \in Threads : \/ thread'[u] = thread[u]
                           \/ thread[u].at # "subscribed" /\ thread'[u].at # "subscribed"
    BY <1>3, <2>1
  <2> HIDE DEF feed
  <2> QED
    BY <1>1, <1>3, <2>2, FeedKept
<1>4. ASSUME NEW t \in Threads, thread[t].at = "hub", NEW has, Holds(t, has)
      PROVE  /\ Streams(subscription, subscribed)
             /\ thread'[t].has = has /\ thread'[t].rows = thread[t].rows
             /\ thread'[t].at = "subscribed"
             /\ \A u \in Threads \ {t} : thread'[u].at = "idle"
             /\ Streams(Given(t), thread[t].rows)' => HubFollows'
  <2>1. \A u \in Threads \ {t} : thread[u].at = "idle"
    BY <1>1, <1>4, Alone DEF OneInside
  <2>2. Streams(subscription, subscribed)
    BY <1>1, <1>4, <2>1 DEF HubFollows
  <2>3. /\ thread'[t].has = has /\ thread'[t].rows = thread[t].rows
        /\ thread'[t].at = "subscribed"
    BY <1>2, <1>4 DEF Holds
  <2>4. \A u \in Threads \ {t} : thread'[u].at = "idle"
    BY <1>2, <1>4, <2>1 DEF Holds
  <2>5. ASSUME Streams(Given(t), thread[t].rows)' PROVE HubFollows'
    BY <2>3, <2>4, <2>5 DEF HubFollows
  <2> QED
    BY <2>2, <2>3, <2>4, <2>5
<1>5. ASSUME NEW t \in Threads, Read(t) \/ Keep(t) \/ Resubscribe(t) \/ HubRefuses(t)
      PROVE  HubFollows'
  <2>1. UNCHANGED feed /\ thread[t].at # "subscribed"
    BY <1>5 DEF Read, Keep, Resubscribe, HubRefuses, Believed, feed
  <2>2. thread[t].at \in {"positions", "keep"} => thread[t].then # "subscribed"
    BY <1>1, <1>2 DEF HeldThread
  <2>3. \/ Done(t)
        \/ \E at, kept : Goto(t, at, kept) /\ at # "subscribed"
    BY <1>5, <2>2 DEF Read, Keep, Resubscribe, HubRefuses
  <2>4. \E r : thread' = [thread EXCEPT ![t] = r] /\ r.at # "subscribed"
    BY <1>2, <2>3 DEF Done, Goto, Idle, At
  <2> QED
    BY <1>3, <2>1, <2>4
<1>6. ASSUME NEW t \in Threads, Unsubscribe(t) PROVE HubFollows'
  <2>1. PICK has \in {<<>>, <<0>>} :
           Holds(t, has) /\ (has = <<>> => subscription = 0) /\ subscription' = subscription
    BY <1>6 DEF Unsubscribe
  <2>2. thread[t].at = "hub" /\ thread[t].rows = {}
    BY <1>6 DEF Unsubscribe
  <2>3. Given(t)' = 0
    BY <1>4, <2>1, <2>2 DEF Given
  <2>4. Streams(subscription, subscribed) /\ subscription \in {0} \cup DOMAIN hub
    BY <1>1, <1>4, <2>1, <2>2 DEF TypeOK
  <2>5. \A i \in DOMAIN hub' : hub'[i] = {}
    BY <1>1, <1>6, <2>4, HubSet DEF Unsubscribe, Streams
  <2>6. Streams(Given(t), thread[t].rows)'
    BY <1>4, <2>1, <2>2, <2>5 DEF Streams
  <2> QED
    BY <1>4, <2>1, <2>2, <2>6
<1>7. ASSUME NEW t \in Threads, UpdateSubscription(t) PROVE HubFollows'
  <2>1. Holds(t, <<>>)
    BY <1>2, <1>7 DEF UpdateSubscription, Goto, Holds, At
  <2>2. thread[t].at = "hub" /\ subscription' = subscription
        /\ hub' = [hub EXCEPT ![subscription] = thread[t].rows]
    BY <1>7 DEF UpdateSubscription
  <2>3. Given(t)' = subscription
    BY <1>4, <2>1, <2>2 DEF Given
  <2>4. Streams(subscription, subscribed) /\ subscription \in DOMAIN hub
    BY <1>1, <1>4, <1>7, <2>1, <2>2 DEF TypeOK, UpdateSubscription
  <2>5. \A i \in DOMAIN hub' : hub'[i] = IF i = subscription THEN thread[t].rows ELSE {}
    BY <2>2, <2>4 DEF Streams
  <2>6. Streams(Given(t), thread[t].rows)'
    BY <1>4, <2>1, <2>2, <2>3, <2>5 DEF Streams
  <2> QED
    BY <1>4, <2>1, <2>2, <2>6
<1>8. ASSUME NEW t \in Threads, Subscribe(t) PROVE HubFollows'
  <2>1. PICK i : SubscribesAs(t, i)
    BY <1>1, <1>8, SubscribesOnce
  <2>2. thread[t].at = "hub" /\ subscription = 0 /\ thread[t].rows \in SUBSET Stocks
    BY <1>2, <1>8 DEF Subscribe, HeldThread
  <2>3. Streams(subscription, subscribed) /\ Given(t)' = i
    BY <1>4, <2>1, <2>2 DEF Given, SubscribesAs
  <2>4. \A j \in DOMAIN hub : hub[j] = {}
    <3>1. 0 \notin DOMAIN hub
      BY <1>1, <2>2, HubSet
    <3> QED
      BY <2>2, <2>3, <3>1 DEF Streams
  <2>5. \A j \in DOMAIN hub' : hub'[j] = IF j = i THEN thread[t].rows ELSE {}
    <3>1. /\ DOMAIN hub = 1 .. Len(hub) /\ Len(hub) \in Nat
          /\ hub \in Seq(SUBSET Stocks)
          /\ DOMAIN Append(hub, thread[t].rows) = 1 .. Len(hub) + 1
      BY <1>1, <2>2, HubSet DEF TypeOK
    <3>2. CASE i \in DOMAIN hub
      BY <2>1, <2>4, <3>2 DEF SubscribesAs
    <3>3. CASE i \notin DOMAIN hub
      <4>1. i = Len(hub) + 1 /\ hub' = Append(hub, thread[t].rows)
        BY <2>1, <3>1, <3>3 DEF SubscribesAs
      <4>2. /\ \A j \in 1 .. Len(hub) : Append(hub, thread[t].rows)[j] = hub[j]
            /\ Append(hub, thread[t].rows)[Len(hub) + 1] = thread[t].rows
        BY <2>2, <3>1, AppendProperties
      <4>3. \A j \in DOMAIN hub' : j \in DOMAIN hub \/ j = Len(hub) + 1
        BY <3>1, <4>1
      <4>4. \A j \in DOMAIN hub : j # i
        BY <3>1, <4>1
      <4> QED
        BY <2>4, <3>1, <4>1, <4>2, <4>3, <4>4
    <3> QED
      BY <3>2, <3>3
  <2>6. Streams(Given(t), thread[t].rows)'
    BY <1>4, <2>1, <2>2, <2>3, <2>5 DEF Streams, SubscribesAs
  <2> QED
    BY <1>4, <2>1, <2>2, <2>6 DEF SubscribesAs
<1>9. ASSUME NEW t \in Threads, Subscribed(t) PROVE HubFollows'
  <2>1. /\ thread[t].at = "subscribed" /\ subscription' = Given(t)
        /\ subscribed' = thread[t].rows /\ hub' = hub
    BY <1>9 DEF Subscribed, Given
  <2>2. Streams(subscription, subscribed)'
    BY <1>1, <2>1 DEF HubFollows, Streams
  <2>3. \A u \in Threads : thread'[u].at = "idle"
    <3>1. \A u \in Threads \ {t} : thread[u].at = "idle"
      BY <1>1, <2>1, Alone DEF OneInside
    <3>2. \A u \in Threads : thread'[u] = IF u = t THEN Idle ELSE thread[u]
      BY <1>2, <1>9 DEF Subscribed, Done
    <3> QED
      BY <3>1, <3>2 DEF Idle, At
  <2> QED
    BY <2>2, <2>3 DEF HubFollows
<1>10. ASSUME NEW t \in Threads, NEW at \in {"positions", "reload"}, NEW then,
              thread' = [thread EXCEPT ![t] = At(at, {}, then)],
              thread[t].at # "subscribed", UNCHANGED feed
       PROVE  HubFollows'
  <2>1. At(at, {}, then).at # "subscribed"
    BY DEF At
  <2> QED
    BY <1>3, <1>10, <2>1
<1>11. ASSUME thread' = thread, UNCHANGED feed PROVE HubFollows'
  <2>1. \A u \in Threads : thread'[u] = thread[u]
    BY <1>11
  <2> QED
    BY <1>1, <1>11, <2>1, FeedKept
<1>12. ASSUME NEW symbol, Watch(symbol) PROVE HubFollows'
  <2>1. /\ thread' = [thread EXCEPT !["ui"] = At("positions", {}, "resubscribe")]
        /\ feed' = feed /\ thread["ui"] = Idle
    BY <1>12 DEF Watch
  <2>2. thread["ui"].at # "subscribed" /\ "ui" \in Threads
    BY <1>2, <2>1 DEF Idle, At
  <2> QED
    BY <1>10, <2>1, <2>2
<1>13. CASE Frame \/ Reload
  BY <1>2, <1>10, <1>13 DEF Frame, Reload, Changed, Idle, At
<1>14. CASE Drawn \/ Cancelled
  BY <1>2, <1>3, <1>11, <1>14 DEF Drawn, Cancelled, Done, Idle, At
<1>15. ASSUME NEW s \in Stocks, Dialogs(s) PROVE HubFollows'
  <2>1. \/ Changed("ui") /\ thread["ui"] = Idle /\ UNCHANGED feed
        \/ thread' = thread /\ UNCHANGED feed
    BY <1>15
    DEF Dialogs, TakeTrade, EditPosition, ClosePosition, DeletePosition, Ask, TradeTaken,
        PositionEdited, PositionClosed, PositionDeleted, Refused, Answered
  <2>2. thread["ui"] = Idle => thread["ui"].at # "subscribed"
    BY DEF Idle, At
  <2> QED
    BY <1>2, <1>10, <1>11, <2>1, <2>2 DEF Changed
<1>16. ASSUME NEW s \in Stocks, SyncWrites(s) PROVE HubFollows'
  <2>1. /\ thread' = [thread EXCEPT !["sync"] = At("reload", {}, "none")]
        /\ feed' = feed /\ thread["sync"] = Idle
    BY <1>16 DEF SyncWrites
  <2>2. thread["sync"].at # "subscribed" /\ "sync" \in Threads
    BY <1>2, <2>1 DEF Idle, At
  <2> QED
    BY <1>10, <2>1, <2>2
<1> QED
  BY <1>5, <1>6, <1>7, <1>8, <1>9, <1>12, <1>13, <1>14, <1>15, <1>16
  DEF Next, Steps, OneThread

\* A step that leaves the table and the list, and puts no other kept in hand.
LEMMA ListKept ==
  ASSUME ListFollows, UNCHANGED table,
         \A u \in Threads : \/ thread'[u] = thread[u]
                            \/ thread[u].at # "reload" /\ thread'[u].at # "keep"
  PROVE  ListFollows'
<1>1. positions' = positions /\ Open(book)' = Open(book) /\ "sync" \in Threads
  BY DEF table, Open, Threads
<1> QED
  BY <1>1 DEF ListFollows

\* The list that is kept is the table's: a change forgets it, and no other
\* thread has an older one in hand.
LEMMA ListKeeps ==
  ASSUME BookInv, Next, ~overlapped, OneInside'
  PROVE  ListFollows'
<1>1. TypeOK /\ ThreadsOK /\ OneInside /\ ListFollows
  BY DEF BookInv
<1>2. thread \in [Threads -> HeldThread] /\ Threads = {"ui", "sync"}
  BY <1>1 DEF ThreadsOK, Threads
<1>3. ASSUME NEW t \in Threads, NEW r, thread' = [thread EXCEPT ![t] = r],
             thread[t].at # "reload", r.at # "keep", UNCHANGED table
      PROVE  ListFollows'
  <2>1. thread'[t] = r /\ \A u \in Threads \ {t} : thread'[u] = thread[u]
    BY <1>2, <1>3
  <2>2. \A u \in Threads : \/ thread'[u] = thread[u]
                           \/ thread[u].at # "reload" /\ thread'[u].at # "keep"
    BY <1>3, <2>1
  <2> QED
    BY <1>1, <1>3, <2>2, ListKept
<1>4. ASSUME NEW t \in Threads, Changed(t) PROVE ListFollows'
  <2>1. thread'[t] = At("positions", {}, "resubscribe")
    BY <1>2, <1>4 DEF Changed
  <2>2. \A u \in Threads \ {t} : thread'[u].at = "idle"
    BY <2>1, Alone DEF OneInside, At
  <2>3. \A u \in Threads : thread'[u].at # "keep"
    BY <2>1, <2>2 DEF At
  <2>4. positions' = {}
    BY <1>4 DEF Changed, Forgotten
  <2> QED
    BY <2>3, <2>4 DEF ListFollows
<1>5. ASSUME NEW t \in Threads, Read(t) PROVE ListFollows'
  <2>1. thread[t].at = "positions" /\ thread[t].then \notin {"keep", "reload"}
    BY <1>2, <1>5 DEF Read, HeldThread
  <2>2. UNCHANGED table
    BY <1>5 DEF Read
  <2>3. CASE positions # {}
    <3>1. PICK kept : Goto(t, thread[t].then, kept)
      BY <1>5, <2>3 DEF Read
    <3>2. thread' = [thread EXCEPT ![t] = At(thread[t].then, kept, thread[t].then)]
      BY <1>2, <3>1 DEF Goto
    <3>3. At(thread[t].then, kept, thread[t].then).at # "keep"
      BY <2>1 DEF At
    <3> QED
      BY <1>3, <2>1, <2>2, <3>2, <3>3
  <2>4. CASE positions = {}
    <3>1. \A u \in Threads \ {t} : thread[u].at = "idle"
      BY <1>1, <2>1, Alone DEF OneInside
    <3>2. thread'[t].at = "keep" /\ thread'[t].rows = Open(book)
          /\ \A u \in Threads \ {t} : thread'[u] = thread[u]
      BY <1>2, <1>5, <2>4 DEF Read, Goto, At
    <3>3. positions' = {} /\ Open(book)' = Open(book)
      BY <2>2, <2>4 DEF table, Open
    <3> QED
      BY <3>1, <3>2, <3>3 DEF ListFollows
  <2> QED
    BY <2>3, <2>4
<1>6. ASSUME NEW t \in Threads, Keep(t) PROVE ListFollows'
  <2>1. thread[t].at = "keep" /\ thread[t].then # "keep"
    BY <1>2, <1>6 DEF Keep, HeldThread
  <2>2. positions' = {Open(book)} /\ Open(book)' = Open(book)
    BY <1>1, <1>6, <2>1 DEF Keep, ListFollows, Open
  <2>3. \A u \in Threads \ {t} : thread[u].at = "idle"
    BY <1>1, <2>1, Alone DEF OneInside
  <2>4. thread'[t].at # "keep" /\ \A u \in Threads \ {t} : thread'[u] = thread[u]
    BY <1>2, <1>6, <2>1 DEF Keep, Goto, At
  <2> QED
    BY <2>2, <2>3, <2>4 DEF ListFollows
<1>7. ASSUME NEW t \in Threads, Resubscribe(t) \/ HubRefuses(t) \/ UpdateSubscription(t)
      PROVE  ListFollows'
  <2>1. UNCHANGED table /\ thread[t].at # "reload"
    BY <1>7 DEF Resubscribe, HubRefuses, UpdateSubscription, table
  <2>2. Done(t) \/ \E at, kept : Goto(t, at, kept) /\ at # "keep"
    BY <1>7 DEF Resubscribe, HubRefuses, UpdateSubscription
  <2>3. \E r : thread' = [thread EXCEPT ![t] = r] /\ r.at # "keep"
    BY <1>2, <2>2 DEF Done, Goto, Idle, At
  <2> QED
    BY <1>3, <2>1, <2>3
<1>8. ASSUME NEW t \in Threads, NEW has, thread[t].at # "reload", Holds(t, has), UNCHANGED table
      PROVE  ListFollows'
  <2> DEFINE r == [at |-> "subscribed", rows |-> thread[t].rows, then |-> thread[t].then,
                   has |-> has]
  <2>1. thread' = [thread EXCEPT ![t] = r] /\ r.at # "keep"
    BY <1>2, <1>8 DEF Holds
  <2> QED
    BY <1>3, <1>8, <2>1
<1>9. ASSUME NEW t \in Threads, Unsubscribe(t) \/ Subscribe(t) PROVE ListFollows'
  <2>1. thread[t].at # "reload" /\ UNCHANGED table /\ \E has : Holds(t, has)
    <3>1. CASE Unsubscribe(t)
      BY <3>1 DEF Unsubscribe, table
    <3>2. CASE Subscribe(t)
      <4>1. PICK i : SubscribesAs(t, i)
        BY <1>1, <3>2, SubscribesOnce
      <4> QED
        BY <3>2, <4>1 DEF SubscribesAs, Subscribe, table
    <3> QED
      BY <1>9, <3>1, <3>2
  <2> QED
    BY <1>8, <2>1
<1>10. ASSUME NEW t \in Threads, Done(t), thread[t].at # "reload", UNCHANGED table
       PROVE  ListFollows'
  <2>1. Idle.at # "keep"
    BY DEF Idle, At
  <2> QED
    BY <1>3, <1>10, <2>1 DEF Done
<1>11. ASSUME NEW t \in Threads, Subscribed(t) PROVE ListFollows'
  BY <1>10, <1>11 DEF Subscribed, table
<1>12. ASSUME NEW symbol, Watch(symbol) \/ Frame PROVE ListFollows'
  <2>1. /\ "ui" \in Threads /\ UNCHANGED table /\ thread["ui"].at # "reload"
        /\ \E then : thread' = [thread EXCEPT !["ui"] = At("positions", {}, then)]
    BY <1>2, <1>12 DEF Watch, Frame, table, Idle, At
  <2>2. \A then : At("positions", {}, then).at # "keep"
    BY DEF At
  <2> QED
    BY <1>3, <2>1, <2>2
<1>13. ASSUME thread' = thread, UNCHANGED table PROVE ListFollows'
  <2>1. \A u \in Threads : thread'[u] = thread[u]
    BY <1>13
  <2> QED
    BY <1>1, <1>13, <2>1, ListKept
<1>14. CASE Drawn \/ Cancelled
  <2>1. \/ /\ Done("ui") /\ "ui" \in Threads /\ thread["ui"].at # "reload"
           /\ UNCHANGED table
        \/ thread' = thread /\ UNCHANGED table
    BY <1>2, <1>14 DEF Drawn, Cancelled, table
  <2> QED
    BY <1>10, <1>13, <2>1
<1>15. CASE Reload
  BY <1>2, <1>4, <1>15 DEF Reload
<1>16. ASSUME NEW s \in Stocks, Dialogs(s) PROVE ListFollows'
  <2>1. Changed("ui") \/ (thread' = thread /\ UNCHANGED table)
    BY <1>16
    DEF Dialogs, TakeTrade, EditPosition, ClosePosition, DeletePosition, Ask, TradeTaken,
        PositionEdited, PositionClosed, PositionDeleted, Refused, Answered
  <2> QED
    BY <1>2, <1>4, <1>13, <2>1
<1>17. ASSUME NEW s \in Stocks, SyncWrites(s) PROVE ListFollows'
  <2>1. /\ thread' = [thread EXCEPT !["sync"] = At("reload", {}, "none")]
        /\ "sync" \in Threads
    BY <1>2, <1>17 DEF SyncWrites
  <2>2. thread'["sync"].at = "reload"
    BY <1>2, <2>1 DEF At
  <2>3. \A u \in Threads \ {"sync"} : thread'[u].at = "idle"
    BY <2>1, <2>2, Alone DEF OneInside
  <2> QED
    BY <2>1, <2>2, <2>3 DEF ListFollows
<1> QED
  BY <1>5, <1>6, <1>7, <1>9, <1>11, <1>12, <1>14, <1>15, <1>16, <1>17
  DEF Next, Steps, OneThread

\* Whatever the threads do: the types, and the book as long as they took turns.
THEOREM Invariant == Spec => []BookInv
<1>1. ASSUME Init PROVE BookInv
  <2>1. TypeOK
    <3>1. Cardinality({}) = 0 /\ <<>> \in Seq(SUBSET Stocks)
      BY FS_EmptySet
    <3> QED
      BY <1>1, <3>1 DEF Init, TypeOK
  <2>2. ThreadsOK
    BY <1>1 DEF Init, ThreadsOK, HeldThread, Idle, At
  <2>3. OneInside /\ HubFollows /\ ListFollows
    <3>1. \A t \in Threads : thread[t] = Idle /\ thread[t].at = "idle"
      BY <1>1 DEF Init, Idle, At
    <3>2. Threads # {} /\ positions = {} /\ DOMAIN hub = {}
      BY <1>1 DEF Init, Threads
    <3> QED
      BY <3>1, <3>2 DEF OneInside, HubFollows, ListFollows, Streams
  <2> QED
    BY <2>1, <2>2, <2>3 DEF BookInv
<1>2. ASSUME BookInv, [Next]_vars PROVE BookInv'
  <2>1. CASE UNCHANGED vars
    BY <1>2, <2>1
    DEF vars, table, feed, BookInv, TypeOK, ThreadsOK, HeldThread, OneInside, HubFollows,
        ListFollows, Streams, Given, Open
  <2>2. CASE Next
    <3>1. TypeOK' /\ ThreadsOK'
      BY <1>2, <2>2, BookTypes DEF BookInv
    <3>2. ASSUME ~overlapped' PROVE ~overlapped /\ OneInside'
      BY <2>2, <3>2 DEF Next, OneInside
    <3> QED
      BY <1>2, <2>2, <3>1, <3>2, HubKeeps, ListKeeps DEF BookInv
  <2> QED
    BY <1>2, <2>1, <2>2
<1> QED
  BY <1>1, <1>2, PTL DEF Spec

\* Once no thread is in the service, one subscription at the hub streams what
\* the service believes, and the list that is drawn is the table's: as long as
\* a sync and the tab never were in it at a time (RiskService._resubscribe and
\* positions, services/risk.py).
THEOREM BookAlwaysSound == Spec => []BookSound
<1>1. ASSUME BookInv PROVE BookSound
  <2>1. ASSUME Quiet PROVE \A t \in Threads : thread[t].at = "idle"
    BY <2>1 DEF Quiet, Idle, At
  <2>2. "sync" \in Threads
    BY DEF Threads
  <2>3. TypeOK /\ OneSubscriptionApart
    BY <1>1, <2>1 DEF BookInv, OneSubscriptionApart, OneSubscription, HubFollows, Streams
  <2>4. DrawnIsCurrent
    BY <1>1, <2>1, <2>2 DEF BookInv, DrawnIsCurrent, ListFollows
  <2> QED
    BY <2>3, <2>4 DEF BookSound
<1> QED
  BY <1>1, Invariant, PTL

\* The broker's row goes by a sync or by the user's deleting it: a dialog that
\* was opened on a row of the user's own does not close it (close_position).
THEOREM BrokerAlwaysOwns == Spec => BrokerOwns
<1> DEFINE Owns ==
      \A s \in Stocks :
         book[s] = "dhan" /\ book'[s] # "dhan"
         => dialog = [kind |-> "delete", stock |-> s] \/ thread'["sync"] # thread["sync"]
<1>1. ASSUME BookInv, [Next]_vars PROVE [Owns]_vars
  <2>1. /\ book \in [Stocks -> {NoRow, "manual", "dhan"}] /\ "sync" \in Threads
        /\ thread \in [Threads -> HeldThread]
    BY <1>1 DEF BookInv, TypeOK, ThreadsOK, Threads
  <2>2. ASSUME book' = book PROVE Owns
    BY <2>2
  <2>3. ASSUME NEW t \in Threads, OneThread(t) PROVE Owns
    BY <2>2, <2>3
    DEF OneThread, Read, Keep, Resubscribe, HubRefuses, Unsubscribe, UpdateSubscription,
        Subscribe, Subscribed, table
  <2>4. ASSUME NEW symbol, Watch(symbol) \/ Frame \/ Drawn \/ Cancelled \/ Reload PROVE Owns
    BY <2>2, <2>4 DEF Watch, Frame, Drawn, Cancelled, Reload, table
  <2>5. ASSUME NEW s \in Stocks, Dialogs(s) PROVE Owns
    <3>1. CASE TradeTaken(s)
      BY <2>1, <3>1 DEF TradeTaken, NoRow
    <3>2. CASE PositionClosed(s)
      BY <2>1, <2>2, <3>2 DEF PositionClosed, CanClose, Refused, table
    <3>3. CASE PositionDeleted(s)
      BY <2>1, <3>3 DEF PositionDeleted, Answered
    <3>4. CASE TakeTrade(s) \/ EditPosition(s) \/ ClosePosition(s) \/ DeletePosition(s)
      BY <2>2, <3>4 DEF TakeTrade, EditPosition, ClosePosition, DeletePosition, Ask, table
    <3>5. CASE PositionEdited(s)
      BY <2>2, <3>5 DEF PositionEdited, Refused, table
    <3> QED
      BY <2>5, <3>1, <3>2, <3>3, <3>4, <3>5 DEF Dialogs
  <2>6. ASSUME NEW s \in Stocks, SyncWrites(s) PROVE Owns
    <3>1. thread'["sync"].at = "reload" /\ thread["sync"].at = "idle"
      BY <2>1, <2>6 DEF SyncWrites, Idle, At
    <3> QED
      BY <3>1
  <2> HIDE DEF Owns
  <2> QED
    BY <1>1, <2>3, <2>4, <2>5, <2>6 DEF Next, Steps
<1> QED
  BY <1>1, Invariant, PTL DEF Spec, BrokerOwns

-----------------------------------------------------------------------------
(* The shell.                                                               *)

shellState == Shell!vars

ListNames == Shell!Range(Names)

Databases ==
    [lists : UNION {[s -> Symbols] : s \in SUBSET ListNames},
     active : ListNames \cup {Shell!NoName}, seeded : BOOLEAN]

DialogRecord ==
    {d \in [kind : {"save", "delete", "name", "replace"},
            list : ListNames \cup {Shell!NoName}, taken : SUBSET ListNames] :
       d.kind \in {"delete", "replace"} => d.list # Shell!NoName}

TabRecord ==
    [at : {"unbuilt", "broken", "mounting", "mounted"}, active : BOOLEAN,
     timer : {"none", "paused", "runs", "stopped"}, failed : BOOLEAN, shows : Shell!Lists]

\* A tab that is mounted, or will be, knows whether it is in front; until then it has
\* no timer, and then one that runs in front and pauses behind.
TabOK(t) ==
    LET tab == tabs[t] IN
    /\ tab.at = "unbuilt" => tab = Shell!Unbuilt
    /\ tab.at \in {"mounting", "mounted"} => (tab.active <=> t = front)
    /\ tab.at # "mounted" => tab.timer = "none" /\ ~tab.failed
    /\ tab.at = "mounted" /\ ~tab.failed => tab.timer = IF t = front THEN "runs" ELSE "paused"

\* Nothing of the screen outlives the process.
Gone == ~running => dialogs = <<>> /\ front = FirstTab /\ tabs = [t \in Tabs |-> Shell!Unbuilt]

ShellInv ==
    /\ Shell!TypeOK
    /\ Shell!OpenListSaved
    /\ Shell!TabsShowList
    /\ \A t \in Tabs : TabOK(t)
    /\ Gone

\* What the four properties say of one step.
OpenRemembered ==
    running /\ running' /\ watchlist' # watchlist
    => watchlist' = Shell!Get(db', Shell!Initial(db'))

NoneLost ==
    \A n \in Shell!Saved(db) \ Shell!Saved(db') :
       \/ Shell!Ask("delete")
       \/ Shell!Ask("save") /\ Shell!Top.list = n /\ Shell!Saved(db') \ Shell!Saved(db) # {}

KeptAsSaved ==
    \A n \in Shell!Saved(db) \cap Shell!Saved(db') :
       db'.lists[n] # db.lists[n]
       => dialogs # <<>> /\ Shell!Top.kind \in {"save", "replace"} /\ Shell!Top.list = n

SeededOnce == ~running /\ Shell!Saved(db') # Shell!Saved(db) => ~db.seeded

ListStep == OpenRemembered /\ NoneLost /\ KeptAsSaved /\ SeededOnce

-----------------------------------------------------------------------------
(* The databases that the transactions of a call leave.                     *)

LEMMA DatabaseParts ==
  ASSUME NEW s \in Databases
  PROVE  /\ Shell!Saved(s) \subseteq ListNames /\ s.lists \in [Shell!Saved(s) -> Symbols]
         /\ s.active \in ListNames \cup {Shell!NoName} /\ s.seeded \in BOOLEAN
BY DEF Databases, Shell!Saved

\* A database by its parts.
LEMMA IsDatabase ==
  ASSUME NEW S \in SUBSET ListNames, NEW f \in [S -> Symbols],
         NEW active \in ListNames \cup {Shell!NoName}, NEW seeded \in BOOLEAN
  PROVE  [lists |-> f, active |-> active, seeded |-> seeded] \in Databases
BY DEF Databases

\* An update of one part.
LEMMA ListsSet ==
  ASSUME NEW s \in Databases, NEW S \in SUBSET ListNames, NEW f \in [S -> Symbols],
         NEW d, d = [s EXCEPT !.lists = f]
  PROVE  d \in Databases /\ d.lists = f /\ d.active = s.active /\ d.seeded = s.seeded
<1>1. d = [lists |-> f, active |-> s.active, seeded |-> s.seeded]
  BY DEF Databases
<1>2. s.active \in ListNames \cup {Shell!NoName} /\ s.seeded \in BOOLEAN
  BY DatabaseParts
<1>3. [lists |-> f, active |-> s.active, seeded |-> s.seeded] \in Databases
  BY <1>2, IsDatabase
<1> QED
  BY <1>1, <1>3

LEMMA ActiveSet ==
  ASSUME NEW s \in Databases, NEW n \in ListNames \cup {Shell!NoName}
  PROVE  /\ Shell!SetActive(s, n) \in Databases
         /\ Shell!SetActive(s, n).lists = s.lists
         /\ Shell!SetActive(s, n).active = n
         /\ Shell!SetActive(s, n).seeded = s.seeded
<1>1. Shell!SetActive(s, n) = [lists |-> s.lists, active |-> n, seeded |-> s.seeded]
  BY DEF Databases, Shell!SetActive
<1> QED
  BY <1>1, IsDatabase, DatabaseParts

LEMMA MarkSet ==
  ASSUME NEW s \in Databases, NEW mark \in BOOLEAN,
         NEW d, d = [s EXCEPT !.seeded = mark]
  PROVE  d \in Databases /\ d.lists = s.lists
<1>1. d = [lists |-> s.lists, active |-> s.active, seeded |-> mark]
  BY DEF Databases
<1>2. s.active \in ListNames \cup {Shell!NoName}
  BY DatabaseParts
<1>3. [lists |-> s.lists, active |-> s.active, seeded |-> mark] \in Databases
  BY <1>2, IsDatabase, DatabaseParts
<1> QED
  BY <1>1, <1>3

\* A call is one transaction or two.
OneOrTwo(writes) ==
    writes \in Seq(Databases) /\ Len(writes) \in {1, 2} /\ DOMAIN writes = 1 .. Len(writes)

LEMMA OneOrTwoIs ==
  ASSUME NEW d \in Databases, NEW e \in Databases
  PROVE  /\ OneOrTwo(<<d>>) /\ OneOrTwo(<<d, e>>)
         /\ \A i \in DOMAIN <<d>> : <<d>>[i] = d
         /\ \A i \in DOMAIN <<d, e>> : <<d, e>>[i] \in {d, e}
BY DEF OneOrTwo

\* What was saved of n and what went with r.
SavedAs(d, s, n, x, r) ==
    /\ d \in Databases /\ d.seeded = s.seeded
    /\ Shell!Saved(d) = (Shell!Saved(s) \ ({r} \ {n})) \cup {n}
    /\ d.lists[n] = x
    /\ \A m \in Shell!Saved(d) \ {n} : d.lists[m] = s.lists[m]

LEMMA SaveWrites ==
  ASSUME NEW s \in Databases, NEW n \in ListNames, NEW x \in Symbols,
         NEW r \in ListNames \cup {Shell!NoName}
  PROVE  LET w == Shell!Save(s, n, x, r)
         IN  /\ OneOrTwo(w)
             /\ \A i \in DOMAIN w : SavedAs(w[i], s, n, x, r)
<1> DEFINE S == (Shell!Saved(s) \ ({r} \ {n})) \cup {n}
           f == [m \in S |-> IF m = n THEN x ELSE s.lists[m]]
           d == Shell!Rows(s, n, x, {r} \ {n})
           e == Shell!SetActive(d, n)
<1>1. S \subseteq ListNames /\ f \in [S -> Symbols]
  BY DatabaseParts
<1>2. d = [s EXCEPT !.lists = f]
  BY DEF Shell!Rows
<1>3. f[n] = x /\ \A m \in S \ {n} : f[m] = s.lists[m]
  OBVIOUS
<1>4. DOMAIN f = S
  OBVIOUS
<1> HIDE DEF f, d
<1>5. d \in Databases /\ d.lists = f /\ d.seeded = s.seeded
  BY <1>1, <1>2, ListsSet
<1>6. e \in Databases /\ e.lists = f /\ e.seeded = s.seeded
  BY <1>5, ActiveSet
<1>7. SavedAs(d, s, n, x, r) /\ SavedAs(e, s, n, x, r)
  BY <1>3, <1>4, <1>5, <1>6 DEF SavedAs, Shell!Saved
<1>8. Shell!Save(s, n, x, r) = <<d>> \/ Shell!Save(s, n, x, r) = <<d, e>>
  BY DEF d, Shell!Save
<1> HIDE DEF e, S
<1>9. /\ OneOrTwo(<<d>>) /\ OneOrTwo(<<d, e>>)
      /\ \A i \in DOMAIN <<d>> : <<d>>[i] = d
      /\ \A i \in DOMAIN <<d, e>> : <<d, e>>[i] \in {d, e}
  BY <1>5, <1>6, OneOrTwoIs
<1> QED
  BY <1>7, <1>8, <1>9

DeletedFrom(d, s, n) ==
    /\ d \in Databases /\ d.seeded = s.seeded
    /\ Shell!Saved(d) = Shell!Saved(s) \ {n}
    /\ \A m \in Shell!Saved(d) : d.lists[m] = s.lists[m]

LEMMA DeleteWrites ==
  ASSUME NEW s \in Databases, NEW n
  PROVE  LET w == Shell!Delete(s, n)
         IN  /\ OneOrTwo(w)
             /\ \A i \in DOMAIN w : DeletedFrom(w[i], s, n)
<1> DEFINE S == Shell!Saved(s) \ {n}
           f == [m \in S |-> s.lists[m]]
           d == [s EXCEPT !.lists = f]
           e == Shell!SetActive(d, Shell!NoName)
<1>1. S \subseteq ListNames /\ f \in [S -> Symbols]
  BY DatabaseParts
<1>2. \A m \in S : f[m] = s.lists[m]
  OBVIOUS
<1>3. DOMAIN f = S
  OBVIOUS
<1> HIDE DEF f, d
<1>5. d \in Databases /\ d.lists = f /\ d.seeded = s.seeded
  BY <1>1, ListsSet DEF d
<1>6. e \in Databases /\ e.lists = f /\ e.seeded = s.seeded
  BY <1>5, ActiveSet
<1>7. DeletedFrom(d, s, n) /\ DeletedFrom(e, s, n)
  BY <1>2, <1>3, <1>5, <1>6 DEF DeletedFrom, Shell!Saved
<1>8. Shell!Delete(s, n) = <<d>> \/ Shell!Delete(s, n) = <<d, e>>
  BY DEF d, f, Shell!Delete
<1> HIDE DEF e, S
<1>9. /\ OneOrTwo(<<d>>) /\ OneOrTwo(<<d, e>>)
      /\ \A i \in DOMAIN <<d>> : <<d>>[i] = d
      /\ \A i \in DOMAIN <<d, e>> : <<d, e>>[i] \in {d, e}
  BY <1>5, <1>6, OneOrTwoIs
<1> QED
  BY <1>7, <1>8, <1>9

\* The example list comes once, and only where there is none.
SeededFrom(d, s) ==
    /\ d \in Databases
    /\ s.seeded => d = s
    /\ Shell!Saved(s) # {} => d.lists = s.lists

LEMMA SeededWrites ==
  ASSUME Shell!DashboardAssumption, NEW s \in Databases
  PROVE  LET w == Shell!Seeded(s)
         IN  /\ w \in Seq(Databases) /\ Len(w) \in Nat \ {0} /\ DOMAIN w = 1 .. Len(w)
             /\ \A i \in DOMAIN w : SeededFrom(w[i], s)
<1>1. CASE s.seeded
  <2>1. Shell!Seeded(s) = <<s>>
    BY <1>1 DEF Shell!Seeded
  <2>2. OneOrTwo(<<s>>) /\ \A i \in DOMAIN <<s>> : <<s>>[i] = s
    BY OneOrTwoIs
  <2> QED
    BY <2>1, <2>2 DEF SeededFrom, OneOrTwo
<1>2. CASE ~s.seeded
  <2> DEFINE x == CHOOSE x \in Symbols : TRUE
             first == IF Shell!Saved(s) = {} THEN Shell!Save(s, "default", x, Shell!NoName)
                      ELSE <<s>>
             last == first[Len(first)]
             marked == [last EXCEPT !.seeded = TRUE]
  <2>1. "default" \in ListNames /\ x \in Symbols
    BY DEF Shell!DashboardAssumption, ListNames
  <2>2. OneOrTwo(first) /\ \A i \in DOMAIN first : SeededFrom(first[i], s)
    <3>1. CASE Shell!Saved(s) = {}
      <4> HIDE DEF x
      <4>1. /\ OneOrTwo(first)
            /\ \A i \in DOMAIN first : SavedAs(first[i], s, "default", x, Shell!NoName)
        BY <2>1, <3>1, SaveWrites
      <4> QED
        BY <1>2, <3>1, <4>1 DEF SavedAs, SeededFrom
    <3>2. CASE Shell!Saved(s) # {}
      <4>1. OneOrTwo(<<s>>) /\ \A i \in DOMAIN <<s>> : <<s>>[i] = s
        BY OneOrTwoIs
      <4> QED
        BY <3>2, <4>1 DEF SeededFrom
    <3> QED
      BY <3>1, <3>2
  <2>3. Shell!Seeded(s) = Append(first, marked)
    BY <1>2 DEF Shell!Seeded, Shell!Last
  <2> HIDE DEF first
  <2>4. Len(first) \in DOMAIN first /\ first \in Seq(Databases) /\ Len(first) \in Nat
    BY <2>2 DEF OneOrTwo
  <2>5. SeededFrom(last, s) /\ last \in Databases
    BY <2>2, <2>4 DEF SeededFrom
  <2> HIDE DEF last
  <2>7. marked \in Databases /\ marked.lists = last.lists
    BY <2>5, MarkSet
  <2> HIDE DEF marked
  <2>8. SeededFrom(marked, s)
    BY <1>2, <2>5, <2>7 DEF SeededFrom
  <2>9. /\ Append(first, marked) \in Seq(Databases)
        /\ Len(Append(first, marked)) = Len(first) + 1
        /\ \A i \in 1 .. Len(first) : Append(first, marked)[i] = first[i]
        /\ Append(first, marked)[Len(first) + 1] = marked
    BY <2>4, <2>7, AppendProperties
  <2>10. DOMAIN Append(first, marked) = 1 .. Len(first) + 1 /\ DOMAIN first = 1 .. Len(first)
    BY <2>4, <2>9, LenProperties
  <2> QED
    BY <2>2, <2>3, <2>4, <2>8, <2>9, <2>10
<1> QED
  BY <1>1, <1>2

\* Opening with a list that is saved, as long as there is any.
Opens(s, n) ==
    \/ n \in Shell!Saved(s)
    \/ n = Shell!NoName /\ Shell!Saved(s) = {}

LEMMA OpensSaved ==
  ASSUME Shell!DashboardAssumption, NEW s \in Databases
  PROVE  /\ Opens(s, Shell!First(s))
         /\ Opens(s, Shell!Initial(s))
<1> DEFINE saved == {i \in DOMAIN Names : Names[i] \in Shell!Saved(s)}
<1>1. saved \subseteq Nat
  BY DEF Shell!DashboardAssumption
<1>2. CASE saved = {}
  <2>1. Shell!Saved(s) = {}
    BY <1>2, DatabaseParts DEF ListNames, Shell!Range
  <2> QED
    BY <1>2, <2>1 DEF Shell!First, Shell!Initial, Opens
<1>3. CASE saved # {}
  <2>1. Min(saved) \in saved
    <3> HIDE DEF saved
    <3> QED
      BY <1>1, <1>3, LeastIsThere
  <2>2. Shell!Min(saved) = Min(saved)
    BY DEF Min, Shell!Min
  <2>3. Shell!First(s) = Names[Min(saved)]
    BY <1>3, <2>2 DEF Shell!First
  <2>4. Shell!First(s) \in Shell!Saved(s)
    BY <2>1, <2>3
  <2> QED
    BY <2>4 DEF Shell!Initial, Opens
<1> QED
  BY <1>2, <1>3

\* What is got is a list, with its name.
LEMMA GetIs ==
  ASSUME Shell!DashboardAssumption, NEW s \in Databases, NEW n,
         n \in Shell!Saved(s) \/ n = Shell!NoName
  PROVE  /\ Shell!Get(s, n) \in Shell!Lists /\ Shell!Get(s, n).name = n
         /\ n = Shell!NoName => n \notin Shell!Saved(s)
<1>1. Shell!NoName \notin Shell!Saved(s)
  BY DatabaseParts DEF Shell!DashboardAssumption, ListNames, Shell!NoName
<1>2. CASE n \in Shell!Saved(s)
  <2>1. n \in ListNames /\ s.lists[n] \in Symbols
    BY <1>2, DatabaseParts
  <2> QED
    BY <1>1, <1>2, <2>1 DEF Shell!Get, Shell!Lists, ListNames
<1>3. CASE n = Shell!NoName
  BY <1>1, <1>3 DEF Shell!Get, Shell!Lists, Shell!NoList
<1> QED
  BY <1>2, <1>3

-----------------------------------------------------------------------------
(* The handlers.                                                            *)

\* The types that the lemmas above speak of.
LEMMA ShellTypes ==
  ASSUME ShellInv
  PROVE  /\ db \in Databases /\ running \in BOOLEAN /\ watchlist \in Shell!Lists /\ front \in Tabs
         /\ dialogs \in Seq(DialogRecord) /\ tabs \in [Tabs -> TabRecord]
         /\ bar \in [offered : SUBSET ListNames, value : ListNames \cup {Shell!NoName}]
BY DEF ShellInv, Shell!TypeOK, Databases, DialogRecord, Shell!DialogRecord, TabRecord, ListNames

\* The invariant from its parts.
LEMMA ShellHolds ==
  ASSUME db' \in Databases, running' \in BOOLEAN, watchlist' \in Shell!Lists, front' \in Tabs,
         dialogs' \in Seq(DialogRecord), tabs' \in [Tabs -> TabRecord]',
         bar' \in [offered : SUBSET ListNames, value : ListNames \cup {Shell!NoName}],
         Shell!OpenListSaved', Shell!TabsShowList', \A t \in Tabs : TabOK(t)', Gone'
  PROVE  ShellInv'
BY DEF ShellInv, Shell!TypeOK, Databases, DialogRecord, Shell!DialogRecord, TabRecord, ListNames

\* When the process has died.
LEMMA StoppedKeeps ==
  ASSUME Shell!DashboardAssumption, db' \in Databases, Shell!Stopped
  PROVE  ShellInv' /\ ~running'
<1>1. /\ running' = FALSE /\ watchlist' = Shell!NoList
      /\ bar' = [offered |-> {}, value |-> Shell!NoName]
      /\ dialogs' = <<>> /\ front' = FirstTab /\ tabs' = [t \in Tabs |-> Shell!Unbuilt]
  BY DEF Shell!Stopped
<1>2. Shell!Unbuilt \in TabRecord
  BY DEF Shell!Unbuilt, TabRecord, Shell!Lists
<1>3. tabs' \in [Tabs -> TabRecord]' /\ \A t \in Tabs : tabs'[t] = Shell!Unbuilt
  BY <1>1, <1>2 DEF TabRecord, Shell!Lists
<1>4. Shell!OpenListSaved' /\ Gone'
  BY <1>1 DEF Shell!OpenListSaved, Gone
<1>5. Shell!TabsShowList' /\ \A t \in Tabs : TabOK(t)'
  BY <1>3 DEF Shell!TabsShowList, TabOK, Shell!Unbuilt, Shell!DashboardAssumption
<1>6. watchlist' \in Shell!Lists /\ <<>> \in Seq(DialogRecord)
  BY <1>1 DEF Shell!Lists
<1> QED
  BY <1>1, <1>3, <1>4, <1>5, <1>6, ShellHolds DEF Shell!DashboardAssumption

\* The watchers keep to the list: those that do not raise show it.
LEMMA ShowKeepsTabs ==
  ASSUME Shell!DashboardAssumption, ShellInv, NEW s, NEW offered, NEW w \in Shell!Lists,
         Shell!Show(s, offered, w), front' = front
  PROVE  /\ tabs' \in [Tabs -> TabRecord]' /\ Shell!TabsShowList'
         /\ \A t \in Tabs : TabOK(t)'
<1>1. PICK broken \in SUBSET Shell!Watchers(watchlist, w) :
        tabs' = [t \in Tabs |-> IF t \in broken THEN Shell!Fail(tabs[t])
                                ELSE IF t \in Shell!Watchers(watchlist, w)
                                THEN [tabs[t] EXCEPT !.shows = w] ELSE tabs[t]]
  BY DEF Shell!Show
<1>2. watchlist' = w /\ tabs \in [Tabs -> TabRecord] /\ TabRecord' = TabRecord
  BY ShellTypes DEF Shell!Show, TabRecord, Shell!Lists
<1>3. ASSUME NEW t \in Tabs
      PROVE  /\ Shell!Fail(tabs[t]) \in TabRecord /\ [tabs[t] EXCEPT !.shows = w] \in TabRecord
             /\ Shell!Fail(tabs[t]).at = tabs[t].at /\ Shell!Fail(tabs[t]).failed
             /\ Shell!Fail(tabs[t]).active = tabs[t].active
             /\ [tabs[t] EXCEPT !.shows = w].shows = w
             /\ [tabs[t] EXCEPT !.shows = w].at = tabs[t].at
             /\ [tabs[t] EXCEPT !.shows = w].active = tabs[t].active
             /\ [tabs[t] EXCEPT !.shows = w].timer = tabs[t].timer
             /\ [tabs[t] EXCEPT !.shows = w].failed = tabs[t].failed
  <2>1. tabs[t] \in TabRecord
    BY <1>2
  <2> QED
    BY <2>1 DEF TabRecord, Shell!Fail
<1>4. tabs' \in [Tabs -> TabRecord]'
  BY <1>1, <1>2, <1>3
<1>5. ASSUME NEW t \in Tabs PROVE TabOK(t)'
  <2>1. TabOK(t)
    BY DEF ShellInv
  <2>2. CASE t \in Shell!Watchers(watchlist, w)
    <3>1. tabs[t].at = "mounted"
      BY <2>2 DEF Shell!Watchers
    <3>2. tabs'[t] = Shell!Fail(tabs[t]) \/ tabs'[t] = [tabs[t] EXCEPT !.shows = w]
      BY <1>1, <2>2
    <3> QED
      BY <1>3, <2>1, <3>1, <3>2 DEF TabOK
  <2>3. CASE t \notin Shell!Watchers(watchlist, w)
    BY <1>1, <2>1, <2>3 DEF TabOK
  <2> QED
    BY <2>2, <2>3
<1>6. Shell!TabsShowList'
  <2> SUFFICES ASSUME NEW t \in WatchlistTabs, tabs'[t].at = "mounted", ~tabs'[t].failed
               PROVE  tabs'[t].shows = w
    BY <1>2 DEF Shell!TabsShowList
  <2>1. t \in Tabs
    BY DEF Shell!DashboardAssumption
  <2>2. CASE t \in Shell!Watchers(watchlist, w)
    BY <1>1, <1>3, <2>1, <2>2
  <2>3. CASE t \notin Shell!Watchers(watchlist, w)
    <3>1. tabs'[t] = tabs[t]
      BY <1>1, <2>1, <2>3
    <3>2. watchlist = w
      BY <2>3, <3>1 DEF Shell!Watchers
    <3> QED
      BY <3>1, <3>2 DEF ShellInv, Shell!TabsShowList
  <2> QED
    BY <2>2, <2>3
<1> QED
  BY <1>4, <1>5, <1>6

\* The handlers that write: what was open stays open or the list that is opened is
\* saved; or the process dies after one of the writes.
LEMMA OpenKeeps ==
  ASSUME Shell!DashboardAssumption, ShellInv, running,
         NEW writes \in Seq(Databases), Len(writes) \in DOMAIN writes,
         NEW offered, NEW n, NEW left \in Seq(DialogRecord),
         offered = Shell!Saved(writes[Len(writes)]), Opens(writes[Len(writes)], n),
         Shell!Open(writes, offered, n, left)
  PROVE  ShellInv' /\ OpenRemembered /\ \E i \in DOMAIN writes : db'.lists = writes[i].lists
<1> DEFINE last == writes[Len(writes)]
           w == Shell!Get(last, n)
<1>1. last \in Databases /\ \A i \in DOMAIN writes : writes[i] \in Databases
  OBVIOUS
<1>2. CASE /\ db' = Shell!SetActive(last, w.name)
           /\ Shell!Show(last, offered, w)
           /\ dialogs' = left
           /\ UNCHANGED <<running, front>>
  <2> HIDE DEF last
  <2>1. w \in Shell!Lists /\ w.name = n /\ (n = Shell!NoName => n \notin Shell!Saved(last))
    BY <1>1, GetIs DEF Opens, last
  <2>2. n \in ListNames \cup {Shell!NoName} /\ Shell!Saved(last) \subseteq ListNames
    BY <1>1, DatabaseParts DEF Opens, last
  <2>3. db' \in Databases /\ db'.lists = last.lists /\ db'.active = n
    BY <1>1, <1>2, <2>1, <2>2, ActiveSet
  <2>4. Shell!Saved(db') = Shell!Saved(last) /\ \A m : Shell!Get(db', m) = Shell!Get(last, m)
    BY <2>3 DEF Shell!Saved, Shell!Get
  <2>5. /\ watchlist' = w
        /\ bar' = [offered |-> offered,
                   value |-> IF n \in Shell!Saved(last) THEN n ELSE Shell!NoName]
    BY <1>2, <2>1 DEF Shell!Show, Shell!Synced
  <2> HIDE DEF w
  <2>6. Shell!OpenListSaved'
    <3>1. watchlist' = Shell!Get(db', watchlist'.name)
      BY <2>1, <2>4, <2>5 DEF w
    <3>2. watchlist' = Shell!NoList => Shell!Saved(db') = {}
      <4>1. Shell!NoList.name = Shell!NoName
        BY DEF Shell!NoList
      <4> QED
        BY <2>1, <2>4, <2>5, <4>1 DEF Opens, last
    <3>3. bar'.offered = Shell!Saved(db') /\ bar'.value = Shell!Current'
      BY <2>1, <2>4, <2>5 DEF Shell!Current, last
    <3> QED
      BY <3>1, <3>2, <3>3 DEF Shell!OpenListSaved
  <2>7. bar' \in [offered : SUBSET ListNames, value : ListNames \cup {Shell!NoName}]
    BY <2>2, <2>5 DEF last
  <2>8. /\ tabs' \in [Tabs -> TabRecord]' /\ Shell!TabsShowList'
        /\ \A t \in Tabs : TabOK(t)'
    BY <1>2, <2>1, ShowKeepsTabs
  <2>9. Gone' /\ running' \in BOOLEAN /\ front' \in Tabs
    BY <1>2, ShellTypes DEF Gone
  <2>10. ShellInv'
    BY <1>2, <2>1, <2>3, <2>5, <2>6, <2>7, <2>8, <2>9, ShellHolds
  <2>11. OpenRemembered
    <3>1. Opens(db', Shell!Initial(db'))
      BY <2>3, OpensSaved
    <3>2. Shell!Initial(db') = n
      BY <2>3, <2>4, <3>1 DEF Opens, last, Shell!Initial
    <3> QED
      BY <2>4, <2>5, <3>2 DEF OpenRemembered, w
  <2>12. Len(writes) \in DOMAIN writes /\ db'.lists = writes[Len(writes)].lists
    BY <2>3 DEF last
  <2> QED
    BY <2>10, <2>11, <2>12
<1>3. CASE db' \in Shell!Range(writes) /\ Shell!Stopped
  <2>1. PICK i \in DOMAIN writes : db' = writes[i]
    BY <1>3 DEF Shell!Range
  <2>2. ShellInv' /\ ~running'
    BY <1>1, <1>3, <2>1, StoppedKeeps
  <2> QED
    BY <2>1, <2>2 DEF OpenRemembered
<1> QED
  BY <1>2, <1>3 DEF Shell!Open, Shell!Last

\* A step that writes nothing.
LEMMA NothingWritten ==
  ASSUME db' = db, ~running' \/ watchlist' = watchlist
  PROVE  ListStep
BY DEF ListStep, OpenRemembered, NoneLost, KeptAsSaved, SeededOnce

\* The process starts: the example list may be made, and the first tab is mounted.
LEMMA StartKeeps ==
  ASSUME Shell!DashboardAssumption, ShellInv, Shell!Start
  PROVE  ShellInv' /\ ListStep
<1> DEFINE writes == Shell!Seeded(db)
<1>1. /\ ~running /\ dialogs = <<>> /\ front = FirstTab /\ tabs = [t \in Tabs |-> Shell!Unbuilt]
  BY DEF Shell!Start, ShellInv, Gone
<1>2. /\ writes \in Seq(Databases) /\ Len(writes) \in DOMAIN writes
      /\ \A i \in DOMAIN writes : SeededFrom(writes[i], db)
  BY ShellTypes, SeededWrites
<1>3. \E i \in DOMAIN writes : db' = writes[i]
  BY <1>2 DEF Shell!Start, Shell!Last, Shell!Range
<1>4. SeededFrom(db', db) /\ db' \in Databases
  BY <1>2, <1>3 DEF SeededFrom
<1>5. ListStep
  BY <1>1, <1>4
  DEF ListStep, OpenRemembered, NoneLost, KeptAsSaved, SeededOnce, SeededFrom, Shell!Saved
<1>6. CASE UNCHANGED <<running, watchlist, bar, dialogs, front, tabs>>
  <2>1. Shell!OpenListSaved' /\ Gone' /\ Shell!TabsShowList' /\ \A t \in Tabs : TabOK(t)'
    BY <1>1, <1>6 DEF ShellInv, Shell!OpenListSaved, Gone, Shell!TabsShowList, TabOK
  <2>2. TabRecord' = TabRecord
    BY DEF TabRecord, Shell!Lists
  <2> QED
    BY <1>4, <1>5, <1>6, <2>1, <2>2, ShellTypes, ShellHolds
<1>7. CASE /\ db' = Shell!Last(Shell!Seeded(db))
           /\ running' = TRUE
           /\ watchlist' \in Shell!ToOpen(db')
           /\ bar' = Shell!Synced(db', Shell!Saved(db'), watchlist')
           /\ Shell!Built(tabs, FirstTab)
           /\ UNCHANGED <<dialogs, front>>
  <2>1. \/ watchlist' = Shell!AdHoc
        \/ \E n : Opens(db', n) /\ watchlist' = Shell!Get(db', n)
    BY <1>4, <1>7, OpensSaved DEF Shell!ToOpen, Opens
  <2>2. /\ watchlist' \in Shell!Lists
        /\ watchlist' # Shell!AdHoc => watchlist' = Shell!Get(db', watchlist'.name)
        /\ watchlist' = Shell!NoList => Shell!Saved(db') = {}
    <3>1. CASE watchlist' = Shell!AdHoc
      BY <3>1 DEF Shell!AdHoc, Shell!NoList, Shell!NoName, Shell!Lists
    <3>2. ASSUME NEW n, Opens(db', n), watchlist' = Shell!Get(db', n) PROVE <2>2
      <4>1. /\ watchlist' \in Shell!Lists /\ watchlist'.name = n
            /\ n = Shell!NoName => n \notin Shell!Saved(db')
        BY <1>4, <3>2, GetIs DEF Opens
      <4>2. Shell!NoList.name = Shell!NoName
        BY DEF Shell!NoList
      <4> QED
        BY <3>2, <4>1, <4>2 DEF Opens
    <3> QED
      BY <2>1, <3>1, <3>2
  <2>3. Shell!Saved(db') \subseteq ListNames
    BY <1>4, DatabaseParts
  <2>4. /\ bar' \in [offered : SUBSET ListNames, value : ListNames \cup {Shell!NoName}]
        /\ bar'.offered = Shell!Saved(db') /\ bar'.value = Shell!Current'
    BY <1>7, <2>3 DEF Shell!Synced, Shell!Current
  <2>5. PICK at \in {"mounting", "broken"} :
          tabs' = [tabs EXCEPT ![FirstTab].at = at, ![FirstTab].active = at # "broken"]
    BY <1>7 DEF Shell!Built
  <2>6. FirstTab \in Tabs /\ tabs \in [Tabs -> TabRecord] /\ TabRecord' = TabRecord
    BY ShellTypes DEF Shell!DashboardAssumption, TabRecord, Shell!Lists
  <2>7. \A t \in Tabs : tabs[t] = Shell!Unbuilt
    BY <1>1
  <2>8. /\ tabs'[FirstTab] = [Shell!Unbuilt EXCEPT !.at = at, !.active = at # "broken"]
        /\ \A t \in Tabs \ {FirstTab} : tabs'[t] = Shell!Unbuilt
        /\ tabs' = [t \in Tabs |-> tabs'[t]]
    BY <2>5, <2>6, <2>7
  <2>9. tabs'[FirstTab] = [at |-> at, active |-> at # "broken", timer |-> "none",
                           failed |-> FALSE, shows |-> Shell!NoList]
    BY <2>8 DEF Shell!Unbuilt
  <2>10. Shell!Unbuilt \in TabRecord /\ tabs'[FirstTab] \in TabRecord
    BY <2>9 DEF TabRecord, Shell!Unbuilt, Shell!Lists
  <2>11. tabs' \in [Tabs -> TabRecord]'
    BY <2>6, <2>8, <2>10
  <2>12. Shell!TabsShowList' /\ \A t \in Tabs : TabOK(t)'
    <3>1. front' = FirstTab /\ WatchlistTabs \subseteq Tabs
      BY <1>1, <1>7 DEF Shell!DashboardAssumption
    <3>2. TabOK(FirstTab)' /\ tabs'[FirstTab].at # "mounted"
      <4>1. /\ tabs'[FirstTab].at = at /\ tabs'[FirstTab].active = (at # "broken")
            /\ tabs'[FirstTab].timer = "none" /\ tabs'[FirstTab].failed = FALSE
        BY <2>9
      <4>2. CASE at = "mounting"
        BY <3>1, <4>1, <4>2 DEF TabOK
      <4>3. CASE at = "broken"
        BY <3>1, <4>1, <4>3 DEF TabOK
      <4> QED
        BY <4>2, <4>3
    <3>3. ASSUME NEW t \in Tabs \ {FirstTab} PROVE TabOK(t)' /\ tabs'[t].at # "mounted"
      BY <2>8, <3>1 DEF TabOK, Shell!Unbuilt
    <3> QED
      BY <3>1, <3>2, <3>3 DEF Shell!TabsShowList
  <2>13. Shell!OpenListSaved' /\ Gone'
    BY <1>7, <2>2, <2>4 DEF Shell!OpenListSaved, Gone
  <2> QED
    BY <1>4, <1>5, <1>7, <2>2, <2>4, <2>11, <2>12, <2>13, ShellTypes, ShellHolds
<1> QED
  BY <1>6, <1>7 DEF Shell!Start

\* A step of the tabs alone.
LEMMA TabsMove ==
  ASSUME ShellInv, running,
         UNCHANGED <<db, running, watchlist, bar, dialogs>>, front' \in Tabs,
         tabs' \in [Tabs -> TabRecord], Shell!TabsShowList', \A t \in Tabs : TabOK(t)'
  PROVE  ShellInv' /\ ListStep
<1>1. Shell!OpenListSaved' /\ Gone' /\ TabRecord' = TabRecord
  BY DEF ShellInv, Shell!OpenListSaved, Gone, TabRecord, Shell!Lists, Shell!Current
<1> QED
  BY <1>1, ShellTypes, ShellHolds, NothingWritten

LEMMA SwitchKeeps ==
  ASSUME Shell!DashboardAssumption, ShellInv, NEW t \in Tabs, Shell!SwitchTab(t)
  PROVE  ShellInv' /\ ListStep
<1> DEFINE left == [tabs EXCEPT ![front] = Shell!Deactivated(tabs[front])]
<1>1. /\ tabs \in [Tabs -> TabRecord] /\ front \in Tabs /\ front' = t /\ t # front /\ running
      /\ UNCHANGED <<db, running, watchlist, bar, dialogs>>
  BY ShellTypes DEF Shell!SwitchTab
<1>2. \A u \in Tabs : tabs[u] \in TabRecord /\ TabOK(u)
  BY <1>1 DEF ShellInv
<1>3. /\ left \in [Tabs -> TabRecord] /\ left[front] = Shell!Deactivated(tabs[front])
      /\ \A u \in Tabs \ {front} : left[u] = tabs[u]
  <2>1. Shell!Deactivated(tabs[front]) \in TabRecord
    BY <1>1, <1>2 DEF Shell!Deactivated, TabRecord
  <2> QED
    BY <1>1, <2>1
<1> HIDE DEF left
<1>4. \E r \in TabRecord :
        /\ tabs' = [left EXCEPT ![t] = r]
        /\ \/ /\ tabs[t].at = "unbuilt"
              /\ r.at \in {"mounting", "broken"} /\ r.active = (r.at # "broken")
              /\ r.timer = "none" /\ ~r.failed
           \/ tabs[t].at = "broken" /\ r = tabs[t]
           \/ tabs[t].at \in {"mounting", "mounted"} /\ r = Shell!Activated(tabs[t])
  <2>1. CASE tabs[t].at = "unbuilt"
    <3>1. PICK at \in {"mounting", "broken"} :
            tabs' = [left EXCEPT ![t].at = at, ![t].active = at # "broken"]
      BY <1>1, <1>3, <2>1 DEF Shell!SwitchTab, Shell!Built, left
    <3> DEFINE r == [tabs[t] EXCEPT !.at = at, !.active = at # "broken"]
    <3>2. tabs' = [left EXCEPT ![t] = r]
      BY <1>1, <1>3, <3>1
    <3>3. /\ r \in TabRecord /\ r.at = at /\ r.active = (at # "broken")
          /\ r.timer = "none" /\ ~r.failed
      BY <1>2, <2>1 DEF TabRecord, TabOK
    <3> HIDE DEF r
    <3> QED
      BY <2>1, <3>2, <3>3
  <2>2. CASE tabs[t].at = "broken"
    <3>1. tabs' = [left EXCEPT ![t] = tabs[t]]
      BY <1>1, <1>3, <2>2 DEF Shell!SwitchTab, left
    <3> QED
      BY <1>2, <2>2, <3>1
  <2>3. CASE tabs[t].at \in {"mounting", "mounted"}
    <3>1. tabs' = [left EXCEPT ![t] = Shell!Activated(tabs[t])]
      BY <1>1, <1>3, <2>3 DEF Shell!SwitchTab, left
    <3>2. Shell!Activated(tabs[t]) \in TabRecord
      BY <1>2 DEF TabRecord, Shell!Activated
    <3> QED
      BY <2>3, <3>1, <3>2
  <2> QED
    BY <1>2, <2>1, <2>2, <2>3 DEF TabRecord
<1>5. PICK r \in TabRecord :
        /\ tabs' = [left EXCEPT ![t] = r]
        /\ \/ /\ tabs[t].at = "unbuilt"
              /\ r.at \in {"mounting", "broken"} /\ r.active = (r.at # "broken")
              /\ r.timer = "none" /\ ~r.failed
           \/ tabs[t].at = "broken" /\ r = tabs[t]
           \/ tabs[t].at \in {"mounting", "mounted"} /\ r = Shell!Activated(tabs[t])
  BY <1>4
<1>6. /\ tabs' \in [Tabs -> TabRecord] /\ tabs'[t] = r
      /\ tabs'[front] = Shell!Deactivated(tabs[front])
      /\ \A u \in Tabs \ {t, front} : tabs'[u] = tabs[u]
  BY <1>1, <1>3, <1>5
<1>7. /\ r.at = "mounted" => tabs[t].at = "mounted" /\ r.failed = tabs[t].failed
                             /\ r.shows = tabs[t].shows
      /\ TabOK(t)'
  <2>1. CASE tabs[t].at = "unbuilt"
    <3>1. /\ r.at \in {"mounting", "broken"} /\ r.active = (r.at # "broken")
          /\ r.timer = "none" /\ ~r.failed
      BY <1>5, <2>1
    <3>2. CASE r.at = "mounting"
      BY <1>1, <1>6, <3>1, <3>2 DEF TabOK
    <3>3. CASE r.at = "broken"
      BY <1>1, <1>6, <3>1, <3>3 DEF TabOK
    <3> QED
      BY <3>1, <3>2, <3>3
  <2>3. CASE tabs[t].at = "broken"
    <3>1. r = tabs[t]
      BY <1>5, <2>3
    <3> QED
      BY <1>1, <1>2, <1>6, <2>3, <3>1 DEF TabOK
  <2>2. CASE tabs[t].at \in {"mounting", "mounted"}
    <3>1. r = Shell!Activated(tabs[t])
      BY <1>5, <2>2
    <3> QED
      BY <1>1, <1>2, <1>6, <2>2, <3>1 DEF TabOK, Shell!Activated, TabRecord
  <2> QED
    BY <1>2, <2>1, <2>2, <2>3 DEF TabRecord
<1>9. \A u \in Tabs \ {t} : TabOK(u)'
  <2>1. CASE tabs[front].at = "unbuilt"
    <3>1. tabs'[front] = tabs[front]
      <4>1. tabs[front] = Shell!Unbuilt
        BY <1>1, <1>2, <2>1 DEF TabOK
      <4>2. Shell!Unbuilt.timer = "none" /\ Shell!Unbuilt.active = FALSE
        BY DEF Shell!Unbuilt
      <4>3. Shell!Deactivated(Shell!Unbuilt) = [at |-> "unbuilt", active |-> FALSE,
              timer |-> "none", failed |-> FALSE, shows |-> Shell!NoList]
        BY <4>2 DEF Shell!Unbuilt, Shell!Deactivated
      <4> QED
        BY <1>6, <4>1, <4>3 DEF Shell!Unbuilt
    <3> QED
      BY <1>1, <1>2, <1>6, <2>1, <3>1 DEF TabOK
  <2>2. CASE tabs[front].at # "unbuilt"
    <3>1. /\ tabs'[front].at = tabs[front].at /\ tabs'[front].active = FALSE
          /\ tabs'[front].failed = tabs[front].failed
          /\ tabs'[front].timer = IF tabs[front].timer = "runs" THEN "paused" ELSE tabs[front].timer
      BY <1>1, <1>2, <1>6 DEF Shell!Deactivated, TabRecord
    <3>2. ASSUME NEW u \in Tabs \ {t, front} PROVE TabOK(u)'
      BY <1>1, <1>2, <1>6, <3>2 DEF TabOK
    <3> QED
      BY <1>1, <1>2, <2>2, <3>1, <3>2 DEF TabOK
  <2> QED
    BY <2>1, <2>2
<1>10. Shell!TabsShowList'
  <2>1. ASSUME NEW u \in Tabs, tabs'[u].at = "mounted"
        PROVE  /\ tabs[u].at = "mounted" /\ tabs'[u].failed = tabs[u].failed
               /\ tabs'[u].shows = tabs[u].shows
    <3>1. CASE u = t
      BY <1>6, <1>7, <2>1, <3>1
    <3>2. CASE u = front
      BY <1>1, <1>2, <1>6, <2>1, <3>2 DEF Shell!Deactivated, TabRecord
    <3> QED
      BY <1>6, <3>1, <3>2, <2>1
  <2> QED
    BY <1>1, <2>1 DEF ShellInv, Shell!TabsShowList, Shell!DashboardAssumption
<1> QED
  BY <1>1, <1>6, <1>7, <1>9, <1>10, TabsMove

LEMMA MountKeeps ==
  ASSUME Shell!DashboardAssumption, ShellInv, NEW t \in Tabs, Shell!TabMounted(t)
  PROVE  ShellInv' /\ ListStep
<1>1. /\ tabs \in [Tabs -> TabRecord] /\ front' = front /\ front \in Tabs
      /\ tabs[t] \in TabRecord /\ tabs[t].at = "mounting" /\ TabOK(t) /\ watchlist \in Shell!Lists
      /\ UNCHANGED <<db, running, watchlist, bar, dialogs>>
  BY ShellTypes DEF Shell!TabMounted, ShellInv
<1>2. running
  BY <1>1 DEF ShellInv, Gone, Shell!Unbuilt
<1>3. (tabs[t].active <=> t = front) /\ tabs[t].timer = "none" /\ ~tabs[t].failed
  BY <1>1 DEF TabOK
<1>4. Shell!NewTimer(tabs[t]) = IF t = front THEN "runs" ELSE "paused"
  BY <1>3 DEF Shell!NewTimer
<1>5. \E r \in TabRecord :
        /\ tabs' = [tabs EXCEPT ![t] = r]
        /\ r.at = "mounted" /\ (r.active <=> t = front)
        /\ ~r.failed => /\ r.timer = IF t = front THEN "runs" ELSE "paused"
                        /\ t \in WatchlistTabs => r.shows = watchlist
  <2>1. CASE tabs' = [tabs EXCEPT ![t].at = "mounted", ![t].failed = TRUE]
    <3> DEFINE r == [tabs[t] EXCEPT !.at = "mounted", !.failed = TRUE]
    <3>1. tabs' = [tabs EXCEPT ![t] = r]
      BY <1>1, <2>1
    <3>2. r \in TabRecord /\ r.at = "mounted" /\ (r.active <=> t = front) /\ r.failed
      BY <1>1, <1>3 DEF TabRecord
    <3> HIDE DEF r
    <3> QED
      BY <3>1, <3>2
  <2>2. CASE tabs' = [tabs EXCEPT ![t].at = "mounted", ![t].timer = Shell!NewTimer(tabs[t]),
                                  ![t].shows = IF t \in WatchlistTabs THEN watchlist ELSE @]
    <3> DEFINE r == [tabs[t] EXCEPT !.at = "mounted", !.timer = Shell!NewTimer(tabs[t]),
                                    !.shows = IF t \in WatchlistTabs THEN watchlist ELSE @]
    <3>1. tabs' = [tabs EXCEPT ![t] = r]
      BY <1>1, <2>2
    <3>2. /\ r \in TabRecord /\ r.at = "mounted" /\ (r.active <=> t = front)
          /\ r.timer = IF t = front THEN "runs" ELSE "paused"
          /\ t \in WatchlistTabs => r.shows = watchlist
      BY <1>1, <1>3, <1>4 DEF TabRecord
    <3> HIDE DEF r
    <3> QED
      BY <3>1, <3>2
  <2>3. CASE tabs' = [tabs EXCEPT ![t].at = "mounted", ![t].failed = TRUE,
                                  ![t].timer = Shell!NewTimer(tabs[t])]
    <3> DEFINE r == [tabs[t] EXCEPT !.at = "mounted", !.failed = TRUE,
                                    !.timer = Shell!NewTimer(tabs[t])]
    <3>1. tabs' = [tabs EXCEPT ![t] = r]
      BY <1>1, <2>3
    <3>2. r \in TabRecord /\ r.at = "mounted" /\ (r.active <=> t = front) /\ r.failed
      BY <1>1, <1>3, <1>4 DEF TabRecord
    <3> HIDE DEF r
    <3> QED
      BY <3>1, <3>2
  <2> QED
    BY <2>1, <2>2, <2>3 DEF Shell!TabMounted
<1>6. PICK r \in TabRecord :
        /\ tabs' = [tabs EXCEPT ![t] = r]
        /\ r.at = "mounted" /\ (r.active <=> t = front)
        /\ ~r.failed => /\ r.timer = IF t = front THEN "runs" ELSE "paused"
                        /\ t \in WatchlistTabs => r.shows = watchlist
  BY <1>5
<1>7. tabs' \in [Tabs -> TabRecord] /\ tabs'[t] = r /\ \A u \in Tabs \ {t} : tabs'[u] = tabs[u]
  <2> HIDE DEF TabRecord
  <2> QED
    BY <1>1, <1>6
<1>8. TabOK(t)'
  BY <1>1, <1>6, <1>7 DEF TabOK
<1>9. ASSUME NEW u \in Tabs \ {t} PROVE TabOK(u)'
  <2>1. TabOK(u)
    BY DEF ShellInv
  <2> QED
    BY <1>1, <1>7, <2>1 DEF TabOK
<1>10. Shell!TabsShowList'
  BY <1>1, <1>6, <1>7 DEF ShellInv, Shell!TabsShowList, Shell!DashboardAssumption
<1> QED
  BY <1>1, <1>2, <1>7, <1>8, <1>9, <1>10, TabsMove

LEMMA FailKeeps ==
  ASSUME Shell!DashboardAssumption, ShellInv, NEW t \in Tabs, Shell!RefreshFails(t)
  PROVE  ShellInv' /\ ListStep
<1> DEFINE r == Shell!Fail(tabs[t])
<1>1. /\ tabs \in [Tabs -> TabRecord] /\ front' = front /\ front \in Tabs
      /\ tabs[t] \in TabRecord /\ tabs[t].timer = "runs" /\ ~tabs[t].failed /\ TabOK(t)
      /\ tabs' = [tabs EXCEPT ![t] = r]
      /\ UNCHANGED <<db, running, watchlist, bar, dialogs>>
  BY ShellTypes DEF Shell!RefreshFails, Shell!Refreshes, ShellInv
<1>2. tabs[t].at = "mounted" /\ (tabs[t].active <=> t = front)
  BY <1>1 DEF TabOK
<1>3. running
  BY <1>2 DEF ShellInv, Gone, Shell!Unbuilt
<1>4. r \in TabRecord /\ r.at = "mounted" /\ r.failed /\ r.active = tabs[t].active
  BY <1>1, <1>2 DEF Shell!Fail, TabRecord
<1> HIDE DEF r
<1>7. tabs' \in [Tabs -> TabRecord] /\ tabs'[t] = r /\ \A u \in Tabs \ {t} : tabs'[u] = tabs[u]
  <2> HIDE DEF TabRecord
  <2> QED
    BY <1>1, <1>4
<1>8. TabOK(t)'
  BY <1>1, <1>2, <1>4, <1>7 DEF TabOK
<1>9. ASSUME NEW u \in Tabs \ {t} PROVE TabOK(u)'
  <2>1. TabOK(u)
    BY DEF ShellInv
  <2> QED
    BY <1>1, <1>7, <2>1 DEF TabOK
<1>10. Shell!TabsShowList'
  BY <1>1, <1>4, <1>7 DEF ShellInv, Shell!TabsShowList, Shell!DashboardAssumption
<1> QED
  BY <1>1, <1>3, <1>7, <1>8, <1>9, <1>10, TabsMove

\* A step of the dialogs alone.
LEMMA DialogsMove ==
  ASSUME ShellInv, running, UNCHANGED <<db, running, watchlist, bar, front, tabs>>,
         dialogs' \in Seq(DialogRecord)
  PROVE  ShellInv' /\ ListStep
<1>1. /\ Shell!OpenListSaved' /\ Gone' /\ TabRecord' = TabRecord /\ Shell!TabsShowList'
      /\ \A t \in Tabs : TabOK(t)'
  BY DEF ShellInv, Shell!OpenListSaved, Gone, TabRecord, Shell!Lists, Shell!Current,
         Shell!TabsShowList, TabOK
<1> QED
  BY <1>1, ShellTypes, ShellHolds, NothingWritten

LEMMA PushKeeps ==
  ASSUME ShellInv, NEW d \in DialogRecord, Shell!Push(d)
  PROVE  ShellInv' /\ ListStep
<1>1. dialogs' \in Seq(DialogRecord)
  <2> HIDE DEF DialogRecord
  <2> QED
    BY ShellTypes, AppendProperties DEF Shell!Push
<1> QED
  BY <1>1, DialogsMove DEF Shell!Push

\* The dialogs under the one on top, and what it is about.
LEMMA UnderTop ==
  ASSUME ShellInv, dialogs # <<>>
  PROVE  /\ running /\ Shell!Front(dialogs) \in Seq(DialogRecord)
         /\ Shell!Top \in DialogRecord /\ Shell!Top.list \in ListNames \cup {Shell!NoName}
<1>1. running /\ dialogs \in Seq(DialogRecord)
  BY ShellTypes DEF ShellInv, Gone
<1>2. Len(dialogs) \in Nat \ {0} /\ DOMAIN dialogs = 1 .. Len(dialogs)
  BY <1>1, EmptySeq, LenProperties
<1>3. SubSeq(dialogs, 1, Len(dialogs) - 1) \in Seq(DialogRecord)
  <2> HIDE DEF DialogRecord
  <2> QED
    BY <1>1, <1>2, SubSeqProperties
<1>4. dialogs[Len(dialogs)] \in DialogRecord
  <2> HIDE DEF DialogRecord
  <2> QED
    BY <1>1, <1>2, ElementOfSeq
<1> QED
  BY <1>1, <1>3, <1>4 DEF Shell!Front, Shell!Top, Shell!Last, DialogRecord

LEMMA DismissKeeps ==
  ASSUME ShellInv, dialogs # <<>>, Shell!Dismiss
  PROVE  ShellInv' /\ ListStep
BY UnderTop, DialogsMove DEF Shell!Dismiss

LEMMA SelectKeeps ==
  ASSUME Shell!DashboardAssumption, ShellInv, NEW n, Shell!SelectWatchlist(n)
  PROVE  ShellInv' /\ ListStep
<1>1. running /\ n \in Shell!Saved(db) /\ bar.offered = Shell!Saved(db) /\ db \in Databases
  BY ShellTypes DEF Shell!SelectWatchlist, ShellInv, Shell!OpenListSaved
<1>2. /\ <<db>> \in Seq(Databases) /\ Len(<<db>>) = 1 /\ DOMAIN <<db>> = {1} /\ <<db>>[1] = db
  <2> HIDE DEF Databases
  <2> QED
    BY <1>1
<1>3. Shell!Open(<<db>>, bar.offered, n, dialogs)
  BY DEF Shell!SelectWatchlist
<1>4. ShellInv' /\ OpenRemembered /\ db'.lists = db.lists
  BY <1>1, <1>2, <1>3, ShellTypes, OpenKeeps DEF Opens
<1> QED
  BY <1>1, <1>4 DEF ListStep, NoneLost, KeptAsSaved, SeededOnce, Shell!Saved

\* Saving writes the one list, and replaces none but the one it was asked to.
LEMMA SaveKeeps ==
  ASSUME Shell!DashboardAssumption, ShellInv, NEW n \in ListNames, NEW x \in Symbols,
         NEW r \in ListNames \cup {Shell!NoName}, Shell!SaveAndOpen(n, x, r),
         \/ Shell!Ask("save") /\ Shell!Top.list = r
         \/ Shell!Ask("name") /\ r = Shell!NoName
         \/ Shell!Ask("replace") /\ Shell!Top.list = r /\ r = n
  PROVE  ShellInv' /\ ListStep
<1> DEFINE w == Shell!Save(db, n, x, r)
<1>1. /\ dialogs # <<>> /\ running /\ Shell!Front(dialogs) \in Seq(DialogRecord)
      /\ db \in Databases
  BY UnderTop, ShellTypes DEF Shell!Ask
<1>2. CASE Shell!Taken(db, n, r)
  BY <1>1, <1>2, DismissKeeps DEF Shell!SaveAndOpen
<1>3. CASE ~Shell!Taken(db, n, r)
  <2>1. OneOrTwo(w) /\ \A i \in DOMAIN w : SavedAs(w[i], db, n, x, r)
    BY <1>1, SaveWrites
  <2>2. Shell!Open(w, Shell!Saved(w[Len(w)]), n, Shell!Front(dialogs))
    BY <1>3 DEF Shell!SaveAndOpen, Shell!Last
  <2> HIDE DEF w
  <2>3. w \in Seq(Databases) /\ Len(w) \in DOMAIN w /\ Opens(w[Len(w)], n)
    BY <2>1 DEF OneOrTwo, SavedAs, Opens
  <2>4. ShellInv' /\ OpenRemembered /\ \E i \in DOMAIN w : db'.lists = w[i].lists
    BY <1>1, <2>2, <2>3, OpenKeeps
  <2>5. /\ Shell!Saved(db') = (Shell!Saved(db) \ ({r} \ {n})) \cup {n}
        /\ \A m \in Shell!Saved(db') \ {n} : db'.lists[m] = db.lists[m]
    BY <2>1, <2>4 DEF SavedAs, Shell!Saved
  <2>6. n # r => n \notin Shell!Saved(db)
    BY <1>3 DEF Shell!Taken
  <2>7. Shell!NoName \notin Shell!Saved(db) /\ Shell!NoName # n
    BY <1>1, DatabaseParts DEF Shell!DashboardAssumption, ListNames, Shell!NoName
  <2>8. NoneLost
    BY <2>5, <2>6, <2>7 DEF NoneLost
  <2>9. KeptAsSaved
    BY <1>1, <2>5, <2>6, <2>7 DEF KeptAsSaved, Shell!Ask
  <2> QED
    BY <1>1, <2>4, <2>8, <2>9 DEF ListStep, SeededOnce
<1> QED
  BY <1>2, <1>3

LEMMA NamedKeeps ==
  ASSUME Shell!DashboardAssumption, ShellInv, NEW n \in ListNames, NEW x \in Symbols,
         Shell!WatchlistNamed(n, x)
  PROVE  ShellInv' /\ ListStep
<1>1. dialogs # <<>> /\ running /\ Shell!Front(dialogs) \in Seq(DialogRecord)
  BY UnderTop DEF Shell!WatchlistNamed, Shell!Ask
<1>2. CASE n \in Shell!Saved(db)
  <2>1. /\ dialogs' = Append(Shell!Front(dialogs), Shell!Dialog("replace", n, {}))
        /\ UNCHANGED <<db, running, watchlist, bar, front, tabs>>
    BY <1>2 DEF Shell!WatchlistNamed
  <2>2. Shell!Dialog("replace", n, {}) \in DialogRecord
    BY DEF Shell!Dialog, DialogRecord, ListNames, Shell!NoName, Shell!DashboardAssumption
  <2>3. dialogs' \in Seq(DialogRecord)
    <3> HIDE DEF DialogRecord
    <3> QED
      BY <1>1, <2>1, <2>2, AppendProperties
  <2> QED
    BY <1>1, <2>1, <2>3, DialogsMove
<1>3. CASE n \notin Shell!Saved(db)
  <2>1. Shell!SaveAndOpen(n, x, Shell!NoName) /\ Shell!Ask("name")
    BY <1>3 DEF Shell!WatchlistNamed
  <2> QED
    BY <2>1, SaveKeeps
<1> QED
  BY <1>2, <1>3

LEMMA DeleteKeeps ==
  ASSUME Shell!DashboardAssumption, ShellInv, Shell!ConfirmDelete
  PROVE  ShellInv' /\ ListStep
<1> DEFINE w == Shell!Delete(db, watchlist.name)
<1>1. /\ dialogs # <<>> /\ running /\ Shell!Front(dialogs) \in Seq(DialogRecord)
      /\ db \in Databases /\ Shell!Ask("delete")
  BY UnderTop, ShellTypes DEF Shell!ConfirmDelete, Shell!Ask
<1>2. CASE watchlist = Shell!NoList
  BY <1>1, <1>2, DismissKeeps DEF Shell!ConfirmDelete
<1>3. CASE watchlist # Shell!NoList
  <2>1. OneOrTwo(w) /\ \A i \in DOMAIN w : DeletedFrom(w[i], db, watchlist.name)
    BY <1>1, DeleteWrites
  <2>2. Shell!Open(w, Shell!Saved(w[Len(w)]), Shell!First(w[Len(w)]), Shell!Front(dialogs))
    BY <1>3 DEF Shell!ConfirmDelete, Shell!Last
  <2> HIDE DEF w
  <2>3. /\ w \in Seq(Databases) /\ Len(w) \in DOMAIN w
        /\ w[Len(w)] \in Databases
    BY <2>1 DEF OneOrTwo, DeletedFrom
  <2>4. Opens(w[Len(w)], Shell!First(w[Len(w)]))
    BY <2>3, OpensSaved
  <2>5. ShellInv' /\ OpenRemembered /\ \E i \in DOMAIN w : db'.lists = w[i].lists
    BY <1>1, <2>2, <2>3, <2>4, OpenKeeps
  <2>6. \A m \in Shell!Saved(db') : db'.lists[m] = db.lists[m]
    BY <2>1, <2>5 DEF DeletedFrom, Shell!Saved
  <2> QED
    BY <1>1, <2>5, <2>6 DEF ListStep, NoneLost, KeptAsSaved, SeededOnce
<1> QED
  BY <1>2, <1>3

-----------------------------------------------------------------------------

LEMMA ShellStarts == ASSUME Shell!DashboardAssumption, Shell!Init PROVE ShellInv
<1>1. PICK some \in SUBSET {Names[1]}, x \in Symbols :
        db = [lists |-> [n \in some |-> x], active |-> Shell!NoName, seeded |-> FALSE]
  BY DEF Shell!Init
<1>2. some \subseteq ListNames
  <2>1. Names \in Seq(STRING) /\ "default" \in ListNames
    BY DEF Shell!DashboardAssumption, ListNames
  <2>2. 1 \in DOMAIN Names
    BY <2>1 DEF ListNames, Shell!Range
  <2> QED
    BY <2>2 DEF ListNames, Shell!Range
<1>3. db \in Databases
  BY <1>1, <1>2, IsDatabase
<1>4. /\ running = FALSE /\ watchlist = Shell!NoList
      /\ bar = [offered |-> {}, value |-> Shell!NoName]
      /\ dialogs = <<>> /\ front = FirstTab /\ tabs = [t \in Tabs |-> Shell!Unbuilt]
  BY DEF Shell!Init
<1>5. Shell!Unbuilt \in TabRecord /\ FirstTab \in Tabs /\ watchlist \in Shell!Lists
  BY <1>4 DEF Shell!Unbuilt, TabRecord, Shell!Lists, Shell!DashboardAssumption
<1>6. Shell!TypeOK
  <2>1. tabs \in [Tabs -> TabRecord] /\ dialogs \in Seq(DialogRecord)
    BY <1>4, <1>5
  <2>2. bar \in [offered : SUBSET ListNames, value : ListNames \cup {Shell!NoName}]
    BY <1>4
  <2> QED
    BY <1>3, <1>4, <1>5, <2>1, <2>2
    DEF Shell!TypeOK, Databases, DialogRecord, Shell!DialogRecord, TabRecord, ListNames
<1>7. Shell!OpenListSaved /\ Gone
  BY <1>4 DEF Shell!OpenListSaved, Gone
<1>8. Shell!TabsShowList /\ \A t \in Tabs : TabOK(t)
  BY <1>4 DEF Shell!TabsShowList, TabOK, Shell!Unbuilt, Shell!DashboardAssumption
<1> QED
  BY <1>6, <1>7, <1>8 DEF ShellInv

LEMMA ShellStep ==
  ASSUME Shell!DashboardAssumption, ShellInv, [Shell!Next]_shellState
  PROVE  ShellInv' /\ ListStep
<1>1. CASE Shell!Start
  BY <1>1, StartKeeps
<1>2. CASE Shell!Quit
  BY <1>2, ShellTypes, StoppedKeeps, NothingWritten DEF Shell!Quit
<1>3. ASSUME NEW t \in Tabs, Shell!SwitchTab(t) \/ Shell!TabMounted(t) \/ Shell!RefreshFails(t)
      PROVE  ShellInv' /\ ListStep
  BY <1>3, SwitchKeeps, MountKeeps, FailKeeps
<1>4. ASSUME NEW n \in ListNames, Shell!SelectWatchlist(n) PROVE ShellInv' /\ ListStep
  BY <1>4, SelectKeeps
<1>5. CASE Shell!NewWatchlist \/ Shell!EditWatchlist \/ Shell!DeleteWatchlist \/ Shell!SaveResult
  <2>1. /\ Shell!Saved(db) \subseteq ListNames /\ Shell!Current \in ListNames \cup {Shell!NoName}
    BY ShellTypes, DatabaseParts DEF Shell!Current
  <2>2. /\ Shell!Dialog("save", Shell!NoName, Shell!Saved(db)) \in DialogRecord
        /\ Shell!Dialog("save", Shell!Current, Shell!Saved(db) \ {Shell!Current}) \in DialogRecord
        /\ Shell!Dialog("name", Shell!NoName, {}) \in DialogRecord
    BY <2>1 DEF Shell!Dialog, DialogRecord
  <2>3. Shell!DeleteWatchlist => Shell!Dialog("delete", Shell!Current, {}) \in DialogRecord
    BY <2>1 DEF Shell!Dialog, DialogRecord, Shell!DeleteWatchlist
  <2> QED
    BY <1>5, <2>2, <2>3, PushKeeps
    DEF Shell!NewWatchlist, Shell!EditWatchlist, Shell!DeleteWatchlist, Shell!SaveResult
<1>6. CASE Shell!Cancelled
  BY <1>6, DismissKeeps DEF Shell!Cancelled
<1>7. ASSUME NEW n \in ListNames, NEW x \in Symbols,
             Shell!SaveWatchlist(n, x) \/ Shell!WatchlistNamed(n, x)
      PROVE  ShellInv' /\ ListStep
  <2>1. CASE Shell!SaveWatchlist(n, x)
    <3>1. Shell!Ask("save") /\ Shell!SaveAndOpen(n, x, Shell!Top.list)
      BY <2>1 DEF Shell!SaveWatchlist
    <3>2. Shell!Top.list \in ListNames \cup {Shell!NoName}
      BY <3>1, UnderTop DEF Shell!Ask
    <3> QED
      BY <3>1, <3>2, SaveKeeps
  <2> QED
    BY <1>7, <2>1, NamedKeeps
<1>8. ASSUME NEW x \in Symbols, Shell!Replaced(x) PROVE ShellInv' /\ ListStep
  <2>1. Shell!Ask("replace") /\ Shell!SaveAndOpen(Shell!Top.list, x, Shell!Top.list)
    BY <1>8 DEF Shell!Replaced
  <2>2. Shell!Top \in DialogRecord /\ Shell!Top.kind = "replace"
    BY <2>1, UnderTop DEF Shell!Ask
  <2>3. Shell!Top.list \in ListNames
    BY <2>2 DEF DialogRecord
  <2> QED
    BY <2>1, <2>3, SaveKeeps
<1>9. CASE Shell!ConfirmDelete
  BY <1>9, DeleteKeeps
<1>10. CASE UNCHANGED shellState
  <2>1. UNCHANGED <<db, running, watchlist, bar, dialogs, front, tabs>>
    BY <1>10 DEF shellState, Shell!vars
  <2>2. ShellInv'
    BY <2>1 DEF ShellInv, Shell!TypeOK, Shell!Lists, Shell!OpenListSaved, Shell!Current,
                Shell!TabsShowList, TabOK, Gone
  <2> QED
    BY <2>1, <2>2, NothingWritten
<1> QED
  BY <1>1, <1>2, <1>3, <1>4, <1>5, <1>6, <1>7, <1>8, <1>9, <1>10 DEF Shell!Next, ListNames

LEMMA ShellAlways == ASSUME Shell!DashboardAssumption PROVE Shell!Spec => []ShellInv
<1>1. Shell!Init => ShellInv
  BY ShellStarts
<1>2. ShellInv /\ [Shell!Next]_shellState => ShellInv'
  BY ShellStep
<1> QED
  BY <1>1, <1>2, PTL DEF Shell!Spec, shellState

\* No saved list is lost, overwritten or forgotten.
THEOREM ListsAlwaysKept ==
  ASSUME Shell!DashboardAssumption
  PROVE  Shell!Spec => ListsKept
<1> DEFINE Step == [ListStep]_shellState
<1>1. ShellInv /\ [Shell!Next]_shellState => Step
  BY ShellStep
<1>2. Shell!Spec => [][ListStep]_shellState
  BY <1>1, ShellAlways, PTL DEF Shell!Spec, shellState
<1>3. [][ListStep]_shellState
      => /\ [][OpenRemembered]_shellState /\ [][NoneLost]_shellState
         /\ [][KeptAsSaved]_shellState /\ [][SeededOnce]_shellState
  <2>1. [ListStep]_shellState
        => /\ [OpenRemembered]_shellState /\ [NoneLost]_shellState
           /\ [KeptAsSaved]_shellState /\ [SeededOnce]_shellState
    BY DEF ListStep
  <2> QED
    BY <2>1, PTL
<1> QED
  BY <1>2, <1>3 DEF ListsKept, Shell!OpenedRemembered, Shell!NothingLost, Shell!NoneOverwritten,
    Shell!DeletedDefaultStays, OpenRemembered, NoneLost, KeptAsSaved, SeededOnce, shellState

-----------------------------------------------------------------------------
(* The live tables.                                                         *)

\* Rows with values, and the ways to sort them.
Snapshots == UNION {[S -> Values \cup {Missing}] : S \in SUBSET Keys}
Sorts == [column : {"value", "symbol"}, descending : BOOLEAN]

\* The instance counts as this module does.
LEMMA SameCounts ==
  \A S : /\ Live!IsFiniteSet(S) = IsFiniteSet(S)
         /\ Live!Cardinality(S) = Cardinality(S)
<1>1. \A S : Live!IsFiniteSet(S) = IsFiniteSet(S)
  BY DEF Live!IsFiniteSet, IsFiniteSet
<1>2. \A S : Live!Cardinality(S) = Cardinality(S)
  BY DEF Live!Cardinality, Cardinality
<1> QED
  BY <1>1, <1>2

LEMMA SnapshotParts ==
  ASSUME Live!TableAssumption, NEW shown \in Snapshots
  PROVE  /\ DOMAIN shown \subseteq Keys /\ DOMAIN shown \subseteq Nat
         /\ shown \in [DOMAIN shown -> Values \cup {Missing}]
         /\ IsFiniteSet(DOMAIN shown) /\ Cardinality(DOMAIN shown) \in Nat
<1>1. PICK S \in SUBSET Keys : shown \in [S -> Values \cup {Missing}]
  BY DEF Snapshots
<1>2. IsFiniteSet(Keys) /\ Keys \subseteq Nat
  BY SameCounts DEF Live!TableAssumption
<1>3. IsFiniteSet(S) /\ Cardinality(S) \in Nat
  BY <1>2, FS_Subset, FS_CardinalityType
<1> QED
  BY <1>1, <1>2, <1>3

\* The order is strict and total.
LEMMA BeforeIsOrder ==
  ASSUME Live!TableAssumption, NEW shown \in Snapshots, NEW by \in Sorts
  PROVE  \A a, b \in DOMAIN shown :
            /\ ~Live!Before(shown, by, a, a)
            /\ a = b \/ Live!Before(shown, by, a, b) \/ Live!Before(shown, by, b, a)
            /\ \A c \in DOMAIN shown :
                  Live!Before(shown, by, a, b) /\ Live!Before(shown, by, b, c)
                  => Live!Before(shown, by, a, c)
<1>1. /\ DOMAIN shown \subseteq Nat /\ Values \subseteq Nat /\ Missing \notin Values
      /\ \A a \in DOMAIN shown : shown[a] \in Values \cup {Missing}
  BY SnapshotParts DEF Live!TableAssumption
<1> SUFFICES ASSUME NEW a \in DOMAIN shown, NEW b \in DOMAIN shown
             PROVE  /\ ~Live!Before(shown, by, a, a)
                    /\ a = b \/ Live!Before(shown, by, a, b) \/ Live!Before(shown, by, b, a)
                    /\ \A c \in DOMAIN shown :
                          Live!Before(shown, by, a, b) /\ Live!Before(shown, by, b, c)
                          => Live!Before(shown, by, a, c)
  OBVIOUS
<1>2. CASE by.column = "symbol"
  BY <1>1, <1>2 DEF Live!Before
<1>3. CASE by.column # "symbol"
  <2> DEFINE Value(c) == shown[c]
             Over(c, d) == IF by.descending THEN Value(c) > Value(d) ELSE Value(c) < Value(d)
  <2>1. \A c, d \in DOMAIN shown :
           Live!Before(shown, by, c, d) <=>
              \/ Value(c) # Missing /\ Value(d) = Missing
              \/ Value(c) = Value(d) /\ c < d
              \/ Value(c) # Missing /\ Value(d) # Missing /\ Over(c, d)
    BY <1>3 DEF Live!Before
  <2>2. \A c \in DOMAIN shown : c \in Nat /\ (Value(c) = Missing \/ Value(c) \in Nat)
    BY <1>1
  <2>3. \A c, d \in DOMAIN shown :
           Value(c) \in Nat /\ Value(d) \in Nat
           => /\ ~Over(c, c)
              /\ Value(c) = Value(d) \/ Over(c, d) \/ Over(d, c)
              /\ \A e \in DOMAIN shown :
                    Value(e) \in Nat /\ Over(c, d) /\ Over(d, e) => Over(c, e)
    <3> HIDE DEF Value
    <3>1. CASE by.descending
      BY <3>1
    <3>2. CASE ~by.descending
      BY <3>2
    <3> QED
      BY <3>1, <3>2
  <2>4. \A c, d, e \in DOMAIN shown :
           /\ Value(c) = Value(d) /\ Over(c, e) => Over(d, e)
           /\ Value(c) = Value(d) /\ Over(e, c) => Over(e, d)
    OBVIOUS
  <2> HIDE DEF Value, Over
  <2> QED
    BY <2>1, <2>2, <2>3, <2>4
<1> QED
  BY <1>2, <1>3

\* A snapshot can be sorted: each row goes to the place after those before it.
LEMMA CanBeSorted ==
  ASSUME Live!TableAssumption, NEW shown \in Snapshots, NEW by \in Sorts
  PROVE  \E keys \in [1 .. Cardinality(DOMAIN shown) -> DOMAIN shown] :
            \A i, j \in DOMAIN keys : i < j => Live!Before(shown, by, keys[i], keys[j])
<1> DEFINE S == DOMAIN shown
           n == Cardinality(S)
           Earlier(a) == {b \in S : Live!Before(shown, by, b, a)}
           place == [a \in S |-> Cardinality(Earlier(a)) + 1]
<1>1. IsFiniteSet(S) /\ n \in Nat
  BY SnapshotParts
<1>2. ASSUME NEW a, NEW b, a \in S, b \in S, Live!Before(shown, by, a, b)
      PROVE  Cardinality(Earlier(a)) < Cardinality(Earlier(b))
  <2>1. Earlier(a) \subseteq Earlier(b) /\ a \in Earlier(b) /\ a \notin Earlier(a)
    BY <1>2, BeforeIsOrder
  <2> HIDE DEF Earlier
  <2>2. IsFiniteSet(Earlier(b)) /\ Cardinality(Earlier(b)) \in Nat
    BY <1>1, FS_Subset, FS_CardinalityType DEF Earlier
  <2>3. IsFiniteSet(Earlier(a)) /\ Cardinality(Earlier(a)) \in Nat
    BY <1>1, FS_Subset, FS_CardinalityType DEF Earlier
  <2>4. /\ Cardinality(Earlier(a)) <= Cardinality(Earlier(b))
        /\ Cardinality(Earlier(b)) # Cardinality(Earlier(a))
    BY <2>1, <2>2, FS_Subset
  <2> QED
    BY <2>2, <2>3, <2>4
<1>3. ASSUME NEW a \in S PROVE Cardinality(Earlier(a)) + 1 \in 1 .. n
  <2>1. Earlier(a) \subseteq S /\ a \notin Earlier(a)
    BY BeforeIsOrder
  <2> HIDE DEF Earlier
  <2>2. IsFiniteSet(Earlier(a)) /\ Cardinality(Earlier(a)) \in Nat
    BY <1>1, <2>1, FS_Subset, FS_CardinalityType
  <2>3. Cardinality(Earlier(a)) <= n /\ Cardinality(Earlier(a)) # n
    BY <1>1, <2>1, FS_Subset
  <2> QED
    BY <1>1, <2>2, <2>3
<1>4. /\ place \in [S -> 1 .. n]
      /\ \A a, b \in S : Live!Before(shown, by, a, b) => place[a] < place[b]
  <2> HIDE DEF Earlier
  <2>1. \A a \in S : Cardinality(Earlier(a)) \in Nat
    BY <1>1, FS_Subset, FS_CardinalityType DEF Earlier
  <2> QED
    BY <1>2, <1>3, <2>1
<1> HIDE DEF place
<1>5. \A a, b \in S : place[a] = place[b] => a = b
  <2>1. \A a \in S : place[a] \in Nat
    BY <1>4
  <2> QED
    BY <1>4, <2>1, BeforeIsOrder
<1>6. place \in Surjection(S, 1 .. n)
  <2>1. place \in Injection(S, 1 .. n)
    BY <1>4, <1>5, Fun_IsInj
  <2>2. IsFiniteSet(1 .. n) /\ Cardinality(1 .. n) = n
    BY <1>1, FS_Interval
  <2> QED
    BY <2>1, <2>2, FS_Injection
<1> DEFINE keys == [i \in 1 .. n |-> CHOOSE a \in S : place[a] = i]
<1>7. ASSUME NEW i \in 1 .. n PROVE keys[i] \in S /\ place[keys[i]] = i
  <2>1. \E a \in S : place[a] = i
    BY <1>6 DEF Surjection
  <2> QED
    BY <2>1
<1>8. keys \in [1 .. n -> S]
  BY <1>7
<1> HIDE DEF keys
<1>9. ASSUME NEW i \in 1 .. n, NEW j \in 1 .. n, i < j
      PROVE  Live!Before(shown, by, keys[i], keys[j])
  <2>1. keys[i] \in S /\ keys[j] \in S /\ place[keys[i]] = i /\ place[keys[j]] = j
    BY <1>7
  <2>2. ~(Live!Before(shown, by, keys[j], keys[i])) /\ keys[i] # keys[j]
    BY <1>1, <1>4, <1>9, <2>1
  <2> QED
    BY <2>1, <2>2, BeforeIsOrder
<1> QED
  BY <1>8, <1>9

\* The sorted keys are the rows, each once.
LEMMA SortedIs ==
  ASSUME Live!TableAssumption, NEW shown \in Snapshots, NEW by \in Sorts
  PROVE  LET keys == Live!SortedKeys(shown, by)
         IN  /\ keys \in Seq(Keys) /\ Live!IsInjective(keys)
             /\ Live!Range(keys) = DOMAIN shown
<1> DEFINE S == DOMAIN shown
           n == Cardinality(S)
           keys == Live!SortedKeys(shown, by)
<1>1. IsFiniteSet(S) /\ n \in Nat /\ S \subseteq Keys
  BY SnapshotParts
<1>2. /\ keys \in [1 .. n -> S]
      /\ \A i, j \in DOMAIN keys : i < j => Live!Before(shown, by, keys[i], keys[j])
  <2>1. \E k \in [1 .. n -> S] :
           \A i, j \in DOMAIN k : i < j => Live!Before(shown, by, k[i], k[j])
    BY CanBeSorted
  <2> DEFINE P(k) == \A i, j \in DOMAIN k : i < j => Live!Before(shown, by, k[i], k[j])
  <2>2. keys = CHOOSE k \in [1 .. n -> S] : P(k)
    BY SameCounts, Zenon DEF Live!SortedKeys
  <2>3. \E k \in [1 .. n -> S] : P(k)
    BY <2>1
  <2> HIDE DEF P, n, S, keys
  <2>4. keys \in [1 .. n -> S] /\ P(keys)
    BY <2>2, <2>3
  <2> QED
    BY <2>4 DEF P
<1> HIDE DEF keys
<1>3. \A i, j \in 1 .. n : keys[i] = keys[j] => i = j
  <2> SUFFICES ASSUME NEW i \in 1 .. n, NEW j \in 1 .. n, i < j PROVE keys[i] # keys[j]
    <3> HIDE DEF n
    <3> QED
      BY <1>1
  <2>1. keys[i] \in S /\ Live!Before(shown, by, keys[i], keys[j])
    BY <1>2
  <2> QED
    BY <2>1, BeforeIsOrder
<1>4. keys \in Surjection(1 .. n, S)
  <2>1. keys \in Injection(1 .. n, S)
    BY <1>2, <1>3, Fun_IsInj
  <2>2. Cardinality(1 .. n) = n
    BY <1>1, FS_Interval
  <2> QED
    BY <1>1, <2>1, <2>2, FS_Injection
<1>5. \A a \in S : \E i \in 1 .. n : keys[i] = a
  <2> HIDE DEF n, S
  <2> QED
    BY <1>4 DEF Surjection
<1> HIDE DEF n, S
<1>6. keys \in Seq(S)
  BY <1>1, <1>2, IsASeq
<1>7. keys \in Seq(Keys)
  BY <1>1, <1>6, SeqMonotonic
<1>8. DOMAIN keys = 1 .. n
  BY <1>2
<1>9. Live!IsInjective(keys)
  BY <1>3, <1>8 DEF Live!IsInjective
<1>10. Live!Range(keys) = S
  BY <1>2, <1>5, <1>8 DEF Live!Range
<1> QED
  BY <1>7, <1>9, <1>10 DEF keys, S

\* The table from its parts, and what it holds after a frame: the rows that the frame
\* had to show, unless there were none and it was left as it was.
TableOK ==
    /\ navTable = [keys |-> navTable.keys, cells |-> navTable.cells, cursor |-> navTable.cursor]
    /\ navTable.keys \in Seq(Keys) /\ Live!IsInjective(navTable.keys)
    /\ navTable.cursor \in DOMAIN navTable.keys \cup {1}
    /\ drawn \subseteq Keys
    /\ drawn # {} => Live!Range(navTable.keys) = drawn /\ DOMAIN navTable.cells = drawn
    /\ \A shown \in seen : shown \in [drawn -> Values \cup {Missing}]
    /\ Live!RowsInStep
    /\ ~follow => navTable.cursor = 1 \/ drawn = {}

LiveInv == Live!TypeOK /\ TableOK

\* What the two properties say of one step.
CursorStep ==
    follow /\ follow' /\ navTable'.cells # Live!Empty
    => \/ Live!CursorKey \cap Live!Range(navTable'.keys) = {}
       \/ navTable'.keys[navTable'.cursor] \in Live!CursorKey
       \/ holding' /\ navTable'.keys = navTable.keys

OrderStep ==
    /\ frozen \/ holding
    /\ navTable'.keys # navTable.keys
    => \/ Live!Range(navTable'.keys) # Live!Range(navTable.keys)
       \/ sort' # sort
       \/ Live!Range(navTable.keys) # drawn
       \/ frozen # frozen'

\* The order changes with the rows, or because it may.
MayReorder(may) ==
    \/ navTable'.keys = navTable.keys
    \/ Live!Range(navTable'.keys) # Live!Range(navTable.keys)
    \/ Live!Range(navTable.keys) # drawn
    \/ may

LEMMA LiveTypes ==
  ASSUME Live!TableAssumption, LiveInv
  PROVE  /\ DOMAIN rows \subseteq Keys /\ rows \in [DOMAIN rows -> Values \cup {Missing}]
         /\ rows \in Snapshots /\ filter \in SUBSET Keys /\ sort \in Sorts
         /\ \A let : Live!Restrict(rows, DOMAIN rows \cap let) \in Snapshots
<1>1. DOMAIN rows \subseteq Keys /\ rows \in [DOMAIN rows -> Values \cup {Missing}]
  BY DEF LiveInv, Live!TypeOK
<1>2. filter \in SUBSET Keys /\ sort \in Sorts
  BY DEF LiveInv, Live!TypeOK, Live!TableAssumption, Sorts
<1>3. ASSUME NEW let PROVE Live!Restrict(rows, DOMAIN rows \cap let) \in Snapshots
  <2>1. DOMAIN rows \cap let \in SUBSET Keys
    BY <1>1
  <2>2. Live!Restrict(rows, DOMAIN rows \cap let)
          \in [DOMAIN rows \cap let -> Values \cup {Missing}]
    BY <1>1 DEF Live!Restrict
  <2> QED
    BY <2>1, <2>2 DEF Snapshots
<1> QED
  BY <1>1, <1>2, <1>3 DEF Snapshots

\* The cursor finds the row that it was on.
LEMMA OrderedIs ==
  ASSUME NEW keys \in Seq(Keys), Live!IsInjective(keys), NEW cells,
         NEW t, t = Live!Ordered(keys, cells)
  PROVE  /\ t = [keys |-> keys, cells |-> cells, cursor |-> t.cursor]
         /\ t.cursor \in DOMAIN keys \cup {1}
         /\ ~follow => t.cursor = 1
         /\ follow => \/ Live!CursorKey \cap Live!Range(keys) = {}
                      \/ keys[t.cursor] \in Live!CursorKey
<1>1. t = [keys |-> keys, cells |-> cells, cursor |-> Live!RestoreCursor(keys)]
  BY DEF Live!Ordered
<1>2. CASE follow /\ Live!CursorKey \cap Live!Range(keys) # {}
  <2>1. \E i \in DOMAIN keys : keys[i] \in Live!CursorKey
    BY <1>2 DEF Live!Range
  <2> DEFINE c == CHOOSE i \in DOMAIN keys : keys[i] \in Live!CursorKey
  <2>2. c \in DOMAIN keys /\ keys[c] \in Live!CursorKey
    BY <2>1
  <2>3. Live!RestoreCursor(keys) = c
    BY <1>2 DEF Live!RestoreCursor
  <2> QED
    BY <1>1, <1>2, <2>2, <2>3
<1>3. CASE ~(follow /\ Live!CursorKey \cap Live!Range(keys) # {})
  <2>1. Live!RestoreCursor(keys) = 1
    BY <1>3 DEF Live!RestoreCursor
  <2> QED
    BY <1>1, <1>3, <2>1
<1> QED
  BY <1>2, <1>3

\* A table that is built of a snapshot.
LEMMA RebuiltIs ==
  ASSUME Live!TableAssumption, NEW shown \in Snapshots, NEW by \in Sorts,
         Live!Rebuild(shown, by), seen' = {shown}, follow' = follow
  PROVE  /\ TableOK' /\ CursorStep /\ drawn' = DOMAIN shown /\ due' = FALSE
         /\ Live!Range(navTable'.keys) = DOMAIN shown
<1> DEFINE keys == Live!SortedKeys(shown, by)
<1>1. keys \in Seq(Keys) /\ Live!IsInjective(keys) /\ Live!Range(keys) = DOMAIN shown
  BY SortedIs
<1>2. navTable' = Live!Ordered(keys, shown) /\ drawn' = DOMAIN shown /\ due' = FALSE
  BY DEF Live!Rebuild
<1>3. DOMAIN shown \subseteq Keys /\ shown \in [DOMAIN shown -> Values \cup {Missing}]
  BY SnapshotParts
<1> HIDE DEF keys
<1>4. /\ navTable' = [keys |-> keys, cells |-> shown, cursor |-> navTable'.cursor]
      /\ navTable'.cursor \in DOMAIN keys \cup {1}
      /\ ~follow => navTable'.cursor = 1
      /\ follow => \/ Live!CursorKey \cap Live!Range(keys) = {}
                   \/ keys[navTable'.cursor] \in Live!CursorKey
  BY <1>1, <1>2, OrderedIs
<1>5. navTable'.keys = keys /\ navTable'.cells = shown
  BY <1>4
<1>6. Live!RowsInStep'
  BY <1>1, <1>5 DEF Live!RowsInStep
<1>7. CursorStep
  BY <1>4, <1>5 DEF CursorStep
<1>8. TableOK'
  BY <1>1, <1>2, <1>3, <1>4, <1>5, <1>6 DEF TableOK
<1> QED
  BY <1>1, <1>2, <1>5, <1>7, <1>8

\* A frame: the table is built again, sorted, or written in place.
LEMMA DrawKeeps ==
  ASSUME Live!TableAssumption, LiveInv, NEW shown \in Snapshots, NEW by \in Sorts,
         NEW now \in BOOLEAN, Live!Draw(shown, by, now), follow' = follow
  PROVE  TableOK' /\ CursorStep /\ due' \in BOOLEAN /\ MayReorder(now \/ Live!Settled)
<1>1. TableOK /\ due \in BOOLEAN /\ seen' = {shown} /\ Live!Render(shown, by, now)
  BY DEF LiveInv, Live!TypeOK, Live!Draw
<1>2. DOMAIN shown \subseteq Keys /\ shown \in [DOMAIN shown -> Values \cup {Missing}]
  BY SnapshotParts
<1>3. CASE DOMAIN shown # drawn
  <2>1. Live!Rebuild(shown, by)
    BY <1>1, <1>3 DEF Live!Render
  <2>2. /\ TableOK' /\ CursorStep /\ due' = FALSE
        /\ Live!Range(navTable'.keys) = DOMAIN shown
    BY <1>1, <2>1, RebuiltIs
  <2> QED
    BY <1>3, <2>2 DEF MayReorder
<1>4. CASE DOMAIN shown = drawn
  <2> DEFINE keys == Live!SortedKeys(shown, by)
             cells == Live!UpdatedCells(shown)
  <2>1. /\ drawn' = drawn /\ due' = (due /\ ~now /\ ~Live!Settled)
        /\ navTable' = IF /\ now \/ Live!Settled
                          /\ shown # Live!Empty /\ keys # navTable.keys
                       THEN Live!Ordered(keys, cells) ELSE [navTable EXCEPT !.cells = cells]
    BY <1>1, <1>4 DEF Live!Render
  <2>2. keys \in Seq(Keys) /\ Live!IsInjective(keys) /\ Live!Range(keys) = drawn
    BY <1>4, SortedIs
  <2>3. drawn # {} => cells = shown /\ DOMAIN cells = drawn
    BY <1>1, <1>2, <1>4 DEF TableOK, Live!UpdatedCells
  <2>4. drawn = {} => shown = Live!Empty
    BY <1>2, <1>4 DEF Live!Empty
  <2> HIDE DEF keys, cells
  <2>5. CASE (now \/ Live!Settled) /\ shown # Live!Empty /\ keys # navTable.keys
    <3>1. navTable' = Live!Ordered(keys, cells)
      BY <2>1, <2>5
    <3>2. /\ navTable' = [keys |-> keys, cells |-> cells, cursor |-> navTable'.cursor]
          /\ navTable'.cursor \in DOMAIN keys \cup {1}
          /\ ~follow => navTable'.cursor = 1
          /\ follow => \/ Live!CursorKey \cap Live!Range(keys) = {}
                       \/ keys[navTable'.cursor] \in Live!CursorKey
      BY <2>2, <3>1, OrderedIs
    <3>3. navTable'.keys = keys /\ navTable'.cells = cells
      BY <3>2
    <3>4. Live!RowsInStep'
      BY <1>1, <1>4, <2>2, <2>3, <2>4, <2>5, <3>3 DEF Live!RowsInStep
    <3>5. TableOK'
      BY <1>1, <1>2, <1>4, <2>1, <2>2, <2>3, <3>2, <3>3, <3>4 DEF TableOK
    <3> QED
      BY <1>1, <2>1, <2>5, <3>2, <3>3, <3>5 DEF CursorStep, MayReorder
  <2>6. CASE ~((now \/ Live!Settled) /\ shown # Live!Empty /\ keys # navTable.keys)
    <3>1. navTable' = [navTable EXCEPT !.cells = cells]
      BY <2>1, <2>6
    <3>2. navTable' = [keys |-> navTable.keys, cells |-> cells, cursor |-> navTable.cursor]
      BY <1>1, <3>1 DEF TableOK
    <3>3. /\ navTable'.keys = navTable.keys /\ navTable'.cells = cells
          /\ navTable'.cursor = navTable.cursor
      BY <3>2
    <3>4. Live!RowsInStep'
      BY <1>1, <1>4, <2>3, <2>4, <3>3 DEF Live!RowsInStep, TableOK
    <3>5. TableOK'
      BY <1>1, <1>2, <1>4, <2>1, <2>3, <3>2, <3>3, <3>4 DEF TableOK
    <3>6. CursorStep
      <4>1. CASE navTable.keys = <<>>
        BY <4>1 DEF CursorStep, Live!CursorKey
      <4>2. CASE navTable.keys # <<>>
        BY <3>3, <4>2 DEF CursorStep, Live!CursorKey
      <4> QED
        BY <4>1, <4>2
    <3> QED
      BY <1>1, <2>1, <3>3, <3>5, <3>6 DEF MayReorder
  <2> QED
    BY <2>5, <2>6
<1> QED
  BY <1>3, <1>4

\* A step that leaves the table alone.
LEMMA UndrawnKeeps ==
  ASSUME TableOK, UNCHANGED <<navTable, drawn, seen>>, follow' = follow
  PROVE  TableOK' /\ CursorStep /\ OrderStep
<1>1. TableOK'
  BY DEF TableOK, Live!RowsInStep
<1>2. CASE navTable.keys = <<>>
  BY <1>1, <1>2 DEF CursorStep, OrderStep, Live!CursorKey
<1>3. CASE navTable.keys # <<>>
  BY <1>1, <1>3 DEF CursorStep, OrderStep, Live!CursorKey
<1> QED
  BY <1>2, <1>3

\* The frames and the keys that draw at once.
LEMMA FrameKeeps ==
  ASSUME Live!TableAssumption, LiveInv, Live!Frame
  PROVE  LiveInv' /\ CursorStep /\ OrderStep
<1>1. /\ Live!Draw(Live!Visible, sort, FALSE)
      /\ UNCHANGED <<pane, rows, filter, sort, frozen, holding, follow>>
  BY DEF Live!Frame
<1>2. Live!Visible \in Snapshots /\ sort \in Sorts
  BY LiveTypes DEF Live!Visible
<1>3. TableOK' /\ CursorStep /\ due' \in BOOLEAN /\ MayReorder(FALSE \/ Live!Settled)
  BY <1>1, <1>2, DrawKeeps
<1>4. OrderStep
  BY <1>3 DEF OrderStep, MayReorder, Live!Settled
<1> QED
  BY <1>1, <1>3, <1>4 DEF LiveInv, Live!TypeOK, TableOK

LEMMA FilterKeeps ==
  ASSUME Live!TableAssumption, LiveInv, NEW let \in Filters, Live!TypeFilter(let)
  PROVE  LiveInv' /\ CursorStep /\ OrderStep
<1>1. filter' = let /\ UNCHANGED <<pane, rows, sort, frozen, holding, follow>>
  BY DEF Live!TypeFilter
<1> DEFINE shown == Live!Restrict(rows, DOMAIN rows \cap let)
<1>2. shown \in Snapshots /\ sort \in Sorts
  BY LiveTypes
<1>3. TableOK' /\ CursorStep /\ due' \in BOOLEAN /\ OrderStep
  <2>1. CASE pane = "scanner"
    <3>1. Live!Draw(shown, sort, FALSE)
      BY <2>1 DEF Live!TypeFilter
    <3> HIDE DEF shown
    <3>2. TableOK' /\ CursorStep /\ due' \in BOOLEAN /\ MayReorder(FALSE \/ Live!Settled)
      BY <1>1, <1>2, <3>1, DrawKeeps
    <3> QED
      BY <3>2 DEF OrderStep, MayReorder, Live!Settled
  <2>2. CASE pane # "scanner"
    BY <1>1, <2>2, UndrawnKeeps DEF Live!TypeFilter, Live!Undrawn, LiveInv, Live!TypeOK
  <2> QED
    BY <2>1, <2>2
<1> QED
  BY <1>1, <1>3 DEF LiveInv, Live!TypeOK, TableOK

LEMMA FreezeKeeps ==
  ASSUME Live!TableAssumption, LiveInv, Live!ToggleFreeze
  PROVE  LiveInv' /\ CursorStep /\ OrderStep
<1>1. /\ frozen' = ~frozen /\ frozen \in BOOLEAN
      /\ UNCHANGED <<pane, rows, filter, sort, holding, follow>>
  BY DEF Live!ToggleFreeze, LiveInv, Live!TypeOK
<1>2. Live!Visible \in Snapshots /\ sort \in Sorts
  BY LiveTypes DEF Live!Visible
<1>3. TableOK' /\ CursorStep /\ due' \in BOOLEAN
  <2>1. CASE pane = "rvol"
    BY <1>1, <2>1, UndrawnKeeps DEF Live!ToggleFreeze, Live!Undrawn, LiveInv, Live!TypeOK
  <2>2. CASE pane # "rvol"
    <3> DEFINE settled == due /\ frozen /\ ~holding
    <3>1. Live!Draw(Live!Visible, sort, settled)
      BY <2>2 DEF Live!ToggleFreeze
    <3>2. settled \in BOOLEAN
      OBVIOUS
    <3> HIDE DEF settled
    <3> QED
      BY <1>1, <1>2, <3>1, <3>2, DrawKeeps
  <2> QED
    BY <2>1, <2>2
<1>4. OrderStep
  BY <1>1 DEF OrderStep
<1> QED
  BY <1>1, <1>3, <1>4 DEF LiveInv, Live!TypeOK, TableOK

LEMMA ResortKeeps ==
  ASSUME Live!TableAssumption, LiveInv, NEW by \in Sorts, by # sort, Live!Resort(by)
  PROVE  LiveInv' /\ CursorStep /\ OrderStep
<1>1. sort' = by /\ UNCHANGED <<pane, rows, filter, frozen, holding, follow>>
  BY DEF Live!Resort
<1>2. Live!Visible \in Snapshots
  BY LiveTypes DEF Live!Visible
<1>3. TableOK' /\ CursorStep /\ due' \in BOOLEAN
  <2>1. CASE pane = "scanner"
    <3>1. Live!Draw(Live!Visible, by, TRUE)
      BY <2>1 DEF Live!Resort
    <3> QED
      BY <1>1, <1>2, <3>1, DrawKeeps
  <2>2. CASE pane # "scanner"
    <3>1. Live!Rebuild(Live!Visible, by) /\ seen' = {Live!Visible}
      BY <2>2 DEF Live!Resort
    <3> QED
      BY <1>1, <1>2, <3>1, RebuiltIs
  <2> QED
    BY <2>1, <2>2
<1>4. OrderStep
  BY <1>1 DEF OrderStep
<1> QED
  BY <1>1, <1>3, <1>4 DEF LiveInv, Live!TypeOK, TableOK, Sorts

LEMMA NavigateKeeps ==
  ASSUME Live!TableAssumption, LiveInv, NEW row, Live!Navigate(row)
  PROVE  LiveInv' /\ CursorStep /\ OrderStep
<1>1. /\ row \in DOMAIN navTable.keys /\ navTable' = [navTable EXCEPT !.cursor = row]
      /\ follow' = TRUE /\ holding' = TRUE
      /\ UNCHANGED <<pane, rows, filter, sort, frozen, due, drawn, seen>>
      /\ navTable = [keys |-> navTable.keys, cells |-> navTable.cells, cursor |-> navTable.cursor]
  BY DEF Live!Navigate, LiveInv, TableOK
<1>2. navTable' = [keys |-> navTable.keys, cells |-> navTable.cells, cursor |-> row]
  BY <1>1
<1>3. /\ navTable'.keys = navTable.keys /\ navTable'.cells = navTable.cells
      /\ navTable'.cursor = row
  BY <1>2
<1>4. TableOK'
  BY <1>1, <1>2, <1>3 DEF LiveInv, TableOK, Live!RowsInStep
<1>5. CursorStep /\ OrderStep
  BY <1>1, <1>3 DEF CursorStep, OrderStep
<1> QED
  BY <1>1, <1>3, <1>4, <1>5 DEF LiveInv, Live!TypeOK, TableOK

LEMMA WatchlistKeeps ==
  ASSUME Live!TableAssumption, LiveInv, NEW symbols \in SUBSET Keys,
         Live!OnWatchlistChanged(symbols)
  PROVE  LiveInv' /\ CursorStep /\ OrderStep
<1>1. /\ rows' = [k \in symbols |-> Missing] /\ drawn' = {} /\ seen' = {} /\ follow' = FALSE
      /\ UNCHANGED <<pane, filter, sort, frozen, holding, due, navTable>>
  BY DEF Live!OnWatchlistChanged, Live!Forgotten
<1>2. TableOK'
  BY <1>1 DEF LiveInv, TableOK, Live!RowsInStep
<1>3. DOMAIN rows' \subseteq Keys /\ rows' \in [DOMAIN rows' -> Values \cup {Missing}]
  BY <1>1
<1> QED
  BY <1>1, <1>2, <1>3 DEF LiveInv, Live!TypeOK, TableOK, CursorStep, OrderStep

LEMMA LiveStarts == ASSUME Live!TableAssumption, Live!Init PROVE LiveInv
<1>1. /\ rows = Live!Empty /\ filter = Keys /\ sort = [column |-> "value", descending |-> TRUE]
      /\ frozen = FALSE /\ holding = FALSE /\ due = FALSE /\ follow = FALSE
      /\ navTable = [keys |-> <<>>, cells |-> Live!Empty, cursor |-> 1]
      /\ drawn = {} /\ seen = {}
  BY DEF Live!Init
<1>2. /\ navTable.keys = <<>> /\ navTable.cursor = 1
      /\ navTable = [keys |-> navTable.keys, cells |-> navTable.cells, cursor |-> navTable.cursor]
      /\ <<>> \in Seq(Keys) /\ Live!IsInjective(<<>>)
  BY <1>1 DEF Live!IsInjective
<1>3. TableOK
  BY <1>1, <1>2 DEF TableOK, Live!RowsInStep
<1> QED
  BY <1>1, <1>2, <1>3 DEF LiveInv, Live!TypeOK, Live!Empty

LEMMA LiveKeeps ==
  ASSUME Live!TableAssumption, LiveInv, [Live!Next]_(Live!vars)
  PROVE  LiveInv' /\ CursorStep /\ OrderStep
<1>1. ASSUME NEW k \in Keys, NEW v \in Values \cup {Missing}, Live!Ticked(k, v)
      PROVE  LiveInv' /\ CursorStep /\ OrderStep
  <2>1. /\ rows' = [rows EXCEPT ![k] = v] /\ k \in DOMAIN rows
        /\ UNCHANGED <<pane, filter, sort, frozen, holding, follow, navTable, drawn, due, seen>>
    BY <1>1 DEF Live!Ticked, Live!Undrawn
  <2>2. DOMAIN rows' \subseteq Keys /\ rows' \in [DOMAIN rows' -> Values \cup {Missing}]
    BY <2>1, LiveTypes
  <2> QED
    BY <2>1, <2>2, UndrawnKeeps DEF LiveInv, Live!TypeOK
<1>2. ASSUME NEW symbols \in SUBSET Keys, Live!OnWatchlistChanged(symbols)
      PROVE  LiveInv' /\ CursorStep /\ OrderStep
  BY <1>2, WatchlistKeeps
<1>3. CASE Live!Frame
  BY <1>3, FrameKeeps
<1>4. ASSUME NEW let \in Filters, Live!TypeFilter(let)
      PROVE  LiveInv' /\ CursorStep /\ OrderStep
  BY <1>4, FilterKeeps
<1>5. CASE Live!ToggleFreeze
  BY <1>5, FreezeKeeps
<1>6. CASE Live!ReverseSort
  <2>1. sort \in Sorts
    BY LiveTypes
  <2> DEFINE by == [sort EXCEPT !.descending = ~@]
  <2>2. by \in Sorts /\ by # sort
    <3>1. by = [column |-> sort.column, descending |-> ~sort.descending]
      BY <2>1 DEF Sorts
    <3>2. by.descending # sort.descending
      BY <2>1, <3>1 DEF Sorts
    <3> QED
      BY <2>1, <3>1, <3>2 DEF Sorts
  <2>3. Live!Resort(by)
    BY <1>6 DEF Live!ReverseSort
  <2> HIDE DEF by
  <2> QED
    BY <2>2, <2>3, ResortKeeps
<1>7. CASE Live!CycleSort
  <2>1. sort \in Sorts
    BY LiveTypes
  <2> DEFINE column == IF sort.column = "value" THEN "symbol" ELSE "value"
             by == [column |-> column,
                    descending |-> IF pane = "scanner" THEN column = "value"
                                   ELSE sort.descending]
  <2>2. by \in Sorts /\ by # sort
    <3>1. by.column # sort.column
      OBVIOUS
    <3>2. (IF pane = "scanner" THEN column = "value" ELSE sort.descending) \in BOOLEAN
      BY <2>1 DEF Sorts
    <3> QED
      BY <3>1, <3>2 DEF Sorts
  <2>3. Live!Resort(by)
    BY <1>7 DEF Live!CycleSort
  <2> HIDE DEF by
  <2> QED
    BY <2>2, <2>3, ResortKeeps
<1>8. ASSUME NEW row, Live!Navigate(row) PROVE LiveInv' /\ CursorStep /\ OrderStep
  BY <1>8, NavigateKeeps
<1>9. CASE Live!ReorderSecondsPass \/ Live!HoldEnds \/ UNCHANGED Live!vars
  <2>1. /\ UNCHANGED <<pane, rows, filter, sort, frozen, follow, navTable, drawn, seen>>
        /\ holding' \in BOOLEAN /\ due' \in BOOLEAN
    BY <1>9 DEF Live!ReorderSecondsPass, Live!HoldEnds, Live!vars, LiveInv, Live!TypeOK
  <2> QED
    BY <2>1, UndrawnKeeps DEF LiveInv, Live!TypeOK
<1> QED
  BY <1>1, <1>2, <1>3, <1>4, <1>5, <1>6, <1>7, <1>8, <1>9 DEF Live!Next

LEMMA LiveAlways == ASSUME Live!TableAssumption PROVE Live!Spec => []LiveInv
<1>1. Live!Init => LiveInv
  BY LiveStarts
<1>2. LiveInv /\ [Live!Next]_(Live!vars) => LiveInv'
  BY LiveKeeps
<1> QED
  BY <1>1, <1>2, PTL DEF Live!Spec

\* The cursor stays on its row, and rows that are held stay in place.
LEMMA LiveMoves ==
  ASSUME Live!TableAssumption PROVE Live!Spec => Live!CursorFollows /\ Live!OrderHolds
<1>1. LiveInv /\ [Live!Next]_(Live!vars) => [CursorStep]_(Live!vars) /\ [OrderStep]_(Live!vars)
  BY LiveKeeps
<1>2. Live!Spec => [][CursorStep]_(Live!vars) /\ [][OrderStep]_(Live!vars)
  BY <1>1, LiveAlways, PTL DEF Live!Spec
<1> QED
  BY <1>2 DEF Live!CursorFollows, Live!OrderHolds, CursorStep, OrderStep

-----------------------------------------------------------------------------

\* Through any keys, dialogs, messages and deaths: the list that is open is a saved
\* one, the picker and the tabs that work show it, the tab in front and no other
\* refreshes, and a table holds the rows there are from the top on (SwingDashApp,
\* ui/app.py; BasePane, ui/tabs/base.py; LiveTable.render, ui/widgets/live_table.py).
THEOREM ScreensAlwaysSound ==
  ASSUME Shell!DashboardAssumption, Live!TableAssumption
  PROVE  Shell!Spec /\ Live!Spec => []ScreensSound
<1>1. ASSUME ShellInv, LiveInv PROVE ScreensSound
  <2>1. Shell!RefreshesInFront
    BY <1>1 DEF ShellInv, TabOK, Shell!RefreshesInFront, Shell!Refreshes
  <2>2. Live!TopUntilMoved
    <3> SUFFICES ASSUME seen \notin {{}, {Live!Empty}}, ~follow PROVE navTable.cursor = 1
      BY DEF Live!TopUntilMoved
    <3>1. PICK shown \in seen : shown # Live!Empty
      OBVIOUS
    <3>2. drawn # {}
      BY <1>1, <3>1 DEF LiveInv, TableOK, Live!Empty
    <3> QED
      BY <1>1, <3>2 DEF LiveInv, TableOK
  <2> QED
    BY <1>1, <2>1, <2>2 DEF ShellInv, LiveInv, TableOK, ScreensSound
<1> QED
  BY <1>1, ShellAlways, LiveAlways, PTL

\* A broker's row goes by a sync or the user's deletion of it; the cursor that was
\* moved stays on its row; and rows that the user holds stay in their order
\* (PositionRepository, data/repositories/positions.py; _restore_cursor and
\* render, ui/widgets/live_table.py).
THEOREM NothingEverMoved ==
  ASSUME Live!TableAssumption
  PROVE  Spec /\ Live!Spec => NothingMoved
BY BrokerAlwaysOwns, LiveMoves DEF NothingMoved
=============================================================================
