--------------------------- MODULE MarketDataHub ---------------------------
(***************************************************************************)
(* The one live market-data connection of the process and the consumers    *)
(* that share it (services/market_data_hub.py), over the WebSocket         *)
(* transport (adapters/upstox/feed.py).                                    *)
(*                                                                         *)
(* Control plane: subscribe, update, close and the shutdown run in any     *)
(* thread, under one non-reentrant lock.  The lock holder is a single      *)
(* actor, so `pc' is its program counter and the lock is free iff          *)
(* pc = "free".  What is left to do under the lock is in `added',          *)
(* `removed' and `opener'.                                                 *)
(*                                                                         *)
(* Data plane: the socket's own thread runs the connection callback.  It   *)
(* takes the lock only to copy the wanted keys and sends them afterwards,  *)
(* so its steps interleave with the control plane; cb[g] is its counter.   *)
(*                                                                         *)
(* The SDK's streamer and the exchange are external: a socket opens and    *)
(* drops on its own, a dropped socket forgets its subscriptions, and what  *)
(* the SDK restores by itself when it reopens is any subset of what it was *)
(* given (SdkResends), or nothing.                                         *)
(***************************************************************************)
EXTENDS Integers, FiniteSets

CONSTANTS
    Consumers,        \* subscriber ids; each is handed out once
    Keys,             \* instrument keys
    MaxInstruments,   \* MAX_INSTRUMENTS, the feed's limit per connection
    MaxDrops,         \* bound: how many times a socket drops
    SdkResends        \* does the SDK restore subscriptions by itself?

Feeds == 1 .. 2    \* the process's feed, and one made after the hub is closed
NoFeed == 0
Nobody == "nobody"

ASSUME HubAssumption ==
    /\ IsFiniteSet(Consumers)
    /\ Nobody \notin Consumers
    /\ IsFiniteSet(Keys)
    /\ MaxInstruments \in Nat
    /\ MaxDrops \in Nat
    /\ SdkResends \in BOOLEAN

VARIABLES
    \* under the lock
    status,       \* consumer -> "new", "live", "orphan" or "gone"
    keys,         \* consumer -> the keys it subscribed
    refcounts,    \* key -> number of subscribers, 0 when absent
    feed,         \* the hub's current feed
    made,         \* feeds made so far
    pc,           \* what the lock holder does next
    added,        \* newly needed keys the lock holder has not sent yet
    removed,      \* keys no longer needed, not yet unsubscribed
    opener,       \* the consumer a running subscribe() registered
    \* written by both planes, without the lock
    connection_state,
    routes,       \* key -> consumers; replaced whole, read lock-free
    \* hub.close(), after it released the lock
    closing,      \* "no", "stop", "mark" or "done"
    victim,       \* the feed it has to stop
    \* the transports
    phase,        \* feed -> "none", "started", "broken" or "stopped"
    open,         \* feeds whose socket is open
    given,        \* feed -> keys the SDK was successfully given
    wire,         \* feed -> keys the exchange streams on its socket
    cb,           \* feed -> program counter of the connection callback
    captured,     \* feed -> the <<feed, keys>> the callback copied
    lost,         \* feeds whose disconnect event is not handled yet
    drops

lockVars == <<status, keys, refcounts, feed, made>>
jobVars == <<pc, added, removed, opener>>
closeVars == <<closing, victim>>
socketVars == <<phase, open, given, wire>>
eventVars == <<cb, captured, lost, drops>>
vars == <<lockVars, jobVars, connection_state, routes, closeVars, socketVars,
          eventVars>>

-----------------------------------------------------------------------------
Nothing == [feed |-> NoFeed, keys |-> {}]

Live == {c \in Consumers : status[c] \in {"live", "orphan"}}
Wanted == {k \in Keys : refcounts[k] > 0}

\* Mutant: the table is rebuilt before the newcomer is registered.
RoutesWithoutOpener(k) == {c \in Live \ {opener} : k \in keys[c]}

\* Mutant: the newcomer's callback replaces the others of a shared key.
RoutesOverwritten(k) ==
    LET holders == {c \in Live : k \in keys[c]}
    IN  IF opener \in holders THEN {opener} ELSE holders

\* What the table of callbacks is rebuilt to.
RoutesOf(k) == {c \in Live : k \in keys[c]}

\* Mutant: a released key is dropped although another consumer holds it.
NoLongerNeededAlways(K) == K

NewlyNeeded(K) == {k \in K : refcounts[k] = 0}
NoLongerNeeded(K) == {k \in K : refcounts[k] <= 1}

\* Mutant: a key is counted once, however many consumers hold it.
CountedOnce(retain, release) ==
    [k \in Keys |-> IF k \in retain THEN 1 ELSE IF k \in release THEN 0 ELSE refcounts[k]]

\* Mutant: what is not retained is released, held or not.
CountedDown(retain, release) ==
    [k \in Keys |-> IF k \in retain THEN refcounts[k] + 1 ELSE refcounts[k] - 1]

\* _retain and _release on the reference counts.
Counted(retain, release) ==
    [k \in Keys |-> IF k \in retain THEN refcounts[k] + 1
                    ELSE IF k \in release
                         THEN IF refcounts[k] <= 1 THEN 0 ELSE refcounts[k] - 1
                         ELSE refcounts[k]]

\* Mutant: a released key frees a slot although another consumer holds it.
FitsCapacityByCount(extra, released) ==
    Cardinality(Wanted \cup extra) - Cardinality(released) <= MaxInstruments

FitsCapacity(extra, released) ==
    Cardinality((Wanted \cup extra) \ NoLongerNeeded(released)) <= MaxInstruments

Init ==
    /\ status = [c \in Consumers |-> "new"]
    /\ keys = [c \in Consumers |-> {}]
    /\ refcounts = [k \in Keys |-> 0]
    /\ feed = NoFeed
    /\ made = 0
    /\ pc = "free"
    /\ added = {}
    /\ removed = {}
    /\ opener = Nobody
    /\ connection_state = "idle"
    /\ routes = [k \in Keys |-> {}]
    /\ closing = "no"
    /\ victim = NoFeed
    /\ phase = [g \in Feeds |-> "none"]
    /\ open = {}
    /\ given = [g \in Feeds |-> {}]
    /\ wire = [g \in Feeds |-> {}]
    /\ cb = [g \in Feeds |-> "idle"]
    /\ captured = [g \in Feeds |-> Nothing]
    /\ lost = {}
    /\ drops = 0

-----------------------------------------------------------------------------
(* Control plane.  Each call takes the lock with its bookkeeping step; the  *)
(* lock is not released before the last message to the feed.                *)

Subscribe(c, K) ==
    /\ pc = "free"
    /\ status[c] = "new"
    /\ FitsCapacity(K, {})
    /\ status' = [status EXCEPT ![c] = "live"]
    /\ keys' = [keys EXCEPT ![c] = K]
    /\ refcounts' = Counted(K, {})
    /\ added' = NewlyNeeded(K)
    /\ removed' = {}
    /\ opener' = c
    /\ pc' = "rebuild"
    /\ UNCHANGED <<feed, made, connection_state, routes, closeVars, socketVars,
                   eventVars>>

\* Subscription.update; on a subscriber the hub does not know it returns.
Update(c, K) ==
    /\ pc = "free"
    /\ status[c] = "live"
    /\ FitsCapacity(K \ keys[c], keys[c] \ K)
    /\ refcounts' = Counted(K \ keys[c], keys[c] \ K)
    /\ added' = NewlyNeeded(K \ keys[c])
    /\ removed' = NoLongerNeeded(keys[c] \ K)
    /\ keys' = [keys EXCEPT ![c] = K]
    /\ pc' = "rebuild"
    /\ UNCHANGED <<status, feed, made, opener, connection_state, routes,
                   closeVars, socketVars, eventVars>>

\* Subscription.close
Close(c) ==
    /\ pc = "free"
    /\ status[c] = "live"
    /\ status' = [status EXCEPT ![c] = "gone"]
    /\ keys' = [keys EXCEPT ![c] = {}]
    /\ refcounts' = Counted({}, keys[c])
    /\ removed' = NoLongerNeeded(keys[c])
    /\ added' = {}
    /\ pc' = "rebuild"
    /\ UNCHANGED <<feed, made, opener, connection_state, routes, closeVars,
                   socketVars, eventVars>>

\* MarketDataHub.close: the container calls it once, at exit.
HubClose ==
    /\ pc = "free"
    /\ closing = "no"
    /\ feed' = NoFeed
    /\ victim' = feed
    /\ status' = [c \in Consumers |-> IF c \in Live THEN "gone" ELSE status[c]]
    /\ keys' = [c \in Consumers |-> {}]
    /\ refcounts' = [k \in Keys |-> 0]
    /\ added' = {}
    /\ removed' = {}
    /\ closing' = "rebuild"
    /\ pc' = "rebuild"
    /\ UNCHANGED <<made, opener, connection_state, routes, socketVars, eventVars>>

\* What follows the rebuild while the lock is still held.
AfterRebuild ==
    IF feed = NoFeed
    THEN IF opener # Nobody THEN "start" ELSE "free"
    ELSE IF removed # {} THEN "unsubscribe"
    ELSE IF added # {} THEN "subscribe"
    ELSE "free"

Rebuild ==
    /\ pc = "rebuild"
    /\ routes' = [k \in Keys |-> RoutesOf(k)]
    /\ pc' = AfterRebuild
    /\ IF AfterRebuild \in {"unsubscribe", "subscribe"}
       THEN UNCHANGED <<added, removed>>
       ELSE added' = {} /\ removed' = {}
    /\ opener' = IF AfterRebuild = "start" THEN opener ELSE Nobody
    /\ closing' = IF closing = "rebuild" THEN "stop" ELSE closing
    /\ UNCHANGED <<lockVars, connection_state, victim, socketVars, eventVars>>

SendUnsubscribe ==
    /\ pc = "unsubscribe"
    /\ IF feed \in open
       THEN /\ wire' = [wire EXCEPT ![feed] = @ \ removed]
            /\ given' = [given EXCEPT ![feed] = @ \ removed]
       ELSE UNCHANGED <<wire, given>>    \* the transport returns False
    /\ removed' = {}
    /\ pc' = IF added # {} THEN "subscribe" ELSE "free"
    /\ UNCHANGED <<lockVars, added, opener, connection_state, routes, closeVars,
                   phase, open, eventVars>>

SendSubscribe ==
    /\ pc = "subscribe"
    /\ IF feed \in open
       THEN /\ wire' = [wire EXCEPT ![feed] = @ \cup added]
            /\ given' = [given EXCEPT ![feed] = @ \cup added]
       ELSE UNCHANGED <<wire, given>>
    /\ added' = {}
    /\ pc' = "free"
    /\ UNCHANGED <<lockVars, removed, opener, connection_state, routes, closeVars,
                   phase, open, eventVars>>

\* The first consumer: the feed starts with the full desired set.  start()
\* may raise (no token); the feed and the subscriber stay registered, but the
\* caller of subscribe() never gets its Subscription.
StartFeed(ok) ==
    /\ pc = "start"
    /\ made + 1 \in Feeds
    /\ made' = made + 1
    /\ feed' = made + 1
    /\ connection_state' = "connecting"
    /\ phase' = [phase EXCEPT ![made + 1] = IF ok THEN "started" ELSE "broken"]
    /\ given' = [given EXCEPT ![made + 1] = IF ok THEN Wanted ELSE {}]
    /\ status' = IF ok THEN status ELSE [status EXCEPT ![opener] = "orphan"]
    /\ opener' = Nobody
    /\ pc' = "free"
    /\ UNCHANGED <<keys, refcounts, added, removed, routes, closeVars, open, wire,
                   eventVars>>

\* The rest of MarketDataHub.close runs after the lock is released.
StopFeed ==
    /\ closing = "stop"
    /\ closing' = "mark"
    /\ IF victim # NoFeed /\ phase[victim] = "started"
       THEN /\ phase' = [phase EXCEPT ![victim] = "stopped"]
            /\ open' = open \ {victim}
            /\ wire' = [wire EXCEPT ![victim] = {}]
            /\ lost' = IF victim \in open THEN lost \cup {victim} ELSE lost
       ELSE UNCHANGED <<phase, open, wire, lost>>
    /\ UNCHANGED <<lockVars, jobVars, connection_state, routes, victim, given,
                   cb, captured, drops>>

MarkClosed ==
    /\ closing = "mark"
    /\ closing' = "done"
    /\ connection_state' = "closed"
    /\ UNCHANGED <<lockVars, jobVars, routes, victim, socketVars, eventVars>>

-----------------------------------------------------------------------------
(* The socket's thread: one event at a time.                                *)

Open(g) ==
    /\ phase[g] = "started"
    /\ g \notin open \cup lost
    /\ cb[g] = "idle"
    /\ open' = open \cup {g}
    /\ \E resent \in IF SdkResends THEN SUBSET given[g] ELSE {{}} :
          wire' = [wire EXCEPT ![g] = resent]
    /\ cb' = [cb EXCEPT ![g] = "opened"]
    /\ UNCHANGED <<lockVars, jobVars, connection_state, routes, closeVars, phase,
                   given, captured, lost, drops>>

\* Mutant: the keys are sent on the first connection only.
OnFirstConnected(g) ==
    /\ cb[g] = "opened"
    /\ connection_state' = "connected"
    /\ cb' = [cb EXCEPT ![g] = IF drops = 0 THEN "capture" ELSE "idle"]
    /\ UNCHANGED <<lockVars, jobVars, routes, closeVars, socketVars, captured,
                   lost, drops>>

OnConnected(g) ==
    /\ cb[g] = "opened"
    /\ connection_state' = "connected"
    /\ cb' = [cb EXCEPT ![g] = "capture"]
    /\ UNCHANGED <<lockVars, jobVars, routes, closeVars, socketVars, captured,
                   lost, drops>>

\* Mutant: what the SDK was given before is left for it to restore.
CaptureUngiven(g) ==
    /\ cb[g] = "capture"
    /\ pc = "free"
    /\ IF feed # NoFeed /\ Wanted # {}
       THEN /\ captured' = [captured EXCEPT
                              ![g] = [feed |-> feed, keys |-> Wanted \ given[feed]]]
            /\ cb' = [cb EXCEPT ![g] = "send"]
       ELSE /\ cb' = [cb EXCEPT ![g] = "idle"]
            /\ UNCHANGED captured
    /\ UNCHANGED <<lockVars, jobVars, connection_state, routes, closeVars,
                   socketVars, lost, drops>>

\* with self._lock: feed, keys = self._feed, sorted(self._refcounts)
Capture(g) ==
    /\ cb[g] = "capture"
    /\ pc = "free"
    /\ IF feed # NoFeed /\ Wanted # {}
       THEN /\ captured' = [captured EXCEPT ![g] = [feed |-> feed, keys |-> Wanted]]
            /\ cb' = [cb EXCEPT ![g] = "send"]
       ELSE /\ cb' = [cb EXCEPT ![g] = "idle"]
            /\ UNCHANGED captured
    /\ UNCHANGED <<lockVars, jobVars, connection_state, routes, closeVars,
                   socketVars, lost, drops>>

\* feed.subscribe(keys), after the lock was released
Resend(g) ==
    LET target == captured[g].feed IN
    /\ cb[g] = "send"
    /\ IF target \in open
       THEN /\ wire' = [wire EXCEPT ![target] = @ \cup captured[g].keys]
            /\ given' = [given EXCEPT ![target] = @ \cup captured[g].keys]
       ELSE UNCHANGED <<wire, given>>
    /\ cb' = [cb EXCEPT ![g] = "idle"]
    /\ captured' = [captured EXCEPT ![g] = Nothing]
    /\ UNCHANGED <<lockVars, jobVars, connection_state, routes, closeVars, phase,
                   open, lost, drops>>

\* The network drops the socket; the close event waits for the callback.
Drop(g) ==
    /\ g \in open
    /\ drops < MaxDrops
    /\ drops' = drops + 1
    /\ open' = open \ {g}
    /\ wire' = [wire EXCEPT ![g] = {}]
    /\ lost' = lost \cup {g}
    /\ UNCHANGED <<lockVars, jobVars, connection_state, routes, closeVars, phase,
                   given, cb, captured>>

\* Mutant: the event does not reach the state that is shown.
OnDisconnectedSilently(g) ==
    /\ g \in lost
    /\ cb[g] = "idle"
    /\ lost' = lost \ {g}
    /\ UNCHANGED <<lockVars, jobVars, connection_state, routes, closeVars, socketVars,
                   cb, captured, drops>>

\* "disconnected" stands for the error and reconnecting events too.
OnDisconnected(g) ==
    /\ g \in lost
    /\ cb[g] = "idle"
    /\ lost' = lost \ {g}
    /\ connection_state' = "disconnected"
    /\ UNCHANGED <<lockVars, jobVars, routes, closeVars, socketVars, cb, captured,
                   drops>>

-----------------------------------------------------------------------------
LockHolder ==
    Rebuild \/ SendUnsubscribe \/ SendSubscribe \/ \E ok \in BOOLEAN : StartFeed(ok)

Callback(g) == OnConnected(g) \/ Capture(g) \/ Resend(g) \/ OnDisconnected(g)

Next ==
    \/ \E c \in Consumers, K \in SUBSET Keys : Subscribe(c, K) \/ Update(c, K)
    \/ \E c \in Consumers : Close(c)
    \/ HubClose
    \/ LockHolder
    \/ StopFeed
    \/ MarkClosed
    \/ \E g \in Feeds : Callback(g) \/ Open(g) \/ Drop(g)

Spec == Init /\ [][Next]_vars

\* A thread that holds the lock or runs a callback keeps running.  Nothing
\* obliges a consumer to call, a socket to open or a network to stay up.
Fairness ==
    /\ WF_vars(LockHolder)
    /\ \A g \in Feeds : WF_vars(Callback(g))

FairSpec == Spec /\ Fairness

-----------------------------------------------------------------------------
Statuses == {"new", "live", "orphan", "gone"}

TypeOK ==
    /\ status \in [Consumers -> Statuses]
    /\ keys \in [Consumers -> SUBSET Keys]
    /\ refcounts \in [Keys -> Nat]
    /\ feed \in {NoFeed} \cup Feeds
    /\ made \in {NoFeed} \cup Feeds
    /\ pc \in {"free", "rebuild", "start", "unsubscribe", "subscribe"}
    /\ added \in SUBSET Keys
    /\ removed \in SUBSET Keys
    /\ opener \in Consumers \cup {Nobody}
    /\ connection_state \in
          {"idle", "connecting", "connected", "disconnected", "closed"}
    /\ routes \in [Keys -> SUBSET Consumers]
    /\ closing \in {"no", "rebuild", "stop", "mark", "done"}
    /\ victim \in {NoFeed} \cup Feeds
    /\ phase \in [Feeds -> {"none", "started", "broken", "stopped"}]
    /\ open \in SUBSET Feeds
    /\ given \in [Feeds -> SUBSET Keys]
    /\ wire \in [Feeds -> SUBSET Keys]
    /\ cb \in [Feeds -> {"idle", "opened", "capture", "send"}]
    /\ captured \in [Feeds -> [feed : {NoFeed} \cup Feeds, keys : SUBSET Keys]]
    /\ lost \in SUBSET Feeds
    /\ drops \in Nat

\* A key's reference count is the number of live consumers that hold it, so a
\* shared key survives until its last consumer leaves (_retain, _release).
RefcountsExact ==
    \A k \in Keys : refcounts[k] = Cardinality(RoutesOf(k))

\* The distinct instruments never exceed what one feed connection allows,
\* at any moment, whatever is swapped for what (_check_capacity).
WithinCapacity == Cardinality(Wanted) <= MaxInstruments

\* Every wanted key is streamed on the hub's open socket, or the lock holder
\* is about to send it: nothing is lost by a subscription made before the
\* socket opened, by a reconnect, or by a resend that raced an update.
WantedStreamed ==
    (feed \in open /\ cb[feed] = "idle") => Wanted \subseteq wire[feed] \cup added

\* A key is taken off an open socket only when no consumer wants it, also
\* across an update that swaps keys two consumers share.
KeptWhileWanted ==
    [][\A g \in Feeds : g \in open' =>
          \A k \in wire[g] \ wire'[g] : refcounts'[k] = 0]_vars

\* A consumer that keeps a key across a call never drops out of the routing
\* table, which the feed thread reads without the lock: no tick is missed.
NoTickGap ==
    [][\A k \in Keys, c \in Consumers :
          (c \in routes[k] /\ c \in Live' /\ k \in keys'[c]) => c \in routes'[k]]_vars

\* A key that a control-plane call puts on the socket is already routed, so
\* its first tick finds its consumers (the rebuild precedes the send).
RoutedBeforeStreamed ==
    [][(cb' = cb) => \A g \in Feeds : \A k \in wire'[g] \ wire[g] : routes[k] # {}]_vars

\* While only one feed was ever made, the state shown to the user says
\* "connected" only if the socket is open or its loss is still to be handled.
StateHonest ==
    (made <= 1 /\ connection_state = "connected") =>
        (1 \in open \/ 1 \in lost)

\* Once calls stop, every wanted key ends up streamed on a socket that stays
\* open.
WantedEventuallyStreamed ==
    \A g \in Feeds :
        <>[](feed = g /\ g \in open /\ pc = "free")
            => <>[](feed = g /\ Wanted \subseteq wire[g])

\* "the hub unsubscribes what left": with no call and no callback in
\* progress, the socket streams only what some consumer wants.
ReleasedNotStreamed ==
    (feed \in open /\ pc = "free" /\ \A g \in Feeds : cb[g] = "idle")
        => wire[feed] \subseteq Wanted
=============================================================================
