----------------------------- MODULE RateLimiter -----------------------------
(***************************************************************************)
(* The shared limiter of every REST call to the broker, and the calls that *)
(* draw on it (adapters/upstox/client.py).  A caller blocks in acquire()   *)
(* until one more call fits inside every (limit, seconds) window, then     *)
(* sends its request; a 429 answer pauses every caller.                    *)
(*                                                                         *)
(* Time is a natural number.  acquire() decides under the lock, in one     *)
(* step, and sleeps outside it; a sleeper may wake late.                   *)
(***************************************************************************)
EXTENDS Integers, Sequences

CONSTANTS
    Callers,          \* worker threads
    Windows,          \* the limits' names
    Limit,            \* window -> calls it admits
    Seconds,          \* window -> its length
    Pause,            \* RATE_LIMIT_PAUSE_SECONDS
    MaxTime           \* bound: the clock stops here

ASSUME LimiterAssumption ==
    /\ Limit \in [Windows -> Nat \ {0}]
    /\ Seconds \in [Windows -> Nat]
    /\ Pause \in Nat
    /\ MaxTime \in Nat

VARIABLES
    now,
    stamps,           \* window -> the deque of its recent grants
    pausedUntil,
    caller,           \* caller -> "idle", "acquire", "sleep" or "request"
    wake,             \* caller -> earliest end of its sleep
    granted,          \* history: the time of every grant, in order
    pauses            \* history: [after |-> grants so far, until |-> its end]

vars == <<now, stamps, pausedUntil, caller, wake, granted, pauses>>

-----------------------------------------------------------------------------
Init ==
    /\ now = 0
    /\ stamps = [w \in Windows |-> <<>>]
    /\ pausedUntil = 0
    /\ caller = [c \in Callers |-> "idle"]
    /\ wake = [c \in Callers |-> 0]
    /\ granted = <<>>
    /\ pauses = {}

\* A metered API object is asked for.
Call(c) ==
    /\ caller[c] = "idle"
    /\ caller' = [caller EXCEPT ![c] = "acquire"]
    /\ UNCHANGED <<now, stamps, pausedUntil, wake, granted, pauses>>

\* n stamps of s have left window w: the popleft loop stopped there.
Expired(w, s, n) ==
    /\ n <= Len(s)
    /\ \A i \in 1 .. n : s[i] <= now - Seconds[w]
    /\ n < Len(s) => s[n + 1] > now - Seconds[w]

Dropped(s, n) == SubSeq(s, n + 1, Len(s))

\* Mutant: a window is full only when it holds more than its limit.
WaitsOverLimit(left) ==
    {pausedUntil - now} \cup
    {left[w][1] + Seconds[w] - now : w \in {v \in Windows : Len(left[v]) > Limit[v]}}

\* Mutant: the wait is counted from the newest stamp.
WaitsForNewest(left) ==
    {pausedUntil - now} \cup
    {left[w][Len(left[w])] + Seconds[w] - now :
        w \in {v \in Windows : Len(left[v]) >= Limit[v]}}

\* The times a call still has to wait for, when `left' holds the live stamps.
Waits(left) ==
    {pausedUntil - now} \cup
    {left[w][1] + Seconds[w] - now : w \in {v \in Windows : Len(left[v]) >= Limit[v]}}

\* Mutant: the wait is taken off the clock.
SleepBackwards(d) == now - d

SleepUntil(d) == now + d

\* One pass of acquire()'s loop; n is how many stamps each window pops.
Pass(c, n) ==
    LET left == [w \in Windows |-> Dropped(stamps[w], n[w])] IN
    /\ caller[c] = "acquire"
    /\ \A w \in Windows : Expired(w, stamps[w], n[w])
    /\ \/ /\ \A d \in Waits(left) : d <= 0
          /\ stamps' = [w \in Windows |-> Append(left[w], now)]
          /\ granted' = Append(granted, now)
          /\ caller' = [caller EXCEPT ![c] = "request"]
          /\ UNCHANGED wake
       \/ \E d \in Waits(left) :
             /\ d > 0
             /\ \A e \in Waits(left) : e <= d
             /\ stamps' = left
             /\ wake' = [wake EXCEPT ![c] = SleepUntil(d)]
             /\ caller' = [caller EXCEPT ![c] = "sleep"]
             /\ UNCHANGED granted
    /\ UNCHANGED <<now, pausedUntil, pauses>>

PopCounts == [Windows -> 0 .. Len(granted)]

Acquire(c) == \E n \in PopCounts : Pass(c, n)

Wake(c) ==
    /\ caller[c] = "sleep"
    /\ now >= wake[c]
    /\ caller' = [caller EXCEPT ![c] = "acquire"]
    /\ UNCHANGED <<now, stamps, pausedUntil, wake, granted, pauses>>

Answered(c) ==
    /\ caller[c] = "request"
    /\ caller' = [caller EXCEPT ![c] = "idle"]
    /\ UNCHANGED <<now, stamps, pausedUntil, wake, granted, pauses>>

\* Mutant: a 429 during a pause does not prolong it.
RateLimitedOnce(c) ==
    /\ caller[c] = "request"
    /\ pausedUntil' = IF now < pausedUntil THEN pausedUntil ELSE now + Pause
    /\ pauses' = pauses \cup {[after |-> Len(granted), until |-> now + Pause]}
    /\ caller' = [caller EXCEPT ![c] = "idle"]
    /\ UNCHANGED <<now, stamps, wake, granted>>

\* pause(): "every REST caller waits this long before trying again".
RateLimited(c) ==
    /\ caller[c] = "request"
    /\ pausedUntil' = IF now + Pause > pausedUntil THEN now + Pause ELSE pausedUntil
    /\ pauses' = pauses \cup {[after |-> Len(granted), until |-> now + Pause]}
    /\ caller' = [caller EXCEPT ![c] = "idle"]
    /\ UNCHANGED <<now, stamps, wake, granted>>

Tick ==
    /\ now < MaxTime
    /\ now' = now + 1
    /\ UNCHANGED <<stamps, pausedUntil, caller, wake, granted, pauses>>

Step(c) == Call(c) \/ Acquire(c) \/ Wake(c) \/ Answered(c) \/ RateLimited(c)

Next == Tick \/ \E c \in Callers : Step(c)

Spec == Init /\ [][Next]_vars

\* The limiter implements what it promises: the deques that are pruned and the
\* one end of all pauses lose nothing that the whole history would have held
\* back, and a caller that sleeps and wakes late is granted nothing else.
Budget == INSTANCE CallBudget
KeepsBudget == Budget!Spec

-----------------------------------------------------------------------------
TypeOK ==
    /\ now \in Nat
    /\ stamps \in [Windows -> Seq(Nat)]
    /\ pausedUntil \in Nat
    /\ caller \in [Callers -> {"idle", "acquire", "sleep", "request"}]
    /\ wake \in [Callers -> Nat]
    /\ granted \in Seq(Nat)
    /\ pauses \subseteq [after : Nat, until : Nat]

\* No interval of a window's length holds more grants than the window admits,
\* however the callers race and whatever the windows prune.
RateKept ==
    \A w \in Windows : \A i \in 1 .. Len(granted) :
        i + Limit[w] <= Len(granted)
            => granted[i + Limit[w]] >= granted[i] + Seconds[w]

\* After a 429 nobody is let through before its pause is over, sleepers from
\* before it included, also when further 429 answers arrive during the pause.
PausesHold ==
    \A p \in pauses : \A i \in 1 .. Len(granted) :
        i > p.after => granted[i] >= p.until

\* Would a call made now be let through?  The Limit-th latest grant of every
\* window must have left it.
Admits ==
    /\ now >= pausedUntil
    /\ \A w \in Windows :
          \/ Len(granted) < Limit[w]
          \/ granted[Len(granted) - Limit[w] + 1] <= now - Seconds[w]

\* No caller sleeps through its turn: at every moment before the end of the
\* sleep it asked for, a call would still have been held back, whatever was
\* granted or paused since it fell asleep (wait is the oldest live stamp's).
NoIdleSleep ==
    \A c \in Callers : (caller[c] = "sleep" /\ now < wake[c]) => ~Admits
=============================================================================
