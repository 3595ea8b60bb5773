----------------------------- MODULE CallBudget -----------------------------
(* What the limiter promises, whoever asks and however it keeps account: a   *)
(* call is granted only when the whole history of grants admits one more     *)
(* into every window, and no 429 answer's pause is on.  RateLimiter, which   *)
(* keeps a deque per window, one end of all pauses, and its callers asleep,  *)
(* implements it.                                                            *)
EXTENDS Integers, Sequences

CONSTANTS Windows, Limit, Seconds, Pause, MaxTime

VARIABLES
    now,
    granted,    \* the time of every grant, in order
    pauses      \* of every 429: the grants before it, and the end of its pause

vars == <<now, granted, pauses>>

Init == now = 0 /\ granted = <<>> /\ pauses = {}

Paused == \E p \in pauses : now < p.until

\* "one more call fits inside every (limit, seconds) window"
Fits(w) ==
    \/ Len(granted) < Limit[w]
    \/ granted[Len(granted) - Limit[w] + 1] <= now - Seconds[w]

Grant ==
    /\ ~Paused /\ \A w \in Windows : Fits(w)
    /\ granted' = Append(granted, now)
    /\ UNCHANGED <<now, pauses>>

TooMany ==
    /\ pauses' = pauses \cup {[after |-> Len(granted), until |-> now + Pause]}
    /\ UNCHANGED <<now, granted>>

Tick ==
    /\ now < MaxTime
    /\ now' = now + 1
    /\ UNCHANGED <<granted, pauses>>

Next == Grant \/ TooMany \/ Tick

Spec == Init /\ [][Next]_vars
=============================================================================
