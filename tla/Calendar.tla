------------------------------ MODULE Calendar ------------------------------
(* Which session is the last that has opened: services/calendar.py over the *)
(* stored timings (repos/sessions.py) and the exchange's, and the walk back *)
(* over the days of domain/calendar.py.  The engines' threads ask for the   *)
(* session that is active, the securities' for the one whose files are out; *)
(* one of each takes the time first and looks up day after day, while the   *)
(* clock goes on.                                                           *)
EXTENDS Integers

CONSTANTS
    LastDay,    \* bound: the calendar stops here
    Weekend,    \* days that are no weekdays
    Lookback    \* MAX_LOOKBACK_DAYS

CalendarAssumption == {LastDay, Lookback} \subseteq Nat \ {0} /\ Weekend \subseteq 1 .. LastDay

Days == 1 .. LastDay
Times == 0 .. 3               \* in the night, in the day, in the evening, after the files are out
Closed == [trading |-> FALSE, opens |-> 0]
Regular == [trading |-> TRUE, opens |-> 1]
Special == [trading |-> TRUE, opens |-> 2]
Unknown == [trading |-> FALSE, opens |-> -1]
NoDay == 0

\* A thread is named for what it looks for: a session that has opened, or one
\* whose files are out.
Threads == {"active", "published"}

VARIABLES
    day, time,  \* the clock
    exchange,   \* day -> the timings that the exchange gives
    stored,     \* market_sessions: day -> the timings, or Unknown
    walk,       \* thread -> its walk back over the days
    found       \* thread -> the day its last walk ended at, or NoDay

vars == <<day, time, exchange, stored, walk, found>>
Rests == [at |-> "rest"]

Init ==
    /\ day = 1 /\ time = 0
    /\ exchange \in [Days -> {Closed, Regular}] /\ \A d \in Weekend : exchange[d] = Closed
    /\ stored = [d \in Days |-> Unknown]
    /\ walk = [t \in Threads |-> Rests] /\ found = [t \in Threads |-> NoDay]

-----------------------------------------------------------------------------
\* Mutant: a session of today is taken before it has opened.
PassedEarly(t, d, s, today, now) == s.trading

\* What the walk of thread t ends at.
Passed(t, d, s, today, now) ==
    /\ s.trading
    /\ d < today \/ t = "published" \/ s.opens <= now

Begin(t) ==
    /\ walk[t] = Rests
    /\ walk' = [walk EXCEPT ![t] = [at |-> "look", today |-> day, now |-> time, on |-> day,
                                    left |-> Lookback, guessed |-> FALSE]]
    /\ found' = [found EXCEPT ![t] = NoDay]
    /\ UNCHANGED <<day, time, exchange, stored>>

\* The walk ends here, at its bound, or goes on with the day before.
GoesOn(t, session, guess) ==
    LET w == walk[t]
        To(at, on, left) == [walk EXCEPT ![t] =
            [at |-> at, today |-> w.today, now |-> w.now, on |-> on, left |-> left,
             guessed |-> w.guessed \/ guess]]
    IN
    IF Passed(t, w.on, session, w.today, w.now)
    THEN /\ walk' = To("end", w.on, w.left)
         /\ found' = [found EXCEPT ![t] = w.on]
    ELSE /\ walk' = To(IF w.left = 1 \/ w.on = 1 THEN "end" ELSE "look", w.on - 1, w.left - 1)
         /\ UNCHANGED found

\* Today's files aren't out yet: nothing is looked up.
NotYet(t) == t = "published" /\ walk[t].on = walk[t].today /\ walk[t].now < 3
Looking(t) == walk[t].at = "look" /\ ~NotYet(t)

PassBy(t) ==
    /\ walk[t].at = "look" /\ NotYet(t)
    /\ GoesOn(t, Closed, FALSE)
    /\ UNCHANGED <<day, time, exchange, stored>>

ReadStored(t) ==
    /\ Looking(t) /\ stored[walk[t].on] # Unknown
    /\ GoesOn(t, stored[walk[t].on], FALSE)
    /\ UNCHANGED <<day, time, exchange, stored>>

\* Mutants: a closed day is stored on the day itself; what is assumed is stored.
KeptAlways(d, s) == TRUE
Kept(d, s) == s.trading \/ d < day

Assumed(d) == IF d \in Weekend THEN Closed ELSE Regular
StoredIfAssumed(d) == [stored EXCEPT ![d] = Assumed(d)]
StoredAfterFailure(d) == stored

\* The answer, and what becomes of it.  The clock is read again for that: the
\* model lets no answer wait over midnight.
Ask(t) ==
    /\ Looking(t) /\ stored[walk[t].on] = Unknown
    /\ LET d == walk[t].on IN
       /\ stored' = IF Kept(d, exchange[d]) THEN [stored EXCEPT ![d] = exchange[d]] ELSE stored
       /\ GoesOn(t, exchange[d], FALSE)
    /\ UNCHANGED <<day, time, exchange>>

AskFails(t) ==
    /\ Looking(t) /\ stored[walk[t].on] = Unknown
    /\ stored' = StoredAfterFailure(walk[t].on)
    /\ GoesOn(t, Assumed(walk[t].on), TRUE)
    /\ UNCHANGED <<day, time, exchange>>

End(t) ==
    /\ walk[t].at = "end" /\ walk' = [walk EXCEPT ![t] = Rests]
    /\ UNCHANGED <<day, time, exchange, stored, found>>

-----------------------------------------------------------------------------
Tick ==
    /\ IF time = 3 THEN day < LastDay /\ day' = day + 1 /\ time' = 0
                   ELSE time' = time + 1 /\ day' = day
    /\ UNCHANGED <<exchange, stored, walk, found>>

\* A special session is announced before it opens, on its day at the latest.
Announce(d) ==
    /\ exchange[d] = Closed /\ (d > day \/ (d = day /\ time < Special.opens))
    /\ exchange' = [exchange EXCEPT ![d] = Special]
    /\ UNCHANGED <<day, time, stored, walk, found>>

Next ==
    \/ \E t \in Threads :
          \/ Begin(t) \/ PassBy(t) \/ ReadStored(t) \/ Ask(t) \/ AskFails(t) \/ End(t)
    \/ Tick
    \/ \E d \in Days : Announce(d)

Spec == Init /\ [][Next]_vars

-----------------------------------------------------------------------------
TypeOK ==
    /\ day \in Days /\ time \in Times
    /\ \A d \in Days : {exchange[d], stored[d]} \subseteq {Closed, Regular, Special, Unknown}
    /\ \A t \in Threads : found[t] \in 0 .. day

\* What is stored is what the exchange says: "a special session announced for
\* today can't be masked by an answer cached earlier in the day", and no fallback
\* outlives the failure.
StoredTrue == \A d \in Days : stored[d] \in {Unknown, exchange[d]}

\* "The most recent session that has already OPENED", at the time the walk began:
\* whatever was announced, stored and ticked by meanwhile, when every answer came.
Moment(d, now) == 4 * d + now
LastOpened ==
    \A t \in Threads : walk[t].at = "end" /\ ~walk[t].guessed =>
       LET w == walk[t]
           from(d) == IF t = "published" THEN 3 ELSE exchange[d].opens
           Past == {d \in Days : /\ exchange[d].trading /\ d > w.today - Lookback
                                 /\ Moment(d, from(d)) <= Moment(w.today, w.now)}
       IN IF Past = {} THEN found[t] = NoDay
          ELSE found[t] \in Past /\ \A d \in Past : d <= found[t]
=============================================================================
