----------------------------- MODULE CandleCache -----------------------------
(***************************************************************************)
(* The daily-candle cache of one instrument (services/candles.py over the  *)
(* daily_candles table), read by several worker threads with different     *)
(* windows: the scanner and the momentum tab want three years, the risk    *)
(* tab what its stop indicators need.  Instruments do not share anything.  *)
(*                                                                         *)
(* A candle is its date.  The history service (external) holds every       *)
(* trading day up to `published', which lags the day before today by at    *)
(* most MaxLag days.                                                       *)
(***************************************************************************)
EXTENDS Integers, FiniteSets

CONSTANTS
    Callers,          \* worker threads that call daily()
    Window,           \* caller -> its lookback in days
    Trading,          \* the trading days
    LastDay,          \* bound: the calendar stops here
    MaxLag,           \* bound: how late the service publishes a candle
    LookbackDays      \* MAX_LOOKBACK_DAYS

Days == 1 .. LastDay

CandleAssumption ==
    /\ Trading \subseteq Days
    /\ LastDay \in Nat
    /\ MaxLag \in Nat
    /\ MaxLag + 2 <= LastDay
    /\ LookbackDays \in Nat
    /\ Window \in [Callers -> Nat]
    /\ \A c \in Callers : Window[c] > MaxLag
    \* "Longest NSE closure stretch in practice is a few days"
    /\ \A d \in Days : d > LookbackDays =>
          \E t \in Trading : d - LookbackDays <= t /\ t < d

VARIABLES
    today,
    published,    \* the service has every candle up to this day
    cache,        \* dates of the cached candles
    call          \* caller -> the daily() it is in

vars == <<today, published, cache, call>>

-----------------------------------------------------------------------------
None == 0
Latest(S) == IF S = {} THEN None ELSE CHOOSE d \in S : \A e \in S : e <= d

\* latest_available_session: the trading day before today, searched this far.
LatestSession ==
    Latest({d \in Trading : today - LookbackDays <= d /\ d < today})

\* Mutant: anything cached counts as current.
AnythingIsCurrent == cache # {}

IsCurrent == cache # {} /\ (LatestSession = None \/ Latest(cache) >= LatestSession)

\* The service answers with what it has published of a range.
Offered(from, to) == {d \in Trading : from <= d /\ d <= to /\ d <= published}

InWindow(c, d) == call[c].today - Window[c] <= d /\ d <= call[c].today

Idle == [pc |-> "idle", today |-> 0, from |-> 0, known |-> 0, bars |-> {}]
Busy == {c \in Callers : call[c].pc \notin {"idle", "done"}}

Init ==
    /\ today = MaxLag + 2
    /\ published \in 1 .. today - 1
    /\ today - 1 - published <= MaxLag
    /\ cache = {}
    /\ call = [c \in Callers |-> Idle]

-----------------------------------------------------------------------------
Entered(from) ==
    [pc |-> IF cache = {} THEN "fetch" ELSE "check", today |-> today, from |-> from,
     known |-> published, bars |-> {}]

\* Mutant: a cache that is behind asks for the window too.
DailyWindow(c) ==
    /\ call[c].pc = "idle"
    /\ call' = [call EXCEPT ![c] = Entered(today - Window[c])]
    /\ UNCHANGED <<today, published, cache>>

\* daily(): an empty cache asks for the whole window, a cache that is behind
\* for the days after its latest.  `known' is what the service held by then.
Daily(c) ==
    /\ call[c].pc = "idle"
    /\ call' = [call EXCEPT ![c] =
          Entered(IF cache = {} THEN today - Window[c] ELSE Latest(cache) + 1)]
    /\ UNCHANGED <<today, published, cache>>

\* is_current() reads the clock and the table again.
Check(c) ==
    /\ call[c].pc = "check"
    /\ call' = [call EXCEPT ![c].pc = IF IsCurrent THEN "read" ELSE "fetch"]
    /\ UNCHANGED <<today, published, cache>>

Fetch(c) ==
    /\ call[c].pc = "fetch"
    /\ call' = [call EXCEPT ![c].pc = "upsert",
                            ![c].bars = Offered(call[c].from, call[c].today)]
    /\ UNCHANGED <<today, published, cache>>

\* The request fails or is rate limited: daily() raises, nothing is written.
FetchFails(c) ==
    /\ call[c].pc = "fetch"
    /\ call' = [call EXCEPT ![c] = Idle]
    /\ UNCHANGED <<today, published, cache>>

\* Mutant: today is entered as well, as if its candle were complete.
UpsertToday(c) ==
    /\ call[c].pc = "upsert"
    /\ cache' = cache \cup call[c].bars \cup {call[c].today}
    /\ call' = [call EXCEPT ![c].pc = "read", ![c].bars = {}]
    /\ UNCHANGED <<today, published>>

\* One transaction.
Upsert(c) ==
    /\ call[c].pc = "upsert"
    /\ cache' = cache \cup call[c].bars
    /\ call' = [call EXCEPT ![c].pc = "read", ![c].bars = {}]
    /\ UNCHANGED <<today, published>>

Read(c) ==
    /\ call[c].pc = "read"
    /\ call' = [call EXCEPT ![c].pc = "done",
                            ![c].bars = {d \in cache : InWindow(c, d)}]
    /\ UNCHANGED <<today, published, cache>>

Return(c) ==
    /\ call[c].pc = "done"
    /\ call' = [call EXCEPT ![c] = Idle]
    /\ UNCHANGED <<today, published, cache>>

-----------------------------------------------------------------------------
\* A call, with its request timeout, spans at most one midnight; the service
\* does not fall further behind.
NextDay ==
    /\ today < LastDay
    /\ \A c \in Busy : call[c].today = today
    /\ today - published <= MaxLag
    /\ today' = today + 1
    /\ UNCHANGED <<published, cache, call>>

Publish ==
    /\ published < today - 1
    /\ published' = published + 1
    /\ UNCHANGED <<today, cache, call>>

Step(c) ==
    \/ Daily(c) \/ Check(c) \/ Fetch(c) \/ FetchFails(c) \/ Upsert(c) \/ Read(c) \/ Return(c)

Next == (\E c \in Callers : Step(c)) \/ NextDay \/ Publish

Spec == Init /\ [][Next]_vars

-----------------------------------------------------------------------------
TypeOK ==
    /\ today \in Days
    /\ published \in Days
    /\ cache \subseteq Trading
    /\ call \in [Callers ->
          [pc : {"idle", "check", "fetch", "upsert", "read", "done"},
           today : Days \cup {0}, from : Int, known : Days \cup {0}, bars : SUBSET Trading]]

\* The cached candles have no hole: asking only for the days after the latest
\* one is enough, although callers with different windows race, across a
\* midnight, and the service publishes late.
NoHoles ==
    \A d \in Trading \ cache :
        ~(\E early, late \in cache : early < d /\ d < late)

\* The newest bars are never missing: what the service held of the window when
\* daily() was called and its answer lacks is older than the whole answer, and
\* the answer has something that the service held.
NothingNewMissing ==
    \A c \in Callers : call[c].pc = "done" =>
        \A d \in Trading : InWindow(c, d) /\ d <= call[c].known /\ d \notin call[c].bars =>
            /\ \A b \in call[c].bars : d < b
            /\ \E b \in call[c].bars : b <= call[c].known

\* What the cache promises its callers.
CandlesSound == TypeOK /\ NoHoles /\ NothingNewMissing

\* "Completed daily candles for the window, fetching only what the cache
\* lacks": daily() returns every candle of its window that the service held.
WindowComplete ==
    \A c \in Callers : call[c].pc = "done" =>
        \A d \in Trading : (InWindow(c, d) /\ d <= call[c].known) => d \in call[c].bars
=============================================================================
