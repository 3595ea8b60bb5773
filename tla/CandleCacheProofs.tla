-------------------------- MODULE CandleCacheProofs --------------------------
(***************************************************************************)
(* For any callers with any windows, any trading days and any lag of the   *)
(* service: the cache has no hole, and no answer lacks a new candle.  What *)
(* is cached, and each answer on its way into the cache, is a range of the *)
(* trading days; the invariant says why two of them always touch.          *)
(***************************************************************************)
EXTENDS CandleCache, WellFoundedInduction, TLAPS

\* The trading days from one day to another.
Covers(S, from, to) == S = {d \in Trading : from <= d /\ d <= to}

\* What the service held of a call's window when it was made.
Held(c, d) == InWindow(c, d) /\ d <= call[c].known

\* A call that goes on from the latest candle, which it then found.
Continues(c) == call[c].from - 1 \in cache /\ call[c].from - 1 <= call[c].known

\* Only trading days before today are out, and at most MaxLag late; a call is of
\* today or of the day before.
ClockKept ==
    /\ published < today
    /\ today - 1 - published <= MaxLag
    /\ \A d \in cache : d <= published
    /\ \A c \in Callers : call[c].pc # "idle" => call[c].known < call[c].today
    /\ \A c \in Busy :
          /\ call[c].today <= today /\ today <= call[c].today + 1
          /\ call[c].known <= published

\* A call asks for the days after a candle that is there, or for its window, which
\* it does when it found nothing.
AskedRightly ==
    \A c \in Callers :
        /\ call[c].pc = "check" => Continues(c)
        /\ call[c].pc \in {"fetch", "upsert"} =>
              Continues(c) \/ call[c].from = call[c].today - Window[c]

\* The cache is a range, which reaches those that callers who found it empty are
\* fetching: whoever filled it started at most a day before or after them.
CacheIsRange ==
    cache # {} => \E first, last \in Int :
        /\ Covers(cache, first, last)
        /\ \A c \in Callers : call[c].pc \in {"fetch", "upsert"} /\ ~Continues(c) =>
              /\ first <= call[c].today - MaxLag
              /\ call[c].today - MaxLag - 2 <= last

\* An answer goes up to what was out when the service gave it.
Answered(c) ==
    \E last \in Int :
        /\ Covers(call[c].bars, call[c].from, last)
        /\ call[c].known <= last
        /\ call[c].today - 1 - MaxLag <= last
        /\ last <= published

AnswerIsRange == \A c \in Callers : call[c].pc = "upsert" => Answered(c)

\* When a call reads, the cache reaches to all that the service held for it.
ReachesHeld ==
    \A c \in Callers : call[c].pc = "read" =>
        \A d \in Trading : Held(c, d) =>
            /\ \E e \in cache : d <= e
            /\ \E e \in cache : e <= call[c].known

CandleInv ==
    /\ TypeOK
    /\ ClockKept
    /\ AskedRightly
    /\ CacheIsRange
    /\ AnswerIsRange
    /\ ReachesHeld
    /\ NothingNewMissing
-----------------------------------------------------------------------------
\* A nonempty set of days has a last one.
LEMMA LatestIsLast ==
  ASSUME CandleAssumption, NEW S, S # {}, S \subseteq Trading
  PROVE  /\ Latest(S) \in S
         /\ \A d \in S : d <= Latest(S)
<1> DEFINE left(d) == LastDay - d
           below == {left(d) : d \in S}
           R == OpToRel(<, Nat)
<1>0. \A d \in S : d \in Int /\ left(d) \in Nat
  BY DEF CandleAssumption, Days
<1>1. below \subseteq Nat /\ below # {}
  <2> HIDE DEF left
  <2> QED
    BY <1>0
<1>2. PICK x \in below : \A y \in below : ~(<<y, x>> \in R)
  <2> HIDE DEF below, R
  <2>1. IsWellFoundedOn(R, Nat)
    BY NatLessThanWellFounded DEF R
  <2> QED
    BY <1>1, <2>1, WFMin
<1>3. ASSUME NEW y \in below
      PROVE  x <= y
  <2>1. x \in Nat /\ y \in Nat /\ ~(<<y, x>> \in R)
    <3> HIDE DEF below, R
    <3> QED
      BY <1>1, <1>2
  <2> QED
    BY <2>1 DEF OpToRel
<1>4. PICK d \in S : x = left(d)
  BY <1>2
<1>5. ASSUME NEW e \in S
      PROVE  e <= d
  <2>1. left(d) <= left(e)
    BY <1>3, <1>4
  <2> QED
    BY <1>0, <2>1, CandleAssumption DEF CandleAssumption
<1> QED
  BY <1>5 DEF Latest

\* Two cached candles have every trading day between them cached.
LEMMA RangeHasNoHole ==
  ASSUME CandleAssumption, CacheIsRange
  PROVE  NoHoles
<1>1. \A d \in Trading : d \in Int
  BY DEF CandleAssumption, Days
<1> SUFFICES ASSUME NEW d \in Trading \ cache, NEW early \in cache, NEW late \in cache,
                    early < d, d < late
             PROVE  FALSE
  BY DEF NoHoles
<1>2. PICK first, last \in Int : Covers(cache, first, last)
  BY DEF CacheIsRange
<1>3. early \in Trading /\ late \in Trading /\ first <= early /\ late <= last
  BY <1>2 DEF Covers
<1>4. first <= d /\ d <= last
  BY <1>1, <1>3
<1> QED
  BY <1>2, <1>4 DEF Covers

\* Two ranges that touch make one.
LEMMA RangesTouch ==
  ASSUME CandleAssumption, NEW S, NEW T,
         NEW f \in Int, NEW l \in Int, NEW g \in Int, NEW m \in Int,
         Covers(S, f, l), Covers(T, g, m), f <= m + 1, g <= l + 1
  PROVE  \E first, last \in Int :
            /\ Covers(S \cup T, first, last)
            /\ first <= f
            /\ first <= g
            /\ l <= last
            /\ m <= last
<1> DEFINE first == IF f <= g THEN f ELSE g
           last == IF l <= m THEN m ELSE l
<1>1. \A d \in Trading : d \in Int
  BY DEF CandleAssumption, Days
<1>2. first \in Int /\ last \in Int /\ first <= f /\ first <= g /\ l <= last /\ m <= last
  OBVIOUS
<1>3. ASSUME NEW d \in Trading
      PROVE  first <= d /\ d <= last <=> (f <= d /\ d <= l) \/ (g <= d /\ d <= m)
  BY <1>1
<1>4. Covers(S \cup T, first, last)
  <2> HIDE DEF first, last
  <2> QED
    BY <1>3 DEF Covers
<1> QED
  BY <1>2, <1>4

\* Days are numbers.
LEMMA DaysAreInts ==
  ASSUME CandleAssumption
  PROVE  /\ Trading \subseteq Int
         /\ Days \subseteq Int
         /\ MaxLag \in Int
         /\ \A c \in Callers : Window[c] \in Int /\ MaxLag + 1 <= Window[c]
BY DEF CandleAssumption, Days

\* What the state holds are days, and trading days in the cache and the answers.
LEMMA TypesOfState ==
  ASSUME CandleAssumption, TypeOK
  PROVE  /\ today \in Int
         /\ published \in Int
         /\ cache \subseteq Trading
         /\ cache \subseteq Int
         /\ \A c \in Callers :
               /\ call[c].today \in Int
               /\ call[c].from \in Int
               /\ call[c].known \in Int
               /\ call[c].bars \subseteq Trading
BY DaysAreInts DEF TypeOK

\* What a step of one caller leaves true of the answers of the others.
LEMMA OthersAnswers ==
  ASSUME AnswerIsRange, NEW c \in Callers, call'[c].pc # "upsert", published' = published,
         \A x \in Callers \ {c} : call'[x] = call[x]
  PROVE  AnswerIsRange'
<1> SUFFICES ASSUME NEW x \in Callers \ {c}, call'[x].pc = "upsert"
             PROVE  Answered(x)'
  BY DEF AnswerIsRange
<1>1. Answered(x)
  BY DEF AnswerIsRange
<1> QED
  BY <1>1 DEF Answered, Covers

\* ... and of what they returned.
LEMMA OthersResults ==
  ASSUME NothingNewMissing, NEW c \in Callers, call'[c].pc # "done",
         \A x \in Callers \ {c} : call'[x] = call[x]
  PROVE  NothingNewMissing'
BY DEF NothingNewMissing, InWindow

\* A call's answer, from the service or the table, is one of trading days.
LEMMA TypesStay ==
  ASSUME TypeOK, NEW c \in Callers,
         Check(c) \/ Fetch(c) \/ FetchFails(c) \/ Upsert(c) \/ Read(c) \/ Return(c)
  PROVE  TypeOK'
<1> DEFINE Record == [pc : {"idle", "check", "fetch", "upsert", "read", "done"},
           today : Days \cup {0}, from : Int, known : Days \cup {0}, bars : SUBSET Trading]
<1>1. /\ call \in [Callers -> Record] /\ call[c] \in Record
      /\ cache \subseteq Trading
  BY DEF TypeOK
<1>2. /\ today \in Days /\ published \in Days
      /\ today' = today /\ published' = published
  BY DEF TypeOK, Check, Fetch, FetchFails, Upsert, Read, Return
<1> SUFFICES cache' \subseteq Trading /\ call' \in [Callers -> Record]
  BY <1>2 DEF TypeOK
<1>3. ASSUME NEW r \in Record, call' = [call EXCEPT ![c] = r], cache' = cache
      PROVE  cache' \subseteq Trading /\ call' \in [Callers -> Record]
  <2> HIDE DEF Record
  <2> QED
    BY <1>1, <1>3
<1>4. CASE Check(c)
  <2> DEFINE r == [call[c] EXCEPT !.pc = IF IsCurrent THEN "read" ELSE "fetch"]
  <2>1. r \in Record
    BY <1>1
  <2>2. call' = [call EXCEPT ![c] = r] /\ cache' = cache
    BY <1>4 DEF Check
  <2> QED
    BY <1>3, <2>1, <2>2
<1>5. CASE Fetch(c)
  <2> DEFINE r == [call[c] EXCEPT !.pc = "upsert", !.bars = Offered(call[c].from, call[c].today)]
  <2>1. r \in Record
    BY <1>1 DEF Offered
  <2>2. call' = [call EXCEPT ![c] = r] /\ cache' = cache
    BY <1>5 DEF Fetch
  <2> QED
    BY <1>3, <2>1, <2>2
<1>6. CASE FetchFails(c) \/ Return(c)
  <2>1. Idle \in Record
    BY DEF Idle
  <2>2. call' = [call EXCEPT ![c] = Idle] /\ cache' = cache
    BY <1>6 DEF FetchFails, Return
  <2> QED
    BY <1>3, <2>1, <2>2
<1>7. CASE Upsert(c)
  <2> DEFINE r == [call[c] EXCEPT !.pc = "read", !.bars = {}]
  <2>1. r \in Record /\ call[c].bars \subseteq Trading
    BY <1>1
  <2>2. call' = [call EXCEPT ![c] = r] /\ cache' = cache \cup call[c].bars
    BY <1>7 DEF Upsert
  <2> HIDE DEF Record, r
  <2> QED
    BY <1>1, <2>1, <2>2
<1>8. CASE Read(c)
  <2> DEFINE r == [call[c] EXCEPT !.pc = "done", !.bars = {d \in cache : InWindow(c, d)}]
  <2>1. r \in Record
    BY <1>1
  <2>2. call' = [call EXCEPT ![c] = r] /\ cache' = cache
    BY <1>8 DEF Read
  <2> QED
    BY <1>3, <2>1, <2>2
<1> QED
  BY <1>4, <1>5, <1>6, <1>7, <1>8

\* Init: nothing is cached and nobody calls.
LEMMA InitCandle ==
  ASSUME CandleAssumption
  PROVE  Init => CandleInv
BY DEF CandleAssumption, Init, Idle, Busy, CandleInv, TypeOK, Days, ClockKept, AskedRightly,
       CacheIsRange, AnswerIsRange, ReachesHeld, NothingNewMissing

\* A call that enters knows what is out, and goes on from the latest candle.
LEMMA DailyKeeps ==
  ASSUME CandleAssumption, CandleInv, NEW c \in Callers, Daily(c)
  PROVE  CandleInv'
<1> USE DEF CandleInv
<1>1. cache # {} => Latest(cache) \in cache /\ Latest(cache) <= published
  BY LatestIsLast DEF TypeOK, ClockKept
<1> DEFINE from == IF cache = {} THEN today - Window[c] ELSE Latest(cache) + 1
<1>2. from \in Int
  <2>1. cache # {} => Latest(cache) \in Int
    BY <1>1, TypesOfState
  <2>2. today - Window[c] \in Int
    BY TypesOfState, DaysAreInts
  <2> QED
    BY <2>1, <2>2
<1>3. /\ call'[c] = [pc |-> IF cache = {} THEN "fetch" ELSE "check", today |-> today,
                     from |-> from, known |-> published, bars |-> {}]
      /\ \A x \in Callers \ {c} : call'[x] = call[x]
      /\ UNCHANGED <<today, published, cache>>
  BY DEF Daily, Entered, TypeOK
<1>4. TypeOK'
  <2>1. call'[c] \in [pc : {"idle", "check", "fetch", "upsert", "read", "done"},
           today : Days \cup {0}, from : Int, known : Days \cup {0}, bars : SUBSET Trading]
    BY <1>2, <1>3 DEF TypeOK
  <2> QED
    BY <2>1 DEF Daily, TypeOK
<1>5. ClockKept'
  BY <1>3, <1>4 DEF ClockKept, Busy, TypeOK, Days
<1>6. AskedRightly'
  <2>1. cache # {} => Latest(cache) \in Int
    BY <1>1, TypesOfState
  <2>2. cache # {} => Continues(c)'
    BY <1>1, <1>3, <2>1 DEF Continues
  <2>3. \A x \in Callers \ {c} : Continues(x) => Continues(x)'
    BY <1>3 DEF Continues
  <2> QED
    BY <1>3, <2>2, <2>3 DEF AskedRightly
<1>7. CacheIsRange'
  BY <1>3 DEF CacheIsRange, Covers, Continues
<1>8. AnswerIsRange' /\ ReachesHeld' /\ NothingNewMissing'
  BY <1>3 DEF AnswerIsRange, Answered, Covers, ReachesHeld, Held, InWindow, NothingNewMissing
<1> QED
  BY <1>4, <1>5, <1>6, <1>7, <1>8

\* The latest session the check compares with is no earlier than any candle
\* the service held when the call was made.
LEMMA CurrentReaches ==
  ASSUME CandleAssumption, TypeOK, ClockKept, IsCurrent,
         NEW d \in Trading, d < today
  PROVE  \E e \in cache : d <= e
<1> DEFINE recent == {t \in Trading : today - LookbackDays <= t /\ t < today}
<1>1. cache # {} /\ Latest(cache) \in cache
  BY LatestIsLast, TypesOfState DEF IsCurrent
<1>2. PICK t \in recent : d <= t
  <2>1. d \in recent \/ d < today - LookbackDays
    BY TypesOfState, DaysAreInts DEF CandleAssumption
  <2>2. CASE d < today - LookbackDays
    <3>1. today > LookbackDays /\ today \in Days
      BY <2>2, DaysAreInts DEF TypeOK, CandleAssumption, Days
    <3>2. PICK t \in Trading : today - LookbackDays <= t /\ t < today
      BY <3>1 DEF CandleAssumption
    <3>3. d <= t
      BY <2>2, <3>2, TypesOfState, DaysAreInts DEF CandleAssumption
    <3> QED
      BY <3>2, <3>3
  <2> QED
    BY <2>1, <2>2, TypesOfState, DaysAreInts
<1>3. LatestSession = Latest(recent) /\ recent # {} /\ recent \subseteq Trading
  BY <1>2 DEF LatestSession
<1>4. Latest(recent) \in recent /\ t <= Latest(recent)
  <2> HIDE DEF recent
  <2> QED
    BY <1>2, <1>3, LatestIsLast
<1>5. LatestSession # None
  BY <1>3, <1>4 DEF CandleAssumption, Days, None
<1>6. Latest(cache) >= Latest(recent)
  BY <1>3, <1>5 DEF IsCurrent
<1> QED
  BY <1>1, <1>2, <1>4, <1>6, TypesOfState, DaysAreInts

\* The check reads the clock again, and sends the call to the table or the service.
LEMMA CheckKeeps ==
  ASSUME CandleAssumption, CandleInv, NEW c \in Callers, Check(c)
  PROVE  CandleInv'
<1> USE DEF CandleInv
<1>1. /\ call[c].pc = "check"
      /\ call'[c] = [call[c] EXCEPT !.pc = IF IsCurrent THEN "read" ELSE "fetch"]
      /\ \A x \in Callers \ {c} : call'[x] = call[x]
      /\ UNCHANGED <<today, published, cache>>
  BY DEF Check, TypeOK
<1>2. /\ call'[c].pc = IF IsCurrent THEN "read" ELSE "fetch"
      /\ \A x \in Callers : /\ call'[x].today = call[x].today
                            /\ call'[x].from = call[x].from
                            /\ call'[x].known = call[x].known
                            /\ call'[x].bars = call[x].bars
  BY <1>1 DEF TypeOK
<1>3. TypeOK'
  BY TypesStay
<1>4. Continues(c)
  BY <1>1 DEF AskedRightly
<1>5. \A x \in Callers : Continues(x) <=> Continues(x)'
  BY <1>1, <1>2 DEF Continues
<1>6. ClockKept'
  BY <1>1, <1>2 DEF ClockKept, Busy
<1>7. AskedRightly'
  BY <1>1, <1>2, <1>4, <1>5 DEF AskedRightly
<1>8. CacheIsRange'
  BY <1>1, <1>2, <1>4, <1>5 DEF CacheIsRange, Covers
<1>9. ReachesHeld'
  <2>1. ASSUME IsCurrent, NEW d \in Trading, Held(c, d)
        PROVE  /\ \E e \in cache : d <= e
               /\ \E e \in cache : e <= call[c].known
    <3>1. c \in Busy
      BY <1>1 DEF Busy
    <3>2. d < today
      BY <1>1, <2>1, <3>1, TypesOfState, DaysAreInts DEF Held, ClockKept
    <3> QED
      BY <1>4, <2>1, <3>2, CurrentReaches DEF Continues
  <2> QED
    BY <1>1, <1>2, <2>1, ZenonT(40) DEF ReachesHeld, Held, InWindow
<1>10. AnswerIsRange'
  BY <1>1, <1>2, OthersAnswers
<1>11. NothingNewMissing'
  BY <1>1, <1>2, OthersResults
<1> QED
  BY <1>3, <1>6, <1>7, <1>8, <1>9, <1>10, <1>11

\* The service answers with what it has from the day asked for.
LEMMA FetchKeeps ==
  ASSUME CandleAssumption, CandleInv, NEW c \in Callers, Fetch(c)
  PROVE  CandleInv'
<1> USE DEF CandleInv
<1> DEFINE answer == Offered(call[c].from, call[c].today)
<1>1. /\ call[c].pc = "fetch"
      /\ call'[c] = [call[c] EXCEPT !.pc = "upsert", !.bars = answer]
      /\ \A x \in Callers \ {c} : call'[x] = call[x]
      /\ UNCHANGED <<today, published, cache>>
  BY DEF Fetch, TypeOK
<1>2. /\ call'[c].pc = "upsert" /\ call'[c].bars = answer
      /\ \A x \in Callers : /\ call'[x].today = call[x].today
                            /\ call'[x].from = call[x].from
                            /\ call'[x].known = call[x].known
  BY <1>1, ZenonT(40) DEF TypeOK
<1>3. TypeOK'
  BY TypesStay
<1>4. \A x \in Callers : Continues(x) <=> Continues(x)'
  BY <1>1, <1>2 DEF Continues
<1>5. ClockKept'
  BY <1>1, <1>2 DEF ClockKept, Busy
<1>6. AskedRightly'
  BY <1>1, <1>2, <1>4 DEF AskedRightly
<1>7. CacheIsRange'
  BY <1>1, <1>2, <1>4 DEF CacheIsRange, Covers
<1>8. AnswerIsRange'
  <2>1. c \in Busy
    BY <1>1 DEF Busy
  <2>2. /\ published <= call[c].today
        /\ call[c].known <= published
        /\ call[c].today - 1 - MaxLag <= published
    BY <2>1, TypesOfState, DaysAreInts DEF ClockKept
  <2>3. Covers(answer, call[c].from, published)
    BY <2>2, TypesOfState, DaysAreInts DEF Covers, Offered
  <2>4. \E last \in Int : /\ Covers(answer, call[c].from, last)
                          /\ call[c].known <= last
                          /\ call[c].today - 1 - MaxLag <= last
                          /\ last <= published
    BY <2>2, <2>3, TypesOfState
  <2>5. \A x \in Callers \ {c} : call'[x].pc = "upsert" => Answered(x)'
    BY <1>1 DEF AnswerIsRange, Answered, Covers
  <2>6. Answered(c)'
    <3> HIDE DEF answer
    <3> QED
      BY <1>1, <1>2, <2>4 DEF Answered, Covers
  <2> QED
    BY <2>5, <2>6 DEF AnswerIsRange
<1>9. ReachesHeld' /\ NothingNewMissing'
  BY <1>1, <1>2 DEF ReachesHeld, Held, InWindow, NothingNewMissing
<1> QED
  BY <1>3, <1>5, <1>6, <1>7, <1>8, <1>9

\* A call that ends, in vain or not, leaves the others' promises alone.
LEMMA EndKeeps ==
  ASSUME CandleAssumption, CandleInv, NEW c \in Callers, FetchFails(c) \/ Return(c)
  PROVE  CandleInv'
<1> USE DEF CandleInv
<1>1. /\ call'[c] = Idle
      /\ \A x \in Callers \ {c} : call'[x] = call[x]
      /\ UNCHANGED <<today, published, cache>>
  BY DEF FetchFails, Return, TypeOK
<1>2. TypeOK'
  BY TypesStay
<1>3. call'[c].pc = "idle"
  BY <1>1 DEF Idle
<1>4. ClockKept'
  BY <1>1, <1>3 DEF ClockKept, Busy
<1>5. AskedRightly'
  BY <1>1, <1>3 DEF AskedRightly, Continues
<1>6. CacheIsRange'
  BY <1>1, <1>3 DEF CacheIsRange, Covers, Continues
<1>7. AnswerIsRange' /\ ReachesHeld' /\ NothingNewMissing'
  BY <1>1, <1>3 DEF AnswerIsRange, Answered, Covers, ReachesHeld, Held, InWindow, NothingNewMissing
<1> QED
  BY <1>2, <1>4, <1>5, <1>6, <1>7

\* The answer is written: it touches the range that is there.
LEMMA UpsertKeeps ==
  ASSUME CandleAssumption, CandleInv, NEW c \in Callers, Upsert(c)
  PROVE  CandleInv'
<1> USE DEF CandleInv
<1>1. /\ call[c].pc = "upsert"
      /\ cache' = cache \cup call[c].bars
      /\ call'[c] = [call[c] EXCEPT !.pc = "read", !.bars = {}]
      /\ \A x \in Callers \ {c} : call'[x] = call[x]
      /\ UNCHANGED <<today, published>>
  BY DEF Upsert, TypeOK
<1>2. /\ call'[c].pc = "read"
      /\ \A x \in Callers : /\ call'[x].today = call[x].today
                            /\ call'[x].from = call[x].from
                            /\ call'[x].known = call[x].known
  BY <1>1, ZenonT(40) DEF TypeOK
<1>3. TypeOK'
  BY TypesStay
<1>4. PICK last \in Int : /\ Covers(call[c].bars, call[c].from, last)
                          /\ call[c].known <= last
                          /\ call[c].today - 1 - MaxLag <= last
                          /\ last <= published
  BY <1>1 DEF AnswerIsRange, Answered
<1>5. \A x \in Callers : Continues(x) => Continues(x)'
  BY <1>1, <1>2 DEF Continues
<1>6. ClockKept'
  <2>1. \A d \in call[c].bars : d <= published
    BY <1>4, TypesOfState, DaysAreInts DEF Covers
  <2> QED
    BY <1>1, <1>2, <2>1 DEF ClockKept, Busy
<1>7. AskedRightly'
  BY <1>1, <1>2, <1>5 DEF AskedRightly
<1>8. CacheIsRange'
  <2>1. \A x \in Callers : call[x].pc \in {"fetch", "upsert"} /\ ~Continues(x) =>
            /\ call[c].today <= call[x].today + 1
            /\ call[x].today <= call[c].today + 1
    BY <1>1, TypesOfState DEF ClockKept, Busy
  <2>2. \A x \in Callers : call[x]'.pc \in {"fetch", "upsert"} /\ ~Continues(x)' =>
            /\ call[x].pc \in {"fetch", "upsert"}
            /\ ~Continues(x)
    BY <1>1, <1>2, <1>5
  <2>3. CASE cache = {}
    <3>1. call[c].from = call[c].today - Window[c]
      BY <1>1, <2>3 DEF AskedRightly, Continues
    <3>2. call[c].from <= call[c].today - MaxLag - 1
      BY <3>1, TypesOfState, DaysAreInts
    <3>3. Covers(cache', call[c].from, last)
      BY <1>1, <1>4, <2>3 DEF Covers
    <3>4. \A x \in Callers : call[x]'.pc \in {"fetch", "upsert"} /\ ~Continues(x)' =>
              /\ call[c].from <= call[x].today - MaxLag
              /\ call[x].today - MaxLag - 2 <= last
      BY <1>4, <2>1, <2>2, <3>2, TypesOfState, DaysAreInts
    <3>5. \A x \in Callers : call[x]'.pc \in {"fetch", "upsert"} /\ ~Continues(x)' =>
              /\ call[c].from <= call[x]'.today - MaxLag
              /\ call[x]'.today - MaxLag - 2 <= last
      BY <1>2, <3>4
    <3>6. call[c].from \in Int /\ last \in Int
      BY TypesOfState
    <3> QED
      BY <3>3, <3>5, <3>6 DEF CacheIsRange, Covers
  <2>4. CASE cache # {}
    <3>1. PICK f, l \in Int :
            /\ Covers(cache, f, l)
            /\ \A x \in Callers : call[x].pc \in {"fetch", "upsert"} /\ ~Continues(x) =>
                  /\ f <= call[x].today - MaxLag
                  /\ call[x].today - MaxLag - 2 <= l
      BY <2>4 DEF CacheIsRange
    <3>2. (f <= last + 1 /\ call[c].from <= l + 1) \/ call[c].bars = {}
      <4>1. CASE Continues(c)
        <5>1. f <= call[c].from - 1 /\ call[c].from - 1 <= l
          BY <3>1, <4>1 DEF Continues, Covers
        <5>2. call[c].from <= last \/ call[c].bars = {}
          BY <1>4, TypesOfState, DaysAreInts DEF Covers
        <5> QED
          BY <5>1, <5>2, TypesOfState
      <4>2. CASE ~Continues(c)
        <5>1. call[c].from = call[c].today - Window[c]
          BY <1>1, <4>2 DEF AskedRightly
        <5>2. f <= call[c].today - MaxLag /\ call[c].today - MaxLag - 2 <= l
          BY <1>1, <3>1, <4>2
        <5> QED
          BY <1>4, <5>1, <5>2, TypesOfState, DaysAreInts
      <4> QED
        BY <4>1, <4>2
    <3>3. PICK first, end \in Int : Covers(cache', first, end) /\ first <= f /\ l <= end
      <4>1. CASE call[c].bars = {}
        BY <1>1, <3>1, <4>1 DEF Covers
      <4>2. CASE call[c].bars # {}
        BY <1>1, <1>4, <3>1, <3>2, <4>2, RangesTouch, TypesOfState
      <4> QED
        BY <4>1, <4>2
    <3>4. \A x \in Callers : call[x]'.pc \in {"fetch", "upsert"} /\ ~Continues(x)' =>
              /\ first <= call[x].today - MaxLag
              /\ call[x].today - MaxLag - 2 <= end
      BY <2>2, <3>1, <3>3, TypesOfState, DaysAreInts
    <3> QED
      BY <1>2, <3>3, <3>4 DEF CacheIsRange, Covers
  <2> QED
    BY <2>3, <2>4
<1>9. ReachesHeld'
  <2>1. ASSUME NEW d \in Trading, Held(c, d)
        PROVE  /\ \E e \in cache' : d <= e
               /\ \E e \in cache' : e <= call[c].known
    <3>1. d <= last
      BY <1>4, <2>1, TypesOfState, DaysAreInts DEF Held
    <3>2. CASE Continues(c)
      <4>1. call[c].from <= d => d \in cache'
        BY <1>1, <1>4, <3>1 DEF Covers
      <4>2. call[c].from - 1 \in cache'
        BY <1>1, <3>2 DEF Continues
      <4>3. d <= call[c].from - 1 \/ call[c].from <= d
        BY TypesOfState, DaysAreInts
      <4> QED
        BY <3>2, <4>1, <4>2, <4>3, DaysAreInts DEF Continues
    <3>3. CASE ~Continues(c)
      <4>1. call[c].from <= d
        BY <1>1, <2>1, <3>3 DEF AskedRightly, Held, InWindow
      <4>2. d \in cache'
        BY <1>1, <1>4, <3>1, <4>1 DEF Covers
      <4> QED
        BY <2>1, <4>2, DaysAreInts DEF Held
    <3> QED
      BY <3>2, <3>3
  <2> QED
    BY <1>1, <1>2, <2>1 DEF ReachesHeld, Held, InWindow
<1>10. AnswerIsRange'
  BY <1>1, <1>2, OthersAnswers
<1>11. NothingNewMissing'
  BY <1>1, <1>2, OthersResults
<1> QED
  BY <1>3, <1>6, <1>7, <1>8, <1>9, <1>10, <1>11

\* What is read from the table lacks only what is older than all of it.
LEMMA ReadKeeps ==
  ASSUME CandleAssumption, CandleInv, NEW c \in Callers, Read(c)
  PROVE  CandleInv'
<1> USE DEF CandleInv
<1> DEFINE answer == {d \in cache : InWindow(c, d)}
<1>1. /\ call[c].pc = "read"
      /\ call'[c] = [call[c] EXCEPT !.pc = "done", !.bars = answer]
      /\ \A x \in Callers \ {c} : call'[x] = call[x]
      /\ UNCHANGED <<today, published, cache>>
  BY DEF Read, TypeOK
<1>2. /\ call'[c].pc = "done" /\ call'[c].bars = answer
      /\ \A x \in Callers : /\ call'[x].today = call[x].today
                            /\ call'[x].from = call[x].from
                            /\ call'[x].known = call[x].known
  BY <1>1, ZenonT(40) DEF TypeOK
<1>3. TypeOK'
  BY TypesStay
<1>4. ClockKept'
  BY <1>1, <1>2 DEF ClockKept, Busy
<1>5. AskedRightly'
  BY <1>1, <1>2, ZenonT(40) DEF AskedRightly, Continues
<1>6. CacheIsRange'
  <2>1. \A x \in Callers :
            /\ Continues(x) <=> Continues(x)'
            /\ call'[x].pc \in {"fetch", "upsert"} => call[x].pc = call'[x].pc
    BY <1>1, <1>2 DEF Continues
  <2> QED
    BY <1>1, <1>2, <2>1 DEF CacheIsRange, Covers
<1>7. AnswerIsRange'
  BY <1>1, <1>2, OthersAnswers
<1>8. ReachesHeld'
  BY <1>1, <1>2 DEF ReachesHeld, Held, InWindow
<1>9. NothingNewMissing'
  <2>1. ASSUME NEW d \in Trading, Held(c, d), d \notin answer
        PROVE  /\ \A b \in answer : d < b
               /\ \E b \in answer : b <= call[c].known
    <3>1. d \notin cache
      BY <2>1 DEF Held
    <3>2. PICK later \in cache, held \in cache : d <= later /\ held <= call[c].known
      BY <1>1, <2>1 DEF ReachesHeld
    <3>3. ASSUME NEW b \in cache
          PROVE  d < b
      <4>1. b # d /\ later # d /\ d < later
        BY <3>1, <3>2, TypesOfState, DaysAreInts
      <4>2. ~(b < d)
        BY <3>1, <4>1, RangeHasNoHole DEF NoHoles
      <4> QED
        BY <4>1, <4>2, TypesOfState, DaysAreInts
    <3>4. held \in answer
      <4>1. call[c].known < call[c].today
        BY <1>1 DEF ClockKept
      <4> QED
        BY <2>1, <3>2, <3>3, <4>1, TypesOfState, DaysAreInts DEF Held, InWindow
    <3> QED
      BY <3>2, <3>3, <3>4
  <2>2. \A d \in Trading : InWindow(c, d)' <=> InWindow(c, d)
    BY <1>2 DEF InWindow
  <2> HIDE DEF answer
  <2> QED
    BY <1>1, <1>2, <2>1, <2>2, ZenonT(40) DEF NothingNewMissing, Held, InWindow
<1> QED
  BY <1>3, <1>4, <1>5, <1>6, <1>7, <1>8, <1>9

\* A midnight, and a candle that comes out.
LEMMA NextDayKeeps ==
  ASSUME CandleAssumption, CandleInv, NextDay
  PROVE  CandleInv'
<1> USE DEF CandleInv
<1>1. UNCHANGED <<published, cache, call>> /\ today' = today + 1
  BY DEF NextDay
<1>2. TypeOK'
  BY <1>1 DEF NextDay, TypeOK, Days, CandleAssumption
<1>3. ClockKept'
  BY <1>1, TypesOfState, DaysAreInts DEF NextDay, ClockKept, Busy
<1>4. AskedRightly' /\ CacheIsRange' /\ AnswerIsRange' /\ ReachesHeld' /\ NothingNewMissing'
  BY <1>1 DEF AskedRightly, Continues, CacheIsRange, Covers, AnswerIsRange, Answered, ReachesHeld,
              Held, InWindow, NothingNewMissing
<1> QED
  BY <1>2, <1>3, <1>4

\* Publish: the day before ends up at the broker.
LEMMA PublishKeeps ==
  ASSUME CandleAssumption, CandleInv, Publish
  PROVE  CandleInv'
<1> USE DEF CandleInv
<1>1. UNCHANGED <<today, cache, call>> /\ published' = published + 1 /\ published < today - 1
  BY DEF Publish
<1>2. TypeOK'
  BY <1>1 DEF TypeOK, Days, CandleAssumption
<1>3. ClockKept'
  BY <1>1, TypesOfState, DaysAreInts DEF ClockKept, Busy
<1>4. AnswerIsRange'
  <2> SUFFICES ASSUME NEW c \in Callers, call[c].pc = "upsert"
               PROVE  Answered(c)'
    BY <1>1 DEF AnswerIsRange
  <2>1. PICK last \in Int : /\ Covers(call[c].bars, call[c].from, last)
                            /\ call[c].known <= last
                            /\ call[c].today - 1 - MaxLag <= last
                            /\ last <= published
    BY DEF AnswerIsRange, Answered
  <2>2. last <= published'
    BY <1>1, <2>1, TypesOfState
  <2> QED
    BY <1>1, <2>1, <2>2 DEF Answered, Covers
<1>5. AskedRightly' /\ CacheIsRange' /\ ReachesHeld' /\ NothingNewMissing'
  BY <1>1 DEF AskedRightly, Continues, CacheIsRange, Covers, ReachesHeld, Held, InWindow,
              NothingNewMissing
<1> QED
  BY <1>2, <1>3, <1>4, <1>5

\* Every step keeps the invariant.
LEMMA NextCandle ==
  ASSUME CandleAssumption
  PROVE  CandleInv /\ [Next]_vars => CandleInv'
<1> SUFFICES ASSUME CandleInv, [Next]_vars
             PROVE  CandleInv'
  OBVIOUS
<1>1. ASSUME NEW c \in Callers, Step(c)
      PROVE  CandleInv'
  BY <1>1, DailyKeeps, CheckKeeps, FetchKeeps, EndKeeps, UpsertKeeps, ReadKeeps DEF Step
<1>2. CASE UNCHANGED vars
  BY <1>2 DEF vars, CandleInv, TypeOK, ClockKept, Busy, AskedRightly, Continues, CacheIsRange,
              Covers, AnswerIsRange, Answered, ReachesHeld, Held, InWindow, NothingNewMissing
<1> QED
  BY <1>1, <1>2, NextDayKeeps, PublishKeeps DEF Next

-----------------------------------------------------------------------------
\* The invariant holds throughout.
THEOREM Invariant == ASSUME CandleAssumption PROVE Spec => []CandleInv
<1>1. Init => CandleInv
  BY InitCandle
<1>2. CandleInv /\ [Next]_vars => CandleInv'
  BY NextCandle
<1> QED
  BY <1>1, <1>2, PTL DEF Spec

\* The candle cache, for any callers and windows, any trading days and any lag of
\* the service: its types, that the cache has no hole, and that an answer lacks
\* nothing new.
THEOREM CandlesAlwaysSound == ASSUME CandleAssumption PROVE Spec => []CandlesSound
<1>1. CandleInv => CandlesSound
  BY RangeHasNoHole DEF CandleInv, CandlesSound
<1> QED
  BY <1>1, Invariant, PTL
=============================================================================
