------------------------- MODULE RateLimiterProofs -------------------------
(***************************************************************************)
(* Proofs about RateLimiter, for any callers, windows and limits.          *)
(*                                                                         *)
(* The deques are tied to the history of grants: each one is a suffix of   *)
(* it, and all that was popped has left its window.  Everything else       *)
(* follows from that and from the clock never going back.                  *)
(***************************************************************************)
EXTENDS Upstox, TLAPS

-----------------------------------------------------------------------------
\* The grants that window w no longer holds.
Gone(w) == Len(granted) - Len(stamps[w])

\* Each deque is the latest part of the history; the rest left its window.
SuffixKept ==
    \A w \in Windows :
        /\ Len(stamps[w]) <= Len(granted)
        /\ \A j \in 1 .. Len(stamps[w]) : stamps[w][j] = granted[Gone(w) + j]
        /\ \A i \in 1 .. Gone(w) : granted[i] <= now - Seconds[w]

\* The history is in order and not in the future.
HistorySorted ==
    /\ \A i \in 1 .. Len(granted) : granted[i] <= now
    /\ \A i, j \in 1 .. Len(granted) : i <= j => granted[i] <= granted[j]

\* Every pause is still in force in pausedUntil, and lies behind its grants.
PausesRemembered ==
    \A p \in pauses : p.until <= pausedUntil /\ p.after <= Len(granted)

\* A sleeper waits for a pause, or for a grant that keeps a window full.
SleepsJustified ==
    \A c \in Callers : caller[c] = "sleep" =>
        \/ wake[c] <= pausedUntil
        \/ \E w \in Windows : \E i \in 1 .. Len(granted) :
              /\ i + Limit[w] <= Len(granted) + 1
              /\ wake[c] <= granted[i] + Seconds[w]

LimiterInv ==
    /\ TypeOK
    /\ SuffixKept
    /\ HistorySorted
    /\ PausesRemembered
    /\ SleepsJustified
    /\ RateKept
    /\ PausesHold

-----------------------------------------------------------------------------
\* The initial state satisfies the invariant.
LEMMA InitInv == Init => LimiterInv
  BY LimiterAssumption DEF Init, LimiterInv, TypeOK, SuffixKept, Gone, HistorySorted,
     PausesRemembered, SleepsJustified, RateKept, PausesHold

\* What popping n stamps leaves of a deque.
LEMMA DroppedElements ==
  ASSUME NEW s \in Seq(Nat), NEW n \in Nat, n <= Len(s)
  PROVE  /\ Dropped(s, n) \in Seq(Nat)
         /\ Len(Dropped(s, n)) = Len(s) - n
         /\ \A j \in 1 .. Len(s) - n : Dropped(s, n)[j] = s[n + j]
  BY DEF Dropped

\* After a pass has pruned a window, its deque is still the latest part of the
\* history, all the rest has left the window, and what is first has not.
LEMMA PrunedSuffix ==
  ASSUME TypeOK, SuffixKept, NEW w \in Windows, NEW n \in Nat,
         Expired(w, stamps[w], n)
  PROVE  LET s == Dropped(stamps[w], n)
             gone == Len(granted) - Len(s) IN
         /\ s \in Seq(Nat)
         /\ Len(s) \in Nat
         /\ Len(s) <= Len(granted)
         /\ \A j \in 1 .. Len(s) : s[j] = granted[gone + j]
         /\ \A i \in 1 .. gone : granted[i] <= now - Seconds[w]
         /\ Len(s) > 0 => s[1] > now - Seconds[w]
<1> DEFINE s == Dropped(stamps[w], n)
           gone == Len(granted) - Len(s)
<1>1. stamps[w] \in Seq(Nat) /\ granted \in Seq(Nat) /\ now \in Nat /\ Seconds[w] \in Nat
  BY LimiterAssumption DEF TypeOK
<1>2. n <= Len(stamps[w])
  BY DEF Expired
<1>3. /\ s \in Seq(Nat)
      /\ Len(s) = Len(stamps[w]) - n
      /\ \A j \in 1 .. Len(s) : s[j] = stamps[w][n + j]
  <2>1. /\ s \in Seq(Nat)
        /\ Len(s) = Len(stamps[w]) - n
        /\ \A j \in 1 .. Len(stamps[w]) - n : s[j] = stamps[w][n + j]
    BY ONLY <1>1, <1>2, n \in Nat, DroppedElements
  <2> HIDE DEF s
  <2> QED
    BY <2>1
<1>4. /\ gone = Gone(w) + n /\ Gone(w) \in Nat /\ Len(stamps[w]) \in Nat
      /\ Len(s) \in Nat /\ Len(s) <= Len(granted)
  <2>1. Len(stamps[w]) \in Nat /\ Len(granted) \in Nat
    BY <1>1
  <2>2. Len(stamps[w]) <= Len(granted)
    BY DEF SuffixKept
  <2> HIDE DEF s
  <2> QED
    BY <1>2, <1>3, <2>1, <2>2 DEF Gone
<1>5. \A j \in 1 .. Len(s) : s[j] = granted[gone + j]
  <2> SUFFICES ASSUME NEW j \in 1 .. Len(s) PROVE s[j] = granted[gone + j]
    OBVIOUS
  <2>1. n + j \in 1 .. Len(stamps[w])
    BY <1>3, <1>4
  <2>2. stamps[w][n + j] = granted[Gone(w) + (n + j)]
    BY <2>1 DEF SuffixKept
  <2>3. Gone(w) + (n + j) = gone + j
    BY <1>4
  <2> QED
    BY <1>3, <2>2, <2>3
<1>6. \A i \in 1 .. gone : granted[i] <= now - Seconds[w]
  <2> SUFFICES ASSUME NEW i \in 1 .. gone PROVE granted[i] <= now - Seconds[w]
    OBVIOUS
  <2>1. CASE i <= Gone(w)
    BY <1>4, <2>1 DEF SuffixKept
  <2>2. CASE i > Gone(w)
    <3>1. i - Gone(w) \in 1 .. n /\ i - Gone(w) \in 1 .. Len(stamps[w])
      BY <1>2, <1>4, <2>2
    <3>2. stamps[w][i - Gone(w)] <= now - Seconds[w]
      BY <3>1 DEF Expired
    <3>3. stamps[w][i - Gone(w)] = granted[Gone(w) + (i - Gone(w))]
      BY <3>1 DEF SuffixKept
    <3>4. Gone(w) + (i - Gone(w)) = i
      BY <1>4
    <3> QED
      BY <3>2, <3>3, <3>4
  <2> QED
    BY <1>4, <2>1, <2>2
<1>7. Len(s) > 0 => s[1] > now - Seconds[w]
  BY <1>1, <1>2, <1>3, SMTT(30) DEF Expired
<1> QED
  BY <1>3, <1>4, <1>5, <1>6, <1>7

-----------------------------------------------------------------------------
\* A pass that lets its caller through preserves the invariant.
LEMMA GrantPreserves ==
  ASSUME LimiterInv, NEW c \in Callers, NEW n \in PopCounts,
         Pass(c, n),
         \A d \in Waits([w \in Windows |-> Dropped(stamps[w], n[w])]) : d <= 0,
         stamps' = [w \in Windows |-> Append(Dropped(stamps[w], n[w]), now)],
         granted' = Append(granted, now),
         caller' = [caller EXCEPT ![c] = "request"],
         UNCHANGED wake
  PROVE  LimiterInv'
<1> DEFINE left == [w \in Windows |-> Dropped(stamps[w], n[w])]
           L == Len(granted)
<1> USE DEF LimiterInv
<1>1. /\ now \in Nat /\ now' = now
      /\ granted \in Seq(Nat) /\ granted' \in Seq(Nat)
      /\ L \in Nat /\ Len(granted') = L + 1
      /\ \A i \in 1 .. L : granted'[i] = granted[i] /\ granted[i] \in Nat
      /\ granted'[L + 1] = now
  BY DEF TypeOK, Pass
<1>2. pausedUntil' = pausedUntil /\ pauses' = pauses /\ pausedUntil \in Nat
  BY DEF Pass, TypeOK
<1>3. \A w \in Windows :
         /\ left[w] \in Seq(Nat) /\ Len(left[w]) \in Nat /\ Len(left[w]) <= L
         /\ \A j \in 1 .. Len(left[w]) : left[w][j] = granted[L - Len(left[w]) + j]
         /\ \A i \in 1 .. L - Len(left[w]) : granted[i] <= now - Seconds[w]
         /\ Len(left[w]) > 0 => left[w][1] > now - Seconds[w]
  <2> SUFFICES ASSUME NEW w \in Windows
               PROVE  /\ left[w] \in Seq(Nat) /\ Len(left[w]) \in Nat /\ Len(left[w]) <= L
                      /\ \A j \in 1 .. Len(left[w]) : left[w][j] = granted[L - Len(left[w]) + j]
                      /\ \A i \in 1 .. L - Len(left[w]) : granted[i] <= now - Seconds[w]
                      /\ Len(left[w]) > 0 => left[w][1] > now - Seconds[w]
    OBVIOUS
  <2>1. n[w] \in Nat /\ Expired(w, stamps[w], n[w])
    BY <1>1 DEF PopCounts, Pass
  <2> QED
    BY <2>1, PrunedSuffix
<1>4. \A w \in Windows : Limit[w] \in Nat \ {0} /\ Seconds[w] \in Nat
  BY LimiterAssumption
<1>5. \A w \in Windows : Len(left[w]) < Limit[w]
  <2> SUFFICES ASSUME NEW w \in Windows, Len(left[w]) >= Limit[w] PROVE FALSE
    BY <1>3, <1>4
  <2>1. left[w][1] + Seconds[w] - now \in Waits(left)
    BY DEF Waits
  <2>2. left[w][1] + Seconds[w] - now <= 0
    BY <2>1
  <2>3. Len(left[w]) > 0 /\ left[w][1] \in Nat
    BY <1>3, <1>4
  <2> QED
    BY <1>1, <1>3, <1>4, <2>2, <2>3, SMTT(30)
<1>6. pausedUntil <= now
  <2>1. pausedUntil - now \in Waits(left)
    BY DEF Waits
  <2> QED
    BY <1>1, <1>2, <2>1
<1>7. \A w \in Windows :
         /\ stamps'[w] = Append(left[w], now)
         /\ stamps'[w] \in Seq(Nat)
         /\ Len(stamps'[w]) = Len(left[w]) + 1
         /\ \A j \in 1 .. Len(left[w]) : stamps'[w][j] = left[w][j]
         /\ stamps'[w][Len(left[w]) + 1] = now
  BY <1>1, <1>3
<1>8. TypeOK'
  <2>1. stamps' \in [Windows -> Seq(Nat)]
    BY <1>7
  <2> QED
    BY <1>1, <1>2, <2>1 DEF TypeOK
<1>9. SuffixKept'
  <2> SUFFICES ASSUME NEW w \in Windows
               PROVE  /\ Len(stamps'[w]) <= Len(granted')
                      /\ \A j \in 1 .. Len(stamps'[w]) :
                            stamps'[w][j] = granted'[Len(granted') - Len(stamps'[w]) + j]
                      /\ \A i \in 1 .. Len(granted') - Len(stamps'[w]) :
                            granted'[i] <= now - Seconds[w]
    BY <1>1 DEF SuffixKept, Gone
  <2>1. Len(granted') - Len(stamps'[w]) = L - Len(left[w])
    BY <1>1, <1>3, <1>7
  <2>2. Len(stamps'[w]) <= Len(granted')
    BY <1>1, <1>3, <1>7
  <2>3. \A j \in 1 .. Len(stamps'[w]) : stamps'[w][j] = granted'[L - Len(left[w]) + j]
    <3> SUFFICES ASSUME NEW j \in 1 .. Len(stamps'[w])
                 PROVE  stamps'[w][j] = granted'[L - Len(left[w]) + j]
      OBVIOUS
    <3>1. CASE j \in 1 .. Len(left[w])
      <4> DEFINE at == L - Len(left[w]) + j
      <4>1. L \in Nat /\ Len(left[w]) \in Nat /\ Len(left[w]) <= L
        BY <1>1, <1>3
      <4>2. at \in 1 .. L /\ left[w][j] = granted[at]
        BY <1>1, <1>3, <3>1, <4>1
      <4>3. stamps'[w][j] = left[w][j]
        BY <1>7, <3>1
      <4> HIDE DEF at, left
      <4>4. granted'[at] = granted[at]
        BY <1>1, <4>2
      <4> QED
        BY <4>2, <4>3, <4>4 DEF at
    <3>2. CASE j = Len(left[w]) + 1
      <4>1. L - Len(left[w]) + j = L + 1
        BY <1>1, <1>3, <3>2
      <4> QED
        BY <1>1, <1>7, <3>2, <4>1
    <3>3. Len(left[w]) \in Nat /\ Len(stamps'[w]) = Len(left[w]) + 1
      BY <1>3, <1>7
    <3> HIDE DEF left
    <3>4. j \in 1 .. Len(left[w]) \/ j = Len(left[w]) + 1
      BY <3>3
    <3> QED
      BY <3>1, <3>2, <3>4
  <2>4. \A i \in 1 .. L - Len(left[w]) : granted'[i] <= now - Seconds[w]
    BY <1>1, <1>3
  <2> QED
    BY <2>1, <2>2, <2>3, <2>4
<1>10. HistorySorted'
  BY <1>1 DEF HistorySorted
<1>11. PausesRemembered'
  BY <1>1, <1>2 DEF PausesRemembered, TypeOK
<1>12. SleepsJustified'
  <2> SUFFICES ASSUME NEW b \in Callers, caller'[b] = "sleep"
               PROVE  \/ wake'[b] <= pausedUntil'
                      \/ \E w \in Windows : \E i \in 1 .. Len(granted') :
                            /\ i + Limit[w] <= Len(granted') + 1
                            /\ wake'[b] <= granted'[i] + Seconds[w]
    BY DEF SleepsJustified
  <2>1. caller[b] = "sleep" /\ wake'[b] = wake[b]
    BY DEF TypeOK
  <2>2. CASE wake[b] <= pausedUntil
    BY <1>2, <2>1, <2>2
  <2>3. CASE \E w \in Windows : \E i \in 1 .. L :
                /\ i + Limit[w] <= L + 1 /\ wake[b] <= granted[i] + Seconds[w]
    <3>1. PICK w \in Windows, i \in 1 .. L :
             i + Limit[w] <= L + 1 /\ wake[b] <= granted[i] + Seconds[w]
      BY <2>3
    <3>2. i \in 1 .. Len(granted') /\ i + Limit[w] <= Len(granted') + 1
      BY <1>1, <1>4, <3>1
    <3>3. wake'[b] <= granted'[i] + Seconds[w]
      BY <1>1, <2>1, <3>1
    <3> QED
      BY <3>2, <3>3
  <2> QED
    BY <2>1, <2>2, <2>3 DEF SleepsJustified
<1>13. RateKept'
  <2> SUFFICES ASSUME NEW w \in Windows, NEW i \in 1 .. L + 1, i + Limit[w] <= L + 1
               PROVE  granted'[i + Limit[w]] >= granted'[i] + Seconds[w]
    BY <1>1 DEF RateKept
  <2>1. i \in 1 .. L /\ i + Limit[w] \in 1 .. L + 1
    BY <1>1, <1>4
  <2>2. CASE i + Limit[w] <= L
    <3>1. granted[i + Limit[w]] >= granted[i] + Seconds[w]
      BY <2>1, <2>2 DEF RateKept
    <3>2. i + Limit[w] \in 1 .. L
      BY <1>1, <1>4, <2>1, <2>2
    <3> QED
      BY <1>1, <2>1, <3>1, <3>2
  <2>3. CASE i + Limit[w] = L + 1
    <3>1. i \in 1 .. L - Len(left[w])
      BY <1>1, <1>3, <1>4, <1>5, <2>1, <2>3, SMTT(30)
    <3>2. granted[i] <= now - Seconds[w]
      BY <1>3, <3>1
    <3> QED
      BY <1>1, <1>4, <2>1, <2>3, <3>2, SMTT(30)
  <2>4. i + Limit[w] \in Nat
    BY <1>4, <2>1
  <2>5. i + Limit[w] <= L \/ i + Limit[w] = L + 1
    BY ONLY <1>1, <2>4, i + Limit[w] <= L + 1
  <2> QED
    BY <2>2, <2>3, <2>5
<1>14. PausesHold'
  <2> SUFFICES ASSUME NEW p \in pauses, NEW i \in 1 .. L + 1, i > p.after
               PROVE  granted'[i] >= p.until
    BY <1>1, <1>2 DEF PausesHold
  <2>1. p.until <= pausedUntil /\ p.until \in Nat
    BY DEF PausesRemembered, TypeOK
  <2>2. CASE i \in 1 .. L
    BY <1>1, <2>2 DEF PausesHold
  <2>3. CASE i = L + 1
    BY <1>1, <1>2, <1>6, <2>1, <2>3
  <2> QED
    BY <1>1, <2>2, <2>3
<1> QED
  BY <1>8, <1>9, <1>10, <1>11, <1>12, <1>13, <1>14

\* A pass that puts its caller to sleep preserves the invariant.
LEMMA SleepPreserves ==
  ASSUME LimiterInv, NEW c \in Callers, NEW n \in PopCounts,
         Pass(c, n),
         NEW d \in Waits([w \in Windows |-> Dropped(stamps[w], n[w])]),
         d > 0,
         stamps' = [w \in Windows |-> Dropped(stamps[w], n[w])],
         wake' = [wake EXCEPT ![c] = now + d],
         caller' = [caller EXCEPT ![c] = "sleep"],
         UNCHANGED granted
  PROVE  LimiterInv'
<1> DEFINE left == [w \in Windows |-> Dropped(stamps[w], n[w])]
           L == Len(granted)
<1> USE DEF LimiterInv
<1>1. /\ now \in Nat /\ now' = now /\ granted \in Seq(Nat) /\ L \in Nat
      /\ pausedUntil' = pausedUntil /\ pauses' = pauses /\ pausedUntil \in Nat
  BY DEF TypeOK, Pass
<1>2. \A w \in Windows :
         /\ left[w] \in Seq(Nat) /\ Len(left[w]) \in Nat /\ Len(left[w]) <= L
         /\ \A j \in 1 .. Len(left[w]) : left[w][j] = granted[L - Len(left[w]) + j]
         /\ \A i \in 1 .. L - Len(left[w]) : granted[i] <= now - Seconds[w]
  <2> SUFFICES ASSUME NEW w \in Windows
               PROVE  /\ left[w] \in Seq(Nat) /\ Len(left[w]) \in Nat /\ Len(left[w]) <= L
                      /\ \A j \in 1 .. Len(left[w]) : left[w][j] = granted[L - Len(left[w]) + j]
                      /\ \A i \in 1 .. L - Len(left[w]) : granted[i] <= now - Seconds[w]
    OBVIOUS
  <2>1. n[w] \in Nat /\ Expired(w, stamps[w], n[w])
    BY <1>1 DEF PopCounts, Pass
  <2> QED
    BY <2>1, PrunedSuffix
<1>3. \A w \in Windows : Limit[w] \in Nat \ {0} /\ Seconds[w] \in Nat
  BY LimiterAssumption
<1>4. \/ d = pausedUntil - now
      \/ \E w \in Windows : Len(left[w]) >= Limit[w] /\ d = left[w][1] + Seconds[w] - now
  BY DEF Waits
<1>5. d \in Int
  <2>1. \A w \in Windows : Len(left[w]) >= Limit[w] => left[w][1] \in Nat
    BY <1>2, <1>3
  <2> QED
    BY <1>1, <1>3, <1>4, <2>1
<1>6. TypeOK'
  BY <1>1, <1>2, <1>5 DEF TypeOK
<1>7. SuffixKept'
  BY <1>1, <1>2 DEF SuffixKept, Gone
<1>8. HistorySorted' /\ PausesRemembered' /\ RateKept' /\ PausesHold'
  BY <1>1 DEF HistorySorted, PausesRemembered, RateKept, PausesHold
<1>9. SleepsJustified'
  <2> SUFFICES ASSUME NEW b \in Callers, caller'[b] = "sleep"
               PROVE  \/ wake'[b] <= pausedUntil
                      \/ \E w \in Windows : \E i \in 1 .. L :
                            /\ i + Limit[w] <= L + 1
                            /\ wake'[b] <= granted[i] + Seconds[w]
    BY <1>1 DEF SleepsJustified
  <2>1. CASE b # c
    <3>1. caller[b] = "sleep" /\ wake'[b] = wake[b]
      BY <2>1 DEF TypeOK
    <3> QED
      BY <3>1 DEF SleepsJustified
  <2>2. CASE b = c
    <3>1. wake'[b] = now + d
      BY <2>2 DEF TypeOK
    <3>2. CASE d = pausedUntil - now
      BY <1>1, <3>1, <3>2
    <3>3. CASE \E w \in Windows :
                  Len(left[w]) >= Limit[w] /\ d = left[w][1] + Seconds[w] - now
      <4>1. PICK w \in Windows :
               Len(left[w]) >= Limit[w] /\ d = left[w][1] + Seconds[w] - now
        BY <3>3
      <4> DEFINE i == L - Len(left[w]) + 1
      <4>2. i \in 1 .. L /\ i + Limit[w] <= L + 1
        BY <1>1, <1>2, <1>3, <4>1, SMTT(30)
      <4>3. left[w][1] = granted[i]
        BY <1>2, <1>3, <4>1
      <4>4. granted[i] \in Nat
        BY <1>1, <4>2
      <4>5. wake'[b] = granted[i] + Seconds[w]
        BY <1>1, <1>3, <3>1, <4>1, <4>3, <4>4, SMTT(30)
      <4>6. wake'[b] <= granted[i] + Seconds[w]
        BY <1>3, <4>4, <4>5
      <4> QED
        BY <4>2, <4>6
    <3> QED
      BY <1>4, <3>2, <3>3
  <2> QED
    BY <2>1, <2>2
<1> QED
  BY <1>6, <1>7, <1>8, <1>9

\* Every step preserves the invariant.
LEMMA NextInv == LimiterInv /\ [Next]_vars => LimiterInv'
<1> SUFFICES ASSUME LimiterInv, [Next]_vars PROVE LimiterInv'
  OBVIOUS
<1> USE DEF LimiterInv
<1>1. CASE Tick
  <2>1. /\ now \in Nat /\ now' = now + 1
        /\ granted' = granted /\ granted \in Seq(Nat)
        /\ UNCHANGED <<stamps, pausedUntil, caller, wake, pauses>>
    BY <1>1 DEF Tick, TypeOK
  <2>2. TypeOK'
    BY <2>1 DEF TypeOK
  <2>3. SuffixKept'
    <3> SUFFICES ASSUME NEW w \in Windows, NEW i \in 1 .. Gone(w)
                 PROVE  granted[i] <= now' - Seconds[w]
      BY <2>1 DEF SuffixKept, Gone
    <3>1. granted[i] <= now - Seconds[w] /\ Seconds[w] \in Nat
      BY LimiterAssumption DEF SuffixKept
    <3>2. stamps[w] \in Seq(Nat) /\ i \in 1 .. Len(granted)
      BY <2>1 DEF TypeOK, Gone
    <3> QED
      BY <2>1, <3>1, <3>2
  <2>4. HistorySorted'
    BY <2>1 DEF HistorySorted
  <2>5. PausesRemembered' /\ SleepsJustified' /\ RateKept' /\ PausesHold'
    BY <2>1 DEF PausesRemembered, SleepsJustified, RateKept, PausesHold
  <2> QED
    BY <2>2, <2>3, <2>4, <2>5
<1>2. ASSUME NEW c \in Callers, Call(c) \/ Wake(c) \/ Answered(c) PROVE LimiterInv'
  <2>1. /\ UNCHANGED <<now, stamps, pausedUntil, wake, granted, pauses>>
        /\ \E s \in {"acquire", "idle"} : caller' = [caller EXCEPT ![c] = s]
    BY <1>2 DEF Call, Wake, Answered
  <2>2. TypeOK'
    BY <2>1 DEF TypeOK
  <2>3. \A b \in Callers : caller'[b] = "sleep" => caller[b] = "sleep"
    BY <2>1 DEF TypeOK
  <2>4. SleepsJustified'
    BY <2>1, <2>3 DEF SleepsJustified
  <2>5. SuffixKept' /\ HistorySorted' /\ PausesRemembered' /\ RateKept' /\ PausesHold'
    BY <2>1 DEF SuffixKept, Gone, HistorySorted, PausesRemembered, RateKept, PausesHold
  <2> QED
    BY <2>2, <2>4, <2>5
<1>3. ASSUME NEW c \in Callers, Acquire(c) PROVE LimiterInv'
  <2>1. PICK n \in PopCounts : Pass(c, n)
    BY <1>3 DEF Acquire
  <2>2. CASE /\ \A d \in Waits([w \in Windows |-> Dropped(stamps[w], n[w])]) : d <= 0
             /\ stamps' = [w \in Windows |-> Append(Dropped(stamps[w], n[w]), now)]
             /\ granted' = Append(granted, now)
             /\ caller' = [caller EXCEPT ![c] = "request"]
             /\ UNCHANGED wake
    BY <2>1, <2>2, GrantPreserves
  <2>3. CASE /\ \E d \in Waits([w \in Windows |-> Dropped(stamps[w], n[w])]) :
                   d > 0 /\ wake' = [wake EXCEPT ![c] = now + d]
             /\ stamps' = [w \in Windows |-> Dropped(stamps[w], n[w])]
             /\ caller' = [caller EXCEPT ![c] = "sleep"]
             /\ UNCHANGED granted
    BY <2>1, <2>3, SleepPreserves DEF SleepUntil
  <2> QED
    BY <2>1, <2>2, <2>3 DEF Pass, SleepUntil
<1>4. ASSUME NEW c \in Callers, RateLimited(c) PROVE LimiterInv'
  <2> DEFINE p == [after |-> Len(granted), until |-> now + Pause]
  <2>1. /\ UNCHANGED <<now, stamps, wake, granted>>
        /\ caller' = [caller EXCEPT ![c] = "idle"]
        /\ pauses' = pauses \cup {p}
        /\ pausedUntil' = IF now + Pause > pausedUntil THEN now + Pause ELSE pausedUntil
    BY <1>4 DEF RateLimited
  <2>2. /\ now + Pause \in Nat /\ pausedUntil \in Nat /\ Len(granted) \in Nat
        /\ granted \in Seq(Nat) /\ wake \in [Callers -> Nat]
        /\ \A q \in pauses : q.after \in Nat /\ q.until \in Nat
    BY LimiterAssumption DEF TypeOK
  <2>3. pausedUntil' \in Nat /\ pausedUntil' >= pausedUntil /\ pausedUntil' >= now + Pause
    BY <2>1, <2>2
  <2>4. p \in [after : Nat, until : Nat] /\ p.until = now + Pause /\ p.after = Len(granted)
    BY <2>2
  <2>5. TypeOK'
    BY <2>1, <2>3, <2>4 DEF TypeOK
  <2>6. PausesRemembered'
    BY <2>1, <2>2, <2>3, <2>4 DEF PausesRemembered
  <2>7. PausesHold'
    BY <2>1, <2>2, <2>4 DEF PausesHold
  <2>8. SleepsJustified'
    <3> SUFFICES ASSUME NEW b \in Callers, caller'[b] = "sleep"
                 PROVE  \/ wake[b] <= pausedUntil'
                        \/ \E w \in Windows : \E i \in 1 .. Len(granted) :
                              /\ i + Limit[w] <= Len(granted) + 1
                              /\ wake[b] <= granted[i] + Seconds[w]
      BY <2>1 DEF SleepsJustified
    <3>1. caller[b] = "sleep" /\ wake[b] \in Nat
      BY <2>1 DEF TypeOK
    <3>2. CASE wake[b] <= pausedUntil
      BY <2>2, <2>3, <3>1, <3>2
    <3> QED
      BY <3>1, <3>2 DEF SleepsJustified
  <2>9. SuffixKept' /\ HistorySorted' /\ RateKept'
    BY <2>1 DEF SuffixKept, Gone, HistorySorted, RateKept
  <2> QED
    BY <2>5, <2>6, <2>7, <2>8, <2>9
<1>5. CASE UNCHANGED vars
  BY <1>5 DEF vars, TypeOK, SuffixKept, Gone, HistorySorted, PausesRemembered,
     SleepsJustified, RateKept, PausesHold
<1> QED
  BY <1>1, <1>2, <1>3, <1>4, <1>5 DEF Next, Step

\* The invariant holds in every reachable state.
THEOREM Invariant == Spec => []LimiterInv
<1>1. Init => LimiterInv
  BY InitInv
<1>2. LimiterInv /\ [Next]_vars => LimiterInv'
  BY NextInv
<1> QED
  BY <1>1, <1>2, PTL DEF Spec

-----------------------------------------------------------------------------
\* Type correctness of the limiter.
THEOREM TypeCorrect == Spec => []TypeOK
<1>1. LimiterInv => TypeOK
  BY DEF LimiterInv
<1> QED
  BY <1>1, Invariant, PTL

\* For any set of callers and any windows, no interval of a window's length
\* ever holds more grants than the window admits.
THEOREM RateAlwaysKept == Spec => []RateKept
<1>1. LimiterInv => RateKept
  BY DEF LimiterInv
<1> QED
  BY <1>1, Invariant, PTL

\* After a 429, no caller is let through before its pause is over.
THEOREM PausesAlwaysHold == Spec => []PausesHold
<1>1. LimiterInv => PausesHold
  BY DEF LimiterInv
<1> QED
  BY <1>1, Invariant, PTL

\* A sleeper whose time has not come would still be refused.
LEMMA JustifiedSleepRefused == LimiterInv => NoIdleSleep
<1> SUFFICES ASSUME LimiterInv, NEW c \in Callers, caller[c] = "sleep",
                    now < wake[c], Admits
             PROVE  FALSE
  BY DEF NoIdleSleep
<1> USE DEF LimiterInv
<1>1. /\ now \in Nat /\ wake[c] \in Nat /\ granted \in Seq(Nat) /\ Len(granted) \in Nat
      /\ pausedUntil \in Nat
  BY DEF TypeOK
<1>2. CASE wake[c] <= pausedUntil
  BY <1>1, <1>2 DEF Admits
<1>3. CASE \E w \in Windows : \E i \in 1 .. Len(granted) :
              /\ i + Limit[w] <= Len(granted) + 1
              /\ wake[c] <= granted[i] + Seconds[w]
  <2>1. PICK w \in Windows, i \in 1 .. Len(granted) :
              /\ i + Limit[w] <= Len(granted) + 1
              /\ wake[c] <= granted[i] + Seconds[w]
    BY <1>3
  <2> DEFINE k == Len(granted) - Limit[w] + 1
  <2>2. Limit[w] \in Nat \ {0} /\ Seconds[w] \in Nat
    BY LimiterAssumption
  <2>3. k \in 1 .. Len(granted) /\ i <= k /\ ~(Len(granted) < Limit[w])
    <3>1. Limit[w] \in Nat /\ Limit[w] >= 1 /\ i \in Nat /\ i >= 1
      BY <2>2
    <3>2. i + Limit[w] <= Len(granted) + 1 /\ Len(granted) \in Nat
      BY <1>1, <2>1
    <3> QED
      BY ONLY <3>1, <3>2
  <2>4. granted[i] <= granted[k]
    BY <2>3 DEF HistorySorted
  <2>5. granted[k] <= now - Seconds[w]
    BY <2>3 DEF Admits
  <2>6. granted[i] \in Nat /\ granted[k] \in Nat
    BY <1>1, <2>3, SMTT(30)
  <2>7. granted[i] + Seconds[w] <= now
    BY <1>1, <2>2, <2>4, <2>5, <2>6, SMTT(30)
  <2>8. wake[c] <= granted[i] + Seconds[w]
    BY <2>1
  <2> HIDE DEF k
  <2> QED
    BY <1>1, <2>2, <2>6, <2>7, <2>8
<1> QED
  BY <1>2, <1>3 DEF SleepsJustified

\* No caller sleeps while the limiter would let it through.
THEOREM NeverIdleSleep == Spec => []NoIdleSleep
  BY JustifiedSleepRefused, Invariant, PTL

-----------------------------------------------------------------------------
\* A pass that lets its caller through is a grant that the whole history admits:
\* what was popped has left its window, and no pause is later than the last end.
LEMMA PassIsGrant ==
  ASSUME LimiterInv, NEW c \in Callers, NEW n \in PopCounts, Pass(c, n), granted' # granted
  PROVE  Budget!Grant
<1> DEFINE left == [w \in Windows |-> Dropped(stamps[w], n[w])]
           L == Len(granted)
<1> USE DEF LimiterInv
<1>1. /\ \A d \in Waits(left) : d <= 0
      /\ granted' = Append(granted, now)
      /\ UNCHANGED <<now, pauses>>
  BY DEF Pass
<1>2. now \in Nat /\ pausedUntil \in Nat /\ granted \in Seq(Nat) /\ L \in Nat
  BY DEF TypeOK
<1>3. ~Budget!Paused
  <2>1. pausedUntil <= now
    <3>1. pausedUntil - now \in Waits(left)
      BY DEF Waits
    <3> QED
      BY <1>1, <1>2, <3>1
  <2>2. \A p \in pauses : p.until <= pausedUntil /\ p.until \in Nat
    BY DEF PausesRemembered, TypeOK
  <2> QED
    BY <1>2, <2>1, <2>2 DEF Budget!Paused
<1>4. ASSUME NEW w \in Windows PROVE Budget!Fits(w)
  <2> DEFINE k == Len(left[w])
  <2>1. n[w] \in Nat /\ Expired(w, stamps[w], n[w])
    BY <1>2 DEF PopCounts, Pass
  <2>2. /\ left[w] \in Seq(Nat) /\ k \in Nat /\ k <= L
        /\ \A i \in 1 .. L - k : granted[i] <= now - Seconds[w]
        /\ k > 0 => left[w][1] > now - Seconds[w]
    BY <2>1, PrunedSuffix
  <2>3. Limit[w] \in Nat \ {0} /\ Seconds[w] \in Nat
    BY LimiterAssumption
  <2>4. k < Limit[w]
    <3> SUFFICES ASSUME k >= Limit[w] PROVE FALSE
      BY <2>2, <2>3
    <3>1. left[w][1] + Seconds[w] - now <= 0
      <4>1. left[w][1] + Seconds[w] - now \in Waits(left)
        BY DEF Waits
      <4> QED
        BY <1>1, <4>1
    <3>2. k > 0 /\ left[w][1] \in Nat
      BY <2>2, <2>3
    <3> QED
      BY <1>2, <2>2, <2>3, <3>1, <3>2
  <2> HIDE DEF k
  <2>5. CASE L < Limit[w]
    BY <2>5 DEF Budget!Fits
  <2>6. CASE L >= Limit[w]
    <3>1. L - Limit[w] + 1 \in 1 .. L - k
      BY <1>2, <2>2, <2>3, <2>4, <2>6, SMTT(30)
    <3> QED
      BY <2>2, <3>1 DEF Budget!Fits
  <2> QED
    BY <1>2, <2>3, <2>5, <2>6
<1> QED
  BY <1>1, <1>3, <1>4 DEF Budget!Grant

\* Every step of the limiter is a step of what it promises, or none.
LEMMA StepKeepsBudget == LimiterInv /\ [Next]_vars => [Budget!Next]_(Budget!vars)
<1> SUFFICES ASSUME LimiterInv, [Next]_vars PROVE [Budget!Next]_(Budget!vars)
  OBVIOUS
<1>1. CASE Tick
  BY <1>1 DEF Tick, Budget!Next, Budget!Tick
<1>2. ASSUME NEW c \in Callers, Call(c) \/ Wake(c) \/ Answered(c) PROVE UNCHANGED Budget!vars
  BY <1>2 DEF Call, Wake, Answered, Budget!vars
<1>3. ASSUME NEW c \in Callers, Acquire(c) PROVE [Budget!Next]_(Budget!vars)
  <2>1. PICK n \in PopCounts : Pass(c, n)
    BY <1>3 DEF Acquire
  <2>2. CASE granted' # granted
    BY <2>1, <2>2, PassIsGrant DEF Budget!Next
  <2>3. CASE granted' = granted
    BY <2>1, <2>3 DEF Pass, Budget!vars
  <2> QED
    BY <2>2, <2>3
<1>4. ASSUME NEW c \in Callers, RateLimited(c) PROVE Budget!TooMany
  BY <1>4 DEF RateLimited, Budget!TooMany
<1>5. CASE UNCHANGED vars
  BY <1>5 DEF vars, Budget!vars
<1> QED
  BY <1>1, <1>2, <1>3, <1>4, <1>5 DEF Next, Step, Budget!Next

\* The limiter implements its promise, for any callers, windows and limits.
THEOREM ImplementsBudget == Spec => KeepsBudget
<1>1. Init => Budget!Init
  BY DEF Init, Budget!Init
<1>2. LimiterInv /\ [Next]_vars => [Budget!Next]_(Budget!vars)
  BY StepKeepsBudget
<1> QED
  BY <1>1, <1>2, Invariant, PTL DEF Spec, KeepsBudget, Budget!Spec

-----------------------------------------------------------------------------
(* The cache of candles: CandleCacheProofs, with the constants of Upstox.   *)

LOCAL Cached == INSTANCE CandleCacheProofs WITH Callers <- Readers

\* Whichever callers with whatever windows run into each other in
\* CandleService.daily over midnights, the cache has no hole between its first
\* and last candle, and no answer lacks a day the broker had and the call asked for.
THEOREM CandlesAlwaysSound ==
  ASSUME Candles!CandleAssumption PROVE Candles!Spec => []CandlesSound
<1>1. Cached!CandleAssumption
  BY DEF Candles!CandleAssumption, Cached!CandleAssumption, Candles!Days, Cached!Days
<1>2. Cached!Spec => []Cached!CandlesSound
  BY <1>1, Cached!CandlesAlwaysSound
<1> QED
  BY <1>2, PTL
  DEF Cached!Spec, Candles!Spec, Cached!Init, Candles!Init, Cached!vars, Candles!vars,
      Cached!Next, Candles!Next, Cached!Step, Candles!Step, Cached!Daily, Candles!Daily,
      Cached!Check, Candles!Check, Cached!Fetch, Candles!Fetch, Cached!FetchFails,
      Candles!FetchFails, Cached!Upsert, Candles!Upsert, Cached!Read, Candles!Read,
      Cached!Return, Candles!Return, Cached!NextDay, Candles!NextDay, Cached!Publish,
      Candles!Publish, Cached!Days, Candles!Days, Cached!None, Candles!None, Cached!Latest,
      Candles!Latest, Cached!LatestSession, Candles!LatestSession, Cached!IsCurrent,
      Candles!IsCurrent, Cached!Offered, Candles!Offered, Cached!InWindow, Candles!InWindow,
      Cached!Idle, Candles!Idle, Cached!Busy, Candles!Busy, Cached!Entered, Candles!Entered,
      Cached!CandlesSound, Candles!CandlesSound, Cached!TypeOK, Candles!TypeOK,
      Cached!NoHoles, Candles!NoHoles, Cached!NothingNewMissing, Candles!NothingNewMissing,
      CandlesSound
=============================================================================
