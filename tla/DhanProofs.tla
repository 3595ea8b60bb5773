------------------------------ MODULE DhanProofs ------------------------------
(***************************************************************************)
(* For every length of the calendar, every default start, any tokens, any  *)
(* releases, any announcements and any account: what the keys of the       *)
(* history say was read, the pasted token is kept, the database says which *)
(* migrations it has, the session found is the last that has opened, and a *)
(* position has one row.                                                   *)
(***************************************************************************)
EXTENDS DhanService, Sequences, FiniteSetTheorems, WellFoundedInduction, TLAPS

tokenState == Token!vars
storageState == Storage!vars
calendarState == Calendar!vars
positionState == Position!vars

-----------------------------------------------------------------------------
(* The history.  The invariant follows one sync: what it settled on is read *)
(* or planned to be read, from the moment it looks at the keys.             *)

\* The days the running sync answers for.
Promised == start .. day - 1

Read == stored \cup skipped

\* Each of them was read, or is in the ranges still to be read.
PromiseKept ==
    /\ sync = "earlier" => Promised \subseteq Read \cup earlier \cup later
    /\ sync = "later" => Promised \subseteq Read \cup later
    /\ sync \in {"covered", "through", "from", "book", "apply"} => Promised \subseteq Read

\* The calendar as the sync knows it.
SyncsDays ==
    /\ today >= FirstDay
    /\ day >= FirstDay
    /\ day <= today
    /\ sync \notin {"idle", "begin"} => through < day

HistoryInv ==
    /\ TypeOK
    /\ SyncsDays
    /\ OnlyPastCovered
    /\ CoverageHonest
    /\ PromiseKept

\* The invariant holds in the initial state: nothing is covered.
LEMMA InitHistory == Init => HistoryInv
  BY HistoryAssumption DEF Init, HistoryInv, TypeOK, SyncsDays, OnlyPastCovered, CoverageHonest,
     PromiseKept, Promised, Read, FirstDay, Unset, Steps

\* The start a sync settles on is a day, whichever of the three it comes from.
LEMMA SettledIsADay ==
  ASSUME TypeOK, SyncsDays
  PROVE  SettledStart \in Nat /\ SettledStart # Unset
  BY HistoryAssumption DEF TypeOK, SyncsDays, FirstDay, SettledStart, Unset

\* The two ranges hold every day that what is covered leaves out.
LEMMA GapsAreEnough ==
  ASSUME TypeOK, CoverageHonest, NEW from \in Nat, NEW to \in Nat
  PROVE  from .. to \subseteq Read \cup EarlierGap(from, to) \cup LaterGap(from, to)
<1> SUFFICES ASSUME NEW d \in from .. to,
                    d \notin EarlierGap(from, to), d \notin LaterGap(from, to)
             PROVE  d \in Read
  OBVIOUS
<1>1. /\ covered_from # Unset /\ through # Unset
      /\ ~ (d < covered_from)
      /\ ~ (d > through)
  BY DEF EarlierGap, LaterGap
<1>2. d \in covered_from .. through
  BY <1>1 DEF TypeOK
<1> QED
  BY <1>1, <1>2 DEF CoverageHonest, Read

\* Every step keeps the invariant.
LEMMA NextHistory == HistoryInv /\ [Next]_vars => HistoryInv'
<1> SUFFICES ASSUME HistoryInv, [Next]_vars
             PROVE  HistoryInv'
  OBVIOUS
<1> USE DEF HistoryInv, stateKeys, gaps, locals
<1>1. ASSUME NEW from \in {Unset} \cup 1 .. LastDay, StartSync(from)
      PROVE  HistoryInv'
  BY <1>1, HistoryAssumption
  DEF StartSync, TypeOK, Steps, SyncsDays, OnlyPastCovered, CoverageHonest, PromiseKept, Promised,
      Read, Unset
<1>2. CASE Begin
  BY <1>2
  DEF Begin, TypeOK, Steps, SyncsDays, OnlyPastCovered, CoverageHonest, PromiseKept, Promised, Read
<1>3. CASE Settle
  <2>1. SettledStart \in Nat /\ SettledStart # Unset
    BY SettledIsADay
  <2>2. day - 1 \in Nat
    BY HistoryAssumption DEF TypeOK, SyncsDays, FirstDay
  <2>3. SettledStart .. day - 1 \subseteq
            Read \cup EarlierGap(SettledStart, day - 1) \cup LaterGap(SettledStart, day - 1)
    BY <2>1, <2>2, GapsAreEnough
  <2>4. PromiseKept'
    BY <1>3, <2>3 DEF Settle, PromiseKept, Promised, Read
  <2>5. /\ EarlierGap(SettledStart, day - 1) \subseteq Nat
        /\ LaterGap(SettledStart, day - 1) \subseteq Nat
    BY <2>1, <2>2 DEF EarlierGap, LaterGap
  <2>6. TypeOK'
    BY <1>3, <2>1, <2>5 DEF Settle, TypeOK, Steps
  <2> QED
    BY <1>3, <2>4, <2>6 DEF Settle, SyncsDays, OnlyPastCovered, CoverageHonest
<1>4. CASE ReadEarlier
  BY <1>4
  DEF ReadEarlier, TypeOK, Steps, SyncsDays, OnlyPastCovered, CoverageHonest, PromiseKept,
      Promised, Read
<1>5. CASE ReadLater
  BY <1>5
  DEF ReadLater, TypeOK, Steps, SyncsDays, OnlyPastCovered, CoverageHonest, PromiseKept,
      Promised, Read
<1>6. CASE SetCovered
  <2>1. Promised \subseteq Read
    BY <1>6 DEF SetCovered, PromiseKept
  <2>2. start .. through \subseteq Promised
    BY <1>6 DEF SetCovered, Promised, SyncsDays, TypeOK
  <2>3. CoverageHonest'
    BY <1>6, <2>1, <2>2 DEF SetCovered, CoverageHonest, Read
  <2>4. PromiseKept'
    BY <1>6, <2>1 DEF SetCovered, PromiseKept, Promised, Read
  <2> QED
    BY <1>6, <2>3, <2>4 DEF SetCovered, TypeOK, Steps, SyncsDays, OnlyPastCovered
<1>7. CASE SetThrough
  <2>1. Promised \subseteq Read
    BY <1>7 DEF SetThrough, PromiseKept
  <2>2. ASSUME NEW d \in covered_from .. day - 1
        PROVE  d \in stored \cup skipped \cup SteppedOver
    BY <2>1 DEF SteppedOver, Promised, Read, TypeOK
  <2>3. CoverageHonest'
    BY <1>7, <2>2 DEF SetThrough, CoverageHonest
  <2>4. PromiseKept'
    BY <1>7, <2>1 DEF SetThrough, PromiseKept, Promised, Read
  <2>5. TypeOK'
    BY <1>7, HistoryAssumption
    DEF SetThrough, TypeOK, Steps, SyncsDays, FirstDay, SteppedOver
  <2> QED
    BY <1>7, <2>3, <2>4, <2>5 DEF SetThrough, TypeOK, SyncsDays, OnlyPastCovered
<1>8. CASE SetFrom \/ ReadBook \/ Apply \/ Stop
  BY <1>8
  DEF SetFrom, ReadBook, Apply, Stop, TypeOK, Steps, SyncsDays, OnlyPastCovered, CoverageHonest,
      PromiseKept, Promised, Read
<1>9. CASE NextDay
  BY <1>9, HistoryAssumption
  DEF NextDay, FirstDay, TypeOK, Steps, SyncsDays, OnlyPastCovered, CoverageHonest, PromiseKept,
      Promised, Read
<1>10. CASE UNCHANGED vars
  BY <1>10
  DEF vars, TypeOK, Steps, SyncsDays, OnlyPastCovered, CoverageHonest, PromiseKept, Promised, Read
<1> QED
  BY <1>1, <1>2, <1>3, <1>4, <1>5, <1>6, <1>7, <1>8, <1>9, <1>10 DEF Next

\* The invariant holds of every behaviour.
LEMMA HistoryInvariant == Spec => []HistoryInv
  BY InitHistory, NextHistory, PTL DEF Spec

\* The keys hold days, and a sync that reads knows its start.
THEOREM TypeCorrect == Spec => []TypeOK
  BY HistoryInvariant, PTL DEF HistoryInv

\* _missing_history and the three keys: no day is marked as covered that was
\* neither read nor stepped over by a later start, wherever a sync stopped.
THEOREM CoverageAlwaysHonest == Spec => []CoverageHonest
  BY HistoryInvariant, PTL DEF HistoryInv

\* _sync: the positions are rebuilt from a history without any other hole.
THEOREM HistoryAlwaysRead == Spec => []HistoryRead
<1>1. HistoryInv => HistoryRead
  BY DEF HistoryInv, PromiseKept, HistoryRead, Promised, Read
<1> QED
  BY <1>1, HistoryInvariant, PTL

\* The day the account is read on is left to the next sync.
THEOREM PastAlwaysCovered == Spec => []OnlyPastCovered
  BY HistoryInvariant, PTL DEF HistoryInv

-----------------------------------------------------------------------------
(* The token: what each step of the two threads knows of it.                 *)

Known == 0 .. handed

\* What each variable holds.
TokenTypes ==
    /\ handed \in 0 .. MaxTokens
    /\ accepts \in [Token!Tokens -> {"good", "expiring", "bad"}]
    /\ {current, pasted} \subseteq Known
    /\ env = current
    /\ reading \in [at : Token!Requests \cup {"idle", "save", "accepted"}, token : Known]
    /\ {needsToken, connecting, overlapped, retried} \subseteq BOOLEAN
    /\ {date, lastSync} \subseteq Int /\ lastSync <= date
    /\ root \in [Token!Tokens -> 0 .. MaxTokens]

\* A token once refused stays refused at Dhan.
RefusedForGood == rejected \subseteq {t \in Token!Tokens : t <= handed /\ accepts[t] = "bad"}

\* Which steps of a sync have a token with them, and that there is one to have.
TokensInHand ==
    /\ reading.at \in {"idle", "accepted"} => reading.token = Token!NoToken
    /\ reading.at = "save" => reading.token \in Token!Tokens \ rejected
    /\ reading.at # "idle" \/ connecting => current # Token!NoToken
    /\ (pasted = Token!NoToken) = (current = Token!NoToken)

\* As long as no token was pasted while a sync ran: a sync works with the
\* token that is stored, which is the pasted one or comes from it, ...
OneLine ==
    /\ current # Token!NoToken => root[current] = pasted
    /\ reading.token # Token!NoToken => root[reading.token] = pasted
    /\ reading.at \in Token!Requests /\ reading.token # Token!NoToken => reading.token = current
    /\ connecting => reading.at = "idle"

\* ... and that one has been refused exactly when the user is asked for
\* another: it passed the first request of a sync that is past it.
NotRefused ==
    /\ connecting => current \notin rejected
    /\ reading.at \in {"renew", "save", "accepted", "read"} => current \notin rejected
    /\ ~connecting => (needsToken <=> current \in rejected)

TokenInv ==
    /\ TokenTypes /\ RefusedForGood /\ TokensInHand
    /\ ~overlapped => OneLine /\ NotRefused /\ ~retried

-----------------------------------------------------------------------------
(* One step keeps each part.                                                *)

\* No step stores, sends or hands out what is no token.
LEMMA TokenTypesStay ==
    ASSUME Token!TokenAssumption, TokenInv, [Token!Next]_tokenState
    PROVE  TokenTypes'
<1> USE Token!TokenAssumption, TokenInv DEF Token!TokenAssumption, TokenInv,
        Token!dhan, Token!store, Token!history, Token!Idle, Token!Requests, Token!Tokens,
        Token!NoToken, Known,
        TokenTypes, TokensInHand
<1>1. CASE \E works \in BOOLEAN : Token!Paste(works)
  BY <1>1 DEF Token!Paste, Token!Save, Token!Persisted
<1>2. CASE Token!Connected
  <2>1. reading' \in [at : Token!Requests \cup {"idle", "save", "accepted"}, token : Known]
    <3>1. CASE reading = Token!Idle
      BY <1>2, <3>1 DEF Token!Connected, Token!Started, Token!Goes
    <3>2. CASE reading # Token!Idle
      BY <1>2, <3>2 DEF Token!Connected
    <3> QED
      BY <3>1, <3>2
  <2> QED
    BY <1>2, <2>1 DEF Token!Connected
<1>3. CASE Token!SyncNow
  BY <1>3 DEF Token!SyncNow, Token!Started, Token!Goes
<1>4. CASE Token!AutoSync
  BY <1>4 DEF Token!AutoSync, Token!Due, Token!Started, Token!Goes
<1>5. CASE Token!Send
  BY <1>5 DEF Token!Send
<1>6. CASE Token!Refused
  BY <1>6 DEF Token!Refused, Token!Asked, Token!Accepted
<1>7. CASE Token!Fails
  BY <1>7 DEF Token!Fails, Token!Asked
<1>8. CASE Token!Account
  BY <1>8 DEF Token!Account, Token!Asked, Token!Accepted, Token!Goes
<1>9. CASE Token!Renew
  <2>1. /\ handed < MaxTokens /\ handed' = handed + 1 /\ handed' \in Token!Tokens
        /\ reading' = [at |-> "save", token |-> handed']
        /\ UNCHANGED <<current, env, needsToken, connecting, date, lastSync, pasted,
                       overlapped, retried>>
    BY <1>9 DEF Token!Renew
  <2>2. accepts' \in [Token!Tokens -> {"good", "expiring", "bad"}]
    BY <1>9, <2>1 DEF Token!Renew, Token!Asked, Token!Accepted
  <2>3. root' \in [Token!Tokens -> 0 .. MaxTokens]
    BY <1>9, <2>1 DEF Token!Renew, Token!Asked
  <2> QED
    BY <2>1, <2>2, <2>3
<1>10. CASE Token!SaveRenewed
  BY <1>10 DEF Token!SaveRenewed, Token!Save, Token!Persisted, Token!Goes
<1>11. CASE Token!TokenAccepted
  BY <1>11 DEF Token!TokenAccepted, Token!Goes
<1>12. CASE Token!Synced
  BY <1>12 DEF Token!Synced, Token!Asked, Token!Accepted
<1>13. CASE \E t \in Token!Tokens : Token!Expires(t)
  BY <1>13 DEF Token!Expires
<1>14. CASE Token!NextDay
  BY <1>14 DEF Token!NextDay
<1>15. CASE Token!Restart
  <2>1. reading' \in [at : Token!Requests \cup {"idle", "save", "accepted"}, token : Known]
    BY <1>15 DEF Token!Restart
  <2> QED
    BY <1>15, <2>1 DEF Token!Restart
<1>16. CASE UNCHANGED tokenState
  BY <1>16 DEF tokenState, Token!vars, Token!dhan, Token!store, Token!history
<1> QED
  BY <1>1, <1>2, <1>3, <1>4, <1>5, <1>6, <1>7, <1>8, <1>9, <1>10, <1>11, <1>12, <1>13, <1>14, <1>15,
     <1>16 DEF Token!Next, Token!SyncSteps

\* A token expires but never comes back, and a new one was never refused.
LEMMA RefusalsStay ==
    ASSUME Token!TokenAssumption, TokenInv, [Token!Next]_tokenState
    PROVE  RefusedForGood'
<1> USE Token!TokenAssumption, TokenInv DEF Token!TokenAssumption, TokenInv,
        Token!dhan, Token!store, Token!history, Token!Idle, Token!Requests, Token!Tokens,
        Token!NoToken, Known,
        TokenTypes, TokensInHand, RefusedForGood
<1>1. CASE \E works \in BOOLEAN : Token!Paste(works)
  BY <1>1 DEF Token!Paste, Token!Save, Token!Persisted
<1>2. CASE Token!Connected
  BY <1>2 DEF Token!Connected, Token!Started, Token!Goes
<1>3. CASE Token!SyncNow
  BY <1>3 DEF Token!SyncNow, Token!Started, Token!Goes
<1>4. CASE Token!AutoSync
  BY <1>4 DEF Token!AutoSync, Token!Due, Token!Started, Token!Goes
<1>5. CASE Token!Send
  BY <1>5 DEF Token!Send
<1>6. CASE Token!Refused
  <2>1. reading.token # Token!NoToken /\ accepts[reading.token] = "bad"
    BY <1>6 DEF Token!Refused, Token!Asked, Token!Accepted
  <2>2. reading.token \in {t \in Token!Tokens : t <= handed /\ accepts[t] = "bad"}
    BY <2>1
  <2> QED
    BY <1>6, <2>2 DEF Token!Refused
<1>7. CASE Token!Fails
  BY <1>7 DEF Token!Fails, Token!Asked
<1>8. CASE Token!Account
  BY <1>8 DEF Token!Account, Token!Asked, Token!Accepted, Token!Goes
<1>9. CASE Token!Renew
  BY <1>9 DEF Token!Renew, Token!Asked, Token!Accepted
<1>10. CASE Token!SaveRenewed
  BY <1>10 DEF Token!SaveRenewed, Token!Save, Token!Persisted, Token!Goes
<1>11. CASE Token!TokenAccepted
  BY <1>11 DEF Token!TokenAccepted, Token!Goes
<1>12. CASE Token!Synced
  BY <1>12 DEF Token!Synced, Token!Asked, Token!Accepted
<1>13. CASE \E t \in Token!Tokens : Token!Expires(t)
  BY <1>13 DEF Token!Expires
<1>14. CASE Token!NextDay
  BY <1>14 DEF Token!NextDay
<1>15. CASE Token!Restart
  BY <1>15 DEF Token!Restart
<1>16. CASE UNCHANGED tokenState
  BY <1>16 DEF tokenState, Token!vars, Token!dhan, Token!store, Token!history
<1> QED
  BY <1>1, <1>2, <1>3, <1>4, <1>5, <1>6, <1>7, <1>8, <1>9, <1>10, <1>11, <1>12, <1>13, <1>14, <1>15,
     <1>16 DEF Token!Next, Token!SyncSteps

\* A step of the sync takes its token along or gives it back.
LEMMA HandsStay ==
    ASSUME Token!TokenAssumption, TokenInv, [Token!Next]_tokenState
    PROVE  TokensInHand'
<1> USE Token!TokenAssumption, TokenInv DEF Token!TokenAssumption, TokenInv,
        Token!dhan, Token!store, Token!history, Token!Idle, Token!Requests, Token!Tokens,
        Token!NoToken, Known,
        TokenTypes, TokensInHand, RefusedForGood
<1>1. CASE \E works \in BOOLEAN : Token!Paste(works)
  BY <1>1 DEF Token!Paste, Token!Save, Token!Persisted
<1>2. CASE Token!Connected
  BY <1>2 DEF Token!Connected, Token!Started, Token!Goes
<1>3. CASE Token!SyncNow
  BY <1>3 DEF Token!SyncNow, Token!Started, Token!Goes
<1>4. CASE Token!AutoSync
  BY <1>4 DEF Token!AutoSync, Token!Due, Token!Started, Token!Goes
<1>5. CASE Token!Send
  BY <1>5 DEF Token!Send
<1>6. CASE Token!Refused
  BY <1>6 DEF Token!Refused, Token!Asked, Token!Accepted
<1>7. CASE Token!Fails
  BY <1>7 DEF Token!Fails, Token!Asked
<1>8. CASE Token!Account
  BY <1>8 DEF Token!Account, Token!Asked, Token!Accepted, Token!Goes
<1>9. CASE Token!Renew
  BY <1>9 DEF Token!Renew, Token!Asked, Token!Accepted
<1>10. CASE Token!SaveRenewed
  BY <1>10 DEF Token!SaveRenewed, Token!Save, Token!Persisted, Token!Goes
<1>11. CASE Token!TokenAccepted
  BY <1>11 DEF Token!TokenAccepted, Token!Goes
<1>12. CASE Token!Synced
  BY <1>12 DEF Token!Synced, Token!Asked, Token!Accepted
<1>13. CASE \E t \in Token!Tokens : Token!Expires(t)
  BY <1>13 DEF Token!Expires
<1>14. CASE Token!NextDay
  BY <1>14 DEF Token!NextDay
<1>15. CASE Token!Restart
  BY <1>15 DEF Token!Restart
<1>16. CASE UNCHANGED tokenState
  BY <1>16 DEF tokenState, Token!vars, Token!dhan, Token!store, Token!history
<1> QED
  BY <1>1, <1>2, <1>3, <1>4, <1>5, <1>6, <1>7, <1>8, <1>9, <1>10, <1>11, <1>12, <1>13, <1>14, <1>15,
     <1>16 DEF Token!Next, Token!SyncSteps

\* A renewal, its save and a restart stay with the pasted token; a paste
\* finds no sync to disagree with.
LEMMA LineStays ==
    ASSUME Token!TokenAssumption, TokenInv, [Token!Next]_tokenState
    PROVE  ~overlapped' => OneLine'
<1> USE Token!TokenAssumption, TokenInv DEF Token!TokenAssumption, TokenInv,
        Token!dhan, Token!store, Token!history, Token!Idle, Token!Requests, Token!Tokens,
        Token!NoToken, Known,
        TokenTypes, TokensInHand, OneLine
<1>1. CASE \E works \in BOOLEAN : Token!Paste(works)
  <2>1. PICK works \in BOOLEAN : Token!Paste(works)
    BY <1>1
  <2>2. /\ handed < MaxTokens /\ handed' = handed + 1 /\ current' = handed'
        /\ pasted' = handed' /\ reading' = reading
        /\ overlapped' = (overlapped \/ reading # Token!Idle)
        /\ root' = [root EXCEPT ![handed'] = handed']
    BY <2>1 DEF Token!Paste, Token!Save
  <2>3. ~overlapped' => ~overlapped /\ reading = Token!Idle
    BY <2>2
  <2>4. root'[current'] = pasted'
    BY <2>2
  <2> QED
    BY <2>2, <2>3, <2>4
<1>2. CASE Token!Connected
  BY <1>2 DEF Token!Connected, Token!Started, Token!Goes
<1>3. CASE Token!SyncNow
  BY <1>3 DEF Token!SyncNow, Token!Started, Token!Goes
<1>4. CASE Token!AutoSync
  BY <1>4 DEF Token!AutoSync, Token!Due, Token!Started, Token!Goes
<1>5. CASE Token!Send
  BY <1>5 DEF Token!Send
<1>6. CASE Token!Refused
  BY <1>6 DEF Token!Refused, Token!Asked, Token!Accepted
<1>7. CASE Token!Fails
  BY <1>7 DEF Token!Fails, Token!Asked
<1>8. CASE Token!Account
  BY <1>8 DEF Token!Account, Token!Asked, Token!Accepted, Token!Goes
<1>9. CASE Token!Renew
  BY <1>9 DEF Token!Renew, Token!Asked, Token!Accepted
<1>10. CASE Token!SaveRenewed
  BY <1>10 DEF Token!SaveRenewed, Token!Save, Token!Persisted, Token!Goes
<1>11. CASE Token!TokenAccepted
  BY <1>11 DEF Token!TokenAccepted, Token!Goes
<1>12. CASE Token!Synced
  BY <1>12 DEF Token!Synced, Token!Asked, Token!Accepted
<1>13. CASE \E t \in Token!Tokens : Token!Expires(t)
  BY <1>13 DEF Token!Expires
<1>14. CASE Token!NextDay
  BY <1>14 DEF Token!NextDay
<1>15. CASE Token!Restart
  BY <1>15 DEF Token!Restart
<1>16. CASE UNCHANGED tokenState
  BY <1>16 DEF tokenState, Token!vars, Token!dhan, Token!store, Token!history
<1> QED
  BY <1>1, <1>2, <1>3, <1>4, <1>5, <1>6, <1>7, <1>8, <1>9, <1>10, <1>11, <1>12, <1>13, <1>14, <1>15,
     <1>16 DEF Token!Next, Token!SyncSteps

\* The user is asked with the refusal and not asked with the acceptance; a
\* sync that starts by itself finds a token that was not refused.
LEMMA RefusalStays ==
    ASSUME Token!TokenAssumption, TokenInv, [Token!Next]_tokenState
    PROVE  ~overlapped' => NotRefused' /\ ~retried'
<1> USE Token!TokenAssumption, TokenInv DEF Token!TokenAssumption, TokenInv,
        Token!dhan, Token!store, Token!history, Token!Idle, Token!Requests, Token!Tokens,
        Token!NoToken, Known,
        TokenTypes, TokensInHand, RefusedForGood, OneLine,
        NotRefused
<1>1. CASE \E works \in BOOLEAN : Token!Paste(works)
  BY <1>1 DEF Token!Paste, Token!Save, Token!Persisted
<1>2. CASE Token!Connected
  BY <1>2 DEF Token!Connected, Token!Started, Token!Goes
<1>3. CASE Token!SyncNow
  BY <1>3 DEF Token!SyncNow, Token!Started, Token!Goes
<1>4. CASE Token!AutoSync
  BY <1>4 DEF Token!AutoSync, Token!Due, Token!Started, Token!Goes
<1>5. CASE Token!Send
  BY <1>5 DEF Token!Send
<1>6. CASE Token!Refused
  BY <1>6 DEF Token!Refused, Token!Asked, Token!Accepted
<1>7. CASE Token!Fails
  BY <1>7 DEF Token!Fails, Token!Asked
<1>8. CASE Token!Account
  BY <1>8 DEF Token!Account, Token!Asked, Token!Accepted, Token!Goes
<1>9. CASE Token!Renew
  BY <1>9 DEF Token!Renew, Token!Asked, Token!Accepted
<1>10. CASE Token!SaveRenewed
  BY <1>10 DEF Token!SaveRenewed, Token!Save, Token!Persisted, Token!Goes
<1>11. CASE Token!TokenAccepted
  BY <1>11 DEF Token!TokenAccepted, Token!Goes
<1>12. CASE Token!Synced
  BY <1>12 DEF Token!Synced, Token!Asked, Token!Accepted
<1>13. CASE \E t \in Token!Tokens : Token!Expires(t)
  BY <1>13 DEF Token!Expires
<1>14. CASE Token!NextDay
  BY <1>14 DEF Token!NextDay
<1>15. CASE Token!Restart
  BY <1>15 DEF Token!Restart
<1>16. CASE UNCHANGED tokenState
  BY <1>16 DEF tokenState, Token!vars, Token!dhan, Token!store, Token!history
<1> QED
  BY <1>1, <1>2, <1>3, <1>4, <1>5, <1>6, <1>7, <1>8, <1>9, <1>10, <1>11, <1>12, <1>13, <1>14, <1>15,
     <1>16 DEF Token!Next, Token!SyncSteps

\* The invariant holds from the start of the installation on.
THEOREM TokenInvariant == ASSUME Token!TokenAssumption PROVE Token!Spec => []TokenInv
<1>1. ASSUME Token!Init PROVE TokenInv
  <2> USE <1>1, Token!TokenAssumption DEF Token!TokenAssumption, Token!Init, Token!Idle,
          Token!Requests, Token!Tokens, Token!NoToken, Known
  <2>1. /\ accepts \in [Token!Tokens -> {"good", "expiring", "bad"}]
        /\ root \in [Token!Tokens -> 0 .. MaxTokens]
    OBVIOUS
  <2>2. /\ reading \in [at : Token!Requests \cup {"idle", "save", "accepted"}, token : Known]
        /\ reading.at = "idle" /\ reading.token = 0
    OBVIOUS
  <2>3. /\ handed \in 0 .. MaxTokens
        /\ {current, pasted} \subseteq Known /\ env = current
        /\ {date, lastSync} \subseteq Int /\ lastSync <= date
    OBVIOUS
  <2>4. {needsToken, connecting, overlapped, retried} \subseteq BOOLEAN
    OBVIOUS
  <2>5. TokenTypes
    BY <2>1, <2>2, <2>3, <2>4 DEF TokenTypes
  <2> QED
    BY <2>2, <2>5 DEF TokenInv, RefusedForGood, TokensInHand, OneLine, NotRefused
<1>2. TokenInv /\ [Token!Next]_tokenState => TokenInv'
  BY Token!TokenAssumption, TokenTypesStay, RefusalsStay, HandsStay, LineStays, RefusalStays
  DEF TokenInv
<1> QED
  BY <1>1, <1>2, PTL DEF Token!Spec, tokenState

\* The pasted token, or one renewed from it, is the one that is stored, over
\* renewals and restarts; no sync starts by itself with a token that this
\* process was refused; and the user is asked for one only after a refusal of
\* the one there is (DhanSyncService, BrokerCredentials): whatever the number
\* of tokens and days, unless one is pasted while a sync runs.
THEOREM TokenAlwaysSound ==
  ASSUME Token!TokenAssumption
  PROVE  Token!Spec => []TokenSound
<1>1. TokenInv => TokenSound
  BY Token!TokenAssumption DEF Token!TokenAssumption, TokenInv, TokenTypes, TokensInHand, OneLine,
     NotRefused, TokenSound, Token!TokenSound, Token!TypeOK, Token!PastedKept,
     Token!NeverRejected, Token!AskedRightly, Token!Requests,
     Token!Tokens, Token!NoToken, Known
<1> QED
  BY <1>1, TokenInvariant, PTL

-----------------------------------------------------------------------------
(* The calendar.  A walk has passed every day after the one it is on; what  *)
(* was open at its start stays open, and nothing becomes so afterwards.     *)

Timings == {Calendar!Closed, Calendar!Regular, Calendar!Special}
WalkRecord == [at : {"look", "end"}, today : Calendar!Days, now : Calendar!Times,
               on : 0 .. CalendarDays, left : 0 .. Lookback, guessed : BOOLEAN]

CalendarTypes ==
    /\ now \in Calendar!Days /\ time \in Calendar!Times
    /\ exchange \in [Calendar!Days -> Timings]
    /\ timings \in [Calendar!Days -> Timings \cup {Calendar!Unknown}]
    /\ walk \in [Calendar!Threads -> {Calendar!Rests} \cup WalkRecord]
    /\ found \in [Calendar!Threads -> 0 .. now]

\* Only a day that is over is stored as closed, so that no announcement comes after.
ClosedIsOver ==
    \A d \in Calendar!Days :
       timings[d] # Calendar!Unknown =>
          timings[d] = exchange[d] /\ (timings[d] = Calendar!Closed => d < now)

\* The session of day d had opened, or its files were out, when t's walk began.
Opened(t, d) ==
    /\ exchange[d].trading /\ d > walk[t].today - Lookback
    /\ Calendar!Moment(d, IF t = "published" THEN 3 ELSE exchange[d].opens)
          <= Calendar!Moment(walk[t].today, walk[t].now)

WalkHonest(t) ==
    LET w == walk[t] IN
    w # Calendar!Rests =>
       /\ w.on = w.today - (Lookback - w.left)
       /\ Calendar!Moment(w.today, w.now) <= Calendar!Moment(now, time)
       /\ w.at = "look" => w.left > 0 /\ w.on > 0 /\ found[t] = Calendar!NoDay
       /\ ~w.guessed => \A d \in Calendar!Days : Opened(t, d) => d <= w.on
       /\ w.at = "end" /\ ~w.guessed =>
             \/ found[t] = Calendar!NoDay /\ (w.left = 0 \/ w.on = 0)
             \/ found[t] = w.on /\ w.on \in Calendar!Days /\ Opened(t, w.on)

CalendarInv ==
    /\ CalendarTypes /\ ClosedIsOver
    /\ \A t \in Calendar!Threads : WalkHonest(t)

\* What a walk looks at goes for the exchange's timings, or is guessed.
LEMMA WalkGoesOn ==
    ASSUME Calendar!CalendarAssumption, CalendarInv,
           NEW t \in Calendar!Threads, NEW session \in Timings, NEW guess \in BOOLEAN,
           walk[t].at = "look", Calendar!GoesOn(t, session, guess),
           UNCHANGED <<now, time, exchange>>,
           guess \/ (Calendar!Passed(t, walk[t].on, session, walk[t].today, walk[t].now)
                        <=> Opened(t, walk[t].on))
    PROVE  /\ walk' \in [Calendar!Threads -> {Calendar!Rests} \cup WalkRecord]
           /\ found' \in [Calendar!Threads -> 0 .. now']
           /\ \A u \in Calendar!Threads : WalkHonest(u)'
<1> DEFINE w == walk[t]
           Following(at, on, left) == [at |-> at, today |-> w.today, now |-> w.now, on |-> on,
                                       left |-> left, guessed |-> w.guessed \/ guess]
           passed == Calendar!Passed(t, w.on, session, w.today, w.now)
           step == IF passed THEN Following("end", w.on, w.left)
                   ELSE Following(IF w.left = 1 \/ w.on = 1 THEN "end" ELSE "look",
                                  w.on - 1, w.left - 1)
<1>1. /\ w \in WalkRecord /\ w # Calendar!Rests
      /\ walk \in [Calendar!Threads -> {Calendar!Rests} \cup WalkRecord]
      /\ found \in [Calendar!Threads -> 0 .. now] /\ now \in Calendar!Days
  BY DEF CalendarInv, CalendarTypes, Calendar!Rests, WalkRecord
<1>2. /\ w.on \in 1 .. CalendarDays /\ w.left \in 1 .. Lookback
      /\ w.today \in Calendar!Days /\ w.now \in Calendar!Times /\ w.guessed \in BOOLEAN
      /\ found[t] = Calendar!NoDay /\ w.on = w.today - (Lookback - w.left)
      /\ Calendar!Moment(w.today, w.now) <= Calendar!Moment(now, time)
      /\ ~w.guessed => \A d \in Calendar!Days : Opened(t, d) => d <= w.on
  BY <1>1 DEF CalendarInv, WalkHonest, WalkRecord
<1>3. step \in WalkRecord /\ step # Calendar!Rests
  BY <1>1, <1>2 DEF WalkRecord, Calendar!Rests, Calendar!CalendarAssumption
<1>4. walk' = [walk EXCEPT ![t] = step]
  BY DEF Calendar!GoesOn
<1>5. found' = IF passed THEN [found EXCEPT ![t] = w.on] ELSE found
  BY DEF Calendar!GoesOn
<1>6. w.on <= now
  BY <1>1, <1>2, SMTT(30) DEF Calendar!Moment, Calendar!Days, Calendar!Times,
     Calendar!CalendarAssumption, CalendarInv, CalendarTypes
<1>7. walk' \in [Calendar!Threads -> {Calendar!Rests} \cup WalkRecord]
      /\ found' \in [Calendar!Threads -> 0 .. now']
  <2> HIDE DEF step, w, passed
  <2> QED
    BY <1>1, <1>2, <1>3, <1>4, <1>5, <1>6 DEF Calendar!Days
<1>8. ASSUME NEW u \in Calendar!Threads, u # t PROVE WalkHonest(u)'
  <2>1. walk'[u] = walk[u] /\ found'[u] = found[u]
    <3> HIDE DEF step, w, passed
    <3> QED
      BY <1>1, <1>4, <1>5, <1>8
  <2>2. WalkHonest(u)
    BY DEF CalendarInv
  <2> QED
    BY <2>1, <2>2 DEF WalkHonest, Opened
<1>9. WalkHonest(t)'
  <2>1. walk'[t] = step
    <3> HIDE DEF step
    <3> QED
      BY <1>1, <1>4
  <2>2. \A d \in Calendar!Days : Opened(t, d)' <=> Opened(t, d)
    BY <2>1 DEF Opened
  <2>3. CASE passed
    <3>1. step = Following("end", w.on, w.left) /\ found'[t] = w.on
      BY <1>1, <1>5, <2>3
    <3> QED
      BY <1>2, <1>3, <2>1, <2>2, <2>3, <3>1 DEF WalkHonest, Calendar!Days
  <2>4. CASE ~passed
    <3>1. step = Following(IF w.left = 1 \/ w.on = 1 THEN "end" ELSE "look", w.on - 1, w.left - 1)
          /\ found'[t] = Calendar!NoDay
      BY <1>2, <1>5, <2>4
    <3>2. ~step.guessed => \A d \in Calendar!Days : Opened(t, d) => d <= w.on - 1
      BY <1>2, <2>4, <3>1 DEF Calendar!Days
    <3>3. /\ step.today = w.today /\ step.now = w.now
          /\ step.on = w.on - 1 /\ step.left = w.left - 1
          /\ step.at = IF step.left = 0 \/ step.on = 0 THEN "end" ELSE "look"
      BY <1>2, <3>1
    <3>4. step.on = step.today - (Lookback - step.left) /\ step.left >= 0 /\ step.on >= 0
      BY <1>2, <3>3, Calendar!CalendarAssumption DEF Calendar!CalendarAssumption, Calendar!Days
    <3> HIDE DEF step
    <3> QED
      BY <1>2, <1>3, <2>1, <2>2, <3>1, <3>2, <3>3, <3>4 DEF WalkHonest
  <2> QED
    BY <2>3, <2>4
<1> QED
  BY <1>7, <1>8, <1>9

\* A session that is looked up is taken exactly when it had opened.
LEMMA TakenWhenOpened ==
    ASSUME Calendar!CalendarAssumption, CalendarInv, NEW t \in Calendar!Threads,
           Calendar!Looking(t)
    PROVE  LET w == walk[t] IN
           Calendar!Passed(t, w.on, exchange[w.on], w.today, w.now) <=> Opened(t, w.on)
<1> DEFINE w == walk[t]
<1>1. /\ w \in WalkRecord /\ w.on \in Calendar!Days /\ w.left > 0
      /\ w.on = w.today - (Lookback - w.left) /\ w.left <= Lookback
  BY DEF CalendarInv, CalendarTypes, WalkHonest, WalkRecord, Calendar!Looking, Calendar!Rests,
     Calendar!Days
<1>2. exchange[w.on] \in Timings /\ w.today \in Nat /\ w.now \in 0 .. 3 /\ w.on \in Nat
  BY <1>1 DEF CalendarInv, CalendarTypes, WalkRecord, Calendar!Times, Calendar!Days
<1>3. t = "published" => w.on # w.today \/ w.now = 3
  BY <1>2 DEF Calendar!Looking, Calendar!NotYet
<1>4. w.on <= w.today /\ w.on > w.today - Lookback
  BY <1>1, <1>2, Calendar!CalendarAssumption DEF Calendar!CalendarAssumption, WalkRecord
<1> HIDE DEF w
<1> QED
  BY <1>2, <1>3, <1>4 DEF Calendar!Passed, Opened, Calendar!Moment, Timings, Calendar!Closed,
     Calendar!Regular, Calendar!Special, w

\* Every step of the two threads, the clock and the exchange.
LEMMA CalendarStep ==
    ASSUME Calendar!CalendarAssumption, CalendarInv, [Calendar!Next]_calendarState
    PROVE  CalendarInv'
<1> USE Calendar!CalendarAssumption DEF Calendar!CalendarAssumption
<1>1. CalendarTypes /\ ClosedIsOver /\ \A t \in Calendar!Threads : WalkHonest(t)
  BY DEF CalendarInv
<1>2. ASSUME NEW t \in Calendar!Threads, Calendar!Begin(t) PROVE CalendarInv'
  <2> DEFINE begun == [at |-> "look", today |-> now, now |-> time, on |-> now, left |-> Lookback,
                       guessed |-> FALSE]
  <2>1. begun \in WalkRecord /\ begun # Calendar!Rests
    BY <1>1 DEF CalendarTypes, WalkRecord, Calendar!Days, Calendar!Rests
  <2>2. /\ walk' = [walk EXCEPT ![t] = begun] /\ found' = [found EXCEPT ![t] = Calendar!NoDay]
        /\ UNCHANGED <<now, time, exchange, timings>>
    BY <1>2 DEF Calendar!Begin
  <2>3. walk'[t] = begun /\ found'[t] = Calendar!NoDay
    BY <1>1, <2>2 DEF CalendarTypes
  <2>4. \A u \in Calendar!Threads \ {t} : walk'[u] = walk[u] /\ found'[u] = found[u]
    BY <1>1, <2>2 DEF CalendarTypes
  <2>5. \A d \in Calendar!Days : Opened(t, d)' => d <= now
    <3> SUFFICES ASSUME NEW d \in Calendar!Days, Opened(t, d)' PROVE d <= now
      OBVIOUS
    <3>1. exchange[d] \in Timings /\ exchange[d].trading
      BY <1>1, <2>2 DEF CalendarTypes, Opened
    <3>2. exchange[d].opens \in {1, 2}
      BY <3>1 DEF Timings, Calendar!Closed, Calendar!Regular, Calendar!Special
    <3>3. begun.today = now /\ begun.now = time
      OBVIOUS
    <3> HIDE DEF begun
    <3> QED
      BY <1>1, <2>2, <2>3, <3>2, <3>3, SMTT(30) DEF Opened, Calendar!Moment, CalendarTypes,
         Calendar!Days, Calendar!Times
  <2>6. WalkHonest(t)'
    BY <1>1, <2>2, <2>3, <2>5 DEF WalkHonest, CalendarTypes, Calendar!Days, Calendar!Times,
       Calendar!Moment
  <2>7. \A u \in Calendar!Threads \ {t} : WalkHonest(u)'
    BY <1>1, <2>2, <2>4 DEF WalkHonest, Opened
  <2>8. CalendarTypes' /\ ClosedIsOver'
    <3> HIDE DEF begun
    <3> QED
      BY <1>1, <2>1, <2>2 DEF CalendarTypes, ClosedIsOver, Calendar!NoDay, Calendar!Days
  <2> QED
    BY <2>6, <2>7, <2>8 DEF CalendarInv
<1>3. ASSUME NEW t \in Calendar!Threads, Calendar!PassBy(t) PROVE CalendarInv'
  <2>1. walk[t].at = "look" /\ walk[t].on = walk[t].today /\ walk[t].now < 3 /\ t = "published"
        /\ UNCHANGED <<now, time, exchange, timings>>
        /\ Calendar!GoesOn(t, Calendar!Closed, FALSE)
    BY <1>3 DEF Calendar!PassBy, Calendar!NotYet
  <2>2. walk[t] \in WalkRecord
    BY <1>1, <2>1 DEF CalendarTypes, Calendar!Rests
  <2>3. ~Opened(t, walk[t].on)
    BY <2>1, <2>2 DEF Opened, Calendar!Moment, WalkRecord, Calendar!Days, Calendar!Times
  <2>4. ~Calendar!Passed(t, walk[t].on, Calendar!Closed, walk[t].today, walk[t].now)
    BY DEF Calendar!Passed, Calendar!Closed
  <2>5. Calendar!Closed \in Timings /\ FALSE \in BOOLEAN
    BY DEF Timings
  <2> QED
    BY <1>1, <2>1, <2>3, <2>4, <2>5, WalkGoesOn DEF CalendarInv, CalendarTypes, ClosedIsOver
<1>4. ASSUME NEW t \in Calendar!Threads, Calendar!ReadStored(t) PROVE CalendarInv'
  <2>1. Calendar!Looking(t) /\ walk[t].at = "look" /\ timings[walk[t].on] # Calendar!Unknown
        /\ UNCHANGED <<now, time, exchange, timings>>
        /\ Calendar!GoesOn(t, timings[walk[t].on], FALSE)
    BY <1>4 DEF Calendar!ReadStored, Calendar!Looking
  <2>2. walk[t].on \in Calendar!Days
    BY <1>1, <2>1 DEF CalendarTypes, WalkHonest, WalkRecord, Calendar!Rests, Calendar!Days
  <2>3. timings[walk[t].on] = exchange[walk[t].on] /\ exchange[walk[t].on] \in Timings
    BY <1>1, <2>1, <2>2 DEF ClosedIsOver, CalendarTypes
  <2> QED
    BY <1>1, <2>1, <2>3, TakenWhenOpened, WalkGoesOn DEF CalendarInv, CalendarTypes, ClosedIsOver
<1>5. ASSUME NEW t \in Calendar!Threads, Calendar!Ask(t) PROVE CalendarInv'
  <2> DEFINE d == walk[t].on
  <2>1. /\ Calendar!Looking(t) /\ walk[t].at = "look" /\ timings[d] = Calendar!Unknown
        /\ UNCHANGED <<now, time, exchange>>
        /\ Calendar!GoesOn(t, exchange[d], FALSE)
        /\ timings' = IF Calendar!Kept(d, exchange[d]) THEN [timings EXCEPT ![d] = exchange[d]]
                      ELSE timings
    BY <1>5 DEF Calendar!Ask, Calendar!Looking
  <2>2. d \in Calendar!Days /\ exchange[d] \in Timings
    BY <1>1, <2>1 DEF CalendarTypes, WalkHonest, WalkRecord, Calendar!Rests, Calendar!Days
  <2>3. ClosedIsOver' /\ timings' \in [Calendar!Days -> Timings \cup {Calendar!Unknown}]
    <3>1. Calendar!Kept(d, Calendar!Closed) => d < now
      BY DEF Calendar!Kept, Calendar!Closed
    <3>2. Calendar!Kept(d, exchange[d]) /\ exchange[d] = Calendar!Closed => d < now
      BY <3>1
    <3> HIDE DEF d
    <3> QED
      BY <1>1, <2>1, <2>2, <3>2 DEF ClosedIsOver, CalendarTypes
  <2> QED
    BY <1>1, <2>1, <2>2, <2>3, TakenWhenOpened, WalkGoesOn DEF CalendarInv, CalendarTypes
<1>6. ASSUME NEW t \in Calendar!Threads, Calendar!AskFails(t) PROVE CalendarInv'
  <2>1. /\ walk[t].at = "look" /\ UNCHANGED <<now, time, exchange, timings>>
        /\ Calendar!GoesOn(t, Calendar!Assumed(walk[t].on), TRUE)
    BY <1>6 DEF Calendar!AskFails, Calendar!Looking, Calendar!StoredAfterFailure
  <2>2. Calendar!Assumed(walk[t].on) \in Timings
    BY DEF Calendar!Assumed, Timings
  <2> QED
    BY <1>1, <2>1, <2>2, WalkGoesOn DEF CalendarInv, CalendarTypes, ClosedIsOver
<1>7. ASSUME NEW t \in Calendar!Threads, Calendar!End(t) PROVE CalendarInv'
  <2>1. walk' = [walk EXCEPT ![t] = Calendar!Rests]
        /\ UNCHANGED <<now, time, exchange, timings, found>>
    BY <1>7 DEF Calendar!End
  <2>2. \A u \in Calendar!Threads : walk'[u] = Calendar!Rests \/ walk'[u] = walk[u]
    BY <1>1, <2>1 DEF CalendarTypes
  <2>3. \A u \in Calendar!Threads : WalkHonest(u)'
    BY <1>1, <2>1, <2>2 DEF WalkHonest, Opened
  <2>4. walk' \in [Calendar!Threads -> {Calendar!Rests} \cup WalkRecord]
    BY <1>1, <2>1 DEF CalendarTypes
  <2> QED
    BY <1>1, <2>1, <2>3, <2>4 DEF CalendarInv, CalendarTypes, ClosedIsOver
<1>8. ASSUME Calendar!Tick PROVE CalendarInv'
  <2>1. /\ now' \in Calendar!Days /\ time' \in Calendar!Times /\ now <= now'
        /\ Calendar!Moment(now, time) <= Calendar!Moment(now', time')
    BY <1>1, <1>8 DEF Calendar!Tick, CalendarTypes, Calendar!Days, Calendar!Times, Calendar!Moment
  <2>2. UNCHANGED <<exchange, timings, walk, found>>
    BY <1>8 DEF Calendar!Tick
  <2>3. ClosedIsOver' /\ found' \in [Calendar!Threads -> 0 .. now']
    BY <1>1, <2>1, <2>2 DEF ClosedIsOver, CalendarTypes, Calendar!Days
  <2>4. ASSUME NEW t \in Calendar!Threads, walk[t] # Calendar!Rests
        PROVE  Calendar!Moment(walk[t].today, walk[t].now) <= Calendar!Moment(now', time')
    <3>1. /\ walk[t].today \in Nat /\ walk[t].now \in Nat
          /\ now \in Nat /\ time \in Nat /\ now' \in Nat /\ time' \in Nat
      BY <1>1, <2>1, <2>4 DEF CalendarTypes, WalkRecord, Calendar!Days, Calendar!Times
    <3>2. Calendar!Moment(walk[t].today, walk[t].now) <= Calendar!Moment(now, time)
      BY <1>1, <2>4 DEF WalkHonest
    <3> QED
      BY <2>1, <3>1, <3>2 DEF Calendar!Moment
  <2>5. \A t \in Calendar!Threads : WalkHonest(t)'
    BY <1>1, <2>2, <2>4 DEF WalkHonest, Opened
  <2> QED
    BY <1>1, <2>1, <2>2, <2>3, <2>5 DEF CalendarInv, CalendarTypes
<1>9. ASSUME NEW d \in Calendar!Days, Calendar!Announce(d) PROVE CalendarInv'
  <2>1. /\ exchange[d] = Calendar!Closed /\ exchange' = [exchange EXCEPT ![d] = Calendar!Special]
        /\ d > now \/ (d = now /\ time < 2)
        /\ UNCHANGED <<now, time, timings, walk, found>>
    BY <1>9 DEF Calendar!Announce, Calendar!Special
  <2>2. exchange'[d] = Calendar!Special /\ \A e \in Calendar!Days \ {d} : exchange'[e] = exchange[e]
    BY <1>1, <2>1 DEF CalendarTypes
  <2>3. exchange' \in [Calendar!Days -> Timings]
    BY <1>1, <2>1 DEF CalendarTypes, Timings
  <2>4. ClosedIsOver'
    <3>1. timings[d] = Calendar!Unknown
      BY <1>1, <2>1 DEF ClosedIsOver, CalendarTypes, Calendar!Days
    <3> QED
      BY <1>1, <2>1, <2>2, <3>1 DEF ClosedIsOver
  <2>5. ASSUME NEW t \in Calendar!Threads, walk[t] # Calendar!Rests, NEW e \in Calendar!Days
        PROVE  Opened(t, e)' <=> Opened(t, e)
    <3>1. CASE e # d
      BY <2>1, <2>2, <3>1 DEF Opened
    <3>2. CASE e = d
      <4>1. ~Opened(t, e)
        BY <2>1, <3>2 DEF Opened, Calendar!Closed
      <4>2. Calendar!Moment(walk[t].today, walk[t].now) <= Calendar!Moment(now, time)
            /\ walk[t].today \in Nat /\ walk[t].now \in Nat /\ now \in Nat /\ time \in 0 .. 3
        BY <1>1, <2>5, SMTT(30)
        DEF WalkHonest, CalendarTypes, WalkRecord, Calendar!Days, Calendar!Times
      <4>3. exchange'[e].opens = 2
        BY <2>2, <3>2 DEF Calendar!Special
      <4> QED
        BY <2>1, <3>2, <4>1, <4>2, <4>3 DEF Opened, Calendar!Moment, Calendar!Days
    <3> QED
      BY <3>1, <3>2
  <2>6. ASSUME NEW t \in Calendar!Threads PROVE WalkHonest(t)'
    <3>1. WalkHonest(t) /\ walk'[t] = walk[t] /\ found'[t] = found[t]
      BY <1>1, <2>1
    <3> QED
      BY <2>1, <2>5, <3>1 DEF WalkHonest
  <2> QED
    BY <1>1, <2>1, <2>3, <2>4, <2>6 DEF CalendarInv, CalendarTypes
<1>10. CASE UNCHANGED calendarState
  BY <1>1, <1>10 DEF calendarState, Calendar!vars, CalendarInv, CalendarTypes, ClosedIsOver,
     WalkHonest, Opened
<1> QED
  BY <1>2, <1>3, <1>4, <1>5, <1>6, <1>7, <1>8, <1>9, <1>10 DEF Calendar!Next

\* The invariant holds from the first day on.
THEOREM CalendarInvariant ==
  ASSUME Calendar!CalendarAssumption
  PROVE  Calendar!Spec => []CalendarInv
<1>1. ASSUME Calendar!Init PROVE CalendarInv
  <2>1. /\ now \in Calendar!Days /\ time \in Calendar!Times
        /\ exchange \in [Calendar!Days -> Timings]
    BY <1>1, Calendar!CalendarAssumption DEF Calendar!Init, Calendar!CalendarAssumption,
       Calendar!Days, Calendar!Times, Timings
  <2>2. \A t \in Calendar!Threads : walk[t] = Calendar!Rests
    BY <1>1 DEF Calendar!Init
  <2>3. \A d \in Calendar!Days : timings[d] = Calendar!Unknown
    BY <1>1 DEF Calendar!Init
  <2>4. CalendarTypes
    BY <1>1, <2>1 DEF Calendar!Init, CalendarTypes, Calendar!NoDay, Calendar!Days
  <2> QED
    BY <2>2, <2>3, <2>4 DEF CalendarInv, ClosedIsOver, WalkHonest
<1>2. CalendarInv /\ [Calendar!Next]_calendarState => CalendarInv'
  BY Calendar!CalendarAssumption, CalendarStep
<1> QED
  BY <1>1, <1>2, PTL DEF Calendar!Spec, calendarState

\* CalendarService: however special sessions are announced, answers fail and
\* midnights pass during the walks of the two threads, what is stored is the
\* exchange's answer, and a walk that guessed nothing ends at the last session
\* that had opened (or whose files were out) when it began.
THEOREM CalendarAlwaysSound ==
  ASSUME Calendar!CalendarAssumption
  PROVE  Calendar!Spec => []CalendarSound
<1>1. ASSUME CalendarInv PROVE Calendar!TypeOK /\ Calendar!StoredTrue
  BY <1>1 DEF CalendarInv, CalendarTypes, ClosedIsOver, Timings, Calendar!TypeOK,
     Calendar!StoredTrue
<1>2. ASSUME CalendarInv PROVE Calendar!LastOpened
  <2> SUFFICES ASSUME NEW t \in Calendar!Threads, walk[t].at = "end", ~walk[t].guessed
               PROVE  LET Past == {d \in Calendar!Days : Opened(t, d)} IN
                      IF Past = {} THEN found[t] = Calendar!NoDay
                      ELSE found[t] \in Past /\ \A d \in Past : d <= found[t]
    BY DEF Calendar!LastOpened, Opened
  <2>1. /\ walk[t] \in WalkRecord /\ walk[t] # Calendar!Rests /\ WalkHonest(t)
    BY <1>2 DEF CalendarInv, CalendarTypes, Calendar!Rests
  <2>2. CASE found[t] = Calendar!NoDay /\ (walk[t].left = 0 \/ walk[t].on = 0)
    <3>1. \A d \in Calendar!Days : ~Opened(t, d)
      BY <2>1, <2>2, Calendar!CalendarAssumption DEF WalkHonest, Opened, WalkRecord,
         Calendar!Days, Calendar!CalendarAssumption
    <3> QED
      BY <2>2, <3>1
  <2>3. CASE found[t] = walk[t].on /\ walk[t].on \in Calendar!Days /\ Opened(t, walk[t].on)
    BY <2>1, <2>3 DEF WalkHonest
  <2> QED
    BY <2>1, <2>2, <2>3 DEF WalkHonest
<1> QED
  BY <1>1, <1>2, CalendarInvariant, PTL DEF CalendarSound

-----------------------------------------------------------------------------
(* The database.  One process at a time knows the version it started from,  *)
(* and the number it is at says the version there is now.                   *)

OneProcess == \A p, q \in Processes : p = q

Rows == {Storage!NoRow} \cup
        {Storage!Row(s, i, p) : s \in Stops, i \in Stops, p \in Stops \cup {Storage!None}}

Books == [Ids -> Rows]

\* What SQLite reads, the file and every copy: the number says what was applied,
\* and the rows are as they were entered.
GoodFile(d) ==
    /\ d = Storage!NoDatabase \/ d.version \in 0 .. 8
    /\ d.applied \subseteq 1 .. 8 /\ d.applied \cup {1} = 1 .. d.version \cup {1}
    /\ d.book \in Books /\ d.fills \in {"none", "old", "new"} /\ d.through \in BOOLEAN
    /\ \A i \in Ids : d.book[i] # Storage!NoRow =>
          /\ d.book[i].initial = entered[i]
          /\ d.book[i].plan = IF d.version >= 7 THEN entered[i] ELSE Storage!None
    /\ d.version = 8 => d.fills # "old"

Everything == {db, file} \cup backups

\* Where the process is, and which version it has left behind.
AtMigration(p) ==
    LET w == process[p] IN
    /\ w.release \in 6 .. 8 /\ w.version \in 0 .. w.release /\ w.number \in 1 .. w.release + 1
    /\ db.version = IF w.version >= w.number THEN w.version ELSE w.number - 1

ProcessOK(p) ==
    \/ process[p] = Storage!Out
    \/ process[p].at = "migrate" /\ AtMigration(p)
    \/ /\ process[p].at = "open"
       /\ process[p].release \in 6 .. 8 /\ db.version = process[p].release
    \/ process[p].at = "copy" /\ process[p].release \in 6 .. 8

\* What was entered is in the database or a copy; in a copy, when the database is
\* about to be replaced.
Held(i, files) == \E d \in files : d.book[i] # Storage!NoRow
NothingGone ==
    ~partial => \A i \in Ids : entered[i] # Storage!None =>
       /\ Held(i, {db} \cup backups)
       /\ (\E p \in Processes : process[p].at = "copy") => Held(i, backups)

StorageInv ==
    /\ entered \in [Ids -> Stops \cup {Storage!None}] /\ {fetched, partial} \subseteq BOOLEAN
    /\ process = [p \in Processes |-> process[p]]
    /\ \A d \in Everything : GoodFile(d)
    /\ \A p \in Processes : ProcessOK(p)
    /\ fetched => db.version = 8 /\ db.fills = "new" /\ db.through
    /\ NothingGone

\* A row is none or has a stop and the one it was entered with.
LEMMA RowFields ==
    ASSUME Storage!StorageAssumption
    PROVE  /\ \A r \in Rows \ {Storage!NoRow} :
                 r.stop \in Stops /\ r.initial \in Stops /\ r.plan \in Stops \cup {Storage!None}
           /\ \A s, i \in Stops, p \in Stops \cup {Storage!None} :
                 Storage!Row(s, i, p) \in Rows \ {Storage!NoRow}
<1>1. \A s \in Stops : s # Storage!None
  BY DEF Storage!StorageAssumption, Storage!None
<1>2. Storage!NoRow.stop = Storage!None
  BY DEF Storage!NoRow, Storage!Row
<1>3. \A s, i, p : LET r == Storage!Row(s, i, p) IN r.stop = s /\ r.initial = i /\ r.plan = p
  BY DEF Storage!Row
<1> QED
  BY <1>1, <1>2, <1>3 DEF Rows

\* Which rows the three kinds of empty databases have: none.
LEMMA EmptyIsGood ==
    ASSUME Storage!StorageAssumption
    PROVE  /\ GoodFile(Storage!Legacy) /\ GoodFile(Storage!Empty) /\ GoodFile(Storage!NoDatabase)
           /\ Storage!Legacy.version = 0 /\ Storage!Empty.version = 0
           /\ Storage!NoDatabase.version = -1
           /\ \A i \in Ids : /\ Storage!Legacy.book[i] = Storage!NoRow
                              /\ Storage!Empty.book[i] = Storage!NoRow
                              /\ Storage!NoDatabase.book[i] = Storage!NoRow
<1>1. Storage!NoBook \in Books /\ \A i \in Ids : Storage!NoBook[i] = Storage!NoRow
  BY DEF Storage!NoBook, Books, Rows
<1>2. GoodFile(Storage!Legacy)
  BY <1>1 DEF GoodFile, Storage!Legacy, Storage!Database
<1>3. GoodFile(Storage!Empty)
  BY <1>1 DEF GoodFile, Storage!Empty, Storage!Database
<1>4. GoodFile(Storage!NoDatabase)
  BY <1>1 DEF GoodFile, Storage!NoDatabase, Storage!Database
<1> QED
  BY <1>1, <1>2, <1>3, <1>4
  DEF Storage!Legacy, Storage!Empty, Storage!NoDatabase, Storage!Database

\* A migration takes the database from the number before to its own, whatever
\* it does to plans and fills.
LEMMA MigratedIsGood ==
    ASSUME Storage!StorageAssumption, NEW d, GoodFile(d),
           NEW number \in 1 .. 8, d.version = number - 1
    PROVE  LET m == Storage!Migrated(d, number) IN
           /\ Storage!CanApply(d, number) /\ GoodFile(m) /\ m.version = number
           /\ \A i \in Ids : d.book[i] # Storage!NoRow => m.book[i] # Storage!NoRow
<1> DEFINE m == Storage!Migrated(d, number)
<1>1. Storage!CanApply(d, number)
  BY DEF Storage!CanApply, GoodFile
<1>2. /\ m.version = number /\ m.applied = d.applied \cup {number}
      /\ m.book = IF number = 7 THEN Storage!MigrateBook(d.book) ELSE d.book
      /\ m.fills = IF number = 8 THEN "none" ELSE d.fills
      /\ m.through = IF number = 8 THEN FALSE ELSE d.through
  <2>1. CASE number = 7
    BY <2>1 DEF Storage!Migrated, Storage!Forgets, Storage!Database
  <2>2. CASE number = 8
    <3>1. m = [version |-> 8, applied |-> d.applied \cup {8}, book |-> d.book,
               fills |-> "none", through |-> FALSE]
      BY <2>2 DEF Storage!Migrated, Storage!Forgets, Storage!Database
    <3> HIDE DEF m
    <3> QED
      BY <2>2, <3>1
  <2>3. CASE number \notin {7, 8}
    BY <2>3 DEF Storage!Migrated, Storage!Forgets, Storage!Database
  <2> QED
    BY <2>1, <2>2, <2>3
<1> HIDE DEF m
<1>3. m.applied \subseteq 1 .. 8 /\ m.applied \cup {1} = 1 .. m.version \cup {1}
  BY <1>2 DEF GoodFile
<1>4. /\ m.book \in Books
      /\ \A i \in Ids : d.book[i] # Storage!NoRow <=> m.book[i] # Storage!NoRow
      /\ \A i \in Ids : m.book[i] # Storage!NoRow =>
            /\ m.book[i].initial = entered[i]
            /\ m.book[i].plan = IF number >= 7 THEN entered[i] ELSE Storage!None
  <2>1. CASE number = 7
    <3>1. ASSUME NEW i \in Ids, d.book[i] # Storage!NoRow
          PROVE  /\ m.book[i] = Storage!Row(d.book[i].stop, d.book[i].initial, d.book[i].initial)
                 /\ m.book[i] \in Rows \ {Storage!NoRow}
                 /\ m.book[i].initial = entered[i] /\ m.book[i].plan = entered[i]
      <4>1. m.book[i] = Storage!Row(d.book[i].stop, d.book[i].initial, d.book[i].initial)
        BY <1>2, <2>1, <3>1 DEF Storage!MigrateBook, Storage!Plan
      <4>2. d.book[i] \in Rows \ {Storage!NoRow} /\ d.book[i].initial = entered[i]
        BY <3>1 DEF GoodFile, Books
      <4>3. m.book[i] \in Rows \ {Storage!NoRow}
        BY <4>1, <4>2, RowFields
      <4> QED
        BY <4>1, <4>2, <4>3 DEF Storage!Row
    <3>2. ASSUME NEW i \in Ids, d.book[i] = Storage!NoRow PROVE m.book[i] = Storage!NoRow
      BY <1>2, <2>1, <3>2 DEF Storage!MigrateBook
    <3>3. m.book = [i \in Ids |-> m.book[i]]
      BY <1>2, <2>1 DEF Storage!MigrateBook
    <3>4. m.book \in Books
      BY <3>1, <3>2, <3>3 DEF Books, Rows
    <3> QED
      BY <2>1, <3>1, <3>2, <3>4
  <2>2. CASE number # 7
    BY <1>2, <2>2 DEF GoodFile
  <2> QED
    BY <2>1, <2>2
<1>5. GoodFile(m)
  <2>1. m.version \in 0 .. 8 /\ (m.version >= 7 <=> number >= 7)
    BY <1>2
  <2>2. m.fills \in {"none", "old", "new"} /\ (m.version = 8 => m.fills # "old")
    BY <1>2 DEF GoodFile
  <2>3. m.through \in BOOLEAN
    BY <1>2 DEF GoodFile
  <2> QED
    BY <1>3, <1>4, <2>1, <2>2, <2>3 DEF GoodFile
<1> QED
  BY <1>1, <1>2, <1>4, <1>5 DEF m

\* The one process goes to its next step; the rest follows from what it does to
\* the files.
LEMMA ProcessMoves ==
    ASSUME StorageInv, OneProcess, NEW p \in Processes, NEW w,
           process' = [process EXCEPT ![p] = w]
    PROVE  /\ process' = [q \in Processes |-> process'[q]] /\ process'[p] = w
           /\ \A q \in Processes : q = p
  BY DEF StorageInv, OneProcess

\* The process opens the database that it finds or makes.
LEMMA OpensKeeps ==
    ASSUME Storage!StorageAssumption, StorageInv, OneProcess, NEW p \in Processes,
           NEW r \in 6 .. 8, GoodFile(db'), db'.version \in 0 .. 8,
           Storage!Opens(p, r, db')
    PROVE  /\ process' = [q \in Processes |-> process'[q]]
           /\ \A q \in Processes : ProcessOK(q)' /\ process'[q].at \in {"out", "migrate"}
<1> DEFINE w == [at |-> "migrate", release |-> r, version |-> db'.version, number |-> 1]
<1>1. CASE db'.version > r
  <2>1. process' = [process EXCEPT ![p] = Storage!Out]
    BY <1>1 DEF Storage!Opens, Storage!TooNew, Storage!Ends
  <2> QED
    BY <2>1, ProcessMoves DEF ProcessOK, Storage!Out
<1>2. CASE ~(db'.version > r)
  <2>1. process' = [process EXCEPT ![p] = w]
    BY <1>2 DEF Storage!Opens, Storage!TooNew, Storage!Migrates
  <2>2. /\ w.at = "migrate" /\ w.release = r /\ w.version = db'.version /\ w.number = 1
    OBVIOUS
  <2>3. /\ process' = [q \in Processes |-> process'[q]] /\ process'[p] = w
        /\ \A q \in Processes : q = p
    BY <2>1, ProcessMoves
  <2> HIDE DEF w
  <2>4. AtMigration(p)'
    BY <1>2, <2>2, <2>3 DEF AtMigration
  <2> QED
    BY <2>2, <2>3, <2>4 DEF ProcessOK
<1> QED
  BY <1>1, <1>2

\* A migration, or the next number when this one is done.
LEMMA ApplyKeeps ==
    ASSUME Storage!StorageAssumption, StorageInv, OneProcess, NEW p \in Processes,
           Storage!Apply(p)
    PROVE  StorageInv'
<1> DEFINE w == process[p]
           next == [at |-> "migrate", release |-> w.release, version |-> w.version,
                    number |-> w.number + 1]
<1>1. /\ w.at = "migrate" /\ AtMigration(p) /\ w.number <= w.release /\ GoodFile(db)
      /\ UNCHANGED <<file, backups, entered, fetched, partial>>
  BY DEF Storage!Apply, Storage!At, Storage!history, StorageInv, ProcessOK, Storage!Out, Everything
<1>2. /\ w.release \in 6 .. 8 /\ w.version \in 0 .. w.release /\ w.number \in 1 .. w.release
      /\ db.version = IF w.version >= w.number THEN w.version ELSE w.number - 1
  BY <1>1 DEF AtMigration
<1>3. next.at = "migrate" /\ next.release = w.release /\ next.version = w.version
      /\ next.number = w.number + 1
  OBVIOUS
<1>4. ASSUME process' = [process EXCEPT ![p] = next],
             db'.version = IF w.version >= w.number THEN w.version ELSE w.number
      PROVE  /\ process' = [q \in Processes |-> process'[q]]
             /\ \A q \in Processes : ProcessOK(q)' /\ process'[q].at = "migrate"
  <2>1. /\ process' = [q \in Processes |-> process'[q]] /\ process'[p] = next
        /\ \A q \in Processes : q = p
    BY <1>4, ProcessMoves
  <2> HIDE DEF w, next
  <2>2. AtMigration(p)'
    BY <1>2, <1>3, <1>4, <2>1 DEF AtMigration
  <2> QED
    BY <1>3, <2>1, <2>2 DEF ProcessOK
<1>5. CASE Storage!Skipped(w.number, w.version)
  <2>1. process' = [process EXCEPT ![p] = next] /\ db' = db
    BY <1>5 DEF Storage!Apply, Storage!Migrates
  <2>2. db'.version = IF w.version >= w.number THEN w.version ELSE w.number
    BY <1>2, <1>5, <2>1 DEF Storage!Skipped
  <2> HIDE DEF w, next
  <2>3. \A d \in Everything' : GoodFile(d)'
    BY <1>1, <2>1 DEF StorageInv, Everything, GoodFile
  <2>4. NothingGone'
    BY <1>1, <1>4, <2>1, <2>2 DEF StorageInv, NothingGone, Held
  <2> QED
    BY <1>1, <1>4, <2>1, <2>2, <2>3, <2>4 DEF StorageInv
<1>6. CASE ~ Storage!Skipped(w.number, w.version)
  <2>1. db.version = w.number - 1 /\ w.number \in 1 .. 8
    BY <1>2, <1>6 DEF Storage!Skipped
  <2> DEFINE m == Storage!Migrated(db, w.number)
  <2>2. /\ Storage!CanApply(db, w.number) /\ GoodFile(m) /\ m.version = w.number
        /\ \A i \in Ids : db.book[i] # Storage!NoRow => m.book[i] # Storage!NoRow
    BY <1>1, <2>1, MigratedIsGood
  <2>3. process' = [process EXCEPT ![p] = next] /\ db' = m
    BY <1>6, <2>2 DEF Storage!Apply, Storage!Migrates
  <2>4. db'.version = IF w.version >= w.number THEN w.version ELSE w.number
    BY <1>2, <1>6, <2>2, <2>3 DEF Storage!Skipped
  <2>5. ~fetched
    BY <2>1 DEF StorageInv
  <2> HIDE DEF m, w, next
  <2>6. \A d \in Everything' : GoodFile(d)'
    BY <1>1, <2>2, <2>3 DEF StorageInv, Everything, GoodFile
  <2>7. NothingGone'
    BY <1>1, <1>4, <2>2, <2>3, <2>4 DEF StorageInv, NothingGone, Held
  <2> QED
    BY <1>1, <1>4, <2>3, <2>4, <2>5, <2>6, <2>7 DEF StorageInv
<1> QED
  BY <1>5, <1>6

\* What the user enters, and what Dhan sends, goes into an open database.
LEMMA RowsKeep ==
    ASSUME Storage!StorageAssumption, StorageInv, OneProcess, NEW p \in Processes,
           NEW i \in Ids, NEW s \in Stops, Storage!Enter(p, i, s) \/ Storage!Trail(p, i, s)
    PROVE  StorageInv'
<1> DEFINE row == IF Storage!Enter(p, i, s)
                  THEN Storage!Row(s, s, IF process[p].release >= 7 THEN s ELSE Storage!None)
                  ELSE Storage!Row(s, db.book[i].initial, db.book[i].plan)
           book == [db.book EXCEPT ![i] = row]
<1>1. /\ GoodFile(db) /\ process[p].release \in 6 .. 8 /\ db.version = process[p].release
      /\ process[p].at = "open" /\ entered \in [Ids -> Stops \cup {Storage!None}]
  BY DEF StorageInv, ProcessOK, Storage!Out, Everything, Storage!Enter, Storage!Trail, Storage!At
<1>2. /\ UNCHANGED <<file, backups, process, fetched, partial>>
      /\ db' = Storage!Database(db.version, db.applied, book, db.fills, db.through)
  BY DEF Storage!Enter, Storage!Trail, Storage!history, Storage!SavesRow
<1>3. /\ db'.version = db.version /\ db'.applied = db.applied /\ db'.book = book
      /\ db'.fills = db.fills /\ db'.through = db.through
  BY <1>2 DEF Storage!Database
<1>4. CASE Storage!Enter(p, i, s)
  <2>1. /\ entered[i] = Storage!None /\ entered' = [entered EXCEPT ![i] = s]
        /\ row = Storage!Row(s, s, IF process[p].release >= 7 THEN s ELSE Storage!None)
    BY <1>4 DEF Storage!Enter
  <2>2. row \in Rows \ {Storage!NoRow}
    BY <2>1, RowFields
  <2>3. row.initial = s /\ row.plan = IF process[p].release >= 7 THEN s ELSE Storage!None
    BY <2>1 DEF Storage!Row
  <2> HIDE DEF row
  <2>4. entered' \in [Ids -> Stops \cup {Storage!None}] /\ entered'[i] = s
        /\ \A j \in Ids \ {i} : entered'[j] = entered[j]
    BY <1>1, <2>1
  <2>5. ASSUME NEW d \in Everything
        PROVE  \A j \in Ids : d.book[j] # Storage!NoRow => j # i /\ entered'[j] = entered[j]
    <3>1. \A j \in Ids : d.book[j] # Storage!NoRow => d.book[j].initial \in Stops
                            /\ d.book[j].initial = entered[j]
      BY RowFields DEF StorageInv, GoodFile, Books
    <3>2. Storage!None \notin Stops
      BY DEF Storage!StorageAssumption, Storage!None
    <3> QED
      BY <2>1, <2>4, <3>1, <3>2
  <2>6. ASSUME NEW d \in Everything PROVE GoodFile(d)'
    BY <2>5 DEF StorageInv, GoodFile
  <2>7. book \in Books /\ book[i] = row /\ \A j \in Ids \ {i} : book[j] = db.book[j]
    BY <1>1, <2>2 DEF GoodFile, Books
  <2> HIDE DEF book
  <2>8. \A j \in Ids : book[j] # Storage!NoRow =>
           /\ book[j].initial = entered'[j]
           /\ book[j].plan = IF db.version >= 7 THEN entered'[j] ELSE Storage!None
    BY <1>1, <2>3, <2>4, <2>7 DEF GoodFile
  <2>9. GoodFile(db)'
    <3>1. db'.version \in 0 .. 8
      BY <1>1, <1>3
    <3> QED
      BY <1>1, <1>3, <2>7, <2>8, <3>1 DEF GoodFile
  <2>10. \A d \in Everything' : GoodFile(d)'
    BY <1>2, <2>6, <2>9 DEF Everything
  <2>11. \A q \in Processes : ProcessOK(q)' /\ process'[q].at = "open"
    BY <1>1, <1>2, <1>3 DEF StorageInv, OneProcess, ProcessOK
  <2>12. NothingGone'
    BY <1>1, <1>2, <1>3, <2>2, <2>4, <2>7, <2>11 DEF StorageInv, NothingGone, Held
  <2> QED
    BY <1>2, <1>3, <2>4, <2>10, <2>11, <2>12 DEF StorageInv
<1>5. CASE Storage!Trail(p, i, s) /\ ~ Storage!Enter(p, i, s)
  <2>1. /\ db.book[i] # Storage!NoRow /\ entered' = entered
        /\ row = Storage!Row(s, db.book[i].initial, db.book[i].plan)
    BY <1>5 DEF Storage!Trail, Storage!history
  <2>2. db.book[i].initial \in Stops /\ db.book[i].plan \in Stops \cup {Storage!None}
    BY <1>1, <2>1, RowFields DEF GoodFile, Books
  <2>3. row \in Rows \ {Storage!NoRow}
    BY <2>1, <2>2, RowFields
  <2>4. row.initial = db.book[i].initial /\ row.plan = db.book[i].plan
    BY <2>1 DEF Storage!Row
  <2> HIDE DEF row
  <2>5. book \in Books /\ book[i] = row /\ \A j \in Ids \ {i} : book[j] = db.book[j]
    BY <1>1, <2>3 DEF GoodFile, Books
  <2> HIDE DEF book
  <2>6. \A j \in Ids : book[j] # Storage!NoRow =>
           /\ book[j].initial = entered'[j]
           /\ book[j].plan = IF db.version >= 7 THEN entered'[j] ELSE Storage!None
    BY <1>1, <2>1, <2>4, <2>5 DEF GoodFile
  <2>7. GoodFile(db)'
    <3>1. db'.version \in 0 .. 8
      BY <1>1, <1>3
    <3> QED
      BY <1>1, <1>3, <2>5, <2>6, <3>1 DEF GoodFile
  <2>8. \A d \in Everything' : GoodFile(d)'
    BY <1>2, <2>1, <2>7 DEF Everything, GoodFile, StorageInv
  <2>9. \A q \in Processes : ProcessOK(q)' /\ process'[q].at = "open"
    BY <1>1, <1>2, <1>3 DEF StorageInv, OneProcess, ProcessOK
  <2>10. NothingGone'
    BY <1>1, <1>2, <1>3, <2>1, <2>3, <2>5, <2>9 DEF StorageInv, NothingGone, Held
  <2> QED
    BY <1>2, <1>3, <2>1, <2>8, <2>9, <2>10 DEF StorageInv
<1> QED
  BY <1>4, <1>5

\* Every step of the process, and of SQLite.
LEMMA StorageStep ==
    ASSUME Storage!StorageAssumption, StorageInv, OneProcess, [Storage!Next]_storageState
    PROVE  StorageInv'
<1> USE DEF Everything
<1>1. /\ entered \in [Ids -> Stops \cup {Storage!None}] /\ {fetched, partial} \subseteq BOOLEAN
      /\ process = [p \in Processes |-> process[p]]
      /\ \A d \in Everything : GoodFile(d)
      /\ \A p \in Processes : ProcessOK(p)
      /\ fetched => db.version = 8 /\ db.fills = "new" /\ db.through
      /\ NothingGone
  BY DEF StorageInv
<1>2. ASSUME NEW p \in Processes, NEW r \in Releases, Storage!Start(p, r) PROVE StorageInv'
  <2>1. /\ db' = IF db = Storage!NoDatabase THEN Storage!Empty ELSE db
        /\ Storage!Opens(p, r, db') /\ UNCHANGED <<file, backups, entered, fetched, partial>>
    BY <1>2 DEF Storage!Start, Storage!history
  <2>2. GoodFile(db') /\ db'.version \in 0 .. 8
    BY <1>1, <2>1, EmptyIsGood DEF GoodFile
  <2>3. /\ process' = [q \in Processes |-> process'[q]]
        /\ \A q \in Processes : ProcessOK(q)' /\ process'[q].at \in {"out", "migrate"}
    <3> r \in 6 .. 8
      BY DEF Storage!StorageAssumption
    <3> QED
      BY <2>1, <2>2, OpensKeeps
  <2>4. \A d \in Everything' : GoodFile(d)'
    BY <1>1, <2>1, <2>2 DEF GoodFile
  <2>5. fetched => db' = db
    BY <1>1, <2>1, EmptyIsGood
  <2>6. \A i \in Ids : db.book[i] # Storage!NoRow => db' = db
    BY <2>1, EmptyIsGood
  <2>7. NothingGone'
    BY <1>1, <2>1, <2>3, <2>6 DEF NothingGone, Held
  <2> QED
    BY <1>1, <2>1, <2>3, <2>4, <2>5, <2>7 DEF StorageInv
<1>3. ASSUME NEW p \in Processes, NEW r \in Releases, NEW force \in BOOLEAN,
             Storage!Import(p, r, force)
      PROVE  StorageInv'
  <2> DEFINE w == [at |-> "copy", release |-> r]
  <2>1. /\ backups' = backups \cup Storage!Copied /\ partial' = (partial \/ file # db)
        /\ process' = [process EXCEPT ![p] = w] /\ UNCHANGED <<db, file, entered, fetched>>
    BY <1>3 DEF Storage!Import
  <2>2. w.at = "copy" /\ w.release = r /\ r \in 6 .. 8
    BY DEF Storage!StorageAssumption
  <2> HIDE DEF w
  <2>3. /\ process' = [q \in Processes |-> process'[q]] /\ process'[p] = w
        /\ \A q \in Processes : q = p
    BY <2>1, ProcessMoves
  <2>4. \A q \in Processes : ProcessOK(q)'
    BY <2>2, <2>3 DEF ProcessOK
  <2>5. Storage!Copied = {d \in {file} : d # Storage!NoDatabase}
    BY DEF Storage!Copied
  <2>6. \A d \in Everything' : GoodFile(d)'
    BY <1>1, <2>1, <2>5 DEF GoodFile
  <2>7. \A i \in Ids : Storage!NoDatabase.book[i] = Storage!NoRow
    BY EmptyIsGood
  <2>8. NothingGone'
    BY <1>1, <2>1, <2>5, <2>7 DEF NothingGone, Held
  <2> QED
    BY <1>1, <2>1, <2>3, <2>4, <2>6, <2>8 DEF StorageInv
<1>4. ASSUME NEW p \in Processes, Storage!Apply(p) PROVE StorageInv'
  BY <1>4, ApplyKeeps
<1>5. ASSUME NEW p \in Processes, Storage!Ready(p) PROVE StorageInv'
  <2> DEFINE w == [at |-> "open", release |-> process[p].release]
  <2>1. /\ process[p].at = "migrate" /\ process[p].number > process[p].release
        /\ process' = [process EXCEPT ![p] = w]
        /\ UNCHANGED <<db, file, backups, entered, fetched, partial>>
    BY <1>5 DEF Storage!Ready, Storage!At, Storage!Works, Storage!history
  <2>2. process[p].release \in 6 .. 8 /\ db.version = process[p].release
    BY <1>1, <2>1 DEF ProcessOK, Storage!Out, AtMigration
  <2>3. w.at = "open" /\ w.release = process[p].release
    OBVIOUS
  <2> HIDE DEF w
  <2>4. /\ process' = [q \in Processes |-> process'[q]] /\ process'[p] = w
        /\ \A q \in Processes : q = p
    BY <2>1, ProcessMoves
  <2>5. \A q \in Processes : ProcessOK(q)'
    BY <2>1, <2>2, <2>3, <2>4 DEF ProcessOK
  <2>6. \A d \in Everything' : GoodFile(d)'
    BY <1>1, <2>1 DEF GoodFile
  <2>7. NothingGone'
    BY <1>1, <2>1, <2>3, <2>4 DEF NothingGone, Held
  <2> QED
    BY <1>1, <2>1, <2>4, <2>5, <2>6, <2>7 DEF StorageInv
<1>6. ASSUME NEW p \in Processes, Storage!StoreFills(p) PROVE StorageInv'
  <2> DEFINE owned == IF db.fills # "none" THEN db.fills
                      ELSE IF process[p].release = 7 THEN "old" ELSE "new"
  <2>1. /\ process[p].at = "open" /\ process[p].release >= 7
        /\ db' = Storage!Database(db.version, db.applied, db.book, owned, TRUE)
        /\ fetched' = (fetched \/ process[p].release = 8)
        /\ UNCHANGED <<file, backups, process, entered, partial>>
    BY <1>6 DEF Storage!StoreFills, Storage!At
  <2>2. /\ db'.version = db.version /\ db'.applied = db.applied /\ db'.book = db.book
        /\ db'.fills = owned /\ db'.through = TRUE
    BY <2>1 DEF Storage!Database
  <2>3. process[p].release \in 6 .. 8 /\ db.version = process[p].release /\ GoodFile(db)
    BY <1>1, <2>1 DEF ProcessOK, Storage!Out
  <2>4. owned \in {"none", "old", "new"} /\ (process[p].release = 8 => owned = "new")
    BY <2>1, <2>3 DEF GoodFile
  <2> HIDE DEF owned
  <2>5. GoodFile(db)'
    <3>1. db'.version \in 0 .. 8
      BY <2>2, <2>3
    <3>2. db'.through \in BOOLEAN
      BY <2>2, Zenon
    <3>3. db'.version = 8 => db'.fills # "old"
      BY <2>2, <2>3, <2>4
    <3> QED
      <4>1. /\ db'.applied \subseteq 1 .. 8 /\ db'.applied \cup {1} = 1 .. db'.version \cup {1}
            /\ db'.book \in Books
        BY <2>2, <2>3 DEF GoodFile
      <4>2. \A i \in Ids : db'.book[i] # Storage!NoRow =>
              /\ db'.book[i].initial = entered[i]
              /\ db'.book[i].plan = IF db'.version >= 7 THEN entered[i] ELSE Storage!None
        BY <2>2, <2>3 DEF GoodFile
      <4>3. db'.fills \in {"none", "old", "new"} /\ entered' = entered
        BY <2>1, <2>2, <2>4
      <4> QED
        BY <3>1, <3>2, <3>3, <4>1, <4>2, <4>3 DEF GoodFile
  <2>6. \A d \in Everything' : GoodFile(d)'
    <3>1. \A d \in Everything : GoodFile(d)'
      BY <1>1, <2>1 DEF GoodFile
    <3> QED
      BY <2>1, <2>5, <3>1
  <2>7. fetched' => db'.version = 8 /\ db'.fills = "new" /\ db'.through
    BY <1>1, <2>1, <2>2, <2>3, <2>4
  <2>8. \A q \in Processes : ProcessOK(q)'
    BY <1>1, <2>1, <2>2 DEF ProcessOK, AtMigration
  <2>9. NothingGone'
    <3>1. \A i \in Ids : Held(i, {db} \cup backups) => Held(i, {db} \cup backups)'
      <4>1. ASSUME NEW i \in Ids, NEW d \in {db} \cup backups, d.book[i] # Storage!NoRow
            PROVE  \E e \in {db'} \cup backups' : e.book[i] # Storage!NoRow
        <5>1. CASE d = db
          BY <2>2, <4>1, <5>1
        <5>2. CASE d \in backups
          BY <2>1, <4>1, <5>2
        <5> QED
          BY <5>1, <5>2
      <4> QED
        BY <4>1 DEF Held
    <3>2. \A i \in Ids : Held(i, backups) => Held(i, backups)'
      BY <2>1 DEF Held
    <3> QED
      BY <1>1, <2>1, <3>1, <3>2 DEF NothingGone
  <2> QED
    BY <1>1, <2>1, <2>6, <2>7, <2>8, <2>9 DEF StorageInv
<1>7. ASSUME NEW p \in Processes, Storage!Close(p) \/ Storage!Crash(p) PROVE StorageInv'
  <2>1. /\ process' = [process EXCEPT ![p] = Storage!Out] /\ file' \in {file, db}
        /\ UNCHANGED <<db, backups, entered, fetched, partial>>
    BY <1>7 DEF Storage!Close, Storage!Crash, Storage!Ends, Storage!history
  <2>2. /\ process' = [q \in Processes |-> process'[q]] /\ process'[p] = Storage!Out
        /\ \A q \in Processes : q = p
    BY <2>1, ProcessMoves
  <2>3. \A q \in Processes : ProcessOK(q)' /\ process'[q].at # "copy"
    BY <2>2 DEF ProcessOK, Storage!Out
  <2>4. \A d \in Everything' : GoodFile(d)'
    BY <1>1, <2>1 DEF GoodFile
  <2>5. NothingGone'
    BY <1>1, <2>1, <2>3 DEF NothingGone, Held
  <2> QED
    BY <1>1, <2>1, <2>2, <2>3, <2>4, <2>5 DEF StorageInv
<1>8. ASSUME NEW p \in Processes, Storage!Copy(p) PROVE StorageInv'
  <2>1. /\ process[p].at = "copy" /\ db' = Storage!Legacy /\ file' = Storage!Legacy
        /\ fetched' = FALSE /\ UNCHANGED <<backups, entered, partial>>
        /\ Storage!Opens(p, process[p].release, db')
    BY <1>8 DEF Storage!Copy, Storage!At
  <2>2. process[p].release \in 6 .. 8
    BY <1>1, <2>1 DEF ProcessOK, Storage!Out
  <2>3. GoodFile(db') /\ db'.version \in 0 .. 8 /\ \A i \in Ids : db'.book[i] = Storage!NoRow
    BY <2>1, EmptyIsGood
  <2>4. /\ process' = [q \in Processes |-> process'[q]]
        /\ \A q \in Processes : ProcessOK(q)' /\ process'[q].at \in {"out", "migrate"}
    BY <2>1, <2>2, <2>3, OpensKeeps
  <2>5. \A d \in Everything' : GoodFile(d)'
    BY <1>1, <2>1, <2>3 DEF GoodFile
  <2>6. NothingGone'
    BY <1>1, <2>1, <2>4 DEF NothingGone, Held
  <2> QED
    BY <1>1, <2>1, <2>4, <2>5, <2>6 DEF StorageInv
<1>9. ASSUME NEW p \in Processes, NEW i \in Ids, NEW s \in Stops,
             Storage!Enter(p, i, s) \/ Storage!Trail(p, i, s)
      PROVE  StorageInv'
  BY <1>9, RowsKeep
<1>10. ASSUME Storage!Fold PROVE StorageInv'
  <2>1. file' = db /\ UNCHANGED <<db, backups, process, entered, fetched, partial>>
    BY <1>10 DEF Storage!Fold, Storage!history
  <2> QED
    BY <1>1, <2>1 DEF StorageInv, GoodFile, ProcessOK, AtMigration, NothingGone, Held
<1>11. CASE UNCHANGED storageState
  BY <1>1, <1>11 DEF storageState, Storage!vars, Storage!history, StorageInv, GoodFile, ProcessOK,
     AtMigration, NothingGone, Held
<1> QED
  BY <1>2, <1>3, <1>4, <1>5, <1>6, <1>7, <1>8, <1>9, <1>10, <1>11 DEF Storage!Next

\* The invariant holds from before the first command on.
THEOREM StorageInvariant ==
  ASSUME Storage!StorageAssumption, OneProcess
  PROVE  Storage!Spec => []StorageInv
<1>1. ASSUME Storage!Init PROVE StorageInv
  <2>1. /\ \A d \in Everything : GoodFile(d)
        /\ \A i \in Ids : entered[i] = Storage!None
    BY <1>1, EmptyIsGood DEF Storage!Init, Everything
  <2>2. \A p \in Processes : ProcessOK(p)
    BY <1>1 DEF Storage!Init, ProcessOK
  <2> QED
    BY <1>1, <2>1, <2>2 DEF Storage!Init, StorageInv, NothingGone
<1>2. StorageInv /\ [Storage!Next]_storageState => StorageInv'
  BY Storage!StorageAssumption, OneProcess, StorageStep
<1> QED
  BY <1>1, <1>2, PTL DEF Storage!Spec, storageState

\* The database over the life of an installation (migrations.py, legacy_import.py):
\* whichever releases run one after the other and wherever each of them ends, the
\* number in the database, its file and its copies says what was applied, plans
\* are those entered, fills identified in the old way are gone, the new ones stay,
\* and a position that was entered is in the database or a copy, unless the log
\* was left out of that copy.
THEOREM StorageAlwaysSound ==
  ASSUME Storage!StorageAssumption, OneProcess
  PROVE  Storage!Spec => []StorageSound
<1>1. ASSUME StorageInv PROVE StorageSound
  <2>1. \A d \in Storage!Files : GoodFile(d) /\ d # Storage!NoDatabase
    BY <1>1 DEF StorageInv, Storage!Files, Everything
  <2>2. \A p \in Processes : process[p].at \in {"out", "migrate", "open", "copy"}
    BY <1>1 DEF StorageInv, ProcessOK, Storage!Out
  <2>3. Storage!TypeOK
    <3>1. ASSUME NEW d \in Storage!Files PROVE d.version \in 0 .. 8 /\ d.applied \subseteq 0 .. 8
      <4>1. GoodFile(d) /\ d # Storage!NoDatabase
        BY <2>1
      <4>2. d.version \in 0 .. 8 /\ d.applied \subseteq 1 .. 8
        BY <4>1 DEF GoodFile
      <4> QED
        BY <4>2
    <3> QED
      BY <2>2, <3>1 DEF Storage!TypeOK, Storage!Versions
  <2>4. Storage!SchemaMatches /\ Storage!PlansKept /\ Storage!FillsCurrent
    <3>1. \A d \in Storage!Files : GoodFile(d)
      BY <2>1
    <3>2. Storage!SchemaMatches
      BY <3>1 DEF Storage!SchemaMatches, GoodFile
    <3>3. Storage!PlansKept
      BY <3>1 DEF Storage!PlansKept, GoodFile
    <3>4. Storage!FillsCurrent
      BY <3>1 DEF Storage!FillsCurrent, GoodFile
    <3> QED
      BY <3>2, <3>3, <3>4
  <2>5. Storage!FillsKept
    BY <1>1 DEF Storage!FillsKept, StorageInv
  <2>6. Storage!NothingReplaced
    <3> SUFFICES ASSUME ~partial, NEW i \in Ids, entered[i] # Storage!None
                 PROVE  \E d \in Storage!Files : d.book[i] # Storage!NoRow
      BY DEF Storage!NothingReplaced, Storage!NothingLost, Storage!Entered, Storage!InCopy
    <3>1. PICK d \in {db} \cup backups : d.book[i] # Storage!NoRow
      BY <1>1 DEF StorageInv, NothingGone, Held
    <3>2. d # Storage!NoDatabase
      BY <3>1, EmptyIsGood
    <3> QED
      BY <3>1, <3>2 DEF Storage!Files
  <2> QED
    BY <2>3, <2>4, <2>5, <2>6 DEF StorageSound
<1> QED
  BY <1>1, StorageInvariant, PTL

--------------------------------------------------------------------
(* The rows.  Numbers first: what is least and greatest, and what a book    *)
(* holds.                                                                   *)

LEMMA LeastOf == ASSUME NEW S, S \subseteq Nat, S # {} PROVE \E x \in S : \A y \in S : x <= y
<1> DEFINE R == OpToRel(<, Nat)
<1>1. PICK x \in S : \A y \in S : ~(<<y, x>> \in R)
  <2> HIDE DEF R
  <2>1. IsWellFoundedOn(R, Nat)
    BY NatLessThanWellFounded DEF R
  <2> QED
    BY <2>1, WFMin
<1>2. \A y \in S : x <= y
  <2> SUFFICES ASSUME NEW y \in S PROVE x <= y
    OBVIOUS
  <2>1. x \in Nat /\ y \in Nat /\ ~(<<y, x>> \in R)
    <3> HIDE DEF R
    <3> QED
      BY <1>1
  <2> QED
    BY <2>1 DEF OpToRel
<1> QED
  BY <1>2

\* What holds of 0 and passes on to the next number holds of all.
LEMMA Reaches ==
  ASSUME NEW S, 0 \in S, \A n \in Nat : n \in S => n + 1 \in S
  PROVE  Nat \subseteq S
<1> SUFFICES ASSUME Nat \ S # {} PROVE FALSE
  OBVIOUS
<1>1. PICK n \in Nat \ S : \A m \in Nat \ S : n <= m
  BY LeastOf
<1>2. n # 0 /\ n - 1 \in Nat /\ n - 1 \in S
  BY <1>1
<1> QED
  BY <1>1, <1>2

LEMMA GreatestOf ==
  ASSUME NEW S, S \subseteq Int, S # {}, NEW top \in Int, \A x \in S : x <= top
  PROVE  \E x \in S : \A y \in S : x >= y
<1> DEFINE below == {top - x : x \in S}
<1>1. below \subseteq Nat /\ below # {}
  <2>1. \A x \in S : top - x \in Nat
    OBVIOUS
  <2> QED
    BY <2>1
<1>2. PICK n \in below : \A m \in below : n <= m
  <2> HIDE DEF below
  <2> QED
    BY <1>1, LeastOf
<1>3. PICK x \in S : n = top - x
  OBVIOUS
<1>4. ASSUME NEW y \in S PROVE x >= y
  <2>1. top - x <= top - y
    BY <1>2, <1>3
  <2>2. x \in Int /\ y \in Int
    OBVIOUS
  <2> HIDE DEF below
  <2> QED
    BY <2>1, <2>2
<1> QED
  BY <1>4

LEMMA MaxIs ==
  ASSUME NEW S, S \subseteq Int, S # {}, NEW top \in Int, \A x \in S : x <= top
  PROVE  Position!Max(S) \in S /\ \A y \in S : Position!Max(S) >= y
BY GreatestOf DEF Position!Max

LEMMA MinIs ==
  ASSUME NEW S, S \subseteq Nat, S # {}
  PROVE  Position!Min(S) \in S /\ \A y \in S : Position!Min(S) <= y
BY LeastOf DEF Position!Min

\* The instance counts as this module does.
LEMMA RowsCount ==
  \A S : /\ Position!IsFiniteSet(S) = IsFiniteSet(S)
         /\ Position!Cardinality(S) = Cardinality(S)
<1>1. \A S : Position!IsFiniteSet(S) = IsFiniteSet(S)
  BY DEF Position!IsFiniteSet, IsFiniteSet
<1>2. \A S : Position!Cardinality(S) = Cardinality(S)
  BY DEF Position!Cardinality, Cardinality
<1> QED
  BY <1>1, <1>2

LEMMA HeldIsInt == ASSUME NEW i \in Int PROVE Position!Held(i) \in Int
<1>1. ASSUME NEW S \in SUBSET (1 .. i) PROVE Cardinality(S) \in Nat
  <2>1. IsFiniteSet(1 .. i)
    BY FS_Interval
  <2> QED
    BY <2>1, FS_Subset, FS_CardinalityType
<1> DEFINE bought == {j \in 1 .. i : fills[j] = "buy"}
           sold == {j \in 1 .. i : fills[j] = "sell"}
<1>2. Position!Held(i) = Cardinality(bought) - Cardinality(sold)
  BY RowsCount DEF Position!Held
<1>3. Cardinality(bought) \in Nat /\ Cardinality(sold) \in Nat
  BY <1>1
<1> HIDE DEF bought, sold
<1> QED
  BY <1>2, <1>3

\* A book over the days from before s to i is there, and it counts shares.
BookStep(s, f, j) ==
    IF j = s - 1 THEN Position!Older(s)
    ELSE IF fills[j] = "buy" THEN f[j - 1] + 1
    ELSE IF f[j - 1] > 0 THEN f[j - 1] - 1
    ELSE 0

LEMMA BookIsThere ==
  ASSUME NEW s \in Nat \ {0}, NEW i \in Nat, i >= s - 1, fills \in Seq({"buy", "sell"})
  PROVE  \E f : f = [j \in s - 1 .. i |-> BookStep(s, f, j)]
<1> DEFINE IsBook(f, n) == /\ f \in [s - 1 .. s - 1 + n -> Int]
                           /\ \A j \in s - 1 .. s - 1 + n : f[j] = BookStep(s, f, j)
           Good == {n \in Nat : \E f : IsBook(f, n)}
<1>1. Position!Older(s) \in Int
  BY HeldIsInt DEF Position!Older
<1>2. 0 \in Good
  <2> DEFINE f == [j \in s - 1 .. s - 1 + 0 |-> Position!Older(s)]
  <2>1. IsBook(f, 0)
    BY <1>1 DEF BookStep
  <2> QED
    BY <2>1
<1>3. ASSUME NEW n \in Nat, n \in Good PROVE n + 1 \in Good
  <2>1. PICK f : IsBook(f, n)
    BY <1>3
  <2> DEFINE g == [j \in s - 1 .. s - 1 + (n + 1) |->
                     IF j = s - 1 + (n + 1) THEN BookStep(s, f, j) ELSE f[j]]
  <2>2. \A j \in s - 1 .. s - 1 + n : g[j] = f[j] /\ f[j] \in Int
    BY <2>1
  <2>3. BookStep(s, f, s - 1 + (n + 1)) \in Int
    <3>1. f[s - 1 + (n + 1) - 1] \in Int
      BY <2>1
    <3> HIDE DEF g, IsBook
    <3> QED
      BY <3>1, <1>1 DEF BookStep
  <2>4. g \in [s - 1 .. s - 1 + (n + 1) -> Int]
    <3>1. ASSUME NEW j \in s - 1 .. s - 1 + (n + 1), j # s - 1 + (n + 1) PROVE f[j] \in Int
      <4>1. j \in s - 1 .. s - 1 + n
        BY <3>1
      <4> QED
        BY <4>1, <2>1
    <3> QED
      BY <3>1, <2>3
  <2>5. ASSUME NEW j \in s - 1 .. s - 1 + (n + 1) PROVE g[j] = BookStep(s, g, j)
    <3>1. g[j] = BookStep(s, f, j)
      BY <2>1
    <3>2. j # s - 1 => f[j - 1] = g[j - 1]
      BY <2>2
    <3> HIDE DEF g
    <3> QED
      BY <3>1, <3>2 DEF BookStep
  <2>6. IsBook(g, n + 1)
    <3> HIDE DEF g
    <3> QED
      BY <2>4, <2>5
  <2> HIDE DEF IsBook
  <2> QED
    BY <2>6
<1>4. i - (s - 1) \in Good
  <2> HIDE DEF Good
  <2>1. Nat \subseteq Good
    BY <1>2, <1>3, Reaches
  <2> QED
    BY <2>1
<1>5. PICK f : IsBook(f, i - (s - 1))
  BY <1>4
<1>6. s - 1 + (i - (s - 1)) = i
  OBVIOUS
<1>7. f = [j \in s - 1 .. i |-> BookStep(s, f, j)]
  BY <1>5, <1>6
<1> QED
  BY <1>7

LEMMA BookedIsInt ==
  ASSUME NEW s \in Nat \ {0}, NEW i \in Nat, i >= s - 1, fills \in Seq({"buy", "sell"})
  PROVE  Position!Booked(s, i) \in Int
<1> DEFINE book == CHOOSE f : f = [j \in s - 1 .. i |-> BookStep(s, f, j)]
           Good == {n \in Nat : s - 1 + n <= i => book[s - 1 + n] \in Int}
<1>1. Position!Booked(s, i) = book[i]
  BY DEF Position!Booked, BookStep
<1>2. book = [j \in s - 1 .. i |-> BookStep(s, book, j)]
  BY BookIsThere
<1> HIDE DEF book
<1>3. \A j \in s - 1 .. i : book[j] = BookStep(s, book, j)
  BY <1>2
<1>4. 0 \in Good
  <2>1. s - 1 \in s - 1 .. i /\ s - 1 + 0 = s - 1
    OBVIOUS
  <2>2. Position!Older(s) \in Int
    BY HeldIsInt DEF Position!Older
  <2>3. book[s - 1] \in Int
    BY <1>3, <2>1, <2>2 DEF BookStep
  <2> QED
    BY <2>1, <2>3
<1>5. ASSUME NEW n \in Nat, n \in Good PROVE n + 1 \in Good
  <2> SUFFICES ASSUME s - 1 + (n + 1) <= i PROVE book[s - 1 + (n + 1)] \in Int
    OBVIOUS
  <2> DEFINE j == s - 1 + (n + 1)
  <2>1. j \in s - 1 .. i /\ j # s - 1 /\ j - 1 = s - 1 + n
    OBVIOUS
  <2>2. book[j - 1] \in Int
    BY <1>5, <2>1
  <2> HIDE DEF j
  <2>3. book[j] \in Int
    BY <1>3, <2>1, <2>2 DEF BookStep
  <2> QED
    BY <2>3 DEF j
<1>6. i - (s - 1) \in Good
  <2> HIDE DEF Good
  <2> QED
    BY <1>4, <1>5, Reaches
<1> QED
  BY <1>1, <1>6

LEMMA EpisodeIsInt ==
  ASSUME NEW s \in Nat \ {0}, NEW i \in Nat, i >= s - 1
  PROVE  Position!Episode(s, i) \in Int
<1> DEFINE empty == {j \in s - 1 .. i : Position!Booked(s, j) = 0}
<1>1. ASSUME empty # {} PROVE Position!Max(empty) \in Int
  <2>1. empty \subseteq Int /\ (\A j \in empty : j <= i) /\ i \in Int
    OBVIOUS
  <2> HIDE DEF empty
  <2>2. Position!Max(empty) \in empty
    BY <1>1, <2>1, MaxIs
  <2> QED
    BY <2>1, <2>2
<1>2. Position!Episode(s, i) = IF empty = {} THEN -s
                               ELSE IF Position!Max(empty) = i THEN 0
                               ELSE Position!Max(empty) + 1
  BY DEF Position!Episode
<1> HIDE DEF empty
<1> QED
  BY <1>1, <1>2

-----------------------------------------------------------------------------
(* What reconcile makes has one position for a day that sold and one that   *)
(* is open.  A sync saves them over the rows it read; what it has not yet   *)
(* saved has no row but one that it read, and what the user does meanwhile  *)
(* gives no row a ref.                                                      *)

Refs == [episode : Int, day : Nat]
Wanted == [ref : Refs, open : BOOLEAN, quantity : Int]
RowRecord == [ref : Refs, open : BOOLEAN, quantity : Int, stop : Nat, planned : BOOLEAN]
ReadRow == [id : RowIds, ref : Refs, open : BOOLEAN]

\* A ref without a day is of an open position; no two have the same day.
WantedOK(wanted) ==
    /\ wanted \subseteq Wanted
    /\ \A p \in wanted : (p.open <=> p.ref.day = 0) /\ p.ref # Position!NoRef
    /\ \A p, q \in wanted : p.ref.day = q.ref.day => p = q

RefsOf(some) == {x.ref : x \in some}

LEMMA PositionsAreWanted ==
  ASSUME NEW s \in Nat \ {0}, fills \in Seq({"buy", "sell"}), s <= Len(fills) + 1
  PROVE  WantedOK(Position!Positions(s))
<1> DEFINE sells == {j \in s .. Len(fills) : fills[j] = "sell" /\ Position!Booked(s, j - 1) > 0}
           Closed(i) == [ref |-> [episode |-> Position!Episode(s, i - 1), day |-> i],
                         open |-> FALSE, quantity |-> 1]
           Open(e) == [ref |-> [episode |-> e, day |-> 0], open |-> TRUE,
                       quantity |-> Position!Booked(s, Len(fills))]
           last == Position!Episode(s, Len(fills))
<1>1. Position!Positions(s) = {Closed(i) : i \in sells} \cup {Open(e) : e \in {last} \ {0}}
  BY DEF Position!Positions
<1>2. Len(fills) \in Nat /\ Len(fills) >= s - 1
  OBVIOUS
<1>3. \A i \in sells : i \in Nat \ {0} /\ Position!Episode(s, i - 1) \in Int
  <2> SUFFICES ASSUME NEW i \in s .. Len(fills)
               PROVE  i \in Nat \ {0} /\ Position!Episode(s, i - 1) \in Int
    OBVIOUS
  <2>1. i \in Nat \ {0} /\ i - 1 \in Nat /\ i - 1 >= s - 1
    OBVIOUS
  <2> QED
    BY <2>1, EpisodeIsInt
<1>4. last \in Int /\ Position!Booked(s, Len(fills)) \in Int
  BY <1>2, EpisodeIsInt, BookedIsInt
<1> HIDE DEF sells, last
<1>5. ASSUME NEW p \in Position!Positions(s)
      PROVE  \/ \E i \in sells : p = Closed(i)
             \/ last # 0 /\ p = Open(last)
  BY <1>1
<1>6. \A i \in sells : /\ Closed(i) \in Wanted /\ Closed(i).ref.day = i
                      /\ ~ Closed(i).open /\ Closed(i).ref # Position!NoRef
  BY <1>3 DEF Wanted, Refs, Position!NoRef
<1>7. last # 0 => /\ Open(last) \in Wanted /\ Open(last).ref.day = 0
                  /\ Open(last).open /\ Open(last).ref # Position!NoRef
  BY <1>4 DEF Wanted, Refs, Position!NoRef
<1> HIDE DEF Closed, Open
<1>8. \A p \in Position!Positions(s) :
         p \in Wanted /\ (p.open <=> p.ref.day = 0) /\ p.ref # Position!NoRef
  BY <1>3, <1>5, <1>6, <1>7
<1>9. \A p, q \in Position!Positions(s) : p.ref.day = q.ref.day => p = q
  BY <1>3, <1>5, <1>6, <1>7
<1> QED
  BY <1>8, <1>9 DEF WantedOK

\* What the sync has still to save, and what it has saved.
Todo == IF importing.at = "save" THEN importing.todo ELSE importing.wanted
Done == importing.wanted \ Todo

Shows(row, p) == row.ref = p.ref /\ row.open = p.open /\ row.quantity = p.quantity

Edit ==
    [op : {"none", "close", "delete"}, id : Nat]
    \cup [op : {"update"}, id : Nat, quantity : Int]
    \cup [op : {"hide"}, id : Nat, ref : Refs]

SyncRecord ==
    [at : {"idle"}]
    \cup [at : {"begin"}, start : RowStarts, restore : BOOLEAN]
    \cup [at : {"read"}, start : RowStarts]
    \cup [at : {"reconcile", "existing", "reload"}, wanted : SUBSET Wanted]
    \cup [at : {"plans"}, wanted : SUBSET Wanted, existing : SUBSET ReadRow,
          stale : SUBSET ReadRow]
    \cup [at : {"save"}, wanted : SUBSET Wanted, existing : SUBSET ReadRow,
          stale : SUBSET ReadRow, plans : SUBSET RowIds, todo : SUBSET Wanted]

Reconciled == importing.at \in {"reconcile", "existing", "plans", "save", "reload"}
Saving == importing.at \in {"plans", "save"}

\* Either no row is entered by hand, or the user waits for a sync.
OneAtWork == MaxManual = 0 \/ ~ EditsMeanwhile

\* A row that waits to be closed by hand is no import, and becomes none: either the
\* user waits for a sync, or no row is entered by hand.
PositionTypes ==
    /\ fills \in Seq({"buy", "sell"}) /\ touched \in BOOLEAN
    /\ rows \in [RowIds -> RowRecord \cup {Position!Nothing}]
    /\ IsFiniteSet(Position!Filled)
    /\ importing \in SyncRecord
    /\ importing.at \in {"begin", "read"} => importing.start <= Len(fills) + 1
    /\ Reconciled => WantedOK(importing.wanted)
    /\ ui \in Edit
    /\ OneAtWork /\ ui.op = "close" => importing.at = "idle" /\ ui.id \notin Position!Imported
    /\ MaxManual = 0 => Position!Filled = Position!Imported

\* An open row has an open position's ref, and there is one.
OneEach ==
    /\ Position!OneRowPerRef
    /\ \A id \in Position!Imported : rows[id].open <=> rows[id].ref.day = 0
    /\ \A i, j \in Position!Imported : rows[i].open /\ rows[j].open => i = j

\* The rows as they were read: of each ref one, and one open.
ReadApart(existing) ==
    /\ IsFiniteSet({r.id : r \in existing})
    /\ \A r \in existing : r.ref # Position!NoRef /\ (r.open <=> r.ref.day = 0)
    /\ \A r, q \in existing :
          r.ref = q.ref \/ r.id = q.id \/ (r.open /\ q.open) => r = q

\* A row now has a ref that was read or that was saved; the one row that is open
\* and not wanted is left to be taken over until the open position is saved.
KnownRows ==
    /\ ReadApart(importing.existing)
    /\ importing.stale \subseteq importing.existing
    /\ \A r \in importing.stale : r.open /\ r.ref \notin RefsOf(importing.wanted)
    /\ \A id \in Position!Imported :
          \/ rows[id].ref \in RefsOf(Done)
          \/ \E r \in importing.existing :
                r.ref = rows[id].ref /\ (r.id = id \/ r.ref \in RefsOf(importing.wanted))
    /\ \A r \in importing.existing :
          r.open /\ r.ref \notin RefsOf(importing.wanted) /\ (\E p \in Todo : p.open)
          => r \in importing.stale
    /\ Todo \subseteq importing.wanted
    /\ importing.at = "save" => IsFiniteSet(importing.plans)

\* As long as no edit came between: what was saved is shown, what else there is was
\* read and is to be dropped if it isn't wanted, and what is to be taken over is there.
Undisturbed ==
    /\ \A p \in Done : \E id \in Position!Imported : Shows(rows[id], p)
    /\ \A id \in Position!Imported :
          \/ \E p \in Done : Shows(rows[id], p)
          \/ \E r \in importing.existing :
                /\ r.ref = rows[id].ref /\ r.ref \notin RefsOf(Done)
                /\ r.open /\ r.ref \notin RefsOf(importing.wanted) => r \in importing.stale
    /\ \A r \in importing.stale : r.id \in Position!Imported /\ rows[r.id].ref = r.ref
    /\ importing.at = "save" =>
          \A id \in importing.plans : id \in Position!Filled \ Position!Imported

PositionInv ==
    /\ PositionTypes
    /\ OneEach
    /\ Saving => KnownRows /\ (~ touched => Undisturbed)
    /\ Position!SyncedRows

\* What is closed by hand is no row of the import, when it is written either.
ClosesByHand == Position!WriteClose => ui.id \notin Position!Imported

NeverOut == \A S : IsFiniteSet(S) => ~ (RowIds \subseteq S)

LEMMA RowParts ==
  /\ \A r \in RowRecord : r # Position!Nothing /\ r.ref \in Refs /\ r.open \in BOOLEAN
  /\ Position!Nothing.ref = Position!NoRef
BY DEF RowRecord, Position!Nothing, Position!NoRef

\* An imported row is one that has a ref.
LEMMA ImportedIs ==
  ASSUME rows \in [RowIds -> RowRecord \cup {Position!Nothing}]
  PROVE  /\ Position!Imported = {id \in RowIds : rows[id].ref # Position!NoRef}
         /\ Position!Filled = {id \in RowIds : rows[id] \in RowRecord}
         /\ Position!Imported \subseteq Position!Filled /\ Position!Filled \subseteq RowIds
BY RowParts DEF Position!Imported, Position!Filled

LEMMA FirstIs ==
  ASSUME NEW wanted, WantedOK(wanted), NEW todo \in SUBSET wanted, todo # {}
  PROVE  Position!First(todo) \in todo
<1> SUFFICES \E p \in todo : \A q \in todo \ {p} :
                q.ref.day = 0 \/ p.ref.day \in 1 .. q.ref.day - 1
  BY DEF Position!First
<1>1. \A p \in todo : p.ref.day \in Nat
  BY DEF WantedOK, Wanted, Refs
<1>2. \A p, q \in todo : p.ref.day = q.ref.day => p = q
  BY DEF WantedOK
<1> DEFINE days == {p.ref.day : p \in {x \in todo : x.ref.day # 0}}
<1>3. CASE days = {}
  <2>1. \A q \in todo : q.ref.day = 0
    BY <1>3
  <2> QED
    BY <2>1
<1>4. CASE days # {}
  <2>1. days \subseteq Nat
    BY <1>1
  <2>2. PICK d \in days : \A e \in days : d <= e
    <3> HIDE DEF days
    <3> QED
      BY <1>4, <2>1, LeastOf
  <2>3. PICK p \in todo : p.ref.day = d /\ d # 0
    OBVIOUS
  <2>4. ASSUME NEW q \in todo \ {p}, q.ref.day # 0 PROVE p.ref.day \in 1 .. q.ref.day - 1
    <3>1. q.ref.day \in days
      BY <2>4
    <3>2. d <= q.ref.day /\ d # q.ref.day
      BY <1>2, <2>2, <2>3, <3>1
    <3>3. d \in Nat /\ q.ref.day \in Nat
      BY <1>1, <2>3
    <3> QED
      BY <2>3, <3>2, <3>3
  <2> QED
    BY <2>4
<1> QED
  BY <1>3, <1>4

LEMMA FreshIs ==
  ASSUME RowIds \subseteq Nat, NeverOut, PositionTypes, Saving => KnownRows
  PROVE  Position!FreshId \in RowIds /\ rows[Position!FreshId] = Position!Nothing
<1> DEFINE free == {id \in RowIds \ Position!InHand : rows[id] = Position!Nothing}
           plans == IF importing.at = "save" THEN importing.plans ELSE {}
           kept == IF Saving THEN {r.id : r \in importing.existing} ELSE {}
<1>1. IsFiniteSet(plans) /\ IsFiniteSet(kept) /\ IsFiniteSet({ui.id})
  BY FS_EmptySet, FS_Singleton DEF KnownRows, ReadApart, Saving
<1>2. Position!InHand = {ui.id} \cup plans \cup kept
  BY DEF Position!InHand, Saving
<1> HIDE DEF plans, kept
<1>3. IsFiniteSet(Position!InHand \cup Position!Filled)
  BY <1>1, <1>2, FS_Union DEF PositionTypes
<1>4. free # {}
  BY <1>3 DEF NeverOut, Position!Filled
<1>5. Position!FreshId = Position!Min(free)
  BY DEF Position!FreshId
<1>6. free \subseteq Nat
  OBVIOUS
<1> HIDE DEF free
<1>7. Position!FreshId \in free
  BY <1>4, <1>5, <1>6, MinIs
<1> QED
  BY <1>7 DEF free

\* What a step that is not the sync's does to the rows: none gets a ref, and the
\* imported ones stay as they are unless it is counted as the user's.
LEMMA OthersKeep ==
  ASSUME PositionInv, PositionTypes', importing' = importing,
         \A id \in Position!Imported' :
            /\ id \in Position!Imported
            /\ rows'[id].ref = rows[id].ref /\ rows'[id].open = rows[id].open,
         \/ touched'
         \/ /\ touched' = touched
            /\ \A id \in Position!Imported : id \in Position!Imported' /\ rows'[id] = rows[id]
            /\ \A id \in Position!Filled \ Position!Imported :
                  id \in (Position!Filled \ Position!Imported)'
  PROVE  PositionInv'
<1>1. OneEach'
  BY DEF PositionInv, OneEach, Position!OneRowPerRef
<1>2. Todo' = Todo /\ Done' = Done /\ Saving' = Saving
  BY DEF Todo, Done, Saving
<1>3. ASSUME Saving PROVE KnownRows'
  BY <1>2, <1>3 DEF PositionInv, KnownRows, RefsOf
<1>4. ASSUME Saving, ~ touched' PROVE Undisturbed'
  <2>1. Undisturbed /\ ~ touched
    BY <1>4 DEF PositionInv
  <2>2. \A id : id \in Position!Imported <=> id \in Position!Imported'
    BY <1>4
  <2>3. \A id \in Position!Imported : rows'[id] = rows[id]
    BY <1>4
  <2>4. \A id \in Position!Filled \ Position!Imported :
           id \in (Position!Filled \ Position!Imported)'
    BY <1>4
  <2>5. \A p \in Done' : \E id \in Position!Imported' : Shows(rows[id], p)'
    BY <1>2, <2>1, <2>2, <2>3 DEF Undisturbed, Shows
  <2>6. ASSUME NEW id \in Position!Imported'
        PROVE  \/ \E p \in Done : Shows(rows'[id], p)
               \/ \E r \in importing.existing :
                     /\ r.ref = rows'[id].ref /\ r.ref \notin RefsOf(Done)
                     /\ r.open /\ r.ref \notin RefsOf(importing.wanted)
                           => r \in importing.stale
    BY <2>1, <2>2, <2>3 DEF Undisturbed, Shows
  <2>7. \A r \in importing.stale : r.id \in Position!Imported' /\ rows'[r.id].ref = r.ref
    BY <2>1, <2>2, <2>3 DEF Undisturbed
  <2>8. importing.at = "save" => \A id \in importing.plans :
                                    id \in (Position!Filled \ Position!Imported)'
    BY <2>1, <2>4 DEF Undisturbed
  <2> QED
    BY <1>2, <2>5, <2>6, <2>7, <2>8 DEF Undisturbed, Shows
<1>5. Position!SyncedRows'
  <2> SUFFICES ASSUME importing.at = "reload", ~ touched' PROVE Position!SyncedRows'
    BY DEF Position!SyncedRows
  <2>1. /\ ~ touched /\ Position!Imported' = Position!Imported
        /\ \A id \in Position!Imported : rows'[id] = rows[id]
    OBVIOUS
  <2> QED
    BY <2>1 DEF PositionInv, Position!SyncedRows
<1> QED
  BY <1>1, <1>2, <1>3, <1>4, <1>5 DEF PositionInv

\* A step that leaves the rows alone.
LEMMA RowsStay ==
  ASSUME PositionInv, rows' = rows
  PROVE  /\ Position!Imported' = Position!Imported /\ Position!Filled' = Position!Filled
         /\ OneEach'
<1>1. Position!Imported' = Position!Imported /\ Position!Filled' = Position!Filled
  BY DEF Position!Imported, Position!Filled
<1> QED
  BY <1>1 DEF PositionInv, OneEach, Position!OneRowPerRef

LEMMA TradesKeep ==
  ASSUME Position!SyncAssumption, PositionInv, Position!Trades
  PROVE  PositionInv'
<1>1. /\ UNCHANGED <<rows, ui, importing, touched>>
      /\ fills' \in Seq({"buy", "sell"}) /\ Len(fills') >= Len(fills)
  BY DEF Position!Trades, Position!DayEnds, Position!Trade, PositionInv, PositionTypes
<1>2. /\ Position!Imported' = Position!Imported /\ Position!Filled' = Position!Filled
      /\ OneEach'
  BY <1>1, RowsStay
<1>3. importing.at \in {"begin", "read"} => importing.start <= Len(fills') + 1
  <2> SUFFICES ASSUME importing.at \in {"begin", "read"} PROVE importing.start <= Len(fills') + 1
    OBVIOUS
  <2>1. importing.start \in RowStarts /\ importing.start <= Len(fills) + 1
    BY DEF PositionInv, PositionTypes, SyncRecord
  <2>2. importing.start \in Int
    <3>1. importing.start \in 1 .. MaxFills
      BY <2>1 DEF Position!SyncAssumption
    <3> QED
      BY <3>1
  <2>3. Len(fills) \in Nat /\ Len(fills') \in Nat
    BY <1>1 DEF PositionInv, PositionTypes
  <2> QED
    BY <1>1, <2>1, <2>2, <2>3
<1>4. PositionTypes'
  BY <1>1, <1>2, <1>3 DEF PositionInv, PositionTypes, Reconciled
<1> QED
  BY <1>1, <1>2, <1>4, OthersKeep

LEMMA HoldingIsNat == ASSUME NEW i \in Int PROVE Position!HoldingOf(i) \in Nat
<1> DEFINE none == {0} \cup {j \in 1 .. i : Position!Held(j) = 0}
           top == IF i > 0 THEN i ELSE 0
<1>1. none \subseteq Int /\ none # {} /\ top \in Int /\ \A j \in none : j <= top
  OBVIOUS
<1>2. \A j \in none : j \in Nat
  OBVIOUS
<1>3. Position!HoldingOf(i) = 1 + Position!Max(none)
  BY DEF Position!HoldingOf
<1> HIDE DEF none, top
<1>4. Position!Max(none) \in none
  BY <1>1, MaxIs
<1>5. Position!Max(none) \in Nat
  BY <1>2, <1>4
<1> QED
  BY <1>3, <1>5

\* What the user reads before an edit.
LEMMA ReadsKeep ==
  ASSUME Position!SyncAssumption, PositionInv,
         \/ \E id \in RowIds, quantity \in 1 .. MaxFills : Position!ReadForUpdate(id, quantity)
         \/ \E id \in RowIds : Position!ReadForClose(id)
         \/ \E id \in RowIds, hide \in BOOLEAN : Position!ReadForDelete(id, hide)
  PROVE  PositionInv'
<1>1. UNCHANGED <<fills, rows, importing, touched>>
  BY DEF Position!ReadForUpdate, Position!ReadForClose, Position!ReadForDelete, Position!account
<1>2. /\ Position!Imported' = Position!Imported /\ Position!Filled' = Position!Filled
      /\ OneEach'
  BY <1>1, RowsStay
<1>3. RowIds \subseteq Nat
  BY DEF Position!SyncAssumption
<1>4. /\ ui' \in Edit
      /\ OneAtWork /\ ui'.op = "close" =>
            importing.at = "idle" /\ ui'.id \notin Position!Imported
  <2>1. ASSUME NEW id \in RowIds, NEW quantity \in 1 .. MaxFills,
               Position!ReadForUpdate(id, quantity)
        PROVE  <1>4
    BY <1>3, <2>1 DEF Position!ReadForUpdate, Edit
  <2>2. ASSUME NEW id \in RowIds, Position!ReadForClose(id) PROVE <1>4
    <3>1. ui' \in Edit /\ ui'.id = id /\ id \in Position!Filled \ Position!Imported
      BY <1>3, <2>2 DEF Position!ReadForClose, Edit
    <3>2. OneAtWork => ~ EditsMeanwhile
      BY <3>1 DEF OneAtWork, PositionInv, PositionTypes
    <3>3. OneAtWork => importing = Position!Idle
      BY <2>2, <3>2 DEF Position!ReadForClose, Position!FreeToEdit
    <3> QED
      BY <3>1, <3>3 DEF Position!Idle
  <2>3. ASSUME NEW id \in RowIds, NEW hide \in BOOLEAN, Position!ReadForDelete(id, hide)
        PROVE  <1>4
    <3>1. id \in Position!Imported => rows[id].ref \in Refs
      BY ImportedIs, RowParts DEF PositionInv, PositionTypes
    <3> QED
      BY <1>3, <2>3, <3>1 DEF Position!ReadForDelete, Edit
  <2> QED
    BY <2>1, <2>2, <2>3
<1>5. PositionTypes'
  BY <1>1, <1>2, <1>4 DEF PositionInv, PositionTypes, Reconciled
<1> QED
  BY <1>1, <1>2, <1>5, OthersKeep

\* A row is entered by hand, into a free id.
LEMMA EntryKeeps ==
  ASSUME Position!SyncAssumption, NeverOut, PositionInv, Position!ManualEntry
  PROVE  PositionInv'
<1> PICK planned \in BOOLEAN : Position!OpenPosition(planned)
  BY DEF Position!ManualEntry
<1> DEFINE id == Position!FreshId
           row == [ref |-> Position!NoRef, open |-> TRUE, quantity |-> 1,
                   stop |-> Position!PlanStop, planned |-> planned]
<1>1. id \in RowIds /\ rows[id] = Position!Nothing
  BY FreshIs DEF PositionInv, Position!SyncAssumption
<1>2. rows' = [rows EXCEPT ![id] = row] /\ UNCHANGED <<fills, importing, ui, touched>>
  BY DEF Position!OpenPosition, Position!account
<1>3. row \in RowRecord /\ row.ref = Position!NoRef
  BY DEF Position!NoRef, Position!PlanStop, RowRecord, Refs, Position!SyncAssumption
<1>4. rows \in [RowIds -> RowRecord \cup {Position!Nothing}]
  BY DEF PositionInv, PositionTypes
<1> HIDE DEF id, row
<1>5. rows' \in [RowIds -> RowRecord \cup {Position!Nothing}]
  BY <1>2, <1>3, <1>4
<1>6. Position!Filled' = Position!Filled \cup {id} /\ id \notin Position!Filled
  BY <1>1, <1>2, <1>3, <1>4, RowParts DEF Position!Filled
<1>7. Position!Imported' = Position!Imported
  BY <1>1, <1>2, <1>3, <1>4, <1>6, RowParts DEF Position!Imported
<1>8. MaxManual # 0
  <2>1. IsFiniteSet(Position!Filled \ Position!Imported)
    BY FS_Subset DEF PositionInv, PositionTypes
  <2>2. Cardinality(Position!Filled \ Position!Imported) \in Nat
    BY <2>1, FS_CardinalityType
  <2>3. Cardinality(Position!Filled \ Position!Imported) < MaxManual
    BY RowsCount DEF Position!OpenPosition
  <2> QED
    BY <2>2, <2>3
<1>9. IsFiniteSet(Position!Filled')
  BY <1>6, FS_AddElement DEF PositionInv, PositionTypes
<1>10. PositionTypes'
  BY <1>2, <1>5, <1>7, <1>8, <1>9 DEF PositionInv, PositionTypes, Reconciled
<1>11. \A i \in RowIds \ {id} : rows'[i] = rows[i]
  BY <1>2, <1>4
<1> QED
  BY <1>2, <1>6, <1>7, <1>10, <1>11, ImportedIs, <1>4, OthersKeep

\* A write by id: of a row's numbers, of its closing, or of its end.
LEMMA WritesKeep ==
  ASSUME Position!SyncAssumption, OneAtWork \/ ClosesByHand, PositionInv,
         \/ Position!WriteUpdate \/ Position!WriteClose \/ Position!Ignore
         \/ Position!WriteDelete
  PROVE  PositionInv'
<1>1. /\ rows \in [RowIds -> RowRecord \cup {Position!Nothing}] /\ ui \in Edit
      /\ IsFiniteSet(Position!Filled)
  BY DEF PositionInv, PositionTypes
<1>2. touched' = TRUE /\ UNCHANGED <<fills, importing>>
  BY DEF Position!WriteUpdate, Position!WriteClose, Position!Ignore, Position!WriteDelete,
         Position!account
<1>3. ui' \in Edit /\ ui'.op # "close"
  <2>1. CASE Position!Ignore
    BY <1>1, <2>1 DEF Position!Ignore, Edit
  <2>2. Position!NoEdit \in Edit /\ Position!NoEdit.op # "close"
    BY DEF Position!NoEdit, Edit
  <2> QED
    BY <2>1, <2>2 DEF Position!WriteUpdate, Position!WriteClose, Position!WriteDelete
\* Each row is as it was, or gone, or has its ref and is open as it was; or is one
\* that was closed by hand.
<1>4. /\ rows' \in [RowIds -> RowRecord \cup {Position!Nothing}]
      /\ \A id \in RowIds :
            \/ rows'[id] = rows[id] \/ rows'[id] = Position!Nothing
            \/ /\ rows[id] \in RowRecord /\ rows'[id] \in RowRecord
               /\ rows'[id].ref = rows[id].ref
               /\ rows'[id].open = rows[id].open \/ id \notin Position!Imported
  <2>1. CASE Position!Ignore
    BY <1>1, <2>1 DEF Position!Ignore
  <2>2. CASE Position!WriteDelete
    BY <1>1, <2>2 DEF Position!WriteDelete
  <2>3. CASE Position!WriteClose
    <3>1. ui.id \notin Position!Imported
      BY <2>3 DEF Position!WriteClose, PositionInv, PositionTypes, ClosesByHand
    <3>2. CASE ui.id \in Position!Filled
      <4>1. rows[ui.id] \in RowRecord /\ ui.id \in RowIds
        BY <1>1, <3>2, ImportedIs
      <4>2. rows' = [rows EXCEPT ![ui.id].open = FALSE]
        BY <2>3, <3>2 DEF Position!WriteClose
      <4>3. [rows[ui.id] EXCEPT !.open = FALSE] \in RowRecord
        BY <4>1 DEF RowRecord
      <4>4. [rows[ui.id] EXCEPT !.open = FALSE].ref = rows[ui.id].ref
        BY <4>1 DEF RowRecord
      <4> QED
        BY <1>1, <3>1, <4>1, <4>2, <4>3, <4>4
    <3>3. CASE ui.id \notin Position!Filled
      BY <1>1, <2>3, <3>3 DEF Position!WriteClose
    <3> QED
      BY <3>2, <3>3
  <2>4. CASE Position!WriteUpdate
    <3> DEFINE id == ui.id
               meant == Position!Meant(rows[id].ref)
    <3>1. CASE id \notin Position!Filled
      BY <1>1, <2>4, <3>1 DEF Position!WriteUpdate
    <3>2. CASE id \in Position!Filled
      <4>1. rows[id] \in RowRecord /\ id \in RowIds /\ ui.quantity \in Int
        <5>1. ui.op = "update"
          BY <2>4 DEF Position!WriteUpdate
        <5> QED
          BY <1>1, <3>2, <5>1, ImportedIs DEF Edit
      <4>2. PICK stop \in Nat : rows' = [rows EXCEPT ![id].quantity = ui.quantity,
                                                   ![id].stop = stop]
        <5>1. CASE id \in Position!Imported /\ rows[id].open
          <6>1. rows[id].ref.day = 0
            BY <5>1 DEF PositionInv, OneEach
          <6>2. rows[id].ref.episode \in Int
            BY <4>1 DEF RowRecord, Refs
          <6>3. meant.held \in Nat
            BY <6>1, <6>2, HoldingIsNat DEF Position!Meant
          <6>4. rows' = [rows EXCEPT ![id].quantity = ui.quantity, ![id].stop = meant.held]
            BY <2>4, <3>2, <5>1 DEF Position!WriteUpdate
          <6> HIDE DEF meant, id
          <6> QED
            BY <6>3, <6>4
        <5>2. CASE ~ (id \in Position!Imported /\ rows[id].open)
          <6>1. Position!PlanStop \in Nat
            BY DEF Position!PlanStop, Position!SyncAssumption
          <6>2. rows' = [rows EXCEPT ![id].quantity = ui.quantity,
                                     ![id].stop = Position!PlanStop]
            BY <2>4, <3>2, <5>2 DEF Position!WriteUpdate
          <6> HIDE DEF id
          <6> QED
            BY <6>1, <6>2
        <5> QED
          BY <5>1, <5>2
      <4> DEFINE new == [rows[id] EXCEPT !.quantity = ui.quantity, !.stop = stop]
      <4>3. new \in RowRecord /\ new.ref = rows[id].ref /\ new.open = rows[id].open
        BY <4>1 DEF RowRecord
      <4>4. rows' = [rows EXCEPT ![id] = new]
        BY <1>1, <4>1, <4>2
      <4> HIDE DEF id, new
      <4> QED
        BY <1>1, <4>1, <4>3, <4>4
    <3> QED
      BY <3>1, <3>2
  <2> QED
    BY <2>1, <2>2, <2>3, <2>4
<1>5. Position!Filled' \subseteq Position!Filled
  BY <1>1, <1>4, RowParts DEF Position!Filled
<1>6. \A id \in Position!Imported' :
         /\ id \in Position!Imported
         /\ rows'[id].ref = rows[id].ref /\ rows'[id].open = rows[id].open
  BY <1>1, <1>4, RowParts DEF Position!Imported, Position!Filled
<1>7. MaxManual = 0 => Position!Filled' = Position!Imported'
  BY <1>1, <1>4, <1>5, RowParts DEF PositionInv, PositionTypes, Position!Imported,
     Position!Filled
<1>8. IsFiniteSet(Position!Filled')
  BY <1>1, <1>5, FS_Subset
<1>9. PositionTypes'
  BY <1>2, <1>3, <1>4, <1>7, <1>8 DEF PositionInv, PositionTypes, Reconciled
<1> QED
  BY <1>2, <1>6, <1>9, OthersKeep

\* The sync's steps up to the first row it saves, and its end.
LEMMA QuietStepsKeep ==
  ASSUME Position!SyncAssumption, PositionInv,
         \/ \E from \in RowStarts, restore \in BOOLEAN : Position!StartSync(from, restore)
         \/ Position!Restore \/ Position!ReadAccount \/ Position!Fail \/ Position!ReadIgnored
         \/ Position!Reload \/ Position!Restart
  PROVE  PositionInv'
<1>1. UNCHANGED <<fills, rows>> /\ touched' \in BOOLEAN
  BY DEF Position!StartSync, Position!Restore, Position!ReadAccount, Position!Fail,
         Position!ReadIgnored, Position!Reload, Position!Restart, Position!account,
         PositionInv, PositionTypes
<1>2. /\ Position!Imported' = Position!Imported /\ Position!Filled' = Position!Filled
      /\ OneEach'
  BY <1>1, RowsStay
<1>3. ui' = ui \/ ui' = Position!NoEdit
  BY DEF Position!StartSync, Position!Restore, Position!ReadAccount, Position!Fail,
         Position!ReadIgnored, Position!Reload, Position!Restart
<1>4. Position!NoEdit \in Edit /\ Position!NoEdit.op # "close"
  BY DEF Position!NoEdit, Edit
\* What the sync is at: before it has read the rows, or after it has left them.
<1>5. /\ importing' \in SyncRecord /\ importing'.at \in {"idle", "begin", "read", "reconcile",
                                                         "existing"}
      /\ importing'.at \in {"begin", "read"} => importing'.start <= Len(fills) + 1
      /\ importing'.at \in {"reconcile", "existing"} => WantedOK(importing'.wanted)
      /\ importing'.at = "idle" \/ (OneAtWork => ui'.op # "close")
  <2>1. Position!Idle \in SyncRecord /\ Position!Idle.at = "idle"
    BY DEF Position!Idle, SyncRecord
  <2>2. ASSUME NEW from \in RowStarts, NEW restore \in BOOLEAN,
               Position!StartSync(from, restore)
        PROVE  <1>5
    <3>1. importing' = [at |-> "begin", start |-> from, restore |-> restore]
      BY <2>2 DEF Position!StartSync
    <3>2. from <= Len(fills) + 1
      <4>1. Len(fills) \in Nat
        BY DEF PositionInv, PositionTypes
      <4>2. from = 1 \/ from <= Len(fills) + 1 \/ from <= Len(fills) - 1
        BY <2>2 DEF Position!StartSync
      <4>3. from \in 1 .. MaxFills
        BY DEF Position!SyncAssumption
      <4> QED
        BY <4>1, <4>2, <4>3
    <3>3. (OneAtWork => ui'.op # "close")
      BY <2>2, <1>4 DEF Position!StartSync
    <3> QED
      BY <3>1, <3>2, <3>3 DEF SyncRecord
  <2>3. CASE Position!Restore
    <3>1. importing.at = "begin" /\ importing' = [at |-> "read", start |-> importing.start]
      BY <2>3 DEF Position!Restore
    <3>2. /\ importing.start \in RowStarts /\ importing.start <= Len(fills) + 1
          /\ OneAtWork => ui.op # "close"
      BY <3>1 DEF PositionInv, PositionTypes, SyncRecord
    <3> QED
      BY <1>3, <1>4, <3>1, <3>2 DEF SyncRecord
  <2>4. CASE Position!ReadAccount
    <3> DEFINE wanted == Position!Positions(importing.start)
    <3>1. importing.at = "read" /\ importing' = [at |-> "reconcile", wanted |-> wanted]
      BY <2>4 DEF Position!ReadAccount
    <3>2. /\ importing.start \in RowStarts /\ importing.start <= Len(fills) + 1
          /\ OneAtWork => ui.op # "close"
      BY <3>1 DEF PositionInv, PositionTypes, SyncRecord
    <3>3. importing.start \in Nat \ {0}
      <4>1. importing.start \in 1 .. MaxFills
        BY <3>2 DEF Position!SyncAssumption
      <4> QED
        BY <4>1
    <3>4. WantedOK(wanted)
      BY <3>2, <3>3, PositionsAreWanted DEF PositionInv, PositionTypes
    <3> HIDE DEF wanted
    <3> QED
      BY <1>3, <1>4, <3>1, <3>2, <3>4 DEF SyncRecord, WantedOK
  <2>5. CASE Position!ReadIgnored
    <3> DEFINE wanted == {p \in importing.wanted : p.ref \notin ignored}
    <3>1. importing.at = "reconcile" /\ importing' = [at |-> "existing", wanted |-> wanted]
      BY <2>5 DEF Position!ReadIgnored
    <3>2. WantedOK(importing.wanted) /\ (OneAtWork => ui.op # "close")
      BY <3>1 DEF PositionInv, PositionTypes, Reconciled
    <3>3. WantedOK(wanted)
      BY <3>2 DEF WantedOK
    <3> HIDE DEF wanted
    <3> QED
      BY <1>3, <1>4, <3>1, <3>2, <3>3 DEF SyncRecord, WantedOK
  <2>6. CASE Position!Fail \/ Position!Reload \/ Position!Restart
    BY <2>1, <2>6 DEF Position!Fail, Position!Reload, Position!Restart
  <2> QED
    BY <2>2, <2>3, <2>4, <2>5, <2>6
<1>6. OneAtWork /\ ui'.op = "close" => importing'.at = "idle" /\ ui'.id \notin Position!Imported
  BY <1>3, <1>4, <1>5 DEF PositionInv, PositionTypes
<1>7. PositionTypes'
  BY <1>1, <1>2, <1>3, <1>4, <1>5, <1>6 DEF PositionInv, PositionTypes, Reconciled
<1> QED
  BY <1>2, <1>5, <1>7 DEF PositionInv, Saving, Position!SyncedRows

\* The rows are read: each has the ref that it has.
LEMMA ReadExistingKeeps ==
  ASSUME Position!SyncAssumption, PositionInv, Position!ReadExisting
  PROVE  PositionInv'
<1> DEFINE AsRead(id) == [id |-> id, ref |-> rows[id].ref, open |-> rows[id].open]
           existing == {AsRead(id) : id \in Position!Imported}
           wanted == importing.wanted
           stale == {r \in existing : r.open /\ r.ref \notin RefsOf(wanted)}
<1>1. /\ importing.at = "existing" /\ UNCHANGED <<fills, rows, ui, touched>>
      /\ importing' = [at |-> "plans", wanted |-> wanted, existing |-> existing,
                       stale |-> stale]
  BY DEF Position!ReadExisting, Position!account, RefsOf
<1>2. WantedOK(wanted) /\ (OneAtWork => ui.op # "close") /\ IsFiniteSet(Position!Filled)
  BY <1>1 DEF PositionInv, PositionTypes, Reconciled
<1>3. /\ Position!Imported' = Position!Imported /\ Position!Filled' = Position!Filled
      /\ OneEach'
  BY <1>1, RowsStay
<1>4. \A id \in Position!Imported : /\ id \in RowIds /\ rows[id] \in RowRecord
                                    /\ rows[id].ref # Position!NoRef
  BY ImportedIs DEF PositionInv, PositionTypes
<1>5. existing \subseteq ReadRow
  BY <1>4 DEF RowRecord, ReadRow
<1>6. /\ \A id \in Position!Imported : AsRead(id) \in existing
      /\ \A r \in existing : r.id \in Position!Imported /\ r = AsRead(r.id)
  OBVIOUS
<1>7. \A id : AsRead(id).id = id /\ AsRead(id).ref = rows[id].ref /\ AsRead(id).open = rows[id].open
  OBVIOUS
<1> HIDE DEF AsRead, existing
<1>8. ReadApart(existing)
  <2>1. {r.id : r \in existing} \subseteq Position!Filled
    BY <1>6, ImportedIs DEF PositionInv, PositionTypes
  <2>2. IsFiniteSet({r.id : r \in existing})
    BY <1>2, <2>1, FS_Subset
  <2>3. \A r \in existing : r.ref # Position!NoRef /\ (r.open <=> r.ref.day = 0)
    BY <1>4, <1>6, <1>7 DEF PositionInv, OneEach
  <2>4. \A r, q \in existing : r.ref = q.ref \/ r.id = q.id \/ (r.open /\ q.open) => r = q
    BY <1>6, <1>7 DEF PositionInv, OneEach, Position!OneRowPerRef
  <2> QED
    BY <2>2, <2>3, <2>4 DEF ReadApart
<1>9. Todo' = wanted /\ Done' = {} /\ importing'.at = "plans"
  BY <1>1 DEF Todo, Done
<1>10. KnownRows'
  <2>1. \A id \in Position!Imported : \E r \in existing : r.ref = rows[id].ref /\ r.id = id
    BY <1>6, <1>7
  <2>2. stale \subseteq existing /\ (\A r \in stale : r.open /\ r.ref \notin RefsOf(wanted))
        /\ \A r \in existing : r.open /\ r.ref \notin RefsOf(wanted) => r \in stale
    OBVIOUS
  <2> HIDE DEF stale
  <2> QED
    BY <1>1, <1>3, <1>8, <1>9, <2>1, <2>2 DEF KnownRows
<1>11. Undisturbed'
  <2>1. RefsOf({}) = {}
    BY DEF RefsOf
  <2>2. ASSUME NEW id \in Position!Imported
        PROVE  \E r \in existing : /\ r.ref = rows[id].ref
                                   /\ r.open /\ r.ref \notin RefsOf(wanted) => r \in stale
    BY <1>6, <1>7
  <2>3. \A r \in stale : r.id \in Position!Imported /\ rows[r.id].ref = r.ref
    BY <1>6, <1>7
  <2> HIDE DEF stale
  <2> QED
    BY <1>1, <1>3, <1>9, <2>1, <2>2, <2>3 DEF Undisturbed
<1>12. PositionTypes'
  <2>1. importing' \in SyncRecord
    BY <1>1, <1>2, <1>5 DEF SyncRecord, WantedOK
  <2> QED
    BY <1>1, <1>2, <1>3, <2>1 DEF PositionInv, PositionTypes, Reconciled
<1> QED
  BY <1>3, <1>9, <1>10, <1>11, <1>12 DEF PositionInv, Saving, Position!SyncedRows

LEMMA ReadPlansKeeps ==
  ASSUME Position!SyncAssumption, PositionInv, Position!ReadPlans
  PROVE  PositionInv'
<1>1. /\ importing.at = "plans" /\ UNCHANGED <<fills, rows, ui, touched>>
      /\ importing' = [at |-> "save", wanted |-> importing.wanted,
                       existing |-> importing.existing, stale |-> importing.stale,
                       plans |-> Position!OpenPlans, todo |-> importing.wanted]
  BY DEF Position!ReadPlans, Position!account
<1>2. /\ Position!Imported' = Position!Imported /\ Position!Filled' = Position!Filled
      /\ OneEach'
  BY <1>1, RowsStay
<1>3. /\ WantedOK(importing.wanted) /\ IsFiniteSet(Position!Filled)
      /\ OneAtWork => ui.op # "close"
      /\ importing.wanted \subseteq Wanted /\ importing.existing \subseteq ReadRow
      /\ importing.stale \subseteq ReadRow
  BY <1>1 DEF PositionInv, PositionTypes, Reconciled, SyncRecord
<1>4. /\ Position!OpenPlans \subseteq Position!Filled \ Position!Imported
      /\ Position!OpenPlans \subseteq RowIds /\ IsFiniteSet(Position!OpenPlans)
  <2>1. Position!OpenPlans \subseteq Position!Filled \ Position!Imported
    BY DEF Position!OpenPlans
  <2> QED
    BY <1>3, <2>1, FS_Subset DEF Position!Filled
<1>5. Todo = importing.wanted /\ Todo' = Todo /\ Done' = Done /\ importing'.at = "save"
  BY <1>1 DEF Todo, Done
<1>6. KnownRows'
  BY <1>1, <1>2, <1>4, <1>5 DEF PositionInv, KnownRows, Saving
<1>7. ~ touched => Undisturbed'
  BY <1>1, <1>2, <1>4, <1>5 DEF PositionInv, Undisturbed, Saving
<1>8. PositionTypes'
  <2>1. importing' \in SyncRecord
    BY <1>1, <1>3, <1>4 DEF SyncRecord
  <2> QED
    BY <1>1, <1>2, <1>3, <2>1 DEF PositionInv, PositionTypes, Reconciled
<1> QED
  BY <1>1, <1>2, <1>5, <1>6, <1>7, <1>8 DEF PositionInv, Saving, Position!SyncedRows

\* What the sync is at after it has saved p.
SavedNext(p, plans, stale) ==
    importing' = [importing EXCEPT !.plans = plans, !.stale = stale, !.todo = @ \ {p}]

LEMMA SavedRecord ==
  ASSUME PositionInv, importing.at = "save", NEW p \in importing.todo,
         NEW plans \in SUBSET importing.plans, NEW stale \in SUBSET importing.stale,
         SavedNext(p, plans, stale)
  PROVE  /\ importing' \in SyncRecord /\ importing'.at = "save"
         /\ importing'.wanted = importing.wanted /\ importing'.existing = importing.existing
         /\ importing'.plans = plans /\ importing'.stale = stale
         /\ Todo' = Todo \ {p} /\ Done' = Done \cup {p} /\ p \in Todo /\ p \notin Done
<1>1. importing \in [at : {"save"}, wanted : SUBSET Wanted, existing : SUBSET ReadRow,
                     stale : SUBSET ReadRow, plans : SUBSET RowIds, todo : SUBSET Wanted]
  BY DEF PositionInv, PositionTypes, SyncRecord
<1>2. /\ importing'.at = "save" /\ importing'.wanted = importing.wanted
      /\ importing'.existing = importing.existing /\ importing'.plans = plans
      /\ importing'.stale = stale /\ importing'.todo = importing.todo \ {p}
  BY <1>1 DEF SavedNext
<1>3. importing' \in [at : {"save"}, wanted : SUBSET Wanted, existing : SUBSET ReadRow,
                      stale : SUBSET ReadRow, plans : SUBSET RowIds, todo : SUBSET Wanted]
  BY <1>1 DEF SavedNext
<1>4. importing.todo \subseteq importing.wanted
  BY DEF PositionInv, KnownRows, Saving, Todo
<1> QED
  BY <1>2, <1>3, <1>4 DEF SyncRecord, Todo, Done

\* In each case: a row that is open and wanted by nobody is the one to be taken over.
LEMMA SavedKnown ==
  ASSUME PositionInv, importing.at = "save", NEW p \in importing.todo,
         NEW plans \in SUBSET importing.plans, NEW stale \in SUBSET importing.stale,
         SavedNext(p, plans, stale), stale = importing.stale \/ p.open,
         \A id \in Position!Imported' : \/ rows'[id].ref = p.ref
                                        \/ /\ id \in Position!Imported
                                           /\ rows'[id].ref = rows[id].ref
  PROVE  KnownRows'
<1>1. /\ importing'.at = "save" /\ importing'.wanted = importing.wanted
      /\ importing'.existing = importing.existing /\ importing'.plans = plans
      /\ importing'.stale = stale
      /\ Todo' = Todo \ {p} /\ Done' = Done \cup {p} /\ p \in Todo /\ p \notin Done
  BY SavedRecord
<1>2. KnownRows /\ WantedOK(importing.wanted)
  BY DEF PositionInv, Saving, PositionTypes, Reconciled
<1>3. IsFiniteSet(plans)
  BY <1>2, FS_Subset DEF KnownRows
<1>4. RefsOf(Done \cup {p}) = RefsOf(Done) \cup {p.ref}
  BY DEF RefsOf
<1>5. ASSUME p.open PROVE \A q \in Todo \ {p} : ~ q.open
  <2>1. Todo \subseteq importing.wanted
    BY <1>2 DEF KnownRows
  <2> QED
    BY <1>1, <1>2, <1>5, <2>1 DEF WantedOK
<1>6. \A id \in Position!Imported' :
         \/ rows'[id].ref \in RefsOf(Done \cup {p})
         \/ \E r \in importing.existing :
               r.ref = rows'[id].ref /\ (r.id = id \/ r.ref \in RefsOf(importing.wanted))
  BY <1>2, <1>4 DEF KnownRows
<1>7. \A r \in importing.existing :
         r.open /\ r.ref \notin RefsOf(importing.wanted) /\ (\E q \in Todo \ {p} : q.open)
         => r \in stale
  BY <1>2, <1>5 DEF KnownRows
<1>8. /\ ReadApart(importing.existing) /\ stale \subseteq importing.existing
      /\ \A r \in stale : r.open /\ r.ref \notin RefsOf(importing.wanted)
      /\ Todo \ {p} \subseteq importing.wanted
  BY <1>2 DEF KnownRows
<1>9. RefsOf(importing.wanted)' = RefsOf(importing.wanted) /\ RefsOf(Done)' = RefsOf(Done \cup {p})
      /\ ReadApart(importing.existing)' = ReadApart(importing.existing)
  BY <1>1 DEF RefsOf, ReadApart
<1> QED
  BY <1>1, <1>3, <1>6, <1>7, <1>8, <1>9 DEF KnownRows

\* p is saved into x, which is the only row with its ref, and the only open one if p is.
LEMMA SavedInto ==
  ASSUME PositionInv, importing.at = "save", NEW p \in importing.todo,
         NEW plans \in SUBSET importing.plans, NEW stale \in SUBSET importing.stale,
         SavedNext(p, plans, stale), stale = importing.stale \/ p.open,
         UNCHANGED <<fills, ui, touched>>,
         NEW x \in RowIds, NEW row \in RowRecord, Shows(row, p), rows' = [rows EXCEPT ![x] = row],
         \A id \in Position!Imported \ {x} : rows[id].ref # p.ref /\ ~ (p.open /\ rows[id].open),
         ~ touched => /\ \A r \in importing.stale : r \in stale <=> r.id # x
                      /\ x \notin plans
                      /\ x \in Position!Imported => rows[x].ref \notin RefsOf(Done)
  PROVE  PositionInv'
<1>1. /\ importing' \in SyncRecord /\ importing'.at = "save"
      /\ importing'.wanted = importing.wanted /\ importing'.existing = importing.existing
      /\ importing'.plans = plans /\ importing'.stale = stale
      /\ Todo' = Todo \ {p} /\ Done' = Done \cup {p} /\ p \in Todo /\ p \notin Done
  BY SavedRecord
<1>2. /\ WantedOK(importing.wanted) /\ (OneAtWork => ui.op # "close") /\ KnownRows
      /\ rows \in [RowIds -> RowRecord \cup {Position!Nothing}] /\ IsFiniteSet(Position!Filled)
      /\ p \in importing.wanted
  BY <1>1 DEF PositionInv, PositionTypes, Reconciled, Saving, KnownRows
<1>3. p.ref # Position!NoRef /\ (p.open <=> p.ref.day = 0)
  BY <1>2 DEF WantedOK
<1>4. /\ rows' \in [RowIds -> RowRecord \cup {Position!Nothing}] /\ rows'[x] = row
      /\ \A id \in RowIds \ {x} : rows'[id] = rows[id]
      /\ row.ref = p.ref /\ row.open = p.open
  BY <1>2 DEF Shows
<1>5. /\ Position!Imported' = Position!Imported \cup {x}
      /\ Position!Filled' = Position!Filled \cup {x}
  <2>1. row # Position!Nothing
    BY RowParts
  <2>2. Position!Filled' = Position!Filled \cup {x}
    BY <1>4, <2>1 DEF Position!Filled
  <2> QED
    BY <1>3, <1>4, <2>2 DEF Position!Imported
<1>6. OneEach'
  <2>1. ASSUME NEW i \in Position!Imported', NEW j \in Position!Imported',
               rows'[i].ref = rows'[j].ref \/ (rows'[i].open /\ rows'[j].open)
        PROVE  i = j
    <3>1. OneEach /\ Position!Imported \subseteq RowIds
      BY <1>2, ImportedIs DEF PositionInv
    <3>2. CASE i = x \/ j = x
      BY <1>4, <1>5, <2>1, <3>1, <3>2
    <3>3. CASE i # x /\ j # x
      BY <1>4, <1>5, <2>1, <3>1, <3>3 DEF OneEach, Position!OneRowPerRef
    <3> QED
      BY <3>2, <3>3
  <2>2. \A id \in Position!Imported' : rows'[id].open <=> rows'[id].ref.day = 0
    <3>1. OneEach /\ Position!Imported \subseteq RowIds
      BY <1>2, ImportedIs DEF PositionInv
    <3> QED
      BY <1>3, <1>4, <1>5, <3>1 DEF OneEach
  <2> QED
    BY <2>1, <2>2 DEF OneEach, Position!OneRowPerRef
<1>7. KnownRows'
  <2>1. \A id \in Position!Imported' : \/ rows'[id].ref = p.ref
                                       \/ /\ id \in Position!Imported
                                          /\ rows'[id].ref = rows[id].ref
    BY <1>4, <1>5, <1>2, ImportedIs
  <2> QED
    BY <2>1, SavedKnown
<1>8. ASSUME ~ touched PROVE Undisturbed'
  <2>1. Undisturbed /\ Position!Imported \subseteq RowIds
    BY <1>2, <1>8, ImportedIs DEF PositionInv, Saving
  <2>2. ASSUME NEW q \in Done \cup {p} PROVE \E id \in Position!Imported' : Shows(rows'[id], q)
    <3>1. CASE q = p
      BY <1>4, <1>5, <3>1
    <3>2. CASE q # p
      <4>1. PICK id \in Position!Imported : Shows(rows[id], q)
        BY <2>1, <2>2, <3>2 DEF Undisturbed
      <4>2. rows[id].ref \in RefsOf(Done)
        BY <2>2, <3>2, <4>1 DEF Shows, RefsOf
      <4>3. id # x
        BY <1>8, <4>1, <4>2
      <4> QED
        BY <1>4, <1>5, <2>1, <4>1, <4>3
    <3> QED
      BY <3>1, <3>2
  <2>3. ASSUME NEW id \in Position!Imported'
        PROVE  \/ \E q \in Done \cup {p} : Shows(rows'[id], q)
               \/ \E r \in importing.existing :
                     /\ r.ref = rows'[id].ref /\ r.ref \notin RefsOf(Done \cup {p})
                     /\ r.open /\ r.ref \notin RefsOf(importing.wanted) => r \in stale
    <3>1. CASE id = x
      BY <1>4, <3>1
    <3>2. CASE id # x
      <4>1. id \in Position!Imported /\ rows'[id] = rows[id] /\ rows[id].ref # p.ref
        BY <1>4, <1>5, <2>1, <3>2
      <4>2. CASE \E q \in Done : Shows(rows[id], q)
        BY <4>1, <4>2
      <4>3. CASE \E r \in importing.existing :
                    /\ r.ref = rows[id].ref /\ r.ref \notin RefsOf(Done)
                    /\ r.open /\ r.ref \notin RefsOf(importing.wanted)
                          => r \in importing.stale
        <5>1. PICK r \in importing.existing :
                 /\ r.ref = rows[id].ref /\ r.ref \notin RefsOf(Done)
                 /\ r.open /\ r.ref \notin RefsOf(importing.wanted) => r \in importing.stale
          BY <4>3
        <5>2. r.ref \notin RefsOf(Done \cup {p})
          BY <4>1, <5>1 DEF RefsOf
        <5>3. r \in importing.stale => r \in stale
          <6>1. SUFFICES ASSUME r \in importing.stale PROVE r.id # x
            BY <1>8
          <6>2. r.id \in Position!Imported /\ rows[r.id].ref = r.ref
            BY <2>1, <6>1 DEF Undisturbed
          <6>3. r.id = id
            BY <4>1, <5>1, <6>2 DEF PositionInv, OneEach, Position!OneRowPerRef
          <6> QED
            BY <3>2, <6>3
        <5> QED
          BY <4>1, <5>1, <5>2, <5>3
      <4> QED
        BY <2>1, <4>1, <4>2, <4>3 DEF Undisturbed
    <3> QED
      BY <3>1, <3>2
  <2>4. \A r \in stale : r.id \in Position!Imported' /\ rows'[r.id].ref = r.ref
    BY <1>4, <1>5, <1>8, <2>1 DEF Undisturbed
  <2>5. \A id \in plans : id \in Position!Filled' \ Position!Imported'
    BY <1>5, <1>8, <2>1 DEF Undisturbed
  <2>6. /\ RefsOf(importing.wanted)' = RefsOf(importing.wanted)
        /\ RefsOf(Done)' = RefsOf(Done \cup {p})
    BY <1>1 DEF RefsOf
  <2> QED
    BY <1>1, <2>2, <2>3, <2>4, <2>5, <2>6 DEF Undisturbed, Shows
<1>9. PositionTypes'
  <2>1. IsFiniteSet(Position!Filled')
    BY <1>2, <1>5, FS_AddElement
  <2>2. MaxManual = 0 => Position!Filled' = Position!Imported'
    BY <1>5 DEF PositionInv, PositionTypes
  <2> QED
    BY <1>1, <1>2, <1>4, <2>1, <2>2 DEF PositionInv, PositionTypes, Reconciled
<1> QED
  BY <1>1, <1>6, <1>7, <1>8, <1>9 DEF PositionInv, Saving, Position!SyncedRows

\* p is saved into a row that the user deleted meanwhile: nothing comes of it.
LEMMA SavedNowhere ==
  ASSUME PositionInv, importing.at = "save", NEW p \in importing.todo,
         NEW plans \in SUBSET importing.plans, NEW stale \in SUBSET importing.stale,
         SavedNext(p, plans, stale), p.open, touched,
         UNCHANGED <<fills, rows, ui, touched>>
  PROVE  PositionInv'
<1>1. /\ importing' \in SyncRecord /\ importing'.at = "save"
      /\ importing'.wanted = importing.wanted
  BY SavedRecord
<1>2. /\ Position!Imported' = Position!Imported /\ Position!Filled' = Position!Filled
      /\ OneEach'
  BY RowsStay
<1>3. KnownRows'
  BY <1>2, SavedKnown
<1>4. PositionTypes'
  BY <1>1, <1>2 DEF PositionInv, PositionTypes, Reconciled
<1> QED
  BY <1>1, <1>2, <1>3, <1>4 DEF PositionInv, Saving, Position!SyncedRows

\* No row but those that a new open position could take over is open.
LEMMA OpenIsStale ==
  ASSUME PositionInv, importing.at = "save", NEW p \in importing.todo, p.open,
         NEW id \in Position!Imported, rows[id].open
  PROVE  \E r \in importing.existing :
            /\ r.open /\ r.ref = rows[id].ref
            /\ r.ref = p.ref \/ (r.id = id /\ r \in importing.stale)
<1>1. KnownRows /\ WantedOK(importing.wanted) /\ OneEach
  BY DEF PositionInv, Saving, PositionTypes, Reconciled
<1>2. p \in importing.wanted /\ p \in Todo /\ p \notin Done /\ p.ref.day = 0
  BY <1>1 DEF KnownRows, Todo, Done, WantedOK
<1>3. rows[id].ref.day = 0
  BY <1>1 DEF OneEach
<1>4. \A q \in importing.wanted : q.ref.day = 0 => q = p
  BY <1>1, <1>2 DEF WantedOK
<1>5. rows[id].ref \notin RefsOf(Done)
  BY <1>2, <1>3, <1>4 DEF RefsOf, Done
<1>6. PICK r \in importing.existing :
         r.ref = rows[id].ref /\ (r.id = id \/ r.ref \in RefsOf(importing.wanted))
  BY <1>1, <1>5 DEF KnownRows
<1>7. r.open
  BY <1>1, <1>3, <1>6 DEF KnownRows, ReadApart
<1>8. r.ref \in RefsOf(importing.wanted) => r.ref = p.ref
  BY <1>3, <1>4, <1>6 DEF RefsOf
<1>9. r.ref \notin RefsOf(importing.wanted) => r \in importing.stale
  BY <1>1, <1>2, <1>7 DEF KnownRows
<1> QED
  BY <1>6, <1>7, <1>8, <1>9

\* A new open position has no row yet.
LEMMA NewHasNoRow ==
  ASSUME PositionInv, importing.at = "save", NEW p \in importing.todo, Position!IsNew(p),
         NEW id \in Position!Imported
  PROVE  rows[id].ref # p.ref
<1> SUFFICES ASSUME rows[id].ref = p.ref PROVE FALSE
  OBVIOUS
<1>1. p.open /\ \A r \in importing.existing : r.ref # p.ref
  BY DEF Position!IsNew
<1>2. rows[id].open
  <2>1. WantedOK(importing.wanted) /\ p \in importing.wanted
    BY DEF PositionInv, Saving, PositionTypes, Reconciled, KnownRows, Todo
  <2>2. p.ref.day = 0
    BY <1>1, <2>1 DEF WantedOK
  <2> QED
    BY <2>2 DEF PositionInv, OneEach
<1>3. PICK r \in importing.existing : r.ref = rows[id].ref
  BY <1>1, <1>2, OpenIsStale
<1> QED
  BY <1>1, <1>3

LEMMA SavingFacts ==
  ASSUME PositionInv, importing.at = "save", NEW p \in importing.todo
  PROVE  /\ rows \in [RowIds -> RowRecord \cup {Position!Nothing}]
         /\ Position!Imported \subseteq RowIds /\ Position!Filled \subseteq RowIds
         /\ \A id \in Position!Filled : rows[id] \in RowRecord
         /\ importing.stale \subseteq ReadRow /\ importing.plans \subseteq RowIds
         /\ WantedOK(importing.wanted) /\ p \in importing.wanted /\ p \notin Done
         /\ p \in Wanted /\ KnownRows
         /\ \A q \in importing.wanted : q.ref = p.ref => q = p
         /\ p.ref \notin RefsOf(Done)
<1>1. /\ rows \in [RowIds -> RowRecord \cup {Position!Nothing}]
      /\ WantedOK(importing.wanted) /\ KnownRows
  BY DEF PositionInv, PositionTypes, Reconciled, Saving
<1>2. importing.stale \subseteq ReadRow /\ importing.plans \subseteq RowIds
  BY DEF PositionInv, PositionTypes, SyncRecord
<1>3. p \in importing.wanted /\ p \notin Done
  BY <1>1 DEF KnownRows, Todo, Done
<1>4. p \in Wanted /\ \A q \in importing.wanted : q.ref = p.ref => q = p
  BY <1>1, <1>3 DEF WantedOK
<1>5. p.ref \notin RefsOf(Done)
  BY <1>3, <1>4 DEF RefsOf, Done
<1> QED
  BY <1>1, <1>2, <1>3, <1>4, <1>5, ImportedIs

\* The broker's part of a row that is there.
LEMMA RefreshedIs ==
  ASSUME NEW old \in RowRecord, NEW p \in Wanted
  PROVE  Position!Refreshed(old, p) \in RowRecord /\ Shows(Position!Refreshed(old, p), p)
BY DEF RowRecord, Wanted, Position!Refreshed, Shows

LEMMA NewRowIs ==
  ASSUME NEW p \in Wanted
  PROVE  Position!NewRow(p) \in RowRecord /\ Shows(Position!NewRow(p), p)
BY DEF RowRecord, Wanted, Position!NewRow, Position!NoStop, Shows

LEMMA SaveOverStaleKeeps ==
  ASSUME PositionInv, importing.at = "save", NEW p \in importing.todo,
         Position!SaveOverStale(p), UNCHANGED <<fills, ui, touched>>
  PROVE  PositionInv'
<1>1. PICK r \in importing.stale :
         /\ Position!SaveInto(r.id, p)
         /\ importing' = [importing EXCEPT !.stale = @ \ {r}, !.todo = @ \ {p}]
  BY DEF Position!SaveOverStale
<1>2. Position!IsNew(p) /\ p.open
  BY DEF Position!SaveOverStale, Position!IsNew
<1> DEFINE x == r.id
           stale == importing.stale \ {r}
<1>3. SavedNext(p, importing.plans, stale)
  <2>1. importing \in [at : {"save"}, wanted : SUBSET Wanted, existing : SUBSET ReadRow,
                       stale : SUBSET ReadRow, plans : SUBSET RowIds, todo : SUBSET Wanted]
    BY DEF PositionInv, PositionTypes, SyncRecord
  <2> QED
    BY <1>1, <2>1 DEF SavedNext
<1>4. /\ rows \in [RowIds -> RowRecord \cup {Position!Nothing}] /\ x \in RowIds
      /\ p \in Wanted /\ KnownRows
      /\ \A id \in Position!Filled : rows[id] \in RowRecord
  BY SavingFacts DEF ReadRow
<1>5. r \in importing.existing /\ r.open /\ r.ref \notin RefsOf(importing.wanted)
  BY <1>4 DEF KnownRows
<1>6. ~ touched => x \in Position!Imported /\ rows[x].ref = r.ref
  BY DEF PositionInv, Saving, Undisturbed
<1>7. CASE x \notin Position!Filled
  <2>1. rows' = rows
    BY <1>1, <1>7 DEF Position!SaveInto
  <2>2. touched
    BY <1>6, <1>7 DEF Position!Imported, PositionInv, PositionTypes
  <2> HIDE DEF x, stale
  <2> QED
    BY <1>2, <1>3, <2>1, <2>2, SavedNowhere DEF stale
<1>8. CASE x \in Position!Filled
  <2> DEFINE row == Position!Refreshed(rows[x], p)
  <2>1. rows' = [rows EXCEPT ![x] = row]
    BY <1>1, <1>8 DEF Position!SaveInto
  <2>2. row \in RowRecord /\ Shows(row, p)
    BY <1>4, <1>8, RefreshedIs
  <2>3. ASSUME NEW id \in Position!Imported \ {x} PROVE rows[id].ref # p.ref /\ ~ rows[id].open
    <3>1. rows[id].ref # p.ref
      BY <1>2, NewHasNoRow
    <3>2. ASSUME rows[id].open PROVE FALSE
      <4>1. PICK q \in importing.existing :
               q.open /\ q.ref = rows[id].ref /\ (q.ref = p.ref \/ q.id = id)
        BY <1>2, <3>2, OpenIsStale
      <4>2. q = r
        BY <1>4, <1>5, <4>1 DEF KnownRows, ReadApart
      <4> QED
        BY <2>3, <3>1, <4>1, <4>2
    <3> QED
      BY <3>1, <3>2
  <2>4. \A q \in importing.stale : q \in stale <=> q.id # x
    BY <1>4, <1>5 DEF KnownRows, ReadApart
  <2>5. ~ touched => x \notin importing.plans
    BY <1>6 DEF PositionInv, Saving, Undisturbed
  <2>6. ~ touched => rows[x].ref \notin RefsOf(Done)
    BY <1>5, <1>6 DEF RefsOf, Done
  <2> HIDE DEF x, row
  <2>7. stale \in SUBSET importing.stale
    OBVIOUS
  <2> HIDE DEF stale
  <2> QED
    BY <1>2, <1>3, <1>4, <2>1, <2>2, <2>3, <2>4, <2>5, <2>6, <2>7, SavedInto
<1> QED
  BY <1>7, <1>8

LEMMA SaveOverPlanKeeps ==
  ASSUME PositionInv, importing.at = "save", NEW p \in importing.todo,
         Position!SaveOverPlan(p), UNCHANGED <<fills, ui, touched>>
  PROVE  PositionInv'
<1>1. PICK x \in importing.plans :
         /\ Position!SaveInto(x, p)
         /\ importing' = [importing EXCEPT !.plans = @ \ {x}, !.todo = @ \ {p}]
  BY DEF Position!SaveOverPlan
<1>2. Position!IsNew(p) /\ p.open /\ importing.stale = {}
  BY DEF Position!SaveOverPlan, Position!IsNew
<1> DEFINE plans == importing.plans \ {x}
<1>3. SavedNext(p, plans, importing.stale)
  <2>1. importing \in [at : {"save"}, wanted : SUBSET Wanted, existing : SUBSET ReadRow,
                       stale : SUBSET ReadRow, plans : SUBSET RowIds, todo : SUBSET Wanted]
    BY DEF PositionInv, PositionTypes, SyncRecord
  <2> QED
    BY <1>1, <2>1 DEF SavedNext
<1>4. /\ rows \in [RowIds -> RowRecord \cup {Position!Nothing}] /\ x \in RowIds
      /\ p \in Wanted /\ \A id \in Position!Filled : rows[id] \in RowRecord
  BY SavingFacts
<1>5. ~ touched => x \in Position!Filled \ Position!Imported
  BY DEF PositionInv, Saving, Undisturbed
<1>6. plans \in SUBSET importing.plans
  OBVIOUS
<1>7. CASE x \notin Position!Filled
  <2>1. rows' = rows
    BY <1>1, <1>7 DEF Position!SaveInto
  <2>2. touched
    BY <1>5, <1>7 DEF PositionInv, PositionTypes
  <2> HIDE DEF plans
  <2> QED
    BY <1>2, <1>3, <1>6, <2>1, <2>2, SavedNowhere
<1>8. CASE x \in Position!Filled
  <2> DEFINE row == Position!Refreshed(rows[x], p)
  <2>1. rows' = [rows EXCEPT ![x] = row]
    BY <1>1, <1>8 DEF Position!SaveInto
  <2>2. row \in RowRecord /\ Shows(row, p)
    BY <1>4, <1>8, RefreshedIs
  <2>3. ASSUME NEW id \in Position!Imported \ {x} PROVE rows[id].ref # p.ref /\ ~ rows[id].open
    <3>1. rows[id].ref # p.ref
      BY <1>2, NewHasNoRow
    <3>2. ~ rows[id].open
      BY <1>2, <3>1, OpenIsStale
    <3> QED
      BY <3>1, <3>2
  <2>4. \A r \in importing.stale : r \in importing.stale <=> r.id # x
    BY <1>2
  <2>5. x \notin plans /\ (~ touched => x \notin Position!Imported)
    BY <1>5
  <2> HIDE DEF row, plans
  <2> QED
    BY <1>2, <1>3, <1>4, <1>6, <2>1, <2>2, <2>3, <2>4, <2>5, SavedInto
<1> QED
  BY <1>7, <1>8

LEMMA SavePlainKeeps ==
  ASSUME Position!SyncAssumption, NeverOut,
         PositionInv, importing.at = "save", NEW p \in importing.todo,
         Position!SavePlain(p), UNCHANGED <<fills, ui, touched>>
  PROVE  PositionInv'
<1> DEFINE same == {id \in Position!Imported : rows[id].ref = p.ref}
<1>1. /\ Position!IsNew(p) => importing.stale = {}
      /\ rows' = IF same = {} THEN [rows EXCEPT ![Position!FreshId] = Position!NewRow(p)]
                 ELSE [id \in RowIds |-> IF id \in same THEN Position!Refreshed(rows[id], p)
                                         ELSE rows[id]]
  BY DEF Position!SavePlain, Position!SaveByRef
<1>2. SavedNext(p, importing.plans, importing.stale)
  <2>1. importing \in [at : {"save"}, wanted : SUBSET Wanted, existing : SUBSET ReadRow,
                       stale : SUBSET ReadRow, plans : SUBSET RowIds, todo : SUBSET Wanted]
    BY DEF PositionInv, PositionTypes, SyncRecord
  <2> QED
    BY <2>1 DEF SavedNext, Position!SavePlain
<1>3. /\ rows \in [RowIds -> RowRecord \cup {Position!Nothing}]
      /\ Position!Imported \subseteq RowIds
      /\ \A id \in Position!Filled : rows[id] \in RowRecord
      /\ p \in Wanted /\ p \in importing.wanted /\ KnownRows /\ p.ref \notin RefsOf(Done)
  BY SavingFacts
\* An open row has p's ref if p is open.
<1>4. ASSUME NEW id \in Position!Imported, p.open, rows[id].open PROVE rows[id].ref = p.ref
  <2>1. PICK r \in importing.existing :
           /\ r.open /\ r.ref = rows[id].ref
           /\ r.ref = p.ref \/ (r.id = id /\ r \in importing.stale)
    BY <1>4, OpenIsStale
  <2>2. CASE Position!IsNew(p)
    BY <1>1, <2>1, <2>2
  <2>3. CASE ~ Position!IsNew(p)
    <3>1. PICK e \in importing.existing : e.ref = p.ref
      BY <1>4, <2>3 DEF Position!IsNew
    <3>2. e.open
      <4>1. p.ref.day = 0
        BY <1>4, SavingFacts DEF WantedOK
      <4> QED
        BY <1>3, <3>1, <4>1 DEF KnownRows, ReadApart
    <3>3. r = e
      BY <1>3, <2>1, <3>1, <3>2 DEF KnownRows, ReadApart
    <3> QED
      BY <2>1, <3>1, <3>3
  <2> QED
    BY <2>2, <2>3
<1>5. ~ touched => \A r \in importing.stale : /\ r.id \in Position!Imported
                                             /\ rows[r.id].ref # p.ref
  <2>1. p.ref \in RefsOf(importing.wanted)
    BY <1>3 DEF RefsOf
  <2> QED
    BY <1>3, <2>1 DEF PositionInv, Saving, Undisturbed, KnownRows
<1>6. ~ touched => \A id \in importing.plans : id \in Position!Filled \ Position!Imported
  BY DEF PositionInv, Saving, Undisturbed
<1>7. CASE same = {}
  <2> DEFINE x == Position!FreshId
             row == Position!NewRow(p)
  <2>1. x \in RowIds /\ rows[x] = Position!Nothing
    BY FreshIs DEF PositionInv, Position!SyncAssumption
  <2>2. x \notin Position!Filled /\ x \notin Position!Imported
    BY <2>1 DEF Position!Filled, Position!Imported
  <2>3. rows' = [rows EXCEPT ![x] = row]
    BY <1>1, <1>7
  <2>4. row \in RowRecord /\ Shows(row, p)
    BY <1>3, NewRowIs
  <2>5. \A id \in Position!Imported \ {x} : rows[id].ref # p.ref /\ ~ (p.open /\ rows[id].open)
    BY <1>4, <1>7
  <2>6. ~ touched => /\ \A r \in importing.stale : r \in importing.stale <=> r.id # x
                     /\ x \notin importing.plans
                     /\ x \in Position!Imported => rows[x].ref \notin RefsOf(Done)
    BY <1>5, <1>6, <2>2
  <2> HIDE DEF x, row, same
  <2> QED
    BY <1>2, <2>1, <2>3, <2>4, <2>5, <2>6, SavedInto
<1>8. CASE same # {}
  <2>1. PICK x \in Position!Imported : rows[x].ref = p.ref
    BY <1>8
  <2> DEFINE row == Position!Refreshed(rows[x], p)
  <2>2. same = {x}
    BY <2>1 DEF PositionInv, OneEach, Position!OneRowPerRef
  <2>3. x \in RowIds /\ rows[x] \in RowRecord
    BY <1>3 DEF Position!Imported
  <2>4. rows' = [rows EXCEPT ![x] = row]
    <3>1. rows' = [id \in RowIds |-> IF id \in same THEN Position!Refreshed(rows[id], p)
                                     ELSE rows[id]]
      BY <1>1, <1>8
    <3> HIDE DEF same
    <3> QED
      BY <1>3, <2>2, <3>1
  <2>5. row \in RowRecord /\ Shows(row, p)
    BY <1>3, <2>3, RefreshedIs
  <2>6. \A id \in Position!Imported \ {x} : rows[id].ref # p.ref /\ ~ (p.open /\ rows[id].open)
    BY <1>4, <2>2
  <2>7. ~ touched => /\ \A r \in importing.stale : r \in importing.stale <=> r.id # x
                     /\ x \notin importing.plans
                     /\ x \in Position!Imported => rows[x].ref \notin RefsOf(Done)
    BY <1>3, <1>5, <1>6, <2>1
  <2> HIDE DEF row, same
  <2> QED
    BY <1>2, <2>3, <2>4, <2>5, <2>6, <2>7, SavedInto
<1> QED
  BY <1>7, <1>8

LEMMA SaveKeeps ==
  ASSUME Position!SyncAssumption, NeverOut, PositionInv, Position!Save
  PROVE  PositionInv'
<1>1. importing.at = "save" /\ importing.todo # {} /\ UNCHANGED <<fills, ui, touched>>
  BY DEF Position!Save, Position!account
<1> DEFINE p == Position!First(importing.todo)
<1>2. p \in importing.todo
  <2>1. WantedOK(importing.wanted) /\ importing.todo \in SUBSET importing.wanted
    BY <1>1 DEF PositionInv, PositionTypes, Reconciled, Saving, KnownRows, Todo
  <2> QED
    BY <1>1, <2>1, FirstIs
<1>3. Position!SaveOverStale(p) \/ Position!SaveOverPlan(p) \/ Position!SavePlain(p)
  BY DEF Position!Save
<1> HIDE DEF p
<1> QED
  BY <1>1, <1>2, <1>3, SaveOverStaleKeeps, SaveOverPlanKeeps, SavePlainKeeps

\* The last step: the rows read that are not wanted, and moved nowhere, go.
LEMMA DeleteKeeps ==
  ASSUME PositionInv, Position!DeleteRefs
  PROVE  PositionInv'
<1> DEFINE wanted == importing.wanted
           Seen(id) == [ref |-> rows[id].ref, open |-> rows[id].open,
                        quantity |-> rows[id].quantity]
<1>1. /\ importing.at = "save" /\ importing.todo = {} /\ UNCHANGED <<fills, ui, touched>>
      /\ rows' = [id \in RowIds |->
                    IF id \in Position!Imported /\ rows[id].ref \in Position!Dropped
                    THEN Position!Nothing ELSE rows[id]]
      /\ importing' = [at |-> "reload", wanted |-> wanted]
  BY DEF Position!DeleteRefs, Position!account
<1>2. /\ rows \in [RowIds -> RowRecord \cup {Position!Nothing}] /\ WantedOK(wanted)
      /\ KnownRows /\ IsFiniteSet(Position!Filled) /\ (OneAtWork => ui.op # "close")
  BY <1>1 DEF PositionInv, PositionTypes, Reconciled, Saving
<1>3. /\ rows' \in [RowIds -> RowRecord \cup {Position!Nothing}]
      /\ \A id \in RowIds : rows'[id] = rows[id] \/ rows'[id] = Position!Nothing
  BY <1>1, <1>2
<1>4. Position!Imported' = {id \in Position!Imported : rows[id].ref \notin Position!Dropped}
      /\ \A id \in Position!Imported' : rows'[id] = rows[id]
  BY <1>1, <1>2, RowParts DEF Position!Imported, Position!Filled
<1>5. /\ Position!Filled' \subseteq Position!Filled
      /\ MaxManual = 0 => Position!Filled' = Position!Imported'
  BY <1>1, <1>2, <1>4, RowParts DEF PositionInv, PositionTypes, Position!Imported, Position!Filled
<1>6. OneEach'
  BY <1>4 DEF PositionInv, OneEach, Position!OneRowPerRef
<1>7. ASSUME ~ touched PROVE {Seen(id) : id \in Position!Imported'} = wanted
  <2>1. Undisturbed /\ Done = wanted
    BY <1>1, <1>7 DEF PositionInv, Saving, Done, Todo
  <2>2. ASSUME NEW id \in RowIds, NEW p \in wanted, Shows(rows[id], p) PROVE Seen(id) = p
    BY <1>2, <2>2 DEF WantedOK, Wanted, Shows
  <2>3. ASSUME NEW p \in wanted PROVE \E id \in Position!Imported' : Seen(id) = p
    <3>1. PICK id \in Position!Imported : Shows(rows[id], p)
      BY <2>1 DEF Undisturbed
    <3>2. p.ref \notin Position!Dropped
      BY <1>2, <2>3 DEF Position!Dropped, KnownRows, RefsOf
    <3>3. id \in Position!Imported'
      BY <1>4, <3>1, <3>2 DEF Shows
    <3>4. id \in RowIds
      BY <1>2, <3>1, ImportedIs
    <3> QED
      BY <2>2, <3>1, <3>3, <3>4
  <2>4. ASSUME NEW id \in Position!Imported' PROVE Seen(id) \in wanted
    <3>1. id \in Position!Imported /\ rows[id].ref \notin Position!Dropped /\ id \in RowIds
      BY <1>2, <1>4, ImportedIs
    <3>2. CASE \E p \in Done : Shows(rows[id], p)
      BY <2>1, <2>2, <3>1, <3>2
    <3>3. CASE \E r \in importing.existing :
                  /\ r.ref = rows[id].ref /\ r.ref \notin RefsOf(Done)
                  /\ r.open /\ r.ref \notin RefsOf(wanted) => r \in importing.stale
      <4>1. PICK r \in importing.existing :
               /\ r.ref = rows[id].ref /\ r.ref \notin RefsOf(wanted)
               /\ r.open => r \in importing.stale
        BY <2>1, <3>3
      <4>2. r.ref \in Position!Dropped
        BY <4>1 DEF Position!Dropped, RefsOf
      <4> QED
        BY <3>1, <4>1, <4>2
    <3> QED
      BY <2>1, <3>1, <3>2, <3>3 DEF Undisturbed
  <2> HIDE DEF Seen, wanted
  <2> QED
    BY <2>3, <2>4
<1>8. Position!SyncedRows'
  <2>1. \A id \in Position!Imported' :
           [ref |-> rows'[id].ref, open |-> rows'[id].open, quantity |-> rows'[id].quantity]
              = Seen(id)
    BY <1>4
  <2>2. {[ref |-> rows'[id].ref, open |-> rows'[id].open, quantity |-> rows'[id].quantity] :
            id \in Position!Imported'} = {Seen(id) : id \in Position!Imported'}
    <3> HIDE DEF Seen
    <3> QED
      BY <2>1
  <2>3. importing'.wanted = wanted /\ touched' = touched
    BY <1>1
  <2> HIDE DEF Seen, wanted
  <2> QED
    BY <1>7, <2>2, <2>3 DEF Position!SyncedRows
<1>9. PositionTypes'
  <2>1. importing' \in SyncRecord /\ importing'.at = "reload" /\ importing'.wanted = wanted
    BY <1>1, <1>2 DEF SyncRecord, WantedOK
  <2>2. IsFiniteSet(Position!Filled')
    BY <1>2, <1>5, FS_Subset
  <2> QED
    BY <1>1, <1>2, <1>3, <1>5, <2>1, <2>2 DEF PositionInv, PositionTypes, Reconciled
<1> QED
  BY <1>1, <1>6, <1>8, <1>9 DEF PositionInv, Saving

LEMMA PositionStarts == ASSUME Position!SyncAssumption, Position!Init PROVE PositionInv
<1>1. /\ rows = [id \in RowIds |-> Position!Nothing] /\ fills = <<>> /\ touched = FALSE
      /\ importing = [at |-> "idle"] /\ ui = [op |-> "none", id |-> 0]
  BY DEF Position!Init, Position!Idle, Position!NoEdit
<1>2. Position!Filled = {} /\ Position!Imported = {}
  BY <1>1 DEF Position!Filled, Position!Imported
<1>3. PositionTypes
  <2>1. importing \in SyncRecord /\ importing.at = "idle"
    BY <1>1 DEF SyncRecord
  <2>2. ui \in Edit /\ ui.op = "none"
    BY <1>1 DEF Edit
  <2>3. fills \in Seq({"buy", "sell"})
    BY <1>1
  <2> QED
    BY <1>1, <1>2, <2>1, <2>2, <2>3, FS_EmptySet DEF PositionTypes, Reconciled
<1> QED
  BY <1>1, <1>2, <1>3 DEF PositionInv, OneEach, Position!OneRowPerRef, Saving,
     Position!SyncedRows

LEMMA PositionKept ==
  ASSUME Position!SyncAssumption, NeverOut, PositionInv, [Position!Next]_positionState,
         OneAtWork \/ ClosesByHand
  PROVE  PositionInv'
<1>1. CASE Position!Trades
  BY <1>1, TradesKeep
<1>2. CASE Position!ManualEntry
  BY <1>2, EntryKeeps
<1>3. CASE Position!Edits
  BY <1>3, ReadsKeep, WritesKeep DEF Position!Edits
<1>4. CASE Position!SyncSteps
  BY <1>4, QuietStepsKeep, ReadExistingKeeps, ReadPlansKeeps, SaveKeeps, DeleteKeeps
     DEF Position!SyncSteps
<1>5. CASE UNCHANGED positionState
  <2>1. UNCHANGED <<fills, rows, ui, importing, touched>>
    BY <1>5 DEF positionState, Position!vars, Position!account
  <2>2. Position!Imported' = Position!Imported /\ Position!Filled' = Position!Filled
        /\ OneEach'
    BY <2>1, RowsStay
  <2>3. PositionTypes'
    BY <2>1, <2>2 DEF PositionInv, PositionTypes, Reconciled
  <2> QED
    BY <2>1, <2>2, <2>3, OthersKeep
<1> QED
  BY <1>1, <1>2, <1>3, <1>4, <1>5 DEF Position!Next

\* The rows of the import are sound at every step of the sync and of the user's
\* edits: PositionInv is what carries them.
THEOREM PositionInvariant ==
  ASSUME Position!SyncAssumption, NeverOut
  PROVE  /\ Position!Spec /\ [][ClosesByHand]_positionState => []PositionInv
         /\ OneAtWork => (Position!Spec => []PositionInv)
<1>1. Position!Init => PositionInv
  BY PositionStarts
<1>2. PositionInv /\ [Position!Next]_positionState /\ [ClosesByHand]_positionState => PositionInv'
  <2>1. UNCHANGED positionState => ClosesByHand
    BY DEF ClosesByHand, positionState, Position!vars, Position!WriteClose,
       Position!NoEdit
  <2> QED
    BY <2>1, PositionKept
<1>3. Position!Spec /\ [][ClosesByHand]_positionState => []PositionInv
  BY <1>1, <1>2, PTL DEF Position!Spec, positionState
<1>4. ASSUME OneAtWork PROVE Position!Spec => []PositionInv
  <2>1. PositionInv /\ [Position!Next]_positionState => PositionInv'
    BY <1>4, PositionKept
  <2> QED
    BY <1>1, <2>1, PTL DEF Position!Spec, positionState
<1> QED
  BY <1>3, <1>4

\* At most one open row, counted as the run counts it.
LEMMA InvGivesRows == ASSUME PositionInv PROVE RowsSound
<1>1. Position!OneOpenRow
  <2> DEFINE opens == Position!OpenImports
  <2>1. \A i, j \in opens : i = j
    BY DEF PositionInv, OneEach, Position!OpenImports
  <2>2. Cardinality(opens) <= 1
    <3>1. CASE opens = {}
      BY <3>1, FS_EmptySet
    <3>2. CASE opens # {}
      <4>1. PICK i \in opens : TRUE
        BY <3>2
      <4>2. opens = {i}
        BY <2>1, <4>1
      <4>3. Cardinality({i}) = 1
        BY FS_Singleton
      <4> HIDE DEF opens
      <4> QED
        BY <4>2, <4>3
    <3> QED
      BY <3>1, <3>2
  <2> QED
    BY <2>2, RowsCount DEF Position!OneOpenRow
<1> QED
  BY <1>1 DEF PositionInv, OneEach, RowsSound

\* One row for a position and one open, wherever a sync of any start stopped and
\* whatever the user wrote meanwhile, and what the broker has after a sync that was
\* left alone: while no close by hand lands on a row of the import, which cannot
\* happen where the user waits for a sync or enters no rows.
THEOREM RowsAlwaysSound ==
  ASSUME Position!SyncAssumption, NeverOut
  PROVE  /\ Position!Spec /\ [][ClosesByHand]_positionState => []RowsSound
         /\ OneAtWork => (Position!Spec => []RowsSound)
<1>1. PositionInv => RowsSound
  BY InvGivesRows
<1>2. Position!Spec /\ [][ClosesByHand]_positionState => []RowsSound
  BY <1>1, PositionInvariant, PTL
<1>3. ASSUME OneAtWork PROVE Position!Spec => []RowsSound
  <2>1. Position!Spec => []PositionInv
    BY <1>3, PositionInvariant
  <2> QED
    BY <1>1, <2>1, PTL
<1> QED
  BY <1>2, <1>3
=============================================================================
