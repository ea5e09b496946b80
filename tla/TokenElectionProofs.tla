------------------------ MODULE TokenElectionProofs ------------------------
(***************************************************************************)
(* What TokenElection promises for every number of searches, background    *)
(* refreshes and pods, and every value of the timing constants: its type   *)
(* invariant, the exclusive election, the lock that always has a releaser, *)
(* the order of the stored tokens and the one-shot retry.                  *)
(***************************************************************************)
EXTENDS TokenElection, TLAPS

(* The election as an inductive invariant: until it is overrun, whoever is *)
(* between the SET NX and the end of the finally is the owner in Redis.    *)
ElectedOwnsLock == ~overran => \A p \in Proc : Elected(p) => lock = p

(* The requests a search has sent, by where it stands: one for the attempt *)
(* that got a 401 and one more once it has ended or been answered 401.     *)
Answered == {"invalidate"} \cup Ended
CallsByStage ==
    \A s \in Search :
        calls[s] <= (IF s \in retried THEN 1 ELSE 0)
                    + (IF pc[s] \in Answered THEN 1 ELSE 0)

-----------------------------------------------------------------------------
(* The values da:token starts from and returns to are well-formed.         *)
LEMMA TokenRecordsType ==
    /\ Absent \in TokenRecords
    /\ [tok |-> 1, phase |-> "fresh"] \in TokenRecords
<1>1. 0 \in 0..MaxLogins /\ 1 \in 0..MaxLogins
  BY ConstantsOK DEF ConstantsOK
<1> QED
  BY <1>1 DEF TokenRecords, Absent

(* Every reachable state has the declared types (token.service.ts:50-141   *)
(* and the token handling of client.ts:42-86).                             *)
THEOREM TypeCorrect == Spec => []TypeOK
<1>1. ASSUME Init PROVE TypeOK
  <2>0. overran \in BOOLEAN
    BY <1>1, Zenon DEF Init
  <2>1. token \in TokenRecords
    BY <1>1, TokenRecordsType DEF Init
  <2>2. /\ pc \in [Proc -> Pcs]
        /\ tok \in [Proc -> 0..MaxLogins]
        /\ waited \in [Proc -> 0..WaitMax]
        /\ calls \in [Search -> Nat]
    BY <1>1, ConstantsOK DEF ConstantsOK, Init, Pcs
  <2>3. /\ live \in SUBSET (1..MaxLogins)
        /\ issued \in 1..MaxLogins
        /\ ttl \in 0..LockTtl
        /\ refill \in 1..RefillEvery
    BY <1>1, ConstantsOK DEF ConstantsOK, Init
  <2> QED
    BY <1>1, <2>1, <2>2, <2>3, <2>0, ConstantsOK
    DEF ConstantsOK, Init, TypeOK
<1>2. TypeOK /\ [Next]_vars => TypeOK'
  <2> SUFFICES ASSUME TypeOK, [Next]_vars PROVE TypeOK'
    OBVIOUS
  <2> USE ConstantsOK DEF ConstantsOK, TypeOK, Pcs, ElectedPc, Ended,
          procVars, redisVars, upstreamVars, limiterVars, historyVars
  <2>1. ASSUME NEW s \in Search, Begin(s) PROVE TypeOK'
    BY <2>1 DEF Begin
  <2>2. ASSUME NEW s \in Search, ReadUsable(s) PROVE TypeOK'
    BY <2>2 DEF ReadUsable, Proc, TokenRecords
  <2>3. ASSUME NEW s \in Search, ReadUnusable(s) PROVE TypeOK'
    BY <2>3 DEF ReadUnusable
  <2>4. ASSUME NEW s \in Search, SearchAnswered(s) PROVE TypeOK'
    BY <2>4 DEF SearchAnswered, Proc
  <2>5. ASSUME NEW s \in Search, Invalidate(s) PROVE TypeOK'
    BY <2>5, TokenRecordsType DEF Invalidate
  <2>6. ASSUME NEW p \in Proc, AcquireLock(p) PROVE TypeOK'
    BY <2>6 DEF AcquireLock
  <2>7. ASSUME NEW p \in Proc, LoseElection(p) PROVE TypeOK'
    BY <2>7 DEF LoseElection
  <2>8. ASSUME NEW p \in Proc, StartLogin(p) PROVE TypeOK'
    BY <2>8 DEF StartLogin, CanStartLogin
  <2>9. ASSUME NEW p \in Proc, LoginSucceeds(p) PROVE TypeOK'
    BY <2>9 DEF LoginSucceeds
  <2>10. ASSUME NEW p \in Proc, LoginFails(p) PROVE TypeOK'
    BY <2>10 DEF LoginFails
  <2>11. ASSUME NEW p \in Proc, StoreToken(p) PROVE TypeOK'
    BY <2>11 DEF StoreToken, TokenRecords
  <2>12. ASSUME NEW p \in Proc, PublishToken(p) PROVE TypeOK'
    BY <2>12 DEF PublishToken
  <2>13. ASSUME NEW p \in Proc, CheckLock(p) PROVE TypeOK'
    BY <2>13 DEF CheckLock, Resolve
  <2>14. ASSUME NEW p \in Proc, ReleaseLock(p) PROVE TypeOK'
    BY <2>14 DEF ReleaseLock, Resolve
  <2>15. ASSUME NEW p \in Proc, PollTimer(p) PROVE TypeOK'
    BY <2>15 DEF PollTimer
  <2>16. ASSUME NEW p \in Proc, RereadToken(p) PROVE TypeOK'
    BY <2>16 DEF RereadToken, Resolve, TokenRecords
  <2>17. ASSUME NEW p \in Proc, LoseReply(p) PROVE TypeOK'
    <3>1. token' \in TokenRecords
      <4>1. CASE pc[p] = "store"
        BY <2>17, <4>1 DEF LoseReply, TokenRecords
      <4>2. CASE pc[p] = "invalidate"
        BY <2>17, <4>2, TokenRecordsType DEF LoseReply
      <4>3. CASE pc[p] \notin {"store", "invalidate"}
        BY <2>17, <4>3 DEF LoseReply
      <4> QED
        BY <4>1, <4>2, <4>3
    <3> QED
      <4>0. overran' \in BOOLEAN
        BY <2>17, Zenon DEF LoseReply
      <4>1. CASE pc[p] = "store"
        <5>1. /\ lost' \in 0..MaxLost
              /\ UNCHANGED <<procVars, upstreamVars, limiterVars, lock, ttl,
                             notice, overran, stranded, crashes>>
          BY <2>17, <4>1 DEF LoseReply
        <5> QED
          BY <3>1, <5>1
      <4>2. CASE pc[p] = "publish"
        BY <2>17, <3>1, <4>2 DEF LoseReply
      <4>3. CASE pc[p] \in {"acquire", "release", "invalidate"}
        BY <2>17, <3>1, <4>0, <4>3 DEF LoseReply
      <4> QED
        BY <2>17, <4>1, <4>2, <4>3 DEF LoseReply
  <2>18. ASSUME NEW d \in Pod, DeliverNotice(d) PROVE TypeOK'
    BY <2>18 DEF DeliverNotice
  <2>19. ASSUME NEW d \in Pod, Crash(d) PROVE TypeOK'
    BY <2>19 DEF Crash
  <2>20. ASSUME AgeToken PROVE TypeOK'
    BY <2>20, TokenRecordsType DEF AgeToken, TokenRecords
  <2>21. ASSUME RevokeToken PROVE TypeOK'
    BY <2>21 DEF RevokeToken
  <2>22. ASSUME Tick PROVE TypeOK'
    BY <2>22 DEF Tick
  <2>23. ASSUME UNCHANGED vars PROVE TypeOK'
    BY <2>23 DEF vars
  <2> QED
    BY <2>1, <2>2, <2>3, <2>4, <2>5, <2>6, <2>7, <2>8, <2>9, <2>10, <2>11,
       <2>12, <2>13, <2>14, <2>15, <2>16, <2>17, <2>18, <2>19, <2>20, <2>21,
       <2>22, <2>23 DEF Next, SearchStep, RefreshStep
<1> QED
  BY <1>1, <1>2, PTL DEF Spec

(* As long as it is not overrun, the election's winner owns the lock.      *)
THEOREM Election == Spec => []ElectedOwnsLock
<1>1. Init => ElectedOwnsLock
  BY DEF Init, ElectedOwnsLock, Elected, ElectedPc
<1>2. TypeOK /\ ElectedOwnsLock /\ [Next]_vars => ElectedOwnsLock'
  <2> SUFFICES ASSUME TypeOK, ElectedOwnsLock, [Next]_vars PROVE ElectedOwnsLock'
    OBVIOUS
  <2> USE ConstantsOK DEF ConstantsOK, TypeOK, ElectedOwnsLock, Elected, ElectedPc,
          Ended, Pcs, procVars, redisVars, upstreamVars,
          limiterVars, historyVars
  <2>1. ASSUME NEW s \in Search, Begin(s) PROVE ElectedOwnsLock'
    BY <2>1 DEF Begin
  <2>2. ASSUME NEW s \in Search, ReadUsable(s) PROVE ElectedOwnsLock'
    BY <2>2 DEF ReadUsable, Proc
  <2>3. ASSUME NEW s \in Search, ReadUnusable(s) PROVE ElectedOwnsLock'
    BY <2>3 DEF ReadUnusable
  <2>4. ASSUME NEW s \in Search, SearchAnswered(s) PROVE ElectedOwnsLock'
    BY <2>4 DEF SearchAnswered
  <2>5. ASSUME NEW s \in Search, Invalidate(s) PROVE ElectedOwnsLock'
    BY <2>5 DEF Invalidate
  <2>6. ASSUME NEW p \in Proc, AcquireLock(p) PROVE ElectedOwnsLock'
    BY <2>6 DEF AcquireLock
  <2>7. ASSUME NEW p \in Proc, LoseElection(p) PROVE ElectedOwnsLock'
    BY <2>7 DEF LoseElection
  <2>8. ASSUME NEW p \in Proc, StartLogin(p) PROVE ElectedOwnsLock'
    BY <2>8 DEF StartLogin
  <2>9. ASSUME NEW p \in Proc, LoginSucceeds(p) PROVE ElectedOwnsLock'
    BY <2>9 DEF LoginSucceeds
  <2>10. ASSUME NEW p \in Proc, LoginFails(p) PROVE ElectedOwnsLock'
    BY <2>10 DEF LoginFails
  <2>11. ASSUME NEW p \in Proc, StoreToken(p) PROVE ElectedOwnsLock'
    BY <2>11 DEF StoreToken
  <2>12. ASSUME NEW p \in Proc, PublishToken(p) PROVE ElectedOwnsLock'
    BY <2>12 DEF PublishToken
  <2>13. ASSUME NEW p \in Proc, CheckLock(p) PROVE ElectedOwnsLock'
    BY <2>13 DEF CheckLock, Resolve
  <2>14. ASSUME NEW p \in Proc, ReleaseLock(p) PROVE ElectedOwnsLock'
    BY <2>14 DEF ReleaseLock, Resolve
  <2>15. ASSUME NEW p \in Proc, PollTimer(p) PROVE ElectedOwnsLock'
    BY <2>15 DEF PollTimer
  <2>16. ASSUME NEW p \in Proc, RereadToken(p) PROVE ElectedOwnsLock'
    BY <2>16 DEF RereadToken, Resolve
  <2>17. ASSUME NEW p \in Proc, LoseReply(p) PROVE ElectedOwnsLock'
    BY <2>17 DEF LoseReply
  <2>18. ASSUME NEW d \in Pod, DeliverNotice(d) PROVE ElectedOwnsLock'
    BY <2>18 DEF DeliverNotice
  <2>19. ASSUME NEW d \in Pod, Crash(d) PROVE ElectedOwnsLock'
    BY <2>19 DEF Crash
  <2>20. ASSUME AgeToken PROVE ElectedOwnsLock'
    BY <2>20 DEF AgeToken
  <2>21. ASSUME RevokeToken PROVE ElectedOwnsLock'
    BY <2>21 DEF RevokeToken
  <2>22. ASSUME Tick PROVE ElectedOwnsLock'
    BY <2>22 DEF Tick, LeaseLapses
  <2>23. ASSUME UNCHANGED vars PROVE ElectedOwnsLock'
    BY <2>23 DEF vars
  <2> QED
    BY <2>1, <2>2, <2>3, <2>4, <2>5, <2>6, <2>7, <2>8, <2>9, <2>10, <2>11,
       <2>12, <2>13, <2>14, <2>15, <2>16, <2>17, <2>18, <2>19, <2>20, <2>21,
       <2>22, <2>23 DEF Next, SearchStep, RefreshStep
<1> QED
  BY <1>1, <1>2, TypeCorrect, PTL DEF Spec

(* One refresher at a time, until a lease is overrun (token.service.ts:87). *)
THEOREM Exclusive == Spec => []ExclusiveUnlessOverrun
<1>1. ElectedOwnsLock => ExclusiveUnlessOverrun
  BY DEF ElectedOwnsLock, ExclusiveUnlessOverrun
<1> QED
  BY <1>1, Election, PTL

(* The lock in Redis has an owner at work, or one that crashed or never     *)
(* heard that it won: no path skips the finally (token.service.ts:111).     *)
THEOREM Releaser == Spec => []LockHasReleaser
<1>1. Init => LockHasReleaser
  BY DEF Init, LockHasReleaser
<1>2. TypeOK /\ LockHasReleaser /\ [Next]_vars => LockHasReleaser'
  <2> SUFFICES ASSUME TypeOK, LockHasReleaser, [Next]_vars PROVE LockHasReleaser'
    OBVIOUS
  <2> USE ConstantsOK DEF ConstantsOK, TypeOK, LockHasReleaser, Elected, ElectedPc,
          Ended, Pcs, procVars, redisVars, upstreamVars,
          limiterVars, historyVars
  <2>1. ASSUME NEW s \in Search, Begin(s) PROVE LockHasReleaser'
    BY <2>1 DEF Begin
  <2>2. ASSUME NEW s \in Search, ReadUsable(s) PROVE LockHasReleaser'
    BY <2>2 DEF ReadUsable, Proc
  <2>3. ASSUME NEW s \in Search, ReadUnusable(s) PROVE LockHasReleaser'
    BY <2>3 DEF ReadUnusable
  <2>4. ASSUME NEW s \in Search, SearchAnswered(s) PROVE LockHasReleaser'
    BY <2>4 DEF SearchAnswered
  <2>5. ASSUME NEW s \in Search, Invalidate(s) PROVE LockHasReleaser'
    BY <2>5 DEF Invalidate
  <2>6. ASSUME NEW p \in Proc, AcquireLock(p) PROVE LockHasReleaser'
    BY <2>6 DEF AcquireLock
  <2>7. ASSUME NEW p \in Proc, LoseElection(p) PROVE LockHasReleaser'
    BY <2>7 DEF LoseElection
  <2>8. ASSUME NEW p \in Proc, StartLogin(p) PROVE LockHasReleaser'
    BY <2>8 DEF StartLogin
  <2>9. ASSUME NEW p \in Proc, LoginSucceeds(p) PROVE LockHasReleaser'
    BY <2>9 DEF LoginSucceeds
  <2>10. ASSUME NEW p \in Proc, LoginFails(p) PROVE LockHasReleaser'
    BY <2>10 DEF LoginFails
  <2>11. ASSUME NEW p \in Proc, StoreToken(p) PROVE LockHasReleaser'
    BY <2>11 DEF StoreToken
  <2>12. ASSUME NEW p \in Proc, PublishToken(p) PROVE LockHasReleaser'
    BY <2>12 DEF PublishToken
  <2>13. ASSUME NEW p \in Proc, CheckLock(p) PROVE LockHasReleaser'
    BY <2>13 DEF CheckLock, Resolve
  <2>14. ASSUME NEW p \in Proc, ReleaseLock(p) PROVE LockHasReleaser'
    BY <2>14 DEF ReleaseLock, Resolve
  <2>15. ASSUME NEW p \in Proc, PollTimer(p) PROVE LockHasReleaser'
    BY <2>15 DEF PollTimer
  <2>16. ASSUME NEW p \in Proc, RereadToken(p) PROVE LockHasReleaser'
    BY <2>16 DEF RereadToken, Resolve
  <2>17. ASSUME NEW p \in Proc, LoseReply(p) PROVE LockHasReleaser'
    BY <2>17 DEF LoseReply
  <2>18. ASSUME NEW d \in Pod, DeliverNotice(d) PROVE LockHasReleaser'
    BY <2>18 DEF DeliverNotice
  <2>19. ASSUME NEW d \in Pod, Crash(d) PROVE LockHasReleaser'
    BY <2>19 DEF Crash
  <2>20. ASSUME AgeToken PROVE LockHasReleaser'
    BY <2>20 DEF AgeToken
  <2>21. ASSUME RevokeToken PROVE LockHasReleaser'
    BY <2>21 DEF RevokeToken
  <2>22. ASSUME Tick PROVE LockHasReleaser'
    BY <2>22 DEF Tick, LeaseLapses
  <2>23. ASSUME UNCHANGED vars PROVE LockHasReleaser'
    BY <2>23 DEF vars
  <2> QED
    BY <2>1, <2>2, <2>3, <2>4, <2>5, <2>6, <2>7, <2>8, <2>9, <2>10, <2>11,
       <2>12, <2>13, <2>14, <2>15, <2>16, <2>17, <2>18, <2>19, <2>20, <2>21,
       <2>22, <2>23 DEF Next, SearchStep, RefreshStep
<1> QED
  BY <1>1, <1>2, TypeCorrect, PTL DEF Spec

(* Until a lease is overrun, a refresher stores the newest token            *)
(* (token.service.ts:102).                                                  *)
THEOREM NewestStored == Spec => []StoresNewest
<1>1. Init => StoresNewest
  BY DEF Init, StoresNewest
<1>2. TypeOK /\ ElectedOwnsLock /\ StoresNewest /\ [Next]_vars => StoresNewest'
  <2> SUFFICES ASSUME TypeOK, ElectedOwnsLock, StoresNewest, [Next]_vars PROVE StoresNewest'
    OBVIOUS
  <2> USE ConstantsOK DEF ConstantsOK, TypeOK, ElectedOwnsLock, StoresNewest,
          Elected, ElectedPc, Ended, Pcs, procVars, redisVars, upstreamVars,
          limiterVars, historyVars
  <2>1. ASSUME NEW s \in Search, Begin(s) PROVE StoresNewest'
    BY <2>1 DEF Begin
  <2>2. ASSUME NEW s \in Search, ReadUsable(s) PROVE StoresNewest'
    BY <2>2 DEF ReadUsable, Proc
  <2>3. ASSUME NEW s \in Search, ReadUnusable(s) PROVE StoresNewest'
    BY <2>3 DEF ReadUnusable
  <2>4. ASSUME NEW s \in Search, SearchAnswered(s) PROVE StoresNewest'
    BY <2>4 DEF SearchAnswered
  <2>5. ASSUME NEW s \in Search, Invalidate(s) PROVE StoresNewest'
    BY <2>5 DEF Invalidate
  <2>6. ASSUME NEW p \in Proc, AcquireLock(p) PROVE StoresNewest'
    BY <2>6 DEF AcquireLock
  <2>7. ASSUME NEW p \in Proc, LoseElection(p) PROVE StoresNewest'
    BY <2>7 DEF LoseElection
  <2>8. ASSUME NEW p \in Proc, StartLogin(p) PROVE StoresNewest'
    BY <2>8 DEF StartLogin
  <2>9. ASSUME NEW p \in Proc, LoginSucceeds(p) PROVE StoresNewest'
    BY <2>9 DEF LoginSucceeds
  <2>10. ASSUME NEW p \in Proc, LoginFails(p) PROVE StoresNewest'
    BY <2>10 DEF LoginFails
  <2>11. ASSUME NEW p \in Proc, StoreToken(p) PROVE StoresNewest'
    BY <2>11 DEF StoreToken
  <2>12. ASSUME NEW p \in Proc, PublishToken(p) PROVE StoresNewest'
    BY <2>12 DEF PublishToken
  <2>13. ASSUME NEW p \in Proc, CheckLock(p) PROVE StoresNewest'
    BY <2>13 DEF CheckLock, Resolve
  <2>14. ASSUME NEW p \in Proc, ReleaseLock(p) PROVE StoresNewest'
    BY <2>14 DEF ReleaseLock, Resolve
  <2>15. ASSUME NEW p \in Proc, PollTimer(p) PROVE StoresNewest'
    BY <2>15 DEF PollTimer
  <2>16. ASSUME NEW p \in Proc, RereadToken(p) PROVE StoresNewest'
    BY <2>16 DEF RereadToken, Resolve
  <2>17. ASSUME NEW p \in Proc, LoseReply(p) PROVE StoresNewest'
    BY <2>17 DEF LoseReply
  <2>18. ASSUME NEW d \in Pod, DeliverNotice(d) PROVE StoresNewest'
    BY <2>18 DEF DeliverNotice
  <2>19. ASSUME NEW d \in Pod, Crash(d) PROVE StoresNewest'
    BY <2>19 DEF Crash
  <2>20. ASSUME AgeToken PROVE StoresNewest'
    BY <2>20 DEF AgeToken
  <2>21. ASSUME RevokeToken PROVE StoresNewest'
    BY <2>21 DEF RevokeToken
  <2>22. ASSUME Tick PROVE StoresNewest'
    BY <2>22 DEF Tick, LeaseLapses
  <2>23. ASSUME UNCHANGED vars PROVE StoresNewest'
    BY <2>23 DEF vars
  <2> QED
    BY <2>1, <2>2, <2>3, <2>4, <2>5, <2>6, <2>7, <2>8, <2>9, <2>10, <2>11,
       <2>12, <2>13, <2>14, <2>15, <2>16, <2>17, <2>18, <2>19, <2>20, <2>21,
       <2>22, <2>23 DEF Next, SearchStep, RefreshStep
<1> QED
  BY <1>1, <1>2, TypeCorrect, Election, PTL DEF Spec

(* A search has sent what its stage allows.                                 *)
THEOREM CallsCounted == Spec => []CallsByStage
<1>1. ASSUME Init PROVE CallsByStage
  <2>1. \A s \in Search : calls[s] = 0 /\ s \notin retried
    BY <1>1 DEF Init
  <2>2. \A s \in Search : pc[s] \notin Answered
    BY <1>1 DEF Init, Answered, Ended, Proc
  <2> QED
    <3> SUFFICES ASSUME NEW s \in Search
                 PROVE calls[s] <= (IF s \in retried THEN 1 ELSE 0)
                                   + (IF pc[s] \in Answered THEN 1 ELSE 0)
      BY DEF CallsByStage
    <3> QED
      BY <2>1, <2>2
<1>2. TypeOK /\ CallsByStage /\ [Next]_vars => CallsByStage'
  <2> SUFFICES ASSUME TypeOK, CallsByStage, [Next]_vars PROVE CallsByStage'
    OBVIOUS
  <2> USE ConstantsOK DEF ConstantsOK, TypeOK, CallsByStage, Answered, Proc,
          ElectedPc, Ended, Pcs, procVars, redisVars, upstreamVars,
          limiterVars, historyVars
  <2>1. ASSUME NEW s \in Search, Begin(s) PROVE CallsByStage'
    BY <2>1 DEF Begin
  <2>2. ASSUME NEW s \in Search, ReadUsable(s) PROVE CallsByStage'
    BY <2>2 DEF ReadUsable, Proc
  <2>3. ASSUME NEW s \in Search, ReadUnusable(s) PROVE CallsByStage'
    BY <2>3 DEF ReadUnusable
  <2>4. ASSUME NEW s \in Search, SearchAnswered(s) PROVE CallsByStage'
    BY <2>4 DEF SearchAnswered
  <2>5. ASSUME NEW s \in Search, Invalidate(s) PROVE CallsByStage'
    BY <2>5 DEF Invalidate
  <2>6. ASSUME NEW p \in Proc, AcquireLock(p) PROVE CallsByStage'
    BY <2>6 DEF AcquireLock
  <2>7. ASSUME NEW p \in Proc, LoseElection(p) PROVE CallsByStage'
    BY <2>7 DEF LoseElection
  <2>8. ASSUME NEW p \in Proc, StartLogin(p) PROVE CallsByStage'
    BY <2>8 DEF StartLogin
  <2>9. ASSUME NEW p \in Proc, LoginSucceeds(p) PROVE CallsByStage'
    BY <2>9 DEF LoginSucceeds
  <2>10. ASSUME NEW p \in Proc, LoginFails(p) PROVE CallsByStage'
    BY <2>10 DEF LoginFails
  <2>11. ASSUME NEW p \in Proc, StoreToken(p) PROVE CallsByStage'
    BY <2>11 DEF StoreToken
  <2>12. ASSUME NEW p \in Proc, PublishToken(p) PROVE CallsByStage'
    BY <2>12 DEF PublishToken
  <2>13. ASSUME NEW p \in Proc, CheckLock(p) PROVE CallsByStage'
    BY <2>13 DEF CheckLock, Resolve
  <2>14. ASSUME NEW p \in Proc, ReleaseLock(p) PROVE CallsByStage'
    BY <2>14 DEF ReleaseLock, Resolve
  <2>15. ASSUME NEW p \in Proc, PollTimer(p) PROVE CallsByStage'
    BY <2>15 DEF PollTimer
  <2>16. ASSUME NEW p \in Proc, RereadToken(p) PROVE CallsByStage'
    BY <2>16 DEF RereadToken, Resolve
  <2>17. ASSUME NEW p \in Proc, LoseReply(p) PROVE CallsByStage'
    BY <2>17 DEF LoseReply
  <2>18. ASSUME NEW d \in Pod, DeliverNotice(d) PROVE CallsByStage'
    BY <2>18 DEF DeliverNotice
  <2>19. ASSUME NEW d \in Pod, Crash(d) PROVE CallsByStage'
    BY <2>19 DEF Crash
  <2>20. ASSUME AgeToken PROVE CallsByStage'
    BY <2>20 DEF AgeToken
  <2>21. ASSUME RevokeToken PROVE CallsByStage'
    BY <2>21 DEF RevokeToken
  <2>22. ASSUME Tick PROVE CallsByStage'
    BY <2>22 DEF Tick, LeaseLapses
  <2>23. ASSUME UNCHANGED vars PROVE CallsByStage'
    BY <2>23 DEF vars
  <2> QED
    BY <2>1, <2>2, <2>3, <2>4, <2>5, <2>6, <2>7, <2>8, <2>9, <2>10, <2>11,
       <2>12, <2>13, <2>14, <2>15, <2>16, <2>17, <2>18, <2>19, <2>20, <2>21,
       <2>22, <2>23 DEF Next, SearchStep, RefreshStep
<1> QED
  BY <1>1, <1>2, TypeCorrect, PTL DEF Spec

(* One executeSearch sends at most two requests (client.ts:81).             *)
THEOREM TwoRequests == Spec => []OneShotRetry
<1>1. TypeOK /\ CallsByStage => OneShotRetry
  <2> SUFFICES ASSUME TypeOK, CallsByStage, NEW s \in Search
               PROVE calls[s] <= 2
    BY DEF OneShotRetry
  <2>1. calls[s] \in Nat
    BY DEF TypeOK
  <2>2. calls[s] <= (IF s \in retried THEN 1 ELSE 0)
                    + (IF pc[s] \in Answered THEN 1 ELSE 0)
    BY DEF CallsByStage
  <2> QED
    BY <2>1, <2>2
<1> QED
  BY <1>1, TypeCorrect, CallsCounted, PTL

-----------------------------------------------------------------------------
(* The rotation of da:token                                                *)

(* Nobody works with, brings or stores a token that was not issued yet, and*)
(* what is read as usable is one.                                          *)
TokensIssued ==
    /\ \A p \in Proc : tok[p] <= issued /\ (pc[p] = "store" => tok[p] # 0)
    /\ token.tok <= issued
    /\ Usable => token.tok # 0

(* Until the election is overrun, nobody has logged in since the bearer.   *)
BearersNewest == ~overran => \A p \in Bearers : tok[p] = issued

LEMMA TokensStayIssued ==
    ASSUME TypeOK, TokensIssued, [Next]_vars
    PROVE  TokensIssued' /\ issued' \in {issued, issued + 1}
<1> USE ConstantsOK DEF ConstantsOK, TypeOK, TokensIssued, Usable, TokenRecords,
        procVars, redisVars, upstreamVars, limiterVars, historyVars
<1> DEFINE Issued == TokensIssued' /\ issued' \in {issued, issued + 1}
<1>1. ASSUME NEW s \in Search, Begin(s) \/ ReadUnusable(s) PROVE Issued
  BY <1>1 DEF Begin, ReadUnusable
<1>2. ASSUME NEW s \in Search, ReadUsable(s) PROVE Issued
  BY <1>2 DEF ReadUsable, Proc
<1>3. ASSUME NEW s \in Search, SearchAnswered(s) PROVE Issued
  BY <1>3 DEF SearchAnswered, Proc
<1>4. ASSUME NEW s \in Search, Invalidate(s) PROVE Issued
  BY <1>4 DEF Invalidate, Absent
<1>5. ASSUME NEW p \in Proc, AcquireLock(p) \/ LoseElection(p) \/ StartLogin(p)
                               \/ PublishToken(p) \/ PollTimer(p)
      PROVE  Issued
  BY <1>5 DEF AcquireLock, LoseElection, StartLogin, PublishToken, PollTimer
<1>6. ASSUME NEW p \in Proc, LoginSucceeds(p) \/ LoginFails(p) PROVE Issued
  BY <1>6 DEF LoginSucceeds, LoginFails
<1>7. ASSUME NEW p \in Proc, StoreToken(p) PROVE Issued
  BY <1>7 DEF StoreToken
<1>8. ASSUME NEW p \in Proc, CheckLock(p) \/ ReleaseLock(p) PROVE Issued
  BY <1>8 DEF CheckLock, ReleaseLock, Resolve
<1>9. ASSUME NEW p \in Proc, RereadToken(p) PROVE Issued
  BY <1>9 DEF RereadToken, Resolve
<1>10. ASSUME NEW p \in Proc, LoseReply(p) PROVE Issued
  BY <1>10 DEF LoseReply, Absent
<1>11. ASSUME NEW d \in Pod, DeliverNotice(d) \/ Crash(d) PROVE Issued
  <2>1. /\ UNCHANGED <<token, issued>>
        /\ \A p \in Proc : tok'[p] \in {0, tok[p]} /\ (pc'[p] = "store" => tok'[p] # 0)
    <3>1. CASE DeliverNotice(d)
      BY <3>1 DEF DeliverNotice
    <3>2. CASE Crash(d)
      BY <3>2 DEF Crash, Ended
    <3> QED
      BY <1>11, <3>1, <3>2
  <2>2. \A p \in Proc : tok'[p] <= issued'
    BY <2>1
  <2> QED
    BY <2>1, <2>2
<1>12. CASE AgeToken
  <2>1. UNCHANGED <<pc, tok, issued>>
    BY <1>12 DEF AgeToken
  <2>2. CASE token.phase = "fresh"
    <3>1. token'.tok = token.tok
      BY <1>12, <2>2 DEF AgeToken
    <3> QED
      BY <2>1, <2>2, <3>1
  <2>3. CASE token.phase = "warm"
    BY <1>12, <2>1, <2>3 DEF AgeToken, Absent
  <2> QED
    BY <1>12, <2>2, <2>3 DEF AgeToken
<1>13. CASE RevokeToken \/ Tick \/ UNCHANGED vars
  BY <1>13 DEF RevokeToken, Tick, vars
<1> QED
  BY <1>1, <1>2, <1>3, <1>4, <1>5, <1>6, <1>7, <1>8, <1>9, <1>10, <1>11, <1>12,
     <1>13 DEF Next, SearchStep, RefreshStep

(* What a step of the election does to the rotation, while neither is      *)
(* overrun.                                                                *)
InOrder ==
    /\ TypeOK /\ ElectedOwnsLock /\ StoresNewest /\ TokensIssued /\ BearersNewest

(* A leader is alone, and owns the lock.                                   *)
LEMMA OneLeader ==
    ASSUME InOrder, ~overran, NEW p \in Proc, Elected(p)
    PROVE  Leading = {p} /\ lock = p
  BY DEF InOrder, ElectedOwnsLock, Leading

(* A step of one invocation changes the parts of that one.                 *)
LEMMA OneMoves ==
    ASSUME InOrder, NEW p \in Proc,
           \A q \in Proc \ {p} : pc'[q] = pc[q] /\ tok'[q] = tok[q]
    PROVE  /\ Leading' = IF Elected(p)' THEN Leading \cup {p} ELSE Leading \ {p}
           /\ Bearers' = IF Elected(p)' /\ pc'[p] \notin {"queued", "login"}
                            /\ tok'[p] # 0
                         THEN Bearers \cup {p} ELSE Bearers \ {p}
           /\ Using' = [s \in Search |->
                          IF s = p THEN IF pc'[p] = "call" THEN tok'[p] ELSE 0
                          ELSE Using[s]]
<1>1. \A q \in Proc \ {p} : Elected(q)' <=> Elected(q)
  BY DEF Elected
<1>2. Leading' = IF Elected(p)' THEN Leading \cup {p} ELSE Leading \ {p}
  BY <1>1 DEF Leading
<1>3. Bearers' = IF Elected(p)' /\ pc'[p] \notin {"queued", "login"} /\ tok'[p] # 0
                 THEN Bearers \cup {p} ELSE Bearers \ {p}
  BY <1>1, <1>2 DEF Bearers, Leading
<1>4. Using' = [s \in Search |->
                  IF s = p THEN IF pc'[p] = "call" THEN tok'[p] ELSE 0 ELSE Using[s]]
  BY DEF Using, Proc
<1> QED
  BY <1>2, <1>3, <1>4

(* A step in which the elected stay elected, with the token they have or   *)
(* have not got, changes no part of the election.                          *)
LEMMA SameLeaders ==
    ASSUME \A p \in Proc :
             /\ Elected(p)' <=> Elected(p)
             /\ Elected(p) => /\ tok'[p] = tok[p]
                              /\ pc'[p] \in {"queued", "login"} <=>
                                 pc[p] \in {"queued", "login"}
    PROVE  Leading' = Leading /\ Bearers' = Bearers
<1>1. Leading' = Leading
  BY DEF Leading
<1> QED
  BY <1>1 DEF Bearers, Leading

(* The one that works with a token it has just got is the only one to do   *)
(* so in this step; everybody else goes on as before.                      *)
LEMMA SameTokens ==
    ASSUME \A s \in Search :
             /\ pc'[s] = "call" <=> pc[s] = "call"
             /\ pc[s] = "call" => tok'[s] = tok[s]
    PROVE  Using' = Using
  BY DEF Using

-----------------------------------------------------------------------------
(* Until the election is overrun, who has got a token has got the newest.  *)
LEMMA BearersStayNewest ==
    ASSUME InOrder, [Next]_vars PROVE BearersNewest'
<1> SUFFICES ASSUME ~overran', NEW p \in Proc, Elected(p)',
                    pc'[p] \notin {"queued", "login"}, tok'[p] # 0
             PROVE  tok'[p] = issued'
  BY DEF BearersNewest, Bearers, Leading
<1> DEFINE Newest == tok'[p] = issued'
<1> USE ConstantsOK DEF ConstantsOK, InOrder, TypeOK, Pcs, Elected, ElectedPc, Ended,
        procVars, redisVars, upstreamVars, limiterVars, historyVars
<1>1. ~overran =>
        \A q \in Proc : /\ Elected(q) => lock = q
                        /\ Elected(q) /\ pc[q] \notin {"queued", "login"} /\ tok[q] # 0
                             => tok[q] = issued
  BY DEF ElectedOwnsLock, BearersNewest, Bearers, Leading
<1>2. ASSUME NEW s \in Search, Begin(s) \/ ReadUnusable(s) PROVE Newest
  BY <1>1, <1>2 DEF Begin, ReadUnusable
<1>3. ASSUME NEW s \in Search, ReadUsable(s) PROVE Newest
  BY <1>1, <1>3 DEF ReadUsable, Proc
<1>4. ASSUME NEW s \in Search, SearchAnswered(s) PROVE Newest
  BY <1>1, <1>4 DEF SearchAnswered, Proc
<1>5. ASSUME NEW s \in Search, Invalidate(s) PROVE Newest
  BY <1>1, <1>5 DEF Invalidate
<1>6. ASSUME NEW q \in Proc, AcquireLock(q) \/ LoseElection(q) \/ StartLogin(q)
                               \/ PublishToken(q) \/ PollTimer(q)
      PROVE  Newest
  BY <1>1, <1>6 DEF AcquireLock, LoseElection, StartLogin, PublishToken, PollTimer
<1>7. ASSUME NEW q \in Proc, LoginSucceeds(q) PROVE Newest
  BY <1>1, <1>7 DEF LoginSucceeds
<1>8. ASSUME NEW q \in Proc, LoginFails(q) PROVE Newest
  BY <1>1, <1>8 DEF LoginFails
<1>9. ASSUME NEW q \in Proc, StoreToken(q) PROVE Newest
  BY <1>1, <1>9 DEF StoreToken
<1>10. ASSUME NEW q \in Proc, CheckLock(q) \/ ReleaseLock(q) PROVE Newest
  BY <1>1, <1>10 DEF CheckLock, ReleaseLock, Resolve
<1>11. ASSUME NEW q \in Proc, RereadToken(q) PROVE Newest
  BY <1>1, <1>11 DEF RereadToken, Resolve
<1>12. ASSUME NEW q \in Proc, LoseReply(q) PROVE Newest
  BY <1>1, <1>12 DEF LoseReply
<1>13. ASSUME NEW d \in Pod, DeliverNotice(d) PROVE Newest
  BY <1>1, <1>13 DEF DeliverNotice
<1>14. ASSUME NEW d \in Pod, Crash(d) PROVE Newest
  BY <1>1, <1>14 DEF Crash
<1>15. CASE AgeToken \/ RevokeToken \/ Tick \/ UNCHANGED vars
  BY <1>1, <1>15 DEF AgeToken, RevokeToken, Tick, vars
<1> QED
  BY <1>2, <1>3, <1>4, <1>5, <1>6, <1>7, <1>8, <1>9, <1>10, <1>11, <1>12, <1>13,
     <1>14, <1>15 DEF Next, SearchStep, RefreshStep

(* What the refinement rests on holds in every reachable state.            *)
THEOREM RotationOrder == Spec => []InOrder
<1>1. Init => TokensIssued /\ BearersNewest
  <2> SUFFICES ASSUME Init PROVE TokensIssued /\ BearersNewest
    OBVIOUS
  <2>1. \A p \in Proc : tok[p] = 0 /\ pc[p] = "idle"
    BY DEF Init
  <2>2. issued = 1 /\ token.tok \in {0, 1} /\ (Usable => token.tok = 1)
    BY DEF Init, Absent, Usable
  <2>3. TokensIssued
    BY <2>1, <2>2 DEF TokensIssued
  <2>4. Bearers = {}
    BY <2>1 DEF Bearers, Leading
  <2> QED
    BY <2>3, <2>4 DEF BearersNewest
<1>2. /\ TypeOK /\ ElectedOwnsLock /\ StoresNewest /\ TokensIssued /\ BearersNewest
      /\ [Next]_vars
      => TokensIssued' /\ BearersNewest'
  BY TokensStayIssued, BearersStayNewest DEF InOrder
<1> QED
  BY <1>1, <1>2, TypeCorrect, Election, NewestStored, PTL DEF Spec, InOrder

(* All of the rotation but whether the election is overrun.                *)
Parts == <<Leading, Bearers, issued, token.tok, Using>>

(* An overrun election still hands out no token that no login has issued.  *)
LEMMA OverrunStep ==
    ASSUME InOrder, InOrder', [Next]_vars, overran'
    PROVE  Rotation!Overrun
<1>1. issued' \in {issued, issued + 1}
  BY TokensStayIssued DEF InOrder
<1>2. token'.tok \in 0..issued'
  BY DEF InOrder, TypeOK, TokensIssued, TokenRecords
<1>3. \A s \in Search : tok'[s] \in 0..issued'
  BY DEF InOrder, TypeOK, TokensIssued, Proc
<1>4. Using' \in [Search -> 0..issued']
  <2>1. 0 \in 0..issued'
    BY DEF InOrder, TypeOK
  <2> QED
    BY <1>3, <2>1 DEF Using
<1> QED
  BY <1>1, <1>2, <1>4 DEF Rotation!Overrun

(* The steps of a search that is not elected.                              *)
LEMMA SearchRotates ==
    ASSUME InOrder, ~overran, NEW s \in Search, Begin(s) \/ SearchStep(s)
    PROVE  Rotation!Rotate \/ UNCHANGED Parts
<1> USE ConstantsOK DEF ConstantsOK, InOrder, TypeOK, procVars, redisVars,
        upstreamVars, limiterVars, historyVars
<1>0. s \in Proc
  BY DEF Proc
<1>1. CASE Begin(s) \/ ReadUnusable(s)
  <2>1. Leading' = Leading /\ Bearers' = Bearers
    BY <1>1, SameLeaders DEF Begin, ReadUnusable, Elected, ElectedPc
  <2>2. Using' = Using
    BY <1>1, SameTokens DEF Begin, ReadUnusable, Proc
  <2> QED
    BY <1>1, <2>1, <2>2 DEF Begin, ReadUnusable, Parts
<1>2. CASE ReadUsable(s)
  <2>1. /\ pc[s] = "get" /\ pc'[s] = "call" /\ tok'[s] = token.tok
        /\ \A q \in Proc \ {s} :
             /\ tok'[q] = tok[q]
             /\ pc'[q] = pc[q] \/ (q \in Background /\ pc[q] = "idle" /\ pc'[q] = "acquire")
    BY <1>0, <1>2 DEF ReadUsable
  <2>2. Leading' = Leading /\ Bearers' = Bearers
    BY <2>1, SameLeaders DEF Elected, ElectedPc
  <2>3. Using' = [Using EXCEPT ![s] = token.tok] /\ Using[s] = 0
    <3>1. \A q \in Search \ {s} : pc'[q] = pc[q] /\ tok'[q] = tok[q]
      BY <2>1 DEF Proc
    <3> QED
      BY <2>1, <3>1 DEF Using
  <2>4. token.tok # 0 /\ UNCHANGED <<issued, token>>
    BY <1>2 DEF ReadUsable, TokensIssued
  <2>5. Rotation!Read(s)
    BY <2>2, <2>3, <2>4 DEF Rotation!Read
  <2> QED
    BY <2>5 DEF Rotation!Rotate
<1>3. CASE SearchAnswered(s)
  <2>1. /\ pc[s] = "call" /\ pc'[s] \in {"done", "failed", "invalidate"}
        /\ \A q \in Proc \ {s} : pc'[q] = pc[q] /\ tok'[q] = tok[q]
        /\ UNCHANGED <<issued, token>>
    BY <1>0, <1>3 DEF SearchAnswered
  <2>2. s \notin Leading /\ ~Elected(s)'
    BY <2>1 DEF Leading, Elected, ElectedPc
  <2>3. /\ Leading' = Leading \ {s} /\ Bearers' = Bearers \ {s}
        /\ Using' = [q \in Search |-> IF q \in {s} THEN 0 ELSE Using[q]]
    BY <1>0, <2>1, <2>2, OneMoves
  <2>4. Rotation!Leave({s})
    BY <2>1, <2>3 DEF Rotation!Leave
  <2> QED
    BY <1>0, <2>4 DEF Rotation!Rotate
<1>4. CASE Invalidate(s)
  <2>1. Leading' = Leading /\ Bearers' = Bearers
    BY <1>4, SameLeaders DEF Invalidate, Elected, ElectedPc
  <2>2. Using' = Using
    BY <1>4, SameTokens DEF Invalidate, Proc
  <2>3. Rotation!Drop
    BY <1>4, <2>1, <2>2 DEF Invalidate, Absent, Rotation!Drop
  <2> QED
    BY <2>3 DEF Rotation!Rotate
<1> QED
  BY <1>1, <1>2, <1>3, <1>4 DEF SearchStep

(* The steps of a refresher before it is elected, and of those that wait.  *)
LEMMA WaiterRotates ==
    ASSUME InOrder, ~overran, NEW p \in Proc,
           AcquireLock(p) \/ LoseElection(p) \/ PollTimer(p) \/ RereadToken(p)
    PROVE  Rotation!Rotate \/ UNCHANGED Parts
<1> USE ConstantsOK DEF ConstantsOK, InOrder, TypeOK, procVars, redisVars,
        upstreamVars, limiterVars, historyVars
<1>1. CASE AcquireLock(p)
  <2>1. /\ pc[p] = "acquire" /\ pc'[p] = "queued" /\ lock = None
        /\ \A q \in Proc \ {p} : pc'[q] = pc[q] /\ tok'[q] = tok[q]
        /\ UNCHANGED <<issued, token>>
    BY <1>1 DEF AcquireLock
  <2>2. Leading = {} /\ Bearers = {}
    BY <2>1 DEF ElectedOwnsLock, Leading, Bearers
  <2>3. Elected(p)' /\ pc[p] # "call"
    BY <2>1 DEF Elected, ElectedPc
  <2>4. Leading' = {p} /\ Bearers' = {}
    BY <2>1, <2>2, <2>3, OneMoves
  <2>5. Using' = Using
    <3> SUFFICES ASSUME NEW s \in Search
                 PROVE  /\ pc'[s] = "call" <=> pc[s] = "call"
                        /\ pc[s] = "call" => tok'[s] = tok[s]
      BY SameTokens
    <3> QED
      BY <2>1 DEF Proc
  <2>6. Rotation!Elect(p)
    BY <2>1, <2>2, <2>4, <2>5 DEF Rotation!Elect
  <2> QED
    BY <2>6 DEF Rotation!Rotate
<1>2. CASE LoseElection(p) \/ PollTimer(p)
  <2>1. Leading' = Leading /\ Bearers' = Bearers
    BY <1>2, SameLeaders DEF LoseElection, PollTimer, Elected, ElectedPc
  <2>2. Using' = Using
    BY <1>2, SameTokens DEF LoseElection, PollTimer, Proc
  <2> QED
    BY <1>2, <2>1, <2>2 DEF LoseElection, PollTimer, Parts
<1>3. CASE RereadToken(p)
  <2>1. /\ pc[p] = "woken" /\ pc'[p] \in {"call", "failed", "idle", "wait"}
        /\ \A q \in Proc \ {p} : pc'[q] = pc[q] /\ tok'[q] = tok[q]
        /\ UNCHANGED <<issued, token>>
    BY <1>3 DEF RereadToken, Resolve
  <2>2. Leading' = Leading /\ Bearers' = Bearers
    BY <2>1, SameLeaders DEF Elected, ElectedPc
  <2>3. CASE pc'[p] = "call"
    <3>1. p \in Search /\ tok'[p] = token.tok /\ token.tok # 0
      BY <1>3, <2>3 DEF RereadToken, Resolve, TokensIssued, Proc
    <3>2. Using' = [Using EXCEPT ![p] = token.tok] /\ Using[p] = 0
      <4>1. \A q \in Search \ {p} : pc'[q] = pc[q] /\ tok'[q] = tok[q]
        BY <2>1 DEF Proc
      <4> QED
        BY <2>1, <2>3, <3>1, <4>1 DEF Using
    <3>3. Rotation!Read(p)
      BY <2>1, <2>2, <3>1, <3>2 DEF Rotation!Read
    <3> QED
      BY <3>1, <3>3 DEF Rotation!Rotate
  <2>4. CASE pc'[p] # "call"
    <3>1. ASSUME NEW s \in Search
          PROVE  /\ pc'[s] = "call" <=> pc[s] = "call"
                 /\ pc[s] = "call" => tok'[s] = tok[s]
      <4>1. CASE s = p
        BY <2>1, <2>4, <4>1
      <4>2. CASE s # p
        BY <2>1, <4>2 DEF Proc
      <4> QED
        BY <4>1, <4>2
    <3>2. Using' = Using
      BY <3>1, SameTokens
    <3> QED
      BY <2>1, <2>2, <3>2 DEF Parts
  <2> QED
    BY <2>3, <2>4
<1> QED
  BY <1>1, <1>2, <1>3

(* The steps of the elected refresher, which nobody else takes meanwhile:  *)
(* it logs in, stores what it got and steps down with it.                  *)
LEMMA LeaderRotates ==
    ASSUME InOrder, ~overran, NEW p \in Proc,
           \/ StartLogin(p) \/ LoginSucceeds(p) \/ LoginFails(p)
           \/ StoreToken(p) \/ PublishToken(p) \/ CheckLock(p) \/ ReleaseLock(p)
    PROVE  Rotation!Rotate \/ UNCHANGED Parts
<1> USE ConstantsOK DEF ConstantsOK, InOrder, TypeOK, procVars, redisVars,
        upstreamVars, limiterVars, historyVars
<1>1. Elected(p) /\ pc[p] # "call"
  BY DEF StartLogin, LoginSucceeds, LoginFails, StoreToken, PublishToken, CheckLock,
         ReleaseLock, Elected, ElectedPc
<1>2. Leading = {p} /\ lock = p
  BY <1>1, OneLeader
<1>3. Bearers = IF pc[p] \notin {"queued", "login"} /\ tok[p] # 0 THEN {p} ELSE {}
  BY <1>2 DEF Bearers
<1>4. CASE StartLogin(p) \/ PublishToken(p) \/ (CheckLock(p) /\ lock = p)
  <2>1. Leading' = Leading /\ Bearers' = Bearers
    BY <1>4, SameLeaders DEF StartLogin, PublishToken, CheckLock, Elected, ElectedPc
  <2>2. Using' = Using
    BY <1>4, SameTokens DEF StartLogin, PublishToken, CheckLock, Proc
  <2> QED
    BY <1>4, <2>1, <2>2 DEF StartLogin, PublishToken, CheckLock, Parts
<1>5. CASE LoginSucceeds(p)
  <2>1. /\ pc[p] = "login" /\ pc'[p] = "store" /\ tok'[p] = issued + 1
        /\ \A q \in Proc \ {p} : pc'[q] = pc[q] /\ tok'[q] = tok[q]
        /\ issued' = issued + 1 /\ UNCHANGED token
    BY <1>5 DEF LoginSucceeds
  <2>2. Elected(p)' /\ tok'[p] # 0
    BY <2>1 DEF Elected, ElectedPc
  <2>3. Leading' = {p} /\ Bearers' = {p} /\ Bearers = {}
    BY <1>2, <1>3, <2>1, <2>2, OneMoves
  <2>4. Using' = Using
    BY <1>1, <1>5, SameTokens DEF LoginSucceeds, Proc
  <2>5. Rotation!LogIn(p)
    BY <1>2, <2>1, <2>3, <2>4 DEF Rotation!LogIn
  <2> QED
    BY <2>5 DEF Rotation!Rotate
<1>6. CASE LoginFails(p)
  <2>1. /\ pc[p] = "login" /\ pc'[p] = "check" /\ tok'[p] = 0
        /\ \A q \in Proc \ {p} : pc'[q] = pc[q] /\ tok'[q] = tok[q]
        /\ UNCHANGED <<issued, token>>
    BY <1>6 DEF LoginFails
  <2>2. Elected(p)'
    BY <2>1 DEF Elected, ElectedPc
  <2>3. Leading' = Leading /\ Bearers' = Bearers
    BY <1>2, <1>3, <2>1, <2>2, OneMoves
  <2>4. Using' = Using
    BY <1>1, <1>6, SameTokens DEF LoginFails, Proc
  <2> QED
    BY <2>1, <2>3, <2>4 DEF Parts
<1>7. CASE StoreToken(p)
  <2>1. Leading' = Leading /\ Bearers' = Bearers
    BY <1>7, SameLeaders DEF StoreToken, Elected, ElectedPc
  <2>2. Using' = Using
    BY <1>7, SameTokens DEF StoreToken, Proc
  <2>3. pc[p] = "store" /\ token'.tok = tok[p] /\ UNCHANGED issued
    BY <1>7 DEF StoreToken
  <2>4. tok[p] # 0 /\ tok[p] = issued
    BY <2>3 DEF TokensIssued, StoresNewest
  <2>5. Rotation!Store
    BY <1>3, <2>1, <2>2, <2>3, <2>4 DEF Rotation!Store
  <2> QED
    BY <2>5 DEF Rotation!Rotate
<1>8. CASE ReleaseLock(p)
  <2>1. /\ pc[p] = "release"
        /\ pc'[p] = IF p \in Background THEN "idle" ELSE IF tok[p] = 0 THEN "failed" ELSE "call"
        /\ p \in Search => tok'[p] = tok[p]
        /\ \A q \in Proc \ {p} : pc'[q] = pc[q] /\ tok'[q] = tok[q]
        /\ UNCHANGED <<issued, token>>
    BY <1>8 DEF ReleaseLock, Resolve
  <2>2. ~Elected(p)'
    BY <2>1 DEF Elected, ElectedPc
  <2>3. /\ Leading' = {} /\ Bearers' = {}
        /\ Using' = [s \in Search |->
                       IF s = p THEN IF pc'[p] = "call" THEN tok'[p] ELSE 0 ELSE Using[s]]
    BY <1>2, <1>3, <2>1, <2>2, OneMoves
  <2>4. CASE tok[p] = 0
    <3>1. pc'[p] # "call" /\ Bearers = {}
      BY <1>3, <2>1, <2>4
    <3>2. Rotation!Leave({p})
      BY <1>2, <2>1, <2>3, <3>1 DEF Rotation!Leave
    <3> QED
      BY <3>2 DEF Rotation!Rotate, Proc
  <2>5. CASE tok[p] # 0
    <3>1. Bearers = {p} /\ tok[p] = issued
      BY <1>3, <2>1, <2>5 DEF BearersNewest
    <3>2. Using' = [s \in Search |-> IF s = p THEN issued ELSE Using[s]]
      BY <2>1, <2>3, <2>5, <3>1 DEF Proc
    <3>3. Rotation!StepDown(p)
      BY <1>2, <2>1, <2>3, <3>1, <3>2 DEF Rotation!StepDown
    <3> QED
      BY <3>3 DEF Rotation!Rotate
  <2> QED
    BY <2>4, <2>5
<1> QED
  BY <1>2, <1>4, <1>5, <1>6, <1>7, <1>8 DEF CheckLock

(* A reply that is lost repeats what its command did: the lock is taken    *)
(* without anybody being elected yet, the token is stored or dropped. Only *)
(* a DEL sent twice overruns the election.                                 *)
LEMMA LostReplyRotates ==
    ASSUME InOrder, ~overran, ~overran', NEW p \in Proc, LoseReply(p)
    PROVE  Rotation!Rotate \/ UNCHANGED Parts
<1> USE ConstantsOK DEF ConstantsOK, InOrder, TypeOK, procVars, redisVars,
        upstreamVars, limiterVars, historyVars
<1>1. UNCHANGED <<pc, tok, issued>>
  BY DEF LoseReply
<1>2. Leading' = Leading /\ Bearers' = Bearers /\ Using' = Using
  BY <1>1 DEF Leading, Bearers, Using, Elected
<1>3. CASE pc[p] = "store"
  <2>1. token'.tok = tok[p]
    BY <1>3 DEF LoseReply
  <2>2. tok[p] # 0 /\ tok[p] = issued
    BY <1>3 DEF TokensIssued, StoresNewest
  <2>3. p \in Bearers
    BY <1>3, <2>2 DEF Bearers, Leading, Elected, ElectedPc
  <2>4. Rotation!Store
    BY <1>1, <1>2, <2>1, <2>2, <2>3 DEF Rotation!Store
  <2> QED
    BY <2>4 DEF Rotation!Rotate
<1>4. CASE pc[p] = "invalidate"
  <2>1. Rotation!Drop
    BY <1>1, <1>2, <1>4 DEF LoseReply, Absent, Rotation!Drop
  <2> QED
    BY <2>1 DEF Rotation!Rotate
<1>5. CASE pc[p] \notin {"store", "invalidate"}
  <2>1. UNCHANGED token
    BY <1>5 DEF LoseReply
  <2> QED
    BY <1>1, <1>2, <2>1 DEF Parts
<1> QED
  BY <1>3, <1>4, <1>5

(* Messages, crashes, age, revocation and time: a crash ends the part of   *)
(* all that ran in the pod, and a token that is too old is dropped.        *)
LEMMA WorldRotates ==
    ASSUME InOrder, ~overran,
           \/ \E d \in Pod : DeliverNotice(d) \/ Crash(d)
           \/ AgeToken \/ RevokeToken \/ Tick \/ UNCHANGED vars
    PROVE  Rotation!Rotate \/ UNCHANGED Parts
<1> USE ConstantsOK DEF ConstantsOK, InOrder, TypeOK, procVars, redisVars,
        upstreamVars, limiterVars, historyVars
<1>1. ASSUME NEW d \in Pod, DeliverNotice(d) PROVE UNCHANGED Parts
  <2>1. Leading' = Leading /\ Bearers' = Bearers
    BY <1>1, SameLeaders DEF DeliverNotice, Elected, ElectedPc
  <2>2. Using' = Using
    BY <1>1, SameTokens DEF DeliverNotice, Proc
  <2> QED
    BY <1>1, <2>1, <2>2 DEF DeliverNotice, Parts
<1>2. ASSUME NEW d \in Pod, Crash(d) PROVE Rotation!Rotate
  <2> DEFINE Dead == {p \in Proc : PodOf[p] = d}
  <2>1. \A p \in Dead : pc'[p] \in Ended \cup {"idle"}
    BY <1>2 DEF Crash, Ended
  <2>2. \A p \in Proc \ Dead : pc'[p] = pc[p] /\ tok'[p] = tok[p]
    BY <1>2 DEF Crash
  <2>3. Leading' = Leading \ Dead
    BY <2>1, <2>2 DEF Leading, Elected, ElectedPc, Ended
  <2>4. Bearers' = Bearers \ Dead
    BY <2>2, <2>3 DEF Bearers, Leading
  <2>5. Using' = [s \in Search |-> IF s \in Dead THEN 0 ELSE Using[s]]
    <3>1. \A s \in Search : /\ s \in Dead => pc'[s] # "call"
                            /\ s \notin Dead => pc'[s] = pc[s] /\ tok'[s] = tok[s]
      BY <2>1, <2>2 DEF Ended, Proc
    <3> QED
      BY <3>1 DEF Using
  <2>6. Rotation!Leave(Dead)
    BY <1>2, <2>3, <2>4, <2>5 DEF Crash, Rotation!Leave
  <2>7. Dead \in SUBSET (Search \cup Proc)
    OBVIOUS
  <2> QED
    BY <2>6, <2>7 DEF Rotation!Rotate
<1>3. CASE AgeToken
  <2>1. UNCHANGED <<pc, tok, issued>>
    BY <1>3 DEF AgeToken
  <2>2. Leading' = Leading /\ Bearers' = Bearers /\ Using' = Using
    BY <2>1 DEF Leading, Bearers, Using, Elected
  <2>3. CASE token.phase = "fresh"
    <3>1. token'.tok = token.tok
      BY <1>3, <2>3 DEF AgeToken, TokenRecords
    <3> QED
      BY <2>1, <2>2, <3>1 DEF Parts
  <2>4. CASE token.phase = "warm"
    <3>1. Rotation!Drop
      BY <1>3, <2>1, <2>2, <2>4 DEF AgeToken, Absent, Rotation!Drop
    <3> QED
      BY <3>1 DEF Rotation!Rotate
  <2> QED
    BY <1>3, <2>3, <2>4 DEF AgeToken
<1>4. CASE RevokeToken \/ Tick \/ UNCHANGED vars
  <2>1. UNCHANGED <<pc, tok, issued, token>>
    BY <1>4 DEF RevokeToken, Tick, vars
  <2> QED
    BY <2>1 DEF Parts, Leading, Bearers, Using, Elected
<1> QED
  BY <1>1, <1>2, <1>3, <1>4

(* What is overrun stays overrun.                                          *)
LEMMA OverrunStays ==
    ASSUME TypeOK, TypeOK', [Next]_vars, ~overran'
    PROVE  ~overran /\ overran' = overran
<1>1. overran => overran'
  <2> USE DEF procVars, redisVars, upstreamVars, limiterVars, historyVars
  <2>1. CASE \E s \in Search : Begin(s) \/ SearchStep(s)
    BY <2>1, Zenon DEF Begin, SearchStep, ReadUsable, ReadUnusable, SearchAnswered,
                       Invalidate
  <2>2. CASE \E p \in Proc : RefreshStep(p)
    BY <2>2, Zenon
    DEF RefreshStep, AcquireLock, LoseElection, StartLogin, LoginSucceeds, LoginFails,
        StoreToken, PublishToken, CheckLock, ReleaseLock, PollTimer, RereadToken
  <2>3. CASE \E p \in Proc : LoseReply(p)
    BY <2>3, Zenon DEF LoseReply
  <2>4. CASE \/ \E d \in Pod : DeliverNotice(d) \/ Crash(d)
             \/ AgeToken \/ RevokeToken \/ Tick \/ UNCHANGED vars
    BY <2>4, Zenon DEF DeliverNotice, Crash, AgeToken, RevokeToken, Tick, vars
  <2> QED
    BY <2>1, <2>2, <2>3, <2>4, Zenon DEF Next
<1>2. overran \in BOOLEAN /\ overran' \in BOOLEAN
  BY DEF TypeOK
<1> QED
  BY <1>1, <1>2, Zenon

(* Every step of the pods is one of the rotation.                          *)
LEMMA RotationStep ==
    ASSUME InOrder, InOrder', [Next]_vars
    PROVE  [(Rotation!Rotate /\ UNCHANGED overran) \/ Rotation!Overrun]_(Rotation!vars)
<1>1. CASE overran'
  <2>1. Rotation!Overrun
    BY <1>1, OverrunStep
  <2> QED
    BY <2>1, Zenon
<1>2. CASE ~overran'
  <2>1. ~overran /\ overran' = overran
    BY <1>2, OverrunStays DEF InOrder
  <2>2. Rotation!Rotate \/ UNCHANGED Parts
    BY <1>2, <2>1, SearchRotates, WaiterRotates, LeaderRotates, LostReplyRotates,
       WorldRotates DEF Next, RefreshStep
  <2> QED
    BY <2>1, <2>2 DEF Parts, Rotation!vars
<1> QED
  BY <1>1, <1>2, Zenon

(* The shared token rotates as TokenRotation says: a register with one     *)
(* elected writer, until the election is overrun                           *)
(* (token.service.ts:50-117, client.ts:42-86).                             *)
THEOREM RefinesRotation == Spec => IsRotation
<1>1. Init => Rotation!Init
  <2> SUFFICES ASSUME Init PROVE Rotation!Init
    OBVIOUS
  <2>1. \A p \in Proc : pc[p] = "idle" /\ tok[p] = 0
    BY DEF Init
  <2>2. Leading = {} /\ Bearers = {}
    BY <2>1 DEF Leading, Bearers, Elected, ElectedPc
  <2>3. Using = [s \in Search |-> 0]
    BY <2>1 DEF Using, Proc
  <2>4. issued = 1 /\ token.tok \in {0, 1}
    BY DEF Init, Absent
  <2>5. overran = FALSE
    BY Zenon DEF Init
  <2> QED
    BY <2>2, <2>3, <2>4, <2>5, Zenon DEF Rotation!Init
<1> QED
  BY <1>1, RotationStep, RotationOrder, PTL DEF Spec, IsRotation, Rotation!Spec
=============================================================================
