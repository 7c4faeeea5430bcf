--------------------- MODULE UsersDepositsStorageProofs ---------------------
(***************************************************************************)
(* Proofs about UsersDepositsStorage: its types; that every event is       *)
(* stored at most once and from a fresh balance; that it implements        *)
(* UserLedger; and that balances are what their histories add up to.       *)
(***************************************************************************)
EXTENDS UsersDepositsStorage, TLAPS, FiniteSetTheorems

Sum == INSTANCE SumTheorems WITH Op <- Delta

(* The types of what the operators on requests return.                     *)
LEMMA RequestTypes ==
  ASSUME NEW r \in Requests
  PROVE  /\ r.type \in Types /\ r.address \in Address /\ r.amount \in Nat
         /\ Lower[r.address] \in Address /\ Lower[r.address] \in Wallets
         /\ BalanceLock(r) \in LockNames
         /\ SwapsLock(r) \in LockNames
         /\ OuterLock(r) \in LockNames
         /\ Delta(r) \in Int
         /\ Delta(EventOf(r)) = Delta(r)
<1>1. r.type \in Types /\ r.address \in Address /\ r.amount \in Nat
  BY RequestsAssumption
<1>2. Lower[r.address] \in Address /\ Lower[r.address] \in Wallets
  BY <1>1, LowerAssumption DEF Wallets
<1>3. BalanceLock(r) \in LockNames /\ SwapsLock(r) \in LockNames
  BY <1>1, <1>2 DEF BalanceLock, SwapsLock, LockNames
<1>4. OuterLock(r) \in LockNames
  BY <1>3 DEF OuterLock
<1>5. Delta(r) \in Int /\ Delta(EventOf(r)) = Delta(r)
  BY <1>1 DEF Delta, EventOf
<1> QED BY <1>1, <1>2, <1>3, <1>4, <1>5

-----------------------------------------------------------------------------
(* Types.                                                                  *)

LockHolders == Caller \cup {"free", "orphan"}

(* Taking or awaiting a lock keeps the types of what it changes.           *)
LEMMA AcquireTypes ==
  ASSUME TypeOK, NEW c \in Caller, NEW k \in LockNames,
         NEW stage \in Stages, NEW waiting \in Stages,
         NEW retries \in 0..RetryCount,
         Acquire(c, k, stage, waiting, retries)
  PROVE  /\ locks' \in [LockNames -> LockHolders]
         /\ pc' \in [Caller -> Stages]
         /\ tries' \in [Caller -> 0..RetryCount]
         /\ \A d \in Caller : d # c => pc'[d] = pc[d]
BY ParametersAssumption DEF TypeOK, Acquire, LockHolders

(* So does the choice of the lock that a request takes first.              *)
LEMMA AcquireFirstTypes ==
  ASSUME TypeOK, NEW c \in Caller, NEW r \in Requests,
         NEW retries \in 0..RetryCount, AcquireFirst(c, r, retries)
  PROVE  /\ locks' \in [LockNames -> LockHolders]
         /\ pc' \in [Caller -> Stages]
         /\ tries' \in [Caller -> 0..RetryCount]
         /\ \A d \in Caller : d # c => pc'[d] = pc[d]
<1>1. CASE r.type = "swap-to-wban"
  <2>1. Acquire(c, SwapsLock(r), "swaps-locked", "waiting-swaps", retries)
    BY <1>1 DEF AcquireFirst
  <2> QED BY <2>1, AcquireTypes, RequestTypes DEF Stages
<1>2. CASE r.type # "swap-to-wban"
  <2>1. Acquire(c, BalanceLock(r), "locked", "waiting", retries)
    BY <1>2 DEF AcquireFirst
  <2> QED BY <2>1, AcquireTypes, RequestTypes DEF Stages
<1> QED BY <1>1, <1>2

(* Releasing a lock keeps the type of the locks.                           *)
LEMMA UnlockedTypes ==
  ASSUME TypeOK, NEW c \in Caller, NEW k
  PROVE  Unlocked(c, k) \in [LockNames -> LockHolders]
BY DEF TypeOK, Unlocked, LockHolders

(* Ending a call keeps the types of what it changes.                       *)
LEMMA SettleTypes ==
  ASSUME TypeOK, NEW c \in Caller, Settle(c)
  PROVE  /\ pc' \in [Caller -> Stages]
         /\ req' \in [Caller -> Requests \cup {NoRequest}]
         /\ \A d \in Caller : pc'[d] # "idle" => req'[d] \in Requests
         /\ val' \in [Caller -> Int]
         /\ tries' \in [Caller -> 0..RetryCount]
BY ParametersAssumption DEF TypeOK, Settle, Stages

(* The initial states have the types.                                      *)
LEMMA TypeOKInit == Init => TypeOK
BY ParametersAssumption, LowerAssumption DEF Init, TypeOK, Wallets, Stages

(* Every step keeps the types.                                             *)
LEMMA TypeOKStep == TypeOK /\ [Next]_storageVars => TypeOK'
<1> SUFFICES ASSUME TypeOK, [Next]_storageVars PROVE TypeOK'
  OBVIOUS
<1> USE DEF LockHolders
<1>1. ASSUME NEW c \in Caller, NEW r \in Requests, Call(c, r) PROVE TypeOK'
  <2>1. CASE UNCHANGED <<pc, req, tries, locks>>
    BY <1>1, <2>1 DEF TypeOK, Call
  <2>2. CASE /\ pc' = [pc EXCEPT ![c] = "checked"]
             /\ req' = [req EXCEPT ![c] = r]
             /\ UNCHANGED <<tries, locks>>
    BY <1>1, <2>2 DEF TypeOK, Call, Stages
  <2>3. CASE AcquireFirst(c, r, 0) /\ req' = [req EXCEPT ![c] = r]
    <3>1. 0 \in 0..RetryCount
      BY ParametersAssumption
    <3>2. /\ locks' \in [LockNames -> LockHolders]
          /\ pc' \in [Caller -> Stages]
          /\ tries' \in [Caller -> 0..RetryCount]
          /\ \A d \in Caller : d # c => pc'[d] = pc[d]
      BY <2>3, <3>1, AcquireFirstTypes
    <3> QED BY <1>1, <2>3, <3>2 DEF TypeOK, Call
  <2> QED BY <1>1, <2>1, <2>2, <2>3 DEF Call
<1>2. ASSUME NEW c \in Caller, BeginLocking(c) PROVE TypeOK'
  <2>1. req[c] \in Requests /\ 0 \in 0..RetryCount
    BY <1>2, ParametersAssumption DEF TypeOK, BeginLocking
  <2>2. AcquireFirst(c, req[c], 0)
    BY <1>2 DEF BeginLocking
  <2>3. /\ locks' \in [LockNames -> LockHolders]
        /\ pc' \in [Caller -> Stages]
        /\ tries' \in [Caller -> 0..RetryCount]
        /\ \A d \in Caller : d # c => pc'[d] = pc[d]
    BY <2>1, <2>2, AcquireFirstTypes
  <2> QED BY <1>2, <2>1, <2>3 DEF TypeOK, BeginLocking
<1>3. ASSUME NEW c \in Caller, LockBalance(c) PROVE TypeOK'
  <2>1. req[c] \in Requests /\ 0 \in 0..RetryCount
    BY <1>3, ParametersAssumption DEF TypeOK, LockBalance
  <2>2. Acquire(c, BalanceLock(req[c]), "locked", "waiting", 0)
    BY <1>3 DEF LockBalance
  <2>3. /\ locks' \in [LockNames -> LockHolders]
        /\ pc' \in [Caller -> Stages]
        /\ tries' \in [Caller -> 0..RetryCount]
        /\ \A d \in Caller : d # c => pc'[d] = pc[d]
    BY <2>1, <2>2, AcquireTypes, RequestTypes DEF Stages
  <2> QED BY <1>3, <2>1, <2>3 DEF TypeOK, LockBalance
<1>4. ASSUME NEW c \in Caller, RetryLock(c) PROVE TypeOK'
  <2>1. req[c] \in Requests /\ tries[c] + 1 \in 0..RetryCount
    BY <1>4, ParametersAssumption DEF TypeOK, RetryLock
  <2>2. /\ locks' \in [LockNames -> LockHolders]
        /\ pc' \in [Caller -> Stages]
        /\ tries' \in [Caller -> 0..RetryCount]
        /\ \A d \in Caller : d # c => pc'[d] = pc[d]
    <3>1. CASE AcquireFirst(c, req[c], tries[c] + 1)
      BY <2>1, <3>1, AcquireFirstTypes
    <3>2. CASE Acquire(c, BalanceLock(req[c]), "locked", "waiting", tries[c] + 1)
      BY <2>1, <3>2, AcquireTypes, RequestTypes DEF Stages
    <3> QED BY <1>4, <3>1, <3>2 DEF RetryLock
  <2> QED BY <1>4, <2>1, <2>2 DEF TypeOK, RetryLock
<1>5. ASSUME NEW c \in Caller, GiveUp(c) PROVE TypeOK'
  BY <1>5, SettleTypes, UnlockedTypes DEF TypeOK, GiveUp
<1>6. ASSUME NEW c \in Caller, Recheck(c) PROVE TypeOK'
  BY <1>6 DEF TypeOK, Recheck, Stages, redisVars
<1>7. ASSUME NEW c \in Caller, Read(c) PROVE TypeOK'
  <2>1. req[c] \in Requests
    BY <1>7 DEF TypeOK, Read
  <2>2. banBalance[Lower[req[c].address]] \in Int
    BY <2>1, RequestTypes DEF TypeOK
  <2> QED BY <1>7, <2>1, <2>2 DEF TypeOK, Read, Stages, redisVars
<1>8. ASSUME NEW c \in Caller, ReadFails(c) PROVE TypeOK'
  <2>1. CASE Settle(c)
    BY <1>8, <2>1, SettleTypes, UnlockedTypes DEF TypeOK, ReadFails
  <2>2. CASE pc' = [pc EXCEPT ![c] = "releasing"] /\ UNCHANGED <<req, val, tries>>
    BY <1>8, <2>2, UnlockedTypes DEF TypeOK, ReadFails, Stages
  <2> QED BY <1>8, <2>1, <2>2 DEF ReadFails
<1>9. ASSUME NEW c \in Caller, UnlockRead(c) PROVE TypeOK'
  BY <1>9, UnlockedTypes DEF TypeOK, UnlockRead, Stages
<1>10. ASSUME NEW c \in Caller, Write(c) PROVE TypeOK'
  <2>1. req[c] \in Requests
    BY <1>10 DEF TypeOK, Write, ReadyToWrite
  <2>2. NewBalance(c) \in Int
    BY <2>1, RequestTypes DEF TypeOK, NewBalance
  <2>3. banBalance' \in [Wallets -> Int]
    BY <1>10, <2>2 DEF TypeOK, Write
  <2>4. audit' \subseteq {EventOf(r) : r \in Requests}
    BY <1>10, <2>1 DEF TypeOK, Write
  <2>5. applied' \in [Requests -> Nat]
    BY <1>10, <2>1 DEF TypeOK, Write
  <2> QED BY <1>10, <2>1, <2>3, <2>4, <2>5 DEF TypeOK, Write, Stages
<1>11. ASSUME NEW c \in Caller, WriteFails(c) PROVE TypeOK'
  BY <1>11 DEF TypeOK, WriteFails, ReadyToWrite, Stages, redisVars
<1>12. ASSUME NEW c \in Caller, Release(c) PROVE TypeOK'
  BY <1>12, SettleTypes, UnlockedTypes DEF TypeOK, Release
<1>13. ASSUME NEW k \in LockNames, Expire(k) PROVE TypeOK'
  BY <1>13 DEF TypeOK, Expire, callVars
<1>14. CASE Crash
  BY <1>14, ParametersAssumption DEF TypeOK, Crash, Free, Stages
<1>15. CASE UNCHANGED storageVars
  BY <1>15 DEF TypeOK, storageVars, redisVars, callVars
<1> QED
  BY <1>1, <1>2, <1>3, <1>4, <1>5, <1>6, <1>7, <1>8, <1>9, <1>10, <1>11,
     <1>12, <1>13, <1>14, <1>15 DEF Next, Step

(* Every variable keeps its type, whatever the parameters.                 *)
THEOREM TypeCorrect == Spec => []TypeOK
BY TypeOKInit, TypeOKStep, PTL DEF Spec

-----------------------------------------------------------------------------
(* The steps of one call and the calls beside it.                          *)

(* Taking a lock, or failing to, loses none of those already held.         *)
LEMMA AcquireHolds ==
  ASSUME TypeOK, NEW c \in Caller, NEW k \in LockNames,
         NEW stage, NEW waiting, NEW retries,
         Acquire(c, k, stage, waiting, retries)
  PROVE  /\ \/ pc'[c] = stage /\ locks'[k] = c
            \/ pc'[c] = waiting
         /\ \A d \in Caller, j \in LockNames : locks[j] = d => locks'[j] = d
         /\ \A d \in Caller : d # c => pc'[d] = pc[d]
BY ParametersAssumption DEF TypeOK, Acquire, Free

(* So does the choice of the lock that a request takes first.              *)
LEMMA AcquireFirstHolds ==
  ASSUME TypeOK, NEW c \in Caller, NEW r \in Requests, NEW retries,
         AcquireFirst(c, r, retries)
  PROVE  /\ \/ /\ pc'[c] = IF r.type = "swap-to-wban" THEN "swaps-locked" ELSE "locked"
               /\ locks'[OuterLock(r)] = c
            \/ pc'[c] = IF r.type = "swap-to-wban" THEN "waiting-swaps" ELSE "waiting"
         /\ \A d \in Caller, j \in LockNames : locks[j] = d => locks'[j] = d
         /\ \A d \in Caller : d # c => pc'[d] = pc[d]
<1>1. CASE r.type = "swap-to-wban"
  <2>1. Acquire(c, SwapsLock(r), "swaps-locked", "waiting-swaps", retries)
    BY <1>1 DEF AcquireFirst
  <2>2. /\ \/ pc'[c] = "swaps-locked" /\ locks'[SwapsLock(r)] = c
           \/ pc'[c] = "waiting-swaps"
        /\ \A d \in Caller, j \in LockNames : locks[j] = d => locks'[j] = d
        /\ \A d \in Caller : d # c => pc'[d] = pc[d]
    BY <2>1, AcquireHolds, RequestTypes
  <2> QED BY <1>1, <2>2 DEF OuterLock
<1>2. CASE r.type # "swap-to-wban"
  <2>1. Acquire(c, BalanceLock(r), "locked", "waiting", retries)
    BY <1>2 DEF AcquireFirst
  <2>2. /\ \/ pc'[c] = "locked" /\ locks'[BalanceLock(r)] = c
           \/ pc'[c] = "waiting"
        /\ \A d \in Caller, j \in LockNames : locks[j] = d => locks'[j] = d
        /\ \A d \in Caller : d # c => pc'[d] = pc[d]
    BY <2>1, AcquireHolds, RequestTypes
  <2> QED BY <1>2, <2>2 DEF OuterLock
<1> QED BY <1>1, <1>2

(* A release frees no lock but the one it names, and only if it is held.   *)
LEMMA UnlockedHolds ==
  ASSUME TypeOK, NEW c \in Caller, NEW k \in LockNames
  PROVE  /\ \A d \in Caller, j \in LockNames :
              d # c /\ locks[j] = d => Unlocked(c, k)[j] = d
         /\ \A j \in LockNames : j # k => Unlocked(c, k)[j] = locks[j]
BY DEF TypeOK, Unlocked

(* A step of one call leaves the others and their locks as they were.      *)
LEMMA OthersKept ==
  ASSUME TypeOK, NEW c \in Caller,
         Step(c) \/ \E r \in Requests : Call(c, r),
         NEW d \in Caller, d # c
  PROVE  /\ pc'[d] = pc[d] /\ req'[d] = req[d] /\ val'[d] = val[d]
         /\ \A j \in LockNames : locks[j] = d => locks'[j] = d
<1> DEFINE Kept == /\ pc'[d] = pc[d] /\ req'[d] = req[d] /\ val'[d] = val[d]
                   /\ \A j \in LockNames : locks[j] = d => locks'[j] = d
<1>a. pc[c] # "idle" => req[c] \in Requests /\ BalanceLock(req[c]) \in LockNames
                                            /\ OuterLock(req[c]) \in LockNames
  BY RequestTypes DEF TypeOK
<1>1. ASSUME NEW r \in Requests, Call(c, r) PROVE Kept
  <2>1. CASE AcquireFirst(c, r, 0) /\ req' = [req EXCEPT ![c] = r]
    <3>1. val' = val
      BY <1>1 DEF Call
    <3>2. req'[d] = req[d]
      BY <2>1 DEF TypeOK
    <3> QED BY <2>1, <3>1, <3>2, AcquireFirstHolds
  <2>2. CASE UNCHANGED <<pc, req, tries, locks>>
    BY <1>1, <2>2 DEF Call
  <2>3. CASE /\ pc' = [pc EXCEPT ![c] = "checked"]
             /\ req' = [req EXCEPT ![c] = r]
             /\ UNCHANGED <<tries, locks>>
    <3>1. val' = val
      BY <1>1 DEF Call
    <3> QED BY <2>3, <3>1 DEF TypeOK
  <2> QED BY <1>1, <2>1, <2>2, <2>3 DEF Call
<1>2. CASE BeginLocking(c)
  BY <1>2, <1>a, AcquireFirstHolds DEF BeginLocking
<1>3. CASE LockBalance(c)
  BY <1>3, <1>a, AcquireHolds DEF LockBalance
<1>4. CASE RetryLock(c)
  <2>1. CASE AcquireFirst(c, req[c], tries[c] + 1) /\ pc[c] = "waiting-swaps"
    BY <1>4, <1>a, <2>1, AcquireFirstHolds DEF RetryLock
  <2>2. CASE /\ Acquire(c, BalanceLock(req[c]), "locked", "waiting", tries[c] + 1)
             /\ pc[c] = "waiting"
    BY <1>4, <1>a, <2>2, AcquireHolds DEF RetryLock
  <2> QED BY <1>4, <2>1, <2>2 DEF RetryLock
<1>5. CASE GiveUp(c)
  BY <1>5, <1>a, UnlockedHolds DEF GiveUp, Settle, TypeOK
<1>6. CASE Recheck(c) \/ Read(c) \/ Write(c) \/ WriteFails(c)
  BY <1>6 DEF Recheck, Read, Write, WriteFails, TypeOK, redisVars
<1>7. CASE ReadFails(c)
  BY <1>7, <1>a, UnlockedHolds DEF ReadFails, Settle, TypeOK
<1>8. CASE UnlockRead(c)
  BY <1>8, <1>a, UnlockedHolds DEF UnlockRead, TypeOK
<1>9. CASE Release(c)
  BY <1>9, <1>a, UnlockedHolds DEF Release, Settle, TypeOK
<1> QED
  BY <1>1, <1>2, <1>3, <1>4, <1>5, <1>6, <1>7, <1>8, <1>9 DEF Step

(* Without a TTL that strikes live calls, Expire frees only orphans.       *)
LEMMA ExpireKeeps ==
  ASSUME TypeOK, ~TtlMayElapse, NEW k \in LockNames, Expire(k)
  PROVE  /\ UNCHANGED <<banBalance, audit, pc, req, val, submitted, applied>>
         /\ \A d \in Caller, j \in LockNames : locks[j] = d => locks'[j] = d
BY ParametersAssumption DEF Expire, TypeOK, callVars

-----------------------------------------------------------------------------
(* The inductive invariants and what they assume.                          *)

(* Locks outlast the calls that hold them, and a deposit is submitted anew *)
(* only after its last store ended.                                        *)
CallsInTime == ~TtlMayElapse /\ ~RetryInFlight

(* All stores on one wallet go by one lock.                                *)
OneLockPerWallet == Canonical /\ LockDiscipline

(* Events tell the requests they come from apart.                          *)
LEMMA EventOfInjective ==
  ASSUME NEW r \in Requests, NEW s \in Requests,
         r.type \in WriteTypes, EventOf(r) = EventOf(s)
  PROVE  r = s
BY RequestsAssumption DEF EventOf

(* No call is under way and nothing is recorded.                           *)
LEMMA IInvInit == Init => IInv
<1> SUFFICES ASSUME Init PROVE IInv
  OBVIOUS
<1>1. TypeOK
  BY TypeOKInit
<1>2. StagesMatchTypes /\ HoldsOuterLock /\ ReadIsFresh
  BY DEF Init, StagesMatchTypes, HoldsOuterLock, Holding, ReadIsFresh
<1>3. UnwrittenIsUnrecorded /\ SubmittedOnce /\ AppliedMatchesAudit
  BY DEF Init, UnwrittenIsUnrecorded, SubmittedOnce, AppliedMatchesAudit
<1> QED BY <1>1, <1>2, <1>3 DEF IInv, OnceInv

(* A call only goes through the stages of its type.                        *)
LEMMA StagesStep ==
  ASSUME OnceInv, Next PROVE StagesMatchTypes'
<1> USE DEF StagesMatchTypes
<1>0. TypeOK /\ StagesMatchTypes
  BY DEF OnceInv
<1>1. ASSUME NEW c \in Caller, NEW r \in Requests, Call(c, r)
      PROVE  StagesMatchTypes'
  <2>1. \A d \in Caller : d # c => pc'[d] = pc[d] /\ req'[d] = req[d]
    BY <1>0, <1>1, OthersKept
  <2>2. CASE AcquireFirst(c, r, 0) /\ req' = [req EXCEPT ![c] = r]
    BY <1>0, <2>1, <2>2, AcquireFirstHolds DEF TypeOK
  <2>3. CASE UNCHANGED <<pc, req, tries, locks>>
    BY <1>0, <2>3
  <2>4. CASE /\ pc' = [pc EXCEPT ![c] = "checked"]
             /\ req' = [req EXCEPT ![c] = r]
    BY <1>0, <2>1, <2>4 DEF TypeOK
  <2> QED BY <1>1, <2>2, <2>3, <2>4 DEF Call
<1>2. ASSUME NEW c \in Caller, Step(c) PROVE StagesMatchTypes'
  <2>1. \A d \in Caller : d # c => pc'[d] = pc[d] /\ req'[d] = req[d]
    BY <1>0, <1>2, OthersKept
  <2>2. CASE BeginLocking(c)
    BY <1>0, <2>1, <2>2, AcquireFirstHolds DEF BeginLocking, TypeOK
  <2>3. CASE LockBalance(c)
    BY <1>0, <2>1, <2>3, AcquireHolds, RequestTypes DEF LockBalance, TypeOK
  <2>4. CASE RetryLock(c)
    <3>1. CASE AcquireFirst(c, req[c], tries[c] + 1) /\ pc[c] = "waiting-swaps"
      BY <1>0, <2>1, <2>4, <3>1, AcquireFirstHolds DEF RetryLock, TypeOK
    <3>2. CASE /\ Acquire(c, BalanceLock(req[c]), "locked", "waiting", tries[c] + 1)
               /\ pc[c] = "waiting"
      BY <1>0, <2>1, <2>4, <3>2, AcquireHolds, RequestTypes DEF RetryLock, TypeOK
    <3> QED BY <2>4, <3>1, <3>2 DEF RetryLock
  <2>5. CASE GiveUp(c) \/ Release(c)
    BY <1>0, <2>1, <2>5 DEF GiveUp, Release, Settle, TypeOK
  <2>6. CASE Recheck(c) \/ Read(c) \/ UnlockRead(c) \/ Write(c) \/ WriteFails(c)
    BY <1>0, <2>1, <2>6
    DEF Recheck, Read, UnlockRead, Write, WriteFails, ReadyToWrite, TypeOK
  <2>7. CASE ReadFails(c)
    BY <1>0, <2>1, <2>7 DEF ReadFails, Settle, TypeOK
  <2> QED BY <1>2, <2>2, <2>3, <2>4, <2>5, <2>6, <2>7 DEF Step
<1>3. ASSUME NEW k \in LockNames, Expire(k) PROVE StagesMatchTypes'
  BY <1>0, <1>3 DEF Expire, callVars
<1>4. CASE Crash
  BY <1>4 DEF Crash
<1> QED BY <1>1, <1>2, <1>3, <1>4 DEF Next

(* The lock of its request stays with a call from the stage that took it   *)
(* to the one that gives it up.                                            *)
LEMMA HoldsStep ==
  ASSUME OnceInv, Next, ~TtlMayElapse PROVE HoldsOuterLock'
<1>0. TypeOK /\ StagesMatchTypes /\ HoldsOuterLock
  BY DEF OnceInv
<1>a. \A d \in Caller : pc[d] # "idle" =>
        /\ req[d] \in Requests
        /\ BalanceLock(req[d]) \in LockNames /\ OuterLock(req[d]) \in LockNames
  BY <1>0, RequestTypes DEF TypeOK
<1>b. \A d \in Caller : Holding(d) => pc[d] # "idle"
  BY DEF Holding
<1>c. ASSUME NEW c \in Caller, Step(c) \/ \E r \in Requests : Call(c, r),
             NEW d \in Caller, d # c, Holding(d)'
      PROVE  locks'[OuterLock(req'[d])] = d
  <2>1. pc'[d] = pc[d] /\ req'[d] = req[d]
        /\ \A j \in LockNames : locks[j] = d => locks'[j] = d
    BY <1>0, <1>c, OthersKept
  <2>2. Holding(d)
    BY <1>c, <2>1 DEF Holding
  <2>3. locks[OuterLock(req[d])] = d
    BY <1>0, <2>2 DEF HoldsOuterLock
  <2> QED BY <1>a, <1>b, <2>1, <2>2, <2>3
<1>1. ASSUME NEW c \in Caller, NEW r \in Requests, Call(c, r), Holding(c)'
      PROVE  locks'[OuterLock(req'[c])] = c
  <2>1. pc[c] = "idle"
    BY <1>1 DEF Call
  <2>2. CASE AcquireFirst(c, r, 0) /\ req' = [req EXCEPT ![c] = r]
             /\ r.type \in {"balance", "swap-to-wban"}
    <3>1. req'[c] = r
      BY <1>0, <2>2 DEF TypeOK
    <3> QED BY <1>0, <1>1, <2>2, <3>1, AcquireFirstHolds DEF Holding
  <2>3. CASE UNCHANGED <<pc, req, tries, locks>>
    BY <1>1, <2>1, <2>3 DEF Holding
  <2>4. CASE pc' = [pc EXCEPT ![c] = "checked"]
    BY <1>0, <1>1, <2>4 DEF Holding, TypeOK
  <2> QED BY <1>1, <2>2, <2>3, <2>4 DEF Call
<1>2. ASSUME NEW c \in Caller, Step(c), Holding(c)'
      PROVE  locks'[OuterLock(req'[c])] = c
  <2>1. CASE BeginLocking(c)
    <3>1. AcquireFirst(c, req[c], 0) /\ req' = req /\ pc[c] = "checked"
      BY <2>1 DEF BeginLocking
    <3> QED BY <1>0, <1>2, <1>a, <3>1, AcquireFirstHolds DEF Holding
  <2>2. CASE LockBalance(c)
    <3>1. /\ Acquire(c, BalanceLock(req[c]), "locked", "waiting", 0)
          /\ req' = req /\ pc[c] = "swaps-locked"
      BY <2>2 DEF LockBalance
    <3>2. locks[OuterLock(req[c])] = c
      BY <1>0, <3>1 DEF HoldsOuterLock, Holding
    <3> QED BY <1>0, <1>a, <3>1, <3>2, AcquireHolds
  <2>3. CASE RetryLock(c)
    <3>1. CASE AcquireFirst(c, req[c], tries[c] + 1) /\ pc[c] = "waiting-swaps"
      BY <1>0, <1>2, <1>a, <2>3, <3>1, AcquireFirstHolds DEF Holding, RetryLock
    <3>2. CASE /\ Acquire(c, BalanceLock(req[c]), "locked", "waiting", tries[c] + 1)
               /\ pc[c] = "waiting"
      <4>1. req' = req
        BY <2>3 DEF RetryLock
      <4>2. CASE req[c].type = "swap-to-wban"
        <5>1. locks[OuterLock(req[c])] = c
          BY <1>0, <3>2, <4>2 DEF HoldsOuterLock, Holding
        <5> QED BY <1>0, <1>a, <3>2, <4>1, <5>1, AcquireHolds
      <4>3. CASE req[c].type # "swap-to-wban"
        <5>1. OuterLock(req[c]) = BalanceLock(req[c])
          BY <4>3 DEF OuterLock
        <5> QED BY <1>0, <1>2, <1>a, <3>2, <4>1, <4>3, <5>1, AcquireHolds DEF Holding
      <4> QED BY <4>2, <4>3
    <3> QED BY <2>3, <3>1, <3>2 DEF RetryLock
  <2>4. CASE GiveUp(c) \/ Release(c)
    BY <1>0, <1>2, <2>4 DEF GiveUp, Release, Settle, Holding, TypeOK
  <2>5. CASE Recheck(c) \/ Read(c) \/ Write(c) \/ WriteFails(c)
    <3>1. Holding(c) /\ req' = req /\ locks' = locks
      BY <2>5 DEF Recheck, Read, Write, WriteFails, ReadyToWrite, Holding, redisVars
    <3> QED BY <1>0, <3>1 DEF HoldsOuterLock
  <2>6. CASE ReadFails(c)
    <3>1. CASE Settle(c)
      BY <1>0, <1>2, <3>1 DEF Settle, Holding, TypeOK
    <3>2. CASE req[c].type = "swap-to-wban" /\ req' = req
      <4>1. locks[OuterLock(req[c])] = c /\ pc[c] # "idle"
        BY <1>0, <2>6 DEF ReadFails, HoldsOuterLock, Holding
      <4>2. OuterLock(req[c]) # BalanceLock(req[c])
        BY <3>2 DEF OuterLock, BalanceLock, SwapsLock
      <4> QED BY <1>0, <1>a, <2>6, <3>2, <4>1, <4>2, UnlockedHolds DEF ReadFails
    <3> QED BY <2>6, <3>1, <3>2 DEF ReadFails
  <2>7. CASE UnlockRead(c)
    <3>1. locks[OuterLock(req[c])] = c /\ pc[c] # "idle"
      BY <1>0, <2>7 DEF UnlockRead, HoldsOuterLock, Holding
    <3>2. OuterLock(req[c]) # BalanceLock(req[c])
      BY <2>7 DEF UnlockRead, OuterLock, BalanceLock, SwapsLock
    <3> QED BY <1>0, <1>a, <2>7, <3>1, <3>2, UnlockedHolds DEF UnlockRead
  <2> QED BY <1>2, <2>1, <2>2, <2>3, <2>4, <2>5, <2>6, <2>7 DEF Step
<1>3. ASSUME NEW k \in LockNames, Expire(k) PROVE HoldsOuterLock'
  BY <1>0, <1>3, <1>a, <1>b, ExpireKeeps DEF HoldsOuterLock, Holding
<1>4. CASE Crash
  BY <1>4 DEF Crash, HoldsOuterLock, Holding
<1>5. ASSUME NEW c \in Caller, Step(c) \/ \E r \in Requests : Call(c, r)
      PROVE  HoldsOuterLock'
  BY <1>c, <1>1, <1>2, <1>5 DEF HoldsOuterLock
<1> QED BY <1>3, <1>4, <1>5 DEF Next

(* Apart from Write, a step of a call touches no balance and no history,   *)
(* and only Read, UnlockRead and Recheck reach the stages they are for.    *)
LEMMA QuietSteps ==
  ASSUME TypeOK, NEW c \in Caller, Step(c), ~Write(c)
  PROVE  /\ UNCHANGED <<banBalance, audit, submitted, applied>>
         /\ pc[c] # "idle"
         /\ pc'[c] = "idle" \/ req'[c] = req[c]
         /\ pc'[c] = "read" => Read(c)
         /\ pc'[c] = "unlocked" => UnlockRead(c)
         /\ pc'[c] = "rechecked" => Recheck(c)
         /\ pc[c] = "releasing" => pc'[c] = "idle"
<1> DEFINE Quiet == /\ UNCHANGED <<banBalance, audit, submitted, applied>>
                    /\ pc[c] # "idle"
                    /\ pc'[c] = "idle" \/ req'[c] = req[c]
                    /\ pc'[c] = "read" => Read(c)
                    /\ pc'[c] = "unlocked" => UnlockRead(c)
                    /\ pc'[c] = "rechecked" => Recheck(c)
                    /\ pc[c] = "releasing" => pc'[c] = "idle"
<1>a. pc[c] # "idle" => req[c] \in Requests /\ BalanceLock(req[c]) \in LockNames
  BY RequestTypes DEF TypeOK
<1>1. CASE BeginLocking(c)
  BY <1>1, <1>a, AcquireFirstHolds DEF BeginLocking
<1>2. CASE LockBalance(c)
  BY <1>2, <1>a, AcquireHolds DEF LockBalance
<1>3. CASE RetryLock(c)
  <2>1. CASE AcquireFirst(c, req[c], tries[c] + 1) /\ pc[c] = "waiting-swaps"
    BY <1>3, <1>a, <2>1, AcquireFirstHolds DEF RetryLock
  <2>2. CASE /\ Acquire(c, BalanceLock(req[c]), "locked", "waiting", tries[c] + 1)
             /\ pc[c] = "waiting"
    BY <1>3, <1>a, <2>2, AcquireHolds DEF RetryLock
  <2> QED BY <1>3, <2>1, <2>2 DEF RetryLock
<1>4. CASE GiveUp(c) \/ Release(c)
  BY <1>4 DEF GiveUp, Release, Settle, TypeOK
<1>5. CASE Recheck(c) \/ Read(c) \/ UnlockRead(c) \/ WriteFails(c)
  BY <1>5 DEF Recheck, Read, UnlockRead, WriteFails, ReadyToWrite, TypeOK, redisVars
<1>6. CASE ReadFails(c)
  BY <1>6 DEF ReadFails, Settle, TypeOK
<1> QED BY <1>1, <1>2, <1>3, <1>4, <1>5, <1>6 DEF Step

(* What modules that build on the storage need of its steps: a call keeps  *)
(* its request until it is over, and only a write records, its own event.  *)
LEMMA StepKeeps ==
  ASSUME TypeOK, NEW c \in Caller, Step(c)
  PROVE  /\ \A d \in Caller : req'[d] = req[d] \/ req'[d] = NoRequest
         /\ audit' = audit \/ (Write(c) /\ audit' = audit \cup {EventOf(req[c])})
         /\ pc[c] # "idle" /\ req[c] \in Requests
<1>1. pc[c] # "idle"
  BY DEF Step, BeginLocking, LockBalance, RetryLock, GiveUp, Recheck, Read,
         ReadFails, UnlockRead, Write, WriteFails, ReadyToWrite, Release
<1>2. \A d \in Caller : d # c => req'[d] = req[d]
  BY OthersKept
<1>3. req'[c] = req[c] \/ req'[c] = NoRequest
  <2>1. CASE GiveUp(c) \/ Release(c)
    BY <2>1 DEF GiveUp, Release, Settle, TypeOK
  <2>2. CASE ReadFails(c)
    BY <2>2 DEF ReadFails, Settle, TypeOK
  <2>3. CASE BeginLocking(c) \/ LockBalance(c) \/ RetryLock(c) \/ Recheck(c) \/ Read(c)
             \/ UnlockRead(c) \/ Write(c) \/ WriteFails(c)
    BY <2>3
    DEF BeginLocking, LockBalance, RetryLock, Recheck, Read, UnlockRead, Write, WriteFails
  <2> QED BY <2>1, <2>2, <2>3 DEF Step
<1>4. audit' = audit \/ (Write(c) /\ audit' = audit \cup {EventOf(req[c])})
  BY QuietSteps DEF Write
<1> QED BY <1>1, <1>2, <1>3, <1>4 DEF TypeOK

(* A call that starts carries the request it was made for.                 *)
LEMMA CallKeeps ==
  ASSUME TypeOK, NEW c \in Caller, NEW r \in Requests, Call(c, r)
  PROVE  /\ \A d \in Caller : req'[d] = req[d] \/ (d = c /\ req'[d] = r)
         /\ audit' = audit
<1>1. audit' = audit
  BY DEF Call
<1>2. req' = req \/ req' = [req EXCEPT ![c] = r]
  BY DEF Call
<1> QED BY <1>1, <1>2 DEF TypeOK

(* What a write finds: its caller holds the lock of its store and its      *)
(* event is not in the history.                                            *)
LEMMA WriteFinds ==
  ASSUME OnceInv, NEW c \in Caller, Write(c)
  PROVE  /\ req[c] \in Requests /\ req[c].type \in WriteTypes
         /\ pc[c] \in {"read", "unlocked"} /\ pc'[c] = "releasing"
         /\ locks[OuterLock(req[c])] = c
         /\ EventOf(req[c]) \notin audit
<1>0. TypeOK /\ StagesMatchTypes /\ HoldsOuterLock /\ UnwrittenIsUnrecorded
  BY DEF OnceInv
<1>1. pc[c] \in {"read", "unlocked"} /\ req[c].type \in WriteTypes
  BY <1>0 DEF Write, ReadyToWrite, StagesMatchTypes, WriteTypes
<1>2. req[c] \in Requests
  BY <1>0, <1>1 DEF TypeOK
<1>3. locks[OuterLock(req[c])] = c
  BY <1>0, <1>1 DEF HoldsOuterLock, Holding
<1>4. Unwritten(c)
  BY <1>0, <1>1 DEF Unwritten, WriteTypes, StagesMatchTypes
<1>5. EventOf(req[c]) \notin audit
  BY <1>0, <1>1, <1>4 DEF UnwrittenIsUnrecorded
<1>6. pc'[c] = "releasing"
  BY <1>0 DEF Write, TypeOK
<1> QED BY <1>1, <1>2, <1>3, <1>5, <1>6

(* Two stores on one wallet are never both between read and write.         *)
LEMMA OneWriterPerWallet ==
  ASSUME OnceInv, OneLockPerWallet, NEW c \in Caller, NEW d \in Caller,
         pc[c] \in {"read", "unlocked"}, req[c].type \in WriteTypes,
         pc[d] \in {"read", "unlocked"}, req[d].type \in WriteTypes,
         Lower[req[c].address] = Lower[req[d].address]
  PROVE  c = d
<1>1. req[c] \in Requests /\ req[d] \in Requests
  BY DEF OnceInv, TypeOK
<1>2. locks[OuterLock(req[c])] = c /\ locks[OuterLock(req[d])] = d
  BY DEF OnceInv, HoldsOuterLock, Holding
<1>3. req[c].type = "swap-to-wban" <=> req[d].type = "swap-to-wban"
  BY <1>1 DEF OneLockPerWallet, LockDiscipline, WriteTypes
<1>4. OuterLock(req[c]) = OuterLock(req[d])
  BY <1>1, <1>3 DEF OneLockPerWallet, Canonical, OuterLock, SwapsLock, BalanceLock
<1> QED BY <1>2, <1>4

(* No store moves the balance another one has read: the first moves it     *)
(* under the lock the second would have to hold.                           *)
LEMMA FreshStep ==
  ASSUME IInv, Next, OneLockPerWallet PROVE ReadIsFresh'
<1>0. TypeOK /\ ReadIsFresh /\ OnceInv
  BY DEF IInv, OnceInv
<1>1. ASSUME NEW c \in Caller, Step(c), NEW d \in Caller,
             pc'[d] \in {"read", "unlocked"}, req'[d].type \in WriteTypes
      PROVE  val'[d] = banBalance'[Lower[req'[d].address]]
  <2>1. CASE d = c /\ ~Write(c)
    <3>1. UNCHANGED banBalance /\ req'[d] = req[d]
      BY <1>0, <1>1, <2>1, QuietSteps
    <3>2. CASE Read(c)
      BY <1>0, <2>1, <3>1, <3>2 DEF Read, TypeOK
    <3>3. CASE UnlockRead(c)
      BY <1>0, <1>1, <2>1, <3>1, <3>3 DEF UnlockRead, ReadIsFresh
    <3> QED BY <1>0, <1>1, <2>1, <3>2, <3>3, QuietSteps
  <2>2. CASE d # c
    <3>1. pc'[d] = pc[d] /\ req'[d] = req[d] /\ val'[d] = val[d]
      BY <1>0, <1>1, <2>2, OthersKept
    <3>2. val[d] = banBalance[Lower[req[d].address]]
      BY <1>0, <1>1, <3>1 DEF ReadIsFresh
    <3>3. CASE ~Write(c)
      BY <1>0, <1>1, <3>1, <3>2, <3>3, QuietSteps
    <3>4. CASE Write(c)
      <4>1. Lower[req[c].address] # Lower[req[d].address]
        BY <1>0, <1>1, <2>2, <3>1, <3>4, WriteFinds, OneWriterPerWallet
      <4>2. banBalance'[Lower[req[d].address]] = banBalance[Lower[req[d].address]]
        <5>1. banBalance' = [banBalance EXCEPT ![Lower[req[c].address]] = NewBalance(c)]
          BY <3>4 DEF Write
        <5> QED BY <1>0, <4>1, <5>1 DEF TypeOK
      <4> QED BY <3>1, <3>2, <4>2
    <3> QED BY <3>3, <3>4
  <2>3. CASE d = c /\ Write(c)
    BY <1>0, <1>1, <2>3, WriteFinds
  <2> QED BY <2>1, <2>2, <2>3
<1>2. ASSUME NEW c \in Caller, NEW r \in Requests, Call(c, r), NEW d \in Caller,
             pc'[d] \in {"read", "unlocked"}, req'[d].type \in WriteTypes
      PROVE  val'[d] = banBalance'[Lower[req'[d].address]]
  <2>1. UNCHANGED <<banBalance, val>> /\ pc[c] = "idle"
    BY <1>2 DEF Call
  <2>2. d # c
    <3>1. CASE AcquireFirst(c, r, 0)
      BY <1>0, <1>2, <3>1, AcquireFirstHolds
    <3>2. CASE UNCHANGED <<pc, req, tries, locks>>
      BY <1>2, <2>1, <3>2
    <3>3. CASE pc' = [pc EXCEPT ![c] = "checked"]
      BY <1>0, <1>2, <3>3 DEF TypeOK
    <3> QED BY <1>2, <3>1, <3>2, <3>3 DEF Call
  <2>3. pc'[d] = pc[d] /\ req'[d] = req[d]
    BY <1>0, <1>2, <2>2, OthersKept
  <2> QED BY <1>0, <1>2, <2>1, <2>3 DEF ReadIsFresh
<1>3. ASSUME NEW k \in LockNames, Expire(k) PROVE ReadIsFresh'
  BY <1>0, <1>3 DEF Expire, callVars, ReadIsFresh
<1>4. CASE Crash
  BY <1>4 DEF Crash, ReadIsFresh
<1> QED BY <1>1, <1>2, <1>3, <1>4 DEF Next, ReadIsFresh

(* Writing one event leaves no other caller about to write it too.         *)
LEMMA UnrecordedStep ==
  ASSUME OnceInv, Next PROVE UnwrittenIsUnrecorded'
<1>0. TypeOK /\ StagesMatchTypes /\ HoldsOuterLock /\ SubmittedOnce /\ UnwrittenIsUnrecorded
  BY DEF OnceInv
<1>1. ASSUME NEW c \in Caller, Step(c), NEW d \in Caller,
             pc'[d] # "idle", Unwritten(d)'
      PROVE  EventOf(req'[d]) \notin audit'
  <2>1. CASE d = c /\ ~Write(c)
    <3>1. UNCHANGED audit /\ req'[d] = req[d] /\ pc[d] \notin {"idle", "releasing"}
      BY <1>0, <1>1, <2>1, QuietSteps
    <3>2. CASE req[d].type \in {"deposit", "withdrawal", "swap-to-wban"}
      BY <1>0, <3>1, <3>2 DEF UnwrittenIsUnrecorded, Unwritten
    <3>3. CASE req[d].type = "swap-to-ban"
      <4>1. Recheck(d) \/ Read(d)
        BY <1>0, <1>1, <2>1, <3>1, <3>3, QuietSteps DEF Unwritten
      <4>2. CASE Read(d)
        <5>1. pc[d] = "rechecked"
          BY <3>3, <4>2 DEF Read
        <5> QED BY <1>0, <3>1, <3>3, <5>1 DEF UnwrittenIsUnrecorded, Unwritten
      <4>3. CASE Recheck(d)
        <5>1. ~swapToBanWasAlreadyDone(req[d])
          BY <1>0, <1>1, <3>1, <3>3, <4>3 DEF Recheck, TypeOK, Unwritten
        <5> QED BY <3>1, <3>3, <5>1 DEF swapToBanWasAlreadyDone, EventOf
      <4> QED BY <4>1, <4>2, <4>3
    <3> QED BY <1>1, <3>1, <3>2, <3>3 DEF Unwritten
  <2>2. CASE d = c /\ Write(c)
    BY <1>1, <2>2, WriteFinds DEF Unwritten
  <2>3. CASE d # c
    <3>1. pc'[d] = pc[d] /\ req'[d] = req[d]
      BY <1>0, <1>1, <2>3, OthersKept
    <3>2. Unwritten(d) /\ EventOf(req[d]) \notin audit
      BY <1>0, <1>1, <3>1 DEF UnwrittenIsUnrecorded, Unwritten
    <3>3. CASE ~Write(c)
      BY <1>0, <1>1, <3>1, <3>2, <3>3, QuietSteps
    <3>4. CASE Write(c)
      <4>1. req[c] \in Requests /\ req[c].type \in WriteTypes
            /\ locks[OuterLock(req[c])] = c /\ pc[c] # "idle"
        BY <3>4, WriteFinds
      <4>2. req[d] \in Requests
        BY <1>0, <1>1, <3>1 DEF TypeOK
      <4>3. req[c] # req[d]
        <5>1. CASE req[d].type = "swap-to-ban"
          <6>1. locks[OuterLock(req[d])] = d
            BY <1>0, <3>2, <5>1 DEF HoldsOuterLock, Holding, Unwritten
          <6> QED BY <2>3, <4>1, <6>1
        <5>2. CASE req[d].type # "swap-to-ban"
          BY <1>0, <1>1, <2>3, <3>1, <3>2, <4>1, <5>2 DEF SubmittedOnce, Unwritten
        <5> QED BY <5>1, <5>2
      <4>4. audit' = audit \cup {EventOf(req[c])}
        BY <3>4 DEF Write
      <4> QED BY <3>1, <3>2, <4>1, <4>2, <4>3, <4>4, EventOfInjective
    <3> QED BY <3>3, <3>4
  <2> QED BY <2>1, <2>2, <2>3
<1>2. ASSUME NEW c \in Caller, NEW r \in Requests, Call(c, r), NEW d \in Caller,
             pc'[d] # "idle", Unwritten(d)'
      PROVE  EventOf(req'[d]) \notin audit'
  <2>1. UNCHANGED audit /\ pc[c] = "idle" /\ MaySubmit(r)
    BY <1>2 DEF Call
  <2>2. CASE d # c
    <3>1. pc'[d] = pc[d] /\ req'[d] = req[d]
      BY <1>0, <1>2, <2>2, OthersKept
    <3> QED BY <1>0, <1>2, <2>1, <3>1 DEF UnwrittenIsUnrecorded, Unwritten
  <2>3. CASE d = c
    <3>1. CASE AcquireFirst(c, r, 0) /\ req' = [req EXCEPT ![c] = r]
               /\ r.type \in {"balance", "swap-to-wban"}
      <4>1. req'[d] = r
        BY <1>0, <2>3, <3>1 DEF TypeOK
      <4>2. r.type = "swap-to-wban"
        BY <1>2, <3>1, <4>1 DEF Unwritten
      <4> QED BY <1>0, <2>1, <4>1, <4>2 DEF MaySubmit, SubmittedOnce
    <3>2. CASE UNCHANGED <<pc, req, tries, locks>>
      BY <1>2, <2>1, <2>3, <3>2
    <3>3. CASE /\ pc' = [pc EXCEPT ![c] = "checked"]
               /\ req' = [req EXCEPT ![c] = r]
               /\ r.type \in {"deposit", "withdrawal", "swap-to-ban"}
               /\ ~AlreadyStored(r)
      <4>1. req'[d] = r /\ pc'[d] = "checked"
        BY <1>0, <2>3, <3>3 DEF TypeOK
      <4>2. CASE r.type = "deposit"
        <5>1. ~containsUserDepositTransaction(r)
          BY <3>3, <4>2 DEF AlreadyStored, AlreadyIngested
        <5> QED BY <2>1, <4>1, <4>2, <5>1 DEF containsUserDepositTransaction, EventOf
      <4>3. CASE r.type = "withdrawal"
        BY <1>0, <2>1, <4>1, <4>3 DEF MaySubmit, SubmittedOnce
      <4> QED BY <1>2, <3>3, <4>1, <4>2, <4>3 DEF Unwritten
    <3> QED BY <1>2, <3>1, <3>2, <3>3 DEF Call
  <2> QED BY <2>2, <2>3
<1>3. ASSUME NEW k \in LockNames, Expire(k) PROVE UnwrittenIsUnrecorded'
  BY <1>0, <1>3 DEF Expire, callVars, UnwrittenIsUnrecorded, Unwritten
<1>4. CASE Crash
  BY <1>4 DEF Crash, UnwrittenIsUnrecorded
<1> QED BY <1>1, <1>2, <1>3, <1>4 DEF Next, UnwrittenIsUnrecorded

(* Two callers never carry the same deposit, withdrawal or swap to wBAN.   *)
LEMMA SubmittedStep ==
  ASSUME OnceInv, Next, ~RetryInFlight PROVE SubmittedOnce'
<1> DEFINE Once == {"deposit", "withdrawal", "swap-to-wban"}
           Fresh == {"withdrawal", "swap-to-wban"}
<1>0. TypeOK /\ SubmittedOnce
  BY DEF OnceInv
<1>1. ASSUME NEW c \in Caller, Step(c) PROVE SubmittedOnce'
  <2>1. \A d \in Caller : pc'[d] # "idle" => pc[d] # "idle" /\ req'[d] = req[d]
    <3>1. pc'[c] # "idle" => pc[c] # "idle" /\ req'[c] = req[c]
      <4>1. CASE Write(c)
        BY <4>1, WriteFinds DEF Write
      <4>2. CASE ~Write(c)
        BY <1>0, <1>1, <4>2, QuietSteps
      <4> QED BY <4>1, <4>2
    <3> QED BY <1>0, <1>1, <3>1, OthersKept
  <2>2. submitted' = submitted
    <3>1. CASE Write(c)
      BY <3>1 DEF Write
    <3> QED BY <1>0, <1>1, <3>1, QuietSteps
  <2>3. \A r \in Requests :
          r.type \in Fresh /\ EventOf(r) \in audit' => r \in submitted
    <3>1. CASE Write(c)
      <4>1. req[c] \in Requests /\ pc[c] # "idle" /\ audit' = audit \cup {EventOf(req[c])}
        BY <3>1, WriteFinds DEF Write
      <4>2. \A r \in Requests : r.type \in Fresh /\ EventOf(r) = EventOf(req[c]) => r = req[c]
        BY <4>1, EventOfInjective DEF WriteTypes
      <4> QED BY <1>0, <4>1, <4>2 DEF SubmittedOnce
    <3>2. CASE ~Write(c)
      BY <1>0, <1>1, <3>2, QuietSteps DEF SubmittedOnce
    <3> QED BY <3>1, <3>2
  <2> QED BY <1>0, <2>1, <2>2, <2>3 DEF SubmittedOnce
<1>2. ASSUME NEW c \in Caller, NEW r \in Requests, Call(c, r) PROVE SubmittedOnce'
  <2>1. /\ UNCHANGED audit /\ MaySubmit(r)
        /\ submitted' = IF r.type \in Fresh THEN submitted \cup {r} ELSE submitted
    BY <1>2 DEF Call
  <2>2. \A d \in Caller : d # c => pc'[d] = pc[d] /\ req'[d] = req[d]
    BY <1>0, <1>2, OthersKept
  <2>3. pc[c] = "idle" /\ (pc'[c] # "idle" => req'[c] = r)
    <3>1. CASE UNCHANGED <<pc, req, tries, locks>>
      BY <1>2, <3>1 DEF Call
    <3>2. CASE req' = [req EXCEPT ![c] = r]
      BY <1>0, <1>2, <3>2 DEF Call, TypeOK
    <3> QED BY <1>2, <3>1, <3>2 DEF Call
  <2>4. ASSUME NEW d \in Caller, d # c, pc[d] # "idle" PROVE r.type \in Once => req[d] # r
    <3>1. CASE r.type \in Fresh
      BY <1>0, <2>1, <2>4, <3>1 DEF MaySubmit, SubmittedOnce
    <3>2. CASE r.type = "deposit"
      BY <2>1, <2>4, <3>2 DEF MaySubmit
    <3> QED BY <3>1, <3>2
  <2>5. \A d, e \in Caller :
          pc'[d] # "idle" /\ pc'[e] # "idle" /\ req'[d] = req'[e] /\ req'[d].type \in Once
            => d = e
    <3> SUFFICES ASSUME NEW d \in Caller, NEW e \in Caller,
                        pc'[d] # "idle", pc'[e] # "idle",
                        req'[d] = req'[e], req'[d].type \in Once, d # e
                 PROVE  FALSE
      OBVIOUS
    <3>1. CASE d = c
      BY <2>2, <2>3, <2>4, <3>1
    <3>2. CASE e = c
      BY <2>2, <2>3, <2>4, <3>2
    <3>3. CASE d # c /\ e # c
      BY <1>0, <2>2, <3>3 DEF SubmittedOnce
    <3> QED BY <3>1, <3>2, <3>3
  <2> QED BY <1>0, <2>1, <2>2, <2>3, <2>5 DEF SubmittedOnce
<1>3. ASSUME NEW k \in LockNames, Expire(k) PROVE SubmittedOnce'
  BY <1>0, <1>3 DEF Expire, callVars, SubmittedOnce
<1>4. CASE Crash
  BY <1>0, <1>4 DEF Crash, SubmittedOnce
<1> QED BY <1>1, <1>2, <1>3, <1>4 DEF Next

(* A write records its event for the first time.                           *)
LEMMA AppliedStep ==
  ASSUME OnceInv, Next PROVE AppliedMatchesAudit'
<1>0. TypeOK /\ AppliedMatchesAudit
  BY DEF OnceInv
<1>1. ASSUME NEW c \in Caller, Write(c) PROVE AppliedMatchesAudit'
  <2>1. /\ req[c] \in Requests /\ req[c].type \in WriteTypes
        /\ EventOf(req[c]) \notin audit
    BY <1>1, WriteFinds
  <2>2. /\ audit' = audit \cup {EventOf(req[c])}
        /\ applied' = [applied EXCEPT ![req[c]] = @ + 1]
    BY <1>1 DEF Write
  <2>3. applied[req[c]] = 0
    BY <1>0, <2>1 DEF AppliedMatchesAudit
  <2> SUFFICES ASSUME NEW r \in Requests
               PROVE  applied'[r] = IF r.type \in WriteTypes /\ EventOf(r) \in audit'
                                      THEN 1 ELSE 0
    BY DEF AppliedMatchesAudit
  <2>4. CASE r = req[c]
    BY <1>0, <2>1, <2>2, <2>3, <2>4 DEF TypeOK
  <2>5. CASE r # req[c]
    <3>1. applied'[r] = applied[r]
      BY <1>0, <2>2, <2>5 DEF TypeOK
    <3>2. r.type \in WriteTypes => EventOf(r) # EventOf(req[c])
      BY <2>1, <2>5, EventOfInjective
    <3> QED BY <1>0, <2>2, <3>1, <3>2 DEF AppliedMatchesAudit
  <2> QED BY <2>4, <2>5
<1>2. ASSUME UNCHANGED <<audit, applied>> PROVE AppliedMatchesAudit'
  BY <1>0, <1>2 DEF AppliedMatchesAudit
<1>3. ASSUME NEW c \in Caller, NEW r \in Requests, Call(c, r) PROVE UNCHANGED <<audit, applied>>
  BY <1>3 DEF Call
<1>4. (\E k \in LockNames : Expire(k)) \/ Crash => UNCHANGED <<audit, applied>>
  BY DEF Expire, Crash
<1> QED BY <1>0, <1>1, <1>2, <1>3, <1>4, QuietSteps DEF Next

-----------------------------------------------------------------------------
(* OnceInv is inductive.                                                   *)
LEMMA OnceInvStep ==
  ASSUME CallsInTime PROVE OnceInv /\ [Next]_storageVars => OnceInv'
<1> SUFFICES ASSUME OnceInv, [Next]_storageVars PROVE OnceInv'
  OBVIOUS
<1>1. CASE Next
  <2>1. TypeOK'
    BY <1>1, TypeOKStep DEF OnceInv
  <2>2. StagesMatchTypes' /\ HoldsOuterLock'
    BY <1>1, StagesStep, HoldsStep DEF CallsInTime
  <2>3. UnwrittenIsUnrecorded' /\ SubmittedOnce' /\ AppliedMatchesAudit'
    BY <1>1, UnrecordedStep, SubmittedStep, AppliedStep DEF CallsInTime
  <2> QED BY <2>1, <2>2, <2>3 DEF OnceInv
<1>2. CASE UNCHANGED storageVars
  BY <1>2
  DEF storageVars, redisVars, callVars, OnceInv, TypeOK, StagesMatchTypes,
      HoldsOuterLock, Holding, UnwrittenIsUnrecorded, Unwritten,
      SubmittedOnce, AppliedMatchesAudit
<1> QED BY <1>1, <1>2

(* OnceInv and ReadIsFresh together are inductive.                         *)
LEMMA IInvStep ==
  ASSUME CallsInTime, OneLockPerWallet PROVE IInv /\ [Next]_storageVars => IInv'
<1> SUFFICES ASSUME IInv, [Next]_storageVars PROVE IInv'
  OBVIOUS
<1>1. OnceInv'
  BY OnceInvStep DEF IInv
<1>2. ReadIsFresh'
  <2>1. CASE Next
    BY <2>1, FreshStep
  <2>2. CASE UNCHANGED storageVars
    BY <2>2 DEF storageVars, redisVars, callVars, IInv, ReadIsFresh
  <2> QED BY <2>1, <2>2
<1> QED BY <1>1, <1>2 DEF IInv

(* No event is ever written twice: neither retries nor crashes nor two     *)
(* concurrent swaps to BAN with the same hash make a store happen again,   *)
(* whatever is stored and however its wallet is spelled.                   *)
THEOREM AtMostOnce == ASSUME CallsInTime PROVE Spec => []StoredAtMostOnce
<1>1. Init => OnceInv
  BY IInvInit DEF IInv
<1>2. OnceInv => StoredAtMostOnce
  BY DEF OnceInv, AppliedMatchesAudit, StoredAtMostOnce
<1> QED BY <1>1, <1>2, OnceInvStep, PTL DEF Spec

(* The invariant that the next two theorems rest on.                       *)
THEOREM Inductive == ASSUME CallsInTime, OneLockPerWallet PROVE Spec => []IInv
BY IInvInit, IInvStep, PTL DEF Spec

(* A store never overwrites a balance that moved after it was read.        *)
THEOREM FreshWrites == ASSUME CallsInTime, OneLockPerWallet PROVE Spec => []WritesAreFresh
<1>1. IInv => WritesAreFresh
  <2> SUFFICES ASSUME IInv, NEW c \in Caller, ReadyToWrite(c)
               PROVE  val[c] = banBalance[Lower[req[c].address]]
    BY DEF WritesAreFresh
  <2>1. pc[c] \in {"read", "unlocked"} /\ req[c].type \in WriteTypes
    BY DEF IInv, OnceInv, ReadyToWrite, StagesMatchTypes, WriteTypes
  <2> QED BY <2>1 DEF IInv, ReadIsFresh
<1> QED BY <1>1, Inductive, PTL

(* Every write is one Record of the ledger and every other step leaves     *)
(* balances and history alone.                                             *)
THEOREM Refinement == ASSUME CallsInTime, OneLockPerWallet PROVE Spec => ImplementsLedger
<1>1. Init => Ledger!Init
  BY DEF Init, Ledger!Init
<1>2. IInv /\ [Next]_storageVars => [Ledger!Next]_Ledger!ledgerVars
  <2> SUFFICES ASSUME IInv, [Next]_storageVars
               PROVE  Ledger!Next \/ UNCHANGED <<banBalance, audit>>
    BY DEF Ledger!ledgerVars
  <2>0. TypeOK /\ OnceInv
    BY DEF IInv, OnceInv
  <2>1. ASSUME NEW c \in Caller, Write(c) PROVE Ledger!Next
    <3> DEFINE e == EventOf(req[c])
    <3>1. /\ req[c] \in Requests /\ req[c].type \in WriteTypes /\ e \notin audit
          /\ val[c] = banBalance[Lower[req[c].address]]
      BY <2>0, <2>1, WriteFinds DEF IInv, ReadIsFresh
    <3>2. e \in {EventOf(r) : r \in {q \in Requests : q.type \in WriteTypes}}
      BY <3>1
    <3>3. e.address = Lower[req[c].address] /\ Ledger!Delta(e) = Delta(req[c])
      BY DEF EventOf, Delta, Ledger!Delta
    <3>4. /\ audit' = audit \cup {e}
          /\ banBalance' = [banBalance EXCEPT ![e.address] = @ + Ledger!Delta(e)]
      BY <2>0, <2>1, <3>1, <3>3 DEF Write, NewBalance, TypeOK
    <3> QED BY <3>1, <3>2, <3>4 DEF Ledger!Next, Ledger!Record
  <2>2. ASSUME NEW c \in Caller, NEW r \in Requests, Call(c, r)
        PROVE UNCHANGED <<banBalance, audit>>
    BY <2>2 DEF Call
  <2>3. (\E k \in LockNames : Expire(k)) \/ Crash => UNCHANGED <<banBalance, audit>>
    BY DEF Expire, Crash
  <2>4. UNCHANGED storageVars => UNCHANGED <<banBalance, audit>>
    BY DEF storageVars, redisVars
  <2> QED BY <2>0, <2>1, <2>2, <2>3, <2>4, QuietSteps DEF Next
<1> QED BY <1>1, <1>2, Inductive, PTL DEF Spec, ImplementsLedger, Ledger!Spec

-----------------------------------------------------------------------------
(* Balances add up.                                                        *)

EventsOf(w) == {e \in audit : e.address = w}

AuditIsFinite == IsFiniteSet(audit)

LedgerInv == IInv /\ AuditIsFinite /\ BalanceMatchesAudit

(* The sums of SumTheorems are the sums of the balances.                   *)
LEMMA SumIsTotal ==
  /\ \A S : Sum!Total(S) = MapThenSumSet(Delta, S)
  /\ \A S : Sum!IsFiniteSet(S) <=> IsFiniteSet(S)
BY DEF Sum!Total, Sum!MapThenSumSet, Sum!MapThenFoldSet, MapThenSumSet,
       MapThenFoldSet, Sum!IsFiniteSet, IsFiniteSet

(* A new event of a wallet adds to the sum of its events.                  *)
LEMMA EventAdds ==
  ASSUME TypeOK, AuditIsFinite, NEW r \in Requests, EventOf(r) \notin audit,
         NEW w
  PROVE  /\ MapThenSumSet(Delta, EventsOf(w)) \in Int
         /\ MapThenSumSet(Delta, {e \in audit \cup {EventOf(r)} : e.address = w})
              = IF Lower[r.address] = w
                  THEN MapThenSumSet(Delta, EventsOf(w)) + Delta(r)
                  ELSE MapThenSumSet(Delta, EventsOf(w))
<1> DEFINE S == EventsOf(w)
           n == EventOf(r)
           N == {e \in audit \cup {n} : e.address = w}
<1>1. IsFiniteSet(S)
  BY FS_Subset DEF AuditIsFinite, EventsOf
<1>2. (\A e \in S : Delta(e) \in Int) /\ Delta(n) \in Int /\ Delta(n) = Delta(r)
  BY RequestTypes DEF TypeOK, EventsOf
<1>3. n \notin S /\ n.address = Lower[r.address]
  BY DEF EventsOf, EventOf
<1>4. N = IF Lower[r.address] = w THEN S \cup {n} ELSE S
  BY <1>3 DEF EventsOf
<1> HIDE DEF S, n, N
<1>5. Sum!Total(S) \in Int /\ Sum!Total(S \cup {n}) = Sum!Total(S) + Delta(n)
  BY <1>1, <1>2, <1>3, SumIsTotal, Sum!SumType, Sum!SumAdd
<1>6. /\ MapThenSumSet(Delta, S) \in Int
      /\ MapThenSumSet(Delta, S \cup {n}) = MapThenSumSet(Delta, S) + Delta(r)
  BY <1>2, <1>5, SumIsTotal
<1>7. MapThenSumSet(Delta, N) = IF Lower[r.address] = w
                                  THEN MapThenSumSet(Delta, S) + Delta(r)
                                  ELSE MapThenSumSet(Delta, S)
  BY <1>4, <1>6
<1> QED BY <1>6, <1>7 DEF S, n, N

(* At first there are no events.                                           *)
LEMMA LedgerInvInit == Init => LedgerInv
<1> SUFFICES ASSUME Init PROVE LedgerInv
  OBVIOUS
<1>1. IInv
  BY IInvInit
<1>2. AuditIsFinite
  BY FS_EmptySet DEF Init, AuditIsFinite
<1>3. BalanceMatchesAudit
  <2>1. MapThenSumSet(Delta, {}) = 0
    BY SumIsTotal, Sum!SumEmpty
  <2> SUFFICES ASSUME NEW w \in Wallets
               PROVE  banBalance[w] = Opening
                        + MapThenSumSet(Delta, {e \in audit : e.address = w})
    BY DEF BalanceMatchesAudit
  <2>2. {e \in audit : e.address = w} = {} /\ banBalance[w] = Opening
    BY DEF Init
  <2>3. MapThenSumSet(Delta, {e \in audit : e.address = w}) = 0
    BY <2>1, <2>2
  <2> QED BY <2>2, <2>3, ParametersAssumption
<1> QED BY <1>1, <1>2, <1>3 DEF LedgerInv

(* A write moves its balance by what its event adds to the sum.            *)
LEMMA LedgerInvStep ==
  ASSUME CallsInTime, OneLockPerWallet
  PROVE  LedgerInv /\ [Next]_storageVars => LedgerInv'
<1> SUFFICES ASSUME LedgerInv, [Next]_storageVars PROVE LedgerInv'
  OBVIOUS
<1>0. TypeOK /\ OnceInv /\ IInv
  BY DEF LedgerInv, IInv, OnceInv
<1>1. IInv'
  BY <1>0, IInvStep
<1>2. ASSUME NEW c \in Caller, Write(c) PROVE AuditIsFinite' /\ BalanceMatchesAudit'
  <2> DEFINE r == req[c]
  <2>1. /\ r \in Requests /\ r.type \in WriteTypes /\ EventOf(r) \notin audit
        /\ val[c] = banBalance[Lower[r.address]]
    BY <1>0, <1>2, WriteFinds DEF IInv, ReadIsFresh
  <2>2. /\ audit' = audit \cup {EventOf(r)}
        /\ banBalance' = [banBalance EXCEPT ![Lower[r.address]] = @ + Delta(r)]
    BY <1>0, <1>2, <2>1 DEF Write, NewBalance, TypeOK
  <2> HIDE DEF r
  <2>3. AuditIsFinite'
    BY <2>2, FS_AddElement DEF LedgerInv, AuditIsFinite
  <2>4. ASSUME NEW w \in Wallets
        PROVE  banBalance'[w] = Opening + MapThenSumSet(Delta, {e \in audit' : e.address = w})
    <3> DEFINE old == MapThenSumSet(Delta, EventsOf(w))
               new == MapThenSumSet(Delta, {e \in audit \cup {EventOf(r)} : e.address = w})
    <3>1. /\ old \in Int
          /\ new = IF Lower[r.address] = w THEN old + Delta(r) ELSE old
      BY <1>0, <2>1, EventAdds DEF LedgerInv
    <3>2. banBalance[w] = Opening + old
      BY DEF LedgerInv, BalanceMatchesAudit, EventsOf
    <3>3. Opening \in Int /\ Delta(r) \in Int
      BY <2>1, ParametersAssumption, RequestTypes
    <3>4. banBalance'[w] = IF Lower[r.address] = w THEN banBalance[w] + Delta(r)
                                                   ELSE banBalance[w]
      BY <1>0, <2>2 DEF TypeOK
    <3>5. MapThenSumSet(Delta, {e \in audit' : e.address = w}) = new
      BY <2>2
    <3> HIDE DEF old, new
    <3>6. banBalance'[w] = Opening + new
      BY <3>1, <3>2, <3>3, <3>4
    <3> QED BY <3>5, <3>6
  <2> QED BY <2>3, <2>4 DEF BalanceMatchesAudit
<1>3. ASSUME UNCHANGED <<banBalance, audit>> PROVE AuditIsFinite' /\ BalanceMatchesAudit'
  BY <1>3 DEF LedgerInv, AuditIsFinite, BalanceMatchesAudit
<1>4. ASSUME NEW c \in Caller, NEW r \in Requests, Call(c, r)
      PROVE UNCHANGED <<banBalance, audit>>
  BY <1>4 DEF Call
<1>5. (\E k \in LockNames : Expire(k)) \/ Crash => UNCHANGED <<banBalance, audit>>
  BY DEF Expire, Crash
<1>6. UNCHANGED storageVars => UNCHANGED <<banBalance, audit>>
  BY DEF storageVars, redisVars
<1>7. AuditIsFinite' /\ BalanceMatchesAudit'
  BY <1>0, <1>2, <1>3, <1>4, <1>5, <1>6, QuietSteps DEF Next
<1> QED BY <1>1, <1>7 DEF LedgerInv

(* Whatever stores are made, in whatever order their commands reach Redis, *)
(* and whichever of them fail or die: a balance is the sum of its history. *)
THEOREM BalancesAddUp ==
  ASSUME CallsInTime, OneLockPerWallet PROVE Spec => []BalanceMatchesAudit
<1>1. LedgerInv => BalanceMatchesAudit
  BY DEF LedgerInv
<1> QED BY <1>1, LedgerInvInit, LedgerInvStep, PTL DEF Spec

-----------------------------------------------------------------------------
(* Whose step takes a lock from its holder.                                *)

(* A call that starts takes a lock at most, it never gives one back.       *)
LEMMA CallKeepsLocks ==
  ASSUME TypeOK, NEW c \in Caller, NEW r \in Requests, Call(c, r),
         NEW d \in Caller, NEW k \in LockNames, locks[k] = d
  PROVE  locks'[k] = d
<1>1. CASE AcquireFirst(c, r, 0)
  BY <1>1, AcquireFirstHolds
<1>2. CASE UNCHANGED locks
  BY <1>2
<1> QED BY <1>1, <1>2 DEF Call

(* Every release checks the token under the key: even with locks that time *)
(* out under live calls, and with calls that go on without them, a lock is *)
(* lost to its holder's own step, to its TTL or to a crash, never to the   *)
(* late release of a call that held it before.                             *)
THEOREM ReleasedByHolder == Spec => OnlyHolderReleases
<1>1. TypeOK /\ [Next]_storageVars =>
        [\A c \in Caller, k \in LockNames :
           locks[k] = c /\ locks'[k] # c
             => Step(c) \/ Expire(k) \/ Crash]_storageVars
  <2> SUFFICES ASSUME TypeOK, Next, NEW c \in Caller, NEW k \in LockNames,
                      locks[k] = c, locks'[k] # c
               PROVE  Step(c) \/ Expire(k) \/ Crash
    OBVIOUS
  <2>1. ASSUME NEW d \in Caller, Step(d) PROVE Step(c)
    BY <2>1, OthersKept
  <2>2. ASSUME NEW d \in Caller, NEW r \in Requests, Call(d, r) PROVE FALSE
    BY <2>2, CallKeepsLocks
  <2>3. ASSUME NEW j \in LockNames, Expire(j) PROVE Expire(k)
    BY <2>3 DEF Expire, TypeOK
  <2> QED BY <2>1, <2>2, <2>3 DEF Next
<1> QED BY <1>1, TypeCorrect, PTL DEF Spec, OnlyHolderReleases
=============================================================================
