---------------------------- MODULE SwapsProofs -----------------------------
(***************************************************************************)
(* Proofs about Swaps: its types; that it drives the storage only by steps *)
(* of UsersDepositsStorage; that no swap makes or loses value; what the    *)
(* retries of a swap may cost its user, and its relayed transactions the   *)
(* bridge; and that a job that has completed did what it says.             *)
(***************************************************************************)
EXTENDS Swaps, TLAPS, FiniteSetTheorems

(* The storage whose theorems these proofs cite is the storage the model   *)
(* instantiates: the two copies of every definition say the same.          *)
SP == INSTANCE UsersDepositsStorageProofs

LEMMA SameAssumptions ==
  SP!LowerAssumption /\ SP!RequestsAssumption /\ SP!ParametersAssumption
BY StorageAssumption
DEF Storage!LowerAssumption, SP!LowerAssumption, Storage!RequestsAssumption,
    SP!RequestsAssumption, Storage!ParametersAssumption,
    SP!ParametersAssumption, Storage!Types, SP!Types, Storage!WriteTypes,
    SP!WriteTypes

(* The types and the initial states are the same...                        *)
LEMMA SameStates ==
  /\ Storage!TypeOK <=> SP!TypeOK
  /\ Storage!TypeOK' <=> SP!TypeOK'
  /\ Storage!Init <=> SP!Init
<1>1. Storage!Init <=> SP!Init
  BY DEF Storage!Init, SP!Init, Storage!Wallets, SP!Wallets,
         Storage!LockNames, SP!LockNames
<1>2. Storage!TypeOK <=> SP!TypeOK
  BY DEF Storage!TypeOK, SP!TypeOK, Storage!Wallets, SP!Wallets,
         Storage!LockNames, SP!LockNames, Storage!Stages, SP!Stages,
         Storage!EventOf, SP!EventOf
<1>3. Storage!TypeOK' <=> SP!TypeOK'
  BY DEF Storage!TypeOK, SP!TypeOK, Storage!Wallets, SP!Wallets,
         Storage!LockNames, SP!LockNames, Storage!Stages, SP!Stages,
         Storage!EventOf, SP!EventOf
<1> QED BY <1>1, <1>2, <1>3

(* ...and so are the steps.                                                *)
LEMMA SameSteps ==
  /\ \A c \in Caller, r \in Requests : Storage!Call(c, r) <=> SP!Call(c, r)
  /\ \A c \in Caller : Storage!Step(c) <=> SP!Step(c)
  /\ Storage!LockNames = SP!LockNames
  /\ \A k \in SP!LockNames : Storage!Expire(k) <=> SP!Expire(k)
  /\ Storage!Crash <=> SP!Crash
  /\ UNCHANGED Storage!storageVars <=> UNCHANGED SP!storageVars
<1>1. \A c \in Caller, r \in Requests : Storage!Call(c, r) <=> SP!Call(c, r)
  BY DEF Storage!WriteTypes, SP!WriteTypes, Storage!Types, SP!Types,
         Storage!EventOf, SP!EventOf, Storage!containsUserDepositTransaction,
         SP!containsUserDepositTransaction,
         Storage!containsUserWithdrawalRequest,
         SP!containsUserWithdrawalRequest, Storage!Cardinality,
         SP!Cardinality, Storage!swapToBanWasAlreadyDone,
         SP!swapToBanWasAlreadyDone, Storage!AlreadyStored, SP!AlreadyStored,
         Storage!AlreadyIngested, SP!AlreadyIngested,
         Storage!BalanceLock, SP!BalanceLock, Storage!SwapsLock,
         SP!SwapsLock, Storage!Free, SP!Free, Storage!Acquire, SP!Acquire,
         Storage!AcquireFirst, SP!AcquireFirst, Storage!MaySubmit,
         SP!MaySubmit, Storage!Call, SP!Call
<1>2. \A c \in Caller : Storage!Step(c) <=> SP!Step(c)
  BY DEF Storage!WriteTypes, SP!WriteTypes, Storage!Types, SP!Types,
         Storage!redisVars, SP!redisVars, Storage!callVars, SP!callVars,
         Storage!storageVars, SP!storageVars, Storage!Wallets, SP!Wallets,
         Storage!LockNames, SP!LockNames, Storage!Delta, SP!Delta,
         Storage!EventOf, SP!EventOf, Storage!swapToBanWasAlreadyDone,
         SP!swapToBanWasAlreadyDone, Storage!BalanceLock, SP!BalanceLock,
         Storage!SwapsLock, SP!SwapsLock, Storage!OuterLock, SP!OuterLock,
         Storage!Free, SP!Free, Storage!Acquire, SP!Acquire,
         Storage!AcquireFirst, SP!AcquireFirst, Storage!Unlocked,
         SP!Unlocked, Storage!Settle, SP!Settle, Storage!BeginLocking,
         SP!BeginLocking, Storage!LockBalance, SP!LockBalance,
         Storage!RetryLock, SP!RetryLock, Storage!GiveUp, SP!GiveUp,
         Storage!Recheck, SP!Recheck, Storage!Read, SP!Read,
         Storage!ReadFails, SP!ReadFails, Storage!UnlockRead, SP!UnlockRead,
         Storage!ReadyToWrite, SP!ReadyToWrite, Storage!NewBalance,
         SP!NewBalance, Storage!Write, SP!Write, Storage!WriteFails,
         SP!WriteFails, Storage!Release, SP!Release, Storage!Step, SP!Step
<1>3. Storage!LockNames = SP!LockNames
  BY DEF Storage!LockNames, SP!LockNames
<1>4. \A k \in SP!LockNames : Storage!Expire(k) <=> SP!Expire(k)
  BY DEF Storage!Expire, SP!Expire, Storage!Free, SP!Free, Storage!callVars,
         SP!callVars
<1>5. Storage!Crash <=> SP!Crash
  BY DEF Storage!Crash, SP!Crash, Storage!Free, SP!Free, Storage!LockNames,
         SP!LockNames
<1>6. UNCHANGED Storage!storageVars <=> UNCHANGED SP!storageVars
  BY DEF Storage!storageVars, SP!storageVars, Storage!redisVars,
         SP!redisVars, Storage!callVars, SP!callVars
<1> QED BY <1>1, <1>2, <1>3, <1>4, <1>5, <1>6

-----------------------------------------------------------------------------
(* Facts about the constants and the worker.                               *)
LEMMA Callers ==
  /\ Worker \in Caller /\ Caller = {Worker}
  /\ NoRequest \notin Requests /\ NoJob \notin Jobs
  /\ Receipts \subseteq Requests
  /\ \A s : ReceiptsOf(s) \subseteq Receipts /\ BalanceOf(s) \subseteq Requests
  /\ \A s : \A r \in BalanceOf(s) : r.type = "balance" /\ r.address = s.wallet
  /\ \A r \in Receipts : r.type = "swap-to-wban"
  /\ "free" # Worker /\ "orphan" # Worker
BY SwapsAssumption, StorageAssumption
DEF Jobs, Receipts, ReceiptsOf, BalanceOf, Storage!RequestsAssumption,
    Storage!ParametersAssumption

LEMMA Kinds ==
  /\ Jobs = ToWBAN \cup ToBAN \cup Gasless
  /\ ToWBAN \cap ToBAN = {} /\ ToWBAN \cap Gasless = {} /\ ToBAN \cap Gasless = {}
BY SwapsAssumption DEF Jobs

LEMMA Requested ==
  /\ \A r \in Requests : r.address \in Address /\ Lower[r.address] \in Storage!Wallets
                         /\ r.amount \in Nat
  /\ \A r, q \in Requests :
       r.type \in {"swap-to-ban", "swap-to-wban"} /\ q.type \in {"swap-to-ban", "swap-to-wban"}
       /\ r.id = q.id => r = q
BY StorageAssumption
DEF Storage!RequestsAssumption, Storage!LowerAssumption, Storage!Wallets, Storage!WriteTypes

(* The request that credits a swap to BAN.                                 *)
LEMMA Credit ==
  ASSUME NEW b \in ToBAN
  PROVE  /\ CreditOf(b) \in Requests /\ CreditOf(b).type = "swap-to-ban"
         /\ CreditOf(b).id = b.hash
         /\ CreditOf(b).address = b.wallet /\ CreditOf(b).amount = b.amount
         /\ CreditOf(b) \notin Receipts
<1>1. PICK r \in Requests : /\ r.type = "swap-to-ban" /\ r.id = b.hash
                            /\ r.address = b.wallet /\ r.amount = b.amount
  BY SwapsAssumption
<1>2. CreditOf(b) \in Requests /\ CreditOf(b).type = "swap-to-ban" /\ CreditOf(b).id = b.hash
  BY <1>1 DEF CreditOf
<1>3. CreditOf(b) = r
  BY <1>1, <1>2, Requested
<1> QED BY <1>1, <1>2, <1>3 DEF Receipts

LEMMA EventsDiffer ==
  ASSUME NEW r \in Requests, NEW q \in Requests,
         r.type \in {"swap-to-ban", "swap-to-wban"},
         Storage!EventOf(r) = Storage!EventOf(q)
  PROVE  r = q
BY Requested DEF Storage!EventOf

(* The worker's job, and what becomes of it.                               *)
LEMMA Job ==
  ASSUME TypeOK, WorkerInv, current # NoJob \/ step # "none"
  PROVE  /\ current \in Jobs /\ current # NoJob /\ step # "none"
         /\ job[current] = "active" /\ made[current] \in 0..2
BY DEF TypeOK, WorkerInv, Attempts

LEMMA FailDoes ==
  ASSUME TypeOK, WorkerInv, NEW j \in Jobs, job[j] # "failed", Fail(j)
  PROVE  /\ job' \in [Jobs -> JobStates] /\ made' \in [Jobs -> 0..Attempts]
         /\ job'[j] \in {"delayed", "failed"} /\ made'[j] = made[j] + 1
         /\ job'[j] # "failed" => made'[j] < Attempts
         /\ \A i \in Jobs : i # j => job'[i] = job[i] /\ made'[i] = made[i]
<1>1. made[j] \in 0..2
  BY DEF TypeOK, WorkerInv, Attempts
<1>2. job' \in [Jobs -> JobStates] /\ made' \in [Jobs -> 0..Attempts]
  BY <1>1 DEF Fail, TypeOK, JobStates, Attempts
<1>3. /\ job'[j] \in {"delayed", "failed"} /\ made'[j] = made[j] + 1
      /\ job'[j] # "failed" => made'[j] < Attempts
  BY <1>1 DEF Fail, TypeOK, MoreAttempts, Attempts
<1>4. \A i \in Jobs : i # j => job'[i] = job[i] /\ made'[i] = made[i]
  BY DEF Fail, TypeOK
<1> QED BY <1>2, <1>3, <1>4

(* The job ends: it throws or it returns.                                  *)
JobEnds(states) ==
  /\ current' = NoJob /\ step' = "none" /\ receipt' = NoRequest
  /\ job' \in [Jobs -> JobStates] /\ made' \in [Jobs -> 0..Attempts]
  /\ job'[current] \in states
  /\ job'[current] # "failed" => made'[current] < Attempts
  /\ made'[current] >= made[current]
  /\ job'[current] # "completed" => made'[current] = made[current] + 1
  /\ \A i \in Jobs : i # current => job'[i] = job[i] /\ made'[i] = made[i]

LEMMA FailJobDoes ==
  ASSUME TypeOK, WorkerInv, current # NoJob, FailJob
  PROVE  JobEnds({"delayed", "failed"})
<1>1. current \in Jobs /\ job[current] # "failed" /\ made[current] \in 0..2
  BY Job
<1>2. made'[current] = made[current] + 1 /\ made'[current] >= made[current]
  BY <1>1, FailDoes DEF FailJob
<1> QED BY <1>1, <1>2, FailDoes DEF FailJob, JobEnds, WorkerFree

LEMMA CompleteJobDoes ==
  ASSUME TypeOK, WorkerInv, current # NoJob, CompleteJob
  PROVE  JobEnds({"completed"})
<1>1. current \in Jobs /\ made[current] \in 0..2 /\ made' = made
  BY Job DEF CompleteJob
<1>2. /\ job' \in [Jobs -> JobStates] /\ job'[current] = "completed"
      /\ \A i \in Jobs : i # current => job'[i] = job[i]
  BY <1>1 DEF CompleteJob, TypeOK, JobStates
<1> QED BY <1>1, <1>2 DEF CompleteJob, WorkerFree, JobEnds, TypeOK, Attempts

-----------------------------------------------------------------------------
(* What each action that uses the storage does to it.                      *)
UserLock(s) == <<"ban-balance", s.wallet>>

(* An attempt to get a lock.                                               *)
Gets(k, stage, waiting) ==
  \/ locks[k] = "free" /\ locks' = [locks EXCEPT ![k] = Worker] /\ pc'[Worker] = stage
  \/ locks[k] # "free" /\ locks' = locks /\ pc'[Worker] = waiting

LEMMA AcquireDoes ==
  ASSUME TypeOK, NEW k, NEW stage, NEW waiting, NEW n,
         Storage!Acquire(Worker, k, stage, waiting, n)
  PROVE  Gets(k, stage, waiting)
BY Callers DEF Storage!Acquire, Storage!Free, Gets, TypeOK, Storage!TypeOK

LEMMA ReadBalanceDoes ==
  ASSUME TypeOK, WorkerInv, ReadBalance
  PROVE  /\ step \in {"balance", "result"} /\ pc[Worker] = "idle" /\ current # NoJob
         /\ UNCHANGED <<queueVars, workerVars, chainVars, freeSwaps, boundVars>>
         /\ UNCHANGED <<banBalance, audit, val, submitted>>
         /\ req'[Worker] \in BalanceOf(current)
         /\ Storage!BalanceLock(req'[Worker]) = UserLock(current)
         /\ Storage!OuterLock(req'[Worker]) = UserLock(current)
         /\ Gets(UserLock(current), "locked", "waiting")
<1>1. PICK r \in BalanceOf(current) : Storage!Call(Worker, r)
  BY DEF ReadBalance
<1>2. /\ r.type = "balance"
      /\ Storage!BalanceLock(r) = UserLock(current) /\ Storage!OuterLock(r) = UserLock(current)
  BY <1>1, Callers DEF Storage!BalanceLock, Storage!OuterLock, UserLock
<1>3. /\ Storage!Acquire(Worker, UserLock(current), "locked", "waiting", 0)
      /\ req' = [req EXCEPT ![Worker] = r] /\ pc[Worker] = "idle"
      /\ UNCHANGED <<banBalance, audit, val, submitted>>
  BY <1>1, <1>2 DEF Storage!Call, Storage!AcquireFirst
<1>4. req'[Worker] = r
  BY <1>3, Callers DEF TypeOK, Storage!TypeOK
<1>5. /\ UNCHANGED <<queueVars, workerVars, chainVars, freeSwaps, boundVars>>
      /\ step \in {"balance", "result"}
  BY DEF ReadBalance
<1>6. current # NoJob
  BY <1>5, Job
<1> QED BY <1>1, <1>2, <1>3, <1>4, <1>5, <1>6, AcquireDoes

LEMMA StoreSwapDoes ==
  ASSUME TypeOK, WorkerInv, StoreSwap
  PROVE  /\ step = "store" /\ pc[Worker] = "idle" /\ current # NoJob
         /\ UNCHANGED <<queueVars, current, chainVars, freeSwaps, boundVars>>
         /\ UNCHANGED <<banBalance, audit, val>>
         /\ \/ /\ current \in ToWBAN /\ step' = "storing"
               /\ receipt' \in ReceiptsOf(current) \ submitted
               /\ submitted' = submitted \cup {receipt'} /\ req'[Worker] = receipt'
               /\ Gets(Storage!OuterLock(receipt'), "swaps-locked", "waiting-swaps")
            \/ /\ current \in ToBAN /\ UNCHANGED <<receipt, submitted, locks>>
               /\ step' = "storing" /\ pc'[Worker] = "checked"
               /\ req'[Worker] = CreditOf(current) /\ ~IsRecorded(CreditOf(current))
            \/ /\ current \in ToBAN /\ UNCHANGED <<receipt, submitted, locks, pc, req>>
               /\ step' = "result" /\ IsRecorded(CreditOf(current))
<1>1. /\ step = "store" /\ UNCHANGED <<queueVars, current, chainVars, freeSwaps, boundVars>>
      /\ step' = IF pc'[Worker] = "idle" THEN "result" ELSE "storing"
  BY DEF StoreSwap, Goes
<1>2. current # NoJob
  BY <1>1, Job
<1>3. ASSUME current \in ToWBAN, NEW r \in FreshReceipts(current),
             Storage!Call(Worker, r), receipt' = r
      PROVE  /\ pc[Worker] = "idle" /\ UNCHANGED <<banBalance, audit, val>>
             /\ receipt' \in ReceiptsOf(current) \ submitted /\ step' = "storing"
             /\ submitted' = submitted \cup {receipt'} /\ req'[Worker] = receipt'
             /\ Gets(Storage!OuterLock(receipt'), "swaps-locked", "waiting-swaps")
  <2>1. r.type = "swap-to-wban" /\ r \in ReceiptsOf(current) \ submitted
    BY Callers DEF FreshReceipts
  <2>2. /\ Storage!Acquire(Worker, Storage!OuterLock(r), "swaps-locked", "waiting-swaps", 0)
        /\ req' = [req EXCEPT ![Worker] = r] /\ pc[Worker] = "idle"
        /\ UNCHANGED <<banBalance, audit, val>> /\ submitted' = submitted \cup {r}
    BY <1>3, <2>1 DEF Storage!Call, Storage!AcquireFirst, Storage!OuterLock
  <2>3. req'[Worker] = r
    BY <2>2, Callers DEF TypeOK, Storage!TypeOK
  <2>4. Gets(Storage!OuterLock(r), "swaps-locked", "waiting-swaps")
    BY <2>2, AcquireDoes
  <2>5. step' = "storing"
    BY <1>1, <2>4 DEF Gets
  <2> QED BY <1>3, <2>1, <2>2, <2>3, <2>4, <2>5
<1>4. ASSUME current \in ToBAN, Storage!Call(Worker, CreditOf(current)), UNCHANGED receipt
      PROVE  /\ pc[Worker] = "idle" /\ UNCHANGED <<banBalance, audit, val, submitted, locks>>
             /\ \/ /\ step' = "storing" /\ pc'[Worker] = "checked"
                   /\ req'[Worker] = CreditOf(current) /\ ~IsRecorded(CreditOf(current))
                \/ UNCHANGED <<pc, req>> /\ step' = "result" /\ IsRecorded(CreditOf(current))
  <2> DEFINE r == CreditOf(current)
  <2>1. r \in Requests /\ r.type = "swap-to-ban"
    BY <1>4, Credit
  <2>2. Storage!AlreadyStored(r) <=> IsRecorded(r)
    <3>1. ASSUME NEW e \in audit, e.type = "swap-to-ban", e.id = r.id
          PROVE  IsRecorded(r)
      <4>1. PICK q \in Requests : e = Storage!EventOf(q)
        BY DEF TypeOK, Storage!TypeOK
      <4>2. q.type = "swap-to-ban" /\ q.id = r.id
        BY <3>1, <4>1 DEF Storage!EventOf
      <4>3. q = r
        BY <2>1, <4>2, Requested
      <4> QED BY <4>1, <4>3 DEF IsRecorded
    <3>2. IsRecorded(r) => \E e \in audit : e.type = "swap-to-ban" /\ e.id = r.id
      BY <2>1 DEF IsRecorded, Storage!EventOf
    <3> QED BY <2>1, <3>1, <3>2 
            DEF Storage!AlreadyStored, Storage!AlreadyIngested, Storage!swapToBanWasAlreadyDone
  <2> HIDE DEF r
  <2>3. /\ pc[Worker] = "idle" /\ UNCHANGED <<banBalance, audit, val, submitted, locks>>
        /\ \/ Storage!AlreadyStored(r) /\ UNCHANGED <<pc, req>>
           \/ /\ ~Storage!AlreadyStored(r)
              /\ pc' = [pc EXCEPT ![Worker] = "checked"] /\ req' = [req EXCEPT ![Worker] = r]
    BY <1>4, <2>1 DEF r, Storage!Call
  <2> QED BY <1>1, <2>2, <2>3, Callers DEF r, TypeOK, Storage!TypeOK
<1> QED BY <1>1, <1>2, <1>3, <1>4 DEF StoreSwap

(* What a call of the worker carries.                                      *)
LEMMA CallOf ==
  ASSUME TypeOK, WorkerInv, CallInv, ReceiptInv, pc[Worker] # "idle"
  PROVE  /\ current # NoJob /\ req[Worker] \in Requests
         /\ req[Worker].type \in {"balance", "swap-to-wban", "swap-to-ban"}
         /\ req[Worker].type = "balance" <=> step \in {"balance", "result"}
         /\ req[Worker].type = "balance" =>
              /\ req[Worker].address = current.wallet
              /\ Storage!BalanceLock(req[Worker]) = UserLock(current)
              /\ Storage!OuterLock(req[Worker]) = UserLock(current)
         /\ req[Worker].type # "balance" => step = "storing"
         /\ req[Worker].type = "swap-to-wban" =>
              current \in ToWBAN /\ req[Worker] = receipt /\ receipt \in ReceiptsOf(current)
         /\ req[Worker].type = "swap-to-ban" =>
              /\ current \in ToBAN /\ req[Worker] = CreditOf(current)
              /\ Storage!OuterLock(req[Worker]) = Storage!BalanceLock(req[Worker])
<1>1. req[Worker] \in Requests
  BY Callers DEF TypeOK, Storage!TypeOK
<1>2. CASE step \in {"balance", "result"} /\ req[Worker] \in BalanceOf(current)
  <2>1. current # NoJob
    BY <1>2, Job
  <2> QED BY <1>1, <1>2, <2>1, Callers DEF Storage!BalanceLock, Storage!OuterLock, UserLock
<1>3. CASE step = "storing" /\ current \in ToWBAN /\ req[Worker] = receipt
  <2>1. current # NoJob
    BY <1>3, Job
  <2>2. receipt \in ReceiptsOf(current) /\ receipt.type = "swap-to-wban"
    BY <1>1, <1>3, Callers DEF ReceiptInv
  <2> QED BY <1>1, <1>3, <2>1, <2>2
<1>4. CASE step = "storing" /\ current \in ToBAN /\ req[Worker] = CreditOf(current)
  <2>1. current # NoJob
    BY <1>4, Job
  <2> QED BY <1>1, <1>4, <2>1, Credit DEF Storage!OuterLock
<1> QED BY <1>2, <1>3, <1>4 DEF CallInv

LEMMA StorageStepDoes ==
  ASSUME TypeOK, WorkerInv, CallInv, ReceiptInv, StorageStep
  PROVE  /\ pc[Worker] # "idle"
         /\ UNCHANGED <<queueVars, workerVars, chainVars, freeSwaps, boundVars>>
         /\ UNCHANGED <<req, submitted>>
         /\ \/ /\ UNCHANGED <<banBalance, audit, val>>
               /\ pc[Worker] \in {"checked", "swaps-locked", "waiting"}
               /\ Gets(Storage!BalanceLock(req[Worker]), "locked", "waiting")
            \/ /\ UNCHANGED <<banBalance, audit, val>>
               /\ pc[Worker] = "waiting-swaps" /\ req[Worker].type = "swap-to-wban"
               /\ Gets(Storage!OuterLock(req[Worker]), "swaps-locked", "waiting-swaps")
            \/ /\ UNCHANGED <<banBalance, audit, val, locks>>
               /\ pc[Worker] = "locked" /\ req[Worker].type = "swap-to-ban"
               /\ pc'[Worker] \in {"rechecked", "releasing"}
            \/ /\ UNCHANGED <<banBalance, audit, locks>>
               /\ pc[Worker] = "rechecked"
                  \/ (pc[Worker] = "locked" /\ req[Worker].type # "swap-to-ban")
               /\ pc'[Worker] = "read"
               /\ val'[Worker] = banBalance[Lower[req[Worker].address]]
            \/ /\ UNCHANGED <<banBalance, audit, val>>
               /\ pc[Worker] = "read" /\ pc'[Worker] = "unlocked"
               /\ req[Worker].type = "swap-to-wban"
               /\ locks' = Storage!Unlocked(Worker, Storage!BalanceLock(req[Worker]))
            \/ /\ UNCHANGED <<locks, val>>
               /\ pc[Worker] \in {"read", "unlocked"} /\ pc'[Worker] = "releasing"
               /\ step = "storing" /\ req[Worker].type # "balance"
               /\ pc[Worker] = "read" => req[Worker].type = "swap-to-ban"
               /\ banBalance' = [banBalance EXCEPT ![Lower[req[Worker].address]] =
                                   @ + Storage!Delta(req[Worker])]
               /\ audit' = audit \cup {Storage!EventOf(req[Worker])}
<1>1. UNCHANGED <<queueVars, workerVars, chainVars, freeSwaps, boundVars>>
  BY DEF StorageStep
<1>t. /\ pc \in [Caller -> Storage!Stages] /\ val \in [Caller -> Int]
      /\ req \in [Caller -> Requests \cup {NoRequest}]
      /\ Worker \in Caller
  BY Callers DEF TypeOK, Storage!TypeOK
<1>c. /\ pc[Worker] # "idle" => req[Worker].type \in {"balance", "swap-to-wban", "swap-to-ban"}
      /\ pc[Worker] # "idle" /\ req[Worker].type # "balance" => step = "storing"
  BY CallOf
<1>2. CASE Storage!BeginLocking(Worker)
  <2>1. pc[Worker] = "checked" /\ req[Worker].type = "swap-to-ban"
    BY <1>2, Credit DEF Storage!BeginLocking, CallInv
  <2>2. /\ UNCHANGED <<banBalance, audit, req, val, submitted>>
        /\ Storage!Acquire(Worker, Storage!BalanceLock(req[Worker]), "locked", "waiting", 0)
    BY <1>2, <2>1 DEF Storage!BeginLocking, Storage!AcquireFirst
  <2> QED BY <1>1, <2>1, <2>2, AcquireDoes
<1>3. CASE Storage!LockBalance(Worker)
  <2>1. /\ UNCHANGED <<banBalance, audit, req, val, submitted>> /\ pc[Worker] = "swaps-locked"
        /\ Storage!Acquire(Worker, Storage!BalanceLock(req[Worker]), "locked", "waiting", 0)
    BY <1>3 DEF Storage!LockBalance
  <2> QED BY <1>1, <2>1, AcquireDoes
<1>4. CASE Storage!RetryLock(Worker)
  <2>1. UNCHANGED <<banBalance, audit, req, val, submitted>>
    BY <1>4 DEF Storage!RetryLock
  <2>2. CASE pc[Worker] = "waiting-swaps"
    <3>1. req[Worker].type = "swap-to-wban"
      BY <2>2, Callers DEF CallInv, ReceiptInv
    <3>2. Storage!Acquire(Worker, Storage!OuterLock(req[Worker]), "swaps-locked",
                          "waiting-swaps", tries[Worker] + 1)
      BY <1>4, <2>2, <3>1 DEF Storage!RetryLock, Storage!AcquireFirst, Storage!OuterLock
    <3> QED BY <1>1, <2>1, <2>2, <3>1, <3>2, AcquireDoes
  <2>3. CASE pc[Worker] = "waiting"
    <3>1. Storage!Acquire(Worker, Storage!BalanceLock(req[Worker]), "locked", "waiting",
                          tries[Worker] + 1)
      BY <1>4, <2>3 DEF Storage!RetryLock
    <3> QED BY <1>1, <2>1, <2>3, <3>1, AcquireDoes
  <2> QED BY <1>4, <2>2, <2>3 DEF Storage!RetryLock
<1>5. CASE Storage!Recheck(Worker)
  BY <1>1, <1>5, <1>t DEF Storage!Recheck, Storage!redisVars
<1>6. CASE Storage!Read(Worker)
  BY <1>1, <1>6, <1>t DEF Storage!Read, Storage!redisVars
<1>7. CASE Storage!UnlockRead(Worker)
  BY <1>1, <1>7, <1>t DEF Storage!UnlockRead
<1>8. CASE Storage!Write(Worker)
  <2>1. /\ pc[Worker] \in {"read", "unlocked"} /\ req[Worker].type # "balance"
        /\ pc[Worker] = "read" => req[Worker].type = "swap-to-ban"
        /\ pc'[Worker] = "releasing" /\ UNCHANGED <<locks, req, val, submitted>>
        /\ audit' = audit \cup {Storage!EventOf(req[Worker])}
        /\ banBalance' = [banBalance EXCEPT ![Lower[req[Worker].address]] =
                            val[Worker] + Storage!Delta(req[Worker])]
    <3>1. pc[Worker] = "unlocked" => req[Worker].type # "balance"
      BY <1>c, Callers DEF CallInv, ReceiptInv
    <3>2. pc[Worker] = "read" => req[Worker].type = "swap-to-ban"
      BY <1>8, <1>c DEF Storage!Write, Storage!ReadyToWrite
    <3> QED BY <1>8, <1>t, <3>1, <3>2 DEF Storage!Write, Storage!ReadyToWrite, Storage!NewBalance
  <2>2. val[Worker] = banBalance[Lower[req[Worker].address]]
    BY <2>1 DEF CallInv
  <2>3. banBalance' = [banBalance EXCEPT ![Lower[req[Worker].address]] =
                         @ + Storage!Delta(req[Worker])]
    BY <2>1, <2>2
  <2> QED BY <1>1, <1>c, <2>1, <2>3
<1> QED BY <1>2, <1>3, <1>4, <1>5, <1>6, <1>7, <1>8 DEF StorageStep

(* How a call ends: with its job, or behind it.                            *)
LEMMA StorageFailsDoes ==
  ASSUME TypeOK, WorkerInv, CallInv, ReceiptInv, StorageFails
  PROVE  /\ pc[Worker] # "idle"
         /\ UNCHANGED <<chainVars, freeSwaps, asked, crashes>>
         /\ UNCHANGED <<banBalance, audit, submitted>>
         /\ \/ /\ pc'[Worker] = "idle" /\ JobEnds({"delayed", "failed"})
               /\ locks' = Storage!Unlocked(Worker, Storage!OuterLock(req[Worker]))
               /\ \/ failures' = failures + 1 /\ failures + crashes < MaxTroubles
                     /\ pc[Worker] \in {"read", "rechecked"}
                     /\ Storage!OuterLock(req[Worker]) = Storage!BalanceLock(req[Worker])
                  \/ failures' = failures /\ pc[Worker] \in {"waiting", "waiting-swaps"}
            \/ /\ pc'[Worker] = "releasing" /\ step = "storing"
               /\ UNCHANGED <<req, val, queueVars, workerVars>>
               /\ failures' = failures + 1 /\ failures + crashes < MaxTroubles
               /\ \/ /\ locks' = locks
                     /\ \/ pc[Worker] = "unlocked"
                        \/ Storage!OuterLock(req[Worker]) = Storage!BalanceLock(req[Worker])
                  \/ /\ locks' = Storage!Unlocked(Worker, Storage!BalanceLock(req[Worker]))
                     /\ req[Worker].type = "swap-to-wban"
<1>0. UNCHANGED <<chainVars, freeSwaps, asked, crashes>>
  BY DEF StorageFails
<1>t. /\ pc \in [Caller -> Storage!Stages] /\ val \in [Caller -> Int]
      /\ req \in [Caller -> Requests \cup {NoRequest}]
      /\ Worker \in Caller
  BY Callers DEF TypeOK, Storage!TypeOK
<1>1. CASE Storage!GiveUp(Worker) /\ UNCHANGED failures
  <2>1. /\ pc[Worker] \in {"waiting", "waiting-swaps"} /\ pc'[Worker] = "idle"
        /\ UNCHANGED <<banBalance, audit, submitted>>
        /\ locks' = Storage!Unlocked(Worker, Storage!OuterLock(req[Worker]))
    BY <1>1, <1>t DEF Storage!GiveUp, Storage!Settle
  <2>2. JobEnds({"delayed", "failed"})
    BY <2>1, CallOf, FailJobDoes DEF StorageFails
  <2> QED BY <1>0, <1>1, <2>1, <2>2
<1>2. CASE Failure /\ Storage!ReadFails(Worker)
  <2>1. failures' = failures + 1 /\ failures + crashes < MaxTroubles
    BY <1>2 DEF Failure
  <2>2. /\ pc[Worker] \in {"read", "rechecked"} /\ UNCHANGED <<banBalance, audit, submitted>>
        /\ locks' = Storage!Unlocked(Worker, Storage!BalanceLock(req[Worker]))
    BY <1>2 DEF Storage!ReadFails
  <2>3. CASE req[Worker].type = "swap-to-wban"
    <3>1. pc'[Worker] = "releasing" /\ UNCHANGED <<req, val>>
      BY <1>2, <1>t, <2>3 DEF Storage!ReadFails, Storage!Settle
    <3>2. step = "storing"
      BY <2>2, <2>3, CallOf
    <3>3. UNCHANGED <<queueVars, workerVars>>
      BY <3>1 DEF StorageFails
    <3> QED BY <1>0, <2>1, <2>2, <2>3, <3>1, <3>2, <3>3
  <2>4. CASE req[Worker].type # "swap-to-wban"
    <3>1. pc'[Worker] = "idle"
      BY <1>2, <1>t, <2>4 DEF Storage!ReadFails, Storage!Settle
    <3>2. JobEnds({"delayed", "failed"})
      BY <2>2, <3>1, CallOf, FailJobDoes DEF StorageFails
    <3>3. Storage!OuterLock(req[Worker]) = Storage!BalanceLock(req[Worker])
      BY <2>4 DEF Storage!OuterLock
    <3> QED BY <1>0, <2>1, <2>2, <3>1, <3>2, <3>3
  <2> QED BY <2>3, <2>4
<1>3. CASE Failure /\ Storage!WriteFails(Worker)
  <2>1. failures' = failures + 1 /\ failures + crashes < MaxTroubles
    BY <1>3 DEF Failure
  <2>2. /\ pc[Worker] \in {"read", "unlocked"} /\ pc'[Worker] = "releasing"
        /\ UNCHANGED <<banBalance, audit, submitted, req, val, locks>>
        /\ pc[Worker] = "read" => req[Worker].type \notin {"balance", "swap-to-wban"}
    BY <1>3, <1>t DEF Storage!WriteFails, Storage!ReadyToWrite, Storage!redisVars
  <2>3. step = "storing"
    BY <2>2, CallOf DEF CallInv
  <2>4. UNCHANGED <<queueVars, workerVars>>
    BY <2>2 DEF StorageFails
  <2>5. pc[Worker] = "unlocked" \/ Storage!OuterLock(req[Worker]) = Storage!BalanceLock(req[Worker])
    BY <2>2 DEF Storage!OuterLock
  <2> QED BY <1>0, <2>1, <2>2, <2>3, <2>4, <2>5
<1> QED BY <1>1, <1>2, <1>3 DEF StorageFails

LEMMA ReleaseDoes ==
  ASSUME TypeOK, Storage!Release(Worker)
  PROVE  /\ pc[Worker] = "releasing" \/ (pc[Worker] = "read" /\ req[Worker].type = "balance")
         /\ pc'[Worker] = "idle"
         /\ UNCHANGED <<banBalance, audit, submitted>>
         /\ locks' = Storage!Unlocked(Worker, Storage!OuterLock(req[Worker]))
BY Callers DEF Storage!Release, Storage!Settle, TypeOK, Storage!TypeOK

LEMMA BalanceReadDoes ==
  ASSUME TypeOK, WorkerInv, CallInv, ReceiptInv, BalanceRead
  PROVE  /\ step \in {"balance", "result"} /\ pc[Worker] = "read" /\ pc'[Worker] = "idle"
         /\ UNCHANGED <<banBalance, audit, submitted>>
         /\ UNCHANGED <<chainVars, freeSwaps, boundVars>>
         /\ locks' = Storage!Unlocked(Worker, UserLock(current))
         /\ \/ step = "balance" /\ step' = "store" /\ UNCHANGED <<queueVars, current, receipt>>
            \/ step = "balance" /\ JobEnds({"delayed", "failed"})
            \/ step = "result" /\ JobEnds({"completed"})
<1>1. step \in {"balance", "result"} /\ Storage!Release(Worker)
      /\ UNCHANGED <<chainVars, freeSwaps, boundVars>>
  BY DEF BalanceRead
<1>2. /\ pc'[Worker] = "idle" /\ UNCHANGED <<banBalance, audit, submitted>>
      /\ locks' = Storage!Unlocked(Worker, Storage!OuterLock(req[Worker]))
      /\ pc[Worker] \in {"read", "releasing"}
  BY <1>1, ReleaseDoes
<1>3. current # NoJob /\ Storage!OuterLock(req[Worker]) = UserLock(current)
      /\ pc[Worker] = "read"
  BY <1>1, <1>2, CallOf DEF CallInv
<1> QED BY <1>1, <1>2, <1>3, FailJobDoes, CompleteJobDoes DEF BalanceRead, Goes

LEMMA StoreEndsDoes ==
  ASSUME TypeOK, WorkerInv, CallInv, ReceiptInv, StoreEnds
  PROVE  /\ step = "storing" /\ pc[Worker] = "releasing" /\ pc'[Worker] = "idle"
         /\ current \in ToWBAN \cup ToBAN
         /\ UNCHANGED <<banBalance, audit, submitted>>
         /\ UNCHANGED <<chainVars, freeSwaps, boundVars>>
         /\ locks' = Storage!Unlocked(Worker, Storage!OuterLock(req[Worker]))
         /\ \/ /\ IsRecorded(req[Worker]) /\ UNCHANGED <<queueVars, current, receipt>>
               /\ \/ current \in ToWBAN /\ step' = "count" /\ req[Worker] = receipt
                  \/ current \in ToBAN /\ step' = "result" /\ req[Worker] = CreditOf(current)
            \/ ~IsRecorded(req[Worker]) /\ JobEnds({"delayed", "failed"})
<1>1. step = "storing" /\ Storage!Release(Worker)
      /\ UNCHANGED <<chainVars, freeSwaps, boundVars>>
  BY DEF StoreEnds
<1>2. /\ pc'[Worker] = "idle" /\ UNCHANGED <<banBalance, audit, submitted>>
      /\ locks' = Storage!Unlocked(Worker, Storage!OuterLock(req[Worker]))
      /\ pc[Worker] = "releasing" \/ (pc[Worker] = "read" /\ req[Worker].type = "balance")
  BY <1>1, ReleaseDoes
<1>3. /\ current # NoJob /\ pc[Worker] = "releasing"
      /\ \/ current \in ToWBAN /\ req[Worker] = receipt
         \/ current \in ToBAN /\ req[Worker] = CreditOf(current)
  BY <1>1, <1>2, CallOf DEF CallInv
<1>4. ~ (current \in ToWBAN /\ current \in ToBAN)
  BY Kinds
<1> QED BY <1>1, <1>2, <1>3, <1>4, FailJobDoes DEF StoreEnds, Goes

-----------------------------------------------------------------------------
(* Every step is a step of the storage or leaves it alone.                 *)
LEMMA StorageMoves ==
  ASSUME Next
  PROVE  \/ UNCHANGED storageVars
         \/ \E r \in Requests : Storage!Call(Worker, r)
         \/ Storage!Step(Worker)
         \/ \E k \in Storage!LockNames : Storage!Expire(k)
         \/ Storage!Crash
<1>1. CASE \/ \E j \in Jobs : addJob(j) \/ Promote(j) \/ StartJob(j)
           \/ CountSwaps \/ Relay \/ waitForRelayedTx \/ storeFreeSwap \/ RequestFails
           \/ \E t \in TxIds : SettleTx(t)
           \/ \E r \in Receipts : UserMints(r)
           \/ \E b \in ToBAN : UserBurns(b)
  BY <1>1 DEF addJob, Promote, StartJob, CountSwaps, Relay, waitForRelayedTx, storeFreeSwap,
              RequestFails, SettleTx, UserMints, UserBurns
<1>2. CASE ReadBalance
  BY <1>2, Callers DEF ReadBalance
<1>3. CASE StoreSwap
  <2>1. CASE \E r \in FreshReceipts(current) : Storage!Call(Worker, r)
    <3>1. FreshReceipts(current) \subseteq Requests
      BY Callers DEF FreshReceipts
    <3> QED BY <2>1, <3>1
  <2>2. CASE current \in ToBAN /\ Storage!Call(Worker, CreditOf(current))
    BY <2>2, Credit
  <2> QED BY <1>3, <2>1, <2>2 DEF StoreSwap
<1>4. CASE StorageStep \/ BalanceRead \/ StorageFails \/ StoreEnds
  BY <1>4 DEF StorageStep, BalanceRead, StorageFails, StoreEnds, Storage!Step
<1>5. CASE (\E k \in Storage!LockNames : ExpireLock(k)) \/ CrashRestart
  BY <1>5 DEF ExpireLock, CrashRestart
<1> QED BY <1>1, <1>2, <1>3, <1>4, <1>5 DEF Next, WorkerStep

LEMMA StorageRefined ==
  ASSUME [Next]_vars
  PROVE  [SP!Next]_SP!storageVars /\ [Storage!Next]_Storage!storageVars
<1>1. CASE UNCHANGED storageVars \/ UNCHANGED vars
  BY <1>1, SameSteps
  DEF vars, storageVars, Storage!storageVars, Storage!redisVars, Storage!callVars
<1>2. CASE \/ \E r \in Requests : Storage!Call(Worker, r)
           \/ Storage!Step(Worker)
           \/ \E k \in Storage!LockNames : Storage!Expire(k)
           \/ Storage!Crash
  BY <1>2, SameSteps, Callers DEF Storage!Next, SP!Next
<1> QED BY <1>1, <1>2, StorageMoves

LEMMA StorageTypes ==
  ASSUME TypeOK, [Next]_vars PROVE Storage!TypeOK'
<1>1. SP!TypeOK
  BY SameStates DEF TypeOK
<1> QED BY <1>1, SameAssumptions, SameStates, StorageRefined, SP!TypeOKStep

-----------------------------------------------------------------------------
(* What the other actions do.                                              *)

(* The job ends by a failure counted as such.                              *)
LEMMA FailureDoes ==
  ASSUME TypeOK, Failure
  PROVE  /\ failures' = failures + 1 /\ failures + crashes < MaxTroubles
         /\ failures \in Nat /\ crashes \in Nat
BY DEF TypeOK, Failure

(* A job comes into the queue or comes back to it.                         *)
JobWaits(j) ==
  /\ job' \in [Jobs -> JobStates]
  /\ job'[j] = job[j] \/ (job[j] \in {"none", "delayed"} /\ job'[j] = "waiting")
  /\ \A i \in Jobs : i # j => job'[i] = job[i]

LEMMA addJobDoes ==
  ASSUME TypeOK, NEW j \in Jobs, addJob(j)
  PROVE  /\ JobWaits(j) /\ (j \in ToBAN => j \in burned)
         /\ UNCHANGED <<storageVars, made, workerVars, chainVars, freeSwaps, boundVars>>
BY DEF addJob, Add, JobWaits, TypeOK, JobStates

LEMMA PromoteDoes ==
  ASSUME TypeOK, NEW j \in Jobs, Promote(j)
  PROVE  /\ JobWaits(j) /\ job[j] = "delayed"
         /\ UNCHANGED <<storageVars, made, workerVars, chainVars, freeSwaps, boundVars>>
BY DEF Promote, JobWaits, TypeOK, JobStates

LEMMA StartJobDoes ==
  ASSUME TypeOK, WorkerInv, NEW j \in Jobs, StartJob(j)
  PROVE  /\ current = NoJob /\ step = "none" /\ job[j] = "waiting"
         /\ job' \in [Jobs -> JobStates] /\ made' \in [Jobs -> 0..Attempts]
         /\ \A i \in Jobs : i # j => job'[i] = job[i] /\ made'[i] = made[i]
         /\ UNCHANGED <<storageVars, receipt, chainVars, freeSwaps, asked, crashes>>
         /\ \/ failures' = failures
            \/ failures' = failures + 1 /\ failures + crashes < MaxTroubles
         /\ \/ /\ job'[j] \in {"delayed", "failed"} /\ made'[j] = made[j] + 1
               /\ job'[j] # "failed" => made'[j] < Attempts
               /\ UNCHANGED <<current, step>>
            \/ /\ job'[j] = "active" /\ made' = made /\ current' = j /\ ~Refuses(j)
               /\ failures' = failures
               /\ \/ j \in ToWBAN /\ step' = "balance"
                  \/ j \in ToBAN /\ step' = "store"
                  \/ j \in Gasless /\ step' = "relay"
<1>1. /\ current = NoJob /\ job[j] = "waiting"
      /\ UNCHANGED <<storageVars, chainVars, freeSwaps, asked, crashes>>
  BY DEF StartJob
<1>2. step = "none"
  BY <1>1 DEF WorkerInv
<1>3. CASE Fail(j) /\ UNCHANGED workerVars /\ (UNCHANGED failures \/ Failure)
  BY <1>1, <1>2, <1>3, FailDoes, FailureDoes DEF workerVars
<1>4. CASE /\ ~Refuses(j) /\ job' = [job EXCEPT ![j] = "active"] /\ current' = j
           /\ step' = IF j \in ToWBAN THEN "balance"
                      ELSE IF j \in ToBAN THEN "store" ELSE "relay"
           /\ UNCHANGED <<made, receipt, failures>>
  <2>1. /\ job' \in [Jobs -> JobStates] /\ job'[j] = "active"
        /\ \A i \in Jobs : i # j => job'[i] = job[i]
    BY <1>4 DEF TypeOK, JobStates
  <2>2. made' \in [Jobs -> 0..Attempts]
    BY <1>4 DEF TypeOK
  <2>3. \/ j \in ToWBAN /\ step' = "balance"
        \/ j \in ToBAN /\ step' = "store"
        \/ j \in Gasless /\ step' = "relay"
    BY <1>4, Kinds
  <2> QED BY <1>1, <1>2, <1>4, <2>1, <2>2, <2>3
<1> QED BY <1>3, <1>4 DEF StartJob

LEMMA CountSwapsDoes ==
  ASSUME TypeOK, WorkerInv, CountSwaps
  PROVE  /\ step = "count" /\ current \in ToWBAN
         /\ (step' = "relay" /\ IsFirstWrap(current)) \/ step' = "result"
         /\ UNCHANGED <<storageVars, queueVars, current, receipt, chainVars, freeSwaps, boundVars>>
<1>1. step = "count" /\ current \in ToWBAN
  BY Job, Kinds DEF CountSwaps, WorkerInv
<1> QED BY <1>1 DEF CountSwaps, Goes

LEMMA RelayDoes ==
  ASSUME TypeOK, WorkerInv, Relay
  PROVE  /\ step = "relay" /\ current # NoJob /\ current \in ToWBAN \cup Gasless
         /\ relayed' = [relayed EXCEPT ![NextTx] = "pending"]
         /\ UNCHANGED <<storageVars, minted, burned, freeSwaps, asked, crashes>>
         /\ \/ /\ step' = "wait" /\ UNCHANGED <<queueVars, current, receipt, failures>>
            \/ /\ JobEnds({"delayed", "failed"})
               /\ failures' = failures + 1 /\ failures + crashes < MaxTroubles
<1>1. step = "relay"
  BY DEF Relay
<1>2. current # NoJob /\ current \in ToWBAN \cup Gasless
  BY <1>1, Job, Kinds DEF WorkerInv
<1> QED BY <1>1, <1>2, FailJobDoes, FailureDoes DEF Relay, Goes

LEMMA WaitDoes ==
  ASSUME TypeOK, WorkerInv, waitForRelayedTx
  PROVE  /\ step = "wait" /\ current # NoJob /\ current \in ToWBAN \cup Gasless
         /\ UNCHANGED <<storageVars, chainVars, freeSwaps, boundVars>>
         /\ \/ /\ relayed[CurrentTx] = "mined" /\ UNCHANGED <<queueVars, current, receipt>>
               /\ \/ current \in ToWBAN /\ step' = "result"
                  \/ current \in Gasless /\ step' = "free"
            \/ relayed[CurrentTx] = "failed" /\ JobEnds({"delayed", "failed"})
<1>1. step = "wait"
  BY DEF waitForRelayedTx
<1>2. current # NoJob /\ current \in ToWBAN \cup Gasless
  BY <1>1, Job, Kinds DEF WorkerInv
<1> QED BY <1>1, <1>2, FailJobDoes DEF waitForRelayedTx, Goes

LEMMA StoreFreeSwapDoes ==
  ASSUME TypeOK, WorkerInv, storeFreeSwap
  PROVE  /\ step = "free" /\ current \in Gasless /\ JobEnds({"completed"})
         /\ freeSwaps' = freeSwaps \cup {Lower[current.wallet]}
         /\ UNCHANGED <<storageVars, chainVars, boundVars>>
<1>1. step = "free"
  BY DEF storeFreeSwap
<1>2. current # NoJob /\ current \in Gasless
  BY <1>1, Job, Kinds DEF WorkerInv
<1> QED BY <1>1, <1>2, CompleteJobDoes DEF storeFreeSwap

LEMMA RequestFailsDoes ==
  ASSUME TypeOK, WorkerInv, RequestFails
  PROVE  /\ current # NoJob /\ JobEnds({"delayed", "failed"})
         /\ step \in {"store", "count", "relay", "wait", "free"}
         /\ failures' = failures + 1 /\ failures + crashes < MaxTroubles
         /\ UNCHANGED <<storageVars, chainVars, freeSwaps, asked, crashes>>
<1>1. step \in {"store", "count", "relay", "wait", "free"}
  BY DEF RequestFails
<1>2. current # NoJob
  BY <1>1, Job
<1> QED BY <1>1, <1>2, FailJobDoes, FailureDoes DEF RequestFails

LEMMA SettleTxDoes ==
  ASSUME TypeOK, NEW t \in TxIds, SettleTx(t)
  PROVE  /\ relayed[t] = "pending"
         /\ UNCHANGED <<storageVars, queueVars, workerVars, burned, freeSwaps, boundVars>>
         /\ relayed'[t] \in {"mined", "failed", "expired"}
         /\ relayed' \in [TxIds -> {"none", "pending", "mined", "failed", "expired"}]
         /\ \A u \in TxIds : u # t => relayed'[u] = relayed[u]
         /\ \/ /\ relayed'[t] = "mined" /\ Accepts(t)
               /\ minted' = minted \cup ({t} \cap Receipts)
            \/ relayed'[t] \in {"failed", "expired"} /\ minted' = minted
BY DEF SettleTx, TypeOK

LEMMA ExpireLockDoes ==
  ASSUME TypeOK, NEW k \in Storage!LockNames, ExpireLock(k)
  PROVE  /\ UNCHANGED <<banBalance, audit, pc, req, val, submitted>>
         /\ UNCHANGED <<queueVars, workerVars, chainVars, freeSwaps, boundVars>>
         /\ locks' = [locks EXCEPT ![k] = "free"]
BY DEF ExpireLock, Storage!Expire, Storage!callVars

LEMMA CrashDoes ==
  ASSUME TypeOK, CrashRestart
  PROVE  /\ failures + crashes < MaxTroubles /\ crashes' = crashes + 1
         /\ UNCHANGED <<banBalance, audit, submitted>> /\ pc'[Worker] = "idle"
         /\ locks' \in [Storage!LockNames -> {"free", "orphan"}]
         /\ job' \in [Jobs -> JobStates]
         /\ \A i \in Jobs : job'[i] = IF job[i] = "active" THEN "waiting" ELSE job[i]
         /\ current' = NoJob /\ step' = "none" /\ receipt' = NoRequest
         /\ UNCHANGED <<made, chainVars, freeSwaps, asked, failures>>
<1>1. /\ UNCHANGED <<banBalance, audit, submitted>> /\ pc'[Worker] = "idle"
      /\ locks' \in [Storage!LockNames -> {"free", "orphan"}]
  BY Callers DEF CrashRestart, Storage!Crash, Storage!Free
<1>2. /\ job' \in [Jobs -> JobStates]
      /\ \A i \in Jobs : job'[i] = IF job[i] = "active" THEN "waiting" ELSE job[i]
  BY DEF CrashRestart, TypeOK, JobStates
<1> QED BY <1>1, <1>2 DEF CrashRestart, WorkerFree

-----------------------------------------------------------------------------
(* Transactions.                                                           *)
LEMMA TxKinds ==
  /\ Receipts \cap FreeTxs = {} /\ TxIds = Receipts \cup FreeTxs
  /\ \A g, n : [swap |-> g, attempt |-> n] \notin Receipts
<1>1. \A g, n : [swap |-> g, attempt |-> n] \notin Receipts
  <2> SUFFICES ASSUME NEW g, NEW n, [swap |-> g, attempt |-> n] \in Receipts PROVE FALSE
    OBVIOUS
  <2> DEFINE t == [swap |-> g, attempt |-> n]
  <2>1. t = [type |-> t.type, address |-> t.address, id |-> t.id,
             amount |-> t.amount, at |-> t.at]
    BY StorageAssumption, Callers DEF Storage!RequestsAssumption
  <2>2. DOMAIN t = {"swap", "attempt"}
    OBVIOUS
  <2>3. DOMAIN [type |-> t.type, address |-> t.address, id |-> t.id,
                amount |-> t.amount, at |-> t.at] = {"type", "address", "id", "amount", "at"}
    OBVIOUS
  <2> HIDE DEF t
  <2> QED BY <2>1, <2>2, <2>3
<1>2. Receipts \cap FreeTxs = {}
  <2> SUFFICES ASSUME NEW t \in FreeTxs, t \in Receipts PROVE FALSE
    OBVIOUS
  <2>1. t = [swap |-> t.swap, attempt |-> t.attempt]
    BY DEF FreeTxs
  <2> QED BY <1>1, <2>1
<1> QED BY <1>1, <1>2 DEF TxIds

(* Those of one gasless swap are finitely many.                            *)
LEMMA Counted ==
  ASSUME FiniteInv
  PROVE  /\ \A g : IsFiniteSet(FreeTxsOf(g)) /\ Cardinality(FreeTxsOf(g)) \in Nat
         /\ \A a : IsFiniteSet(MayCost(a)) /\ Cardinality(MayCost(a)) \in Nat
<1>1. ASSUME NEW S, S \subseteq {t \in TxIds : relayed[t] # "none"}
      PROVE  IsFiniteSet(S) /\ Cardinality(S) \in Nat
  BY <1>1, FS_Subset, FS_CardinalityType DEF FiniteInv
<1>2. ASSUME NEW g PROVE FreeTxsOf(g) \subseteq {t \in TxIds : relayed[t] # "none"}
  BY TxKinds DEF FreeTxsOf
<1>3. ASSUME NEW a PROVE MayCost(a) \subseteq {t \in TxIds : relayed[t] # "none"}
  BY TxKinds DEF MayCost
<1> QED BY <1>1, <1>2, <1>3

(* The transaction given to the relayer is a new one.                      *)
LEMMA RelaysTx ==
  ASSUME TypeOK, WorkerInv, ReceiptInv, AttemptsInv, FiniteInv,
         step = "relay", current # NoJob
  PROVE  /\ NextTx \in TxIds /\ relayed[NextTx] = "none"
         /\ current \in ToWBAN =>
              /\ NextTx = receipt /\ receipt # NoRequest /\ receipt \in ReceiptsOf(current)
              /\ receipt \in Receipts /\ IsRecorded(receipt)
         /\ current \in Gasless =>
              /\ NextTx \in FreeTxs /\ NextTx \notin Receipts /\ NextTx.swap = current
              /\ NextTx.attempt = Cardinality(FreeTxsOf(current)) + 1
<1>1. current \in ToWBAN \cup Gasless /\ job[current] = "active" /\ made[current] \in 0..2
      /\ current \in Jobs
  BY Job, Kinds DEF WorkerInv
<1>2. CASE current \in ToWBAN
  <2>1. NextTx = receipt /\ receipt # NoRequest /\ current \notin Gasless
    BY <1>2, Kinds DEF NextTx, ReceiptInv
  <2>2. /\ receipt \in ReceiptsOf(current) /\ IsRecorded(receipt)
        /\ relayed[receipt] = "none"
    BY <1>2, <2>1 DEF ReceiptInv
  <2> QED BY <1>2, <2>1, <2>2, Callers, TxKinds
<1>3. CASE current \in Gasless
  <2> DEFINE n == Cardinality(FreeTxsOf(current))
  <2>1. current \notin ToWBAN /\ NextTx = [swap |-> current, attempt |-> n + 1]
    BY <1>3, Kinds DEF NextTx
  <2>2. n \in Nat /\ n <= made[current] + crashes
    <3>1. n <= made[current] + crashes
                 + (IF job[current] = "completed" \/ (current = current /\ step \in {"wait", "free"})
                      THEN 1 ELSE 0)
      BY <1>3 DEF AttemptsInv
    <3>2. n <= made[current] + crashes + 0
      BY <1>1, <3>1
    <3>3. crashes \in Nat
      BY DEF TypeOK
    <3> QED BY <1>1, <3>2, <3>3, Counted
  <2>3. MaxTroubles \in Nat /\ crashes \in Nat /\ crashes <= MaxTroubles
    BY SwapsAssumption DEF TypeOK
  <2>4. n + 1 \in 1..Attempts + MaxTroubles
    BY <1>1, <2>2, <2>3 DEF Attempts
  <2> HIDE DEF n
  <2>5. NextTx \in FreeTxs /\ NextTx.swap = current /\ NextTx.attempt = n + 1
    BY <1>3, <2>1, <2>4 DEF FreeTxs
  <2>6. relayed[NextTx] = "none"
    <3>1. relayed[NextTx] # "none" <=> n + 1 <= n
      BY <2>5 DEF AttemptsInv, n
    <3> QED BY <2>2, <3>1
  <2> QED BY <2>1, <2>5, <2>6, TxKinds DEF n
<1> QED BY <1>1, <1>2, <1>3

(* The transaction waited for is one that was given to it.                 *)
LEMMA WaitsFor ==
  ASSUME TypeOK, WorkerInv, ReceiptInv, AttemptsInv, step \in {"wait", "free"}
  PROVE  /\ CurrentTx \in TxIds /\ relayed[CurrentTx] # "none"
         /\ current \in ToWBAN =>
              /\ CurrentTx = receipt /\ receipt # NoRequest /\ receipt \in ReceiptsOf(current)
              /\ receipt \in Receipts /\ IsRecorded(receipt)
         /\ current \in Gasless => CurrentTx \in FreeTxsOf(current)
<1>1. CurrentTx \in TxIds /\ relayed[CurrentTx] # "none"
  BY DEF AttemptsInv
<1>2. ASSUME current \in ToWBAN
      PROVE  /\ CurrentTx = receipt /\ receipt # NoRequest /\ receipt \in ReceiptsOf(current)
             /\ receipt \in Receipts /\ IsRecorded(receipt)
  BY <1>2, Callers, Kinds DEF CurrentTx, ReceiptInv, WorkerInv
<1>3. ASSUME current \in Gasless PROVE CurrentTx \in FreeTxsOf(current)
  <2>1. CurrentTx = [swap |-> current, attempt |-> Cardinality(FreeTxsOf(current))]
    BY <1>3, Kinds DEF CurrentTx
  <2>2. CurrentTx \in FreeTxs /\ CurrentTx.swap = current
    BY <1>1, <2>1, TxKinds
  <2> QED BY <1>1, <2>2 DEF FreeTxsOf
<1> QED BY <1>1, <1>2, <1>3

-----------------------------------------------------------------------------
(* Types, and the worker with its queue.                                   *)
QueueTypes ==
  /\ job \in [Jobs -> JobStates]
  /\ made \in [Jobs -> 0..Attempts]
  /\ current \in Jobs \cup {NoJob}
  /\ step \in StepNames

(* A job that ends leaves the worker free; the others stay as they were.   *)
LEMMA EndsQueue ==
  ASSUME TypeOK, WorkerInv, current # NoJob, NEW states, NoJob \notin Jobs,
         states \subseteq {"delayed", "failed", "completed"}, JobEnds(states)
  PROVE  QueueTypes' /\ WorkerInv'
<1>1. current \in Jobs /\ job[current] = "active" /\ \A i \in Jobs : i # current => job[i] # "active"
  BY Job DEF WorkerInv
<1>2. QueueTypes'
  BY DEF QueueTypes, JobEnds, StepNames
<1>3. \A i \in Jobs : job'[i] # "active"
  BY <1>1 DEF JobEnds
<1>4. \A i \in Jobs : job'[i] # "failed" => made'[i] < Attempts
  BY <1>1 DEF JobEnds, WorkerInv
<1>5. current' = NoJob /\ step' = "none"
  BY DEF JobEnds
<1>6. NoJob \notin ToWBAN /\ NoJob \notin ToBAN /\ NoJob \notin Gasless
  BY Kinds
<1> QED BY <1>2, <1>3, <1>4, <1>5, <1>6 DEF WorkerInv

(* A worker that goes on with its job.                                     *)
LEMMA GoesOn ==
  ASSUME TypeOK, WorkerInv, UNCHANGED <<queueVars, current, freeSwaps>>, current # NoJob,
         step' # "none", step' \in StepNames,
         current \in ToWBAN =>
           step' \in {"balance", "store", "storing", "count", "relay", "wait", "result"},
         current \in ToBAN => step' \in {"store", "storing", "result"},
         current \in Gasless => step' \in {"relay", "wait", "free"}
  PROVE  QueueTypes' /\ WorkerInv'
BY DEF TypeOK, QueueTypes, WorkerInv, queueVars

LEMMA QueueStep ==
  ASSUME TypeOK, WorkerInv, CallInv, ReceiptInv, [Next]_vars
  PROVE  QueueTypes' /\ WorkerInv'
<1>0. NoJob \notin Jobs
  BY Callers
<1>1. CASE UNCHANGED <<queueVars, workerVars, freeSwaps>>
  BY <1>1 DEF TypeOK, QueueTypes, WorkerInv, queueVars, workerVars
<1>2. ASSUME NEW j \in Jobs, JobWaits(j), UNCHANGED <<made, workerVars, freeSwaps>>
      PROVE  QueueTypes' /\ WorkerInv'
  BY <1>2 DEF JobWaits, TypeOK, QueueTypes, WorkerInv, workerVars
<1>3. ASSUME NEW j \in Jobs, StartJob(j) PROVE QueueTypes' /\ WorkerInv'
  <2>1. CASE UNCHANGED <<current, step>>
    BY <1>0, <1>3, <2>1, StartJobDoes, Kinds DEF TypeOK, QueueTypes, WorkerInv
  <2>2. CASE current' = j /\ job'[j] = "active" /\ made' = made /\ ~Refuses(j)
             /\ \/ j \in ToWBAN /\ step' = "balance"
                \/ j \in ToBAN /\ step' = "store"
                \/ j \in Gasless /\ step' = "relay"
    <3>1. /\ current = NoJob /\ job[j] = "waiting" /\ job' \in [Jobs -> JobStates]
          /\ \A i \in Jobs : i # j => job'[i] = job[i]
          /\ freeSwaps' = freeSwaps
      BY <1>3, StartJobDoes
    <3>2. QueueTypes'
      BY <2>2, <3>1 DEF TypeOK, QueueTypes, StepNames
    <3>3. /\ step' # "none" /\ current' # NoJob
          /\ \A i \in Jobs : job'[i] = "active" <=> current' = i
          /\ \A i \in Jobs : job'[i] # "failed" => made'[i] < Attempts
      BY <1>0, <2>2, <3>1 DEF WorkerInv
    <3>4. j \in ToWBAN => j.valid
      BY <2>2 DEF Refuses
    <3>5. j \in Gasless => Lower[j.wallet] \notin freeSwaps'
      BY <2>2, <3>1 DEF Refuses, isFreeSwapAlreadyDone
    <3> QED BY <2>2, <3>2, <3>3, <3>4, <3>5, Kinds DEF WorkerInv
  <2> QED BY <1>3, <2>1, <2>2, StartJobDoes
<1>4. CASE CrashRestart
  BY <1>0, <1>4, CrashDoes, Kinds DEF TypeOK, QueueTypes, WorkerInv, StepNames
<1>5. CASE BalanceRead
  <2>1. step \in {"balance", "result"} /\ current # NoJob /\ freeSwaps' = freeSwaps
    BY <1>5, BalanceReadDoes, Job
  <2>2. CASE JobEnds({"delayed", "failed"}) \/ JobEnds({"completed"})
    BY <1>0, <2>1, <2>2, EndsQueue
  <2>3. CASE step = "balance" /\ step' = "store" /\ UNCHANGED <<queueVars, current>>
    <3>1. current \notin Gasless
      BY <2>3 DEF WorkerInv
    <3> QED BY <2>1, <2>3, <3>1, GoesOn DEF StepNames
  <2> QED BY <1>5, <2>2, <2>3, BalanceReadDoes
<1>6. CASE StoreSwap
  <2>1. /\ step = "store" /\ current # NoJob /\ UNCHANGED <<queueVars, current, freeSwaps>>
        /\ step' = "storing" \/ (step' = "result" /\ current \in ToBAN)
        /\ current \in ToWBAN \cup ToBAN
    BY <1>6, StoreSwapDoes
  <2> QED BY <2>1, GoesOn, Kinds DEF StepNames
<1>7. CASE StorageFails
  <2>1. CASE JobEnds({"delayed", "failed"})
    BY <1>0, <1>7, <2>1, StorageFailsDoes, CallOf, EndsQueue
  <2>2. CASE UNCHANGED <<queueVars, workerVars, freeSwaps>>
    BY <1>1, <2>2
  <2> QED BY <1>7, <2>1, <2>2, StorageFailsDoes
<1>8. CASE StoreEnds
  <2>1. current # NoJob /\ step = "storing" /\ freeSwaps' = freeSwaps
        /\ current \in ToWBAN \cup ToBAN
    BY <1>8, StoreEndsDoes, Job
  <2>2. CASE JobEnds({"delayed", "failed"})
    BY <1>0, <2>1, <2>2, EndsQueue
  <2>3. CASE UNCHANGED <<queueVars, current>>
             /\ \/ current \in ToWBAN /\ step' = "count"
                \/ current \in ToBAN /\ step' = "result"
    BY <2>1, <2>3, GoesOn, Kinds DEF StepNames
  <2> QED BY <1>8, <2>2, <2>3, StoreEndsDoes
<1>9. CASE CountSwaps
  <2>1. /\ current \in ToWBAN /\ current # NoJob /\ step' \in {"relay", "result"}
        /\ UNCHANGED <<queueVars, current, freeSwaps>>
    BY <1>9, CountSwapsDoes, Job
  <2> QED BY <2>1, GoesOn, Kinds DEF StepNames
<1>10. CASE Relay
  <2>1. /\ current \in ToWBAN \cup Gasless /\ current # NoJob
        /\ freeSwaps' = freeSwaps
    BY <1>10, RelayDoes
  <2>2. CASE JobEnds({"delayed", "failed"})
    BY <1>0, <2>1, <2>2, EndsQueue
  <2>3. CASE step' = "wait" /\ UNCHANGED <<queueVars, current>>
    BY <2>1, <2>3, GoesOn, Kinds DEF StepNames
  <2> QED BY <1>10, <2>2, <2>3, RelayDoes
<1>11. CASE waitForRelayedTx
  <2>1. current # NoJob /\ freeSwaps' = freeSwaps
    BY <1>11, WaitDoes
  <2>2. CASE JobEnds({"delayed", "failed"})
    BY <1>0, <2>1, <2>2, EndsQueue
  <2>3. CASE UNCHANGED <<queueVars, current>>
             /\ \/ current \in ToWBAN /\ step' = "result"
                \/ current \in Gasless /\ step' = "free"
    BY <2>1, <2>3, GoesOn, Kinds DEF StepNames
  <2> QED BY <1>11, <2>2, <2>3, WaitDoes
<1>12. CASE storeFreeSwap
  <2>1. JobEnds({"completed"}) /\ current # NoJob
    BY <1>0, <1>12, StoreFreeSwapDoes, Kinds
  <2> QED BY <1>0, <2>1, EndsQueue
<1>13. CASE RequestFails
  BY <1>0, <1>13, RequestFailsDoes, EndsQueue
<1>14. CASE \E j \in Jobs : addJob(j) \/ Promote(j)
  BY <1>2, <1>14, addJobDoes, PromoteDoes
<1>15. CASE \/ ReadBalance \/ StorageStep
            \/ \E t \in TxIds : SettleTx(t)
            \/ \E r \in Receipts : UserMints(r)
            \/ \E b \in ToBAN : UserBurns(b)
            \/ \E k \in Storage!LockNames : ExpireLock(k)
  BY <1>1, <1>15 DEF ReadBalance, StorageStep, SettleTx, UserMints, UserBurns, ExpireLock
<1>16. CASE UNCHANGED vars
  BY <1>1, <1>16 DEF vars
<1> QED BY <1>3, <1>4, <1>5, <1>6, <1>7, <1>8, <1>9, <1>10, <1>11, <1>12, <1>13, <1>14,
           <1>15, <1>16 DEF Next, WorkerStep

-----------------------------------------------------------------------------
(* Types of the other variables.                                           *)
TroublesType == failures \in Nat /\ crashes \in Nat /\ failures + crashes <= MaxTroubles

LEMMA TroublesStep ==
  ASSUME TypeOK, WorkerInv, CallInv, ReceiptInv, [Next]_vars
  PROVE  /\ TroublesType' /\ asked' \in Together
         /\ failures' >= failures /\ crashes' >= crashes
<1>0. failures \in Nat /\ crashes \in Nat /\ failures + crashes <= MaxTroubles
      /\ MaxTroubles \in Nat /\ asked \in Together
  BY SwapsAssumption DEF TypeOK
<1>1. CASE UNCHANGED <<failures, crashes, asked>>
  BY <1>0, <1>1 DEF TroublesType
<1>2. CASE /\ failures' = failures + 1 /\ failures + crashes < MaxTroubles
           /\ UNCHANGED <<asked, crashes>>
  BY <1>0, <1>2 DEF TroublesType
<1>3. CASE CrashRestart
  BY <1>0, <1>3, CrashDoes DEF TroublesType
<1>4. CASE \E j \in Jobs : StartJob(j)
  BY <1>1, <1>2, <1>4, StartJobDoes
<1>5. CASE StorageFails
  BY <1>1, <1>2, <1>5, StorageFailsDoes
<1>6. CASE Relay
  BY <1>1, <1>2, <1>6, RelayDoes
<1>7. CASE RequestFails
  BY <1>1, <1>2, <1>7, RequestFailsDoes
<1>8. CASE \/ \E j \in Jobs : addJob(j) \/ Promote(j)
           \/ ReadBalance \/ BalanceRead \/ StoreSwap \/ StorageStep \/ StoreEnds \/ CountSwaps
           \/ waitForRelayedTx \/ storeFreeSwap
           \/ \E t \in TxIds : SettleTx(t)
           \/ \E r \in Receipts : UserMints(r)
           \/ \E b \in ToBAN : UserBurns(b)
           \/ \E k \in Storage!LockNames : ExpireLock(k)
           \/ UNCHANGED vars
  BY <1>1, <1>8
  DEF addJob, Promote, ReadBalance, BalanceRead, StoreSwap, StorageStep, StoreEnds, CountSwaps,
      waitForRelayedTx, storeFreeSwap, SettleTx, UserMints, UserBurns, ExpireLock, boundVars, vars
<1> QED BY <1>3, <1>4, <1>5, <1>6, <1>7, <1>8 DEF Next, WorkerStep

LEMMA ChainStep ==
  ASSUME TypeOK, WorkerInv, CallInv, ReceiptInv, AttemptsInv, FiniteInv, [Next]_vars
  PROVE  /\ receipt' \in Receipts \cup {NoRequest}
         /\ relayed' \in [TxIds -> {"none", "pending", "mined", "failed", "expired"}]
         /\ minted' \subseteq Receipts /\ burned' \subseteq ToBAN
         /\ freeSwaps' \subseteq Storage!Wallets
<1>0. /\ receipt \in Receipts \cup {NoRequest}
      /\ relayed \in [TxIds -> {"none", "pending", "mined", "failed", "expired"}]
      /\ minted \subseteq Receipts /\ burned \subseteq ToBAN
      /\ freeSwaps \subseteq Storage!Wallets
  BY DEF TypeOK
<1>1. CASE receipt' \in {receipt, NoRequest} /\ UNCHANGED <<chainVars, freeSwaps>>
  BY <1>0, <1>1 DEF chainVars
<1>2. CASE StoreSwap
  <2>1. UNCHANGED <<chainVars, freeSwaps>> /\ receipt' \in ReceiptsOf(current) \cup {receipt}
    BY <1>2, StoreSwapDoes
  <2> QED BY <1>0, <2>1, Callers DEF chainVars
<1>3. CASE Relay
  <2>1. /\ relayed' = [relayed EXCEPT ![NextTx] = "pending"] /\ NextTx \in TxIds
        /\ UNCHANGED <<minted, burned, freeSwaps>> /\ receipt' \in {receipt, NoRequest}
    BY <1>3, RelayDoes, RelaysTx DEF JobEnds
  <2> QED BY <1>0, <2>1
<1>4. CASE storeFreeSwap
  <2>1. /\ freeSwaps' = freeSwaps \cup {Lower[current.wallet]} /\ current \in Gasless
        /\ UNCHANGED chainVars /\ receipt' = NoRequest
    BY <1>4, StoreFreeSwapDoes DEF JobEnds
  <2>2. Lower[current.wallet] \in Storage!Wallets
    BY <2>1, SwapsAssumption DEF Storage!Wallets
  <2> QED BY <1>0, <2>1, <2>2 DEF chainVars
<1>5. ASSUME NEW t \in TxIds, SettleTx(t)
      PROVE  /\ relayed' \in [TxIds -> {"none", "pending", "mined", "failed", "expired"}]
             /\ minted' \subseteq Receipts /\ UNCHANGED <<receipt, burned, freeSwaps>>
  BY <1>0, <1>5, SettleTxDoes DEF workerVars
<1>6. CASE \E r \in Receipts : UserMints(r)
  BY <1>0, <1>6 DEF UserMints, workerVars
<1>7. CASE \E b \in ToBAN : UserBurns(b)
  BY <1>0, <1>7 DEF UserBurns, workerVars
<1>8. CASE \/ \E j \in Jobs : addJob(j) \/ Promote(j)
           \/ ReadBalance \/ StorageStep \/ CountSwaps
           \/ \E k \in Storage!LockNames : ExpireLock(k)
           \/ UNCHANGED vars
  BY <1>1, <1>8
  DEF addJob, Promote, ReadBalance, StorageStep, CountSwaps, ExpireLock, workerVars, vars
<1>9. CASE \E j \in Jobs : StartJob(j)
  BY <1>1, <1>9, StartJobDoes
<1>10. CASE BalanceRead
  BY <1>1, <1>10, BalanceReadDoes DEF JobEnds
<1>11. CASE StorageFails
  BY <1>1, <1>11, StorageFailsDoes DEF JobEnds, workerVars
<1>12. CASE StoreEnds
  BY <1>1, <1>12, StoreEndsDoes DEF JobEnds
<1>13. CASE waitForRelayedTx
  BY <1>1, <1>13, WaitDoes DEF JobEnds
<1>14. CASE RequestFails
  BY <1>1, <1>14, RequestFailsDoes DEF JobEnds
<1>15. CASE CrashRestart
  BY <1>1, <1>15, CrashDoes
<1> QED BY <1>0, <1>2, <1>3, <1>4, <1>5, <1>6, <1>7, <1>8, <1>9, <1>10, <1>11, <1>12, <1>13,
           <1>14, <1>15 DEF Next, WorkerStep

LEMMA TypesStep ==
  ASSUME TypeOK, WorkerInv, CallInv, ReceiptInv, AttemptsInv, FiniteInv, [Next]_vars
  PROVE  TypeOK' /\ WorkerInv'
BY StorageTypes, QueueStep, TroublesStep, ChainStep DEF TypeOK, QueueTypes, TroublesType

-----------------------------------------------------------------------------
(* The call of the worker.                                                 *)
LEMMA CallStep ==
  ASSUME TypeOK, WorkerInv, CallInv, ReceiptInv, [Next]_vars
  PROVE  CallInv'
<1>0. Worker \in Caller /\ locks \in [Storage!LockNames -> Caller \cup {"free", "orphan"}]
  BY Callers DEF TypeOK, Storage!TypeOK
<1>1. CASE UNCHANGED <<banBalance, audit, pc, req, val, current, step, receipt>>
  BY <1>1 DEF CallInv, BalanceOf, CreditOf, IsRecorded
<1>2. CASE pc'[Worker] = "idle" /\ step' # "storing"
  BY <1>2 DEF CallInv
<1>3. CASE ReadBalance
  <2>1. /\ step' \in {"balance", "result"} /\ step' = step /\ current' = current
        /\ req'[Worker] \in BalanceOf(current) /\ pc'[Worker] \in {"locked", "waiting"}
    BY <1>3, ReadBalanceDoes DEF workerVars, Gets
  <2> QED BY <2>1 DEF CallInv, BalanceOf
<1>4. CASE StoreSwap
  <2>1. CASE /\ current \in ToWBAN /\ step' = "storing" /\ current' = current
             /\ receipt' \in ReceiptsOf(current) \ submitted /\ req'[Worker] = receipt'
             /\ pc'[Worker] \in {"swaps-locked", "waiting-swaps"} /\ audit' = audit
    <3>1. ~IsRecorded(receipt')
      BY <2>1, Callers DEF ReceiptInv
    <3>2. ~IsRecorded(req[Worker])'
      BY <2>1, <3>1 DEF IsRecorded
    <3> QED BY <2>1, <3>2 DEF CallInv
  <2>2. CASE /\ current \in ToBAN /\ step' = "storing" /\ current' = current
             /\ pc'[Worker] = "checked" /\ audit' = audit
             /\ req'[Worker] = CreditOf(current) /\ ~IsRecorded(CreditOf(current))
    <3>1. ~IsRecorded(req[Worker])'
      BY <2>2 DEF IsRecorded
    <3> QED BY <2>2, <3>1 DEF CallInv, CreditOf
  <2>3. CASE pc'[Worker] = "idle" /\ step' = "result"
    BY <1>2, <2>3
  <2> QED BY <1>4, <2>1, <2>2, <2>3, StoreSwapDoes DEF Gets
<1>5. CASE StorageStep
  <2>0. /\ UNCHANGED <<current, step, receipt, req>> /\ pc[Worker] # "idle"
    BY <1>5, StorageStepDoes DEF workerVars
  <2>1. /\ req[Worker].type = "balance" <=> step \in {"balance", "result"}
        /\ req[Worker].type # "balance" => step = "storing"
        /\ req[Worker].type = "swap-to-wban" =>
             current \in ToWBAN /\ current \notin ToBAN /\ req[Worker] = receipt
        /\ req[Worker].type = "swap-to-ban" =>
             current \in ToBAN /\ current \notin ToWBAN /\ req[Worker] = CreditOf(current)
        /\ req[Worker].type \in {"balance", "swap-to-wban", "swap-to-ban"}
    BY <2>0, CallOf, Kinds
  <2>2. /\ step \in {"balance", "result"} =>
             /\ req[Worker] \in BalanceOf(current)
             /\ pc[Worker] \in {"waiting", "locked", "read"}
        /\ req[Worker].type = "swap-to-wban" =>
             pc[Worker] \in {"waiting-swaps", "swaps-locked", "waiting", "locked", "read",
                             "unlocked", "releasing"}
        /\ req[Worker].type = "swap-to-ban" =>
             pc[Worker] \in {"checked", "waiting", "locked", "rechecked", "read", "releasing"}
    BY <2>0, <2>1 DEF CallInv
  <2>3. pc'[Worker] # "idle" /\
        \/ /\ step' \in {"balance", "result"} /\ req'[Worker] \in BalanceOf(current')
           /\ pc'[Worker] \in {"waiting", "locked", "read"}
        \/ /\ step' = "storing" /\ current' \in ToWBAN /\ req'[Worker] = receipt'
           /\ pc'[Worker] \in {"waiting-swaps", "swaps-locked", "waiting", "locked", "read",
                               "unlocked", "releasing"}
        \/ /\ step' = "storing" /\ current' \in ToBAN /\ req'[Worker] = CreditOf(current')
           /\ pc'[Worker] \in {"checked", "waiting", "locked", "rechecked", "read", "releasing"}
    <3>1. CASE /\ pc[Worker] \in {"checked", "swaps-locked", "waiting"}
               /\ pc'[Worker] \in {"locked", "waiting"}
      BY <2>0, <2>1, <2>2, <3>1
    <3>2. CASE /\ pc[Worker] = "waiting-swaps" /\ req[Worker].type = "swap-to-wban"
               /\ pc'[Worker] \in {"swaps-locked", "waiting-swaps"}
      BY <2>0, <2>1, <2>2, <3>2
    <3>3. CASE /\ pc[Worker] = "locked" /\ req[Worker].type = "swap-to-ban"
               /\ pc'[Worker] \in {"rechecked", "releasing"}
      BY <2>0, <2>1, <2>2, <3>3
    <3>4. CASE pc'[Worker] = "read"
      BY <2>0, <2>1, <2>2, <3>4
    <3>5. CASE pc'[Worker] = "unlocked" /\ req[Worker].type = "swap-to-wban"
      BY <2>0, <2>1, <2>2, <3>5
    <3>6. CASE pc'[Worker] = "releasing" /\ req[Worker].type # "balance"
      BY <2>0, <2>1, <2>2, <3>6
    <3> QED BY <1>5, <3>1, <3>2, <3>3, <3>4, <3>5, <3>6, StorageStepDoes DEF Gets
  <2>4. pc'[Worker] \in {"read", "unlocked"}
          => val'[Worker] = banBalance'[Lower[req'[Worker].address]]
    BY <1>5, <2>0, StorageStepDoes DEF Gets, CallInv
  <2>5. step' = "storing" /\ pc'[Worker] # "releasing" => ~IsRecorded(req[Worker])'
    <3>1. ASSUME step = "storing", pc'[Worker] # "releasing"
          PROVE  ~IsRecorded(req[Worker]) /\ audit' = audit
      BY <1>5, <3>1, StorageStepDoes DEF Gets, CallInv
    <3> QED BY <2>0, <3>1 DEF IsRecorded
  <2> QED BY <2>3, <2>4, <2>5 DEF CallInv, BalanceOf, CreditOf
<1>6. CASE StorageFails
  <2>1. CASE pc'[Worker] = "idle" /\ JobEnds({"delayed", "failed"})
    BY <1>2, <2>1 DEF JobEnds
  <2>2. CASE pc'[Worker] = "releasing" /\ step = "storing" /\ UNCHANGED <<req, workerVars>>
    <3>1. pc[Worker] # "idle"
      BY <1>6, StorageFailsDoes
    <3> QED BY <2>2, <3>1 DEF CallInv, workerVars, CreditOf
  <2> QED BY <1>6, <2>1, <2>2, StorageFailsDoes
<1>7. CASE BalanceRead
  BY <1>2, <1>7, BalanceReadDoes DEF JobEnds
<1>8. CASE StoreEnds
  BY <1>2, <1>8, StoreEndsDoes DEF JobEnds
<1>9. CASE CrashRestart
  BY <1>2, <1>9, CrashDoes
<1>10. CASE /\ UNCHANGED <<banBalance, audit, pc, req, val>> /\ pc[Worker] = "idle"
            /\ step' # "storing"
  BY <1>10 DEF CallInv
<1>11. step \in {"none", "count", "relay", "wait", "free", "store"} => pc[Worker] = "idle"
  BY DEF CallInv
<1>12. CASE \E j \in Jobs : StartJob(j)
  BY <1>10, <1>11, <1>12, StartJobDoes DEF storageVars
<1>13. CASE CountSwaps \/ Relay \/ waitForRelayedTx \/ storeFreeSwap \/ RequestFails
  BY <1>10, <1>11, <1>13, CountSwapsDoes, RelayDoes, WaitDoes, StoreFreeSwapDoes,
     RequestFailsDoes DEF storageVars, JobEnds
<1>14. CASE \/ \E j \in Jobs : addJob(j) \/ Promote(j)
            \/ \E t \in TxIds : SettleTx(t)
            \/ \E r \in Receipts : UserMints(r)
            \/ \E b \in ToBAN : UserBurns(b)
            \/ UNCHANGED vars
  BY <1>1, <1>14 DEF addJob, Promote, SettleTx, UserMints, UserBurns, storageVars, workerVars, vars
<1>15. CASE \E k \in Storage!LockNames : ExpireLock(k)
  BY <1>1, <1>15, ExpireLockDoes DEF workerVars
<1> QED BY <1>3, <1>4, <1>5, <1>6, <1>7, <1>8, <1>9, <1>12, <1>13, <1>14, <1>15
        DEF Next, WorkerStep

-----------------------------------------------------------------------------
(* What is recorded, by a store that writes.                               *)
Writes ==
  /\ StorageStep /\ step = "storing" /\ pc'[Worker] = "releasing"
  /\ req[Worker].type # "balance"
  /\ pc[Worker] \in {"read", "unlocked"}
  /\ banBalance' = [banBalance EXCEPT ![Lower[req[Worker].address]] =
                      @ + Storage!Delta(req[Worker])]
  /\ audit' = audit \cup {Storage!EventOf(req[Worker])}

LEMMA AuditMoves ==
  ASSUME TypeOK, WorkerInv, CallInv, ReceiptInv, [Next]_vars
  PROVE  UNCHANGED <<banBalance, audit>> \/ Writes
<1>1. CASE StorageStep
  BY <1>1, StorageStepDoes DEF Writes
<1>2. CASE ReadBalance
  BY <1>2, ReadBalanceDoes
<1>3. CASE StoreSwap
  BY <1>3, StoreSwapDoes
<1>4. CASE BalanceRead
  BY <1>4, BalanceReadDoes
<1>5. CASE StorageFails
  BY <1>5, StorageFailsDoes
<1>6. CASE StoreEnds
  BY <1>6, StoreEndsDoes
<1>7. CASE (\E k \in Storage!LockNames : ExpireLock(k)) \/ CrashRestart
  BY <1>7, ExpireLockDoes, CrashDoes
<1>8. CASE \/ \E j \in Jobs : addJob(j) \/ Promote(j) \/ StartJob(j)
           \/ CountSwaps \/ Relay \/ waitForRelayedTx \/ storeFreeSwap \/ RequestFails
           \/ \E t \in TxIds : SettleTx(t)
           \/ \E r \in Receipts : UserMints(r)
           \/ \E b \in ToBAN : UserBurns(b)
           \/ UNCHANGED vars
  BY <1>8 DEF addJob, Promote, StartJob, CountSwaps, Relay, waitForRelayedTx, storeFreeSwap,
              RequestFails, SettleTx, UserMints, UserBurns, storageVars, vars
<1> QED BY <1>1, <1>2, <1>3, <1>4, <1>5, <1>6, <1>7, <1>8 DEF Next, WorkerStep

LEMMA RecordedMoves ==
  ASSUME TypeOK, WorkerInv, CallInv, ReceiptInv, [Next]_vars
  PROVE  /\ \A r : IsRecorded(r) => IsRecorded(r)'
         /\ audit' = audit => \A r : IsRecorded(r)' <=> IsRecorded(r)
         /\ \A r \in Requests :
              r.type \in {"swap-to-ban", "swap-to-wban"} /\ IsRecorded(r)' /\ ~IsRecorded(r)
                => Writes /\ r = req[Worker]
<1>1. CASE audit' = audit
  BY <1>1 DEF IsRecorded
<1>2. CASE Writes
  <2>1. req[Worker] \in Requests /\ req[Worker].type \in {"swap-to-ban", "swap-to-wban"}
        /\ audit' = audit \cup {Storage!EventOf(req[Worker])}
    BY <1>2, CallOf DEF Writes
  <2>2. ASSUME NEW r \in Requests, r.type \in {"swap-to-ban", "swap-to-wban"},
               IsRecorded(r)', ~IsRecorded(r)
        PROVE  r = req[Worker]
    <3>1. Storage!EventOf(r) = Storage!EventOf(req[Worker])
      BY <2>1, <2>2 DEF IsRecorded
    <3> QED BY <2>1, <2>2, <3>1, EventsDiffer
  <2>3. \A r : IsRecorded(r) => IsRecorded(r)'
    BY <2>1 DEF IsRecorded
  <2>4. audit' = audit => \A r : IsRecorded(r)' <=> IsRecorded(r)
    BY DEF IsRecorded
  <2> QED BY <1>2, <2>2, <2>3, <2>4
<1> QED BY <1>1, <1>2, AuditMoves

(* What is submitted: the receipt of a store that starts.                  *)
LEMMA SubmittedMoves ==
  ASSUME TypeOK, WorkerInv, CallInv, ReceiptInv, [Next]_vars
  PROVE  submitted \subseteq submitted'
<1>1. CASE StorageStep
  BY <1>1, StorageStepDoes
<1>2. CASE ReadBalance
  BY <1>2, ReadBalanceDoes
<1>3. CASE StoreSwap
  BY <1>3, StoreSwapDoes
<1>4. CASE BalanceRead
  BY <1>4, BalanceReadDoes
<1>5. CASE StorageFails
  BY <1>5, StorageFailsDoes
<1>6. CASE StoreEnds
  BY <1>6, StoreEndsDoes
<1>7. CASE (\E k \in Storage!LockNames : ExpireLock(k)) \/ CrashRestart
  BY <1>7, ExpireLockDoes, CrashDoes
<1>8. CASE \/ \E j \in Jobs : addJob(j) \/ Promote(j) \/ StartJob(j)
           \/ CountSwaps \/ Relay \/ waitForRelayedTx \/ storeFreeSwap \/ RequestFails
           \/ \E t \in TxIds : SettleTx(t)
           \/ \E r \in Receipts : UserMints(r)
           \/ \E b \in ToBAN : UserBurns(b)
           \/ UNCHANGED vars
  BY <1>8 DEF addJob, Promote, StartJob, CountSwaps, Relay, waitForRelayedTx, storeFreeSwap,
              RequestFails, SettleTx, UserMints, UserBurns, storageVars, vars
<1> QED BY <1>1, <1>2, <1>3, <1>4, <1>5, <1>6, <1>7, <1>8 DEF Next, WorkerStep

(* What is relayed and minted.                                             *)
Settles(t) ==
  /\ t \in TxIds /\ SettleTx(t) /\ relayed[t] = "pending"
  /\ relayed'[t] \in {"mined", "failed", "expired"}
  /\ \A u \in TxIds : u # t => relayed'[u] = relayed[u]
  /\ UNCHANGED <<storageVars, queueVars, workerVars, burned, freeSwaps, boundVars>>
  /\ \/ relayed'[t] = "mined" /\ minted' = minted \cup ({t} \cap Receipts) /\ Accepts(t)
     \/ relayed'[t] \in {"failed", "expired"} /\ minted' = minted

Relays ==
  /\ Relay /\ step = "relay" /\ relayed[NextTx] = "none" /\ relayed'[NextTx] = "pending"
  /\ NextTx \in TxIds /\ relayed' = [relayed EXCEPT ![NextTx] = "pending"]
  /\ \A u \in TxIds : u # NextTx => relayed'[u] = relayed[u]
  /\ minted' = minted

LEMMA ChainMoves ==
  ASSUME TypeOK, WorkerInv, CallInv, ReceiptInv, AttemptsInv, FiniteInv, [Next]_vars
  PROVE  \/ UNCHANGED <<relayed, minted>>
         \/ \E t \in TxIds : Settles(t)
         \/ Relays
         \/ relayed' = relayed /\ \E r \in Receipts : UserMints(r)
<1>1. CASE \E t \in TxIds : SettleTx(t)
  BY <1>1, SettleTxDoes DEF Settles
<1>2. CASE Relay
  <2>1. /\ step = "relay" /\ minted' = minted /\ current # NoJob
        /\ relayed' = [relayed EXCEPT ![NextTx] = "pending"]
    BY <1>2, RelayDoes
  <2>2. NextTx \in TxIds /\ relayed[NextTx] = "none"
    BY <2>1, RelaysTx
  <2>3. /\ relayed'[NextTx] = "pending"
        /\ \A u \in TxIds : u # NextTx => relayed'[u] = relayed[u]
    BY <2>1, <2>2 DEF TypeOK
  <2> QED BY <1>2, <2>1, <2>2, <2>3 DEF Relays
<1>3. CASE \E r \in Receipts : UserMints(r)
  BY <1>3 DEF UserMints
<1>4. CASE \/ \E j \in Jobs : addJob(j) \/ Promote(j) \/ StartJob(j)
           \/ ReadBalance \/ StorageStep \/ BalanceRead \/ StoreSwap \/ StorageFails
           \/ StoreEnds \/ CountSwaps \/ waitForRelayedTx \/ storeFreeSwap \/ RequestFails
           \/ \E b \in ToBAN : UserBurns(b)
           \/ \E k \in Storage!LockNames : ExpireLock(k)
           \/ CrashRestart \/ UNCHANGED vars
  BY <1>4
  DEF addJob, Promote, StartJob, ReadBalance, StorageStep, BalanceRead, StoreSwap, StorageFails,
      StoreEnds, CountSwaps, waitForRelayedTx, storeFreeSwap, RequestFails, UserBurns,
      ExpireLock, CrashRestart, chainVars, vars
<1> QED BY <1>1, <1>2, <1>3, <1>4 DEF Next, WorkerStep

(* What is burned.                                                         *)
LEMMA BurnedMoves ==
  ASSUME [Next]_vars
  PROVE  burned' = burned \/ \E b \in ToBAN : UserBurns(b)
<1>1. CASE \/ \E j \in Jobs : addJob(j) \/ Promote(j) \/ StartJob(j)
           \/ ReadBalance \/ StorageStep \/ BalanceRead \/ StoreSwap \/ StorageFails
           \/ StoreEnds \/ CountSwaps \/ waitForRelayedTx \/ storeFreeSwap \/ RequestFails
           \/ Relay \/ (\E t \in TxIds : SettleTx(t)) \/ (\E r \in Receipts : UserMints(r))
           \/ (\E k \in Storage!LockNames : ExpireLock(k))
           \/ CrashRestart \/ UNCHANGED vars
  BY <1>1
  DEF addJob, Promote, StartJob, ReadBalance, StorageStep, BalanceRead, StoreSwap,
      StorageFails, StoreEnds, CountSwaps, waitForRelayedTx, storeFreeSwap, RequestFails,
      Relay, SettleTx, UserMints, ExpireLock, CrashRestart, chainVars, vars
<1> QED BY <1>1 DEF Next, WorkerStep

LEMMA FiniteStep ==
  ASSUME TypeOK, WorkerInv, CallInv, ReceiptInv, AttemptsInv, FiniteInv, [Next]_vars
  PROVE  FiniteInv'
<1>1. IsFiniteSet(audit')
  BY AuditMoves, FS_AddElement DEF FiniteInv, Writes
<1>2. IsFiniteSet(burned')
  BY BurnedMoves, FS_AddElement DEF FiniteInv, UserBurns
<1>3. IsFiniteSet(minted')
  <2>1. minted' = minted \/ \E r : minted' = minted \cup {r}
    <3>1. ASSUME NEW t, Settles(t) PROVE minted' = minted \/ minted' = minted \cup {t}
      BY <3>1 DEF Settles
    <3> QED BY <3>1, ChainMoves DEF UserMints, Relays
  <2> QED BY <2>1, FS_AddElement DEF FiniteInv
<1>4. IsFiniteSet({t \in TxIds : relayed[t] # "none"}')
  <2> DEFINE S == {t \in TxIds : relayed[t] # "none"}
  <2>1. CASE Relays
    <3>1. S' = S \cup {NextTx}
      BY <2>1 DEF Relays
    <3> QED BY <3>1, FS_AddElement DEF FiniteInv
  <2>2. ASSUME NEW t \in TxIds, Settles(t) PROVE S' = S
    BY <2>2 DEF Settles
  <2>3. CASE relayed' = relayed
    BY <2>3 DEF FiniteInv
  <2> QED BY <2>1, <2>2, <2>3, ChainMoves DEF FiniteInv
<1> QED BY <1>1, <1>2, <1>3, <1>4 DEF FiniteInv

-----------------------------------------------------------------------------
(* Receipts.                                                               *)
LEMMA ReceiptStep ==
  ASSUME TypeOK, WorkerInv, CallInv, ReceiptInv, AttemptsInv, FiniteInv, [Next]_vars
  PROVE  ReceiptInv'
<1>0. /\ relayed \in [TxIds -> {"none", "pending", "mined", "failed", "expired"}]
      /\ Receipts \subseteq TxIds /\ Receipts \subseteq Requests
  BY Callers DEF TypeOK, TxIds
<1>a. ASSUME NEW r \in Receipts, IsRecorded(r)' PROVE r \in submitted'
  <2>1. CASE IsRecorded(r)
    BY <2>1, SubmittedMoves DEF ReceiptInv
  <2>2. CASE ~IsRecorded(r)
    <3>1. Writes /\ r = req[Worker] /\ r.type = "swap-to-wban"
      BY <1>a, <2>2, RecordedMoves, Callers
    <3>2. receipt = r /\ receipt # NoRequest
      BY <3>1, CallOf, Callers DEF Writes
    <3> QED BY <3>2, SubmittedMoves DEF ReceiptInv
  <2> QED BY <2>1, <2>2
<1>b. ASSUME NEW r \in Receipts, relayed'[r] # "none" \/ r \in minted' PROVE IsRecorded(r)'
  <2>1. CASE IsRecorded(r)
    BY <2>1, RecordedMoves
  <2>2. CASE ~IsRecorded(r)
    <3>0. relayed[r] = "none" /\ r \notin minted
      BY <2>2 DEF ReceiptInv
    <3>1. CASE Relays
      <4>1. NextTx = r
        BY <1>0, <1>b, <3>0, <3>1 DEF Relays
      <4>2. current # NoJob /\ step = "relay"
        BY <3>1, RelayDoes DEF Relays
      <4>3. current \in ToWBAN \cup Gasless
        BY <3>1, RelayDoes DEF Relays
      <4> QED BY <2>2, <4>1, <4>2, <4>3, RelaysTx
    <3>2. ASSUME NEW t \in TxIds, Settles(t) PROVE FALSE
      BY <1>0, <1>b, <3>0, <3>2 DEF Settles
    <3>3. CASE \E q \in Receipts : UserMints(q)
      BY <1>b, <2>2, <3>0, <3>3 DEF UserMints
    <3>4. CASE UNCHANGED <<relayed, minted>>
      BY <1>b, <3>0, <3>4
    <3> QED BY <3>1, <3>2, <3>3, <3>4, ChainMoves
  <2> QED BY <2>1, <2>2
<1>c. ASSUME /\ receipt' # NoRequest =>
                  /\ current' \in ToWBAN /\ receipt' \in ReceiptsOf(current') \cap submitted'
                  /\ step' \in {"storing", "count", "relay", "wait", "result"}
             /\ current' \in ToWBAN /\ step' \in {"storing", "count", "relay", "wait", "result"}
                  => receipt' # NoRequest
             /\ current' \in ToWBAN /\ step' \in {"count", "relay", "wait", "result"}
                  => IsRecorded(receipt)'
             /\ step' \in {"storing", "count", "relay"} /\ receipt' # NoRequest
                  => relayed'[receipt'] = "none"
      PROVE  ReceiptInv'
  BY <1>a, <1>b, <1>c DEF ReceiptInv, ReceiptsOf, IsRecorded
<1>1. CASE receipt' = NoRequest /\ current' = NoJob /\ step' = "none"
  <2>1. NoJob \notin ToWBAN
    BY Callers, Kinds
  <2> QED BY <1>1, <1>c, <2>1
<1>2. CASE UNCHANGED <<current, step, receipt>>
           /\ (step \in {"storing", "count", "relay"} /\ receipt # NoRequest
                 => relayed'[receipt] = relayed[receipt])
  <2>1. /\ IsRecorded(receipt) => IsRecorded(receipt)'
        /\ submitted \subseteq submitted'
    BY RecordedMoves, SubmittedMoves, <1>2 DEF IsRecorded
  <2> HIDE DEF IsRecorded
  <2> QED BY <1>2, <1>c, <2>1 DEF ReceiptInv
<1>3. CASE StoreSwap
  <2>0. UNCHANGED <<current, relayed>> /\ step = "store" /\ current # NoJob /\ audit' = audit
    BY <1>3, StoreSwapDoes DEF chainVars
  <2>1. CASE /\ current \in ToWBAN /\ step' = "storing"
             /\ receipt' \in ReceiptsOf(current) \ submitted
             /\ submitted' = submitted \cup {receipt'}
    <3>1. receipt' \in Receipts /\ receipt' # NoRequest
      BY <2>1, Callers
    <3>2. relayed[receipt'] = "none"
      BY <2>1, <3>1 DEF ReceiptInv
    <3> QED BY <1>c, <2>0, <2>1, <3>1, <3>2
  <2>2. CASE current \in ToBAN /\ receipt' = receipt /\ step' \in {"storing", "result"}
    <3>1. current \notin ToWBAN
      BY <2>2, Kinds
    <3>2. receipt = NoRequest
      BY <3>1 DEF ReceiptInv
    <3> QED BY <1>c, <2>0, <2>2, <3>1, <3>2
  <2> QED BY <1>3, <2>1, <2>2, StoreSwapDoes
<1>4. CASE /\ UNCHANGED <<current, receipt>> /\ current \in ToWBAN
           /\ receipt # NoRequest /\ IsRecorded(receipt)
           /\ step' \in {"count", "relay", "wait", "result"}
           /\ step' \in {"count", "relay"} => step \in {"storing", "count"} /\ relayed' = relayed
  <2>1. IsRecorded(receipt)'
    BY <1>4, RecordedMoves DEF IsRecorded
  <2>2. receipt \in ReceiptsOf(current) \cap submitted
    BY <1>4 DEF ReceiptInv
  <2>3. step' \in {"count", "relay"} => relayed'[receipt] = "none"
    BY <1>4 DEF ReceiptInv
  <2> QED BY <1>4, <1>c, <2>1, <2>2, <2>3, SubmittedMoves
<1>5. CASE receipt' = NoRequest /\ (current' \in ToWBAN => step' \in {"balance", "store"})
  BY <1>5, <1>c
<1>6. current \notin ToWBAN => receipt = NoRequest
  BY DEF ReceiptInv
<1>7. ASSUME NEW j \in Jobs, StartJob(j) PROVE ReceiptInv'
  <2>1. receipt = NoRequest /\ receipt' = receipt /\ current = NoJob
    BY <1>6, <1>7, StartJobDoes, Callers, Kinds
  <2>2. current' \in ToWBAN => step' \in {"balance", "store"}
    BY <1>7, <2>1, StartJobDoes, Callers, Kinds
  <2> QED BY <1>5, <2>1, <2>2
<1>8. CASE BalanceRead
  <2>1. CASE step = "balance" /\ step' = "store" /\ UNCHANGED <<current, receipt>>
    <3>1. receipt = NoRequest
      BY <2>1 DEF ReceiptInv
    <3> QED BY <1>5, <2>1, <3>1
  <2>2. CASE JobEnds({"delayed", "failed"}) \/ JobEnds({"completed"})
    BY <1>1, <2>2 DEF JobEnds
  <2> QED BY <1>8, <2>1, <2>2, BalanceReadDoes
<1>9. CASE StorageFails
  <2>1. CASE JobEnds({"delayed", "failed"})
    BY <1>1, <2>1 DEF JobEnds
  <2>2. CASE UNCHANGED workerVars /\ UNCHANGED chainVars
    BY <1>2, <2>2 DEF workerVars, chainVars
  <2> QED BY <1>9, <2>1, <2>2, StorageFailsDoes
<1>10. CASE StoreEnds
  <2>1. CASE JobEnds({"delayed", "failed"})
    BY <1>1, <2>1 DEF JobEnds
  <2>2. CASE /\ current \in ToWBAN /\ step' = "count" /\ req[Worker] = receipt
             /\ IsRecorded(req[Worker]) /\ UNCHANGED <<current, receipt>>
    <3>1. step = "storing" /\ relayed' = relayed
      BY <1>10, StoreEndsDoes DEF chainVars
    <3>2. receipt # NoRequest
      BY <2>2, <3>1 DEF ReceiptInv
    <3> QED BY <1>4, <2>2, <3>1, <3>2
  <2>3. CASE current \in ToBAN /\ step' = "result" /\ UNCHANGED <<current, receipt>>
    BY <1>5, <1>6, <2>3, Kinds
  <2> QED BY <1>10, <2>1, <2>2, <2>3, StoreEndsDoes
<1>11. CASE CountSwaps
  <2>1. /\ current \in ToWBAN /\ step = "count" /\ step' \in {"relay", "result"}
        /\ UNCHANGED <<current, receipt, relayed>>
    BY <1>11, CountSwapsDoes DEF chainVars
  <2>2. receipt # NoRequest /\ IsRecorded(receipt)
    BY <2>1 DEF ReceiptInv
  <2> QED BY <1>4, <2>1, <2>2
<1>12. CASE Relay
  <2>1. CASE JobEnds({"delayed", "failed"})
    BY <1>1, <2>1 DEF JobEnds
  <2>2. CASE step' = "wait" /\ UNCHANGED <<current, receipt>>
    <3>1. current # NoJob /\ step = "relay" /\ current \in ToWBAN \cup Gasless
      BY <1>12, RelayDoes
    <3>2. CASE current \in ToWBAN
      <4>1. receipt # NoRequest /\ IsRecorded(receipt)
        BY <3>1, <3>2 DEF ReceiptInv
      <4> QED BY <1>4, <2>2, <3>2, <4>1
    <3>3. CASE current \in Gasless
      BY <1>5, <1>6, <2>2, <3>3, Kinds
    <3> QED BY <3>1, <3>2, <3>3
  <2> QED BY <1>12, <2>1, <2>2, RelayDoes
<1>13. CASE waitForRelayedTx
  <2>1. CASE JobEnds({"delayed", "failed"})
    BY <1>1, <2>1 DEF JobEnds
  <2>2. CASE UNCHANGED <<current, receipt>> /\ current \in ToWBAN /\ step' = "result"
    <3>1. step = "wait"
      BY <1>13, WaitDoes
    <3>2. receipt # NoRequest /\ IsRecorded(receipt)
      BY <2>2, <3>1 DEF ReceiptInv
    <3> QED BY <1>4, <2>2, <3>2
  <2>3. CASE UNCHANGED <<current, receipt>> /\ current \in Gasless
    BY <1>5, <1>6, <2>3, Kinds
  <2> QED BY <1>13, <2>1, <2>2, <2>3, WaitDoes
<1>14. CASE storeFreeSwap \/ RequestFails \/ CrashRestart
  BY <1>1, <1>14, StoreFreeSwapDoes, RequestFailsDoes, CrashDoes DEF JobEnds
<1>15. ASSUME NEW t \in TxIds, SettleTx(t) PROVE ReceiptInv'
  <2>1. Settles(t)
    BY <1>15, SettleTxDoes DEF Settles
  <2>2. ASSUME step \in {"storing", "count", "relay"}, receipt # NoRequest
        PROVE  relayed'[receipt] = relayed[receipt]
    <3>1. relayed[receipt] = "none" /\ receipt \in Receipts
      BY <2>2, Callers DEF ReceiptInv
    <3> QED BY <1>0, <2>1, <3>1 DEF Settles
  <2> QED BY <1>2, <2>1, <2>2 DEF Settles, workerVars
<1>16. CASE \/ \E j \in Jobs : addJob(j) \/ Promote(j)
            \/ ReadBalance \/ StorageStep
            \/ \E r \in Receipts : UserMints(r)
            \/ \E b \in ToBAN : UserBurns(b)
            \/ \E k \in Storage!LockNames : ExpireLock(k)
            \/ UNCHANGED vars
  <2>1. UNCHANGED <<current, step, receipt, relayed>>
    BY <1>16 DEF addJob, Promote, ReadBalance, StorageStep, UserMints, UserBurns, ExpireLock,
                 workerVars, chainVars, vars
  <2> QED BY <1>2, <2>1
<1> QED BY <1>3, <1>7, <1>8, <1>9, <1>10, <1>11, <1>12, <1>13, <1>14, <1>15, <1>16
        DEF Next, WorkerStep

-----------------------------------------------------------------------------
(* Locks.                                                                  *)
LEMMA UnlockedDoes ==
  ASSUME TypeOK, NEW k, locks' = Storage!Unlocked(Worker, k)
  PROVE  \A i \in Storage!LockNames :
           /\ locks'[i] = Worker => locks[i] = Worker /\ i # k
           /\ locks'[i] = "orphan" => locks[i] = "orphan"
BY Callers DEF Storage!Unlocked, TypeOK, Storage!TypeOK

LEMMA GetsDoes ==
  ASSUME TypeOK, NEW k, NEW stage, NEW waiting, Gets(k, stage, waiting)
  PROVE  /\ \A i \in Storage!LockNames :
              /\ locks'[i] = Worker => locks[i] = Worker \/ (i = k /\ pc'[Worker] = stage)
              /\ locks'[i] = "orphan" => locks[i] = "orphan"
         /\ k \in Storage!LockNames /\ pc'[Worker] = stage /\ stage # waiting => locks'[k] = Worker
         /\ pc'[Worker] \in {stage, waiting}
BY Callers DEF Gets, TypeOK, Storage!TypeOK

LEMMA UserLockName ==
  ASSUME NEW s \in ToWBAN PROVE UserLock(s) \in Storage!LockNames
BY SwapsAssumption DEF UserLock, Storage!LockNames

(* The worker holds the locks of its call.                                 *)
HeldInv ==
  \A k \in Storage!LockNames : locks[k] = Worker =>
    /\ pc[Worker] # "idle"
    /\ \/ k = Storage!OuterLock(req[Worker])
       \/ k = Storage!BalanceLock(req[Worker]) /\ pc[Worker] \in {"locked", "read"}

NotOrphaned ==
  current \in ToWBAN /\ (step = "balance" => pc[Worker] \in {"locked", "read"})
    => locks[UserLock(current)] # "orphan"

ReadsAtOnce == current \in ToWBAN /\ step = "result" => pc[Worker] # "waiting"

LEMMA LockParts ==
  /\ LockInv <=> HeldInv /\ NotOrphaned /\ ReadsAtOnce
  /\ LockInv' <=> HeldInv' /\ NotOrphaned' /\ ReadsAtOnce'
BY DEF LockInv, HeldInv, NotOrphaned, ReadsAtOnce, UserLock

LEMMA LockStep ==
  ASSUME TypeOK, WorkerInv, CallInv, ReceiptInv, LockInv, [Next]_vars
  PROVE  LockInv'
<1>0. HeldInv /\ NotOrphaned /\ ReadsAtOnce
  BY LockParts
<1>n. NoJob \notin ToWBAN
  BY Callers, Kinds
<1>u. current \in ToWBAN => UserLock(current) \in Storage!LockNames
  BY UserLockName
<1>1. CASE UNCHANGED <<locks, pc, req, current, step>>
  BY <1>1 DEF LockInv
<1>2. CASE pc[Worker] = "idle" /\ UNCHANGED <<locks, pc>>
           /\ \/ current' = current /\ step # "balance"
              \/ current' \notin ToWBAN
              \/ step' = "balance"
  <2>1. HeldInv'
    BY <1>0, <1>2 DEF HeldInv
  <2>2. NotOrphaned' /\ ReadsAtOnce'
    BY <1>0, <1>2 DEF NotOrphaned, ReadsAtOnce
  <2> QED BY <2>1, <2>2, LockParts
<1>3. step \in {"none", "count", "relay", "wait", "free", "store"} => pc[Worker] = "idle"
  BY DEF CallInv
<1>4. CASE ReadBalance
  <2> DEFINE k == UserLock(current)
  <2>1. /\ pc[Worker] = "idle" /\ UNCHANGED <<step, current>> /\ step \in {"balance", "result"}
        /\ Storage!OuterLock(req'[Worker]) = k /\ Gets(k, "locked", "waiting")
    BY <1>4, ReadBalanceDoes DEF workerVars
  <2>2. /\ \A i \in Storage!LockNames :
             /\ locks'[i] = Worker => i = k
             /\ locks'[i] = "orphan" => locks[i] = "orphan"
        /\ pc'[Worker] \in {"locked", "waiting"}
        /\ k \in Storage!LockNames /\ pc'[Worker] = "locked" => locks'[k] = Worker
        /\ \A i \in Storage!LockNames : locks'[i] = Worker => pc'[Worker] # "idle"
    <3>1. \A i \in Storage!LockNames : locks[i] # Worker
      BY <1>0, <2>1 DEF HeldInv
    <3>2. \A i \in Storage!LockNames :
            /\ locks'[i] = Worker => locks[i] = Worker \/ (i = k /\ pc'[Worker] = "locked")
            /\ locks'[i] = "orphan" => locks[i] = "orphan"
      BY <2>1, GetsDoes
    <3> QED BY <2>1, <3>1, <3>2, GetsDoes
  <2>3. HeldInv'
    BY <2>1, <2>2 DEF HeldInv
  <2>4. NotOrphaned'
    <3>1. ASSUME current \in ToWBAN, step = "balance" => pc'[Worker] \in {"locked", "read"}
          PROVE  locks'[k] # "orphan"
      <4>1. CASE step = "balance"
        BY <1>u, <2>2, <3>1, <4>1, Callers
      <4>2. CASE step = "result"
        <5>1. locks[k] # "orphan"
          BY <1>0, <3>1, <4>2 DEF NotOrphaned
        <5> QED BY <1>u, <2>2, <3>1, <5>1
      <4> QED BY <2>1, <4>1, <4>2
    <3> QED BY <2>1, <3>1 DEF NotOrphaned, UserLock
  <2>5. ReadsAtOnce'
    <3>1. ASSUME current \in ToWBAN, step = "result" PROVE pc'[Worker] # "waiting"
      <4>1. locks[k] # "orphan" /\ k \in Storage!LockNames
        BY <1>0, <1>u, <3>1 DEF NotOrphaned
      <4>2. locks[k] # Worker
        BY <1>0, <2>1, <4>1 DEF HeldInv
      <4>3. locks[k] = "free"
        BY <4>1, <4>2, Callers DEF TypeOK, Storage!TypeOK
      <4> QED BY <2>1, <4>3 DEF Gets
    <3> QED BY <2>1, <3>1 DEF ReadsAtOnce
  <2> QED BY <2>3, <2>4, <2>5, LockParts
<1>5. CASE StoreSwap
  <2>1. CASE /\ current \in ToWBAN /\ step' = "storing" /\ req'[Worker] = receipt'
             /\ Gets(Storage!OuterLock(receipt'), "swaps-locked", "waiting-swaps")
    <3>1. current' = current /\ step = "store" /\ pc[Worker] = "idle"
      BY <1>5, StoreSwapDoes
    <3>2. \A i \in Storage!LockNames : locks[i] # Worker
      BY <1>0, <3>1 DEF HeldInv
    <3>3. /\ \A i \in Storage!LockNames :
              /\ locks'[i] = Worker => i = Storage!OuterLock(req'[Worker])
              /\ locks'[i] = "orphan" => locks[i] = "orphan"
          /\ pc'[Worker] \in {"swaps-locked", "waiting-swaps"}
      BY <2>1, <3>2, GetsDoes
    <3>4. HeldInv'
      BY <3>3 DEF HeldInv
    <3>5. NotOrphaned' /\ ReadsAtOnce'
      <4>1. locks[UserLock(current)] # "orphan"
        BY <1>0, <2>1, <3>1 DEF NotOrphaned
      <4>2. locks'[UserLock(current)] # "orphan"
        BY <1>u, <2>1, <3>3, <4>1
      <4> QED BY <2>1, <3>1, <4>2 DEF NotOrphaned, ReadsAtOnce, UserLock
    <3> QED BY <3>4, <3>5, LockParts
  <2>2. CASE current \in ToBAN /\ locks' = locks
    <3>1. current' = current /\ step = "store" /\ pc[Worker] = "idle" /\ current \notin ToWBAN
      BY <1>5, <2>2, StoreSwapDoes, Kinds
    <3>2. HeldInv'
      BY <1>0, <2>2, <3>1 DEF HeldInv
    <3> QED BY <3>1, <3>2, LockParts DEF NotOrphaned, ReadsAtOnce
  <2> QED BY <1>5, <2>1, <2>2, StoreSwapDoes
<1>6. CASE StorageStep
  <2>0. UNCHANGED <<current, step, req>> /\ pc[Worker] # "idle"
    BY <1>6, StorageStepDoes DEF workerVars
  <2>c. /\ req[Worker].type = "balance" <=> step \in {"balance", "result"}
        /\ req[Worker].type = "balance" => Storage!BalanceLock(req[Worker]) = UserLock(current)
        /\ req[Worker].type = "swap-to-ban" =>
             Storage!OuterLock(req[Worker]) = Storage!BalanceLock(req[Worker])
        /\ step \in {"balance", "result"} => pc[Worker] \in {"waiting", "locked", "read"}
    <3>1. step \in {"balance", "result"} => pc[Worker] \in {"waiting", "locked", "read"}
      BY <2>0 DEF CallInv
    <3> QED BY <2>0, <3>1, CallOf
  <2>l. ASSUME \A i \in Storage!LockNames : locks'[i] = "orphan" => locks[i] = "orphan",
               step = "balance" => \/ pc[Worker] \in {"locked", "read"}
                                   \/ pc'[Worker] \notin {"locked", "read"}
                                   \/ current \in ToWBAN => locks'[UserLock(current)] # "orphan",
               step = "result" /\ current \in ToWBAN => pc'[Worker] # "waiting"
        PROVE  NotOrphaned' /\ ReadsAtOnce'
    <3>1. ReadsAtOnce'
      BY <2>0, <2>l DEF ReadsAtOnce
    <3>2. ASSUME current \in ToWBAN, step = "balance" => pc'[Worker] \in {"locked", "read"}
          PROVE  locks'[UserLock(current)] # "orphan"
      <4>1. CASE step = "balance" => pc[Worker] \in {"locked", "read"}
        BY <1>0, <1>u, <2>l, <3>2, <4>1 DEF NotOrphaned
      <4> QED BY <2>l, <3>2, <4>1
    <3> QED BY <2>0, <3>1, <3>2 DEF NotOrphaned, UserLock
  <2>1. CASE /\ pc[Worker] \in {"checked", "swaps-locked", "waiting"}
             /\ Gets(Storage!BalanceLock(req[Worker]), "locked", "waiting")
    <3> DEFINE k == Storage!BalanceLock(req[Worker])
    <3>1. /\ \A i \in Storage!LockNames :
               /\ locks'[i] = Worker => locks[i] = Worker \/ (i = k /\ pc'[Worker] = "locked")
               /\ locks'[i] = "orphan" => locks[i] = "orphan"
          /\ k \in Storage!LockNames /\ pc'[Worker] = "locked" => locks'[k] = Worker
          /\ pc'[Worker] \in {"locked", "waiting"}
      BY <2>1, GetsDoes
    <3>2. \A i \in Storage!LockNames : locks[i] = Worker => i = Storage!OuterLock(req[Worker])
      BY <1>0, <2>1 DEF HeldInv
    <3>3. HeldInv'
      BY <2>0, <3>1, <3>2 DEF HeldInv
    <3>4. step = "balance" /\ pc'[Worker] \in {"locked", "read"} /\ current \in ToWBAN
            => locks'[UserLock(current)] # "orphan"
      BY <1>u, <2>c, <3>1, Callers
    <3>5. ~ (step = "result" /\ current \in ToWBAN)
      BY <1>0, <2>1, <2>c DEF ReadsAtOnce
    <3> QED BY <2>l, <3>1, <3>3, <3>4, <3>5, LockParts
  <2>2. CASE /\ pc[Worker] = "waiting-swaps"
             /\ Gets(Storage!OuterLock(req[Worker]), "swaps-locked", "waiting-swaps")
    <3> DEFINE k == Storage!OuterLock(req[Worker])
    <3>1. /\ \A i \in Storage!LockNames :
               /\ locks'[i] = Worker => locks[i] = Worker \/ i = k
               /\ locks'[i] = "orphan" => locks[i] = "orphan"
          /\ pc'[Worker] \in {"swaps-locked", "waiting-swaps"}
      BY <2>2, GetsDoes
    <3>2. \A i \in Storage!LockNames : locks[i] = Worker => i = k
      BY <1>0, <2>2 DEF HeldInv
    <3>3. HeldInv'
      BY <2>0, <3>1, <3>2 DEF HeldInv
    <3>4. step \notin {"balance", "result"}
      BY <2>2, <2>c
    <3> QED BY <2>l, <3>1, <3>3, <3>4, LockParts
  <2>3. CASE /\ locks' = locks /\ pc[Worker] = "locked" /\ req[Worker].type = "swap-to-ban"
             /\ pc'[Worker] \in {"rechecked", "releasing"}
    <3>1. \A i \in Storage!LockNames : locks[i] = Worker => i = Storage!OuterLock(req[Worker])
      BY <1>0, <2>c, <2>3 DEF HeldInv
    <3>2. HeldInv'
      BY <2>0, <2>3, <3>1 DEF HeldInv
    <3>3. step \notin {"balance", "result"}
      BY <2>3, <2>c
    <3> QED BY <2>l, <2>3, <3>2, <3>3, LockParts
  <2>4. CASE /\ locks' = locks /\ pc'[Worker] = "read"
             /\ pc[Worker] \in {"rechecked", "locked"}
    <3>1. HeldInv'
      BY <1>0, <2>0, <2>4 DEF HeldInv
    <3>2. step = "balance" => pc[Worker] = "locked"
      BY <2>4, <2>c
    <3> QED BY <2>l, <2>4, <3>1, <3>2, LockParts
  <2>5. CASE /\ pc[Worker] = "read" /\ pc'[Worker] = "unlocked"
             /\ req[Worker].type = "swap-to-wban"
             /\ locks' = Storage!Unlocked(Worker, Storage!BalanceLock(req[Worker]))
    <3>1. \A i \in Storage!LockNames :
            /\ locks'[i] = Worker => locks[i] = Worker /\ i # Storage!BalanceLock(req[Worker])
            /\ locks'[i] = "orphan" => locks[i] = "orphan"
      BY <2>5, UnlockedDoes
    <3>2. HeldInv'
      BY <1>0, <2>0, <2>5, <3>1 DEF HeldInv
    <3>3. step \notin {"balance", "result"}
      BY <2>5, <2>c
    <3> QED BY <2>l, <3>1, <3>2, <3>3, LockParts
  <2>6. CASE /\ locks' = locks /\ pc[Worker] \in {"read", "unlocked"}
             /\ pc'[Worker] = "releasing" /\ step = "storing"
             /\ pc[Worker] = "read" => req[Worker].type = "swap-to-ban"
    <3>1. \A i \in Storage!LockNames : locks[i] = Worker => i = Storage!OuterLock(req[Worker])
      BY <1>0, <2>c, <2>6 DEF HeldInv
    <3>2. HeldInv'
      BY <2>0, <2>6, <3>1 DEF HeldInv
    <3> QED BY <2>l, <2>6, <3>2, LockParts
  <2> QED BY <1>6, <2>1, <2>2, <2>3, <2>4, <2>5, <2>6, StorageStepDoes
<1>7. CASE StorageFails
  <2>0. pc[Worker] # "idle"
    BY <1>7, StorageFailsDoes
  <2>1. CASE /\ pc'[Worker] = "idle" /\ JobEnds({"delayed", "failed"})
             /\ locks' = Storage!Unlocked(Worker, Storage!OuterLock(req[Worker]))
             /\ \/ pc[Worker] \in {"waiting", "waiting-swaps"}
                \/ Storage!OuterLock(req[Worker]) = Storage!BalanceLock(req[Worker])
    <3>1. \A i \in Storage!LockNames : locks[i] = Worker => i = Storage!OuterLock(req[Worker])
      BY <1>0, <2>1 DEF HeldInv
    <3>2. \A i \in Storage!LockNames : locks'[i] # Worker
      BY <2>1, <3>1, UnlockedDoes
    <3>3. HeldInv'
      BY <3>2 DEF HeldInv
    <3> QED BY <1>n, <2>1, <3>3, LockParts DEF JobEnds, NotOrphaned, ReadsAtOnce
  <2>2. CASE /\ pc'[Worker] = "releasing" /\ step = "storing" /\ UNCHANGED <<req, workerVars>>
             /\ \/ /\ locks' = locks
                   /\ \/ pc[Worker] = "unlocked"
                      \/ Storage!OuterLock(req[Worker]) = Storage!BalanceLock(req[Worker])
                \/ locks' = Storage!Unlocked(Worker, Storage!BalanceLock(req[Worker]))
    <3>1. \A i \in Storage!LockNames :
            /\ locks'[i] = Worker => i = Storage!OuterLock(req[Worker])
            /\ locks'[i] = "orphan" => locks[i] = "orphan"
      BY <1>0, <2>2, UnlockedDoes DEF HeldInv
    <3>2. HeldInv'
      BY <2>2, <3>1 DEF HeldInv
    <3>3. current \in ToWBAN => locks'[UserLock(current)] # "orphan"
      BY <1>0, <1>u, <2>2, <3>1 DEF NotOrphaned
    <3> QED BY <2>2, <3>2, <3>3, LockParts DEF workerVars, NotOrphaned, ReadsAtOnce, UserLock
  <2> QED BY <1>7, <2>1, <2>2, StorageFailsDoes
<1>8. CASE BalanceRead
  <2>1. /\ step \in {"balance", "result"} /\ pc[Worker] = "read" /\ pc'[Worker] = "idle"
        /\ locks' = Storage!Unlocked(Worker, UserLock(current))
    BY <1>8, BalanceReadDoes
  <2>2. /\ Storage!OuterLock(req[Worker]) = UserLock(current)
        /\ Storage!BalanceLock(req[Worker]) = UserLock(current)
    BY <2>1, CallOf
  <2>3. \A i \in Storage!LockNames :
            /\ locks'[i] # Worker
            /\ locks'[i] = "orphan" => locks[i] = "orphan"
    BY <1>0, <2>1, <2>2, UnlockedDoes DEF HeldInv
  <2>4. HeldInv'
    BY <2>3 DEF HeldInv
  <2>5. ReadsAtOnce'
    BY <2>1 DEF ReadsAtOnce
  <2>6. NotOrphaned'
    <3>1. CASE current' = current
      <4>1. current \in ToWBAN => locks'[UserLock(current)] # "orphan"
        BY <1>0, <1>u, <2>1, <2>3 DEF NotOrphaned
      <4> QED BY <3>1, <4>1 DEF NotOrphaned, UserLock
    <3>2. CASE current' = NoJob
      BY <1>n, <3>2 DEF NotOrphaned
    <3> QED BY <1>8, <3>1, <3>2, BalanceReadDoes DEF JobEnds
  <2> QED BY <2>4, <2>5, <2>6, LockParts
<1>9. CASE StoreEnds
  <2>1. /\ step = "storing" /\ pc[Worker] = "releasing" /\ pc'[Worker] = "idle"
        /\ locks' = Storage!Unlocked(Worker, Storage!OuterLock(req[Worker]))
        /\ current' \in {current, NoJob}
    BY <1>9, StoreEndsDoes DEF JobEnds
  <2>2. \A i \in Storage!LockNames :
            /\ locks'[i] # Worker
            /\ locks'[i] = "orphan" => locks[i] = "orphan"
    BY <1>0, <2>1, UnlockedDoes DEF HeldInv
  <2>3. HeldInv' /\ ReadsAtOnce'
    BY <2>1, <2>2 DEF HeldInv, ReadsAtOnce
  <2>4. current \in ToWBAN => locks'[UserLock(current)] # "orphan"
    BY <1>0, <1>u, <2>1, <2>2 DEF NotOrphaned
  <2>5. NotOrphaned'
    BY <1>n, <2>1, <2>4 DEF NotOrphaned, UserLock
  <2> QED BY <2>3, <2>5, LockParts
<1>10. CASE \E j \in Jobs : StartJob(j)
  <2>1. /\ step = "none" /\ current = NoJob /\ UNCHANGED <<locks, pc>>
        /\ UNCHANGED <<current, step>> \/ current' \notin ToWBAN \/ step' = "balance"
    BY <1>10, StartJobDoes, Kinds DEF storageVars
  <2> QED BY <1>2, <1>3, <2>1
<1>11. CASE CountSwaps \/ Relay \/ waitForRelayedTx \/ storeFreeSwap \/ RequestFails
  <2>1. /\ step \in {"store", "count", "relay", "wait", "free"} /\ UNCHANGED <<locks, pc>>
        /\ current' \in {current, NoJob}
    BY <1>11, CountSwapsDoes, RelayDoes, WaitDoes, StoreFreeSwapDoes, RequestFailsDoes
    DEF storageVars, JobEnds
  <2> QED BY <1>2, <1>3, <1>n, <2>1
<1>12. CASE \/ \E j \in Jobs : addJob(j) \/ Promote(j)
            \/ \E t \in TxIds : SettleTx(t)
            \/ \E r \in Receipts : UserMints(r)
            \/ \E b \in ToBAN : UserBurns(b)
            \/ UNCHANGED vars
  BY <1>1, <1>12 DEF addJob, Promote, SettleTx, UserMints, UserBurns, storageVars, workerVars, vars
<1>13. ASSUME NEW k \in Storage!LockNames, ExpireLock(k) PROVE LockInv'
  <2>1. UNCHANGED <<pc, req, current, step>> /\ locks' = [locks EXCEPT ![k] = "free"]
    BY <1>13, ExpireLockDoes DEF workerVars
  <2>2. \A i \in Storage!LockNames :
            /\ locks'[i] = Worker => locks[i] = Worker
            /\ locks'[i] = "orphan" => locks[i] = "orphan"
    BY <2>1, Callers DEF TypeOK, Storage!TypeOK
  <2>3. HeldInv' /\ ReadsAtOnce'
    BY <1>0, <2>1, <2>2 DEF HeldInv, ReadsAtOnce
  <2>4. NotOrphaned'
    BY <1>0, <1>u, <2>1, <2>2 DEF NotOrphaned, UserLock
  <2> QED BY <2>3, <2>4, LockParts
<1>14. CASE CrashRestart
  <2>1. locks' \in [Storage!LockNames -> {"free", "orphan"}] /\ current' = NoJob
    BY <1>14, CrashDoes
  <2> QED BY <1>n, <2>1, Callers, LockParts DEF HeldInv, NotOrphaned, ReadsAtOnce
<1> QED BY <1>4, <1>5, <1>6, <1>7, <1>8, <1>9, <1>10, <1>11, <1>12, <1>13, <1>14
        DEF Next, WorkerStep

-----------------------------------------------------------------------------
(* What may become of the worker in a step.                                *)

(* It stays with what it does, or stays free.                              *)
Idles ==
  /\ UNCHANGED <<current, step, receipt, freeSwaps, crashes>>
  /\ failures' >= failures
  /\ \A i \in Jobs : /\ made'[i] >= made[i]
                     /\ job'[i] = "completed" <=> job[i] = "completed"
  /\ relayed' = relayed \/ \E t \in TxIds : Settles(t)

(* It takes a job.                                                         *)
Begins ==
  /\ current = NoJob /\ current' \in Jobs /\ step = "none"
  /\ \/ current' \in ToWBAN /\ step' = "balance"
     \/ current' \in ToBAN /\ step' = "store"
     \/ current' \in Gasless /\ step' = "relay" /\ Lower[current'.wallet] \notin freeSwaps
  /\ job[current'] # "completed" /\ \A i \in Jobs : job'[i] = "completed" <=> job[i] = "completed"
  /\ UNCHANGED <<made, receipt, relayed, freeSwaps, audit, failures, crashes>>

(* It does the next step of its job.                                       *)
Proceeds ==
  /\ current # NoJob
  /\ UNCHANGED <<queueVars, current, freeSwaps, audit, failures, crashes>>
  /\ \/ step = "balance" /\ step' = "store" /\ UNCHANGED <<receipt, relayed>>
     \/ /\ step = "store" /\ relayed' = relayed
        /\ \/ current \in ToWBAN /\ step' = "storing" /\ receipt' \in ReceiptsOf(current) \ submitted
           \/ current \in ToBAN /\ step' = "storing" /\ receipt' = receipt
           \/ /\ current \in ToBAN /\ step' = "result" /\ receipt' = receipt
              /\ IsRecorded(CreditOf(current))
     \/ /\ step = "storing" /\ UNCHANGED <<receipt, relayed>>
        /\ \/ current \in ToWBAN /\ step' = "count" /\ IsRecorded(receipt)
           \/ current \in ToBAN /\ step' = "result" /\ IsRecorded(CreditOf(current))
     \/ /\ step = "count" /\ current \in ToWBAN /\ UNCHANGED <<receipt, relayed>>
        /\ (step' = "relay" /\ IsFirstWrap(current)) \/ step' = "result"
     \/ /\ step = "relay" /\ current \in ToWBAN \cup Gasless /\ step' = "wait" /\ receipt' = receipt
        /\ Relays
     \/ /\ step = "wait" /\ relayed[CurrentTx] = "mined" /\ UNCHANGED <<receipt, relayed>>
        /\ \/ current \in ToWBAN /\ step' = "result"
           \/ current \in Gasless /\ step' = "free"

(* Its job fails, by a trouble or because it cannot be done.               *)
Fails ==
  /\ current # NoJob /\ JobEnds({"delayed", "failed"})
  /\ UNCHANGED <<freeSwaps, audit, crashes>>
  /\ \/ failures' = failures + 1 /\ (relayed' = relayed \/ Relays)
     \/ /\ UNCHANGED <<failures, relayed>>
        /\ \/ step = "balance"
           \/ step = "result" /\ current \in ToBAN
           \/ step = "storing" /\ pc[Worker] # "idle" /\ ~IsRecorded(req[Worker])
           \/ step = "wait" /\ relayed[CurrentTx] = "failed"

(* Its job completes.                                                      *)
Returns ==
  /\ current # NoJob /\ JobEnds({"completed"})
  /\ UNCHANGED <<audit, relayed, failures, crashes>>
  /\ \/ step = "result" /\ freeSwaps' = freeSwaps
     \/ /\ step = "free" /\ current \in Gasless
        /\ freeSwaps' = freeSwaps \cup {Lower[current.wallet]}

Dies ==
  /\ current' = NoJob /\ step' = "none" /\ receipt' = NoRequest
  /\ crashes' = crashes + 1
  /\ \A i \in Jobs : job'[i] = "completed" <=> job[i] = "completed"
  /\ UNCHANGED <<made, relayed, freeSwaps, audit, failures>>

LEMMA Idle ==
  ASSUME TypeOK, UNCHANGED <<queueVars, workerVars, freeSwaps, crashes>>,
         failures' = failures \/ failures' = failures + 1,
         relayed' = relayed \/ \E t \in TxIds : Settles(t)
  PROVE  Idles
<1>1. \A i \in Jobs : made[i] \in Int
  BY DEF TypeOK, Attempts
<1>2. failures \in Nat
  BY DEF TypeOK
<1> QED BY <1>1, <1>2 DEF Idles, queueVars, workerVars

LEMMA WorkMoves ==
  ASSUME TypeOK, WorkerInv, CallInv, ReceiptInv, AttemptsInv, FiniteInv, LockInv, [Next]_vars
  PROVE  Idles \/ Begins \/ Proceeds \/ Fails \/ Returns \/ Dies
<1>t. /\ job \in [Jobs -> JobStates] /\ made \in [Jobs -> 0..Attempts]
      /\ \A i \in Jobs : made[i] \in Int
      /\ failures \in Nat /\ crashes \in Nat
  BY DEF TypeOK, Attempts
<1>1. ASSUME NEW j \in Jobs, addJob(j) \/ Promote(j) PROVE Idles
  <2>1. /\ JobWaits(j)
        /\ UNCHANGED <<storageVars, made, workerVars, chainVars, freeSwaps, boundVars>>
    BY <1>1, addJobDoes, PromoteDoes
  <2>2. \A i \in Jobs : job'[i] = "completed" <=> job[i] = "completed"
    BY <2>1 DEF JobWaits
  <2> QED BY <1>t, <2>1, <2>2 DEF Idles, workerVars, chainVars, boundVars
<1>2. ASSUME NEW j \in Jobs, StartJob(j) PROVE Idles \/ Begins
  <2>0. /\ current = NoJob /\ step = "none" /\ job[j] = "waiting"
        /\ \A i \in Jobs : i # j => job'[i] = job[i] /\ made'[i] = made[i]
        /\ UNCHANGED <<storageVars, receipt, chainVars, freeSwaps, asked, crashes>>
        /\ failures' = failures \/ failures' = failures + 1
    BY <1>2, StartJobDoes
  <2>1. CASE /\ job'[j] \in {"delayed", "failed"} /\ made'[j] = made[j] + 1
             /\ UNCHANGED <<current, step>>
    <3>1. \A i \in Jobs : /\ made'[i] >= made[i]
                          /\ job'[i] = "completed" <=> job[i] = "completed"
      BY <1>t, <2>0, <2>1
    <3> QED BY <1>t, <2>0, <2>1, <3>1 DEF Idles, chainVars
  <2>2. CASE /\ job'[j] = "active" /\ made' = made /\ current' = j /\ ~Refuses(j)
             /\ failures' = failures
             /\ \/ j \in ToWBAN /\ step' = "balance"
                \/ j \in ToBAN /\ step' = "store"
                \/ j \in Gasless /\ step' = "relay"
    <3>1. \A i \in Jobs : job'[i] = "completed" <=> job[i] = "completed"
      BY <2>0, <2>2
    <3>2. j \in Gasless => Lower[j.wallet] \notin freeSwaps
      BY <2>2 DEF Refuses, isFreeSwapAlreadyDone
    <3> QED BY <2>0, <2>2, <3>1, <3>2 DEF Begins, storageVars, chainVars
  <2> QED BY <1>2, <2>0, <2>1, <2>2, StartJobDoes
<1>3. CASE ReadBalance \/ StorageStep
  <2>1. UNCHANGED <<queueVars, workerVars, chainVars, freeSwaps, boundVars>>
    BY <1>3 DEF ReadBalance, StorageStep
  <2> QED BY <2>1, Idle DEF chainVars, boundVars
<1>4. CASE BalanceRead
  <2>1. UNCHANGED <<chainVars, freeSwaps, boundVars, audit>> /\ current # NoJob
    BY <1>4, BalanceReadDoes, Job
  <2>2. CASE step = "balance" /\ step' = "store" /\ UNCHANGED <<queueVars, current, receipt>>
    BY <2>1, <2>2 DEF Proceeds, chainVars, boundVars
  <2>3. CASE step = "balance" /\ JobEnds({"delayed", "failed"})
    BY <2>1, <2>3 DEF Fails, chainVars, boundVars
  <2>4. CASE step = "result" /\ JobEnds({"completed"})
    BY <2>1, <2>4 DEF Returns, chainVars, boundVars
  <2> QED BY <1>4, <2>2, <2>3, <2>4, BalanceReadDoes
<1>5. CASE StoreSwap
  BY <1>5, StoreSwapDoes DEF Proceeds, chainVars, boundVars
<1>6. CASE StorageFails
  <2>0. /\ pc[Worker] # "idle" /\ UNCHANGED <<chainVars, freeSwaps, asked, crashes, audit>>
    BY <1>6, StorageFailsDoes
  <2>1. CASE JobEnds({"delayed", "failed"}) /\ failures' = failures + 1
    BY <2>0, <2>1, CallOf DEF Fails, chainVars
  <2>2. CASE /\ JobEnds({"delayed", "failed"}) /\ failures' = failures
             /\ pc[Worker] \in {"waiting", "waiting-swaps"}
    <3>1. /\ current # NoJob
          /\ step \in {"balance", "result"} \/ step = "storing"
          /\ step = "result" => pc[Worker] = "waiting"
      BY <2>0, <2>2, CallOf DEF CallInv
    <3>2. step = "storing" => ~IsRecorded(req[Worker])
      BY <2>2 DEF CallInv
    <3>3. step = "result" => current \in ToBAN
      BY <3>1, Job, Kinds DEF LockInv, WorkerInv
    <3> QED BY <2>0, <2>2, <3>1, <3>2, <3>3 DEF Fails, chainVars
  <2>3. CASE UNCHANGED <<queueVars, workerVars>> /\ failures' = failures + 1
    BY <2>0, <2>3, Idle DEF chainVars
  <2> QED BY <1>6, <2>1, <2>2, <2>3, StorageFailsDoes
<1>7. CASE StoreEnds
  <2>0. /\ step = "storing" /\ current # NoJob /\ pc[Worker] # "idle"
        /\ UNCHANGED <<chainVars, freeSwaps, boundVars, audit>>
    BY <1>7, StoreEndsDoes, Job
  <2>1. CASE /\ IsRecorded(req[Worker]) /\ UNCHANGED <<queueVars, current, receipt>>
             /\ \/ current \in ToWBAN /\ step' = "count" /\ req[Worker] = receipt
                \/ current \in ToBAN /\ step' = "result" /\ req[Worker] = CreditOf(current)
    BY <2>0, <2>1 DEF Proceeds, chainVars, boundVars
  <2>2. CASE ~IsRecorded(req[Worker]) /\ JobEnds({"delayed", "failed"})
    BY <2>0, <2>2 DEF Fails, chainVars, boundVars
  <2> QED BY <1>7, <2>1, <2>2, StoreEndsDoes
<1>8. CASE CountSwaps
  <2>1. current # NoJob /\ audit' = audit
    BY <1>8, CountSwapsDoes, Job DEF storageVars
  <2> QED BY <1>8, <2>1, CountSwapsDoes DEF Proceeds, chainVars, boundVars
<1>9. CASE Relay
  <2>1. Relays
    <3>1. /\ step = "relay" /\ minted' = minted /\ current # NoJob
          /\ relayed' = [relayed EXCEPT ![NextTx] = "pending"]
      BY <1>9, RelayDoes
    <3>2. NextTx \in TxIds /\ relayed[NextTx] = "none"
      BY <3>1, RelaysTx
    <3>3. /\ relayed'[NextTx] = "pending"
          /\ \A u \in TxIds : u # NextTx => relayed'[u] = relayed[u]
      BY <3>1, <3>2 DEF TypeOK
    <3> QED BY <1>9, <3>1, <3>2, <3>3 DEF Relays
  <2>2. /\ step = "relay" /\ current # NoJob /\ current \in ToWBAN \cup Gasless
        /\ UNCHANGED <<storageVars, freeSwaps, crashes>>
    BY <1>9, RelayDoes
  <2>3. CASE step' = "wait" /\ UNCHANGED <<queueVars, current, receipt, failures>>
    BY <2>1, <2>2, <2>3 DEF Proceeds, storageVars
  <2>4. CASE JobEnds({"delayed", "failed"}) /\ failures' = failures + 1
    BY <2>1, <2>2, <2>4 DEF Fails, storageVars
  <2> QED BY <1>9, <2>3, <2>4, RelayDoes
<1>10. CASE waitForRelayedTx
  BY <1>10, WaitDoes DEF Proceeds, Fails, storageVars, chainVars, boundVars
<1>11. CASE storeFreeSwap
  <2>1. current # NoJob
    BY <1>11, StoreFreeSwapDoes, Callers, Kinds
  <2> QED BY <1>11, <2>1, StoreFreeSwapDoes DEF Returns, storageVars, chainVars, boundVars
<1>12. CASE RequestFails
  BY <1>12, RequestFailsDoes DEF Fails, storageVars, chainVars
<1>13. CASE \E t \in TxIds : SettleTx(t)
  <2>1. PICK t \in TxIds : Settles(t)
    BY <1>13, SettleTxDoes DEF Settles
  <2> QED BY <2>1, Idle DEF Settles, boundVars
<1>14. CASE \/ \E r \in Receipts : UserMints(r)
            \/ \E b \in ToBAN : UserBurns(b)
            \/ \E k \in Storage!LockNames : ExpireLock(k)
            \/ UNCHANGED vars
  BY <1>14, Idle DEF UserMints, UserBurns, ExpireLock, chainVars, boundVars, vars
<1>15. CASE CrashRestart
  <2>1. \A i \in Jobs : job'[i] = "completed" <=> job[i] = "completed"
    BY <1>15, CrashDoes
  <2> QED BY <1>15, <2>1, CrashDoes DEF Dies, chainVars
<1> QED BY <1>1, <1>2, <1>3, <1>4, <1>5, <1>6, <1>7, <1>8, <1>9, <1>10, <1>11, <1>12, <1>13,
           <1>14, <1>15 DEF Next, WorkerStep

-----------------------------------------------------------------------------
(* Mints.                                                                  *)

(* A receipt that is relayed is the only recorded one of its wallet.       *)
LEMMA FirstOfItsWallet ==
  ASSUME TypeOK, ReceiptInv, FiniteInv, current \in ToWBAN, step = "count", IsFirstWrap(current)
  PROVE  \A r \in Receipts : Lower[r.address] = Lower[current.wallet] => relayed[r] = "none"
<1>1. /\ receipt \in Receipts /\ receipt.address = current.wallet /\ IsRecorded(receipt)
      /\ relayed[receipt] = "none"
  BY Callers DEF ReceiptInv, ReceiptsOf
<1>2. ASSUME NEW r \in Receipts, Lower[r.address] = Lower[current.wallet], IsRecorded(r)
      PROVE  Storage!EventOf(r) \in getSwaps(current)
  BY <1>2, Callers DEF getSwaps, IsRecorded, Storage!EventOf
<1>3. PICK x : getSwaps(current) = {x}
  <2>1. IsFiniteSet(getSwaps(current))
    BY FS_Subset DEF FiniteInv, getSwaps
  <2> QED BY <2>1, FS_Singleton DEF IsFirstWrap
<1>4. ASSUME NEW r \in Receipts, Lower[r.address] = Lower[current.wallet], IsRecorded(r)
      PROVE  r = receipt
  <2>1. Storage!EventOf(r) = Storage!EventOf(receipt)
    BY <1>1, <1>2, <1>3, <1>4
  <2> QED BY <1>1, <2>1, EventsDiffer, Callers
<1> QED BY <1>1, <1>4 DEF ReceiptInv

LEMMA MintStep ==
  ASSUME TypeOK, WorkerInv, CallInv, ReceiptInv, AttemptsInv, FiniteInv, LockInv, MintInv,
         [Next]_vars
  PROVE  MintInv'
<1>0. Receipts \subseteq TxIds
  BY TxKinds
<1>r. Relays => current # NoJob /\ current \in ToWBAN \cup Gasless /\ step = "relay"
  BY RelayDoes DEF Relays
<1>1. ASSUME NEW r \in Receipts, NEW q \in Receipts, relayed'[r] # "none", relayed'[q] # "none",
             Lower[r.address] = Lower[q.address]
      PROVE  r = q
  <2>1. CASE Relays
    <3>1. CASE current \in ToWBAN
      <4>1. NextTx = receipt /\ receipt \in Receipts /\ receipt.address = current.wallet
        BY <1>r, <2>1, <3>1, RelaysTx DEF ReceiptsOf
      <4>2. \A s \in Receipts : s # receipt => relayed'[s] = relayed[s]
        BY <1>0, <2>1, <4>1 DEF Relays
      <4>3. \A s \in Receipts : Lower[s.address] = Lower[receipt.address] => relayed[s] = "none"
        BY <1>r, <2>1, <3>1, <4>1 DEF MintInv
      <4>4. relayed[r] # "none" /\ relayed[q] # "none" => r = q
        BY <1>1 DEF MintInv
      <4> QED BY <1>1, <4>2, <4>3, <4>4
    <3>2. CASE current \in Gasless
      <4>1. NextTx \notin Receipts
        BY <1>r, <2>1, <3>2, RelaysTx
      <4>2. \A s \in Receipts : relayed'[s] = relayed[s]
        BY <1>0, <2>1, <4>1 DEF Relays
      <4> QED BY <1>1, <4>2 DEF MintInv
    <3> QED BY <1>r, <2>1, <3>1, <3>2
  <2>2. ASSUME NEW t \in TxIds, Settles(t) PROVE r = q
    <3>1. relayed[r] # "none" /\ relayed[q] # "none"
      BY <1>0, <1>1, <2>2 DEF Settles
    <3> QED BY <1>1, <3>1 DEF MintInv
  <2>3. CASE relayed' = relayed
    BY <1>1, <2>3 DEF MintInv
  <2> QED BY <2>1, <2>2, <2>3, ChainMoves
<1>2. ASSUME step' = "relay", current' \in ToWBAN, NEW r \in Receipts,
             Lower[r.address] = Lower[current'.wallet]
      PROVE  relayed'[r] = "none"
  <2>1. CASE Idles
    <3>1. relayed[r] = "none"
      BY <1>2, <2>1 DEF Idles, MintInv
    <3> QED BY <1>0, <2>1, <3>1 DEF Idles, Settles
  <2>2. CASE Proceeds
    <3>1. step = "count" /\ IsFirstWrap(current) /\ current' = current /\ relayed' = relayed
      BY <1>2, <2>2 DEF Proceeds
    <3> QED BY <1>2, <3>1, FirstOfItsWallet
  <2>3. CASE Begins
    BY <1>2, <2>3, Kinds DEF Begins
  <2>4. CASE Fails \/ Returns \/ Dies
    BY <1>2, <2>4 DEF Fails, Returns, Dies, JobEnds
  <2> QED BY <2>1, <2>2, <2>3, <2>4, WorkMoves
<1> QED BY <1>1, <1>2 DEF MintInv

-----------------------------------------------------------------------------
(* Transactions of gasless swaps.                                          *)
LEMMA FreeTxsMove ==
  ASSUME TypeOK, WorkerInv, CallInv, ReceiptInv, AttemptsInv, FiniteInv, [Next]_vars,
         NEW g \in Gasless
  PROVE  /\ ~ (Relays /\ current = g) => FreeTxsOf(g)' = FreeTxsOf(g)
         /\ Relays /\ current = g =>
              /\ FreeTxsOf(g)' = FreeTxsOf(g) \cup {NextTx} /\ NextTx \notin FreeTxsOf(g)
              /\ Cardinality(FreeTxsOf(g)') = Cardinality(FreeTxsOf(g)) + 1
<1>0. FreeTxs \subseteq TxIds
  BY TxKinds
<1>r. Relays => current # NoJob /\ current \in ToWBAN \cup Gasless /\ step = "relay"
  BY RelayDoes DEF Relays
<1>1. CASE Relays /\ current = g
  <2>1. NextTx \in FreeTxs /\ NextTx.swap = g
    BY <1>1, <1>r, RelaysTx
  <2>2. FreeTxsOf(g)' = FreeTxsOf(g) \cup {NextTx} /\ NextTx \notin FreeTxsOf(g)
    BY <1>0, <1>1, <2>1 DEF FreeTxsOf, Relays
  <2> QED BY <1>1, <2>2, Counted, FS_AddElement
<1>2. CASE Relays /\ current # g
  <2>1. NextTx \notin FreeTxs \/ NextTx.swap # g
    BY <1>2, <1>r, RelaysTx, TxKinds
  <2>2. FreeTxsOf(g)' = FreeTxsOf(g)
    BY <1>0, <1>2, <2>1 DEF FreeTxsOf, Relays
  <2> QED BY <1>2, <2>2
<1>3. CASE ~Relays
  <2>1. CASE relayed' = relayed
    BY <1>3, <2>1 DEF FreeTxsOf
  <2>2. ASSUME NEW t \in TxIds, Settles(t) PROVE FreeTxsOf(g)' = FreeTxsOf(g)
    BY <1>0, <2>2 DEF FreeTxsOf, Settles
  <2> QED BY <1>3, <2>1, <2>2, ChainMoves
<1> QED BY <1>1, <1>2, <1>3

(* Whether the transaction of the current attempt is still to be counted.  *)
Pending(g) == job[g] = "completed" \/ (current = g /\ step \in {"wait", "free"})

LEMMA AttemptsParts ==
  ASSUME AttemptsInv, NEW g \in Gasless
  PROVE  Cardinality(FreeTxsOf(g)) <= made[g] + crashes + (IF Pending(g) THEN 1 ELSE 0)
BY DEF AttemptsInv, Pending

LEMMA CurrentTxStays ==
  ASSUME TypeOK, WorkerInv, CallInv, ReceiptInv, AttemptsInv, FiniteInv, [Next]_vars,
         UNCHANGED <<current, receipt>>, ~Relays, current \in ToWBAN \cup Gasless
  PROVE  CurrentTx' = CurrentTx
<1>1. CASE current \in ToWBAN
  BY <1>1 DEF CurrentTx
<1>2. CASE current \in Gasless
  <2>1. FreeTxsOf(current)' = FreeTxsOf(current)
    <3>1. PICK g \in Gasless : g = current
      BY <1>2
    <3>2. FreeTxsOf(g)' = FreeTxsOf(g)
      BY FreeTxsMove
    <3>3. FreeTxsOf(current)' = FreeTxsOf(g)'
      BY <3>1 DEF FreeTxsOf
    <3> QED BY <3>1, <3>2, <3>3
  <2>2. current \notin ToWBAN
    BY <1>2, Kinds
  <2> QED BY <2>1, <2>2 DEF CurrentTx
<1> QED BY <1>1, <1>2

(* What was just relayed is what is waited for next.                       *)
LEMMA WaitsForNext ==
  ASSUME TypeOK, WorkerInv, CallInv, ReceiptInv, AttemptsInv, FiniteInv, [Next]_vars,
         Relays, UNCHANGED <<current, receipt>>
  PROVE  CurrentTx' = NextTx
<1>r. current # NoJob /\ current \in ToWBAN \cup Gasless /\ step = "relay"
  BY RelayDoes DEF Relays
<1>1. CASE current \in ToWBAN
  BY <1>1 DEF CurrentTx, NextTx
<1>2. CASE current \in Gasless
  <2>1. PICK g \in Gasless : g = current
    BY <1>2
  <2>2. Cardinality(FreeTxsOf(g)') = Cardinality(FreeTxsOf(g)) + 1
    BY <2>1, FreeTxsMove
  <2>3. Cardinality(FreeTxsOf(current))' = Cardinality(FreeTxsOf(current)) + 1
    <3>1. FreeTxsOf(current)' = FreeTxsOf(g)'
      BY <2>1 DEF FreeTxsOf
    <3> QED BY <2>1, <2>2, <3>1
  <2>4. current \notin ToWBAN
    BY <1>2, Kinds
  <2> QED BY <2>3, <2>4 DEF CurrentTx, NextTx
<1> QED BY <1>r, <1>1, <1>2

LEMMA RelaysMoves ==
  ASSUME TypeOK, WorkerInv, Relays
  PROVE  /\ current # NoJob /\ current \in ToWBAN \cup Gasless /\ step = "relay"
         /\ step' # step /\ UNCHANGED <<freeSwaps, crashes>> /\ ~Idles /\ ~Begins /\ ~Returns
BY RelayDoes DEF Relays, JobEnds, Idles, Begins, Returns

LEMMA AttemptsStep ==
  ASSUME TypeOK, WorkerInv, CallInv, ReceiptInv, AttemptsInv, FiniteInv, LockInv, [Next]_vars
  PROVE  AttemptsInv'
<1>0. FreeTxs \subseteq TxIds /\ \A t \in FreeTxs : t.swap \in Gasless /\ t.attempt \in Int
  BY TxKinds, SwapsAssumption DEF FreeTxs, Attempts
<1>t. /\ crashes \in Nat /\ \A g \in Gasless : made[g] \in Nat
      /\ \A g \in Gasless : Cardinality(FreeTxsOf(g)) \in Nat
  BY Counted, Kinds DEF TypeOK, Attempts
<1>1. ASSUME NEW t \in FreeTxs
      PROVE  relayed'[t] # "none" <=> t.attempt <= Cardinality(FreeTxsOf(t.swap))'
  <2> DEFINE g == t.swap
             n == Cardinality(FreeTxsOf(g))
  <2>0. g \in Gasless /\ n \in Nat /\ t.attempt \in Int /\ t \in TxIds
    BY <1>0, <1>t
  <2>1. relayed[t] # "none" <=> t.attempt <= n
    BY DEF AttemptsInv
  <2>2. CASE Relays /\ current = g
    <3>1. Cardinality(FreeTxsOf(g)') = n + 1
      BY <2>0, <2>2, FreeTxsMove
    <3>2. NextTx.swap = g /\ NextTx.attempt = n + 1 /\ NextTx \in FreeTxs
      BY <2>0, <2>2, RelaysMoves, RelaysTx
    <3>3. t = NextTx <=> t.attempt = n + 1
      <4>1. \A x, y \in FreeTxs : x.swap = y.swap /\ x.attempt = y.attempt => x = y
        BY DEF FreeTxs
      <4> QED BY <3>2, <4>1
    <3>4. relayed'[t] # "none" <=> t = NextTx \/ relayed[t] # "none"
      BY <2>0, <2>2 DEF Relays
    <3> HIDE DEF n, g
    <3>5. relayed'[t] # "none" <=> t.attempt <= n + 1
      BY <2>0, <2>1, <3>3, <3>4
    <3> QED BY <3>1, <3>5 DEF g
  <2>3. CASE ~ (Relays /\ current = g)
    <3>1. FreeTxsOf(g)' = FreeTxsOf(g)
      BY <2>0, <2>3, FreeTxsMove
    <3>2. relayed'[t] # "none" <=> relayed[t] # "none"
      <4>1. CASE Relays
        <5>1. NextTx # t
          <6>1. current # g
            BY <2>3, <4>1
          <6> QED BY <1>0, <4>1, <6>1, RelaysMoves, RelaysTx, TxKinds
        <5> QED BY <2>0, <4>1, <5>1 DEF Relays
      <4>2. CASE \E u \in TxIds : Settles(u)
        BY <2>0, <4>2 DEF Settles
      <4>3. CASE relayed' = relayed
        BY <4>3
      <4> QED BY <4>1, <4>2, <4>3, ChainMoves
    <3> QED BY <2>1, <3>1, <3>2
  <2> QED BY <2>2, <2>3
<1>2. ASSUME NEW g \in Gasless
      PROVE  Cardinality(FreeTxsOf(g))' <= made'[g] + crashes' + (IF Pending(g)' THEN 1 ELSE 0)
  <2> DEFINE c == Cardinality(FreeTxsOf(g))
             d == Cardinality(FreeTxsOf(g)')
  <2>0. /\ c \in Nat /\ made[g] \in Nat /\ crashes \in Nat /\ g \in Jobs /\ g # NoJob
        /\ c <= made[g] + crashes + (IF Pending(g) THEN 1 ELSE 0)
    BY <1>t, AttemptsParts, Kinds, Callers
  <2>1. /\ ~ (Relays /\ current = g) => d = c
        /\ Relays /\ current = g => d = c + 1
    BY FreeTxsMove
  <2>2. job[g] = "completed" => current # g
    BY Job, Kinds, <2>0
  <2> SUFFICES d <= made'[g] + crashes' + (IF Pending(g)' THEN 1 ELSE 0)
    OBVIOUS
  <2> HIDE DEF c, d
  <2>3. CASE Idles
    <3>1. d = c /\ made'[g] >= made[g] /\ crashes' = crashes /\ (Pending(g)' <=> Pending(g))
      BY <2>0, <2>1, <2>3, RelaysMoves DEF Idles, Pending
    <3>2. made'[g] \in Nat
      BY <2>0, TypesStep DEF TypeOK, Attempts
    <3> QED BY <2>0, <3>1, <3>2
  <2>4. CASE Begins
    <3>1. d = c /\ made' = made /\ crashes' = crashes /\ (Pending(g)' <=> Pending(g))
      BY <2>0, <2>1, <2>4, RelaysMoves DEF Begins, Pending
    <3> QED BY <2>0, <3>1
  <2>5. CASE Proceeds
    <3>0. made' = made /\ crashes' = crashes /\ job' = job /\ current' = current
      BY <2>5 DEF Proceeds, queueVars
    <3>1. CASE Relays /\ current = g
      <4>1. step = "relay" /\ step' = "wait"
        BY <2>5, <3>1, RelaysMoves DEF Proceeds
      <4>2. ~Pending(g) /\ Pending(g)'
        BY <2>2, <3>0, <3>1, <4>1 DEF Pending
      <4> QED BY <2>0, <2>1, <3>0, <3>1, <4>2
    <3>2. CASE ~ (Relays /\ current = g)
      <4>1. Pending(g) => Pending(g)'
        BY <2>5, <3>0, Kinds DEF Pending, Proceeds
      <4> QED BY <2>0, <2>1, <3>0, <3>2, <4>1
    <3> QED BY <3>1, <3>2
  <2>6. CASE Fails
    <3>1. CASE current = g
      <4>1. made'[g] = made[g] + 1 /\ crashes' = crashes
        BY <2>6, <3>1 DEF Fails, JobEnds
      <4>2. Relays => ~Pending(g)
        BY <2>2, <3>1, RelaysMoves DEF Pending
      <4> QED BY <2>0, <2>1, <4>1, <4>2
    <3>2. CASE current # g
      <4>1. made'[g] = made[g] /\ crashes' = crashes /\ (Pending(g)' <=> Pending(g))
        BY <2>0, <2>6, <3>2 DEF Fails, JobEnds, Pending
      <4> QED BY <2>0, <2>1, <3>2, <4>1
    <3> QED BY <3>1, <3>2
  <2>7. CASE Returns
    <3>0. d = c /\ crashes' = crashes
      BY <2>1, <2>7, RelaysMoves DEF Returns
    <3>1. CASE current = g
      <4>1. Pending(g)' /\ made'[g] >= made[g]
        BY <2>7, <3>1 DEF Returns, JobEnds, Pending
      <4>2. made'[g] \in Nat
        BY <2>0, TypesStep DEF TypeOK, Attempts
      <4> QED BY <2>0, <3>0, <4>1, <4>2
    <3>2. CASE current # g
      <4>1. made'[g] = made[g] /\ (Pending(g)' <=> Pending(g))
        BY <2>0, <2>7, <3>2 DEF Returns, JobEnds, Pending
      <4> QED BY <2>0, <3>0, <4>1
    <3> QED BY <3>1, <3>2
  <2>8. CASE Dies
    <3>1. d = c /\ made' = made /\ crashes' = crashes + 1
      BY <2>0, <2>1, <2>8, RelaysMoves DEF Dies
    <3> QED BY <2>0, <3>1
  <2> QED BY <2>3, <2>4, <2>5, <2>6, <2>7, <2>8, WorkMoves
<1>3. ASSUME step' \in {"wait", "free"} PROVE CurrentTx' \in TxIds /\ relayed'[CurrentTx'] # "none"
  <2>1. CASE Idles
    <3>1. UNCHANGED <<current, step, receipt>> /\ ~Relays
          /\ (relayed' = relayed \/ \E t \in TxIds : Settles(t))
      BY <2>1, RelaysMoves DEF Idles
    <3>2. current \in ToWBAN \cup Gasless
      BY <1>3, <3>1, Job, Kinds DEF WorkerInv
    <3>3. CurrentTx' = CurrentTx /\ CurrentTx \in TxIds /\ relayed[CurrentTx] # "none"
      BY <1>3, <3>1, <3>2, CurrentTxStays DEF AttemptsInv
    <3> QED BY <3>1, <3>3 DEF Settles
  <2>2. CASE Proceeds
    <3>1. CASE Relays /\ UNCHANGED <<current, receipt>>
      BY <3>1, WaitsForNext DEF Relays
    <3>2. CASE /\ step = "wait" /\ UNCHANGED <<current, receipt, relayed>>
      <4>1. current \in ToWBAN \cup Gasless /\ ~Relays
        BY <3>2, Job, Kinds, RelaysMoves DEF WorkerInv
      <4>2. CurrentTx' = CurrentTx /\ CurrentTx \in TxIds /\ relayed[CurrentTx] # "none"
        BY <3>2, <4>1, CurrentTxStays DEF AttemptsInv
      <4> QED BY <3>2, <4>2
    <3> QED BY <1>3, <2>2, <3>1, <3>2 DEF Proceeds
  <2>3. CASE Begins \/ Fails \/ Returns \/ Dies
    BY <1>3, <2>3 DEF Begins, Fails, Returns, Dies, JobEnds
  <2> QED BY <2>1, <2>2, <2>3, WorkMoves
<1> QED BY <1>1, <1>2, <1>3 DEF AttemptsInv, Pending

-----------------------------------------------------------------------------
(* Arithmetic of bounds on troubles: sums, and bounds that grow with them. *)
LEMMA SumsGrow ==
  \A i, j, k, l \in Nat : i <= k /\ j <= l => i + j <= k + l
OBVIOUS

LEMMA StaysWithin ==
  \A n, m, i, j, k, l, g \in Nat :
    n <= m /\ m <= i + j + g /\ i + j <= k + l => n <= k + l + g
OBVIOUS

LEMMA LessIsWithin ==
  \A n, m, i, j, k, l, g \in Nat :
    n = m - 1 /\ m <= i + j + 1 /\ i + j <= k + l => n <= k + l + g
OBVIOUS

(* A slack of one that is lost must have been made up for.                 *)
LEMMA SlackMadeUp ==
  \A d, i, j, f, s, k, l, g, t \in Nat :
    /\ d <= i + j + f + s /\ i <= k /\ j <= l /\ f <= g
    /\ s <= t \/ (s = 1 /\ (k = i + 1 \/ l = j + 1 \/ g = f + 1))
    => d <= k + l + g + t
OBVIOUS

LEMMA SlackTaken ==
  \A d, i, j, f, k, l, g \in Nat :
    d <= i + j + f + 0 /\ i <= k /\ j <= l /\ f <= g => d + 1 <= k + l + g + 1
OBVIOUS

(* What free swaps cost.                                                   *)
LEMMA MayCostMoves ==
  ASSUME TypeOK, WorkerInv, CallInv, ReceiptInv, AttemptsInv, FiniteInv, [Next]_vars, NEW a
  PROVE  /\ ~ (Relays /\ current \in Gasless /\ Lower[current.wallet] = a) =>
              Cardinality(MayCost(a)') <= Cardinality(MayCost(a))
         /\ Relays /\ current \in Gasless /\ Lower[current.wallet] = a =>
              Cardinality(MayCost(a)') = Cardinality(MayCost(a)) + 1
         /\ \A t \in MayCost(a) :
              Settles(t) /\ relayed'[t] = "failed" =>
                Cardinality(MayCost(a)') = Cardinality(MayCost(a)) - 1
<1>0. FreeTxs \subseteq TxIds /\ IsFiniteSet(MayCost(a)) /\ Cardinality(MayCost(a)) \in Nat
  BY TxKinds, Counted
<1>1. CASE Relays
  <2>1. relayed[NextTx] = "none" /\ relayed'[NextTx] = "pending"
        /\ \A u \in TxIds : u # NextTx => relayed'[u] = relayed[u]
    BY <1>1 DEF Relays
  <2>2. CASE current \in Gasless /\ Lower[current.wallet] = a
    <3>1. NextTx \in FreeTxs /\ NextTx.swap = current
      BY <1>1, <2>2, RelaysMoves, RelaysTx
    <3>2. MayCost(a)' = MayCost(a) \cup {NextTx} /\ NextTx \notin MayCost(a)
      BY <1>0, <2>1, <2>2, <3>1 DEF MayCost
    <3>3. Cardinality(MayCost(a)') = Cardinality(MayCost(a)) + 1
      BY <1>0, <3>2, FS_AddElement
    <3>4. \A t \in MayCost(a) : ~Settles(t)
      BY <1>0, <2>1 DEF Settles, MayCost
    <3> QED BY <1>1, <2>2, <3>3, <3>4
  <2>3. CASE ~ (current \in Gasless /\ Lower[current.wallet] = a)
    <3>1. NextTx \notin FreeTxs \/ Lower[NextTx.swap.wallet] # a
      BY <1>1, <2>3, RelaysMoves, RelaysTx, TxKinds
    <3>2. MayCost(a)' = MayCost(a)
      BY <1>0, <2>1, <3>1 DEF MayCost
    <3>3. \A t \in MayCost(a) : ~Settles(t)
      BY <1>0, <2>1 DEF Settles, MayCost
    <3> QED BY <1>0, <2>3, <3>2, <3>3
  <2> QED BY <2>2, <2>3
<1>2. ASSUME NEW t \in TxIds, Settles(t), ~Relays
      PROVE  /\ Cardinality(MayCost(a)') <= Cardinality(MayCost(a))
             /\ t \in MayCost(a) /\ relayed'[t] = "failed" =>
                  Cardinality(MayCost(a)') = Cardinality(MayCost(a)) - 1
  <2>1. CASE t \in MayCost(a) /\ relayed'[t] \in {"failed", "expired"}
    <3>1. MayCost(a)' = MayCost(a) \ {t}
      BY <1>0, <1>2, <2>1 DEF MayCost, Settles
    <3>2. Cardinality(MayCost(a)') = Cardinality(MayCost(a)) - 1
      BY <1>0, <2>1, <3>1, FS_RemoveElement
    <3> QED BY <1>0, <3>2
  <2>2. CASE ~ (t \in MayCost(a) /\ relayed'[t] \in {"failed", "expired"})
    <3>1. MayCost(a)' = MayCost(a)
      BY <1>0, <1>2, <2>2 DEF MayCost, Settles
    <3> QED BY <1>0, <2>2, <3>1
  <2> QED BY <2>1, <2>2
<1>3. CASE relayed' = relayed
  <2>1. MayCost(a)' = MayCost(a) /\ ~Relays /\ \A t \in MayCost(a) : ~Settles(t)
    BY <1>0, <1>3 DEF MayCost, Relays, Settles
  <2> QED BY <1>0, <2>1
<1>4. ASSUME NEW t \in TxIds, Settles(t), ~Relays
      PROVE  \A u \in MayCost(a) : Settles(u) => u = t
  BY <1>0, <1>4 DEF MayCost, Settles
<1> QED BY <1>1, <1>2, <1>3, <1>4, ChainMoves

LEMMA FreeStep ==
  ASSUME TypeOK, WorkerInv, CallInv, ReceiptInv, AttemptsInv, FiniteInv, LockInv, FreeInv,
         [Next]_vars
  PROVE  FreeInv'
<1> SUFFICES ASSUME NEW a \in Storage!Wallets
             PROVE  Cardinality(MayCost(a)') <= failures' + crashes' + (IF Granted(a)' THEN 1 ELSE 0)
  BY DEF FreeInv
<1> DEFINE m == Cardinality(MayCost(a))
           n == Cardinality(MayCost(a)')
           mine == current \in Gasless /\ Lower[current.wallet] = a
<1>0. /\ m \in Nat /\ failures \in Nat /\ crashes \in Nat /\ failures' \in Nat /\ crashes' \in Nat
      /\ n \in Nat
      /\ m <= failures + crashes + (IF Granted(a) THEN 1 ELSE 0)
  <2>1. n \in Nat
    <3>1. FiniteInv'
      BY FiniteStep
    <3>2. IsFiniteSet(MayCost(a)')
      <4>1. MayCost(a)' \subseteq {t \in TxIds : relayed'[t] # "none"}
        BY TxKinds DEF MayCost
      <4> QED BY <3>1, <4>1, FS_Subset DEF FiniteInv
    <3> QED BY <3>2, FS_CardinalityType
  <2> QED BY <2>1, Counted, TroublesStep DEF FreeInv, TypeOK, TroublesType
<1>n. /\ m \in Nat /\ n \in Nat /\ failures \in Nat /\ crashes \in Nat
      /\ failures' \in Nat /\ crashes' \in Nat
  BY <1>0
<1>1. /\ ~ (Relays /\ mine) => n <= m
      /\ Relays /\ mine => n = m + 1
      /\ \A t \in MayCost(a) : Settles(t) /\ relayed'[t] = "failed" => n = m - 1
  BY MayCostMoves
<1>2. Relays /\ mine => ~Granted(a)
  BY RelaysMoves DEF Granted, WorkerInv
<1> HIDE DEF m, n
<1> SUFFICES n <= failures' + crashes' + (IF Granted(a)' THEN 1 ELSE 0)
  BY DEF n
<1>3. CASE Idles
  <2>0. ~Relays /\ UNCHANGED <<current, step, receipt, freeSwaps>>
    BY <1>3, RelaysMoves DEF Idles
  <2>a. crashes' = crashes /\ failures <= failures'
    BY <1>3, <1>n DEF Idles
  <2>b. failures + crashes <= failures' + crashes'
    <3>1. crashes <= crashes'
      BY <1>n, <2>a
    <3> QED BY <1>n, <2>a, <3>1, SumsGrow
  <2>1. CASE Granted(a) => Granted(a)'
    <3>1. n <= m
      BY <1>1, <2>0
    <3>2. m <= failures + crashes + (IF Granted(a)' THEN 1 ELSE 0)
      BY <1>0, <2>1
    <3>3. (IF Granted(a)' THEN 1 ELSE 0) \in Nat
      OBVIOUS
    <3> QED BY <1>n, <3>1, <3>2, <3>3, <2>b, StaysWithin
  <2>2. CASE Granted(a) /\ ~Granted(a)'
    <3>1. /\ mine /\ step = "wait" /\ relayed[CurrentTx] # "failed"
          /\ relayed'[CurrentTx'] = "failed"
      BY <2>0, <2>2 DEF Granted
    <3>2. CurrentTx' = CurrentTx
      BY <2>0, <3>1, CurrentTxStays
    <3>3. PICK t \in TxIds : Settles(t)
      BY <1>3, <3>1, <3>2 DEF Idles
    <3>4. CurrentTx \in FreeTxsOf(current) /\ CurrentTx \in TxIds
      BY <3>1, WaitsFor
    <3>5. t = CurrentTx
      BY <3>1, <3>2, <3>3, <3>4 DEF Settles
    <3>6. t \in MayCost(a)
      BY <3>1, <3>3, <3>4, <3>5 DEF FreeTxsOf, MayCost, Settles
    <3>7. n = m - 1
      BY <1>1, <3>1, <3>2, <3>3, <3>5, <3>6
    <3>8. m <= failures + crashes + 1
      BY <1>0
    <3>9. (IF Granted(a)' THEN 1 ELSE 0) \in Nat
      OBVIOUS
    <3> QED BY <1>n, <2>b, <3>7, <3>8, <3>9, LessIsWithin
  <2> QED BY <2>1, <2>2
<1>4. CASE Begins
  <2>1. ~Relays /\ crashes' = crashes /\ failures' = failures
    BY <1>4, RelaysMoves DEF Begins
  <2>2. Granted(a) => Granted(a)'
    BY <1>4, Callers, Kinds DEF Begins, Granted
  <2> QED BY <1>0, <1>1, <2>1, <2>2
<1>5. CASE Proceeds
  <2>0. crashes' = crashes /\ failures' = failures /\ freeSwaps' = freeSwaps /\ current' = current
    BY <1>5 DEF Proceeds
  <2>1. CASE Relays /\ mine
    <3>1. step' = "wait" /\ receipt' = receipt
      BY <1>5, <2>1, RelaysMoves DEF Proceeds
    <3>2. CurrentTx' = NextTx
      BY <2>0, <2>1, <3>1, WaitsForNext
    <3>3. relayed'[CurrentTx'] # "failed"
      BY <2>1, <3>2 DEF Relays
    <3>4. Granted(a)'
      BY <2>0, <2>1, <3>1, <3>3 DEF Granted
    <3> QED BY <1>0, <1>1, <1>2, <2>0, <2>1, <3>4
  <2>2. CASE ~ (Relays /\ mine)
    <3>1. Granted(a) => Granted(a)'
      BY <1>5, <2>0, Kinds DEF Proceeds, Granted
    <3> QED BY <1>0, <1>1, <2>0, <2>2, <3>1
  <2> QED BY <2>1, <2>2
<1>6. CASE Fails
  <2>0. crashes' = crashes /\ freeSwaps' = freeSwaps
    BY <1>6 DEF Fails
  <2>1. CASE failures' = failures + 1
    BY <1>0, <1>1, <1>2, <2>0, <2>1
  <2>2. CASE failures' = failures /\ relayed' = relayed
    <3>1. ~Relays
      BY <2>2 DEF Relays
    <3>2. Granted(a) => a \in freeSwaps
      BY <1>0, <1>6, <2>2 DEF Fails, Granted
    <3>3. Granted(a) => Granted(a)'
      BY <2>0, <3>2 DEF Granted
    <3> QED BY <1>0, <1>1, <2>0, <2>2, <3>1, <3>3
  <2> QED BY <1>6, <2>1, <2>2 DEF Fails
<1>7. CASE Returns
  <2>1. ~Relays /\ crashes' = crashes /\ failures' = failures
    BY <1>7, RelaysMoves DEF Returns
  <2>2. Granted(a) => Granted(a)'
    BY <1>7 DEF Returns, Granted
  <2> QED BY <1>0, <1>1, <2>1, <2>2
<1>8. CASE Dies
  <2>1. ~Relays /\ crashes' = crashes + 1 /\ failures' = failures
    BY <1>0, <1>8, RelaysMoves DEF Dies
  <2> QED BY <1>0, <1>1, <2>1
<1> QED BY <1>3, <1>4, <1>5, <1>6, <1>7, <1>8, WorkMoves

-----------------------------------------------------------------------------
(* Results.                                                                *)
LEMMA MinedStays ==
  ASSUME TypeOK, WorkerInv, CallInv, ReceiptInv, AttemptsInv, FiniteInv, [Next]_vars,
         NEW t \in TxIds, relayed[t] = "mined"
  PROVE  relayed'[t] = "mined"
BY ChainMoves DEF Settles, Relays

LEMMA ResultStep ==
  ASSUME TypeOK, WorkerInv, CallInv, ReceiptInv, AttemptsInv, FiniteInv, LockInv, ResultInv,
         [Next]_vars
  PROVE  ResultInv'
<1>0. ASSUME NEW j \in Jobs, job'[j] = "completed", job[j] # "completed"
      PROVE  Returns /\ current = j
  BY <1>0, WorkMoves DEF Idles, Begins, Proceeds, Fails, Returns, Dies, JobEnds, queueVars
<1>1. ASSUME NEW s \in ToWBAN, job'[s] = "completed"
      PROVE  \E r \in ReceiptsOf(s) : IsRecorded(r)'
  <2>1. CASE job[s] = "completed"
    BY <2>1, RecordedMoves DEF ResultInv
  <2>2. CASE job[s] # "completed"
    <3>1. Returns /\ current = s
      BY <1>0, <1>1, <2>2, Kinds
    <3>2. step = "result"
      BY <3>1, Kinds DEF Returns
    <3>3. receipt \in ReceiptsOf(s) /\ IsRecorded(receipt)
      BY <3>1, <3>2 DEF ReceiptInv
    <3>4. audit' = audit
      BY <3>1 DEF Returns
    <3> QED BY <3>3, <3>4 DEF IsRecorded
  <2> QED BY <2>1, <2>2
<1>2. ASSUME NEW b \in ToBAN, job'[b] = "completed" \/ (current' = b /\ step' = "result")
      PROVE  IsRecorded(CreditOf(b))'
  <2>0. IsRecorded(CreditOf(b)) => IsRecorded(CreditOf(b))'
    BY RecordedMoves DEF IsRecorded, CreditOf
  <2>1. IsRecorded(CreditOf(b))
    <3>1. CASE job'[b] = "completed"
      <4>1. CASE job[b] = "completed"
        BY <4>1 DEF ResultInv
      <4>2. CASE job[b] # "completed"
        <5>1. Returns /\ current = b
          BY <1>0, <3>1, <4>2, Kinds
        <5>2. step = "result"
          BY <5>1, Kinds DEF Returns
        <5> QED BY <5>1, <5>2 DEF ResultInv
      <4> QED BY <4>1, <4>2
    <3>2. CASE current' = b /\ step' = "result"
      <4>1. CASE UNCHANGED <<current, step>>
        BY <3>2, <4>1 DEF ResultInv
      <4>2. CASE Proceeds
        BY <3>2, <4>2, Kinds DEF Proceeds
      <4> QED BY <3>2, <4>1, <4>2, WorkMoves DEF Idles, Begins, Fails, Returns, Dies, JobEnds
    <3> QED BY <1>2, <3>1, <3>2
  <2> QED BY <2>0, <2>1
<1>3. ASSUME NEW g \in Gasless, job'[g] = "completed"
      PROVE  \E t \in FreeTxsOf(g)' : relayed'[t] = "mined"
  <2>1. PICK t \in FreeTxsOf(g) : relayed[t] = "mined"
    <3>1. CASE job[g] = "completed"
      BY <3>1 DEF ResultInv
    <3>2. CASE job[g] # "completed"
      <4>1. Returns /\ current = g
        BY <1>0, <1>3, <3>2, Kinds
      <4>2. step = "free"
        BY <4>1, Kinds DEF Returns, WorkerInv
      <4> QED BY <4>1, <4>2, WaitsFor DEF ResultInv
    <3> QED BY <3>1, <3>2
  <2>2. t \in TxIds /\ relayed'[t] = "mined"
    BY <2>1, MinedStays, TxKinds DEF FreeTxsOf
  <2>3. t \in FreeTxsOf(g)'
    BY <2>1, <2>2 DEF FreeTxsOf
  <2> QED BY <2>2, <2>3
<1>4. ASSUME step' = "free" PROVE relayed'[CurrentTx'] = "mined"
  <2>1. CASE Idles
    <3>1. UNCHANGED <<current, step, receipt>> /\ ~Relays
      BY <2>1, RelaysMoves DEF Idles
    <3>2. current \in Gasless
      BY <1>4, <3>1, Job, Kinds DEF WorkerInv
    <3>3. CurrentTx' = CurrentTx /\ CurrentTx \in TxIds /\ relayed[CurrentTx] = "mined"
      BY <1>4, <3>1, <3>2, CurrentTxStays DEF AttemptsInv, ResultInv
    <3> QED BY <3>3, MinedStays
  <2>2. CASE Proceeds
    <3>1. /\ step = "wait" /\ relayed[CurrentTx] = "mined" /\ UNCHANGED <<current, receipt, relayed>>
          /\ current \in Gasless
      BY <1>4, <2>2 DEF Proceeds
    <3>2. ~Relays
      BY <3>1, RelaysMoves
    <3>3. CurrentTx' = CurrentTx
      BY <3>1, <3>2, CurrentTxStays
    <3> QED BY <3>1, <3>3
  <2>3. CASE Begins \/ Fails \/ Returns \/ Dies
    BY <1>4, <2>3 DEF Begins, Fails, Returns, Dies, JobEnds
  <2> QED BY <2>1, <2>2, <2>3, WorkMoves
<1> QED BY <1>1, <1>2, <1>3, <1>4 DEF ResultInv, ReceiptsOf, IsRecorded, CreditOf

-----------------------------------------------------------------------------
(* Swaps to BAN.                                                           *)
(* Only addJob makes a job.                                                *)
LEMMA JobsMade ==
  ASSUME TypeOK, WorkerInv, CallInv, ReceiptInv, [Next]_vars,
         NEW b \in ToBAN, job[b] = "none", job'[b] # "none"
  PROVE  b \in burned
<1>0. b \in Jobs /\ (current # NoJob => current # b)
  BY Job, Kinds
<1>1. ASSUME NEW j \in Jobs, addJob(j) PROVE b \in burned
  <2>1. j = b
    BY <1>0, <1>1, addJobDoes DEF JobWaits
  <2> QED BY <1>1, <2>1 DEF addJob
<1>2. ASSUME NEW j \in Jobs, Promote(j) PROVE FALSE
  BY <1>0, <1>2, PromoteDoes DEF JobWaits
<1>3. ASSUME NEW j \in Jobs, StartJob(j) PROVE FALSE
  BY <1>0, <1>3, StartJobDoes
<1>4. ASSUME NEW states, current # NoJob, JobEnds(states) PROVE FALSE
  BY <1>0, <1>4 DEF JobEnds
<1>5. CASE BalanceRead
  BY <1>4, <1>5, BalanceReadDoes, Job DEF queueVars
<1>6. CASE StorageFails
  <2>1. current # NoJob
    BY <1>6, StorageFailsDoes, CallOf
  <2> QED BY <1>4, <1>6, <2>1, StorageFailsDoes DEF queueVars
<1>7. CASE StoreEnds
  BY <1>4, <1>7, StoreEndsDoes, Job DEF queueVars
<1>8. CASE Relay
  BY <1>4, <1>8, RelayDoes DEF queueVars
<1>9. CASE waitForRelayedTx
  BY <1>4, <1>9, WaitDoes DEF queueVars
<1>10. CASE storeFreeSwap
  BY <1>4, <1>10, StoreFreeSwapDoes, Job
<1>11. CASE RequestFails
  BY <1>4, <1>11, RequestFailsDoes
<1>12. CASE CrashRestart
  BY <1>0, <1>12, CrashDoes
<1>13. CASE \/ ReadBalance \/ StorageStep \/ StoreSwap \/ CountSwaps
            \/ (\E t \in TxIds : SettleTx(t)) \/ (\E r \in Receipts : UserMints(r))
            \/ (\E i \in ToBAN : UserBurns(i))
            \/ (\E k \in Storage!LockNames : ExpireLock(k)) \/ UNCHANGED vars
  BY <1>13 DEF ReadBalance, StorageStep, StoreSwap, CountSwaps, Goes, SettleTx, UserMints,
               UserBurns, ExpireLock, queueVars, vars
<1> QED BY <1>1, <1>2, <1>3, <1>5, <1>6, <1>7, <1>8, <1>9, <1>10, <1>11, <1>12, <1>13
        DEF Next, WorkerStep

(* A credit that is written is the one of the worker's swap.               *)
LEMMA Credits ==
  ASSUME DistinctSwaps, TypeOK, WorkerInv, CallInv, ReceiptInv, Writes,
         NEW b \in ToBAN, CreditOf(b) = req[Worker]
  PROVE  current = b
<1>1. req[Worker].type = "swap-to-ban" /\ pc[Worker] # "idle"
  BY Credit DEF Writes
<1>2. current \in ToBAN /\ req[Worker] = CreditOf(current)
  BY <1>1, CallOf
<1>3. b.hash = current.hash
  BY <1>2, Credit
<1> QED BY <1>2, <1>3 DEF DistinctSwaps

LEMMA BurnedStep ==
  ASSUME DistinctSwaps, TypeOK, WorkerInv, CallInv, ReceiptInv, BurnedInv, [Next]_vars
  PROVE  BurnedInv'
<1>1. burned \subseteq burned'
  BY BurnedMoves DEF UserBurns
<1>2. ASSUME NEW b \in ToBAN, job'[b] # "none" \/ IsRecorded(CreditOf(b))' PROVE b \in burned
  <2>1. CASE job[b] # "none" \/ IsRecorded(CreditOf(b))
    BY <2>1 DEF BurnedInv
  <2>2. CASE job[b] = "none" /\ job'[b] # "none"
    BY <2>2, JobsMade
  <2>3. CASE ~IsRecorded(CreditOf(b)) /\ IsRecorded(CreditOf(b))'
    <3>1. Writes /\ CreditOf(b) = req[Worker]
      <4> DEFINE r == CreditOf(b)
      <4>1. r \in Requests /\ r.type = "swap-to-ban"
        BY Credit
      <4>2. IsRecorded(r)' /\ ~IsRecorded(r)
        BY <2>3 DEF IsRecorded, CreditOf
      <4> HIDE DEF r
      <4>3. Writes /\ r = req[Worker]
        BY <4>1, <4>2, RecordedMoves
      <4> QED BY <4>3 DEF r
    <3>2. current = b
      BY <3>1, Credits
    <3>3. job[b] = "active"
      BY <3>2, Kinds DEF WorkerInv
    <3> QED BY <3>3 DEF BurnedInv
  <2> QED BY <1>2, <2>1, <2>2, <2>3
<1> QED BY <1>1, <1>2 DEF BurnedInv

-----------------------------------------------------------------------------
(* What a swap to wBAN takes off the balance.                              *)
RecordedOf(s) == {r \in ReceiptsOf(s) : IsRecorded(r)}
FailedOf(s) == {r \in ReceiptsOf(s) : relayed[r] = "failed"}

LEMMA RecordedFinite ==
  ASSUME FiniteInv, NEW S \in SUBSET Receipts, \A r \in S : IsRecorded(r)
  PROVE  IsFiniteSet(S)
<1> DEFINE f == [r \in S |-> Storage!EventOf(r)]
<1>1. \A r \in S : Storage!EventOf(r) \in audit
  BY DEF IsRecorded
<1>2. \A r, q \in S : Storage!EventOf(r) = Storage!EventOf(q) => r = q
  BY EventsDiffer, Callers
<1>3. f \in Injection(S, audit)
  BY <1>1, <1>2 DEF Injection, IsInjective
<1> HIDE DEF f
<1> QED BY <1>3, FS_Injection DEF FiniteInv

LEMMA DebitTypes ==
  ASSUME FiniteInv, NEW s
  PROVE  /\ IsFiniteSet(RecordedOf(s)) /\ Debits(s) = Cardinality(RecordedOf(s))
         /\ Debits(s) \in Nat
         /\ IsFiniteSet(FailedOf(s)) /\ FailedMints(s) = Cardinality(FailedOf(s))
         /\ FailedMints(s) \in Nat
<1>1. IsFiniteSet(RecordedOf(s))
  BY RecordedFinite, Callers DEF RecordedOf
<1>2. IsFiniteSet(FailedOf(s))
  <2>1. FailedOf(s) \subseteq {t \in TxIds : relayed[t] # "none"}
    BY Callers DEF FailedOf, TxIds
  <2> QED BY <2>1, FS_Subset DEF FiniteInv
<1> QED BY <1>1, <1>2, FS_CardinalityType DEF Debits, FailedMints, RecordedOf, FailedOf

(* The receipt that is written is of the worker's swap.                    *)
LEMMA ReceiptWritten ==
  ASSUME DistinctSwaps, TypeOK, WorkerInv, CallInv, ReceiptInv, Writes,
         NEW s \in ToWBAN, NEW r \in ReceiptsOf(s), r = req[Worker]
  PROVE  current = s /\ receipt = r /\ receipt # NoRequest
<1>1. /\ req[Worker].type = "swap-to-wban" /\ pc[Worker] # "idle"
      /\ r.address = s.wallet /\ r.at = s.at
  BY Callers DEF Writes, ReceiptsOf
<1>2. current \in ToWBAN /\ receipt = r /\ receipt \in ReceiptsOf(current)
  BY <1>1, CallOf
<1>3. receipt.address = current.wallet /\ receipt.at = current.at
  BY <1>2 DEF ReceiptsOf
<1>4. current = s
  BY <1>1, <1>2, <1>3 DEF DistinctSwaps
<1>5. receipt # NoRequest
  BY <1>2, Callers
<1> QED BY <1>2, <1>4, <1>5

(* What is recorded and what has failed for a swap.                        *)
LEMMA DebitsMove ==
  ASSUME DistinctSwaps, TypeOK, WorkerInv, CallInv, ReceiptInv, FiniteInv, [Next]_vars,
         NEW s \in ToWBAN
  PROVE  \/ Debits(s)' = Debits(s)
         \/ /\ Debits(s)' = Debits(s) + 1 /\ Writes
            /\ current = s /\ receipt = req[Worker] /\ receipt # NoRequest
<1>1. CASE \E r \in ReceiptsOf(s) : IsRecorded(r)' /\ ~IsRecorded(r)
  <2>1. PICK r \in ReceiptsOf(s) : IsRecorded(r)' /\ ~IsRecorded(r)
    BY <1>1
  <2>2. Writes /\ r = req[Worker]
    BY <2>1, RecordedMoves, Callers
  <2>3. current = s /\ receipt = r /\ receipt # NoRequest
    BY <2>2, ReceiptWritten
  <2>4. RecordedOf(s)' = RecordedOf(s) \cup {r} /\ r \notin RecordedOf(s)
    BY <2>1, <2>2, RecordedMoves, Callers DEF RecordedOf, ReceiptsOf
  <2>5. Debits(s)' = Debits(s) + 1
    BY <2>4, DebitTypes, FS_AddElement DEF Debits, RecordedOf
  <2> QED BY <2>2, <2>3, <2>5
<1>2. CASE \A r \in ReceiptsOf(s) : IsRecorded(r)' => IsRecorded(r)
  <2>1. RecordedOf(s)' = RecordedOf(s)
    BY <1>2, RecordedMoves DEF RecordedOf, ReceiptsOf
  <2> QED BY <2>1 DEF Debits, RecordedOf
<1> QED BY <1>1, <1>2

LEMMA FailedMove ==
  ASSUME TypeOK, WorkerInv, CallInv, ReceiptInv, AttemptsInv, FiniteInv, [Next]_vars,
         NEW s \in ToWBAN
  PROVE  /\ FailedMints(s)' >= FailedMints(s) /\ FailedMints(s)' \in Nat
         /\ \A t \in ReceiptsOf(s) :
              relayed'[t] = "failed" /\ relayed[t] # "failed"
                => FailedMints(s)' = FailedMints(s) + 1
<1>1. \A t \in TxIds : relayed[t] = "failed" => relayed'[t] = "failed"
  BY ChainMoves DEF Settles, Relays
<1>2. ReceiptsOf(s)' = ReceiptsOf(s) /\ ReceiptsOf(s) \subseteq TxIds
  BY Callers DEF ReceiptsOf, TxIds
<1>3. FailedOf(s) \subseteq FailedOf(s)'
  BY <1>1, <1>2 DEF FailedOf
<1>4. FiniteInv'
  BY FiniteStep
<1>5. IsFiniteSet(FailedOf(s)') /\ FailedMints(s)' = Cardinality(FailedOf(s)')
      /\ FailedMints(s)' \in Nat
  <2>1. FailedOf(s)' \subseteq {t \in TxIds : relayed[t] # "none"}'
    BY <1>2 DEF FailedOf
  <2>2. IsFiniteSet({t \in TxIds : relayed[t] # "none"}')
    BY <1>4 DEF FiniteInv
  <2>3. FailedMints(s)' = Cardinality(FailedOf(s)')
    BY DEF FailedMints, FailedOf
  <2> QED BY <2>1, <2>2, <2>3, FS_Subset, FS_CardinalityType
<1>6. FailedMints(s)' >= FailedMints(s)
  BY <1>3, <1>5, DebitTypes, FS_Subset
<1>7. ASSUME NEW t \in ReceiptsOf(s), relayed'[t] = "failed", relayed[t] # "failed"
      PROVE  FailedMints(s)' = FailedMints(s) + 1
  <2>1. Settles(t)
    BY <1>2, <1>7, ChainMoves DEF Settles, Relays
  <2>2. FailedOf(s)' = FailedOf(s) \cup {t} /\ t \notin FailedOf(s)
    BY <1>2, <1>7, <2>1 DEF FailedOf, Settles
  <2> QED BY <1>5, <2>2, DebitTypes, FS_AddElement
<1> QED BY <1>5, <1>6, <1>7

(* A swap that has spent its receipt stays so, unless there is trouble.    *)
LEMMA SpentMoves ==
  ASSUME TypeOK, WorkerInv, CallInv, ReceiptInv, AttemptsInv, FiniteInv, LockInv, [Next]_vars,
         NEW s \in ToWBAN, Spent(s), ~Spent(s)'
  PROVE  \/ failures' = failures + 1 \/ crashes' = crashes + 1
         \/ FailedMints(s)' = FailedMints(s) + 1
<1>1. /\ s \in Jobs /\ (current = s => job[s] = "active")
      /\ job[s] = "completed" => current # s
  BY Kinds DEF WorkerInv
<1>2. job'[s] # "completed"
  BY DEF Spent
<1>3. current = s /\ receipt # NoRequest /\ IsRecorded(receipt) /\ relayed[receipt] # "failed"
  <2>1. CASE job[s] = "completed"
    BY <1>1, <1>2, <2>1, WorkMoves, Kinds
    DEF Idles, Begins, Proceeds, Fails, Returns, Dies, JobEnds, queueVars
  <2> QED BY <2>1 DEF Spent
<1>4. /\ receipt \in ReceiptsOf(s) /\ receipt \in Receipts /\ receipt \in TxIds
      /\ step \in {"storing", "count", "relay", "wait", "result"}
  BY <1>3, Callers DEF ReceiptInv, TxIds
<1>5. Storage!EventOf(receipt) \in audit'
  <2>1. Storage!EventOf(receipt) \in audit
    BY <1>3 DEF IsRecorded
  <2>2. audit \subseteq audit'
    BY AuditMoves DEF Writes
  <2> QED BY <2>1, <2>2
<1>6. CASE Idles
  <2>1. current' = s /\ receipt' = receipt
    BY <1>3, <1>6 DEF Idles
  <2>2. relayed'[receipt] = "failed"
    BY <1>3, <1>5, <2>1 DEF Spent, IsRecorded
  <2> QED BY <1>3, <1>4, <2>2, FailedMove
<1>7. CASE Proceeds
  <2>1. current' = s /\ receipt' = receipt
    BY <1>3, <1>4, <1>7 DEF Proceeds
  <2>2. relayed'[receipt] # "failed"
    BY <1>3, <1>4, <1>7 DEF Proceeds, Relays
  <2> QED BY <1>3, <1>5, <2>1, <2>2 DEF Spent, IsRecorded
<1>8. CASE Fails
  <2>1. CASE step = "storing" /\ pc[Worker] # "idle" /\ ~IsRecorded(req[Worker])
    BY <1>3, <2>1, Kinds DEF CallInv
  <2>2. CASE step = "wait" /\ relayed[CurrentTx] = "failed"
    BY <1>3, <2>2, WaitsFor
  <2> QED BY <1>3, <1>4, <1>8, <2>1, <2>2, Kinds DEF Fails
<1>9. CASE Begins \/ Returns \/ Dies
  BY <1>1, <1>2, <1>3, <1>9, Callers DEF Begins, Returns, Dies, JobEnds
<1> QED BY <1>6, <1>7, <1>8, <1>9, WorkMoves

LEMMA DebitStep ==
  ASSUME DistinctSwaps, TypeOK, WorkerInv, CallInv, ReceiptInv, AttemptsInv, FiniteInv, LockInv,
         DebitInv, [Next]_vars
  PROVE  DebitInv'
<1> SUFFICES ASSUME NEW s \in ToWBAN
             PROVE  /\ ~s.valid => Debits(s)' = 0
                    /\ Debits(s)' <= failures' + crashes' + FailedMints(s)'
                                       + (IF Spent(s)' THEN 1 ELSE 0)
  BY DEF DebitInv
<1> DEFINE f == FailedMints(s)
           g == FailedMints(s)'
           d == Debits(s)
           slack == IF Spent(s) THEN 1 ELSE 0
           slackNext == IF Spent(s)' THEN 1 ELSE 0
<1>1. d \in Nat /\ f \in Nat /\ (~s.valid => d = 0) /\ d <= failures + crashes + f + slack
  BY DebitTypes DEF DebitInv
<1>2. /\ failures \in Nat /\ crashes \in Nat /\ failures' \in Nat /\ crashes' \in Nat
      /\ failures' >= failures /\ crashes' >= crashes
  BY TroublesStep DEF TypeOK, TroublesType
<1>3. g \in Nat /\ g >= f
  BY FailedMove
<1>4. slack \in {0, 1} /\ slackNext \in {0, 1}
  OBVIOUS
<1>5. CASE Debits(s)' = d
  <2>1. Spent(s) /\ ~Spent(s)' =>
          failures' = failures + 1 \/ crashes' = crashes + 1 \/ g = f + 1
    BY SpentMoves
  <2>2. slack <= slackNext \/ (slack = 1 /\ (failures' = failures + 1 \/ crashes' = crashes + 1
                                             \/ g = f + 1))
    BY <2>1
  <2> HIDE DEF f, g, d, slack, slackNext
  <2>3. d <= failures' + crashes' + g + slackNext
    <3>1. slack \in Nat /\ slackNext \in Nat
      BY <1>4
    <3> QED BY <1>1, <1>2, <1>3, <2>2, <3>1, SlackMadeUp
  <2> QED BY <1>1, <1>5, <2>3 DEF g, slackNext
<1>6. CASE /\ Debits(s)' = d + 1 /\ Writes
           /\ current = s /\ receipt = req[Worker] /\ receipt # NoRequest
  <2>1. s.valid
    BY <1>6 DEF WorkerInv
  <2>2. ~Spent(s)
    <3>1. job[s] = "active"
      BY <1>6, Kinds DEF WorkerInv
    <3>2. ~IsRecorded(receipt)
      BY <1>6 DEF Writes, CallInv
    <3> QED BY <3>1, <3>2 DEF Spent
  <2>3. Spent(s)'
    <3>1. current' = s /\ receipt' = receipt /\ relayed' = relayed
      BY <1>6 DEF Writes, StorageStep, workerVars, chainVars
    <3>2. relayed[receipt] = "none"
      BY <1>6 DEF Writes, ReceiptInv
    <3>3. Storage!EventOf(receipt) \in audit'
      BY <1>6 DEF Writes
    <3> QED BY <1>6, <3>1, <3>2, <3>3 DEF Spent, IsRecorded
  <2>4. slack = 0 /\ slackNext = 1
    BY <2>2, <2>3
  <2> HIDE DEF f, g, d, slack, slackNext
  <2>5. d + 1 <= failures' + crashes' + g + slackNext
    <3>1. d <= failures + crashes + f + 0
      BY <1>1, <2>4
    <3>2. d + 1 <= failures' + crashes' + g + 1
      BY <1>1, <1>2, <1>3, <3>1, SlackTaken
    <3> QED BY <2>4, <3>2
  <2> QED BY <1>6, <2>1, <2>5 DEF g, slackNext
<1> QED BY <1>5, <1>6, DebitsMove

-----------------------------------------------------------------------------
(* Where the value is.                                                     *)
Sum == INSTANCE SumTheorems WITH Op <- Amount

(* The sums of SumTheorems are those of the model.                         *)
LEMMA SumIsTotal ==
  /\ \A S : Sum!Total(S) = Total(S)
  /\ \A S : Sum!IsFiniteSet(S) <=> IsFiniteSet(S)
BY DEF Total, Sum!Total, Sum!MapThenSumSet, Sum!MapThenFoldSet, MapThenSumSet,
       MapThenFoldSet, Sum!IsFiniteSet, IsFiniteSet

LEMMA TotalType ==
  ASSUME NEW S, IsFiniteSet(S), \A x \in S : Amount(x) \in Nat
  PROVE  Total(S) \in Int
BY SumIsTotal, Sum!SumType

LEMMA TotalAdds ==
  ASSUME NEW S, IsFiniteSet(S), \A x \in S : Amount(x) \in Nat,
         NEW y, y \notin S, Amount(y) \in Nat
  PROVE  Total(S \cup {y}) = Total(S) + Amount(y)
BY SumIsTotal, Sum!SumAdd

LEMMA TotalRemoves ==
  ASSUME NEW S, IsFiniteSet(S), \A x \in S : Amount(x) \in Nat, NEW y \in S
  PROVE  Total(S \ {y}) = Total(S) - Amount(y)
<1>1. IsFiniteSet(S \ {y})
  BY FS_RemoveElement
<1>2. Total(S) = Total(S \ {y}) + Amount(y)
  BY SumIsTotal, Sum!SumRemove
<1>3. Total(S \ {y}) \in Int
  BY <1>1, TotalType
<1> QED BY <1>2, <1>3

LEMMA Amounts ==
  /\ \A r \in Receipts : Amount(r) \in Nat /\ Amount(r) = r.amount
  /\ \A b \in ToBAN : /\ Amount(b) \in Nat /\ Amount(b) = b.amount
                      /\ Amount(b) = CreditOf(b).amount
BY Requested, Callers, Credit DEF Amount

(* The four places.                                                        *)
MintedFor(a) == {r \in minted : Lower[r.address] = a}
BurnedOf(a) == {b \in burned : Lower[b.wallet] = a}
Value(a) ==
  banBalance[a] + Total(Outstanding(a)) + (Total(MintedFor(a)) - Total(BurnedOf(a)))
    + Total(Uncredited(a))

LEMMA ValueSplit ==
  /\ ValueIsConserved <=> \A a \in Storage!Wallets : Value(a) = Opening
  /\ ValueIsConserved' <=> \A a \in Storage!Wallets : Value(a)' = Opening
<1>1. \A a : Circulating(a) = Total(MintedFor(a)) - Total(BurnedOf(a))
  BY DEF Circulating, MintedFor, BurnedOf
<1>2. \A a : Circulating(a)' = (Total(MintedFor(a)) - Total(BurnedOf(a)))'
  BY DEF Circulating, MintedFor, BurnedOf
<1> QED BY <1>1, <1>2 DEF ValueIsConserved, Value, Storage!Wallets

LEMMA ValueTypes ==
  ASSUME TypeOK, FiniteInv, NEW a \in Storage!Wallets
  PROVE  /\ banBalance[a] \in Int
         /\ \A S \in {Outstanding(a), MintedFor(a), BurnedOf(a), Uncredited(a)} :
              IsFiniteSet(S) /\ Total(S) \in Int /\ \A x \in S : Amount(x) \in Nat
<1>1. banBalance[a] \in Int
  BY DEF TypeOK, Storage!TypeOK
<1>2. IsFiniteSet(Outstanding(a)) /\ Outstanding(a) \subseteq Receipts
  BY RecordedFinite DEF Outstanding
<1>3. IsFiniteSet(MintedFor(a)) /\ MintedFor(a) \subseteq Receipts
  BY FS_Subset DEF MintedFor, FiniteInv, TypeOK
<1>4. IsFiniteSet(BurnedOf(a)) /\ BurnedOf(a) \subseteq ToBAN
  BY FS_Subset DEF BurnedOf, FiniteInv, TypeOK
<1>5. IsFiniteSet(Uncredited(a)) /\ Uncredited(a) \subseteq ToBAN
  BY FS_Subset DEF Uncredited, FiniteInv, TypeOK
<1> QED BY <1>1, <1>2, <1>3, <1>4, <1>5, Amounts, TotalType

(* How it moves: a store writes, a receipt is minted, a swap is burned.    *)
Mints(r) ==
  /\ r \in Receipts \ minted /\ IsRecorded(r)
  /\ minted' = minted \cup {r} /\ UNCHANGED <<banBalance, audit, burned>>

Burns(b) ==
  /\ b \in ToBAN \ burned
  /\ burned' = burned \cup {b} /\ UNCHANGED <<banBalance, audit, minted>>

LEMMA ValueMoves ==
  ASSUME TypeOK, WorkerInv, CallInv, ReceiptInv, AttemptsInv, FiniteInv, [Next]_vars
  PROVE  \/ UNCHANGED <<banBalance, audit, minted, burned>>
         \/ Writes /\ UNCHANGED <<minted, burned>>
         \/ \E r \in Receipts : Mints(r)
         \/ \E b \in ToBAN : Burns(b)
<1>1. CASE Writes
  BY <1>1 DEF Writes, StorageStep, chainVars
<1>2. CASE \E r \in Receipts : UserMints(r)
  BY <1>2 DEF UserMints, Mints, storageVars
<1>3. CASE \E b \in ToBAN : UserBurns(b)
  BY <1>3 DEF UserBurns, Burns, storageVars
<1>4. CASE \E t \in TxIds : Settles(t)
  <2>1. PICK t \in TxIds : Settles(t)
    BY <1>4
  <2>2. UNCHANGED <<banBalance, audit, burned>>
    BY <2>1 DEF Settles, storageVars
  <2>3. CASE minted' = minted
    BY <2>2, <2>3
  <2>4. CASE minted' # minted
    <3>1. /\ t \in Receipts /\ minted' = minted \cup {t} /\ relayed[t] # "none" /\ t \notin minted
      BY <2>1, <2>4 DEF Settles, Accepts
    <3> QED BY <2>2, <3>1 DEF Mints, ReceiptInv
  <2> QED BY <2>3, <2>4
<1> QED BY <1>1, <1>2, <1>3, <1>4, AuditMoves, ChainMoves, BurnedMoves DEF Relays

(* A receipt is minted: from Outstanding to the circulation.               *)
LEMMA MintConserves ==
  ASSUME TypeOK, FiniteInv, NEW r \in Receipts, Mints(r), NEW a \in Storage!Wallets
  PROVE  Value(a)' = Value(a)
<1>1. banBalance'[a] = banBalance[a] /\ BurnedOf(a)' = BurnedOf(a)
  BY DEF Mints, BurnedOf
<1>2. Uncredited(a)' = Uncredited(a)
  BY DEF Mints, Uncredited, IsRecorded, CreditOf
<1>3. CASE Lower[r.address] = a
  <2>1. Outstanding(a)' = Outstanding(a) \ {r} /\ r \in Outstanding(a)
    BY <1>3 DEF Mints, Outstanding, IsRecorded
  <2>2. MintedFor(a)' = MintedFor(a) \cup {r} /\ r \notin MintedFor(a)
    BY <1>3 DEF Mints, MintedFor
  <2>3. Total(Outstanding(a))' = Total(Outstanding(a)) - Amount(r)
    BY <2>1, ValueTypes, TotalRemoves
  <2>4. Total(MintedFor(a))' = Total(MintedFor(a)) + Amount(r)
    BY <2>2, ValueTypes, TotalAdds, Amounts
  <2>5. Amount(r) \in Nat
    BY Amounts
  <2> QED BY <1>1, <1>2, <2>3, <2>4, <2>5, ValueTypes DEF Value
<1>4. CASE Lower[r.address] # a
  <2>1. Outstanding(a)' = Outstanding(a)
    BY <1>4 DEF Mints, Outstanding, IsRecorded
  <2>2. MintedFor(a)' = MintedFor(a)
    BY <1>4 DEF Mints, MintedFor
  <2> QED BY <1>1, <1>2, <2>1, <2>2 DEF Value
<1> QED BY <1>3, <1>4

(* A swap is burned: from the circulation to Uncredited.                   *)
LEMMA BurnConserves ==
  ASSUME TypeOK, FiniteInv, BurnedInv, NEW b \in ToBAN, Burns(b), NEW a \in Storage!Wallets
  PROVE  Value(a)' = Value(a)
<1>1. banBalance'[a] = banBalance[a] /\ MintedFor(a)' = MintedFor(a)
  BY DEF Burns, MintedFor
<1>2. Outstanding(a)' = Outstanding(a)
  BY DEF Burns, Outstanding, IsRecorded
<1>3. ~IsRecorded(CreditOf(b))
  BY DEF Burns, BurnedInv
<1>4. CASE Lower[b.wallet] = a
  <2>1. BurnedOf(a)' = BurnedOf(a) \cup {b} /\ b \notin BurnedOf(a)
    BY <1>4 DEF Burns, BurnedOf
  <2>2. Uncredited(a)' = Uncredited(a) \cup {b} /\ b \notin Uncredited(a)
    <3>1. /\ burned' = burned \cup {b} /\ b \notin burned
          /\ \A c : (Storage!EventOf(CreditOf(c)) \in audit)' <=> IsRecorded(CreditOf(c))
      BY DEF Burns, IsRecorded, CreditOf
    <3>2. Uncredited(a)' = {c \in burned' : Lower[c.wallet] = a /\ ~IsRecorded(CreditOf(c))}
      BY <3>1 DEF Uncredited, IsRecorded
    <3> QED BY <1>3, <1>4, <3>1, <3>2 DEF Uncredited
  <2>3. Total(BurnedOf(a))' = Total(BurnedOf(a)) + Amount(b)
    BY <2>1, ValueTypes, TotalAdds, Amounts
  <2>4. Total(Uncredited(a))' = Total(Uncredited(a)) + Amount(b)
    BY <2>2, ValueTypes, TotalAdds, Amounts
  <2>5. Amount(b) \in Nat
    BY Amounts
  <2> QED BY <1>1, <1>2, <2>3, <2>4, <2>5, ValueTypes DEF Value
<1>5. CASE Lower[b.wallet] # a
  <2>1. BurnedOf(a)' = BurnedOf(a)
    BY <1>5 DEF Burns, BurnedOf
  <2>2. Uncredited(a)' = Uncredited(a)
    BY <1>5 DEF Burns, Uncredited, IsRecorded, CreditOf
  <2> QED BY <1>1, <1>2, <2>1, <2>2 DEF Value
<1> QED BY <1>4, <1>5

(* A store of a swap to wBAN: from the balance to Outstanding.             *)
LEMMA DebitConserves ==
  ASSUME TypeOK, WorkerInv, CallInv, ReceiptInv, FiniteInv, [Next]_vars, Writes,
         UNCHANGED <<minted, burned>>, req[Worker].type = "swap-to-wban",
         NEW a \in Storage!Wallets
  PROVE  Value(a)' = Value(a)
<1> DEFINE r == receipt
<1>1. /\ req[Worker] = r /\ r \in Receipts /\ ~IsRecorded(r) /\ r.type = "swap-to-wban"
      /\ Lower[r.address] \in Storage!Wallets /\ Storage!Delta(r) = -Amount(r)
  <2>1. req[Worker] = r /\ r \in Receipts
    BY CallOf, Callers DEF Writes
  <2>2. ~IsRecorded(req[Worker])
    BY DEF Writes, CallInv
  <2> QED BY <2>1, <2>2, Callers, Requested DEF Storage!Delta, Amount
<1>2. /\ banBalance' = [banBalance EXCEPT ![Lower[r.address]] = @ - Amount(r)]
      /\ audit' = audit \cup {Storage!EventOf(r)}
  <2>1. banBalance' = [banBalance EXCEPT ![Lower[r.address]] = @ + (-Amount(r))]
    BY <1>1 DEF Writes
  <2>2. banBalance[Lower[r.address]] \in Int /\ Amount(r) \in Nat
    BY <1>1, Amounts DEF TypeOK, Storage!TypeOK
  <2>3. banBalance[Lower[r.address]] + (-Amount(r)) = banBalance[Lower[r.address]] - Amount(r)
    BY <2>2
  <2> QED BY <1>1, <2>1, <2>3 DEF Writes
<1>3. /\ Storage!EventOf(r) \in audit'
      /\ \A q \in Requests : q.type \in {"swap-to-ban", "swap-to-wban"} /\ q # r
           => (IsRecorded(q)' <=> IsRecorded(q))
  BY <1>1, <1>2, RecordedMoves
<1> HIDE DEF r
<1>4. BurnedOf(a)' = BurnedOf(a) /\ MintedFor(a)' = MintedFor(a)
  BY DEF BurnedOf, MintedFor
<1>5. Uncredited(a)' = Uncredited(a)
  <2>1. \A b \in ToBAN : IsRecorded(CreditOf(b))' <=> IsRecorded(CreditOf(b))
    <3> SUFFICES ASSUME NEW b \in ToBAN
                 PROVE  IsRecorded(CreditOf(b))' <=> IsRecorded(CreditOf(b))
      OBVIOUS
    <3> DEFINE q == CreditOf(b)
    <3>1. q \in Requests /\ q.type = "swap-to-ban" /\ q # r
      BY <1>1, Credit
    <3> HIDE DEF q
    <3>2. IsRecorded(q)' <=> IsRecorded(q)
      BY <1>3, <3>1
    <3> QED BY <3>2 DEF q, IsRecorded, CreditOf
  <2> QED BY <2>1 DEF Uncredited, TypeOK
<1>6. r \notin minted /\ Amount(r) \in Nat
  BY <1>1, Amounts DEF ReceiptInv
<1>7. CASE Lower[r.address] = a
  <2>1. Outstanding(a)' = Outstanding(a) \cup {r} /\ r \notin Outstanding(a)
    <3>1. Outstanding(a)' = {q \in Receipts : Lower[q.address] = a /\ IsRecorded(q)'
                                             /\ q \notin minted}
      BY DEF Outstanding
    <3>2. \A q \in Receipts \ {r} : IsRecorded(q)' <=> IsRecorded(q)
      BY <1>3, Callers
    <3>3. Storage!EventOf(r) \in audit'
      BY <1>3
    <3> HIDE <1>3
    <3> QED BY <1>1, <1>6, <1>7, <3>1, <3>2, <3>3 DEF Outstanding, IsRecorded
  <2>2. Total(Outstanding(a))' = Total(Outstanding(a)) + Amount(r)
    BY <1>6, <2>1, ValueTypes, TotalAdds
  <2>3. banBalance'[a] = banBalance[a] - Amount(r)
    BY <1>1, <1>2, <1>7 DEF TypeOK, Storage!TypeOK
  <2> QED BY <1>4, <1>5, <1>6, <2>2, <2>3, ValueTypes DEF Value
<1>8. CASE Lower[r.address] # a
  <2>1. Outstanding(a)' = Outstanding(a)
    BY <1>1, <1>3, <1>8, Callers DEF Outstanding
  <2>2. banBalance'[a] = banBalance[a]
    BY <1>1, <1>2, <1>8 DEF TypeOK, Storage!TypeOK
  <2> QED BY <1>4, <1>5, <2>1, <2>2 DEF Value
<1> QED BY <1>7, <1>8

(* A store of a swap to BAN: from Uncredited to the balance.               *)
LEMMA CreditConserves ==
  ASSUME DistinctSwaps, TypeOK, WorkerInv, CallInv, ReceiptInv, FiniteInv, BurnedInv,
         [Next]_vars, Writes, UNCHANGED <<minted, burned>>, req[Worker].type = "swap-to-ban",
         NEW a \in Storage!Wallets
  PROVE  Value(a)' = Value(a)
<1> DEFINE r == CreditOf(current)
<1>1. /\ req[Worker] = r /\ current \in ToBAN /\ current \in burned
      /\ r \in Requests /\ r.type = "swap-to-ban" /\ r \notin Receipts
      /\ Lower[r.address] = Lower[current.wallet] /\ Lower[r.address] \in Storage!Wallets
      /\ Storage!Delta(r) = Amount(current) /\ Amount(current) \in Nat
  <2>1. req[Worker] = r /\ current \in ToBAN
    BY CallOf DEF Writes
  <2>2. job[current] = "active"
    BY <2>1, Kinds DEF WorkerInv
  <2> QED BY <2>1, <2>2, Credit, Requested, Amounts DEF BurnedInv, Storage!Delta
<1>2. /\ banBalance' = [banBalance EXCEPT ![Lower[current.wallet]] = @ + Amount(current)]
      /\ audit' = audit \cup {Storage!EventOf(r)}
  BY <1>1 DEF Writes
<1>3. /\ ~IsRecorded(r) /\ Storage!EventOf(r) \in audit'
      /\ \A q \in Requests : q.type \in {"swap-to-ban", "swap-to-wban"} /\ q # r
           => (IsRecorded(q)' <=> IsRecorded(q))
  <2>1. ~IsRecorded(req[Worker])
    BY DEF Writes, CallInv
  <2>2. Storage!EventOf(r) \in audit' /\ ~IsRecorded(r)
    BY <1>1, <1>2, <2>1
  <2> QED BY <1>1, <2>2, RecordedMoves
<1>4. BurnedOf(a)' = BurnedOf(a) /\ MintedFor(a)' = MintedFor(a)
  BY DEF BurnedOf, MintedFor
<1>5. ~IsRecorded(CreditOf(current)) /\ Storage!EventOf(CreditOf(current)) \in audit'
  BY <1>2, <1>3
<1>6. \A b \in ToBAN : b # current =>
        (Storage!EventOf(CreditOf(b)) \in audit' <=> IsRecorded(CreditOf(b)))
  <2> SUFFICES ASSUME NEW b \in ToBAN, b # current
               PROVE  Storage!EventOf(CreditOf(b)) \in audit' <=> IsRecorded(CreditOf(b))
    OBVIOUS
  <2> DEFINE q == CreditOf(b)
  <2>1. q \in Requests /\ q.type = "swap-to-ban" /\ q # r
    BY <1>1, Credit DEF DistinctSwaps
  <2> HIDE DEF q, r
  <2>2. Storage!EventOf(q) \in audit' <=> Storage!EventOf(q) \in audit
    BY <1>3, <2>1 DEF IsRecorded
  <2> QED BY <2>2 DEF q, IsRecorded
<1>7. Outstanding(a)' = Outstanding(a)
  <2> HIDE DEF r
  <2> QED BY <1>1, <1>3, Callers DEF Outstanding
<1> HIDE DEF r
<1>8. CASE Lower[current.wallet] = a
  <2>1. Uncredited(a)' = Uncredited(a) \ {current} /\ current \in Uncredited(a)
    BY <1>1, <1>5, <1>6, <1>8 DEF Uncredited, IsRecorded, CreditOf, TypeOK
  <2>2. Total(Uncredited(a))' = Total(Uncredited(a)) - Amount(current)
    BY <2>1, ValueTypes, TotalRemoves
  <2>3. banBalance'[a] = banBalance[a] + Amount(current)
    BY <1>1, <1>2, <1>8 DEF TypeOK, Storage!TypeOK
  <2> QED BY <1>1, <1>4, <1>7, <2>2, <2>3, ValueTypes DEF Value
<1>9. CASE Lower[current.wallet] # a
  <2>1. Uncredited(a)' = Uncredited(a)
    BY <1>1, <1>5, <1>6, <1>9 DEF Uncredited, IsRecorded, CreditOf, TypeOK
  <2>2. banBalance'[a] = banBalance[a]
    BY <1>1, <1>2, <1>9 DEF TypeOK, Storage!TypeOK
  <2> QED BY <1>4, <1>7, <2>1, <2>2 DEF Value
<1> QED BY <1>8, <1>9

LEMMA ConserveStep ==
  ASSUME DistinctSwaps, TypeOK, WorkerInv, CallInv, ReceiptInv, AttemptsInv, FiniteInv,
         BurnedInv, ValueIsConserved, [Next]_vars
  PROVE  ValueIsConserved'
<1> SUFFICES ASSUME NEW a \in Storage!Wallets PROVE Value(a)' = Value(a)
  BY ValueSplit
<1>1. CASE UNCHANGED <<banBalance, audit, minted, burned>>
  BY <1>1 DEF Value, Outstanding, MintedFor, BurnedOf, Uncredited, IsRecorded, CreditOf
<1>2. CASE Writes /\ UNCHANGED <<minted, burned>>
  <2>1. req[Worker].type \in {"swap-to-wban", "swap-to-ban"}
    BY <1>2, CallOf DEF Writes
  <2> QED BY <1>2, <2>1, DebitConserves, CreditConserves
<1> QED BY <1>1, <1>2, MintConserves, BurnConserves, ValueMoves

-----------------------------------------------------------------------------
(* The initial states.                                                     *)
LEMMA InitWork ==
  Init => TypeOK /\ WorkerInv /\ CallInv /\ ReceiptInv /\ FiniteInv /\ LockInv
<1> SUFFICES ASSUME Init
             PROVE  TypeOK /\ WorkerInv /\ CallInv /\ ReceiptInv /\ FiniteInv /\ LockInv
  OBVIOUS
<1>1. Storage!TypeOK
  BY SameAssumptions, SameStates, SP!TypeOKInit DEF Init
<1>2. TypeOK
  BY <1>1, SwapsAssumption DEF Init, TypeOK, JobStates, StepNames, Attempts
<1>3. WorkerInv
  BY Callers, Kinds DEF Init, WorkerInv, Attempts
<1>4. pc[Worker] = "idle" /\ locks = [k \in Storage!LockNames |-> "free"] /\ audit = {}
  BY Callers DEF Init, Storage!Init
<1>5. \A t \in TxIds : relayed[t] = "none"
  BY DEF Init
<1>6. CallInv
  BY <1>4 DEF Init, CallInv
<1>7. NoJob \notin ToWBAN
  BY Callers, Kinds
<1>8. ReceiptInv
  BY <1>4, <1>5, <1>7 DEF Init, ReceiptInv, IsRecorded, TxIds
<1>9. FiniteInv
  BY <1>4, <1>5, FS_EmptySet DEF Init, FiniteInv
<1>10. LockInv
  BY <1>4, <1>7, Callers DEF Init, LockInv
<1> QED BY <1>2, <1>3, <1>6, <1>8, <1>9, <1>10

LEMMA InitCounts ==
  Init => MintInv /\ AttemptsInv /\ FreeInv /\ ResultInv
<1> SUFFICES ASSUME Init PROVE MintInv /\ AttemptsInv /\ FreeInv /\ ResultInv
  OBVIOUS
<1>1. /\ \A t \in TxIds : relayed[t] = "none"
      /\ \A j \in Jobs : job[j] = "none" /\ made[j] = 0
      /\ step = "none" /\ current = NoJob /\ crashes = 0 /\ failures = 0 /\ freeSwaps = {}
  BY DEF Init
<1>2. NoJob \notin ToWBAN /\ NoJob \notin ToBAN /\ NoJob \notin Gasless
  BY Callers, Kinds
<1>3. MintInv
  BY <1>1 DEF MintInv, TxIds
<1>4. /\ \A g : FreeTxsOf(g) = {}
      /\ \A a : MayCost(a) = {}
  BY <1>1, TxKinds DEF FreeTxsOf, MayCost
<1>5. AttemptsInv
  <2>1. \A t \in FreeTxs : t.attempt \in Nat /\ t.attempt >= 1
    BY SwapsAssumption DEF FreeTxs, Attempts
  <2>2. Cardinality({}) = 0
    BY FS_EmptySet
  <2>3. \A t \in FreeTxs : relayed[t] # "none" <=> t.attempt <= Cardinality(FreeTxsOf(t.swap))
    <3>1. \A t \in FreeTxs : Cardinality(FreeTxsOf(t.swap)) = 0
      BY <1>4, <2>2
    <3>2. \A t \in FreeTxs : relayed[t] = "none"
      BY <1>1, TxKinds
    <3> QED BY <2>1, <3>1, <3>2
  <2>4. \A g \in Gasless :
          Cardinality(FreeTxsOf(g)) <=
            made[g] + crashes
              + (IF job[g] = "completed" \/ (current = g /\ step \in {"wait", "free"}) THEN 1 ELSE 0)
    <3> SUFFICES ASSUME NEW g \in Gasless
                 PROVE  Cardinality(FreeTxsOf(g)) <=
                          made[g] + crashes
                            + (IF job[g] = "completed" \/ (current = g /\ step \in {"wait", "free"})
                                 THEN 1 ELSE 0)
      OBVIOUS
    <3>1. Cardinality(FreeTxsOf(g)) = 0 /\ made[g] = 0 /\ crashes = 0
      BY <1>1, <1>4, <2>2, Kinds
    <3>2. ~ (job[g] = "completed" \/ (current = g /\ step \in {"wait", "free"}))
      BY <1>1, Kinds
    <3> QED BY <3>1, <3>2
  <2> QED BY <1>1, <2>3, <2>4 DEF AttemptsInv
<1>6. FreeInv
  BY <1>1, <1>2, <1>4, FS_EmptySet DEF FreeInv, Granted
<1>7. ResultInv
  BY <1>1, <1>2, Kinds DEF ResultInv
<1> QED BY <1>3, <1>5, <1>6, <1>7

LEMMA InitValue == Init => BurnedInv /\ DebitInv /\ ValueIsConserved
<1> SUFFICES ASSUME Init PROVE BurnedInv /\ DebitInv /\ ValueIsConserved
  OBVIOUS
<1>1. /\ audit = {} /\ minted = {} /\ burned = {}
      /\ \A j \in Jobs : job[j] = "none"
      /\ \A a \in Storage!Wallets : banBalance[a] = Opening
      /\ failures = 0 /\ crashes = 0
  BY DEF Init, Storage!Init
<1>2. FiniteInv
  BY InitWork
<1>3. BurnedInv
  BY <1>1, Kinds DEF BurnedInv, IsRecorded
<1>4. DebitInv
  <2> SUFFICES ASSUME NEW s \in ToWBAN
               PROVE  /\ Debits(s) = 0
                      /\ Debits(s) <= failures + crashes + FailedMints(s)
                                        + (IF Spent(s) THEN 1 ELSE 0)
    BY DEF DebitInv
  <2>1. RecordedOf(s) = {}
    BY <1>1 DEF RecordedOf, IsRecorded
  <2>2. Debits(s) = 0 /\ FailedMints(s) \in Nat
    BY <1>2, <2>1, DebitTypes, FS_EmptySet
  <2> QED BY <1>1, <2>2
<1>5. ValueIsConserved
  <2> SUFFICES ASSUME NEW a \in Storage!Wallets PROVE Value(a) = Opening
    BY ValueSplit
  <2>1. /\ Outstanding(a) = {} /\ MintedFor(a) = {} /\ BurnedOf(a) = {} /\ Uncredited(a) = {}
    BY <1>1 DEF Outstanding, MintedFor, BurnedOf, Uncredited, IsRecorded
  <2>2. Total({}) = 0
    BY SumIsTotal, Sum!SumEmpty
  <2>3. Opening \in Int
    BY StorageAssumption DEF Storage!ParametersAssumption
  <2> QED BY <1>1, <2>1, <2>2, <2>3 DEF Value
<1> QED BY <1>3, <1>4, <1>5

-----------------------------------------------------------------------------
(* What holds whatever the swaps are, and what takes distinct ones.        *)
WorkInv ==
  /\ TypeOK /\ WorkerInv /\ CallInv /\ ReceiptInv /\ FiniteInv /\ LockInv
  /\ MintInv /\ AttemptsInv /\ FreeInv /\ ResultInv

LEMMA WorkInvStep == WorkInv /\ [Next]_vars => WorkInv'
<1> SUFFICES ASSUME WorkInv, [Next]_vars PROVE WorkInv'
  OBVIOUS
<1>1. TypeOK' /\ WorkerInv' /\ CallInv' /\ ReceiptInv'
  BY TypesStep, CallStep, ReceiptStep DEF WorkInv
<1>2. FiniteInv' /\ LockInv'
  BY FiniteStep, LockStep DEF WorkInv
<1>3. MintInv' /\ AttemptsInv' /\ FreeInv' /\ ResultInv'
  BY MintStep, AttemptsStep, FreeStep, ResultStep DEF WorkInv
<1> QED BY <1>1, <1>2, <1>3 DEF WorkInv

LEMMA IInvStep == ASSUME DistinctSwaps PROVE IInv /\ [Next]_vars => IInv'
<1> SUFFICES ASSUME IInv, [Next]_vars PROVE IInv'
  OBVIOUS
<1>1. WorkInv'
  BY WorkInvStep DEF IInv, WorkInv
<1>2. BurnedInv' /\ DebitInv' /\ ValueIsConserved'
  BY BurnedStep, DebitStep, ConserveStep DEF IInv
<1> QED BY <1>1, <1>2 DEF IInv, WorkInv

(* The invariant that the next theorems rest on.                           *)
THEOREM Working == Spec => []WorkInv
<1>1. Init => WorkInv
  BY InitWork, InitCounts DEF WorkInv
<1> QED BY <1>1, WorkInvStep, PTL DEF Spec

(* Every variable keeps its type, whatever fails or crashes.               *)
THEOREM TypeCorrect == Spec => []TypeOK
<1>1. WorkInv => TypeOK
  BY DEF WorkInv
<1> QED BY <1>1, Working, PTL

(* The worker and the crashes use the storage as UsersDepositsStorage      *)
(* says.                                                                   *)
THEOREM StorageImplemented == Spec => Storage!Spec
<1>1. Init => Storage!Init
  BY DEF Init
<1>2. [Next]_vars => [Storage!Next]_Storage!storageVars
  BY StorageRefined
<1> QED BY <1>1, <1>2, PTL DEF Spec, Storage!Spec

(* The bridge relays the mint of a wallet's first swap only, however often *)
(* the swap is retried and whenever the process dies.                      *)
THEOREM OneMint == Spec => []OneMintRelayed
<1>1. WorkInv => OneMintRelayed
  <2> SUFFICES ASSUME WorkInv, NEW a \in Storage!Wallets
               PROVE  Cardinality({r \in Receipts : Lower[r.address] = a
                                                    /\ relayed[r] # "none"}) <= 1
    BY DEF OneMintRelayed
  <2> DEFINE S == {r \in Receipts : Lower[r.address] = a /\ relayed[r] # "none"}
  <2>1. \A r, q \in S : r = q
    BY DEF WorkInv, MintInv
  <2>2. S = {} \/ \E r : S = {r}
    BY <2>1
  <2> HIDE DEF S
  <2>3. Cardinality(S) <= 1
    <3>1. CASE S = {}
      <4>1. Cardinality(S) = 0
        BY <3>1, FS_EmptySet
      <4> QED BY <4>1
    <3>2. CASE \E r : S = {r}
      <4>1. PICK r : S = {r}
        BY <3>2
      <4>2. Cardinality({r}) = 1
        BY FS_Singleton
      <4>3. Cardinality(S) = 1
        BY <4>1, <4>2
      <4> QED BY <4>3
    <3> QED BY <2>2, <3>1, <3>2
  <2> QED BY <2>3 DEF S
<1> QED BY <1>1, Working, PTL

(* It pays for one gasless swap of a wallet, and one more for every        *)
(* failure or crash that kept it from noting the first.                    *)
THEOREM OneFree == Spec => []OneFreeSwap
<1>1. WorkInv => OneFreeSwap
  <2> SUFFICES ASSUME WorkInv, NEW a \in Storage!Wallets
               PROVE  Cardinality(FreeSwapsOf(a)) <= 1 + failures + crashes
    BY DEF OneFreeSwap
  <2> DEFINE m == Cardinality(MayCost(a))
             n == Cardinality(FreeSwapsOf(a))
             slack == IF Granted(a) THEN 1 ELSE 0
  <2>1. IsFiniteSet(MayCost(a)) /\ m \in Nat
    BY Counted DEF WorkInv
  <2>2. FreeSwapsOf(a) \subseteq MayCost(a)
    BY DEF FreeSwapsOf, MayCost
  <2>3. n <= m /\ n \in Nat
    BY <2>1, <2>2, FS_Subset, FS_CardinalityType
  <2>4. m <= failures + crashes + slack /\ slack \in {0, 1}
    BY DEF WorkInv, FreeInv
  <2>5. failures \in Nat /\ crashes \in Nat
    BY DEF WorkInv, TypeOK
  <2> HIDE DEF m, n, slack
  <2>6. n <= 1 + failures + crashes
    BY <2>1, <2>3, <2>4, <2>5
  <2> QED BY <2>6 DEF n
<1> QED BY <1>1, Working, PTL

(* A job that has completed has done what it answers.                      *)
THEOREM Completed == Spec => []CompletedIsDone
<1>1. WorkInv => CompletedIsDone
  <2> SUFFICES ASSUME WorkInv PROVE CompletedIsDone
    OBVIOUS
  <2>1. ASSUME NEW s \in ToWBAN, job[s] = "completed" PROVE Debits(s) >= 1
    <3>1. RecordedOf(s) # {}
      BY <2>1 DEF WorkInv, ResultInv, RecordedOf
    <3>2. IsFiniteSet(RecordedOf(s)) /\ Debits(s) = Cardinality(RecordedOf(s)) /\ Debits(s) \in Nat
      BY DebitTypes DEF WorkInv
    <3>3. Debits(s) # 0
      BY <3>1, <3>2, FS_EmptySet
    <3> QED BY <3>2, <3>3
  <2> QED BY <2>1 DEF WorkInv, ResultInv, CompletedIsDone
<1> QED BY <1>1, Working, PTL

(* The invariant that the last theorems rest on.                           *)
THEOREM Inductive == ASSUME DistinctSwaps PROVE Spec => []IInv
<1>1. Init => IInv
  BY InitWork, InitCounts, InitValue DEF IInv
<1> QED BY <1>1, IInvStep, PTL DEF Spec

(* A swap to wBAN takes its amount off the balance once, and once more for *)
(* every failure, crash or failed mint that made it try again.             *)
THEOREM Debited == ASSUME DistinctSwaps PROVE Spec => []DebitedAgainAfterFailure
<1>1. IInv => DebitedAgainAfterFailure
  <2> SUFFICES ASSUME IInv, NEW s \in ToWBAN
               PROVE  Debits(s) <= IF s.valid THEN 1 + failures + crashes + FailedMints(s) ELSE 0
    BY DEF DebitedAgainAfterFailure
  <2> DEFINE d == Debits(s)
             f == FailedMints(s)
             slack == IF Spent(s) THEN 1 ELSE 0
  <2>1. d \in Nat /\ f \in Nat /\ failures \in Nat /\ crashes \in Nat
    BY DebitTypes DEF IInv, TypeOK
  <2>2. (~s.valid => d = 0) /\ d <= failures + crashes + f + slack /\ slack \in {0, 1}
    BY DEF IInv, DebitInv
  <2> HIDE DEF d, f, slack
  <2>3. d <= 1 + failures + crashes + f
    BY <2>1, <2>2
  <2> QED BY <2>1, <2>2, <2>3 DEF d, f
<1> QED BY <1>1, Inductive, PTL

(* No swap makes or loses value, in either direction and whatever fails:   *)
(* what leaves the balance is in a receipt, what is burned is credited.    *)
THEOREM Conserved == ASSUME DistinctSwaps PROVE Spec => []ValueIsConserved
<1>1. IInv => ValueIsConserved
  BY DEF IInv
<1> QED BY <1>1, Inductive, PTL
=============================================================================
