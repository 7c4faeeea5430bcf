------------------------- MODULE WithdrawalsProofs --------------------------
(***************************************************************************)
(* Proofs about Withdrawals: its types; that it drives the storage only by *)
(* steps of UsersDepositsStorage, so that balances add up; that no         *)
(* withdrawal is dropped, none is paid again unless the process died, none *)
(* once it is in the history; and that users are not paid more than they   *)
(* deposited.                                                              *)
(***************************************************************************)
EXTENDS Withdrawals, TLAPS, FiniteSetTheorems

(* The storage whose theorems these proofs cite is the storage the model   *)
(* instantiates: the two copies of every definition say the same.          *)
SP == INSTANCE UsersDepositsStorageProofs

LEMMA SameAssumptions ==
  SP!LowerAssumption /\ SP!RequestsAssumption /\ SP!ParametersAssumption
BY StorageAssumption
DEF Storage!LowerAssumption, SP!LowerAssumption, Storage!RequestsAssumption,
    SP!RequestsAssumption, Storage!ParametersAssumption,
    SP!ParametersAssumption, Storage!Types, SP!Types, Storage!WriteTypes,
    SP!WriteTypes

(* The types and the initial states are the same...                        *)
LEMMA SameStates ==
  /\ Storage!TypeOK <=> SP!TypeOK
  /\ Storage!TypeOK' <=> SP!TypeOK'
  /\ Storage!Init <=> SP!Init
<1>1. Storage!Init <=> SP!Init
  BY DEF Storage!Init, SP!Init, Storage!Wallets, SP!Wallets,
         Storage!LockNames, SP!LockNames
<1>2. Storage!TypeOK <=> SP!TypeOK
  BY DEF Storage!TypeOK, SP!TypeOK, Storage!Wallets, SP!Wallets,
         Storage!LockNames, SP!LockNames, Storage!Stages, SP!Stages,
         Storage!EventOf, SP!EventOf
<1>3. Storage!TypeOK' <=> SP!TypeOK'
  BY DEF Storage!TypeOK, SP!TypeOK, Storage!Wallets, SP!Wallets,
         Storage!LockNames, SP!LockNames, Storage!Stages, SP!Stages,
         Storage!EventOf, SP!EventOf
<1> QED BY <1>1, <1>2, <1>3

(* ...and so are the steps.                                                *)
LEMMA SameSteps ==
  /\ \A c \in Caller, r \in Requests : Storage!Call(c, r) <=> SP!Call(c, r)
  /\ \A c \in Caller : Storage!Step(c) <=> SP!Step(c)
  /\ Storage!LockNames = SP!LockNames
  /\ \A k \in SP!LockNames : Storage!Expire(k) <=> SP!Expire(k)
  /\ Storage!Crash <=> SP!Crash
  /\ UNCHANGED Storage!storageVars <=> UNCHANGED SP!storageVars
<1>1. \A c \in Caller, r \in Requests : Storage!Call(c, r) <=> SP!Call(c, r)
  BY DEF Storage!WriteTypes, SP!WriteTypes, Storage!Types, SP!Types,
         Storage!EventOf, SP!EventOf, Storage!containsUserDepositTransaction,
         SP!containsUserDepositTransaction,
         Storage!containsUserWithdrawalRequest,
         SP!containsUserWithdrawalRequest, Storage!Cardinality,
         SP!Cardinality, Storage!swapToBanWasAlreadyDone,
         SP!swapToBanWasAlreadyDone, Storage!AlreadyStored, SP!AlreadyStored,
         Storage!AlreadyIngested, SP!AlreadyIngested,
         Storage!BalanceLock, SP!BalanceLock, Storage!SwapsLock,
         SP!SwapsLock, Storage!Free, SP!Free, Storage!Acquire, SP!Acquire,
         Storage!AcquireFirst, SP!AcquireFirst, Storage!MaySubmit,
         SP!MaySubmit, Storage!Call, SP!Call
<1>2. \A c \in Caller : Storage!Step(c) <=> SP!Step(c)
  BY DEF Storage!WriteTypes, SP!WriteTypes, Storage!Types, SP!Types,
         Storage!redisVars, SP!redisVars, Storage!callVars, SP!callVars,
         Storage!storageVars, SP!storageVars, Storage!Wallets, SP!Wallets,
         Storage!LockNames, SP!LockNames, Storage!Delta, SP!Delta,
         Storage!EventOf, SP!EventOf, Storage!swapToBanWasAlreadyDone,
         SP!swapToBanWasAlreadyDone, Storage!BalanceLock, SP!BalanceLock,
         Storage!SwapsLock, SP!SwapsLock, Storage!OuterLock, SP!OuterLock,
         Storage!Free, SP!Free, Storage!Acquire, SP!Acquire,
         Storage!AcquireFirst, SP!AcquireFirst, Storage!Unlocked,
         SP!Unlocked, Storage!Settle, SP!Settle, Storage!BeginLocking,
         SP!BeginLocking, Storage!LockBalance, SP!LockBalance,
         Storage!RetryLock, SP!RetryLock, Storage!GiveUp, SP!GiveUp,
         Storage!Recheck, SP!Recheck, Storage!Read, SP!Read,
         Storage!ReadFails, SP!ReadFails, Storage!UnlockRead, SP!UnlockRead,
         Storage!ReadyToWrite, SP!ReadyToWrite, Storage!NewBalance,
         SP!NewBalance, Storage!Write, SP!Write, Storage!WriteFails,
         SP!WriteFails, Storage!Release, SP!Release, Storage!Step, SP!Step
<1>3. Storage!LockNames = SP!LockNames
  BY DEF Storage!LockNames, SP!LockNames
<1>4. \A k \in SP!LockNames : Storage!Expire(k) <=> SP!Expire(k)
  BY DEF Storage!Expire, SP!Expire, Storage!Free, SP!Free, Storage!callVars,
         SP!callVars
<1>5. Storage!Crash <=> SP!Crash
  BY DEF Storage!Crash, SP!Crash, Storage!Free, SP!Free, Storage!LockNames,
         SP!LockNames
<1>6. UNCHANGED Storage!storageVars <=> UNCHANGED SP!storageVars
  BY DEF Storage!storageVars, SP!storageVars, Storage!redisVars,
         SP!redisVars, Storage!callVars, SP!callVars
<1> QED BY <1>1, <1>2, <1>3, <1>4, <1>5, <1>6

-----------------------------------------------------------------------------
(* What the steps of the worker and of its surroundings do to the storage. *)
LEMMA Callers ==
  /\ Worker \in Caller /\ Background \subseteq Caller /\ Reader \subseteq Caller
  /\ Worker \notin Background
  /\ \A w : PaymentsOf(w) \subseteq Requests /\ BalanceOf(w) \subseteq Requests
  /\ NoRequest \notin Requests
BY CallersAssumption, StorageAssumption
DEF PaymentsOf, BalanceOf, Storage!RequestsAssumption

LEMMA StorageMoves ==
  ASSUME TypeOK, WorkerInv, Next
  PROVE  \/ UNCHANGED storageVars
         \/ step = "store" /\ \E b \in Background : Storage!Call(b, block)
         \/ \E c \in Caller, r \in Requests : r.type = "balance" /\ Storage!Call(c, r)
         \/ \E c \in Caller : Storage!Step(c)
         \/ \E k \in Storage!LockNames : Storage!Expire(k)
         \/ Storage!Crash
<1>1. CASE \/ \E w \in Withdrawal : withdrawBAN(w)
           \/ \E j \in JobIds : Promote(j) \/ StartJob(j)
           \/ eventuallySendBan \/ sendBan \/ JobFails \/ RefillHotWallet
  BY <1>1 DEF withdrawBAN, Promote, StartJob, eventuallySendBan, sendBan, JobFails,
              RefillHotWallet
<1>2. CASE ReadBalance
  BY <1>2, Callers DEF ReadBalance, BalanceOf
<1>3. CASE BalanceStep \/ BalanceRead \/ BalanceFails
  BY <1>3, Callers DEF BalanceStep, Retry, BalanceRead, BalanceFails, Storage!Step
<1>4. CASE StoreWithdrawal
  BY <1>4 DEF StoreWithdrawal
<1>5. CASE LeaveStoreRunning
  BY <1>5, Callers DEF LeaveStoreRunning, Storage!Step
<1>6. CASE \E b \in Background : BackgroundStep(b)
  BY <1>6, Callers DEF BackgroundStep, Unawaited, Storage!Step
<1>7. CASE \E h \in Reader : HttpRead(h) \/ HttpStep(h)
  BY <1>7, Callers DEF HttpRead, HttpStep, Unawaited, Storage!Step
<1>8. CASE (\E k \in Storage!LockNames : ExpireLock(k)) \/ CrashRestart
  BY <1>8 DEF ExpireLock, CrashRestart
<1> QED BY <1>1, <1>2, <1>3, <1>4, <1>5, <1>6, <1>7, <1>8 DEF Next, WorkerStep

(* So every step is a step of the storage or leaves it alone.              *)
LEMMA StorageRefined ==
  ASSUME TypeOK, WorkerInv, [Next]_vars
  PROVE  [SP!Next]_SP!storageVars /\ [Storage!Next]_Storage!storageVars
<1>1. CASE UNCHANGED storageVars \/ UNCHANGED vars
  BY <1>1, SameSteps
  DEF vars, storageVars, Storage!storageVars, Storage!redisVars, Storage!callVars
<1>2. CASE step = "store" /\ \E b \in Background : Storage!Call(b, block)
  <2>1. PICK b \in Background : Storage!Call(b, block)
    BY <1>2
  <2>2. block \in Requests /\ b \in Caller
    BY <1>2, Callers DEF WorkerInv
  <2> QED BY <2>1, <2>2, SameSteps DEF Storage!Next, SP!Next
<1>3. CASE \E c \in Caller, r \in Requests : r.type = "balance" /\ Storage!Call(c, r)
  BY <1>3, SameSteps DEF Storage!Next, SP!Next
<1>4. CASE \/ \E c \in Caller : Storage!Step(c)
           \/ \E k \in Storage!LockNames : Storage!Expire(k)
           \/ Storage!Crash
  BY <1>4, SameSteps DEF Storage!Next, SP!Next
<1> QED BY <1>1, <1>2, <1>3, <1>4, StorageMoves

LEMMA StorageTypes ==
  ASSUME TypeOK, WorkerInv, [Next]_vars PROVE Storage!TypeOK'
<1>1. SP!TypeOK
  BY SameStates DEF TypeOK
<1> QED BY <1>1, SameAssumptions, SameStates, StorageRefined, SP!TypeOKStep

-----------------------------------------------------------------------------
(* Types, and the worker with its queue.                                   *)
QueueTypes ==
  /\ job \in [JobIds -> JobStates]
  /\ made \in [JobIds -> 0..Attempts]
  /\ current \in JobIds \cup {NoJob}
  /\ step \in StepNames
  /\ block \in Requests \cup {NoRequest}
  /\ hot \in Nat
  /\ paid \subseteq Requests
  /\ refused \subseteq Withdrawal
  /\ refills \in 0..MaxRefills
  /\ crashes \in 0..MaxCrashes

LEMMA TypesSplit ==
  /\ TypeOK <=> Storage!TypeOK /\ QueueTypes
  /\ TypeOK' <=> Storage!TypeOK' /\ QueueTypes'
BY DEF TypeOK, QueueTypes

LEMMA Jobs ==
  /\ NoJob \notin JobIds
  /\ \A j \in JobIds : j[1] \in Withdrawal /\ j[2] \in 0..MaxAttempt /\ j = <<j[1], j[2]>>
  /\ \A w \in Withdrawal, n \in 0..MaxAttempt : <<w, n>> \in JobIds
BY WithdrawalsAssumption DEF JobIds

(* A job that throws.                                                      *)
LEMMA FailTypes ==
  ASSUME QueueTypes, WorkerInv, NEW j \in JobIds, job[j] # "failed", Fail(j)
  PROVE  /\ job' \in [JobIds -> JobStates] /\ made' \in [JobIds -> 0..Attempts]
         /\ job'[j] \in {"delayed", "failed", "none"}
         /\ \A i \in JobIds : i # j => job'[i] = job[i] /\ made'[i] = made[i]
         /\ job'[j] # "failed" => made'[j] < Attempts
<1>1. made[j] \in 0..2
  BY DEF QueueTypes, WorkerInv, Attempts
<1>2. job' \in [JobIds -> JobStates] /\ made' \in [JobIds -> 0..Attempts]
  BY <1>1 DEF Fail, QueueTypes, JobStates, Attempts
<1>3. /\ job'[j] \in {"delayed", "failed", "none"}
      /\ \A i \in JobIds : i # j => job'[i] = job[i] /\ made'[i] = made[i]
  BY DEF Fail, QueueTypes
<1>4. job'[j] # "failed" => made'[j] < Attempts
  BY <1>1 DEF Fail, QueueTypes, MoreAttempts, Attempts
<1> QED BY <1>2, <1>3, <1>4

(* The worker's job throws and leaves it free.                             *)
LEMMA FailStep ==
  ASSUME QueueTypes, WorkerInv, current # NoJob, Fail(current), WorkerFree,
         UNCHANGED <<walletVars, crashes>>, refused' \subseteq Withdrawal
  PROVE  QueueTypes' /\ WorkerInv'
<1>1. current \in JobIds /\ job[current] = "active"
  BY DEF QueueTypes, WorkerInv
<1>2. /\ job' \in [JobIds -> JobStates] /\ made' \in [JobIds -> 0..Attempts]
      /\ job'[current] \in {"delayed", "failed", "none"}
      /\ \A i \in JobIds : i # current => job'[i] = job[i] /\ made'[i] = made[i]
      /\ job'[current] # "failed" => made'[current] < Attempts
  BY <1>1, FailTypes
<1>3. QueueTypes'
  BY <1>2 DEF QueueTypes, WorkerFree, StepNames, walletVars
<1>4. \A j \in JobIds : job'[j] # "active"
  BY <1>1, <1>2 DEF WorkerInv
<1>5. \A j \in JobIds : job'[j] # "failed" => made'[j] < Attempts
  BY <1>2 DEF WorkerInv
<1> QED BY <1>3, <1>4, <1>5, Jobs DEF WorkerInv, WorkerFree

LEMMA RefuseType ==
  ASSUME QueueTypes, NEW j \in JobIds, Refuse(j) PROVE refused' \subseteq Withdrawal
BY Jobs DEF QueueTypes, Refuse

(* Steps that go on with the job the worker has.                           *)
LEMMA GoOn ==
  ASSUME QueueTypes, WorkerInv, step # "none", UNCHANGED <<made, current, refused, crashes>>,
         job' \in [JobIds -> JobStates],
         \A j \in JobIds : \/ job'[j] = job[j]
                           \/ {job[j], job'[j]} \cap {"active", "failed"} = {},
         step' \in StepNames \ {"none"}, UNCHANGED <<walletVars, block>>,
         step' \in {"balance", "hot", "send"} => block = NoRequest,
         step' = "store" => block \in Requests,
         step' = "result" /\ block = NoRequest => current[2] = 0
  PROVE  QueueTypes' /\ WorkerInv'
<1>1. QueueTypes'
  BY DEF QueueTypes, walletVars
<1>2. \A j \in JobIds : /\ job'[j] = "active" <=> job[j] = "active"
                        /\ job'[j] = "failed" <=> job[j] = "failed"
  OBVIOUS
<1> QED BY <1>1, <1>2 DEF WorkerInv, walletVars

LEMMA QueueStep ==
  ASSUME QueueTypes, WorkerInv, Next
  PROVE  QueueTypes' /\ WorkerInv'
<1>0. /\ step # "none" => current \in JobIds /\ current # NoJob
      /\ NoJob \notin JobIds
  BY Jobs DEF QueueTypes, WorkerInv
<1>1. ASSUME NEW w \in Withdrawal, withdrawBAN(w) PROVE QueueTypes' /\ WorkerInv'
  <2>1. <<w, 0>> \in JobIds
    BY Jobs, WithdrawalsAssumption
  <2> QED
    BY <1>1, <2>1
    DEF withdrawBAN, Add, QueueTypes, JobStates, WorkerInv, workerVars, walletVars
<1>2. ASSUME NEW j \in JobIds, Promote(j) PROVE QueueTypes' /\ WorkerInv'
  BY <1>2 DEF Promote, QueueTypes, JobStates, WorkerInv, workerVars, walletVars
<1>3. ASSUME NEW j \in JobIds, StartJob(j) PROVE QueueTypes' /\ WorkerInv'
  <2>0. /\ current = NoJob /\ job[j] = "waiting" /\ step = "none" /\ block = NoRequest
        /\ UNCHANGED <<walletVars, crashes>>
    BY <1>3 DEF StartJob, WorkerInv
  <2>1. CASE Fail(j) /\ refused' \subseteq Withdrawal /\ UNCHANGED workerVars
    <3>1. /\ job' \in [JobIds -> JobStates] /\ made' \in [JobIds -> 0..Attempts]
          /\ job'[j] \in {"delayed", "failed", "none"}
          /\ \A i \in JobIds : i # j => job'[i] = job[i] /\ made'[i] = made[i]
          /\ job'[j] # "failed" => made'[j] < Attempts
      BY <2>0, <2>1, FailTypes
    <3>2. QueueTypes'
      BY <2>0, <2>1, <3>1 DEF QueueTypes, workerVars, walletVars
    <3> QED BY <2>0, <2>1, <3>1, <3>2, <1>0 DEF WorkerInv, workerVars
  <2>2. CASE /\ job' = [job EXCEPT ![j] = "active"]
             /\ current' = j /\ step' = "balance"
             /\ UNCHANGED <<block, made, refused>>
    <3>1. QueueTypes'
      BY <2>0, <2>2 DEF QueueTypes, JobStates, StepNames, walletVars
    <3> QED BY <2>0, <2>2, <3>1, <1>0 DEF QueueTypes, WorkerInv
  <2>3. refused' = refused \/ Refuse(j) => refused' \subseteq Withdrawal
    BY RefuseType DEF QueueTypes
  <2> QED BY <1>3, <2>1, <2>2, <2>3 DEF StartJob
<1>4. CASE ReadBalance
  BY <1>4, GoOn DEF ReadBalance, QueueTypes, WorkerInv, queueVars, workerVars, StepNames
<1>5. CASE BalanceStep \/ (\E b \in Background : BackgroundStep(b))
           \/ (\E h \in Reader : HttpRead(h) \/ HttpStep(h))
           \/ (\E k \in Storage!LockNames : ExpireLock(k))
  BY <1>5
  DEF BalanceStep, BackgroundStep, HttpRead, HttpStep, ExpireLock, QueueTypes, WorkerInv,
      queueVars, workerVars, walletVars
<1>6. CASE BalanceRead
  <2>1. CASE step' = "hot" /\ step = "balance" /\ UNCHANGED <<queueVars, current, block, refused>>
    BY <1>6, <2>1, GoOn DEF BalanceRead, QueueTypes, WorkerInv, queueVars, StepNames
  <2>2. CASE step = "balance" /\ Fail(current) /\ Refuse(current) /\ WorkerFree
    BY <1>0, <1>6, <2>2, FailStep, RefuseType DEF BalanceRead
  <2>3. CASE /\ step = "result" /\ job' = [job EXCEPT ![current] = "completed"]
             /\ WorkerFree /\ UNCHANGED <<made, refused>>
    BY <1>0, <1>6, <2>3
    DEF BalanceRead, WorkerFree, QueueTypes, JobStates, StepNames, WorkerInv, walletVars
  <2> QED BY <1>6, <2>1, <2>2, <2>3 DEF BalanceRead
<1>7. CASE eventuallySendBan
  <2>0. step = "hot" /\ current \in JobIds /\ block = NoRequest
        /\ UNCHANGED <<walletVars, refused, crashes>>
    BY <1>0, <1>7 DEF eventuallySendBan, WorkerInv
  <2>1. CASE step' = "send" /\ UNCHANGED <<queueVars, current, block>>
    BY <2>0, <2>1, GoOn DEF QueueTypes, queueVars, StepNames
  <2>2. CASE /\ current[2] = 0 /\ job' = Add(PendingId(current[1], 1), "delayed")
             /\ step' = "result" /\ UNCHANGED <<made, current, block>>
    <3>1. job' \in [JobIds -> JobStates]
      BY <2>2 DEF Add, QueueTypes, JobStates
    <3>2. \A j \in JobIds : \/ job'[j] = job[j]
                            \/ {job[j], job'[j]} \cap {"active", "failed"} = {}
      BY <2>2 DEF Add, QueueTypes
    <3> QED BY <2>0, <2>2, <3>1, <3>2, GoOn DEF QueueTypes, StepNames
  <2>3. ASSUME NEW j, j = PendingId(current[1], current[2] + 1),
               made' = [made EXCEPT ![current] = IF MoreAttempts(current) THEN @ + 1 ELSE 0],
               job' = [job EXCEPT
                         ![j] = IF @ = "none" THEN "delayed" ELSE @,
                         ![current] = IF MoreAttempts(current) THEN "delayed" ELSE "none"],
               WorkerFree
        PROVE  QueueTypes' /\ WorkerInv'
    <3>1. job[current] = "active" /\ made[current] \in 0..2
      BY <2>0, <1>0 DEF WorkerInv, QueueTypes, Attempts
    <3>2. job' \in [JobIds -> JobStates] /\ made' \in [JobIds -> 0..Attempts]
      <4> DEFINE f == [job EXCEPT ![j] = IF @ = "none" THEN "delayed" ELSE @]
      <4>1. f \in [JobIds -> JobStates]
        BY DEF QueueTypes, JobStates
      <4>2. job' = [f EXCEPT ![current] = IF MoreAttempts(current) THEN "delayed" ELSE "none"]
        BY <2>3
      <4> HIDE DEF f
      <4>3. job' \in [JobIds -> JobStates]
        BY <4>1, <4>2 DEF JobStates
      <4>4. made' \in [JobIds -> 0..Attempts]
        <5> DEFINE n == IF MoreAttempts(current) THEN made[current] + 1 ELSE 0
        <5>1. n \in 0..Attempts
          BY <3>1 DEF Attempts
        <5>2. made' = [made EXCEPT ![current] = n]
          BY <2>3
        <5> HIDE DEF n
        <5> QED BY <5>1, <5>2 DEF QueueTypes
      <4> QED BY <4>3, <4>4
    <3>3. \A i \in JobIds : i # current => /\ made'[i] = made[i]
                                           /\ job'[i] = "active" => job[i] = "active"
                                           /\ job'[i] = "failed" <=> job[i] = "failed"
      BY <2>3 DEF QueueTypes
    <3>4. job'[current] \in {"delayed", "none"} /\ made'[current] < Attempts
      BY <2>0, <2>3, <3>1 DEF QueueTypes, MoreAttempts, Attempts
    <3>5. QueueTypes'
      BY <2>0, <2>3, <3>2 DEF QueueTypes, WorkerFree, StepNames, walletVars
    <3>6. \A i \in JobIds : job'[i] # "active"
      BY <3>3, <3>4 DEF WorkerInv
    <3>7. \A i \in JobIds : job'[i] # "failed" => made'[i] < Attempts
      BY <3>3, <3>4 DEF WorkerInv
    <3> QED BY <1>0, <2>3, <3>5, <3>6, <3>7 DEF WorkerInv, WorkerFree
  <2> QED BY <1>7, <2>1, <2>2, <2>3 DEF eventuallySendBan
<1>8. CASE sendBan
  <2>0. PICK r \in FreshPayments(current[1]) : paid' = paid \cup {r} /\ block' = r
    BY <1>8 DEF sendBan
  <2>1. /\ r \in Requests /\ r \in PaymentsOf(current[1]) /\ current[1] = current'[1]
        /\ r.amount = current[1].amount /\ r.amount \in Nat
    BY <1>8, StorageAssumption
    DEF sendBan, FreshPayments, PaymentsOf, Storage!RequestsAssumption
  <2>2. QueueTypes'
    BY <1>8, <2>0, <2>1 DEF sendBan, QueueTypes, queueVars, StepNames
  <2>3. block' \in paid' \cap PaymentsOf(current'[1])
    BY <2>0, <2>1
  <2> QED BY <1>8, <2>0, <2>1, <2>2, <2>3, Callers DEF sendBan, WorkerInv, queueVars
<1>9. CASE JobFails \/ BalanceFails
  <2>1. CASE current = NoJob
    <3>1. Fail(NoJob) /\ WorkerFree /\ UNCHANGED <<walletVars, refused, crashes>>
      BY <1>9, <2>1 DEF JobFails, BalanceFails
    <3>2. UNCHANGED <<job, made>>
      BY <1>0, <3>1 DEF Fail, QueueTypes
    <3> QED BY <1>0, <2>1, <3>1, <3>2
        DEF QueueTypes, WorkerInv, WorkerFree, walletVars, StepNames
  <2>2. CASE current # NoJob
    BY <1>9, <2>2, FailStep DEF JobFails, BalanceFails, QueueTypes
  <2> QED BY <2>1, <2>2
<1>10. CASE StoreWithdrawal \/ LeaveStoreRunning
  BY <1>10, GoOn, Callers
  DEF StoreWithdrawal, LeaveStoreRunning, QueueTypes, WorkerInv, queueVars, StepNames
<1>11. CASE RefillHotWallet
  BY <1>11, WithdrawalsAssumption
  DEF RefillHotWallet, QueueTypes, WorkerInv, queueVars, workerVars
<1>12. CASE CrashRestart
  BY <1>0, <1>12, WithdrawalsAssumption
  DEF CrashRestart, WorkerFree, QueueTypes, JobStates, StepNames, WorkerInv, walletVars
<1> QED
  BY <1>1, <1>2, <1>3, <1>4, <1>5, <1>6, <1>7, <1>8, <1>9, <1>10, <1>11, <1>12
  DEF Next, WorkerStep

-----------------------------------------------------------------------------
(* What is in the history was paid.                                        *)

(* The storage gets to know what a call in flight carries, and a call that *)
(* begins carries the worker's payment, or nothing that is written.        *)
LEMMA StorageGains ==
  ASSUME TypeOK, WorkerInv, Next, NEW r \in Requests, r.type = "withdrawal"
  PROVE  /\ Storage!EventOf(r) \in audit'
              => Storage!EventOf(r) \in audit \/ \E c \in Caller : req[c] = r
         /\ (\E c \in Caller : req'[c] = r)
              => (\E c \in Caller : req[c] = r) \/ (step = "store" /\ block = r)
<1>0. SP!TypeOK
  BY SameStates DEF TypeOK
<1>1. CASE UNCHANGED storageVars
  BY <1>1 DEF storageVars
<1>2. CASE step = "store" /\ \E b \in Background : Storage!Call(b, block)
  <2>1. PICK b \in Background : Storage!Call(b, block)
    BY <1>2
  <2>2. block \in Requests /\ b \in Caller /\ SP!Call(b, block)
    BY <1>2, <2>1, Callers, SameSteps DEF WorkerInv
  <2>3. /\ \A c \in Caller : req'[c] = req[c] \/ (c = b /\ req'[c] = block)
        /\ audit' = audit
    BY <1>0, <2>2, SameAssumptions, SP!CallKeeps
  <2> QED BY <1>2, <2>3
<1>3. CASE \E c \in Caller, q \in Requests : q.type = "balance" /\ Storage!Call(c, q)
  <2>1. PICK c \in Caller, q \in Requests : q.type = "balance" /\ Storage!Call(c, q)
    BY <1>3
  <2>2. SP!Call(c, q)
    BY <2>1, SameSteps
  <2>3. /\ \A d \in Caller : req'[d] = req[d] \/ (d = c /\ req'[d] = q)
        /\ audit' = audit
    BY <1>0, <2>2, SameAssumptions, SP!CallKeeps
  <2>4. q # r
    BY <2>1
  <2> QED BY <2>3, <2>4
<1>4. CASE \E c \in Caller : Storage!Step(c)
  <2>1. PICK c \in Caller : SP!Step(c)
    BY <1>4, SameSteps
  <2>2. /\ \A d \in Caller : req'[d] = req[d] \/ req'[d] = NoRequest
        /\ audit' = audit \/ (SP!Write(c) /\ audit' = audit \cup {SP!EventOf(req[c])})
        /\ pc[c] # "idle" /\ req[c] \in Requests
    BY <1>0, <2>1, SameAssumptions, SP!StepKeeps
  <2>3. SP!EventOf(r) = SP!EventOf(req[c]) => r = req[c]
    BY <2>2, SameAssumptions, SP!EventOfInjective DEF SP!WriteTypes
  <2>4. Storage!EventOf(r) = SP!EventOf(r)
    BY DEF Storage!EventOf, SP!EventOf
  <2> QED BY <2>2, <2>3, <2>4, Callers
<1>5. CASE \/ \E k \in Storage!LockNames : Storage!Expire(k)
           \/ Storage!Crash
  BY <1>5, Callers DEF Storage!Expire, Storage!callVars, Storage!Crash
<1> QED BY <1>1, <1>2, <1>3, <1>4, <1>5, StorageMoves

(* Payments are added one by one, by the worker.                           *)
LEMMA PaidGrows ==
  ASSUME Next
  PROVE  paid' = paid \/ (sendBan /\ \E r \in FreshPayments(current[1]) : paid' = paid \cup {r})
BY DEF Next, WorkerStep, withdrawBAN, Promote, StartJob, ReadBalance, BalanceStep,
       BalanceRead, BalanceFails, eventuallySendBan, sendBan, JobFails, StoreWithdrawal,
       LeaveStoreRunning, BackgroundStep, HttpRead, HttpStep, RefillHotWallet, ExpireLock,
       CrashRestart, walletVars

LEMMA SourceStep ==
  ASSUME TypeOK, WorkerInv, SourceInv, Next PROVE SourceInv'
<1>0. paid \subseteq paid'
  BY PaidGrows
<1>1. ASSUME NEW r \in Requests, r.type = "withdrawal",
             Storage!EventOf(r) \in audit' \/ \E c \in Caller : req'[c] = r
      PROVE  r \in paid'
  <2>1. \/ Storage!EventOf(r) \in audit \/ \E c \in Caller : req[c] = r
        \/ step = "store" /\ block = r
    BY <1>1, StorageGains
  <2>2. step = "store" => block \in paid
    BY Callers DEF WorkerInv
  <2> QED BY <1>0, <1>1, <2>1, <2>2 DEF SourceInv
<1>2. ASSUME NEW r \in paid' PROVE \E w \in Withdrawal : r \in PaymentsOf(w)
  <2>1. CASE r \in paid
    BY <2>1 DEF SourceInv
  <2>2. CASE r \notin paid
    <3>1. r \in PaymentsOf(current[1]) /\ step = "send"
      BY <1>2, <2>2, PaidGrows DEF FreshPayments, sendBan
    <3> QED BY <3>1, Jobs DEF WorkerInv, TypeOK
  <2> QED BY <2>1, <2>2
<1> QED BY <1>1, <1>2 DEF SourceInv, Storage!EventOf

-----------------------------------------------------------------------------
(* No withdrawal is dropped, as long as nothing disturbs the worker.       *)

LEMMA SameCardinality == \A S : Storage!Cardinality(S) = Cardinality(S)
BY DEF Storage!Cardinality, Cardinality, Storage!IsFiniteSet, IsFiniteSet

(* Events at the time a withdrawal was asked for are its payments.         *)
LEMMA RecordsOf ==
  ASSUME TypeOK, SourceInv, DistinctTimes, NEW w \in Withdrawal, NEW e \in audit,
         e.type = "withdrawal", e.address = Lower[w.wallet], e.at = w.at
  PROVE  \E r \in PaymentsOf(w) : r \in paid /\ e = Storage!EventOf(r)
<1>1. PICK r \in Requests : e = Storage!EventOf(r)
  BY DEF TypeOK, Storage!TypeOK
<1>2. r.type = "withdrawal" /\ Lower[r.address] = Lower[w.wallet] /\ r.at = w.at
  BY <1>1 DEF Storage!EventOf
<1>3. r \in paid
  BY <1>1, <1>2 DEF SourceInv
<1>4. PICK v \in Withdrawal : r \in PaymentsOf(v)
  BY <1>3 DEF SourceInv
<1>5. v = w
  BY <1>2, <1>4 DEF PaymentsOf, DistinctTimes
<1> QED BY <1>1, <1>3, <1>4, <1>5

LEMMA AlreadyPaid ==
  ASSUME TypeOK, SourceInv, DistinctTimes, NEW w \in Withdrawal, AlreadyProcessed(w)
  PROVE  Paid(w) /\ Recorded(w)
<1> DEFINE S == {e \in audit : /\ e.type = "withdrawal"
                               /\ e.address = Lower[w.wallet]
                               /\ e.at = w.at}
<1>1. Cardinality(S) = 1
  BY SameCardinality DEF AlreadyProcessed, Storage!containsUserWithdrawalRequest
<1>2. S # {}
  BY <1>1, FS_EmptySet
<1>3. PICK e \in S : TRUE
  BY <1>2
<1>4. \E r \in PaymentsOf(w) : r \in paid /\ e = Storage!EventOf(r)
  BY <1>3, RecordsOf
<1> QED BY <1>3, <1>4 DEF Paid, Recorded

Live == {"waiting", "delayed", "active"}

(* A withdrawal whose jobs all go on, or which is paid or refused, is not  *)
(* dropped.                                                                *)
LEMMA StillThere ==
  ASSUME NotDropped, NEW w \in Withdrawal, paid \subseteq paid', refused \subseteq refused',
         \/ /\ \A n \in 0..MaxAttempt : job[<<w, n>>] \in Live => job'[<<w, n>>] \in Live
            /\ job'[<<w, 0>>] # "none" => job[<<w, 0>>] # "none"
         \/ \E n \in 0..MaxAttempt : job'[<<w, n>>] \in Live
         \/ Paid(w)
         \/ w \in refused'
  PROVE  job'[<<w, 0>>] # "none" => Scheduled(w)' \/ Paid(w)' \/ w \in refused'
BY DEF NotDropped, Scheduled, Paid, Live

(* What a job that throws leaves behind.                                   *)
LEMMA FailLeaves ==
  ASSUME QueueTypes, NEW j \in JobIds, Fail(j)
  PROVE  /\ \A i \in JobIds : i # j => job'[i] = job[i]
         /\ job'[j] \in {"delayed", "failed", "none"}
         /\ MoreAttempts(j) => job'[j] = "delayed"
         /\ j[2] # 0 => job'[j] # "failed"
BY DEF QueueTypes, Fail

LEMMA ScheduleStep ==
  ASSUME Undisturbed, DistinctTimes, TypeOK, WorkerInv, SourceInv, ScheduleInv, Next
  PROVE  ScheduleInv'
<1> DEFINE Ends == \A w \in Withdrawal, n \in 1..MaxAttempt :
                     job[<<w, n>>] # "failed" /\ (job[<<w, n>>] = "completed" => Paid(w))
           Leaves == step = "result" =>
                       Paid(current[1]) \/ job[<<current[1], 1>>] \in {"waiting", "delayed"}
           Enough == step = "send" => hot >= current[1].amount
<1>0. /\ QueueTypes /\ Ends /\ Leaves /\ Enough /\ NotDropped
      /\ ScheduleInv' <=> Ends' /\ Leaves' /\ Enough' /\ NotDropped'
      /\ step # "none" => current \in JobIds /\ current # NoJob /\ job[current] = "active"
                          /\ current[1] \in Withdrawal /\ current[2] \in 0..MaxAttempt
                          /\ current = <<current[1], current[2]>>
      /\ NoJob \notin JobIds /\ 1 \in 0..MaxAttempt /\ 0 \in 0..MaxAttempt
      /\ 1..MaxAttempt \subseteq 0..MaxAttempt
      /\ hot \in Nat
  BY TypesSplit, Jobs, WithdrawalsAssumption DEF ScheduleInv, QueueTypes, WorkerInv
<1>p. \A w \in Withdrawal : Paid(w) => Paid(w)'
  BY PaidGrows DEF Paid
<1>j. \A w \in Withdrawal, n \in 0..MaxAttempt : <<w, n>> \in JobIds
  BY Jobs
<1>k. paid \subseteq paid'
  BY PaidGrows
<1> HIDE DEF Ends, Leaves, Enough
<1>1. ASSUME UNCHANGED <<job, current, step, refused>>, hot' >= hot, hot' \in Nat
      PROVE  ScheduleInv'
  <2>1. \A w \in Withdrawal : w.amount \in Int
    BY WithdrawalsAssumption
  <2>2. Enough'
    BY <1>0, <1>1, <2>1 DEF Enough
  <2>3. Ends' /\ Leaves'
    BY <1>0, <1>1, <1>p DEF Ends, Leaves
  <2>4. NotDropped'
    BY <1>0, <1>1, <1>p DEF NotDropped, Scheduled
  <2> QED BY <1>0, <2>2, <2>3, <2>4
<1>2. ASSUME NEW w \in Withdrawal, withdrawBAN(w) PROVE ScheduleInv'
  <2>1. /\ UNCHANGED <<current, step, hot, paid, refused>>
        /\ \A i \in JobIds : i # <<w, 0>> => job'[i] = job[i]
        /\ job'[<<w, 0>>] = IF job[<<w, 0>>] = "none" THEN "waiting" ELSE job[<<w, 0>>]
    BY <1>0, <1>2, <1>j DEF withdrawBAN, Add, QueueTypes, workerVars, walletVars
  <2>2. \A v \in Withdrawal, n \in 1..MaxAttempt : job'[<<v, n>>] = job[<<v, n>>]
    <3> SUFFICES ASSUME NEW v \in Withdrawal, NEW n \in 1..MaxAttempt
                 PROVE  job'[<<v, n>>] = job[<<v, n>>]
      OBVIOUS
    <3>1. <<v, n>> # <<w, 0>> /\ <<v, n>> \in JobIds
      BY <1>0, <1>j
    <3> QED BY <2>1, <3>1
  <2>3. Enough' /\ Ends' /\ Leaves'
    BY <1>0, <1>p, <2>1, <2>2 DEF Enough, Ends, Leaves
  <2>4. ASSUME NEW v \in Withdrawal
        PROVE  job'[<<v, 0>>] # "none" => Scheduled(v)' \/ Paid(v)' \/ v \in refused'
    <3>1. CASE v = w /\ job[<<w, 0>>] = "none"
      BY <1>0, <1>k, <2>1, <3>1, StillThere DEF Live
    <3>2. CASE ~ (v = w /\ job[<<w, 0>>] = "none")
      <4>1. \A n \in 0..MaxAttempt : job'[<<v, n>>] = job[<<v, n>>]
        BY <1>j, <2>1, <3>2
      <4> QED BY <1>0, <1>k, <2>1, <4>1, StillThere
    <3> QED BY <3>1, <3>2
  <2> QED BY <1>0, <2>3, <2>4 DEF NotDropped
<1>3. ASSUME NEW j \in JobIds, Promote(j) PROVE ScheduleInv'
  <2>1. /\ UNCHANGED <<current, step, hot, paid, refused>>
        /\ \A i \in JobIds : job'[i] = job[i] \/ (job[i] = "delayed" /\ job'[i] = "waiting")
    BY <1>0, <1>3 DEF Promote, QueueTypes, workerVars, walletVars
  <2>2. Enough' /\ Ends' /\ Leaves'
    BY <1>0, <1>j, <1>p, <2>1 DEF Enough, Ends, Leaves
  <2>3. ASSUME NEW v \in Withdrawal
        PROVE  job'[<<v, 0>>] # "none" => Scheduled(v)' \/ Paid(v)' \/ v \in refused'
    BY <1>0, <1>j, <1>k, <2>1, StillThere DEF Live
  <2> QED BY <1>0, <2>2, <2>3 DEF NotDropped
<1>4. ASSUME NEW j \in JobIds, j[1] \in Withdrawal, j[2] \in 0..MaxAttempt, j = <<j[1], j[2]>>,
             Fail(j), WorkerFree \/ (step = "none" /\ UNCHANGED workerVars),
             UNCHANGED walletVars,
             refused \subseteq refused', MoreAttempts(j) \/ Paid(j[1]) \/ j[1] \in refused'
      PROVE  ScheduleInv'
  <2>1. /\ \A i \in JobIds : i # j => job'[i] = job[i]
        /\ job'[j] \in {"delayed", "failed", "none"}
        /\ MoreAttempts(j) => job'[j] = "delayed"
        /\ j[2] # 0 => job'[j] # "failed"
    BY <1>0, <1>4, FailLeaves
  <2>2. \A v \in Withdrawal, n \in 0..MaxAttempt : <<v, n>> # j => job'[<<v, n>>] = job[<<v, n>>]
    BY <1>j, <2>1
  <2>3. \A v \in Withdrawal, n \in 1..MaxAttempt : <<v, n>> = j => job'[<<v, n>>] \in {"delayed", "none"}
    BY <2>1
  <2>4. Ends'
    BY <1>0, <1>p, <2>2, <2>3 DEF Ends
  <2>5. Enough' /\ Leaves'
    BY <1>4 DEF Enough, Leaves, WorkerFree, workerVars
  <2>6. ASSUME NEW v \in Withdrawal
        PROVE  job'[<<v, 0>>] # "none" => Scheduled(v)' \/ Paid(v)' \/ v \in refused'
    <3>1. CASE v = j[1]
      <4>1. MoreAttempts(j) => job'[<<v, j[2]>>] \in Live
        BY <1>4, <2>1, <3>1 DEF Live
      <4> QED BY <1>0, <1>4, <1>k, <3>1, <4>1, StillThere
    <3>2. CASE v # j[1]
      <4>1. \A n \in 0..MaxAttempt : job'[<<v, n>>] = job[<<v, n>>]
        BY <1>4, <2>2, <3>2
      <4> QED BY <1>0, <1>4, <1>k, <4>1, StillThere
    <3> QED BY <3>1, <3>2
  <2> QED BY <1>0, <2>4, <2>5, <2>6 DEF NotDropped
<1>5. ASSUME NEW j \in JobIds, StartJob(j) PROVE ScheduleInv'
  <2>0. j[1] \in Withdrawal /\ j[2] \in 0..MaxAttempt /\ j = <<j[1], j[2]>>
    BY Jobs
  <2>1. current = NoJob /\ step = "none" /\ UNCHANGED walletVars
    BY <1>5 DEF StartJob, WorkerInv
  <2>2. CASE AlreadyProcessed(j[1]) /\ Fail(j) /\ UNCHANGED <<refused, workerVars>>
    BY <1>4, <2>0, <2>1, <2>2, AlreadyPaid
  <2>3. CASE Fail(j) /\ Refuse(j) /\ UNCHANGED workerVars
    BY <1>4, <2>0, <2>1, <2>3 DEF Refuse
  <2>4. CASE /\ job' = [job EXCEPT ![j] = "active"]
             /\ current' = j /\ step' = "balance" /\ UNCHANGED refused
    <3>1. /\ \A v \in Withdrawal, n \in 0..MaxAttempt :
               /\ <<v, n>> # j => job'[<<v, n>>] = job[<<v, n>>]
               /\ <<v, n>> = j => job'[<<v, n>>] = "active" /\ job[<<v, n>>] = "waiting"
      BY <1>0, <1>5, <1>j, <2>4 DEF QueueTypes, StartJob
    <3>2. Enough' /\ Ends' /\ Leaves'
      BY <1>0, <1>p, <2>4, <3>1 DEF Enough, Ends, Leaves
    <3>3. ASSUME NEW v \in Withdrawal
          PROVE  job'[<<v, 0>>] # "none" => Scheduled(v)' \/ Paid(v)' \/ v \in refused'
      <4>1. /\ \A n \in 0..MaxAttempt : job[<<v, n>>] \in Live => job'[<<v, n>>] \in Live
            /\ job'[<<v, 0>>] # "none" => job[<<v, 0>>] # "none"
        BY <1>0, <3>1 DEF Live
      <4> QED BY <1>0, <1>k, <2>4, <4>1, StillThere
    <3> QED BY <1>0, <3>2, <3>3 DEF NotDropped
  <2> QED BY <1>5, <2>2, <2>3, <2>4 DEF StartJob, Undisturbed
<1>6. CASE BalanceRead
  <2>0. UNCHANGED <<walletVars, hot>>
    BY <1>6 DEF BalanceRead, walletVars
  <2>1. CASE step' = "hot" /\ UNCHANGED <<queueVars, current, refused>>
    <3>1. Enough' /\ Ends' /\ Leaves'
      BY <1>0, <1>p, <2>0, <2>1 DEF Enough, Ends, Leaves, queueVars
    <3>2. NotDropped'
      BY <1>0, <1>p, <2>1 DEF NotDropped, Scheduled, queueVars
    <3> QED BY <1>0, <3>1, <3>2
  <2>2. CASE step = "balance" /\ Fail(current) /\ Refuse(current) /\ WorkerFree
    <3>1. refused \subseteq refused' /\ (MoreAttempts(current) \/ current[1] \in refused')
      BY <2>2 DEF Refuse
    <3> QED BY <1>0, <1>4, <2>0, <2>2, <3>1
  <2>3. CASE /\ step = "result" /\ job' = [job EXCEPT ![current] = "completed"]
             /\ WorkerFree /\ UNCHANGED refused
    <3>1. \A v \in Withdrawal, n \in 0..MaxAttempt :
            /\ <<v, n>> # current => job'[<<v, n>>] = job[<<v, n>>]
            /\ <<v, n>> = current => job'[<<v, n>>] = "completed" /\ job[<<v, n>>] = "active"
      BY <1>0, <1>j, <2>3 DEF QueueTypes
    <3>2. current[2] # 0 => Paid(current[1])
      BY <2>3 DEF WorkerInv, Paid
    <3>3. Ends'
      <4> SUFFICES ASSUME NEW w \in Withdrawal, NEW n \in 1..MaxAttempt
                   PROVE  job'[<<w, n>>] # "failed" /\ (job'[<<w, n>>] = "completed" => Paid(w)')
        BY DEF Ends
      <4>1. CASE <<w, n>> = current
        <5>1. current[1] = w /\ current[2] # 0
          BY <4>1
        <5> QED BY <1>0, <1>p, <3>1, <3>2, <4>1, <5>1
      <4>2. CASE <<w, n>> # current
        BY <1>0, <1>p, <3>1, <4>2 DEF Ends
      <4> QED BY <4>1, <4>2
    <3>4. Enough' /\ Leaves'
      BY <2>3 DEF Enough, Leaves, WorkerFree
    <3>5. ASSUME NEW v \in Withdrawal
          PROVE  job'[<<v, 0>>] # "none" => Scheduled(v)' \/ Paid(v)' \/ v \in refused'
      <4>1. CASE v = current[1]
        <5>1. Paid(v) \/ job[<<v, 1>>] \in {"waiting", "delayed"}
          BY <1>0, <2>3, <4>1 DEF Leaves
        <5>2. job[<<v, 1>>] \in {"waiting", "delayed"} => job'[<<v, 1>>] \in Live
          BY <1>0, <3>1 DEF Live
        <5> QED BY <1>0, <1>k, <2>3, <5>1, <5>2, StillThere
      <4>2. CASE v # current[1]
        <5>1. \A n \in 0..MaxAttempt : job'[<<v, n>>] = job[<<v, n>>]
          BY <3>1, <4>2
        <5> QED BY <1>0, <1>k, <2>3, <5>1, StillThere
      <4> QED BY <4>1, <4>2
    <3> QED BY <1>0, <3>3, <3>4, <3>5 DEF NotDropped
  <2> QED BY <1>6, <2>1, <2>2, <2>3 DEF BalanceRead
<1>7. CASE eventuallySendBan
  <2>0. step = "hot" /\ UNCHANGED walletVars /\ UNCHANGED refused
    BY <1>7 DEF eventuallySendBan
  <2>1. CASE hot >= current[1].amount /\ step' = "send" /\ UNCHANGED <<queueVars, current>>
    <3>1. Enough' /\ Ends' /\ Leaves'
      BY <1>0, <1>p, <2>0, <2>1 DEF Enough, Ends, Leaves, queueVars, walletVars
    <3>2. NotDropped'
      BY <1>0, <1>p, <2>0, <2>1 DEF NotDropped, Scheduled, queueVars
    <3> QED BY <1>0, <3>1, <3>2
  <2>2. ASSUME NEW n \in 1..MaxAttempt, n = current[2] + 1,
               (current' = current /\ step' = "result" /\ n = 1) \/ WorkerFree,
               \A i \in JobIds : i # <<current[1], n>> /\ i # current => job'[i] = job[i],
               job'[<<current[1], n>>] =
                 IF job[<<current[1], n>>] = "none" THEN "delayed" ELSE job[<<current[1], n>>],
               job'[current] \in {"active", "delayed", "none"}
        PROVE  ScheduleInv'
    <3> DEFINE w == current[1]
               next == <<current[1], n>>
    <3>1. /\ w \in Withdrawal /\ next \in JobIds /\ current \in JobIds /\ current # next
          /\ job[next] \in JobStates \ {"active", "failed"}
          /\ job[next] = "completed" => Paid(w)
      BY <1>0, <1>j, <2>0, <2>2 DEF QueueTypes, WorkerInv, Ends
    <3>2. job'[next] \in {"waiting", "delayed"} \/ Paid(w)
      BY <2>2, <3>1 DEF JobStates
    <3>3. Ends'
      <4> SUFFICES ASSUME NEW v \in Withdrawal, NEW m \in 1..MaxAttempt
                   PROVE  job'[<<v, m>>] # "failed" /\ (job'[<<v, m>>] = "completed" => Paid(v)')
        BY DEF Ends
      <4>1. <<v, m>> \in JobIds
        BY <1>0, <1>j
      <4>2. job[<<v, m>>] # "failed" /\ (job[<<v, m>>] = "completed" => Paid(v)')
        BY <1>0, <1>p DEF Ends
      <4>3. CASE <<v, m>> = current
        BY <2>2, <4>3
      <4>4. CASE <<v, m>> = next
        BY <2>2, <4>2, <4>4
      <4>5. CASE <<v, m>> # current /\ <<v, m>> # next
        BY <2>2, <4>1, <4>2, <4>5
      <4> QED BY <4>3, <4>4, <4>5
    <3>4. Enough'
      BY <2>2 DEF Enough, WorkerFree
    <3>5. Leaves'
      BY <1>p, <2>2, <3>1, <3>2 DEF Leaves, WorkerFree
    <3>6. ASSUME NEW v \in Withdrawal
          PROVE  job'[<<v, 0>>] # "none" => Scheduled(v)' \/ Paid(v)' \/ v \in refused'
      <4>1. CASE v = w
        <5>1. Paid(v) \/ job'[<<v, n>>] \in Live
          BY <3>2, <4>1 DEF Live
        <5> QED BY <1>0, <1>k, <2>0, <5>1, StillThere
      <4>2. CASE v # w
        <5>1. \A m \in 0..MaxAttempt : <<v, m>> # next /\ <<v, m>> # current /\ <<v, m>> \in JobIds
          BY <1>0, <1>j, <2>0, <4>2
        <5>2. \A m \in 0..MaxAttempt : job'[<<v, m>>] = job[<<v, m>>]
          BY <2>2, <5>1
        <5> QED BY <1>0, <1>k, <2>0, <5>2, StillThere
      <4> QED BY <4>1, <4>2
    <3> QED BY <1>0, <3>3, <3>4, <3>5, <3>6 DEF NotDropped
  <2>3. CASE /\ current[2] = 0 /\ job' = Add(PendingId(current[1], 1), "delayed")
             /\ step' = "result" /\ current' = current
    <3>1. <<current[1], 1>> \in JobIds /\ <<current[1], 1>> # current /\ 1 \in 1..MaxAttempt
      BY <1>0, <1>j, <2>0, <2>3
    <3>2. /\ \A i \in JobIds : i # <<current[1], 1>> => job'[i] = job[i]
          /\ job'[<<current[1], 1>>] =
               IF job[<<current[1], 1>>] = "none" THEN "delayed" ELSE job[<<current[1], 1>>]
      BY <1>0, <2>3, <3>1 DEF Add, PendingId, QueueTypes
    <3>3. job'[current] = "active"
      BY <1>0, <2>0, <3>1, <3>2
    <3>4. 1 = current[2] + 1
      BY <2>3
    <3> QED BY <2>2, <2>3, <3>1, <3>2, <3>3, <3>4
  <2>4. ASSUME current[2] \in 1..(MaxAttempt - 1),
               NEW j, j = PendingId(current[1], current[2] + 1),
               job' = [job EXCEPT
                         ![j] = IF @ = "none" THEN "delayed" ELSE @,
                         ![current] = IF MoreAttempts(current) THEN "delayed" ELSE "none"],
               WorkerFree
        PROVE  ScheduleInv'
    <3>1. /\ j = <<current[1], current[2] + 1>> /\ current[2] + 1 \in 1..MaxAttempt
          /\ j \in JobIds /\ current \in JobIds /\ j # current
      <4>1. j = <<current[1], current[2] + 1>>
        BY <2>4 DEF PendingId
      <4>2. MaxAttempt \in Nat
        BY WithdrawalsAssumption
      <4>3. current[2] + 1 \in 1..MaxAttempt /\ current[2] + 1 # current[2]
        BY <2>4, <4>2
      <4>4. j \in JobIds
        BY <1>0, <1>j, <2>0, <4>1, <4>3
      <4>5. j # current
        BY <1>0, <2>0, <4>1, <4>3
      <4> QED BY <1>0, <2>0, <4>1, <4>3, <4>4, <4>5
    <3>2. /\ \A i \in JobIds : i # j /\ i # current => job'[i] = job[i]
          /\ job'[j] = IF job[j] = "none" THEN "delayed" ELSE job[j]
          /\ job'[current] \in {"delayed", "none"}
      BY <1>0, <2>4, <3>1 DEF QueueTypes
    <3> QED BY <2>2, <2>4, <3>1, <3>2
  <2> QED BY <1>7, <2>1, <2>3, <2>4 DEF eventuallySendBan
<1>8. CASE sendBan
  <2>1. step' = "store" /\ UNCHANGED <<job, current, refused>>
    BY <1>8 DEF sendBan, queueVars
  <2>2. Enough' /\ Ends' /\ Leaves'
    BY <1>0, <1>p, <2>1 DEF Enough, Ends, Leaves
  <2>3. NotDropped'
    BY <1>0, <1>p, <2>1 DEF NotDropped, Scheduled
  <2> QED BY <1>0, <2>2, <2>3
<1>9. CASE StoreWithdrawal \/ LeaveStoreRunning
  <2>1. /\ step = "store" /\ step' \in {"store", "result"}
        /\ UNCHANGED <<job, current, refused, hot>>
    BY <1>9 DEF StoreWithdrawal, LeaveStoreRunning, queueVars, walletVars
  <2>2. Paid(current[1])
    BY <1>0, <2>1, Callers DEF WorkerInv, Paid
  <2>3. Enough' /\ Ends' /\ Leaves'
    BY <1>0, <1>p, <2>1, <2>2 DEF Enough, Ends, Leaves
  <2>4. NotDropped'
    BY <1>0, <1>p, <2>1 DEF NotDropped, Scheduled
  <2> QED BY <1>0, <2>3, <2>4
<1>10. CASE \/ ReadBalance \/ BalanceStep
            \/ (\E b \in Background : BackgroundStep(b))
            \/ (\E h \in Reader : HttpRead(h) \/ HttpStep(h))
            \/ (\E k \in Storage!LockNames : ExpireLock(k))
            \/ RefillHotWallet
  <2>1. UNCHANGED <<job, current, step, refused>> /\ (hot' = hot \/ hot' = hot + Refill)
    BY <1>10 DEF ReadBalance, BalanceStep, BackgroundStep, HttpRead, HttpStep, ExpireLock,
                 RefillHotWallet, queueVars, workerVars, walletVars
  <2> QED BY <1>0, <1>1, <2>1, WithdrawalsAssumption
<1>11. CASE JobFails \/ BalanceFails
  <2>1. step = "send" /\ hot < current[1].amount
    BY <1>11 DEF JobFails, BalanceFails, Undisturbed
  <2>2. current[1].amount \in Int
    BY <1>0, <2>1, WithdrawalsAssumption
  <2> QED BY <1>0, <2>1, <2>2 DEF Enough
<1>12. CASE CrashRestart
  <2>1. /\ \A i \in JobIds : job'[i] = IF job[i] = "active" THEN "waiting" ELSE job[i]
        /\ step' = "none" /\ UNCHANGED refused
    BY <1>12 DEF CrashRestart, WorkerFree
  <2>2. \A v \in Withdrawal, n \in 0..MaxAttempt :
          job'[<<v, n>>] = IF job[<<v, n>>] = "active" THEN "waiting" ELSE job[<<v, n>>]
    BY <1>j, <2>1
  <2>3. Enough' /\ Ends' /\ Leaves'
    BY <1>0, <1>p, <2>1, <2>2 DEF Enough, Ends, Leaves
  <2>4. ASSUME NEW v \in Withdrawal
        PROVE  job'[<<v, 0>>] # "none" => Scheduled(v)' \/ Paid(v)' \/ v \in refused'
    <3>1. /\ \A n \in 0..MaxAttempt : job[<<v, n>>] \in Live => job'[<<v, n>>] \in Live
          /\ job'[<<v, 0>>] # "none" => job[<<v, 0>>] # "none"
      BY <1>0, <2>2 DEF Live
    <3> QED BY <1>0, <1>k, <2>1, <3>1, StillThere
  <2> QED BY <1>0, <2>3, <2>4 DEF NotDropped
<1> QED
  BY <1>2, <1>3, <1>5, <1>6, <1>7, <1>8, <1>9, <1>10, <1>11, <1>12 DEF Next, WorkerStep

-----------------------------------------------------------------------------
(* A withdrawal is paid once in each life of the process, from a balance   *)
(* that covers it, as long as the worker and its stores take turns.        *)

(* The invariant that UsersDepositsStorageProofs proves of the storage.    *)
LEMMA SameOnce ==
  /\ Storage!OnceInv <=> SP!OnceInv
  /\ Storage!OnceInv' <=> SP!OnceInv'
<1>1. Storage!HoldsOuterLock <=> SP!HoldsOuterLock
  BY DEF Storage!HoldsOuterLock, Storage!Holding, Storage!OuterLock, Storage!SwapsLock,
         Storage!BalanceLock, SP!HoldsOuterLock, SP!Holding, SP!OuterLock, SP!SwapsLock,
         SP!BalanceLock
<1>2. Storage!HoldsOuterLock' <=> SP!HoldsOuterLock'
  BY DEF Storage!HoldsOuterLock, Storage!Holding, Storage!OuterLock, Storage!SwapsLock,
         Storage!BalanceLock, SP!HoldsOuterLock, SP!Holding, SP!OuterLock, SP!SwapsLock,
         SP!BalanceLock
<1> QED
  BY <1>1, <1>2, SameStates
  DEF Storage!OnceInv, Storage!StagesMatchTypes, Storage!UnwrittenIsUnrecorded,
      Storage!Unwritten, Storage!SubmittedOnce, Storage!AppliedMatchesAudit,
      Storage!EventOf, Storage!WriteTypes, SP!OnceInv, SP!StagesMatchTypes,
      SP!UnwrittenIsUnrecorded, SP!Unwritten, SP!SubmittedOnce, SP!AppliedMatchesAudit,
      SP!EventOf, SP!WriteTypes

LEMMA OnceStep ==
  ASSUME Orderly, TypeOK, WorkerInv, Storage!OnceInv, [Next]_vars PROVE Storage!OnceInv'
BY SameAssumptions, SameOnce, StorageRefined, SP!OnceInvStep DEF Orderly, SP!CallsInTime

(* A withdrawal and the requests it makes go by one lock.                  *)
WalletLock(w) == <<"ban-balance", w.wallet>>

LEMMA OneLock ==
  ASSUME Orderly, NEW w \in Withdrawal, NEW r \in BalanceOf(w) \cup PaymentsOf(w)
  PROVE  /\ r \in Requests /\ r.type \in {"balance", "withdrawal"}
         /\ Lower[r.address] = w.wallet /\ Lower[w.wallet] = w.wallet
         /\ w.wallet \in Storage!Wallets
         /\ Storage!BalanceLock(r) = WalletLock(w) /\ Storage!OuterLock(r) = WalletLock(w)
         /\ WalletLock(w) \in Storage!LockNames
<1>1. /\ r \in Requests /\ r.type \in {"balance", "withdrawal"} /\ r.address = w.wallet
      /\ Lower[r.address] = r.address /\ r.address \in Address
  BY StorageAssumption
  DEF BalanceOf, PaymentsOf, Orderly, Storage!Canonical, Storage!RequestsAssumption
<1>2. Lower[r.address] \in Storage!Wallets
  BY <1>1, StorageAssumption DEF Storage!Wallets, Storage!LowerAssumption
<1> QED
  BY <1>1, <1>2
  DEF WalletLock, Storage!BalanceLock, Storage!OuterLock, Storage!LockNames

(* A payment of two withdrawals is of one.                                 *)
LEMMA OnePayer ==
  ASSUME DistinctTimes, NEW v \in Withdrawal, NEW w \in Withdrawal,
         NEW r \in PaymentsOf(v), r \in PaymentsOf(w)
  PROVE  v = w
BY DEF DistinctTimes, PaymentsOf

(* What each action that uses the storage does to it.                      *)
LEMMA Job ==
  ASSUME TypeOK, WorkerInv, step # "none"
  PROVE  current \in JobIds /\ current[1] \in Withdrawal
BY Jobs DEF TypeOK, WorkerInv

LEMMA PaymentOf ==
  ASSUME Orderly, TypeOK, WorkerInv, block # NoRequest
  PROVE  /\ block \in paid /\ block \in PaymentsOf(current[1])
         /\ current[1] \in Withdrawal /\ step \in {"store", "result"}
         /\ block \in Requests /\ block.type = "withdrawal" /\ block.at = current[1].at
         /\ block.address = current[1].wallet /\ block.amount = current[1].amount
         /\ block.amount \in Nat
         /\ Storage!BalanceLock(block) = WalletLock(current[1])
         /\ Storage!OuterLock(block) = WalletLock(current[1])
         /\ Lower[block.address] = current[1].wallet
<1>1. block \in paid /\ block \in PaymentsOf(current[1])
  BY DEF WorkerInv
<1>2. step \in {"store", "result"}
  BY DEF WorkerInv, TypeOK, StepNames
<1>3. current[1] \in Withdrawal
  BY <1>2, Job
<1>4. block \in Requests /\ block.type = "withdrawal" /\ block.at = current[1].at
      /\ block.address = current[1].wallet /\ block.amount = current[1].amount
      /\ block.amount \in Nat
  BY <1>1, StorageAssumption DEF PaymentsOf, Storage!RequestsAssumption
<1> QED BY <1>1, <1>2, <1>3, <1>4, OneLock

(* The worker's read: it asks for the lock, gets it, reads and gives back. *)
LEMMA ReadBalanceDoes ==
  ASSUME Orderly, TypeOK, WorkerInv, StoresInv, ReadBalance
  PROVE  /\ step \in {"balance", "result"} /\ pc[Worker] = "idle"
         /\ UNCHANGED <<queueVars, workerVars, walletVars, refused, crashes>>
         /\ UNCHANGED <<banBalance, audit, val>>
         /\ pc'[Worker] \in {"locked", "waiting"} /\ req'[Worker] \in BalanceOf(current[1])
         /\ \A c \in Caller : c # Worker => pc'[c] = pc[c] /\ req'[c] = req[c]
         /\ \A k \in Storage!LockNames : k # WalletLock(current[1]) => locks'[k] = locks[k]
<1>1. PICK r \in BalanceOf(current[1]) : Storage!Call(Worker, r)
  BY DEF ReadBalance
<1>2. step \in {"balance", "result"} /\ current[1] \in Withdrawal
  BY Job DEF ReadBalance
<1>3. r \in Requests /\ r.type = "balance" /\ Storage!BalanceLock(r) = WalletLock(current[1])
  BY <1>1, <1>2, OneLock DEF BalanceOf
<1>4. /\ Storage!AcquireFirst(Worker, r, 0) /\ req' = [req EXCEPT ![Worker] = r]
      /\ UNCHANGED <<banBalance, audit, val>> /\ pc[Worker] = "idle"
  BY <1>1, <1>3 DEF Storage!Call
<1>5. Storage!Acquire(Worker, WalletLock(current[1]), "locked", "waiting", 0)
  BY <1>3, <1>4 DEF Storage!AcquireFirst
<1> QED
  BY <1>1, <1>2, <1>4, <1>5, Callers DEF Storage!Acquire, TypeOK, Storage!TypeOK, ReadBalance

LEMMA BalanceStepDoes ==
  ASSUME Orderly, TypeOK, WorkerInv, StoresInv, BalanceStep
  PROVE  /\ step \in {"balance", "result"} /\ pc[Worker] # "idle"
         /\ UNCHANGED <<queueVars, workerVars, walletVars, refused, crashes>>
         /\ UNCHANGED <<banBalance, audit, req>>
         /\ pc'[Worker] \in {"locked", "waiting", "read"}
         /\ pc'[Worker] = "read" => val'[Worker] = banBalance[current[1].wallet]
         /\ \A c \in Caller : c # Worker => pc'[c] = pc[c] /\ val'[c] = val[c]
         /\ \A k \in Storage!LockNames : k # WalletLock(current[1]) => locks'[k] = locks[k]
<1>1. /\ UNCHANGED <<queueVars, workerVars, walletVars, refused, crashes>>
      /\ Storage!RetryLock(Worker) \/ Storage!Read(Worker)
  BY DEF BalanceStep, Retry
<1>2. pc[Worker] # "idle"
  BY <1>1 DEF Storage!RetryLock, Storage!Read
<1>3. /\ step \in {"balance", "result"} /\ req[Worker] \in BalanceOf(current[1])
      /\ pc[Worker] \in {"waiting", "locked", "read"} /\ current[1] \in Withdrawal
  BY <1>2, Job DEF StoresInv
<1>4. /\ req[Worker].type = "balance" /\ Lower[req[Worker].address] = current[1].wallet
      /\ Storage!BalanceLock(req[Worker]) = WalletLock(current[1])
  BY <1>3, OneLock DEF BalanceOf
<1>5. CASE Storage!RetryLock(Worker)
  <2>1. Storage!Acquire(Worker, WalletLock(current[1]), "locked", "waiting", tries[Worker] + 1)
        /\ UNCHANGED <<banBalance, audit, req, val>>
    BY <1>3, <1>4, <1>5 DEF Storage!RetryLock
  <2> QED BY <1>1, <1>2, <1>3, <2>1, Callers DEF Storage!Acquire, TypeOK, Storage!TypeOK
<1>6. CASE Storage!Read(Worker)
  <2>1. /\ pc' = [pc EXCEPT ![Worker] = "read"]
        /\ val' = [val EXCEPT ![Worker] = banBalance[current[1].wallet]]
        /\ UNCHANGED <<banBalance, audit, locks, req>>
    BY <1>4, <1>6 DEF Storage!Read, Storage!redisVars
  <2> QED BY <1>1, <1>2, <1>3, <2>1, Callers DEF TypeOK, Storage!TypeOK
<1> QED BY <1>1, <1>5, <1>6

LEMMA BalanceReadDoes ==
  ASSUME Orderly, TypeOK, WorkerInv, Storage!OnceInv, StoresInv, BalanceRead
  PROVE  /\ step \in {"balance", "result"} /\ pc[Worker] = "read"
         /\ UNCHANGED <<walletVars, crashes>> /\ UNCHANGED <<banBalance, audit>>
         /\ pc'[Worker] = "idle"
         /\ \A c \in Caller : c # Worker => pc'[c] = pc[c] /\ req'[c] = req[c] /\ val'[c] = val[c]
         /\ locks[WalletLock(current[1])] = Worker
         /\ locks' = [locks EXCEPT ![WalletLock(current[1])] = "free"]
         /\ \A b \in Background : pc[b] = "idle"
<1>1. Storage!Release(Worker) /\ UNCHANGED <<walletVars, crashes>>
  BY DEF BalanceRead
<1>2. pc[Worker] = "read" /\ step \in {"balance", "result"}
      /\ req[Worker] \in BalanceOf(current[1])
  BY <1>1 DEF Storage!Release, StoresInv
<1>3. current[1] \in Withdrawal
  BY <1>2, Job
<1>4. Storage!OuterLock(req[Worker]) = WalletLock(current[1])
  BY <1>2, <1>3, OneLock
<1>5. locks[WalletLock(current[1])] = Worker
  BY <1>2, <1>4, Callers DEF Storage!OnceInv, Storage!HoldsOuterLock, Storage!Holding
<1>6. /\ Storage!Settle(Worker) /\ UNCHANGED <<banBalance, audit>>
      /\ locks' = [locks EXCEPT ![WalletLock(current[1])] = "free"]
  BY <1>1, <1>4, <1>5 DEF Storage!Release, Storage!Unlocked
<1>7. ASSUME NEW b \in Background, pc[b] # "idle" PROVE FALSE
  <2>1. step = "result" /\ pc[b] \in {"locked", "read", "releasing"} /\ req[b] = block
    BY <1>2, <1>7 DEF StoresInv
  <2>2. req[b] # NoRequest
    BY <1>7, Callers DEF TypeOK, Storage!TypeOK
  <2>3. Storage!OuterLock(req[b]) = WalletLock(current[1])
    BY <2>1, <2>2, PaymentOf
  <2>4. locks[WalletLock(current[1])] = b
    BY <2>1, <2>3, Callers DEF Storage!OnceInv, Storage!HoldsOuterLock, Storage!Holding
  <2> QED BY <1>5, <2>4, Callers
<1> QED
  BY <1>1, <1>2, <1>5, <1>6, <1>7, Callers DEF Storage!Settle, TypeOK, Storage!TypeOK

(* The store: looked up, left running with the lock it got, and run.       *)
LEMMA StoreWithdrawalDoes ==
  ASSUME Orderly, TypeOK, WorkerInv, StoresInv, StoreWithdrawal
  PROVE  /\ step = "store" /\ block # NoRequest
         /\ UNCHANGED <<queueVars, current, block, walletVars, refused, crashes>>
         /\ UNCHANGED <<banBalance, audit, val, locks>>
         /\ \/ /\ UNCHANGED <<pc, req>> /\ step' = "result"
               /\ AlreadyProcessed(current[1])
            \/ /\ step' = "store"
               /\ \E b \in Background : /\ pc' = [pc EXCEPT ![b] = "checked"]
                                        /\ req' = [req EXCEPT ![b] = block]
<1>1. /\ step = "store" /\ block # NoRequest
      /\ UNCHANGED <<queueVars, current, block, walletVars, refused, crashes>>
  BY Callers DEF StoreWithdrawal, WorkerInv
<1>2. PICK b \in Background : /\ Storage!Call(b, block)
                              /\ step' = IF pc'[b] = "idle" THEN "result" ELSE step
  BY DEF StoreWithdrawal
<1>3. /\ block.type = "withdrawal" /\ block.address = current[1].wallet
      /\ block.at = current[1].at
  BY <1>1, PaymentOf
<1>4. UNCHANGED <<banBalance, audit, val, locks>> /\ pc[b] = "idle"
  BY <1>2, <1>3 DEF Storage!Call
<1>5. CASE Storage!AlreadyStored(block) /\ UNCHANGED <<pc, req>>
  BY <1>1, <1>2, <1>3, <1>4, <1>5
  DEF Storage!AlreadyStored, Storage!AlreadyIngested, AlreadyProcessed
<1>6. CASE pc' = [pc EXCEPT ![b] = "checked"] /\ req' = [req EXCEPT ![b] = block]
  <2>1. pc'[b] = "checked"
    BY <1>6, Callers DEF TypeOK, Storage!TypeOK
  <2> QED BY <1>1, <1>2, <1>4, <1>6, <2>1
<1> QED BY <1>2, <1>3, <1>5, <1>6 DEF Storage!Call

LEMMA LeaveStoreRunningDoes ==
  ASSUME Orderly, TypeOK, WorkerInv, StoresInv, LeaveStoreRunning
  PROVE  /\ step = "store" /\ step' = "result" /\ block # NoRequest
         /\ UNCHANGED <<queueVars, current, block, walletVars, refused, crashes>>
         /\ UNCHANGED <<banBalance, audit, val, req>>
         /\ \E b \in Background : /\ pc[b] = "checked"
                                  /\ pc' = [pc EXCEPT ![b] = "locked"]
<1>1. /\ step = "store" /\ step' = "result" /\ block # NoRequest
      /\ UNCHANGED <<queueVars, current, block, walletVars, refused, crashes>>
  BY Callers DEF LeaveStoreRunning, WorkerInv
<1>2. PICK b \in Background : pc[b] = "checked" /\ Storage!BeginLocking(b)
  BY DEF LeaveStoreRunning
<1>3. req[b] = block /\ locks[WalletLock(current[1])] = "free"
  BY <1>1, <1>2 DEF StoresInv, WalletLock
<1>4. Storage!BalanceLock(block) = WalletLock(current[1]) /\ block.type = "withdrawal"
  BY <1>1, PaymentOf
<1>5. /\ UNCHANGED <<banBalance, audit, req, val>>
      /\ Storage!Acquire(b, WalletLock(current[1]), "locked", "waiting", 0)
  BY <1>2, <1>3, <1>4 DEF Storage!BeginLocking, Storage!AcquireFirst
<1>6. pc' = [pc EXCEPT ![b] = "locked"]
  BY <1>3, <1>5 DEF Storage!Acquire, Storage!Free
<1> QED BY <1>1, <1>2, <1>5, <1>6

LEMMA BackgroundStepDoes ==
  ASSUME Orderly, TypeOK, WorkerInv, Storage!OnceInv, StoresInv,
         NEW b \in Background, BackgroundStep(b)
  PROVE  /\ step = "result" /\ block # NoRequest /\ req[b] = block
         /\ UNCHANGED <<queueVars, workerVars, walletVars, refused, crashes>>
         /\ \A c \in Caller : c # b => pc'[c] = pc[c] /\ req'[c] = req[c] /\ val'[c] = val[c]
         /\ \A d \in Background : d # b => pc[d] = "idle"
         /\ \/ /\ pc[b] = "locked" /\ pc'[b] = "read"
               /\ val'[b] = banBalance[current[1].wallet]
               /\ UNCHANGED <<banBalance, audit, req>>
            \/ /\ pc[b] = "read" /\ pc'[b] = "releasing"
               /\ audit' = audit \cup {Storage!EventOf(block)}
               /\ banBalance' = [banBalance EXCEPT ![current[1].wallet] =
                                                     val[b] - current[1].amount]
               /\ UNCHANGED req
            \/ /\ pc[b] = "releasing" /\ pc'[b] = "idle"
               /\ UNCHANGED <<banBalance, audit>>
<1>1. UNCHANGED <<queueVars, workerVars, walletVars, refused, crashes>> /\ Unawaited(b)
  BY DEF BackgroundStep
<1>2. pc[b] \notin {"idle", "checked"}
  BY <1>1 DEF Unawaited, Storage!RetryLock, Storage!Read, Storage!Write, Storage!Release,
              Storage!ReadyToWrite
<1>3. /\ req[b] = block /\ block # NoRequest /\ step = "result"
      /\ pc[b] \in {"locked", "read", "releasing"} /\ b \in Caller
  BY <1>2, Callers DEF StoresInv, TypeOK, Storage!TypeOK
<1>4. /\ block.type = "withdrawal" /\ block.amount = current[1].amount
      /\ block.amount \in Nat
      /\ Lower[block.address] = current[1].wallet
  BY <1>3, PaymentOf
<1>5. ASSUME NEW d \in Background, d # b, pc[d] # "idle" PROVE FALSE
  <2>1. req[d] = block /\ d \in Caller
    BY <1>5, Callers DEF StoresInv
  <2> QED BY <1>3, <1>4, <1>5, <2>1 DEF Storage!OnceInv, Storage!SubmittedOnce
<1>6. CASE Storage!RetryLock(b)
  BY <1>3, <1>6 DEF Storage!RetryLock
<1>7. CASE Storage!Read(b)
  <2>1. /\ pc[b] = "locked" /\ pc' = [pc EXCEPT ![b] = "read"]
        /\ val' = [val EXCEPT ![b] = banBalance[current[1].wallet]]
        /\ UNCHANGED <<banBalance, audit, req>>
    BY <1>3, <1>4, <1>7 DEF Storage!Read, Storage!redisVars
  <2> QED BY <1>1, <1>3, <1>5, <2>1 DEF TypeOK, Storage!TypeOK
<1>8. CASE Storage!Write(b)
  <2>1. /\ pc[b] = "read" /\ pc' = [pc EXCEPT ![b] = "releasing"]
        /\ audit' = audit \cup {Storage!EventOf(block)}
        /\ banBalance' = [banBalance EXCEPT ![current[1].wallet] = Storage!NewBalance(b)]
        /\ UNCHANGED <<req, val>>
    BY <1>3, <1>4, <1>8 DEF Storage!Write, Storage!ReadyToWrite
  <2>2. Storage!NewBalance(b) = val[b] - current[1].amount
    BY <1>3, <1>4 DEF Storage!NewBalance, Storage!Delta, TypeOK, Storage!TypeOK
  <2> QED BY <1>1, <1>3, <1>5, <2>1, <2>2 DEF TypeOK, Storage!TypeOK
<1>9. CASE Storage!Release(b)
  <2>1. pc[b] = "releasing" /\ Storage!Settle(b) /\ UNCHANGED <<banBalance, audit>>
    BY <1>3, <1>4, <1>9 DEF Storage!Release
  <2> QED BY <1>1, <1>3, <1>5, <2>1 DEF Storage!Settle, TypeOK, Storage!TypeOK
<1> QED BY <1>1, <1>6, <1>7, <1>8, <1>9 DEF Unawaited

(* What the other steps are, when nothing fails.                           *)
JobOnly ==
  \/ \E w \in Withdrawal : withdrawBAN(w)
  \/ \E j \in JobIds : Promote(j) \/ StartJob(j)
  \/ eventuallySendBan \/ sendBan \/ RefillHotWallet

LEMMA Steps ==
  ASSUME Orderly, TypeOK, WorkerInv, ScheduleInv, Next
  PROVE  \/ JobOnly
         \/ ReadBalance \/ BalanceStep \/ BalanceRead \/ StoreWithdrawal \/ LeaveStoreRunning
         \/ \E b \in Background : BackgroundStep(b)
         \/ \E k \in Storage!LockNames : ExpireLock(k)
         \/ CrashRestart
<1>1. ~BalanceFails
  BY DEF BalanceFails, Orderly, Undisturbed
<1>2. ~JobFails
  <2> SUFFICES ASSUME JobFails PROVE FALSE
    OBVIOUS
  <2>1. step = "send" /\ hot < current[1].amount /\ hot >= current[1].amount
    BY DEF JobFails, Orderly, Undisturbed, ScheduleInv
  <2>2. current[1].amount \in Int /\ hot \in Nat
    BY <2>1, Job, WithdrawalsAssumption DEF TypeOK
  <2> QED BY <2>1, <2>2
<1> QED BY <1>1, <1>2 DEF Next, WorkerStep, JobOnly, Orderly

(* The worker's own steps.                                                 *)
LEMMA JobOnlyDoes ==
  ASSUME TypeOK, WorkerInv, JobOnly
  PROVE  /\ UNCHANGED storageVars /\ crashes' = crashes
         /\ \/ UNCHANGED <<current, step, block>>
            \/ /\ step = "none" /\ step' = "balance" /\ block' = block
               /\ current' \in JobIds /\ ~AlreadyProcessed(current'[1])
            \/ step = "hot" /\ UNCHANGED current /\ block' = block /\ step' \in {"send", "result"}
            \/ step = "hot" /\ current' = NoJob /\ step' = "none" /\ block' = NoRequest
            \/ step = "send" /\ sendBan
         /\ paid' = paid \/ sendBan
BY DEF JobOnly, withdrawBAN, Promote, StartJob, eventuallySendBan, sendBan, RefillHotWallet,
       workerVars, walletVars, WorkerInv, WorkerFree, Fail

LEMMA SendBanDoes ==
  ASSUME TypeOK, WorkerInv, sendBan
  PROVE  /\ step = "send" /\ step' = "store" /\ UNCHANGED <<current, crashes>>
         /\ hot >= current[1].amount
         /\ \E r \in PaymentsOf(current[1]) : r \notin paid /\ paid' = paid \cup {r} /\ block' = r
         /\ current[1] \in Withdrawal
BY Job DEF sendBan, FreshPayments

LEMMA ExpireLockDoes ==
  ASSUME NEW k \in Storage!LockNames, ExpireLock(k)
  PROVE  /\ UNCHANGED <<queueVars, workerVars, walletVars, refused, crashes>>
         /\ UNCHANGED <<banBalance, audit, pc, req, val>>
         /\ locks' = [locks EXCEPT ![k] = "free"]
BY DEF ExpireLock, Storage!Expire, Storage!callVars

LEMMA CrashDoes ==
  ASSUME TypeOK, CrashRestart
  PROVE  /\ current' = NoJob /\ step' = "none" /\ block' = NoRequest /\ paid' = paid
         /\ crashes' = crashes + 1 /\ crashes \in Nat
         /\ UNCHANGED <<banBalance, audit>>
         /\ \A c \in Caller : pc'[c] = "idle" /\ req'[c] = NoRequest
BY DEF CrashRestart, WorkerFree, Storage!Crash, walletVars, TypeOK

-----------------------------------------------------------------------------
(* The stores take turns with the worker.                                  *)
LEMMA StoresStep ==
  ASSUME Orderly, TypeOK, WorkerInv, ScheduleInv, Storage!OnceInv, StoresInv, Next
  PROVE  StoresInv'
<1> DEFINE Busy(b) == /\ req[b] = block
                      /\ \/ step = "store" /\ pc[b] = "checked"
                         \/ step = "result" /\ pc[b] \in {"locked", "read", "releasing"}
           ReadsOnly == /\ pc[Worker] \in {"idle", "waiting", "locked", "read"}
                        /\ pc[Worker] # "idle" =>
                             step \in {"balance", "result"} /\ req[Worker] \in BalanceOf(current[1])
           Stores == \A b \in Background : pc[b] # "idle" => Busy(b)
           Unlocked == step \in {"hot", "send", "store"} =>
                         locks[<<"ban-balance", current[1].wallet>>] = "free"
<1>0. /\ ReadsOnly /\ Stores /\ Unlocked
      /\ StoresInv' <=> ReadsOnly' /\ Stores' /\ Unlocked'
  BY DEF StoresInv
<1>t. locks \in [Storage!LockNames -> Caller \cup {"free", "orphan"}]
  BY DEF TypeOK, Storage!TypeOK
<1> HIDE DEF ReadsOnly, Stores, Unlocked
<1>1. CASE JobOnly
  <2>1. UNCHANGED <<pc, req, locks>>
    BY <1>1, JobOnlyDoes DEF storageVars
  <2>2. CASE UNCHANGED <<current, step, block>>
    BY <1>0, <2>1, <2>2 DEF ReadsOnly, Stores, Unlocked
  <2>3. CASE ~ UNCHANGED <<current, step, block>>
    <3>1. /\ step \in {"none", "hot", "send"}
          /\ step' \in {"balance", "none"} \/ (current' = current /\ step \in {"hot", "send"})
      BY <1>1, <2>3, JobOnlyDoes, SendBanDoes
    <3>2. pc[Worker] = "idle" /\ \A b \in Background : pc[b] = "idle"
      BY <1>0, <3>1 DEF ReadsOnly, Stores
    <3>3. ReadsOnly' /\ Stores'
      BY <2>1, <3>2 DEF ReadsOnly, Stores
    <3>4. Unlocked'
      BY <1>0, <2>1, <3>1 DEF Unlocked
    <3> QED BY <1>0, <3>3, <3>4
  <2> QED BY <2>2, <2>3
<1>2. CASE ReadBalance
  <2> USE <1>2, ReadBalanceDoes
  <2>1. ReadsOnly'
    BY DEF ReadsOnly, workerVars
  <2>2. Stores'
    BY <1>0, Callers DEF Stores, workerVars
  <2>3. Unlocked'
    BY DEF Unlocked, workerVars
  <2> QED BY <1>0, <2>1, <2>2, <2>3
<1>3. CASE BalanceStep
  <2> USE <1>3, BalanceStepDoes
  <2>1. ReadsOnly'
    BY <1>0 DEF ReadsOnly, workerVars
  <2>2. Stores'
    BY <1>0, Callers DEF Stores, workerVars
  <2>3. Unlocked'
    BY DEF Unlocked, workerVars
  <2> QED BY <1>0, <2>1, <2>2, <2>3
<1>4. CASE BalanceRead
  <2>0. /\ pc'[Worker] = "idle" /\ \A b \in Background : pc'[b] = "idle"
        /\ locks' = [locks EXCEPT ![WalletLock(current[1])] = "free"]
        /\ step \in {"balance", "result"}
    BY <1>4, BalanceReadDoes, Callers
  <2>1. ReadsOnly' /\ Stores'
    BY <2>0 DEF ReadsOnly, Stores
  <2>2. step' \in {"none", "hot"} /\ (step' = "hot" => current' = current)
    BY <1>4 DEF BalanceRead, WorkerFree
  <2>3. req[Worker] \in BalanceOf(current[1]) /\ current[1] \in Withdrawal
    BY <1>0, <1>4, <2>0, BalanceReadDoes, Job DEF ReadsOnly
  <2>4. WalletLock(current[1]) \in Storage!LockNames
    BY <2>3, OneLock
  <2>5. Unlocked'
    BY <1>t, <2>0, <2>2, <2>4 DEF Unlocked, WalletLock
  <2> QED BY <1>0, <2>1, <2>5
<1>5. CASE StoreWithdrawal
  <2>0. /\ step = "store" /\ step' \in {"store", "result"}
        /\ UNCHANGED <<current, block, locks>>
    BY <1>5, StoreWithdrawalDoes
  <2>1. pc[Worker] = "idle" /\ pc'[Worker] = pc[Worker]
    BY <1>0, <1>5, <2>0, StoreWithdrawalDoes, Callers DEF ReadsOnly, TypeOK, Storage!TypeOK
  <2>2. ReadsOnly' /\ Unlocked'
    BY <1>0, <2>0, <2>1 DEF ReadsOnly, Unlocked
  <2>3. CASE step' = "result" /\ UNCHANGED <<pc, req>>
    <3>1. \A b \in Background : pc[b] = "idle"
      <4> SUFFICES ASSUME NEW b \in Background, pc[b] # "idle" PROVE FALSE
        OBVIOUS
      <4>1. req[b] = block /\ b \in Caller
        BY <1>0, Callers DEF Stores
      <4>2. block \in Requests /\ block.type = "withdrawal"
        BY <1>5, StoreWithdrawalDoes, PaymentOf
      <4>3. block \in submitted
        BY <4>1, <4>2 DEF Storage!OnceInv, Storage!SubmittedOnce
      <4>4. block \notin submitted
        BY <1>5, <4>2 DEF StoreWithdrawal, Storage!Call, Storage!MaySubmit
      <4> QED BY <4>3, <4>4
    <3> QED BY <1>0, <2>2, <2>3, <3>1 DEF Stores
  <2>4. ASSUME step' = "store", NEW b \in Background, pc' = [pc EXCEPT ![b] = "checked"],
               req' = [req EXCEPT ![b] = block]
        PROVE  Stores'
    BY <1>0, <2>0, <2>4, Callers DEF Stores, TypeOK, Storage!TypeOK
  <2> QED BY <1>0, <1>5, <2>2, <2>3, <2>4, StoreWithdrawalDoes
<1>6. CASE LeaveStoreRunning
  <2>0. PICK b \in Background : pc[b] = "checked" /\ pc' = [pc EXCEPT ![b] = "locked"]
    BY <1>6, LeaveStoreRunningDoes
  <2>1. /\ step = "store" /\ step' = "result" /\ UNCHANGED <<current, block, req>>
        /\ block # NoRequest
    BY <1>6, LeaveStoreRunningDoes
  <2>2. pc[Worker] = "idle" /\ pc'[Worker] = pc[Worker]
    BY <1>0, <2>0, <2>1, Callers DEF ReadsOnly, TypeOK, Storage!TypeOK
  <2>3. ReadsOnly' /\ Unlocked'
    BY <2>1, <2>2 DEF ReadsOnly, Unlocked
  <2>4. \A d \in Background : d # b => pc[d] = "idle"
    <3> SUFFICES ASSUME NEW d \in Background, d # b, pc[d] # "idle" PROVE FALSE
      OBVIOUS
    <3>1. req[d] = block /\ req[b] = block /\ d \in Caller /\ b \in Caller
      BY <1>0, <2>0, Callers DEF Stores
    <3>2. block.type = "withdrawal"
      BY <2>1, PaymentOf
    <3> QED BY <2>0, <3>1, <3>2 DEF Storage!OnceInv, Storage!SubmittedOnce
  <2>5. Stores'
    BY <1>0, <2>0, <2>1, <2>4, Callers DEF Stores, TypeOK, Storage!TypeOK
  <2> QED BY <1>0, <2>3, <2>5
<1>7. ASSUME NEW b \in Background, BackgroundStep(b) PROVE StoresInv'
  <2>0. /\ step = "result" /\ req[b] = block /\ UNCHANGED <<current, step, block>>
        /\ pc'[b] \in {"read", "releasing", "idle"}
        /\ pc'[b] # "idle" => req'[b] = req[b]
        /\ \A c \in Caller : c # b => pc'[c] = pc[c] /\ req'[c] = req[c]
    BY <1>7, BackgroundStepDoes DEF workerVars
  <2>1. ReadsOnly'
    BY <1>0, <2>0, Callers DEF ReadsOnly
  <2>2. Stores'
    BY <1>0, <2>0, Callers DEF Stores
  <2>3. Unlocked'
    BY <2>0 DEF Unlocked
  <2> QED BY <1>0, <2>1, <2>2, <2>3
<1>8. ASSUME NEW k \in Storage!LockNames, ExpireLock(k) PROVE StoresInv'
  <2>0. /\ UNCHANGED <<current, step, block, pc, req>>
        /\ locks' = [locks EXCEPT ![k] = "free"]
    BY <1>8, ExpireLockDoes DEF workerVars
  <2>1. ReadsOnly' /\ Stores'
    BY <1>0, <2>0 DEF ReadsOnly, Stores
  <2>2. Unlocked'
    BY <1>0, <1>t, <2>0 DEF Unlocked
  <2> QED BY <1>0, <2>1, <2>2
<1>9. CASE CrashRestart
  <2>1. ReadsOnly' /\ Stores' /\ Unlocked'
    BY <1>9, CrashDoes, Callers DEF ReadsOnly, Stores, Unlocked
  <2> QED BY <1>0, <2>1
<1> QED BY <1>1, <1>2, <1>3, <1>4, <1>5, <1>6, <1>7, <1>8, <1>9, Steps

-----------------------------------------------------------------------------
(* A withdrawal is recorded once, after the worker is done with it.        *)
OneRecord ==
  \A w \in Withdrawal : \A r, q \in PaymentsOf(w) :
    Storage!EventOf(r) \in audit /\ Storage!EventOf(q) \in audit => r = q

(* With one record the lookup of a withdrawal by its time finds it.        *)
LEMMA FoundWhenRecorded ==
  ASSUME TypeOK, SourceInv, DistinctTimes, OneRecord, NEW w \in Withdrawal, Recorded(w)
  PROVE  AlreadyProcessed(w)
<1> DEFINE S == {e \in audit : /\ e.type = "withdrawal"
                               /\ e.address = Lower[w.wallet]
                               /\ e.at = w.at}
<1>1. PICK r \in PaymentsOf(w) : Storage!EventOf(r) \in audit
  BY DEF Recorded
<1>2. Storage!EventOf(r) \in S
  BY <1>1 DEF Storage!EventOf, PaymentsOf
<1>3. \A e \in S : e = Storage!EventOf(r)
  BY <1>1, RecordsOf DEF OneRecord
<1>4. S = {Storage!EventOf(r)}
  BY <1>2, <1>3
<1>5. Cardinality(S) = 1
  BY <1>4, FS_Singleton
<1> QED BY <1>5, SameCardinality DEF AlreadyProcessed, Storage!containsUserWithdrawalRequest

LEMMA EventsDiffer ==
  ASSUME NEW r \in Requests, NEW q \in Requests, r.type = "withdrawal",
         q.type = "withdrawal", Storage!EventOf(r) = Storage!EventOf(q)
  PROVE  r = q
<1>1. Storage!EventOf(r) = SP!EventOf(r) /\ Storage!EventOf(q) = SP!EventOf(q)
  BY DEF Storage!EventOf, SP!EventOf
<1> QED BY <1>1, SameAssumptions, SP!EventOfInjective DEF SP!WriteTypes

LEMMA RecordStep ==
  ASSUME Orderly, TypeOK, WorkerInv, SourceInv, ScheduleInv, Storage!OnceInv, StoresInv,
         RecordInv, Next
  PROVE  RecordInv'
<1> DEFINE Before == step \in {"balance", "hot", "send", "store"} => ~Recorded(current[1])
           Stores == \A b \in Background :
                       /\ pc[b] \in {"checked", "locked", "read"} => ~Recorded(current[1])
                       /\ pc[b] = "releasing" => Storage!EventOf(block) \in audit
           After == step = "result" /\ block # NoRequest =>
                      \/ Storage!EventOf(block) \in audit
                      \/ \E b \in Background : pc[b] # "idle"
<1>0. /\ OneRecord /\ Before /\ Stores /\ After
      /\ RecordInv' <=> OneRecord' /\ Before' /\ Stores' /\ After'
  BY DEF RecordInv, OneRecord
<1>s. \A r : Storage!EventOf(r)' = Storage!EventOf(r)
  BY DEF Storage!EventOf
<1>u. ASSUME audit' = audit
      PROVE  OneRecord' /\ \A w : Recorded(w)' <=> Recorded(w)
  BY <1>0, <1>u DEF OneRecord, Recorded, Storage!EventOf
<1>i. step \in {"none", "balance", "hot", "send"} => \A b \in Background : pc[b] = "idle"
  BY DEF StoresInv
<1> HIDE DEF Before, Stores, After
<1>1. CASE JobOnly
  <2>1. UNCHANGED <<audit, pc>>
    BY <1>1, JobOnlyDoes DEF storageVars
  <2>2. CASE UNCHANGED <<current, step, block>>
    BY <1>0, <1>u, <2>1, <2>2 DEF Before, Stores, After, Storage!EventOf
  <2>3. CASE ~ UNCHANGED <<current, step, block>>
    <3>1. step \in {"none", "hot", "send"}
      BY <1>1, <2>3, JobOnlyDoes, SendBanDoes
    <3>2. Stores'
      BY <1>i, <2>1, <3>1 DEF Stores
    <3>3. Before'
      <4>1. CASE step = "none" /\ current' \in JobIds /\ ~AlreadyProcessed(current'[1])
        <5>1. current'[1] \in Withdrawal
          BY <4>1, Jobs
        <5>2. ~Recorded(current'[1])
          BY <1>0, <4>1, <5>1, FoundWhenRecorded DEF Orderly
        <5> QED BY <1>u, <2>1, <5>2 DEF Before
      <4>2. CASE step \in {"hot", "send"} /\ current' = current
        BY <1>0, <1>u, <2>1, <4>2 DEF Before
      <4>3. CASE step' = "none"
        BY <4>3 DEF Before
      <4> QED BY <1>1, <2>3, <4>1, <4>2, <4>3, JobOnlyDoes, SendBanDoes
    <3>4. After'
      <4>1. step' = "result" => step = "hot" /\ block' = block
        BY <1>1, <2>3, JobOnlyDoes, SendBanDoes
      <4> QED BY <4>1 DEF After, WorkerInv
    <3> QED BY <1>0, <1>u, <2>1, <3>2, <3>3, <3>4
  <2> QED BY <2>2, <2>3
<1>2. CASE ReadBalance \/ BalanceStep \/ (\E k \in Storage!LockNames : ExpireLock(k))
  <2>1. /\ UNCHANGED <<audit, current, step, block>>
        /\ \A b \in Background : pc'[b] = pc[b]
    BY <1>2, ReadBalanceDoes, BalanceStepDoes, ExpireLockDoes, Callers DEF workerVars
  <2> QED BY <1>0, <1>u, <2>1 DEF Before, Stores, After, Storage!EventOf
<1>3. CASE BalanceRead
  <2>1. audit' = audit /\ \A b \in Background : pc'[b] = "idle"
    BY <1>3, BalanceReadDoes, Callers
  <2>2. \/ step = "balance" /\ step' = "hot" /\ UNCHANGED current
        \/ step' = "none"
    BY <1>3 DEF BalanceRead, WorkerFree
  <2> QED BY <1>0, <1>u, <2>1, <2>2 DEF Before, Stores, After
<1>4. CASE StoreWithdrawal
  <2>1. step = "store" /\ UNCHANGED <<audit, current, block>> /\ current[1] \in Withdrawal
    BY <1>4, StoreWithdrawalDoes, Job
  <2>2. ~Recorded(current[1]) /\ ~AlreadyProcessed(current[1])
    BY <1>0, <2>1, AlreadyPaid DEF Before, Orderly
  <2>3. PICK b \in Background : pc' = [pc EXCEPT ![b] = "checked"] /\ step' = "store"
    BY <1>4, <2>2, StoreWithdrawalDoes
  <2>4. Before' /\ After'
    BY <1>u, <2>1, <2>2, <2>3 DEF Before, After
  <2>5. Stores'
    <3>1. \A d \in Background : pc'[d] = pc[d] \/ pc'[d] = "checked"
      BY <2>3, Callers DEF TypeOK, Storage!TypeOK
    <3> QED BY <1>0, <1>u, <2>1, <2>2, <3>1 DEF Stores, Storage!EventOf
  <2> QED BY <1>0, <1>u, <2>1, <2>4, <2>5
<1>5. CASE LeaveStoreRunning
  <2>1. step' = "result" /\ UNCHANGED <<audit, current, block>>
    BY <1>5, LeaveStoreRunningDoes
  <2>2. PICK b \in Background : pc[b] = "checked" /\ pc' = [pc EXCEPT ![b] = "locked"]
    BY <1>5, LeaveStoreRunningDoes
  <2>3. /\ pc'[b] = "locked"
        /\ \A d \in Background : pc'[d] = pc[d] \/ (d = b /\ pc'[d] = "locked")
    BY <2>2, Callers DEF TypeOK, Storage!TypeOK
  <2>4. Before' /\ After'
    BY <2>1, <2>3 DEF Before, After
  <2>5. Stores'
    BY <1>0, <1>u, <2>1, <2>2, <2>3 DEF Stores, Storage!EventOf
  <2> QED BY <1>0, <1>u, <2>1, <2>4, <2>5
<1>6. ASSUME NEW b \in Background, BackgroundStep(b) PROVE RecordInv'
  <2>0. /\ step = "result" /\ block # NoRequest /\ UNCHANGED <<current, step, block>>
        /\ \A d \in Background : d # b => pc[d] = "idle" /\ pc'[d] = "idle"
    BY <1>6, BackgroundStepDoes, Callers DEF workerVars
  <2>1. block \in Requests /\ block \in PaymentsOf(current[1]) /\ current[1] \in Withdrawal
        /\ block.type = "withdrawal"
    BY <2>0, PaymentOf
  <2>2. CASE pc[b] = "locked" /\ pc'[b] = "read" /\ audit' = audit
    BY <1>0, <1>u, <2>0, <2>2 DEF Before, Stores, After
  <2>3. CASE /\ pc[b] = "read" /\ pc'[b] = "releasing"
             /\ audit' = audit \cup {Storage!EventOf(block)}
    <3>1. ~Recorded(current[1])
      BY <1>0, <2>3 DEF Stores
    <3>2. ASSUME NEW w \in Withdrawal, NEW r \in PaymentsOf(w), Storage!EventOf(r) \in audit'
          PROVE  Storage!EventOf(r) \in audit \/ (r = block /\ w = current[1])
      <4>1. r \in Requests /\ r.type = "withdrawal"
        BY DEF PaymentsOf
      <4>2. Storage!EventOf(r) \in audit \/ r = block
        BY <2>1, <2>3, <3>2, <4>1, EventsDiffer
      <4> QED BY <2>1, <4>2, OnePayer DEF Orderly
    <3>3. OneRecord'
      <4> SUFFICES ASSUME NEW w \in Withdrawal, NEW r \in PaymentsOf(w), NEW q \in PaymentsOf(w),
                          Storage!EventOf(r) \in audit', Storage!EventOf(q) \in audit'
                   PROVE  r = q
        BY <1>s DEF OneRecord
      <4>1. Storage!EventOf(r) \in audit \/ (r = block /\ w = current[1])
        BY <3>2
      <4>2. Storage!EventOf(q) \in audit \/ (q = block /\ w = current[1])
        BY <3>2
      <4> QED BY <1>0, <3>1, <4>1, <4>2 DEF OneRecord, Recorded
    <3>4. Before' /\ Stores' /\ After'
      BY <2>0, <2>3, <1>s DEF Before, Stores, After
    <3> QED BY <1>0, <3>3, <3>4
  <2>4. CASE pc[b] = "releasing" /\ pc'[b] = "idle" /\ audit' = audit
    <3>1. Storage!EventOf(block) \in audit
      BY <1>0, <2>4 DEF Stores
    <3>2. Before' /\ Stores' /\ After'
      BY <1>s, <2>0, <2>4, <3>1 DEF Before, Stores, After
    <3> QED BY <1>0, <1>u, <2>4, <3>2
  <2> QED BY <1>6, <2>2, <2>3, <2>4, BackgroundStepDoes
<1>7. CASE CrashRestart
  <2>1. step' = "none" /\ audit' = audit /\ \A b \in Background : pc'[b] = "idle"
    BY <1>7, CrashDoes, Callers
  <2> QED BY <1>0, <1>u, <2>1 DEF Before, Stores, After
<1> QED BY <1>1, <1>2, <1>3, <1>4, <1>5, <1>6, <1>7, Steps

-----------------------------------------------------------------------------
(* Payments are counted by crashes and records.                            *)
Counted(w) == Recorded(w) \/ block \in PaymentsOf(w)

LEMMA PaymentsAreNumbers ==
  ASSUME IsFiniteSet(paid), NEW w PROVE Payments(w) \in Nat
<1>1. IsFiniteSet(paid \cap PaymentsOf(w))
  BY FS_Subset
<1> QED BY <1>1, FS_CardinalityType DEF Payments

LEMMA PaymentsKept ==
  ASSUME PaymentsInv, paid' = paid, crashes \in Nat,
         \/ crashes' = crashes /\ \A w \in Withdrawal : Counted(w) => Counted(w)'
         \/ crashes' = crashes + 1
  PROVE  PaymentsInv'
<1>1. \A w \in Withdrawal : Payments(w)' = Payments(w) /\ Payments(w) \in Nat
  BY PaymentsAreNumbers DEF Payments, PaymentsInv
<1>2. \A w \in Withdrawal : Payments(w) <= crashes + (IF Counted(w) THEN 1 ELSE 0)
  BY DEF PaymentsInv, Counted
<1>3. ASSUME NEW w \in Withdrawal
      PROVE  Payments(w)' <= crashes' + (IF Counted(w)' THEN 1 ELSE 0)
  BY <1>1, <1>2
<1> QED BY <1>3 DEF PaymentsInv, Counted

LEMMA PaymentsStep ==
  ASSUME Orderly, TypeOK, WorkerInv, SourceInv, ScheduleInv, Storage!OnceInv, StoresInv,
         RecordInv, PaymentsInv, Next
  PROVE  PaymentsInv'
<1>0. crashes \in Nat
  BY DEF TypeOK
<1>r. ASSUME audit \subseteq audit' PROVE \A w : Recorded(w) => Recorded(w)'
  BY <1>r DEF Recorded, Storage!EventOf
<1>1. ASSUME paid' = paid, crashes' = crashes, audit \subseteq audit', block' = block
      PROVE  PaymentsInv'
  BY <1>0, <1>1, <1>r, PaymentsKept DEF Counted
<1>2. ASSUME paid' = paid, crashes' = crashes, audit \subseteq audit', block = NoRequest
      PROVE  PaymentsInv'
  BY <1>0, <1>2, <1>r, PaymentsKept, Callers DEF Counted
<1>3. CASE sendBan
  <2>1. PICK r \in PaymentsOf(current[1]) :
          r \notin paid /\ paid' = paid \cup {r} /\ block' = r
    BY <1>3, SendBanDoes
  <2>2. /\ step = "send" /\ crashes' = crashes /\ audit' = audit
        /\ current[1] \in Withdrawal
        /\ block = NoRequest /\ ~Recorded(current[1])
    BY <1>3, SendBanDoes DEF sendBan, storageVars, WorkerInv, RecordInv
  <2>3. \A w \in Withdrawal : Payments(w) <= crashes + (IF Recorded(w) THEN 1 ELSE 0)
    BY <2>2, Callers DEF PaymentsInv
  <2>4. \A w \in Withdrawal : Payments(w) \in Nat
    BY PaymentsAreNumbers DEF PaymentsInv
  <2>5. ASSUME NEW w \in Withdrawal
        PROVE  Payments(w)' <= crashes' + (IF Counted(w)' THEN 1 ELSE 0)
    <3>1. CASE w = current[1]
      <4>1. IsFiniteSet(paid \cap PaymentsOf(w))
        BY FS_Subset DEF PaymentsInv
      <4>2. (paid \cap PaymentsOf(w)) \cup {r} = paid' \cap PaymentsOf(w)
        BY <2>1, <3>1
      <4>3. Payments(w)' = Payments(w) + 1
        BY <2>1, <4>1, <4>2, FS_AddElement DEF Payments, PaymentsOf
      <4>4. Counted(w)'
        BY <2>1, <3>1 DEF Counted, PaymentsOf
      <4> QED BY <1>0, <2>2, <2>3, <2>4, <3>1, <4>3, <4>4
    <3>2. CASE w # current[1]
      <4>1. r \notin PaymentsOf(w)
        BY <2>1, <2>2, <3>2, OnePayer DEF Orderly
      <4>2. Payments(w)' = Payments(w)
        BY <2>1, <4>1 DEF Payments, PaymentsOf
      <4>3. Recorded(w) => Counted(w)'
        BY <1>r, <2>2 DEF Counted
      <4> QED BY <1>0, <2>2, <2>3, <2>4, <4>2, <4>3
    <3> QED BY <3>1, <3>2
  <2>6. IsFiniteSet(paid')
    BY <2>1, FS_AddElement DEF PaymentsInv
  <2> QED BY <2>5, <2>6 DEF PaymentsInv, Counted
<1>4. CASE JobOnly /\ ~sendBan
  <2>1. paid' = paid /\ crashes' = crashes /\ audit' = audit
    BY <1>4, JobOnlyDoes DEF storageVars
  <2>2. block' = block \/ block = NoRequest
    BY <1>4, JobOnlyDoes DEF WorkerInv
  <2> QED BY <1>1, <1>2, <2>1, <2>2
<1>5. CASE ReadBalance \/ BalanceStep \/ (\E k \in Storage!LockNames : ExpireLock(k))
  <2>1. UNCHANGED <<paid, crashes, audit, block>>
    BY <1>5, ReadBalanceDoes, BalanceStepDoes, ExpireLockDoes DEF workerVars, walletVars
  <2> QED BY <1>1, <2>1
<1>6. CASE BalanceRead
  <2>1. UNCHANGED <<paid, crashes, audit>> /\ \A b \in Background : pc[b] = "idle"
    BY <1>6, BalanceReadDoes DEF walletVars
  <2>2. CASE step = "balance"
    BY <1>2, <2>1, <2>2 DEF WorkerInv
  <2>3. CASE step = "result" /\ block # NoRequest
    <3>1. Storage!EventOf(block) \in audit
      BY <2>1, <2>3 DEF RecordInv
    <3>2. \A w \in Withdrawal : Counted(w) => Recorded(w)
      BY <3>1 DEF Counted, Recorded
    <3> QED BY <1>0, <1>r, <2>1, <3>2, PaymentsKept DEF Counted
  <2> QED BY <1>2, <1>6, <2>1, <2>2, <2>3 DEF BalanceRead
<1>7. CASE StoreWithdrawal \/ LeaveStoreRunning
  <2>1. UNCHANGED <<paid, crashes, audit, block>>
    BY <1>7, StoreWithdrawalDoes, LeaveStoreRunningDoes DEF walletVars
  <2> QED BY <1>1, <2>1
<1>8. CASE \E b \in Background : BackgroundStep(b)
  <2>1. UNCHANGED <<paid, crashes, block>> /\ audit \subseteq audit'
    BY <1>8, BackgroundStepDoes DEF workerVars, walletVars
  <2> QED BY <1>1, <2>1
<1>9. CASE CrashRestart
  BY <1>0, <1>9, CrashDoes, PaymentsKept
<1> QED BY <1>3, <1>4, <1>5, <1>6, <1>7, <1>8, <1>9, Steps

-----------------------------------------------------------------------------
(* What left the hot wallet left the balances, or is about to.             *)
Sum == INSTANCE SumTheorems WITH Op <- Amount

(* The sums of SumTheorems are those of the model.                         *)
LEMMA SumIsTotal ==
  /\ \A S : Sum!Total(S) = MapThenSumSet(Amount, S)
  /\ \A S : Sum!IsFiniteSet(S) <=> IsFiniteSet(S)
BY DEF Sum!Total, Sum!MapThenSumSet, Sum!MapThenFoldSet, MapThenSumSet,
       MapThenFoldSet, Sum!IsFiniteSet, IsFiniteSet

PaymentsTo(a) == {r \in paid : Lower[r.address] = a}

LEMMA PaidToIs ==
  \A a : /\ PaidTo(a) = Sum!Total(PaymentsTo(a))
         /\ PaidTo(a)' = Sum!Total(PaymentsTo(a)')
<1>1. ASSUME NEW a PROVE PaidTo(a) = Sum!Total(PaymentsTo(a))
  BY SumIsTotal DEF PaidTo, PaymentsTo
<1>2. ASSUME NEW a PROVE PaidTo(a)' = Sum!Total(PaymentsTo(a)')
  <2>1. PaidTo(a)' = MapThenSumSet(Amount, PaymentsTo(a)')
    BY DEF PaidTo, PaymentsTo
  <2>2. Sum!Total(PaymentsTo(a)') = MapThenSumSet(Amount, PaymentsTo(a)')
    BY SumIsTotal
  <2> QED BY <2>1, <2>2
<1> QED BY <1>1, <1>2

LEMMA PaidToType ==
  ASSUME TypeOK, PaymentsInv, NEW a
  PROVE  /\ Sum!IsFiniteSet(PaymentsTo(a)) /\ PaidTo(a) \in Int
         /\ \A r \in PaymentsTo(a) : Amount(r) \in Int
<1>1. IsFiniteSet(PaymentsTo(a))
  BY FS_Subset DEF PaymentsInv, PaymentsTo
<1>2. \A r \in PaymentsTo(a) : Amount(r) \in Int
  BY StorageAssumption DEF Amount, PaymentsTo, TypeOK, Storage!RequestsAssumption
<1> QED BY <1>1, <1>2, SumIsTotal, PaidToIs, Sum!SumType

LEMMA PaidToMoves ==
  ASSUME TypeOK, PaymentsInv, NEW r \in Requests, r \notin paid, paid' = paid \cup {r}, NEW a
  PROVE  PaidTo(a)' = IF Lower[r.address] = a THEN PaidTo(a) + r.amount ELSE PaidTo(a)
<1>1. CASE Lower[r.address] = a
  <2>1. PaymentsTo(a)' = PaymentsTo(a) \cup {r} /\ r \notin PaymentsTo(a)
    BY <1>1 DEF PaymentsTo
  <2>2. Amount(r) \in Int /\ Amount(r) = r.amount
    BY StorageAssumption DEF Amount, Storage!RequestsAssumption
  <2>3. Sum!Total(PaymentsTo(a) \cup {r}) = Sum!Total(PaymentsTo(a)) + Amount(r)
    BY <2>1, <2>2, PaidToType, Sum!SumAdd
  <2> QED BY <1>1, <2>1, <2>2, <2>3, PaidToIs
<1>2. CASE Lower[r.address] # a
  <2>1. PaymentsTo(a)' = PaymentsTo(a)
    BY <1>2 DEF PaymentsTo
  <2> QED BY <1>2, <2>1, PaidToIs
<1> QED BY <1>1, <1>2

(* The parts of the invariant.                                             *)
Funds(a) == PaidTo(a) + banBalance[a] = Opening + Due(a) /\ Due(a) <= banBalance[a]
ReadIsCurrent == step = "balance" /\ pc[Worker] = "read"
                   => val[Worker] = banBalance[Lower[current[1].wallet]]
Sufficient == step \in {"hot", "send"}
                => Covers(banBalance[Lower[current[1].wallet]], current[1])
StoreIsCurrent == \A b \in Background :
                    pc[b] = "read" => val[b] = banBalance[Lower[req[b].address]]

LEMMA FundsSplit ==
  /\ FundsInv <=> /\ crashes = 0 => \A a \in Storage!Wallets : Funds(a)
                  /\ ReadIsCurrent /\ Sufficient /\ StoreIsCurrent
  /\ FundsInv' <=> /\ crashes' = 0 => \A a \in Storage!Wallets : Funds(a)'
                   /\ ReadIsCurrent' /\ Sufficient' /\ StoreIsCurrent'
BY DEF FundsInv, Funds, ReadIsCurrent, Sufficient, StoreIsCurrent, Storage!Wallets

(* Steps that neither pay nor write.                                       *)
LEMMA FundsKept ==
  ASSUME TypeOK, NEW a \in Storage!Wallets, Funds(a),
         UNCHANGED <<paid, banBalance, audit>>,
         \/ block' = block
         \/ block = NoRequest /\ block' = NoRequest
         \/ Storage!EventOf(block) \in audit /\ block' = NoRequest
  PROVE  Funds(a)'
<1>1. PaidTo(a)' = PaidTo(a)
  BY PaidToIs DEF PaymentsTo
<1>2. Due(a)' = Due(a)
  BY DEF Due, Storage!EventOf
<1> QED BY <1>1, <1>2 DEF Funds

(* The worker pays: what is due is the amount it found covered.            *)
LEMMA FundsPay ==
  ASSUME Orderly, TypeOK, WorkerInv, SourceInv, RecordInv, PaymentsInv, Sufficient, sendBan,
         NEW a \in Storage!Wallets, Funds(a)
  PROVE  Funds(a)'
<1>1. PICK r \in PaymentsOf(current[1]) :
        r \notin paid /\ paid' = paid \cup {r} /\ block' = r
  BY SendBanDoes
<1>2. /\ step = "send" /\ UNCHANGED <<audit, banBalance>>
      /\ current[1] \in Withdrawal /\ block = NoRequest /\ ~Recorded(current[1])
  BY SendBanDoes DEF sendBan, storageVars, WorkerInv, RecordInv
<1>3. /\ r \in Requests /\ Lower[r.address] = current[1].wallet /\ r.amount \in Nat
      /\ r.amount = current[1].amount /\ Lower[current[1].wallet] = current[1].wallet
      /\ r # NoRequest
  BY <1>1, <1>2, OneLock, Callers, StorageAssumption
  DEF PaymentsOf, Storage!RequestsAssumption
<1>4. Storage!EventOf(r) \notin audit
  BY <1>1, <1>2 DEF Recorded
<1>5. Due(a) = 0 /\ Due(a)' = IF Lower[r.address] = a THEN r.amount ELSE 0
  BY <1>1, <1>2, <1>3, <1>4 DEF Due, Storage!EventOf
<1>6. PaidTo(a)' = IF Lower[r.address] = a THEN PaidTo(a) + r.amount ELSE PaidTo(a)
  BY <1>1, <1>3, PaidToMoves
<1>7. PaidTo(a) \in Int /\ banBalance[a] \in Int /\ Opening \in Nat
  BY PaidToType, WithdrawalsAssumption DEF TypeOK, Storage!TypeOK
<1>8. Lower[r.address] = a => banBalance[a] >= r.amount
  BY <1>2, <1>3 DEF Sufficient, Covers
<1>9. banBalance'[a] = banBalance[a]
  BY <1>2
<1> QED BY <1>3, <1>5, <1>6, <1>7, <1>8, <1>9 DEF Funds

(* The store writes: what was due leaves the balance.                      *)
LEMMA FundsWrite ==
  ASSUME Orderly, TypeOK, WorkerInv, PaymentsInv, UNCHANGED <<paid, block>>, block # NoRequest,
         Storage!EventOf(block) \notin audit, audit' = audit \cup {Storage!EventOf(block)},
         banBalance' = [banBalance EXCEPT ![current[1].wallet] = @ - current[1].amount],
         NEW a \in Storage!Wallets, Funds(a)
  PROVE  Funds(a)'
<1>1. /\ Lower[block.address] = current[1].wallet /\ block.amount = current[1].amount
      /\ block.amount \in Nat
  BY PaymentOf
<1>2. Due(a) = IF current[1].wallet = a THEN block.amount ELSE 0
  BY <1>1 DEF Due
<1>3. Due(a)' = 0
  BY DEF Due, Storage!EventOf
<1>4. PaidTo(a)' = PaidTo(a)
  BY PaidToIs DEF PaymentsTo
<1>5. PaidTo(a) \in Int /\ banBalance[a] \in Int /\ Opening \in Nat
  BY PaidToType, WithdrawalsAssumption DEF TypeOK, Storage!TypeOK
<1>6. banBalance'[a] = IF current[1].wallet = a THEN banBalance[a] - block.amount
                       ELSE banBalance[a]
  BY <1>1 DEF TypeOK, Storage!TypeOK
<1> QED BY <1>1, <1>2, <1>3, <1>4, <1>5, <1>6 DEF Funds

LEMMA FundsStep ==
  ASSUME Orderly, TypeOK, WorkerInv, SourceInv, ScheduleInv, Storage!OnceInv, StoresInv,
         RecordInv, PaymentsInv, FundsInv, Next
  PROVE  FundsInv'
<1>0. /\ crashes = 0 => \A a \in Storage!Wallets : Funds(a)
      /\ ReadIsCurrent /\ Sufficient /\ StoreIsCurrent
  BY FundsSplit
<1>i. step \in {"none", "balance", "hot", "send"} => \A b \in Background : pc[b] = "idle"
  BY DEF StoresInv
<1>w. /\ step \in {"none", "hot", "send", "store"} => pc[Worker] = "idle"
      /\ block # NoRequest => step \in {"store", "result"}
  BY DEF StoresInv, WorkerInv, TypeOK, StepNames
<1>1. CASE sendBan
  <2>1. UNCHANGED <<crashes, pc, val, req, banBalance>> /\ step' = "store"
    BY <1>1 DEF sendBan, storageVars
  <2>2. crashes' = 0 => \A a \in Storage!Wallets : Funds(a)'
    BY <1>0, <1>1, <2>1, FundsPay
  <2> QED BY <1>0, <2>1, <2>2, FundsSplit DEF ReadIsCurrent, Sufficient, StoreIsCurrent
<1>2. CASE JobOnly /\ ~sendBan
  <2>1. UNCHANGED <<crashes, paid, audit, pc, val, req, banBalance>>
    BY <1>2, JobOnlyDoes DEF storageVars
  <2>2. block' = block \/ (block = NoRequest /\ block' = NoRequest)
    BY <1>2, <1>w, JobOnlyDoes
  <2>3. crashes' = 0 => \A a \in Storage!Wallets : Funds(a)'
    BY <1>0, <2>1, <2>2, FundsKept
  <2>4. ReadIsCurrent' /\ Sufficient'
    BY <1>0, <1>2, <1>w, <2>1, JobOnlyDoes DEF ReadIsCurrent, Sufficient, Covers
  <2> QED BY <1>0, <2>1, <2>3, <2>4, FundsSplit DEF StoreIsCurrent
<1>3. CASE ReadBalance \/ BalanceStep \/ (\E k \in Storage!LockNames : ExpireLock(k))
  <2>1. /\ UNCHANGED <<crashes, paid, audit, banBalance, current, step, block>>
        /\ \A b \in Background : pc'[b] = pc[b] /\ req'[b] = req[b] /\ val'[b] = val[b]
    BY <1>3, ReadBalanceDoes, BalanceStepDoes, ExpireLockDoes, Callers DEF workerVars, walletVars
  <2>2. crashes' = 0 => \A a \in Storage!Wallets : Funds(a)'
    BY <1>0, <2>1, FundsKept
  <2>3. Sufficient' /\ StoreIsCurrent'
    BY <1>0, <2>1 DEF Sufficient, StoreIsCurrent, Covers
  <2>4. ReadIsCurrent'
    <3>1. CASE ReadBalance
      BY <3>1, ReadBalanceDoes DEF ReadIsCurrent
    <3>2. CASE BalanceStep
      <4>1. Lower[current[1].wallet] = current[1].wallet
        BY <3>2, BalanceStepDoes, OneLock, Job DEF StoresInv
      <4> QED BY <2>1, <3>2, <4>1, BalanceStepDoes DEF ReadIsCurrent
    <3>3. CASE \E k \in Storage!LockNames : ExpireLock(k)
      BY <1>0, <2>1, <3>3, ExpireLockDoes DEF ReadIsCurrent
    <3> QED BY <1>3, <3>1, <3>2, <3>3
  <2> QED BY <2>2, <2>3, <2>4, FundsSplit
<1>4. CASE BalanceRead
  <2>1. /\ UNCHANGED <<crashes, paid, audit, banBalance>> /\ pc'[Worker] = "idle"
        /\ \A b \in Background : pc[b] = "idle" /\ pc'[b] = "idle"
        /\ pc[Worker] = "read"
    BY <1>4, BalanceReadDoes, Callers DEF walletVars
  <2>2. \/ /\ step = "balance" /\ step' = "hot" /\ Covers(val[Worker], current[1])
           /\ UNCHANGED <<current, block>>
        \/ step' = "none" /\ block' = NoRequest /\ step \in {"balance", "result"}
    BY <1>4 DEF BalanceRead, WorkerFree
  <2>3. step = "result" /\ block # NoRequest => Storage!EventOf(block) \in audit
    BY <2>1 DEF RecordInv
  <2>4. crashes' = 0 => \A a \in Storage!Wallets : Funds(a)'
    BY <1>0, <1>w, <2>1, <2>2, <2>3, FundsKept
  <2>5. ReadIsCurrent' /\ StoreIsCurrent'
    BY <2>1 DEF ReadIsCurrent, StoreIsCurrent
  <2>6. Sufficient'
    BY <1>0, <2>1, <2>2 DEF Sufficient, ReadIsCurrent, Covers
  <2> QED BY <2>4, <2>5, <2>6, FundsSplit
<1>5. CASE StoreWithdrawal \/ LeaveStoreRunning
  <2>1. /\ UNCHANGED <<crashes, paid, audit, banBalance, val, block>>
        /\ step' \in {"store", "result"}
        /\ \A b \in Background : pc'[b] = "read" => pc[b] = "read" /\ req'[b] = req[b]
    <3>1. CASE StoreWithdrawal
      BY <3>1, StoreWithdrawalDoes, Callers DEF walletVars, TypeOK, Storage!TypeOK
    <3>2. CASE LeaveStoreRunning
      BY <3>2, LeaveStoreRunningDoes, Callers DEF walletVars, TypeOK, Storage!TypeOK
    <3> QED BY <1>5, <3>1, <3>2
  <2>2. crashes' = 0 => \A a \in Storage!Wallets : Funds(a)'
    BY <1>0, <2>1, FundsKept
  <2>3. ReadIsCurrent' /\ Sufficient' /\ StoreIsCurrent'
    BY <1>0, <2>1 DEF ReadIsCurrent, Sufficient, StoreIsCurrent
  <2> QED BY <2>2, <2>3, FundsSplit
<1>6. ASSUME NEW b \in Background, BackgroundStep(b) PROVE FundsInv'
  <2>0. /\ step = "result" /\ block # NoRequest /\ req[b] = block
        /\ UNCHANGED <<current, step, block, paid, crashes>>
        /\ \A d \in Background : d # b => pc[d] = "idle" /\ pc'[d] = "idle"
    BY <1>6, BackgroundStepDoes, Callers DEF workerVars, walletVars
  <2>1. ReadIsCurrent' /\ Sufficient'
    BY <2>0 DEF ReadIsCurrent, Sufficient
  <2>2. Lower[block.address] = current[1].wallet /\ current[1] \in Withdrawal
        /\ block \in PaymentsOf(current[1])
    BY <2>0, PaymentOf
  <2>3. CASE /\ pc[b] = "locked" /\ pc'[b] = "read" /\ val'[b] = banBalance[current[1].wallet]
             /\ UNCHANGED <<banBalance, audit, req>>
    <3>1. StoreIsCurrent'
      BY <2>0, <2>2, <2>3 DEF StoreIsCurrent
    <3>2. crashes' = 0 => \A a \in Storage!Wallets : Funds(a)'
      BY <1>0, <2>0, <2>3, FundsKept
    <3> QED BY <2>1, <3>1, <3>2, FundsSplit
  <2>4. CASE /\ pc[b] = "read" /\ pc'[b] = "releasing"
             /\ audit' = audit \cup {Storage!EventOf(block)}
             /\ banBalance' = [banBalance EXCEPT ![current[1].wallet] =
                                                   val[b] - current[1].amount]
    <3>1. StoreIsCurrent'
      BY <2>0, <2>4 DEF StoreIsCurrent
    <3>2. val[b] = banBalance[current[1].wallet]
      BY <1>0, <2>0, <2>2, <2>4 DEF StoreIsCurrent
    <3>3. banBalance' = [banBalance EXCEPT ![current[1].wallet] = @ - current[1].amount]
      BY <2>4, <3>2
    <3>4. Storage!EventOf(block) \notin audit
      BY <2>2, <2>4 DEF RecordInv, Recorded
    <3>5. crashes' = 0 => \A a \in Storage!Wallets : Funds(a)'
      BY <1>0, <2>0, <2>4, <3>3, <3>4, FundsWrite
    <3> QED BY <2>1, <3>1, <3>5, FundsSplit
  <2>5. CASE pc[b] = "releasing" /\ pc'[b] = "idle" /\ UNCHANGED <<banBalance, audit>>
    <3>1. StoreIsCurrent'
      BY <2>0, <2>5 DEF StoreIsCurrent
    <3>2. crashes' = 0 => \A a \in Storage!Wallets : Funds(a)'
      BY <1>0, <2>0, <2>5, FundsKept
    <3> QED BY <2>1, <3>1, <3>2, FundsSplit
  <2> QED BY <1>6, <2>3, <2>4, <2>5, BackgroundStepDoes
<1>7. CASE CrashRestart
  <2>1. ReadIsCurrent' /\ Sufficient' /\ StoreIsCurrent' /\ crashes' # 0
    BY <1>7, CrashDoes, Callers DEF ReadIsCurrent, Sufficient, StoreIsCurrent
  <2> QED BY <2>1, FundsSplit
<1> QED BY <1>1, <1>2, <1>3, <1>4, <1>5, <1>6, <1>7, Steps

-----------------------------------------------------------------------------
(* The initial states, and the steps that change nothing.                  *)
LEMMA InitTypes == Init => TypeOK /\ WorkerInv
<1> SUFFICES ASSUME Init PROVE TypeOK /\ WorkerInv
  OBVIOUS
<1>1. Storage!TypeOK
  BY SameAssumptions, SameStates, SP!TypeOKInit DEF Init
<1>2. QueueTypes
  BY WithdrawalsAssumption DEF Init, QueueTypes, JobStates, StepNames, Attempts
<1>3. WorkerInv
  BY Jobs, Callers DEF Init, WorkerInv, Attempts
<1> QED BY <1>1, <1>2, <1>3, TypesSplit

LEMMA InitSchedule == Init => SourceInv /\ ScheduleInv
<1> SUFFICES ASSUME Init PROVE SourceInv /\ ScheduleInv
  OBVIOUS
<1>1. SourceInv
  BY Callers DEF Init, Storage!Init, SourceInv
<1>2. \A w \in Withdrawal, n \in 0..MaxAttempt : job[<<w, n>>] = "none"
  BY Jobs DEF Init
<1>3. 1..MaxAttempt \subseteq 0..MaxAttempt /\ 0 \in 0..MaxAttempt
  BY WithdrawalsAssumption
<1> QED BY <1>1, <1>2, <1>3 DEF Init, ScheduleInv, NotDropped

LEMMA InitIInv == Init => IInv
<1> SUFFICES ASSUME Init PROVE IInv
  OBVIOUS
<1>1. TypeOK /\ WorkerInv /\ SourceInv /\ ScheduleInv
  BY InitTypes, InitSchedule
<1>2. Storage!OnceInv
  BY SameAssumptions, SameStates, SameOnce, SP!IInvInit DEF Init, SP!IInv
<1>3. \A c \in Caller : pc[c] = "idle"
  BY DEF Init, Storage!Init
<1>4. StoresInv
  BY <1>3, Callers DEF Init, StoresInv
<1>5. audit = {} /\ paid = {} /\ block = NoRequest /\ step = "none" /\ crashes = 0
  BY DEF Init, Storage!Init
<1>6. RecordInv
  BY <1>3, <1>5, Callers DEF RecordInv
<1>7. PaymentsInv
  BY <1>5, FS_EmptySet DEF PaymentsInv, Payments
<1>8. FundsInv
  <2>1. ASSUME NEW a \in Storage!Wallets PROVE Funds(a)
    <3>1. PaidTo(a) = 0
      <4>1. PaymentsTo(a) = {}
        BY <1>5 DEF PaymentsTo
      <4> QED BY <4>1, PaidToIs, Sum!SumEmpty
    <3>2. banBalance[a] = Opening /\ Due(a) = 0
      BY <1>5 DEF Init, Storage!Init, Due
    <3> QED BY <3>1, <3>2, WithdrawalsAssumption DEF Funds
  <2> QED BY <1>3, <1>5, <2>1, Callers, FundsSplit
          DEF ReadIsCurrent, Sufficient, StoreIsCurrent
<1> QED BY <1>1, <1>2, <1>4, <1>6, <1>7, <1>8 DEF IInv

LEMMA TypesStep == TypeOK /\ WorkerInv /\ [Next]_vars => (TypeOK /\ WorkerInv)'
<1> SUFFICES ASSUME TypeOK, WorkerInv, [Next]_vars PROVE TypeOK' /\ WorkerInv'
  OBVIOUS
<1>1. Storage!TypeOK'
  BY StorageTypes
<1>2. QueueTypes' /\ WorkerInv'
  <2>1. CASE Next
    BY <2>1, QueueStep, TypesSplit
  <2>2. CASE UNCHANGED vars
    BY <2>2, TypesSplit
    DEF vars, queueVars, workerVars, walletVars, QueueTypes, WorkerInv
  <2> QED BY <2>1, <2>2
<1> QED BY <1>1, <1>2, TypesSplit

LEMMA ScheduleInvStep ==
  ASSUME Undisturbed, DistinctTimes, TypeOK, WorkerInv, SourceInv, ScheduleInv, [Next]_vars
  PROVE  SourceInv' /\ ScheduleInv'
<1>1. CASE Next
  BY <1>1, SourceStep, ScheduleStep
<1>2. CASE UNCHANGED vars
  BY <1>2
  DEF vars, storageVars, queueVars, workerVars, walletVars, SourceInv, Storage!EventOf,
      ScheduleInv, NotDropped, Scheduled, Paid
<1> QED BY <1>1, <1>2

LEMMA IInvStep == ASSUME Orderly PROVE IInv /\ [Next]_vars => IInv'
<1> SUFFICES ASSUME IInv, [Next]_vars PROVE IInv'
  OBVIOUS
<1>1. TypeOK' /\ WorkerInv' /\ SourceInv' /\ ScheduleInv' /\ Storage!OnceInv'
  BY TypesStep, ScheduleInvStep, OnceStep DEF IInv, Orderly
<1>2. CASE Next
  BY <1>1, <1>2, StoresStep, RecordStep, PaymentsStep, FundsStep DEF IInv
<1>3. CASE UNCHANGED vars
  <2> USE <1>3 DEF vars, storageVars, queueVars, workerVars, walletVars
  <2>1. StoresInv' /\ RecordInv'
    BY DEF IInv, StoresInv, RecordInv, Recorded, Storage!EventOf
  <2>2. PaymentsInv'
    BY DEF IInv, PaymentsInv, Payments, Recorded, Storage!EventOf
  <2>3. FundsInv'
    <3>1. \A a \in Storage!Wallets : Funds(a) => Funds(a)'
      BY FundsKept DEF IInv
    <3> QED BY <3>1, FundsSplit
            DEF IInv, ReadIsCurrent, Sufficient, StoreIsCurrent, Covers
  <2> QED BY <1>1, <2>1, <2>2, <2>3 DEF IInv
<1> QED BY <1>2, <1>3

-----------------------------------------------------------------------------
(* Every variable keeps its type, whatever fails, times out or crashes.    *)
THEOREM TypeCorrect == Spec => []TypeOK
BY InitTypes, TypesStep, PTL DEF Spec

(* The worker, the stores it leaves running, the readers and the crashes   *)
(* use the storage as UsersDepositsStorage says.                           *)
THEOREM StorageImplemented == Spec => Storage!Spec
<1>1. Init => Storage!Init
  BY DEF Init
<1>2. TypeOK /\ WorkerInv /\ [Next]_vars => [Storage!Next]_Storage!storageVars
  BY StorageRefined
<1> QED BY <1>1, <1>2, InitTypes, TypesStep, PTL DEF Spec, Storage!Spec

(* So the balances are what the history adds up to, with any number of     *)
(* stores and readers, failures and crashes: it takes the expiry of a lock *)
(* or a command sent again to break that.                                  *)
THEOREM BalancesAddUp ==
  ASSUME ~TtlMayElapse, ~RetryInFlight, Storage!Canonical, Storage!LockDiscipline
  PROVE  Spec => []BalanceMatchesAudit
<1>0. SP!CallsInTime /\ SP!OneLockPerWallet
  BY DEF SP!CallsInTime, SP!OneLockPerWallet, SP!Canonical, SP!LockDiscipline,
         Storage!Canonical, Storage!LockDiscipline
<1>1. Init => SP!LedgerInv
  BY SameAssumptions, SameStates, SP!LedgerInvInit DEF Init
<1>2. TypeOK /\ WorkerInv /\ [Next]_vars => [SP!Next]_SP!storageVars
  BY StorageRefined
<1>3. SP!LedgerInv /\ [SP!Next]_SP!storageVars => SP!LedgerInv'
  BY <1>0, SameAssumptions, SP!LedgerInvStep
<1>4. SP!LedgerInv => BalanceMatchesAudit
  <2>1. \A S : SP!MapThenSumSet(SP!Delta, S) = Storage!MapThenSumSet(Storage!Delta, S)
    BY DEF SP!MapThenSumSet, SP!MapThenFoldSet, SP!Delta,
           Storage!MapThenSumSet, Storage!MapThenFoldSet, Storage!Delta
  <2> QED BY <2>1 DEF SP!LedgerInv, SP!BalanceMatchesAudit, SP!Wallets, BalanceMatchesAudit,
                      Storage!BalanceMatchesAudit, Storage!Wallets
<1> QED BY <1>1, <1>2, <1>3, <1>4, InitTypes, TypesStep, PTL DEF Spec

(* No withdrawal is lost between its jobs, however often it is put off or  *)
(* retried and whenever the process dies, unless a failure of Redis or of  *)
(* the node uses up its attempts.                                          *)
THEOREM NothingDropped == ASSUME Undisturbed, DistinctTimes PROVE Spec => []NotDropped
<1> DEFINE I == TypeOK /\ WorkerInv /\ SourceInv /\ ScheduleInv
<1>1. Init => I
  BY InitTypes, InitSchedule
<1>2. I /\ [Next]_vars => I'
  <2> SUFFICES ASSUME I, [Next]_vars PROVE I'
    OBVIOUS
  <2>1. TypeOK' /\ WorkerInv'
    BY TypesStep
  <2> QED BY <2>1, ScheduleInvStep
<1>3. I => NotDropped
  BY DEF ScheduleInv
<1> HIDE DEF I
<1> QED BY <1>1, <1>2, <1>3, PTL DEF Spec

(* The invariant that the next theorems rest on.                           *)
THEOREM Inductive == ASSUME Orderly PROVE Spec => []IInv
BY InitIInv, IInvStep, PTL DEF Spec

(* Under Orderly, so without failing commands and other readers, retries,  *)
(* new jobs and stores left running pay no withdrawal again: a crash does, *)
(* at most once each.                                                      *)
THEOREM PaidOnce == ASSUME Orderly PROVE Spec => []PaidOncePerLife
<1>1. IInv => PaidOncePerLife
  <2> SUFFICES ASSUME IInv, NEW w \in Withdrawal PROVE Payments(w) <= 1 + crashes
    BY DEF PaidOncePerLife
  <2>1. crashes \in Nat /\ Payments(w) \in Nat
    BY PaymentsAreNumbers DEF IInv, TypeOK, PaymentsInv
  <2> QED BY <2>1 DEF IInv, PaymentsInv
<1> QED BY <1>1, Inductive, PTL

(* Under Orderly users are not paid more than they deposited, although     *)
(* each payment leaves the hot wallet before it leaves the balance.        *)
THEOREM NotOverdrawn == ASSUME Orderly PROVE Spec => []NoOverdraft
<1>1. IInv => NoOverdraft
  <2> SUFFICES ASSUME IInv, crashes = 0, NEW a \in Storage!Wallets PROVE PaidTo(a) <= Opening
    BY DEF NoOverdraft
  <2>1. Funds(a)
    BY FundsSplit DEF IInv
  <2>2. PaidTo(a) \in Int /\ banBalance[a] \in Int /\ Opening \in Nat
    BY PaidToType, WithdrawalsAssumption DEF IInv, TypeOK, Storage!TypeOK
  <2>3. Due(a) \in Int
    BY StorageAssumption, Callers DEF Due, IInv, TypeOK, Storage!RequestsAssumption
  <2> QED BY <2>1, <2>2, <2>3 DEF Funds
<1> QED BY <1>1, Inductive, PTL

(* Nothing is paid for a withdrawal that is in the history, crash or not,  *)
(* as long as no command fails, nobody else reads balances and requests    *)
(* have different times.  A command that fails behind a payment can leave  *)
(* two entries at one timestamp, which containsUserWithdrawalRequest takes *)
(* for none.                                                               *)
THEOREM RecordEndsPayments == ASSUME Orderly PROVE Spec => NoPaymentAfterRecord
<1> DEFINE A == \A w \in Withdrawal :
                  Recorded(w) => paid' \cap PaymentsOf(w) = paid \cap PaymentsOf(w)
<1>1. IInv /\ [Next]_vars => A
  <2> SUFFICES ASSUME IInv, [Next]_vars, NEW w \in Withdrawal, Recorded(w)
               PROVE  paid' \cap PaymentsOf(w) = paid \cap PaymentsOf(w)
    OBVIOUS
  <2>1. CASE paid' = paid
    BY <2>1
  <2>2. CASE Next /\ sendBan
    <3>1. PICK r \in PaymentsOf(current[1]) : paid' = paid \cup {r}
      BY <2>2, SendBanDoes DEF IInv
    <3>2. current[1] \in Withdrawal /\ ~Recorded(current[1])
      BY <2>2, SendBanDoes DEF IInv, RecordInv
    <3>3. r \notin PaymentsOf(w)
      BY <3>1, <3>2, OnePayer DEF Orderly
    <3> QED BY <3>1, <3>3
  <2> QED BY <2>1, <2>2, PaidGrows DEF vars, walletVars
<1> QED BY <1>1, Inductive, PTL DEF Spec, NoPaymentAfterRecord
=============================================================================
