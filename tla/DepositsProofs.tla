--------------------------- MODULE DepositsProofs ---------------------------
(***************************************************************************)
(* Proofs about Deposits: its types; that it drives the storage only by    *)
(* steps of UsersDepositsStorage; that every deposit is sent back at most  *)
(* once per failure, and not if it is credited; and that the cold wallet   *)
(* leaves the hot wallet its minimum.                                      *)
(***************************************************************************)
EXTENDS Deposits, TLAPS, FiniteSetTheorems

(* The storage whose theorems these proofs cite is the storage the model   *)
(* instantiates: the two copies of every definition say the same.          *)
SP == INSTANCE UsersDepositsStorageProofs

LEMMA SameAssumptions ==
  SP!LowerAssumption /\ SP!RequestsAssumption /\ SP!ParametersAssumption
BY StorageAssumption
DEF Storage!LowerAssumption, SP!LowerAssumption, Storage!RequestsAssumption,
    SP!RequestsAssumption, Storage!ParametersAssumption,
    SP!ParametersAssumption, Storage!Types, SP!Types, Storage!WriteTypes,
    SP!WriteTypes

(* The types and the initial states are the same...                        *)
LEMMA SameStates ==
  /\ Storage!TypeOK <=> SP!TypeOK
  /\ Storage!TypeOK' <=> SP!TypeOK'
  /\ Storage!Init <=> SP!Init
<1>1. Storage!Init <=> SP!Init
  BY DEF Storage!Init, SP!Init, Storage!Wallets, SP!Wallets,
         Storage!LockNames, SP!LockNames
<1>2. Storage!TypeOK <=> SP!TypeOK
  BY DEF Storage!TypeOK, SP!TypeOK, Storage!Wallets, SP!Wallets,
         Storage!LockNames, SP!LockNames, Storage!Stages, SP!Stages,
         Storage!EventOf, SP!EventOf
<1>3. Storage!TypeOK' <=> SP!TypeOK'
  BY DEF Storage!TypeOK, SP!TypeOK, Storage!Wallets, SP!Wallets,
         Storage!LockNames, SP!LockNames, Storage!Stages, SP!Stages,
         Storage!EventOf, SP!EventOf
<1> QED BY <1>1, <1>2, <1>3

(* ...and so are the steps.                                                *)
LEMMA SameSteps ==
  /\ \A c \in Caller, r \in Requests : Storage!Call(c, r) <=> SP!Call(c, r)
  /\ \A c \in Caller : Storage!Step(c) <=> SP!Step(c)
  /\ Storage!LockNames = SP!LockNames
  /\ \A k \in SP!LockNames : Storage!Expire(k) <=> SP!Expire(k)
  /\ Storage!Crash <=> SP!Crash
  /\ UNCHANGED Storage!storageVars <=> UNCHANGED SP!storageVars
<1>1. \A c \in Caller, r \in Requests : Storage!Call(c, r) <=> SP!Call(c, r)
  BY DEF Storage!WriteTypes, SP!WriteTypes, Storage!Types, SP!Types,
         Storage!EventOf, SP!EventOf, Storage!containsUserDepositTransaction,
         SP!containsUserDepositTransaction,
         Storage!containsUserWithdrawalRequest,
         SP!containsUserWithdrawalRequest, Storage!Cardinality,
         SP!Cardinality, Storage!swapToBanWasAlreadyDone,
         SP!swapToBanWasAlreadyDone, Storage!AlreadyStored, SP!AlreadyStored,
         Storage!AlreadyIngested, SP!AlreadyIngested,
         Storage!BalanceLock, SP!BalanceLock, Storage!SwapsLock,
         SP!SwapsLock, Storage!Free, SP!Free, Storage!Acquire, SP!Acquire,
         Storage!AcquireFirst, SP!AcquireFirst, Storage!MaySubmit,
         SP!MaySubmit, Storage!Call, SP!Call
<1>2. \A c \in Caller : Storage!Step(c) <=> SP!Step(c)
  BY DEF Storage!WriteTypes, SP!WriteTypes, Storage!Types, SP!Types,
         Storage!redisVars, SP!redisVars, Storage!callVars, SP!callVars,
         Storage!storageVars, SP!storageVars, Storage!Wallets, SP!Wallets,
         Storage!LockNames, SP!LockNames, Storage!Delta, SP!Delta,
         Storage!EventOf, SP!EventOf, Storage!swapToBanWasAlreadyDone,
         SP!swapToBanWasAlreadyDone, Storage!BalanceLock, SP!BalanceLock,
         Storage!SwapsLock, SP!SwapsLock, Storage!OuterLock, SP!OuterLock,
         Storage!Free, SP!Free, Storage!Acquire, SP!Acquire,
         Storage!AcquireFirst, SP!AcquireFirst, Storage!Unlocked,
         SP!Unlocked, Storage!Settle, SP!Settle, Storage!BeginLocking,
         SP!BeginLocking, Storage!LockBalance, SP!LockBalance,
         Storage!RetryLock, SP!RetryLock, Storage!GiveUp, SP!GiveUp,
         Storage!Recheck, SP!Recheck, Storage!Read, SP!Read,
         Storage!ReadFails, SP!ReadFails, Storage!UnlockRead, SP!UnlockRead,
         Storage!ReadyToWrite, SP!ReadyToWrite, Storage!NewBalance,
         SP!NewBalance, Storage!Write, SP!Write, Storage!WriteFails,
         SP!WriteFails, Storage!Release, SP!Release, Storage!Step, SP!Step
<1>3. Storage!LockNames = SP!LockNames
  BY DEF Storage!LockNames, SP!LockNames
<1>4. \A k \in SP!LockNames : Storage!Expire(k) <=> SP!Expire(k)
  BY DEF Storage!Expire, SP!Expire, Storage!Free, SP!Free, Storage!callVars,
         SP!callVars
<1>5. Storage!Crash <=> SP!Crash
  BY DEF Storage!Crash, SP!Crash, Storage!Free, SP!Free, Storage!LockNames,
         SP!LockNames
<1>6. UNCHANGED Storage!storageVars <=> UNCHANGED SP!storageVars
  BY DEF Storage!storageVars, SP!storageVars, Storage!redisVars,
         SP!redisVars, Storage!callVars, SP!callVars
<1> QED BY <1>1, <1>2, <1>3, <1>4, <1>5, <1>6

-----------------------------------------------------------------------------
(* What the steps of the worker and of its surroundings do to the storage. *)
LEMMA StorageMoves ==
  ASSUME TypeOK, WorkerInv, Next
  PROVE  \/ UNCHANGED storageVars
         \/ /\ step = "store" /\ current \in Deposit
            /\ \E b \in Background : Storage!Call(b, current)
         \/ \E r \in Requests : r.type = "balance" /\ Storage!Call(Worker, r)
         \/ \E c \in Caller : Storage!Step(c)
         \/ \E k \in Storage!LockNames : Storage!Expire(k)
         \/ Storage!Crash
<1>0. Worker \in Caller /\ Background \subseteq Caller
  BY DepositsAssumption
<1>1. CASE \E b \in Block : SendBlock(b) \/ wsMessageReceived(b)
  BY <1>1 DEF SendBlock, wsMessageReceived
<1>2. CASE Poll \/ UserClaims \/ \E d \in Deposit : Promote(d)
  BY <1>2 DEF Poll, processPendingTransactions, NextPending, UserClaims, Promote
<1>3. CASE WorkerStep
  <2>1. CASE \/ \E d \in Deposit : StartJob(d)
             \/ ConfirmClaim \/ ReceiveDeposit \/ Decide \/ SendBack
             \/ ReadTotal \/ SendToColdWallet
    BY <2>1 DEF StartJob, ConfirmClaim, ReceiveDeposit, Decide, SendBack,
                ReadTotal, SendToColdWallet
  <2>2. CASE StoreDeposit
    BY <2>2 DEF StoreDeposit, WorkerInv, TypeOK
  <2>3. CASE LeaveStoreRunning
    BY <1>0, <2>3 DEF LeaveStoreRunning, Storage!Step
  <2>4. CASE ReadBalance
    BY <2>4 DEF ReadBalance
  <2>5. CASE BalanceRead
    BY <1>0, <2>5 DEF BalanceRead, Storage!Step
  <2>6. CASE JobFails
    BY <1>0, <2>6 DEF JobFails, Storage!Step
  <2> QED BY <1>3, <2>1, <2>2, <2>3, <2>4, <2>5, <2>6 DEF WorkerStep
<1>4. CASE StorageStep
  BY <1>0, <1>4 DEF StorageStep, Retry, Storage!Step
<1>5. CASE ExpireLock
  BY <1>5 DEF ExpireLock
<1>6. CASE CrashRestart
  BY <1>6 DEF CrashRestart
<1> QED BY <1>1, <1>2, <1>3, <1>4, <1>5, <1>6 DEF Next

(* So every step is a step of the storage or leaves it alone.              *)
LEMMA StorageRefined ==
  ASSUME TypeOK, WorkerInv, [Next]_vars
  PROVE  [SP!Next]_SP!storageVars /\ [Storage!Next]_Storage!storageVars
<1>0. Worker \in Caller /\ Background \subseteq Caller
  BY DepositsAssumption
<1>1. CASE UNCHANGED storageVars \/ UNCHANGED vars
  BY <1>1, SameSteps
  DEF vars, storageVars, Storage!storageVars, Storage!redisVars, Storage!callVars
<1>2. CASE step = "store" /\ current \in Deposit
           /\ \E b \in Background : Storage!Call(b, current)
  <2>1. PICK b \in Background : Storage!Call(b, current)
    BY <1>2
  <2>2. current \in Requests /\ b \in Caller
    BY <1>0, <1>2, DepositsAssumption
  <2> QED BY <2>1, <2>2, SameSteps DEF Storage!Next, SP!Next
<1>3. CASE \E r \in Requests : r.type = "balance" /\ Storage!Call(Worker, r)
  BY <1>0, <1>3, SameSteps DEF Storage!Next, SP!Next
<1>4. CASE \/ \E c \in Caller : Storage!Step(c)
           \/ \E k \in Storage!LockNames : Storage!Expire(k)
           \/ Storage!Crash
  BY <1>4, SameSteps DEF Storage!Next, SP!Next
<1> QED BY <1>1, <1>2, <1>3, <1>4, StorageMoves

LEMMA StorageTypes ==
  ASSUME TypeOK, WorkerInv, [Next]_vars PROVE Storage!TypeOK'
<1>1. SP!TypeOK
  BY SameStates DEF TypeOK
<1> QED BY <1>1, SameAssumptions, SameStates, StorageRefined, SP!TypeOKStep

(* What the worker's steps do to the claims.                               *)
LEMMA ClaimTypes ==
  ASSUME TypeOK, WorkerInv, [Next]_vars PROVE Claims!TypeOK'
<1> USE DEF Claims!TypeOK, Claims!DepositStages, Claims!Claim
<1>0. Claims!TypeOK
  BY DEF TypeOK
<1>1. CASE UNCHANGED claimVars \/ UNCHANGED vars
  BY <1>0, <1>1 DEF claimVars, vars
<1>2. ASSUME NEW d \in Deposit, StartJob(d) PROVE Claims!TypeOK'
  <2>1. Lower[d.address] \in Storage!Wallets
    BY DepositsAssumption, StorageAssumption
    DEF Storage!Wallets, Storage!RequestsAssumption
  <2> QED BY <1>0, <1>2, <2>1 DEF StartJob, Claims!processUserDeposit
<1>3. CASE ConfirmClaim
  BY <1>0, <1>3 DEF ConfirmClaim, Claims!FindKey, Claims!EndDeposit, Claims!confirmClaim
<1>4. CASE Claims!LeaveDeposit \/ Claims!Crash
  BY <1>0, <1>4 DEF Claims!LeaveDeposit, Claims!Crash, Claims!EndDeposit
<1>5. CASE UserClaims
  BY <1>0, <1>5 DEF UserClaims, Claims!ExpirePending, Claims!depositVars
<1> QED
  BY <1>1, <1>2, <1>3, <1>4, <1>5
  DEF Next, SendBlock, wsMessageReceived, Poll, processPendingTransactions,
      NextPending, Promote, WorkerStep, ReceiveDeposit, Decide, SendBack,
      StoreDeposit, LeaveStoreRunning, ReadTotal, SendToColdWallet, ReadBalance,
      BalanceRead, JobFails, StorageStep, ExpireLock, CrashRestart

-----------------------------------------------------------------------------
(* The funds of the hot wallet.                                            *)
Sum == INSTANCE SumTheorems WITH Op <- Amount

(* The sums of SumTheorems are those of the model.                         *)
LEMMA SumIsTotal ==
  /\ \A S : Sum!Total(S) = MapThenSumSet(Amount, S)
  /\ \A S : Sum!IsFiniteSet(S) <=> IsFiniteSet(S)
BY DEF Sum!Total, Sum!MapThenSumSet, Sum!MapThenFoldSet, MapThenSumSet,
       MapThenFoldSet, Sum!IsFiniteSet, IsFiniteSet

LEMMA Amounts == \A b \in Block : Amount(b) = b.amount /\ b.amount \in Nat
BY DepositsAssumption, StorageAssumption
DEF Amount, Block, Storage!RequestsAssumption

(* The total of the hot wallet is a natural number.                        *)
LEMMA TotalType ==
  ASSUME TypeOK, ShareInv
  PROVE  /\ getTotalBalance = hot + Sum!Total(sent \ received)
         /\ Sum!Total(sent \ received) \in Nat /\ getTotalBalance \in Nat
         /\ Sum!IsFiniteSet(sent \ received)
<1>1. IsFiniteSet(sent \ received) /\ sent \ received \subseteq Block
  BY FS_Subset DEF TypeOK, ShareInv
<1>2. \A b \in sent \ received : Amount(b) \in Nat
  BY <1>1, Amounts
<1>3. Sum!Total(sent \ received) \in Nat /\ Sum!IsFiniteSet(sent \ received)
  BY <1>1, <1>2, SumIsTotal, Sum!SumMonotone
<1> QED BY <1>3, SumIsTotal DEF getTotalBalance, TypeOK

(* A block that is sent raises the total, and receiving it changes nothing *)
(* of it.                                                                  *)
LEMMA TotalMoves ==
  ASSUME TypeOK, ShareInv, NEW b \in Block
  PROVE  /\ b \notin sent /\ sent' = sent \cup {b} /\ UNCHANGED <<received, hot>>
              => getTotalBalance' = getTotalBalance + b.amount
         /\ b \in sent /\ receiveTransaction(b) /\ UNCHANGED sent
              => getTotalBalance' = getTotalBalance
<1> DEFINE S == sent \ received
<1>1. getTotalBalance = hot + Sum!Total(S) /\ Sum!Total(S) \in Nat /\ Sum!IsFiniteSet(S)
  BY TotalType
<1>2. \A c \in S : Amount(c) \in Int
  BY Amounts DEF TypeOK
<1>3. Amount(b) = b.amount /\ b.amount \in Nat /\ hot \in Nat
  BY Amounts DEF TypeOK
<1>4. getTotalBalance' = hot' + Sum!Total(sent' \ received')
  <2>1. getTotalBalance' = hot' + MapThenSumSet(Amount, sent' \ received')
    BY DEF getTotalBalance
  <2>2. Sum!Total(sent' \ received') = MapThenSumSet(Amount, sent' \ received')
    BY SumIsTotal
  <2> QED BY <2>1, <2>2
<1>5. ASSUME b \notin sent, sent' = sent \cup {b}, UNCHANGED <<received, hot>>
      PROVE  getTotalBalance' = getTotalBalance + b.amount
  <2>1. sent' \ received' = S \cup {b} /\ b \notin S
    BY <1>5 DEF TypeOK
  <2> HIDE DEF S
  <2>2. Sum!Total(S \cup {b}) = Sum!Total(S) + Amount(b)
    BY <1>1, <1>2, <1>3, <2>1, Sum!SumAdd
  <2>3. getTotalBalance' = hot + Sum!Total(S \cup {b})
    BY <1>4, <1>5, <2>1
  <2>4. getTotalBalance = hot + Sum!Total(S) /\ Sum!Total(S) \in Nat
    BY <1>1
  <2> QED BY <1>3, <2>2, <2>3, <2>4
<1>6. ASSUME b \in sent, receiveTransaction(b), UNCHANGED sent
      PROVE  getTotalBalance' = getTotalBalance
  <2>1. CASE b \in received
    BY <1>1, <1>4, <1>6, <2>1 DEF receiveTransaction
  <2>2. CASE b \notin received
    <3>1. hot' = hot + b.amount /\ sent' \ received' = S \ {b} /\ b \in S
      BY <1>6, <2>2 DEF receiveTransaction
    <3> HIDE DEF S
    <3>2. Sum!Total(S) = Sum!Total(S \ {b}) + Amount(b)
      BY <1>1, <1>2, <3>1, Sum!SumRemove
    <3>3. Sum!Total(S \ {b}) \in Int
      <4>1. Sum!IsFiniteSet(S \ {b})
        BY <1>1, SumIsTotal, FS_RemoveElement
      <4> QED BY <1>2, <4>1, Sum!SumType
    <3>4. getTotalBalance' = (hot + b.amount) + Sum!Total(S \ {b})
      BY <1>4, <3>1
    <3>5. getTotalBalance = hot + (Sum!Total(S \ {b}) + b.amount)
      BY <1>1, <1>3, <3>2
    <3> QED BY <1>3, <3>3, <3>4, <3>5
  <2> QED BY <2>1, <2>2
<1> QED BY <1>5, <1>6

(* A part of an amount in whole BAN is no more than the amount.            *)
LEMMA WholeBan ==
  ASSUME NEW a \in Nat, NEW n \in Nat \ {0}, NEW p \in 0..100
  PROVE  /\ (p * n * (a \div n)) \div 100 \in Nat
         /\ (p * n * (a \div n)) \div 100 <= a
<1>1. a \div n \in Nat /\ n * (a \div n) <= a
  OBVIOUS
<1> DEFINE m == n * (a \div n)
<1>2. m \in Nat /\ m <= a
  BY <1>1
<1>3. p * n * (a \div n) = p * m
  BY <1>1
<1> HIDE DEF m
<1>4. p * m <= 100 * m /\ p * m \in Nat
  BY <1>2
<1>5. (p * m) \div 100 \in Nat /\ (p * m) \div 100 <= m
  BY <1>2, <1>4
<1> QED BY <1>2, <1>3, <1>5

(* The share leaves the minimum of the total it is computed from.          *)
LEMMA ShareBound ==
  ASSUME NEW total \in Nat, NEW deposit \in Nat
  PROVE  LET s == ColdWalletShare(total, deposit)
         IN  s \in Nat /\ (s = 0 \/ s + Minimum <= total)
<1> DEFINE above == total - Minimum
           amount == IF above > deposit THEN deposit ELSE above
           part == ((100 - Ratio) * OneBan * (amount \div OneBan)) \div 100
<1>1. Minimum \in Nat /\ OneBan \in Nat \ {0} /\ 100 - Ratio \in 0..100
  BY DepositsAssumption
<1>2. CASE above <= 0
  BY <1>2 DEF ColdWalletShare
<1>3. CASE ~ (above <= 0)
  <2>1. amount \in Nat /\ amount <= above /\ above \in Nat
    BY <1>1, <1>3
  <2>2. ColdWalletShare(total, deposit) = part
    BY <1>3 DEF ColdWalletShare
  <2> HIDE DEF amount
  <2>3. part \in Nat /\ part <= amount
    BY <1>1, <2>1, WholeBan
  <2> HIDE DEF part
  <2> QED BY <1>1, <2>1, <2>2, <2>3
<1> QED BY <1>2, <1>3

-----------------------------------------------------------------------------
(* Types, and the worker with its queue.                                   *)
QueueTypes ==
  /\ job \in [Deposit -> JobStates]
  /\ made \in [Deposit -> 0..Attempts]
  /\ current \in Deposit \cup {NoJob}
  /\ step \in StepNames
  /\ share \in Nat
  /\ sent \subseteq Block
  /\ received \subseteq sent
  /\ hot \in Nat
  /\ refunds \in [Deposit -> Nat]
  /\ poll \subseteq Block
  /\ failures \in 0..MaxFailures

LEMMA TypesSplit ==
  /\ TypeOK <=> Storage!TypeOK /\ Claims!TypeOK /\ QueueTypes
  /\ TypeOK' <=> Storage!TypeOK' /\ Claims!TypeOK' /\ QueueTypes'
BY DEF TypeOK, QueueTypes

(* A job that throws.                                                      *)
LEMMA FailStep ==
  ASSUME QueueTypes, WorkerInv, current # NoJob, Fail(current),
         UNCHANGED <<sent, received, refunds, poll>>,
         hot' \in Nat, failures' \in 0..MaxFailures
  PROVE  QueueTypes' /\ WorkerInv'
<1>1. current \in Deposit /\ job[current] = "active" /\ made[current] \in 0..2
  BY DEF QueueTypes, WorkerInv, Attempts
<1>2. made' \in [Deposit -> 0..Attempts] /\ job' \in [Deposit -> JobStates]
  BY <1>1 DEF Fail, QueueTypes, JobStates, Attempts
<1>3. QueueTypes'
  BY <1>2 DEF Fail, QueueTypes, StepNames
<1>4. \A d \in Deposit : job'[d] = IF d = current THEN job'[d] ELSE job[d]
  BY DEF Fail, QueueTypes
<1>5. job'[current] \in {"delayed", "failed"}
  BY <1>1 DEF Fail, QueueTypes
<1>6. \A d \in Deposit : job'[d] \notin {"completed", "failed"} => made'[d] < Attempts
  <2> SUFFICES ASSUME NEW d \in Deposit, job'[d] \notin {"completed", "failed"}
               PROVE  made'[d] < Attempts
    OBVIOUS
  <2>1. CASE d = current
    BY <1>1, <2>1 DEF Fail, QueueTypes, MoreAttempts, Attempts
  <2>2. CASE d # current
    BY <1>1, <2>2 DEF Fail, QueueTypes, WorkerInv
  <2> QED BY <2>1, <2>2
<1>7. \A d \in Deposit : job'[d] # "active"
  BY <1>1, <1>4, <1>5 DEF WorkerInv
<1>8. current' = NoJob /\ step' = "none" /\ NoJob \notin Deposit
  BY DepositsAssumption DEF Fail
<1>9. \A d \in Deposit : job'[d] # "none" => d \in sent
  BY <1>1, <1>4 DEF WorkerInv
<1> QED BY <1>3, <1>6, <1>7, <1>8, <1>9 DEF WorkerInv

(* Steps that go on with the job the worker has.                           *)
LEMMA GoOn ==
  ASSUME QueueTypes, WorkerInv, step # "none", UNCHANGED <<job, made, current, sent, poll>>,
         step' \in StepNames \ {"none"}, share' \in Nat,
         received' \subseteq sent, hot' \in Nat, refunds' \in [Deposit -> Nat],
         failures' \in 0..MaxFailures
  PROVE  QueueTypes' /\ WorkerInv'
BY DEF QueueTypes, WorkerInv

(* Receiving a block, and a failure, keep their types.                     *)
LEMMA Receives ==
  ASSUME QueueTypes, NEW b \in sent, receiveTransaction(b)
  PROVE  received' \subseteq sent /\ hot' \in Nat
BY Amounts DEF QueueTypes, receiveTransaction

LEMMA FailureType ==
  ASSUME QueueTypes, Failure PROVE failures' \in 0..MaxFailures
BY DepositsAssumption DEF QueueTypes, Failure

LEMMA QueueStep ==
  ASSUME QueueTypes, WorkerInv, ShareInv, TypeOK, Next
  PROVE  QueueTypes' /\ WorkerInv'
<1>0. /\ NoJob \notin Deposit /\ Deposit \subseteq Block
      /\ current \in Deposit => current \in sent
      /\ step # "none" => current \in Deposit
  BY DepositsAssumption DEF Block, QueueTypes, WorkerInv
<1>1. ASSUME NEW b \in Block, SendBlock(b) PROVE QueueTypes' /\ WorkerInv'
  BY <1>1 DEF SendBlock, QueueTypes, WorkerInv, queueVars, workerVars
<1>2. ASSUME NEW b \in Block, wsMessageReceived(b) PROVE QueueTypes' /\ WorkerInv'
  <2>1. CASE b \in Own /\ receiveTransaction(b) /\ UNCHANGED job
    BY <1>2, <2>1, Receives DEF wsMessageReceived, QueueTypes, WorkerInv, workerVars
  <2>2. CASE b \in Deposit /\ Add(b) /\ UNCHANGED <<received, hot>>
    BY <1>2, <2>2 DEF wsMessageReceived, Add, QueueTypes, JobStates, WorkerInv, workerVars
  <2> QED BY <1>2, <2>1, <2>2 DEF wsMessageReceived
<1>3. CASE processPendingTransactions
  BY <1>3 DEF processPendingTransactions, QueueTypes, WorkerInv, queueVars,
              workerVars, walletVars
<1>4. ASSUME NEW b \in Block, NextPending(b) PROVE QueueTypes' /\ WorkerInv'
  <2>0. b \in sent /\ UNCHANGED <<made, current, step, share, sent, refunds>>
        /\ poll' \subseteq poll
    BY <1>4 DEF NextPending, WorkerInv, workerVars
  <2>1. CASE b \in Own /\ receiveTransaction(b) /\ UNCHANGED <<failures, job>>
    BY <2>0, <2>1, Receives DEF QueueTypes, WorkerInv
  <2>2. CASE b \in Own /\ Failure /\ UNCHANGED <<received, hot, job>>
    BY <2>0, <2>2, FailureType DEF QueueTypes, WorkerInv
  <2>3. CASE b \in Deposit /\ Add(b) /\ UNCHANGED <<received, hot, failures>>
    BY <2>0, <2>3 DEF Add, QueueTypes, JobStates, WorkerInv
  <2> QED BY <1>4, <2>1, <2>2, <2>3 DEF NextPending
<1>5. CASE UserClaims \/ StorageStep \/ ExpireLock
  BY <1>5 DEF UserClaims, StorageStep, ExpireLock, QueueTypes, WorkerInv, queueVars,
              workerVars, walletVars
<1>6. ASSUME NEW d \in Deposit, Promote(d) PROVE QueueTypes' /\ WorkerInv'
  BY <1>6 DEF Promote, QueueTypes, JobStates, WorkerInv, workerVars, walletVars
<1>7. ASSUME NEW d \in Deposit, StartJob(d) PROVE QueueTypes' /\ WorkerInv'
  BY <1>0, <1>7 DEF StartJob, QueueTypes, JobStates, StepNames, WorkerInv, walletVars
<1>8. CASE ConfirmClaim
  <2>1. CASE Fail(current)
    BY <1>0, <1>8, <2>1, FailStep DEF ConfirmClaim, QueueTypes, walletVars
  <2>2. CASE UNCHANGED <<queueVars, workerVars>>
    BY <1>8, <2>2 DEF ConfirmClaim, QueueTypes, WorkerInv, queueVars, workerVars, walletVars
  <2> QED BY <1>8, <2>1, <2>2 DEF ConfirmClaim
<1>9. CASE ReceiveDeposit
  <2>1. received' \subseteq sent /\ hot' \in Nat /\ failures' \in 0..MaxFailures
    BY <1>0, <1>9, Receives, FailureType DEF ReceiveDeposit, QueueTypes
  <2> QED
    BY <1>9, <2>1, GoOn DEF ReceiveDeposit, queueVars, QueueTypes, StepNames
<1>10. CASE Decide
  BY <1>10, GoOn DEF Decide, queueVars, walletVars, QueueTypes, StepNames
<1>11. CASE SendBack
  <2>1. hot' \in Nat /\ refunds' \in [Deposit -> Nat]
    BY <1>0, <1>11, Amounts DEF SendBack, QueueTypes
  <2> QED BY <1>11, <2>1, GoOn DEF SendBack, queueVars, QueueTypes, StepNames
<1>12. CASE StoreDeposit \/ LeaveStoreRunning
  BY <1>12, GoOn
  DEF StoreDeposit, LeaveStoreRunning, queueVars, walletVars, QueueTypes, StepNames
<1>13. CASE ReadTotal
  <2>1. share' \in Nat
    BY <1>0, <1>13, TotalType, Amounts, ShareBound DEF ReadTotal
  <2> QED BY <1>13, <2>1, GoOn DEF ReadTotal, queueVars, walletVars, QueueTypes, StepNames
<1>14. CASE SendToColdWallet
  <2>1. hot' \in Nat /\ share' \in Nat
    BY <1>14 DEF SendToColdWallet, QueueTypes
  <2> QED BY <1>14, <2>1, GoOn DEF SendToColdWallet, queueVars, QueueTypes, StepNames
<1>15. CASE ReadBalance
  BY <1>15, GoOn
  DEF ReadBalance, queueVars, workerVars, walletVars, QueueTypes, StepNames
<1>16. CASE BalanceRead
  BY <1>0, <1>16
  DEF BalanceRead, QueueTypes, JobStates, StepNames, WorkerInv, walletVars
<1>17. CASE JobFails
  <2>1. failures' \in 0..MaxFailures
    BY <1>17, FailureType DEF JobFails, QueueTypes
  <2> QED BY <1>17, <2>1, FailStep DEF JobFails, walletVars, QueueTypes
<1>18. CASE CrashRestart
  BY <1>0, <1>18, FailureType
  DEF CrashRestart, QueueTypes, JobStates, StepNames, WorkerInv, walletVars
<1> QED
  BY <1>1, <1>2, <1>3, <1>4, <1>5, <1>6, <1>7, <1>8, <1>9, <1>10, <1>11, <1>12,
     <1>13, <1>14, <1>15, <1>16, <1>17, <1>18
  DEF Next, Poll, WorkerStep

-----------------------------------------------------------------------------
(* Sent back at most once, and once more for every failure.                *)
LEMMA RefundStep ==
  ASSUME TypeOK, WorkerInv, RefundInv, Next PROVE RefundInv'
<1> USE DEF TypeOK
<1>0. /\ failures \in Nat /\ refunds \in [Deposit -> Nat] /\ job \in [Deposit -> JobStates]
      /\ NoJob \notin Deposit
  BY DepositsAssumption
<1>1. ASSUME NEW b \in Block, SendBlock(b) \/ wsMessageReceived(b) \/ NextPending(b)
      PROVE  RefundInv'
  BY <1>0, <1>1
  DEF SendBlock, wsMessageReceived, NextPending, Add, Failure, RefundInv, queueVars,
      workerVars, walletVars
<1>2. CASE \/ processPendingTransactions \/ UserClaims \/ StorageStep \/ ExpireLock
           \/ StoreDeposit \/ LeaveStoreRunning \/ ReadTotal \/ ReadBalance
  BY <1>0, <1>2
  DEF processPendingTransactions, UserClaims, StorageStep, ExpireLock, StoreDeposit,
      LeaveStoreRunning, ReadTotal, ReadBalance, RefundInv, queueVars, workerVars, walletVars
<1>3. ASSUME NEW d \in Deposit, Promote(d) \/ StartJob(d) PROVE RefundInv'
  BY <1>0, <1>3 DEF Promote, StartJob, RefundInv, WorkerInv, workerVars, walletVars
<1>4. CASE ConfirmClaim
  <2>1. step = "claim" /\ UNCHANGED <<refunds, failures>>
    BY <1>4 DEF ConfirmClaim, walletVars
  <2>2. CASE Fail(current)
    BY <1>0, <2>1, <2>2 DEF Fail, RefundInv, WorkerInv
  <2>3. CASE UNCHANGED <<job, current, step>>
    BY <1>0, <2>1, <2>3 DEF RefundInv
  <2> QED BY <1>4, <2>2, <2>3 DEF ConfirmClaim, queueVars, workerVars
<1>5. CASE ReceiveDeposit \/ Decide
  BY <1>0, <1>5 DEF ReceiveDeposit, Failure, Decide, RefundInv, queueVars, walletVars
<1>6. CASE SendBack
  BY <1>0, <1>6 DEF SendBack, RefundInv, WorkerInv, queueVars
<1>7. CASE SendToColdWallet
  BY <1>0, <1>7 DEF SendToColdWallet, RefundInv, queueVars
<1>8. CASE BalanceRead
  BY <1>0, <1>8 DEF BalanceRead, RefundInv, walletVars
<1>9. CASE JobFails
  <2>1. step = "result" => failures' = failures + 1
    BY <1>9 DEF JobFails, Failure
  <2>2. failures' \in {failures, failures + 1}
    BY <1>9 DEF JobFails, Failure
  <2>3. UNCHANGED refunds /\ Fail(current)
    BY <1>9 DEF JobFails, walletVars
  <2>4. \A d \in Deposit : job'[d] = "completed" <=> job[d] = "completed"
    BY <1>0, <2>3 DEF Fail, WorkerInv
  <2> QED BY <1>0, <2>1, <2>2, <2>3, <2>4 DEF Fail, RefundInv
<1>10. CASE CrashRestart
  BY <1>0, <1>10 DEF CrashRestart, Failure, RefundInv, walletVars
<1> QED
  BY <1>1, <1>2, <1>3, <1>4, <1>5, <1>6, <1>7, <1>8, <1>9, <1>10
  DEF Next, Poll, WorkerStep

-----------------------------------------------------------------------------
(* The share for the cold wallet.                                          *)
LEMMA ShareStep ==
  ASSUME TypeOK, WorkerInv, ShareInv, Next PROVE ShareInv'
<1>0. /\ hot \in Nat /\ share \in Nat /\ getTotalBalance \in Nat /\ Minimum \in Nat
      /\ \A b \in Block : b.amount \in Nat
  BY TotalType, Amounts, DepositsAssumption DEF TypeOK
<1>1. ASSUME UNCHANGED <<sent, received, hot>>
      PROVE  getTotalBalance' = getTotalBalance /\ IsFiniteSet(sent')
  BY <1>1 DEF getTotalBalance, ShareInv
<1>2. ASSUME NEW b \in Block, b \in sent, receiveTransaction(b), UNCHANGED sent
      PROVE  getTotalBalance' = getTotalBalance /\ IsFiniteSet(sent')
  BY <1>2, TotalMoves DEF ShareInv
<1>3. ASSUME NEW b \in Block, SendBlock(b) PROVE ShareInv'
  <2>1. getTotalBalance' = getTotalBalance + b.amount
    BY <1>3, TotalMoves DEF SendBlock
  <2>2. IsFiniteSet(sent')
    BY <1>3, FS_AddElement DEF SendBlock, ShareInv
  <2> QED BY <1>0, <1>3, <2>1, <2>2 DEF SendBlock, ShareInv, workerVars
<1>4. ASSUME NEW b \in Block, wsMessageReceived(b) PROVE ShareInv'
  BY <1>1, <1>2, <1>4 DEF wsMessageReceived, ShareInv, workerVars
<1>5. ASSUME NEW b \in Block, NextPending(b) PROVE ShareInv'
  <2>1. b \in sent
    BY <1>5 DEF NextPending, WorkerInv
  <2> QED BY <1>1, <1>2, <1>5, <2>1 DEF NextPending, ShareInv, workerVars
<1>6. CASE \/ processPendingTransactions \/ UserClaims \/ StorageStep \/ ExpireLock
           \/ \E d \in Deposit : Promote(d)
           \/ ReadBalance
  BY <1>1, <1>6
  DEF processPendingTransactions, UserClaims, StorageStep, ExpireLock, Promote,
      ReadBalance, ShareInv, workerVars, walletVars
<1>7. CASE \/ \E d \in Deposit : StartJob(d)
           \/ Decide \/ StoreDeposit \/ LeaveStoreRunning \/ BalanceRead \/ CrashRestart
  BY <1>1, <1>7
  DEF StartJob, Decide, StoreDeposit, LeaveStoreRunning, BalanceRead, CrashRestart,
      ShareInv, walletVars
<1>8. CASE ConfirmClaim \/ JobFails
  BY <1>1, <1>8 DEF ConfirmClaim, JobFails, Fail, ShareInv, workerVars, walletVars
<1>9. CASE ReceiveDeposit \/ SendBack \/ SendToColdWallet
  BY <1>9 DEF ReceiveDeposit, SendBack, SendToColdWallet, ShareInv
<1>10. CASE ReadTotal
  <2>1. current \in Deposit /\ current \in Block
    BY <1>10 DEF ReadTotal, TypeOK, WorkerInv, Block
  <2>2. share' = 0 \/ share' + Minimum <= getTotalBalance
    BY <1>0, <1>10, <2>1, ShareBound DEF ReadTotal
  <2> QED BY <1>1, <1>10, <2>2 DEF ReadTotal, ShareInv, walletVars
<1> QED
  BY <1>3, <1>4, <1>5, <1>6, <1>7, <1>8, <1>9, <1>10 DEF Next, Poll, WorkerStep

-----------------------------------------------------------------------------
(* What is kept was claimed.                                               *)

(* What the storage gets to know: a step records what a call in flight     *)
(* carries, and a call that begins carries the deposit of the worker, or   *)
(* nothing that is written.                                                *)
LEMMA StorageGains ==
  ASSUME TypeOK, WorkerInv, Next, NEW d \in Deposit
  PROVE  /\ Credited(d)' => Credited(d) \/ \E c \in Caller : req[c] = d
         /\ (\E c \in Caller : req'[c] = d)
              => \/ \E c \in Caller : req[c] = d
                 \/ step = "store" /\ current = d
<1>0. /\ Worker \in Caller /\ Background \subseteq Caller /\ Worker \notin Background
      /\ Caller = {Worker} \cup Background
      /\ d \in Requests /\ d.type = "deposit" /\ NoRequest \notin Requests
      /\ SP!TypeOK
  BY DepositsAssumption, StorageAssumption, SameStates
  DEF TypeOK, Storage!RequestsAssumption
<1>1. CASE UNCHANGED storageVars
  BY <1>1 DEF storageVars, Credited, Storage!EventOf
<1>2. CASE step = "store" /\ current \in Deposit
           /\ \E b \in Background : Storage!Call(b, current)
  <2>1. PICK b \in Background : Storage!Call(b, current)
    BY <1>2
  <2>2. current \in Requests /\ SP!Call(b, current)
    BY <1>0, <1>2, <2>1, DepositsAssumption, SameSteps
  <2>3. \A c \in Caller : req'[c] = req[c] \/ (c = b /\ req'[c] = current)
    BY <1>0, <2>2, SameAssumptions, SP!CallKeeps
  <2>4. audit' = audit
    BY <1>0, <2>2, SameAssumptions, SP!CallKeeps
  <2> QED BY <1>0, <1>2, <2>3, <2>4 DEF Credited, Storage!EventOf
<1>3. CASE \E r \in Requests : r.type = "balance" /\ Storage!Call(Worker, r)
  <2>1. PICK r \in Requests : r.type = "balance" /\ Storage!Call(Worker, r)
    BY <1>3
  <2>2. SP!Call(Worker, r)
    BY <1>0, <2>1, SameSteps
  <2>3. /\ \A c \in Caller : req'[c] = req[c] \/ (c = Worker /\ req'[c] = r)
        /\ audit' = audit
    BY <1>0, <2>2, SameAssumptions, SP!CallKeeps
  <2>4. r # d
    BY <1>0, <2>1
  <2>5. Credited(d)' => Credited(d)
    BY <2>3 DEF Credited, Storage!EventOf
  <2> QED BY <1>0, <2>3, <2>4, <2>5
<1>4. CASE \E c \in Caller : Storage!Step(c)
  <2>1. PICK c \in Caller : SP!Step(c)
    BY <1>4, SameSteps
  <2>2. /\ \A e \in Caller : req'[e] = req[e] \/ req'[e] = NoRequest
        /\ audit' = audit \/ (SP!Write(c) /\ audit' = audit \cup {SP!EventOf(req[c])})
        /\ pc[c] # "idle" /\ req[c] \in Requests
    BY <1>0, <2>1, SameAssumptions, SP!StepKeeps
  <2>3. SP!EventOf(d) = SP!EventOf(req[c]) => d = req[c]
    BY <1>0, <2>2, SameAssumptions, SP!EventOfInjective DEF SP!WriteTypes
  <2>4. Storage!EventOf(d) = SP!EventOf(d)
    BY DEF Storage!EventOf, SP!EventOf
  <2>5. Credited(d)' => Credited(d) \/ \E e \in Caller : req[e] = d
    BY <2>2, <2>3, <2>4 DEF Credited, Storage!EventOf, SP!EventOf
  <2> QED BY <1>0, <2>2, <2>5
<1>5. CASE \/ \E k \in Storage!LockNames : Storage!Expire(k)
           \/ Storage!Crash
  BY <1>0, <1>5
  DEF Storage!Expire, Storage!callVars, Storage!Crash, Credited, Storage!EventOf
<1> QED BY <1>1, <1>2, <1>3, <1>4, <1>5, StorageMoves

LEMMA KeptStep ==
  ASSUME TypeOK, WorkerInv, KeptInv, Next PROVE KeptInv'
<1>0. /\ claims \subseteq claims'
      /\ step # "claim" => claims' = claims
  BY DEF Next, SendBlock, wsMessageReceived, Poll, processPendingTransactions,
         NextPending, UserClaims, Claims!ExpirePending, Claims!depositVars, Promote,
         WorkerStep, StartJob, Claims!processUserDeposit, ConfirmClaim, Claims!FindKey,
         Claims!confirmClaim, ReceiveDeposit, Decide, Claims!LeaveDeposit, SendBack,
         StoreDeposit, LeaveStoreRunning, ReadTotal, SendToColdWallet, ReadBalance,
         BalanceRead, JobFails, StorageStep, ExpireLock, CrashRestart, Claims!Crash,
         claimVars
<1>1. \A d \in Deposit : /\ Kept(d) => Kept(d)'
                         /\ step # "claim" => (Kept(d)' <=> Kept(d))
  BY <1>0 DEF Kept, HasClaim, Claims!isClaimed
<1>2. step = "store" => current \in Deposit /\ Kept(current)
  BY DEF WorkerInv, KeptInv, TypeOK
<1>3. \A d \in Deposit :
        Credited(d)' \/ (\E c \in Caller : req'[c] = d) => Kept(d)'
  <2> SUFFICES ASSUME NEW d \in Deposit,
                      Credited(d)' \/ (\E c \in Caller : req'[c] = d)
               PROVE  Kept(d)'
    OBVIOUS
  <2>1. \/ Credited(d) \/ \E c \in Caller : req[c] = d
        \/ step = "store" /\ current = d
    BY StorageGains, DepositsAssumption
  <2> QED BY <1>1, <1>2, <2>1 DEF KeptInv
<1>4. /\ step' = "store" => current' \in Deposit /\ current' = current /\ step # "claim"
                            /\ (step = "store" \/ Kept(current))
      /\ step' = "refund" => current' \in Deposit /\ current' = current /\ step # "claim"
                             /\ (step = "refund" \/ ~Kept(current))
  <2>1. CASE Decide
    BY <2>1 DEF Decide, Kept, WorkerInv, TypeOK
  <2>2. CASE UNCHANGED <<step, current>>
    BY <2>2 DEF WorkerInv, TypeOK
  <2>3. CASE step' \notin {"store", "refund"}
    BY <2>3
  <2>4. UNCHANGED <<step, current>> \/ step' \notin {"store", "refund"} \/ Decide
    BY DEF Next, SendBlock, wsMessageReceived, Poll, processPendingTransactions,
           NextPending, UserClaims, Promote, WorkerStep, StartJob, ConfirmClaim,
           ReceiveDeposit, SendBack, StoreDeposit, LeaveStoreRunning, ReadTotal,
           SendToColdWallet, ReadBalance, BalanceRead, JobFails, Fail, StorageStep,
           ExpireLock, CrashRestart, workerVars
  <2> QED BY <2>1, <2>2, <2>3, <2>4
<1>5. step' = "store" => Kept(current)'
  BY <1>1, <1>4 DEF KeptInv, Kept
<1>6. step' = "refund" => ~Kept(current)'
  BY <1>1, <1>4 DEF KeptInv, Kept
<1> QED BY <1>3, <1>5, <1>6 DEF KeptInv

-----------------------------------------------------------------------------
(* The inductive invariant and what follows from it.                       *)
LEMMA IInvInit == Init => IInv
<1> SUFFICES ASSUME Init PROVE IInv
  OBVIOUS
<1>1. Storage!TypeOK
  BY SameAssumptions, SameStates, SP!TypeOKInit DEF Init
<1>2. Claims!TypeOK
  BY DEF Init, Claims!Init, Claims!TypeOK, Claims!DepositStages
<1>3. QueueTypes
  BY DepositsAssumption DEF Init, QueueTypes, JobStates, StepNames, Attempts
<1>4. WorkerInv
  BY DepositsAssumption DEF Init, WorkerInv, Attempts
<1>5. RefundInv
  BY DepositsAssumption DEF Init, RefundInv
<1>6. KeptInv
  BY DepositsAssumption, StorageAssumption
  DEF Init, KeptInv, Credited, Storage!Init, Storage!RequestsAssumption
<1>7. ShareInv
  BY FS_EmptySet DEF Init, ShareInv
<1> QED BY <1>1, <1>2, <1>3, <1>4, <1>5, <1>6, <1>7, TypesSplit DEF IInv

LEMMA IInvStep == IInv /\ [Next]_vars => IInv'
<1> SUFFICES ASSUME IInv, [Next]_vars PROVE IInv'
  OBVIOUS
<1>0. TypeOK /\ WorkerInv /\ RefundInv /\ KeptInv /\ ShareInv /\ QueueTypes
  BY TypesSplit DEF IInv
<1>1. Storage!TypeOK' /\ Claims!TypeOK'
  BY <1>0, StorageTypes, ClaimTypes
<1>2. CASE Next
  BY <1>0, <1>1, <1>2, QueueStep, RefundStep, KeptStep, ShareStep, TypesSplit DEF IInv
<1>3. CASE UNCHANGED vars
  <2> USE <1>0, <1>3
          DEF vars, storageVars, claimVars, queueVars, workerVars, walletVars
  <2>1. QueueTypes' /\ WorkerInv'
    BY DEF QueueTypes, WorkerInv
  <2>2. RefundInv'
    BY DEF RefundInv
  <2>3. KeptInv'
    BY DEF KeptInv, Kept, HasClaim, Claims!isClaimed, Credited, Storage!EventOf
  <2>4. ShareInv'
    BY DEF ShareInv, getTotalBalance
  <2> QED BY <1>1, <2>1, <2>2, <2>3, <2>4, TypesSplit DEF IInv
<1> QED BY <1>2, <1>3

THEOREM Inductive == Spec => []IInv
BY IInvInit, IInvStep, PTL DEF Spec

(* Every variable keeps its type.                                          *)
THEOREM TypeCorrect == Spec => []TypeOK
<1>1. IInv => TypeOK
  BY DEF IInv
<1> QED BY <1>1, Inductive, PTL

(* However often a deposit is noticed and its job attempted, it is sent    *)
(* back at most once, and once more for every failure or crash.            *)
THEOREM SentBackOnce == Spec => []SentBackOncePerFailure
<1>1. IInv => SentBackOncePerFailure
  BY DEF IInv, TypeOK, RefundInv, SentBackOncePerFailure
<1> QED BY <1>1, Inductive, PTL

(* What is credited, or on its way to the storage, is not sent back.       *)
THEOREM CreditedKept == Spec => CreditedIsKept
<1> DEFINE A == \A d \in Deposit :
                  refunds'[d] > refunds[d]
                    => ~Credited(d) /\ \A b \in Background : req[b] # d
<1>1. IInv /\ [Next]_vars => A
  <2> SUFFICES ASSUME IInv, [Next]_vars, NEW d \in Deposit, refunds'[d] > refunds[d]
               PROVE  ~Credited(d) /\ \A b \in Background : req[b] # d
    OBVIOUS
  <2>1. refunds \in [Deposit -> Nat] /\ KeptInv
    BY DEF IInv, TypeOK
  <2>2. step = "refund" /\ current = d
    <3>1. refunds' # refunds
      BY <2>1
    <3>2. SendBack
      BY <3>1
      DEF Next, SendBlock, wsMessageReceived, Poll, processPendingTransactions,
          NextPending, UserClaims, Promote, WorkerStep, StartJob, ConfirmClaim,
          ReceiveDeposit, Decide, StoreDeposit, LeaveStoreRunning, ReadTotal,
          SendToColdWallet, ReadBalance, BalanceRead, JobFails, StorageStep, ExpireLock,
          CrashRestart, walletVars, vars
    <3> QED BY <2>1, <3>2 DEF SendBack
  <2> QED BY <2>1, <2>2, DepositsAssumption DEF KeptInv
<1> QED BY <1>1, Inductive, PTL DEF Spec, CreditedIsKept

(* The share for the cold wallet leaves the hot wallet its minimum,        *)
(* whatever is sent and received after the total was read.                 *)
THEOREM MinimumKept == Spec => MinimumIsKept
<1> DEFINE A == step = "share" /\ hot' < hot
                  => hot' + MapThenSumSet(Amount, sent \ received) >= Minimum
<1>1. IInv /\ [Next]_vars => A
  <2> SUFFICES ASSUME IInv, [Next]_vars, step = "share", hot' < hot
               PROVE  hot' + MapThenSumSet(Amount, sent \ received) >= Minimum
    OBVIOUS
  <2>0. TypeOK /\ ShareInv /\ hot \in Nat /\ share \in Nat /\ Minimum \in Nat
    BY DepositsAssumption DEF IInv, TypeOK
  <2>1. \A b \in Block : ~ (receiveTransaction(b) \/ UNCHANGED <<received, hot>>)
    BY <2>0, Amounts DEF receiveTransaction
  <2>2. hot' = hot - share
    BY <2>0, <2>1
    DEF Next, SendBlock, wsMessageReceived, Poll, processPendingTransactions,
        NextPending, UserClaims, Promote, WorkerStep, StartJob, ConfirmClaim,
        ReceiveDeposit, Decide, SendBack, StoreDeposit, LeaveStoreRunning, ReadTotal,
        SendToColdWallet, ReadBalance, BalanceRead, JobFails, StorageStep, ExpireLock,
        CrashRestart, walletVars, vars
  <2>3. share + Minimum <= getTotalBalance
    BY <2>0, <2>2 DEF ShareInv
  <2>4. /\ getTotalBalance = hot + MapThenSumSet(Amount, sent \ received)
        /\ MapThenSumSet(Amount, sent \ received) \in Nat
    BY <2>0, TotalType, SumIsTotal
  <2> QED BY <2>0, <2>2, <2>3, <2>4
<1> QED BY <1>1, Inductive, PTL DEF Spec, MinimumIsKept

-----------------------------------------------------------------------------
(* The storage, used by the worker, the stores it leaves running and the   *)
(* crashes of this process, is used as UsersDepositsStorage says.          *)
THEOREM StorageImplemented == Spec => Storage!Spec
<1>1. Init => Storage!Init
  BY DEF Init
<1>2. IInv /\ [Next]_vars => [Storage!Next]_Storage!storageVars
  BY StorageRefined DEF IInv
<1> QED BY <1>1, <1>2, Inductive, PTL DEF Spec, Storage!Spec

(* So what is proved of it holds here: no deposit is credited twice, and   *)
(* the balances are what the recorded deposits add up to.                  *)
THEOREM StorageKeepsItsPromises ==
  ASSUME ~TtlMayElapse, ~RetryInFlight, Storage!Canonical, Storage!LockDiscipline
  PROVE  Spec => [](Storage!StoredAtMostOnce /\ Storage!BalanceMatchesAudit)
<1>0. SP!CallsInTime /\ SP!OneLockPerWallet
  BY DEF SP!CallsInTime, SP!OneLockPerWallet, SP!Canonical, SP!LockDiscipline,
         Storage!Canonical, Storage!LockDiscipline
<1>1. Init => SP!LedgerInv
  BY SameAssumptions, SameStates, SP!LedgerInvInit DEF Init
<1>2. IInv /\ [Next]_vars => [SP!Next]_SP!storageVars
  BY StorageRefined DEF IInv
<1>3. SP!LedgerInv /\ [SP!Next]_SP!storageVars => SP!LedgerInv'
  BY <1>0, SameAssumptions, SP!LedgerInvStep
<1>4. SP!LedgerInv => Storage!StoredAtMostOnce /\ Storage!BalanceMatchesAudit
  <2> SUFFICES ASSUME SP!LedgerInv
               PROVE  Storage!StoredAtMostOnce /\ Storage!BalanceMatchesAudit
    OBVIOUS
  <2>1. Storage!StoredAtMostOnce
    BY DEF SP!LedgerInv, SP!IInv, SP!OnceInv, SP!AppliedMatchesAudit,
           Storage!StoredAtMostOnce
  <2>2. \A S : SP!MapThenSumSet(SP!Delta, S) = Storage!MapThenSumSet(Storage!Delta, S)
    BY DEF SP!MapThenSumSet, SP!MapThenFoldSet, SP!Delta,
           Storage!MapThenSumSet, Storage!MapThenFoldSet, Storage!Delta
  <2>3. Storage!BalanceMatchesAudit
    BY <2>2 DEF SP!LedgerInv, SP!BalanceMatchesAudit, SP!Wallets,
                Storage!BalanceMatchesAudit, Storage!Wallets
  <2> QED BY <2>1, <2>3
<1> QED BY <1>1, <1>2, <1>3, <1>4, Inductive, PTL DEF Spec
=============================================================================
