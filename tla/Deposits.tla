------------------------------ MODULE Deposits ------------------------------
(***************************************************************************)
(* Deposits of BAN: blocks sent to the hot wallet, noticed by WebSocket    *)
(* notifications and by the scan of pending transactions, become jobs of   *)
(* the operations queue, and its single worker runs                        *)
(* Banano.processUserDeposit: confirm a pending claim, receive the block,  *)
(* send the BAN back or credit it, move a share to the cold wallet.  Claims *)
(* are those of module Claims, the store is UsersDepositsStorage's.        *)
(*                                                                         *)
(* BullMQ and the Banano network are modelled from how the source uses     *)
(* them.  A step takes a reply and sends the next command or request.      *)
(***************************************************************************)
EXTENDS Integers, FiniteSetsExt

CONSTANTS
  Address, Lower, Requests, NoRequest, Caller, RetryCount, Opening,
  RetryInFlight, TtlMayElapse,    \* as in UsersDepositsStorage
  BlockchainWallet, NoClaim, NoWallet,  \* as in Claims
  Rounded,      \* deposits with at most two decimals
  Odd,          \* deposits with more
  Own,          \* blocks the bridge's own wallets send: [id, amount]
  Worker,       \* the caller that is the worker of the queue
  Background,   \* callers for the stores nobody awaits
  NoJob,        \* the worker is free
  HotOpening,   \* BAN in the hot wallet at the start
  OneBan,       \* the units of a BAN
  Minimum,      \* BananoUsersDepositsHotWalletMinimum
  Ratio,        \* BananoUsersDepositsHotWalletToColdWalletRatio
  MaxDeposits,  \* bound: deposits that users send
  MaxFailures,  \* bound: commands and requests that fail, and crashes
  MayCrash      \* may the process die?

Deposit == Rounded \cup Odd

ASSUME DepositsAssumption ==
  /\ Caller = {Worker} \cup Background /\ Worker \notin Background
  /\ \A d \in Deposit : d \in Requests /\ d.type = "deposit"
  /\ \A b \in Own : b.amount \in Nat
  /\ Rounded \cap Odd = {}
  /\ NoJob \notin Deposit
  /\ Ratio \in 0..100
  /\ HotOpening \in Nat /\ OneBan \in Nat \ {0} /\ Minimum \in Nat
  /\ MaxDeposits \in Nat /\ MaxFailures \in Nat
  /\ MayCrash \in BOOLEAN

VARIABLES
  banBalance, audit, locks, pc, req, val, tries, submitted, applied,
  pending, claims, stage, sender, key,
  job,        \* the state of the job of every deposit
  made,       \* attempts made of it
  current,    \* the deposit the worker processes
  step,       \* what it does for it next
  share,      \* BAN it is about to send to the cold wallet
  sent,       \* blocks sent to the hot wallet
  received,   \* those received
  hot,        \* BAN received and not sent on
  refunds,    \* history: how often a deposit was sent back
  poll,       \* what is left of the current scan of pending transactions
  failures    \* failures and crashes so far

storageVars == <<banBalance, audit, locks, pc, req, val, tries, submitted, applied>>
claimVars == <<pending, claims, stage, sender, key>>
queueVars == <<job, made>>
workerVars == <<current, step, share>>
walletVars == <<sent, received, hot, refunds>>
vars == <<storageVars, claimVars, queueVars, workerVars, walletVars, poll, failures>>

Storage == INSTANCE UsersDepositsStorage

(* Without its calls of claim, whose effect is UserClaims below.           *)
Claims == INSTANCE Claims WITH
  BanWallet <- Storage!Wallets, Caller <- {}, Overlap <- TRUE, TtlMayElapse <- TRUE,
  pc <- [c \in {} |-> "idle"], who <- [c \in {} |-> NoClaim]

(* What those two modules assume of their constants.                       *)
ASSUME StorageAssumption ==
  /\ Storage!LowerAssumption
  /\ Storage!RequestsAssumption
  /\ Storage!ParametersAssumption

ASSUME ClaimsAssumption == Claims!ClaimsAssumption

Block == Deposit \cup Own
JobStates == {"none", "waiting", "delayed", "active", "completed", "failed"}
StepNames == {"none", "claim", "received", "refund", "store", "total", "share", "result"}

Attempts == 3

-----------------------------------------------------------------------------
Amount(b) == b.amount

(* BAN on the account of the hot wallet, what it did not receive included. *)
getTotalBalance == hot + MapThenSumSet(Amount, sent \ received)

(* Mutant: the whole share of the deposit, however little is above.        *)
ColdWalletShare_OfDeposit(total, deposit) ==
  IF total <= Minimum THEN 0
  ELSE ((100 - Ratio) * OneBan * (deposit \div OneBan)) \div 100

(* The share of a deposit for the cold wallet: of what the hot wallet has  *)
(* above its minimum, of the deposit at most, in whole BAN.                *)
ColdWalletShare(total, deposit) ==
  LET above == total - Minimum
      amount == IF above > deposit THEN deposit ELSE above
  IN IF above <= 0 THEN 0
     ELSE ((100 - Ratio) * OneBan * (amount \div OneBan)) \div 100

(* queue.add with a job id Redis already knows does nothing.               *)
Add(d) == job' = [job EXCEPT ![d] = IF @ = "none" THEN "waiting" ELSE @]

(* Mutant: one attempt too many.                                           *)
MoreAttempts_OneMore(d) == made[d] <= Attempts

MoreAttempts(d) == made[d] + 1 < Attempts

(* The processor throws: another attempt later, or the job has failed.     *)
Fail(d) ==
  /\ made' = [made EXCEPT ![d] = @ + 1]
  /\ job' = [job EXCEPT ![d] = IF MoreAttempts(d) THEN "delayed" ELSE "failed"]
  /\ current' = NoJob
  /\ step' = "none"
  /\ share' = 0

Failure == failures < MaxFailures /\ failures' = failures + 1

(* Mutant: whoever has a pending claim has a claim.                        *)
HasClaim_Pending(b) == Claims!isClaimed(b) \/ Claims!hasPendingClaim(b)

HasClaim(b) == Claims!isClaimed(b)

-----------------------------------------------------------------------------
Init ==
  /\ Storage!Init
  /\ Claims!Init
  /\ job = [d \in Deposit |-> "none"]
  /\ made = [d \in Deposit |-> 0]
  /\ current = NoJob
  /\ step = "none"
  /\ share = 0
  /\ sent = {}
  /\ received = {}
  /\ hot = HotOpening
  /\ refunds = [d \in Deposit |-> 0]
  /\ poll = {}
  /\ failures = 0

(* Somebody sends BAN to the hot wallet.                                   *)
SendBlock(b) ==
  /\ b \notin sent
  /\ b \in Deposit => Cardinality(sent \cap Deposit) < MaxDeposits
  /\ sent' = sent \cup {b}
  /\ UNCHANGED <<storageVars, claimVars, queueVars, workerVars, received, hot,
                 refunds, poll, failures>>

(* receiveTransaction: an error, as for a block received before, is only   *)
(* logged.                                                                 *)
receiveTransaction(b) ==
  IF b \in received THEN UNCHANGED <<received, hot>>
  ELSE received' = received \cup {b} /\ hot' = hot + b.amount

(* A notification of the node.  It may be lost.                            *)
wsMessageReceived(b) ==
  /\ b \in sent
  /\ \/ b \in Own /\ receiveTransaction(b) /\ UNCHANGED job
     \/ b \in Deposit /\ Add(b) /\ UNCHANGED <<received, hot>>
  /\ UNCHANGED <<storageVars, claimVars, made, workerVars, sent, refunds, poll, failures>>

(* The scan of pending transactions, once a minute.                        *)
processPendingTransactions ==
  /\ poll = {}
  /\ poll' = sent \ received
  /\ UNCHANGED <<storageVars, claimVars, queueVars, workerVars, walletVars, failures>>

(* Mutant: own blocks are left where they are.                             *)
NextPending_Ignored(b) ==
  /\ b \in poll
  /\ \/ b \in Own /\ poll' = {} /\ UNCHANGED job
     \/ b \in Deposit /\ Add(b) /\ poll' = poll \ {b}
  /\ UNCHANGED <<storageVars, claimVars, made, workerVars, walletVars, failures>>

(* Its next block.  It returns after the first one of its own wallets.     *)
NextPending(b) ==
  /\ b \in poll
  /\ \/ /\ b \in Own
        /\ \/ receiveTransaction(b) /\ UNCHANGED failures
           \/ Failure /\ UNCHANGED <<received, hot>>
        /\ poll' = {}
        /\ UNCHANGED job
     \/ /\ b \in Deposit
        /\ Add(b)
        /\ poll' = poll \ {b}
        /\ UNCHANGED <<received, hot, failures>>
  /\ UNCHANGED <<storageVars, claimVars, made, workerVars, sent, refunds>>

(* A user's pending claim: whatever calls of claim are in flight and have  *)
(* read, what they do to Redis is this.  It is there until its TTL is over. *)
UserClaims ==
  /\ \/ /\ \E c \in Claims!Claim : c \notin pending /\ pending' = pending \cup {c}
        /\ UNCHANGED <<claims, stage, sender, key>>
     \/ \E c \in pending : Claims!ExpirePending(c)
  /\ UNCHANGED <<storageVars, queueVars, workerVars, walletVars, poll, failures>>

Promote(d) ==
  /\ job[d] = "delayed"
  /\ job' = [job EXCEPT ![d] = "waiting"]
  /\ UNCHANGED <<storageVars, claimVars, made, workerVars, walletVars, poll, failures>>

(* processUserDeposit begins with the claims...                            *)
StartJob(d) ==
  /\ current = NoJob
  /\ job[d] = "waiting"
  /\ job' = [job EXCEPT ![d] = "active"]
  /\ current' = d
  /\ step' = "claim"
  /\ Claims!processUserDeposit(Lower[d.address])
  /\ UNCHANGED <<storageVars, made, share, walletVars, poll, failures>>

(* ...confirmed by Claims; confirmClaim throws if the pending one is gone. *)
ConfirmClaim ==
  /\ step = "claim"
  /\ Claims!FindKey \/ Claims!confirmClaim
  /\ IF stage' = "idle" THEN Fail(current) ELSE UNCHANGED <<queueVars, workerVars>>
  /\ UNCHANGED <<storageVars, walletVars, poll, failures>>

ReceiveDeposit ==
  /\ step = "claim"
  /\ stage = "confirmed"
  /\ \/ receiveTransaction(current) /\ UNCHANGED failures
     \/ Failure /\ UNCHANGED <<received, hot>>
  /\ step' = "received"
  /\ UNCHANGED <<storageVars, claimVars, queueVars, current, share, sent, refunds, poll>>

(* Whether the sender has a claim and the amount two decimals at most.     *)
Decide ==
  /\ step = "received"
  /\ step' = IF HasClaim(Lower[current.address]) /\ current \in Rounded
               THEN "store" ELSE "refund"
  /\ Claims!LeaveDeposit
  /\ UNCHANGED <<storageVars, queueVars, current, share, walletVars, poll, failures>>

(* Mutant: the deposit that was sent back counts as failed.                *)
SendBack_Throws ==
  /\ step = "refund"
  /\ hot >= current.amount
  /\ hot' = hot - current.amount
  /\ refunds' = [refunds EXCEPT ![current] = @ + 1]
  /\ Fail(current)
  /\ UNCHANGED <<storageVars, claimVars, sent, received, poll, failures>>

(* banano.sendBan to the sender.                                           *)
SendBack ==
  /\ step = "refund"
  /\ hot >= current.amount
  /\ hot' = hot - current.amount
  /\ refunds' = [refunds EXCEPT ![current] = @ + 1]
  /\ step' = "result"
  /\ UNCHANGED <<storageVars, claimVars, queueVars, current, share, sent, received,
                 poll, failures>>

(* UsersDepositsService.storeUserDeposit looks the deposit up...           *)
StoreDeposit ==
  /\ step = "store"
  /\ \E b \in Background :
       /\ Storage!Call(b, current)
       /\ step' = IF pc'[b] = "idle" THEN "total" ELSE step
  /\ UNCHANGED <<claimVars, queueVars, current, share, walletVars, poll, failures>>

(* ...and leaves the store running.                                        *)
LeaveStoreRunning ==
  /\ step = "store"
  /\ \E b \in Background : pc[b] = "checked" /\ Storage!BeginLocking(b)
  /\ step' = "total"
  /\ UNCHANGED <<claimVars, queueVars, current, share, walletVars, poll, failures>>

(* eventuallySendToColdWallet asks for the total of the hot wallet...      *)
ReadTotal ==
  /\ step = "total"
  /\ share' = ColdWalletShare(getTotalBalance, current.amount)
  /\ step' = "share"
  /\ UNCHANGED <<storageVars, claimVars, queueVars, current, walletVars, poll, failures>>

(* ...and sends a share of the deposit, if there is one.                   *)
SendToColdWallet ==
  /\ step = "share"
  /\ hot >= share
  /\ hot' = hot - share
  /\ share' = 0
  /\ step' = "result"
  /\ UNCHANGED <<storageVars, claimVars, queueVars, current, sent, received, refunds,
                 poll, failures>>

(* The balance that goes into the result of the job.                       *)
ReadBalance ==
  /\ step = "result"
  /\ pc[Worker] = "idle"
  /\ \E r \in Requests : /\ r.type = "balance" /\ r.address = current.address
                         /\ Storage!Call(Worker, r)
  /\ UNCHANGED <<claimVars, queueVars, workerVars, walletVars, poll, failures>>

BalanceRead ==
  /\ Storage!Release(Worker)
  /\ job' = [job EXCEPT ![current] = "completed"]
  /\ current' = NoJob
  /\ step' = "none"
  /\ UNCHANGED <<claimVars, made, share, walletVars, poll, failures>>

(* A retry of acquire; the failing ones are left out, and giving up is a   *)
(* failure of the job or, in the store nobody awaits, a crash.             *)
Retry(c) == Storage!RetryLock(c) /\ tries'[c] = 0

StorageStep ==
  /\ \/ Retry(Worker) \/ Storage!Read(Worker)
     \/ \E b \in Background : Retry(b) \/ Storage!Read(b) \/ Storage!Write(b) \/ Storage!Release(b)
  /\ UNCHANGED <<claimVars, queueVars, workerVars, walletVars, poll, failures>>

(* A command to Redis or a request to the node fails under the worker, or  *)
(* the wallet holds too little: the job throws.                            *)
JobFails ==
  /\ current # NoJob
  /\ \/ /\ Failure
        /\ \/ /\ step \in {"claim", "received"}
              /\ Claims!LeaveDeposit
              /\ UNCHANGED storageVars
           \/ /\ \/ step \in {"refund", "total"}
                 \/ step = "share" /\ share > 0
                 \/ step = "store" /\ \A b \in Background : pc[b] # "checked"
              /\ UNCHANGED <<storageVars, claimVars>>
           \/ /\ step = "result"
              /\ Storage!ReadFails(Worker)
              /\ UNCHANGED claimVars
     \/ /\ \/ step = "refund" /\ hot < current.amount
           \/ step = "share" /\ hot < share
        /\ UNCHANGED <<storageVars, claimVars, failures>>
  /\ Fail(current)
  /\ UNCHANGED <<walletVars, poll>>

ExpireLock ==
  /\ \E k \in Storage!LockNames : Storage!Expire(k)
  /\ UNCHANGED <<claimVars, queueVars, workerVars, walletVars, poll, failures>>

(* The process dies, also by an error in the store nobody awaits; its job  *)
(* stalls and is waiting again afterwards.                                 *)
CrashRestart ==
  /\ MayCrash
  /\ Failure
  /\ Storage!Crash
  /\ Claims!Crash
  /\ job' = [d \in Deposit |-> IF job[d] = "active" THEN "waiting" ELSE job[d]]
  /\ current' = NoJob
  /\ step' = "none"
  /\ share' = 0
  /\ poll' = {}
  /\ UNCHANGED <<made, walletVars>>

WorkerStep ==
  \/ \E d \in Deposit : StartJob(d)
  \/ ConfirmClaim \/ ReceiveDeposit \/ Decide \/ SendBack
  \/ StoreDeposit \/ LeaveStoreRunning \/ ReadTotal \/ SendToColdWallet
  \/ ReadBalance \/ BalanceRead \/ JobFails

Poll == processPendingTransactions \/ \E b \in Block : NextPending(b)

Next ==
  \/ \E b \in Block : SendBlock(b) \/ wsMessageReceived(b)
  \/ Poll
  \/ UserClaims
  \/ \E d \in Deposit : Promote(d)
  \/ WorkerStep \/ StorageStep
  \/ ExpireLock
  \/ CrashRestart

Spec == Init /\ [][Next]_vars

(* The scan comes back every minute and ends, the worker takes the next    *)
(* job, commands are answered, delays and locks run out.  Notifications    *)
(* may all be lost, and nobody has to deposit or to claim.                 *)
Fairness ==
  /\ WF_vars(Poll)
  /\ WF_vars(WorkerStep)
  /\ WF_vars(StorageStep)
  /\ WF_vars(\E d \in Deposit : Promote(d))
  /\ WF_vars(ExpireLock)

FairSpec == Spec /\ Fairness

-----------------------------------------------------------------------------
(* Types of all variables.                                                 *)
TypeOK ==
  /\ Storage!TypeOK
  /\ Claims!TypeOK
  /\ job \in [Deposit -> JobStates]
  /\ made \in [Deposit -> 0..Attempts]
  /\ current \in Deposit \cup {NoJob}
  /\ step \in StepNames
  /\ share \in Nat
  /\ sent \subseteq Block
  /\ received \subseteq sent
  /\ hot \in Nat
  /\ refunds \in [Deposit -> Nat]
  /\ poll \subseteq Block
  /\ failures \in 0..MaxFailures

Credited(d) == Storage!EventOf(d) \in audit

(* Scans, notifications and the attempts of a job send nothing back twice: *)
(* each repetition has its crash or its failure.                           *)
SentBackOncePerFailure == \A d \in Deposit : refunds[d] <= 1 + failures

(* What was credited, or is being credited by a store still under way, is  *)
(* not sent back, whatever attempt of the job looks at the claims again.   *)
CreditedIsKept ==
  [][\A d \in Deposit :
       refunds'[d] > refunds[d]
         => ~Credited(d) /\ \A b \in Background : req[b] # d]_vars

(* The share for the cold wallet leaves the minimum in the hot wallet,     *)
(* although it is computed from a total read before.                       *)
MinimumIsKept ==
  [][step = "share" /\ hot' < hot
       => hot' + MapThenSumSet(Amount, sent \ received) >= Minimum]_vars

(* Every deposit is credited or sent back in the end, even if all          *)
(* notifications are lost, unless something fails or the pending claim     *)
(* times out in the midst of all three attempts.                           *)
DepositsAreSettled ==
  \A d \in Deposit :
    d \in sent ~> (Credited(d) \/ refunds[d] > 0 \/ job[d] = "failed" \/ failures > 0)

-----------------------------------------------------------------------------
(* The inductive invariants behind these properties.                       *)

(* The worker's job is the active one; jobs that may run again have        *)
(* attempts left, and only blocks that were sent are noticed.              *)
WorkerInv ==
  /\ step = "none" <=> current = NoJob
  /\ \A d \in Deposit : job[d] = "active" <=> current = d
  /\ \A d \in Deposit : job[d] \notin {"completed", "failed"} => made[d] < Attempts
  /\ \A d \in Deposit : job[d] # "none" => d \in sent
  /\ poll \subseteq sent

(* A deposit that was sent back without a failure since has ended its job, *)
(* or is about to.                                                         *)
RefundInv ==
  \A d \in Deposit :
    refunds[d] <= failures + (IF job[d] = "completed" \/ (current = d /\ step = "result")
                                THEN 1 ELSE 0)

Kept(d) == HasClaim(Lower[d.address]) /\ d \in Rounded

(* What is credited or on its way was decided by the claims, which stay.   *)
KeptInv ==
  /\ \A d \in Deposit :
       (Credited(d) \/ \E c \in Caller : req[c] = d) => Kept(d)
  /\ step = "store" => Kept(current)
  /\ step = "refund" => ~Kept(current)

(* The share leaves the minimum, whatever arrives after the total is read. *)
ShareInv ==
  /\ IsFiniteSet(sent)
  /\ step = "share" => share = 0 \/ share + Minimum <= getTotalBalance

IInv == TypeOK /\ WorkerInv /\ RefundInv /\ KeptInv /\ ShareInv
=============================================================================
