---------------------------- MODULE Withdrawals -----------------------------
(***************************************************************************)
(* Withdrawals of BAN: the BullMQ queue of operations, its single worker   *)
(* running Service.processWithdrawBAN, the hot wallet the worker pays      *)
(* from, and the storage underneath (UsersDepositsStorage), whose calls    *)
(* are made by the worker, by the stores it leaves running behind it and   *)
(* by requests for a balance over HTTP.                                    *)
(*                                                                         *)
(* BullMQ, the wallet of the node and Redis are modelled from how the      *)
(* source uses them.  The queue hands out waiting jobs in any order.       *)
(*                                                                         *)
(* A promise rejected with nobody to handle it ends the process (Node 16): *)
(* an error in a store left running or in a route is a CrashRestart.       *)
(***************************************************************************)
EXTENDS Integers, FiniteSetsExt

CONSTANTS
  Address, Lower, Requests, NoRequest, Caller, RetryCount, Opening,
  RetryInFlight, TtlMayElapse,   \* as in UsersDepositsStorage
  Withdrawal,     \* what users ask for: [wallet, amount, at, valid]
  Worker,         \* the caller that is the worker of the queue
  Background,     \* callers for the stores nobody awaits
  Reader,         \* callers that serve GET /deposits/ban/:ban_wallet
  NoJob,          \* the worker is free
  HotOpening,     \* BAN in the hot wallet at the start
  Refill,         \* BAN an operator adds to the hot wallet at a time
  MaxRefills,     \* bound: how often that happens
  MaxAttempt,     \* bound: how often a withdrawal is put off
  MaxCrashes,     \* bound: deaths of the process
  Timely,         \* does the worker always obtain a lock before acquire gives up?
  Faults          \* may commands and sends the worker awaits fail?

ASSUME CallersAssumption ==
  /\ Caller = {Worker} \cup Background \cup Reader
  /\ Worker \notin Background \cup Reader /\ Background \cap Reader = {}

ASSUME WithdrawalsAssumption ==
  /\ NoJob \notin Withdrawal \X (0..MaxAttempt)
  /\ \A w \in Withdrawal : w.amount \in Int /\ w.valid \in BOOLEAN
  /\ Opening \in Nat /\ HotOpening \in Nat
  /\ Refill \in Nat /\ MaxRefills \in Nat
  /\ MaxAttempt \in Nat \ {0} /\ MaxCrashes \in Nat
  /\ Timely \in BOOLEAN /\ Faults \in BOOLEAN

VARIABLES
  banBalance, audit, locks, pc, req, val, tries, submitted, applied,
  job,       \* the state of every job in Redis
  made,      \* attempts made of a job
  current,   \* the job the worker processes
  step,      \* what it does for it next
  block,     \* the payment it made for it, as a request to record it
  hot,       \* BAN in the hot wallet
  paid,      \* history: the payments made, as requests to record them
  refused,   \* history: withdrawals refused for good
  refills,   \* refills so far
  crashes    \* crashes so far

storageVars == <<banBalance, audit, locks, pc, req, val, tries, submitted, applied>>
queueVars == <<job, made>>
workerVars == <<current, step, block>>
walletVars == <<hot, paid, refills>>
vars == <<storageVars, queueVars, workerVars, walletVars, refused, crashes>>

Storage == INSTANCE UsersDepositsStorage

(* What the storage assumes of its constants.                              *)
ASSUME StorageAssumption ==
  /\ Storage!LowerAssumption
  /\ Storage!RequestsAssumption
  /\ Storage!ParametersAssumption

(* <<w, 0>> is the job banano-withdrawal-${wallet}-${timestamp}, <<w, n>>  *)
(* the job pending-...-attempt-${n}.  The job data hold n as `attempt'.    *)
JobIds == Withdrawal \X (0..MaxAttempt)
JobStates == {"none", "waiting", "delayed", "active", "completed", "failed"}
StepNames == {"none", "balance", "hot", "send", "store", "result"}

Attempts == 3

-----------------------------------------------------------------------------
(* The requests a withdrawal makes of the storage.                         *)
PaymentsOf(w) ==
  {r \in Requests : /\ r.type = "withdrawal" /\ r.address = w.wallet
                    /\ r.amount = w.amount /\ r.at = w.at}

(* The next payment: hashes are numbered in the order of the blocks.       *)
FreshPayments(w) ==
  {r \in PaymentsOf(w) \ paid : \A q \in PaymentsOf(w) \ paid : r.id <= q.id}

BalanceOf(w) == {r \in Requests : r.type = "balance" /\ r.address = w.wallet}

(* Mutant: processed withdrawals are not looked up.                        *)
AlreadyProcessed_Never(w) == FALSE

AlreadyProcessed(w) == Storage!containsUserWithdrawalRequest(w.wallet, w.at)

(* Mutant: the balance may lack one unit.                                  *)
Covers_AlmostAll(balance, w) == balance + 1 >= w.amount

Covers(balance, w) == balance >= w.amount

Paid(w) == paid \cap PaymentsOf(w) # {}

-----------------------------------------------------------------------------
(* BullMQ.                                                                 *)

(* queue.add with a job id Redis already knows does nothing.               *)
Add(j, state) == [job EXCEPT ![j] = IF @ = "none" THEN state ELSE @]

(* Mutant: the id of a pending withdrawal lacks its attempt.               *)
PendingId_NoAttempt(w, n) == <<w, 1>>

PendingId(w, n) == <<w, n>>

(* Mutant: one attempt too many.                                           *)
MoreAttempts_OneMore(j) == made[j] <= Attempts

MoreAttempts(j) == made[j] + 1 < Attempts

(* The processor throws: the job is delayed for another attempt, or it has *)
(* failed; removeOnFail removes failed pending withdrawals.                *)
Fail(j) ==
  /\ made' = [made EXCEPT ![j] = IF MoreAttempts(j) \/ j[2] = 0 THEN @ + 1 ELSE 0]
  /\ job' = [job EXCEPT ![j] = IF MoreAttempts(j) THEN "delayed"
                               ELSE IF j[2] = 0 THEN "failed" ELSE "none"]

WorkerFree == current' = NoJob /\ step' = "none" /\ block' = NoRequest

(* A withdrawal is refused for good with the last attempt of its job.      *)
Refuse(j) == refused' = IF MoreAttempts(j) THEN refused ELSE refused \cup {j[1]}

-----------------------------------------------------------------------------
Init ==
  /\ Storage!Init
  /\ job = [j \in JobIds |-> "none"]
  /\ made = [j \in JobIds |-> 0]
  /\ current = NoJob
  /\ step = "none"
  /\ block = NoRequest
  /\ hot = HotOpening
  /\ paid = {}
  /\ refused = {}
  /\ refills = 0
  /\ crashes = 0

(* POST /withdrawals/ban.                                                  *)
withdrawBAN(w) ==
  /\ job' = Add(<<w, 0>>, "waiting")
  /\ UNCHANGED <<storageVars, made, workerVars, walletVars, refused, crashes>>

(* A delay is over.                                                        *)
Promote(j) ==
  /\ job[j] = "delayed"
  /\ job' = [job EXCEPT ![j] = "waiting"]
  /\ UNCHANGED <<storageVars, made, workerVars, walletVars, refused, crashes>>

(* The worker takes a job; processWithdrawBAN checks that the withdrawal   *)
(* was not processed, that its signature is right, its wallet claimed by   *)
(* the signer and its amount not negative (`valid'), or fails to.  A       *)
(* withdrawal put off MaxAttempt times waits until the hot wallet holds    *)
(* enough.                                                                 *)
StartJob(j) ==
  /\ current = NoJob
  /\ job[j] = "waiting"
  /\ j[2] = MaxAttempt => hot >= j[1].amount
  /\ \/ /\ AlreadyProcessed(j[1]) \/ ~j[1].valid
        /\ Fail(j)
        /\ IF j[1].valid THEN UNCHANGED refused ELSE Refuse(j)
        /\ UNCHANGED workerVars
     \/ Faults /\ Fail(j) /\ UNCHANGED <<workerVars, refused>>
     \/ /\ ~AlreadyProcessed(j[1]) /\ j[1].valid
        /\ job' = [job EXCEPT ![j] = "active"]
        /\ current' = j
        /\ step' = "balance"
        /\ UNCHANGED <<block, made, refused>>
  /\ UNCHANGED <<storageVars, walletVars, crashes>>

(* getUserAvailableBalance, for the check of the balance or for the result *)
(* of the job.                                                             *)
ReadBalance ==
  /\ step \in {"balance", "result"}
  /\ pc[Worker] = "idle"
  /\ \E r \in BalanceOf(current[1]) : Storage!Call(Worker, r)
  /\ UNCHANGED <<queueVars, workerVars, walletVars, refused, crashes>>

BalanceRead ==
  /\ Storage!Release(Worker)
  /\ \/ /\ step = "balance"
        /\ Covers(val[Worker], current[1])
        /\ step' = "hot"
        /\ UNCHANGED <<queueVars, current, block, refused>>
     \/ /\ step = "balance"
        /\ ~Covers(val[Worker], current[1])
        /\ Fail(current)
        /\ Refuse(current)
        /\ WorkerFree
     \/ /\ step = "result"
        /\ job' = [job EXCEPT ![current] = "completed"]
        /\ WorkerFree
        /\ UNCHANGED <<made, refused>>
  /\ UNCHANGED <<walletVars, crashes>>

(* A retry of acquire.  When Timely, the attempts that fail are left out:  *)
(* they change nothing but their number, which never reaches its limit.    *)
Retry(c) == Storage!RetryLock(c) /\ (Timely => tries'[c] = 0)

(* What the worker's read does in between.                                 *)
BalanceStep ==
  /\ Retry(Worker) \/ Storage!Read(Worker)
  /\ UNCHANGED <<queueVars, workerVars, walletVars, refused, crashes>>

BalanceFails ==
  /\ \/ ~Timely /\ Storage!GiveUp(Worker)
     \/ Faults /\ Storage!ReadFails(Worker)
  /\ Fail(current)
  /\ WorkerFree
  /\ UNCHANGED <<walletVars, refused, crashes>>

(* eventuallySendBan: enough BAN in the hot wallet, or else a new job that *)
(* is tried again later.  The first time the job then goes on to its       *)
(* result; a pending one throws, "replaced by a new one".                  *)
eventuallySendBan ==
  /\ step = "hot"
  /\ \/ /\ hot >= current[1].amount
        /\ step' = "send"
        /\ UNCHANGED <<queueVars, current, block>>
     \/ /\ hot < current[1].amount
        /\ current[2] = 0
        /\ job' = Add(PendingId(current[1], 1), "delayed")
        /\ step' = "result"
        /\ UNCHANGED <<made, current, block>>
     \/ /\ hot < current[1].amount
        /\ current[2] \in 1..(MaxAttempt - 1)
        /\ LET j == PendingId(current[1], current[2] + 1) IN
           /\ made' = [made EXCEPT ![current] = IF MoreAttempts(current) THEN @ + 1 ELSE 0]
           /\ job' = [job EXCEPT
                        ![j] = IF @ = "none" THEN "delayed" ELSE @,
                        ![current] = IF MoreAttempts(current) THEN "delayed" ELSE "none"]
        /\ WorkerFree
  /\ UNCHANGED <<storageVars, walletVars, refused, crashes>>

(* banano.sendBan: the hash of the block is fresh.                         *)
sendBan ==
  /\ step = "send"
  /\ hot >= current[1].amount
  /\ hot' = hot - current[1].amount
  /\ \E r \in FreshPayments(current[1]) : paid' = paid \cup {r} /\ block' = r
  /\ step' = "store"
  /\ UNCHANGED <<storageVars, queueVars, current, refills, refused, crashes>>

(* A request to the node or the lookup before the store fails.             *)
JobFails ==
  /\ \/ step = "send" /\ hot < current[1].amount
     \/ Faults /\ step \in {"hot", "send"}
     \/ Faults /\ step = "store" /\ \A b \in Background : pc[b] # "checked"
  /\ Fail(current)
  /\ WorkerFree
  /\ UNCHANGED <<storageVars, walletVars, refused, crashes>>

(* UsersDepositsService.storeUserWithdrawal looks the withdrawal up...     *)
StoreWithdrawal ==
  /\ step = "store"
  /\ \E b \in Background :
       /\ Storage!Call(b, block)
       /\ step' = IF pc'[b] = "idle" THEN "result" ELSE step
  /\ UNCHANGED <<queueVars, current, block, walletVars, refused, crashes>>

(* ...and calls the storage without awaiting it: the worker goes on to its *)
(* result while the store goes on behind it.                               *)
LeaveStoreRunning ==
  /\ step = "store"
  /\ \E b \in Background : pc[b] = "checked" /\ Storage!BeginLocking(b)
  /\ step' = "result"
  /\ UNCHANGED <<queueVars, current, block, walletVars, refused, crashes>>

(* The steps of a call nobody awaits.  It does not give up or fail and go  *)
(* on: that is a crash.                                                    *)
Unawaited(c) ==
  \/ Storage!RetryLock(c) /\ tries'[c] = 0
  \/ Storage!Read(c) \/ Storage!Write(c) \/ Storage!Release(c)

BackgroundStep(b) ==
  /\ Unawaited(b)
  /\ UNCHANGED <<queueVars, workerVars, walletVars, refused, crashes>>

(* GET /deposits/ban/:ban_wallet.                                          *)
HttpRead(h) ==
  /\ \E r \in Requests : r.type = "balance" /\ Storage!Call(h, r)
  /\ UNCHANGED <<queueVars, workerVars, walletVars, refused, crashes>>

HttpStep(h) ==
  /\ Unawaited(h)
  /\ UNCHANGED <<queueVars, workerVars, walletVars, refused, crashes>>

RefillHotWallet ==
  /\ refills < MaxRefills
  /\ refills' = refills + 1
  /\ hot' = hot + Refill
  /\ UNCHANGED <<storageVars, queueVars, workerVars, paid, refused, crashes>>

ExpireLock(k) ==
  /\ Storage!Expire(k)
  /\ UNCHANGED <<queueVars, workerVars, walletVars, refused, crashes>>

(* The process dies, by a rejection nobody handles or by any other cause;  *)
(* the job it was processing stalls and is waiting again after the restart. *)
CrashRestart ==
  /\ crashes < MaxCrashes
  /\ crashes' = crashes + 1
  /\ Storage!Crash
  /\ job' = [j \in JobIds |-> IF job[j] = "active" THEN "waiting" ELSE job[j]]
  /\ WorkerFree
  /\ UNCHANGED <<made, walletVars, refused>>

WorkerStep ==
  \/ \E j \in JobIds : StartJob(j)
  \/ ReadBalance \/ BalanceStep \/ BalanceRead \/ BalanceFails
  \/ eventuallySendBan \/ sendBan \/ JobFails
  \/ StoreWithdrawal \/ LeaveStoreRunning

Next ==
  \/ \E w \in Withdrawal : withdrawBAN(w)
  \/ \E j \in JobIds : Promote(j)
  \/ WorkerStep
  \/ \E b \in Background : BackgroundStep(b)
  \/ \E h \in Reader : HttpRead(h) \/ HttpStep(h)
  \/ \E k \in Storage!LockNames : ExpireLock(k)
  \/ RefillHotWallet
  \/ CrashRestart

Spec == Init /\ [][Next]_vars

(* The worker takes the next job, commands are answered, delays end and    *)
(* lock timeouts run out.  Nobody has to refill, and nobody has to ask.    *)
Fairness ==
  /\ WF_vars(WorkerStep)
  /\ WF_vars(\E j \in JobIds : Promote(j))
  /\ \A b \in Background : WF_vars(BackgroundStep(b))
  /\ \A h \in Reader : WF_vars(HttpStep(h))
  /\ WF_vars(\E k \in Storage!LockNames : ExpireLock(k))

FairSpec == Spec /\ Fairness

-----------------------------------------------------------------------------
(* Types of all variables.                                                 *)
TypeOK ==
  /\ Storage!TypeOK
  /\ job \in [JobIds -> JobStates]
  /\ made \in [JobIds -> 0..Attempts]
  /\ current \in JobIds \cup {NoJob}
  /\ step \in StepNames
  /\ block \in Requests \cup {NoRequest}
  /\ hot \in Nat
  /\ paid \subseteq Requests
  /\ refused \subseteq Withdrawal
  /\ refills \in 0..MaxRefills
  /\ crashes \in 0..MaxCrashes

Payments(w) == Cardinality(paid \cap PaymentsOf(w))

(* Retries and replaced jobs pay no withdrawal again: only a crash can, and *)
(* each crash once.                                                        *)
PaidOncePerLife == \A w \in Withdrawal : Payments(w) <= 1 + crashes

Amount(r) == r.amount

PaidTo(a) == MapThenSumSet(Amount, {r \in paid : Lower[r.address] = a})

(* Users are not paid more than they deposited, although a payment comes   *)
(* before the balance is decreased and nobody waits for that.              *)
NoOverdraft == crashes = 0 => \A a \in Storage!Wallets : PaidTo(a) <= Opening

(* While a withdrawal that was asked for is neither paid nor refused, some *)
(* job will come back to it: replacing jobs drops none.                    *)
Scheduled(w) == \E n \in 0..MaxAttempt : job[<<w, n>>] \in {"waiting", "delayed", "active"}

NotDropped ==
  \A w \in Withdrawal :
    job[<<w, 0>>] # "none" => Scheduled(w) \/ Paid(w) \/ w \in refused

(* No payment for a withdrawal that is in the history.                     *)
Recorded(w) == \E r \in PaymentsOf(w) : Storage!EventOf(r) \in audit

NoPaymentAfterRecord ==
  [][\A w \in Withdrawal :
       Recorded(w) => paid' \cap PaymentsOf(w) = paid \cap PaymentsOf(w)]_vars

(* The worker comes back to its queue: jobs run one at a time, and one     *)
(* that never ended would hold up the operations of every user.            *)
WorkerIsFreed == []<>(current = NoJob)

(* The balances still are what the history adds up to.                     *)
BalanceMatchesAudit == Storage!BalanceMatchesAudit

(* Every payment ends up in the history and off the balance, if the        *)
(* process lives.                                                          *)
PaidIsRecorded ==
  []<>(crashes > 0 \/ \A r \in paid : Storage!EventOf(r) \in audit)

-----------------------------------------------------------------------------
(* The inductive invariants behind these properties.                       *)

(* The worker's job is the active one, jobs that may run again have        *)
(* attempts left, and `block' is what the worker paid for its job: only a  *)
(* withdrawal put off for the first time has a result without one.         *)
WorkerInv ==
  /\ step = "none" <=> current = NoJob
  /\ \A j \in JobIds : job[j] = "active" <=> current = j
  /\ \A j \in JobIds : job[j] # "failed" => made[j] < Attempts
  /\ step \in {"none", "balance", "hot", "send"} => block = NoRequest
  /\ step = "store" => block \in Requests
  /\ step = "result" /\ block = NoRequest => current[2] = 0
  /\ block # NoRequest => block \in paid \cap PaymentsOf(current[1])

(* What is recorded, or on its way, was paid for a withdrawal.             *)
SourceInv ==
  /\ \A r \in Requests :
       /\ r.type = "withdrawal"
       /\ Storage!EventOf(r) \in audit \/ \E c \in Caller : req[c] = r
       => r \in paid
  /\ \A r \in paid : \E w \in Withdrawal : r \in PaymentsOf(w)

(* The hot wallet is emptied by nobody else, and a job that ends leaves a  *)
(* payment, a refusal or another job.                                      *)
ScheduleInv ==
  /\ step = "send" => hot >= current[1].amount
  /\ \A w \in Withdrawal, n \in 1..MaxAttempt :
       /\ job[<<w, n>>] # "failed"
       /\ job[<<w, n>>] = "completed" => Paid(w)
  /\ step = "result" =>
       Paid(current[1]) \/ job[<<current[1], 1>>] \in {"waiting", "delayed"}
  /\ NotDropped

(* The worker reads balances only; a store it leaves running is the one of *)
(* its payment, and holds the lock that the worker's next read waits for.  *)
StoresInv ==
  /\ pc[Worker] \in {"idle", "waiting", "locked", "read"}
  /\ pc[Worker] # "idle" =>
       step \in {"balance", "result"} /\ req[Worker] \in BalanceOf(current[1])
  /\ \A b \in Background : pc[b] # "idle" =>
       /\ req[b] = block
       /\ \/ step = "store" /\ pc[b] = "checked"
          \/ step = "result" /\ pc[b] \in {"locked", "read", "releasing"}
  /\ step \in {"hot", "send", "store"} =>
       locks[<<"ban-balance", current[1].wallet>>] = "free"

(* A withdrawal is recorded once, by the store of the worker's payment,    *)
(* and not before the worker is done with it.                              *)
RecordInv ==
  /\ \A w \in Withdrawal : \A r, q \in PaymentsOf(w) :
       Storage!EventOf(r) \in audit /\ Storage!EventOf(q) \in audit => r = q
  /\ step \in {"balance", "hot", "send", "store"} => ~Recorded(current[1])
  /\ \A b \in Background :
       /\ pc[b] \in {"checked", "locked", "read"} => ~Recorded(current[1])
       /\ pc[b] = "releasing" => Storage!EventOf(block) \in audit
  /\ step = "result" /\ block # NoRequest =>
       Storage!EventOf(block) \in audit \/ \E b \in Background : pc[b] # "idle"

(* A payment that is not in the history is the worker's or one that a      *)
(* crash left behind.                                                      *)
PaymentsInv ==
  /\ IsFiniteSet(paid)
  /\ \A w \in Withdrawal :
       Payments(w) <= crashes + (IF Recorded(w) \/ block \in PaymentsOf(w) THEN 1 ELSE 0)

(* What was paid from a wallet and not recorded yet.                       *)
Due(a) ==
  IF block # NoRequest /\ Storage!EventOf(block) \notin audit /\ Lower[block.address] = a
    THEN block.amount ELSE 0

(* What left the hot wallet left the balance, or is about to, and the      *)
(* balance the worker found sufficient still is.                           *)
FundsInv ==
  /\ crashes = 0 => \A a \in Storage!Wallets :
       /\ PaidTo(a) + banBalance[a] = Opening + Due(a)
       /\ Due(a) <= banBalance[a]
  /\ step = "balance" /\ pc[Worker] = "read"
       => val[Worker] = banBalance[Lower[current[1].wallet]]
  /\ step \in {"hot", "send"} => Covers(banBalance[Lower[current[1].wallet]], current[1])
  /\ \A b \in Background :
       pc[b] = "read" => val[b] = banBalance[Lower[req[b].address]]

(* The withdrawals of a wallet are told apart by the time they were asked  *)
(* for, as the ids of their jobs are.                                      *)
DistinctTimes ==
  \A v, w \in Withdrawal : Lower[v.wallet] = Lower[w.wallet] /\ v.at = w.at => v = w

(* No command of the worker fails and no lock is given up.                 *)
Undisturbed == Timely /\ ~Faults

(* The worker and its stores take turns: nothing fails or times out under  *)
(* them, and nobody else reads balances.                                   *)
Orderly ==
  /\ Undisturbed /\ Reader = {}
  /\ ~TtlMayElapse /\ ~RetryInFlight
  /\ Storage!Canonical /\ DistinctTimes

IInv ==
  /\ TypeOK /\ WorkerInv /\ SourceInv /\ ScheduleInv
  /\ Storage!OnceInv /\ StoresInv /\ RecordInv /\ PaymentsInv /\ FundsInv
=============================================================================
