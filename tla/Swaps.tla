------------------------------- MODULE Swaps --------------------------------
(***************************************************************************)
(* Swaps of BAN to wBAN, of wBAN to BAN, and gasless swaps of wBAN: the    *)
(* jobs of the worker (Service), the storage underneath, awaited here in   *)
(* every call (UsersDepositsStorage), the relayer of transactions and the  *)
(* contracts.  A swap to wBAN ends with a receipt that its owner or the    *)
(* relayer mints; swaps to BAN come from the events of the contract (see   *)
(* BlockchainScan).                                                        *)
(*                                                                         *)
(* BullMQ, the relayer and the contracts are modelled from how the source  *)
(* uses them.  The other operations of the worker, and the stores of       *)
(* withdrawals it leaves running, are in Withdrawals.                      *)
(***************************************************************************)
EXTENDS Integers, FiniteSetsExt

CONSTANTS
  Address, Lower, Requests, NoRequest, Caller, RetryCount, Opening,
  RetryInFlight, TtlMayElapse,   \* as in UsersDepositsStorage
  ToWBAN,       \* swaps to wBAN: [wallet, blockchain, amount, at, big, valid]
  ToBAN,        \* swaps to BAN: [wallet, blockchain, amount, hash]
  Gasless,      \* gasless swaps: [wallet, recipient, valid]
  Together,     \* bound: sets of jobs asked for in one behavior
  Worker,       \* the only caller of the storage
  NoJob,        \* the worker is free
  MaxTroubles   \* bound: failures of a request or a command and deaths of the process

ASSUME TogetherAssumption ==
  \A S \in Together : S \subseteq ToWBAN \cup ToBAN \cup Gasless

(* The event of a swap to BAN says what to credit.                         *)
ASSUME SwapsAssumption ==
  /\ Caller = {Worker}
  /\ NoJob \notin ToWBAN \cup ToBAN \cup Gasless
  /\ ToWBAN \cap ToBAN = {} /\ ToWBAN \cap Gasless = {} /\ ToBAN \cap Gasless = {}
  /\ \A s \in ToWBAN : s.valid \in BOOLEAN /\ s.big \in BOOLEAN
  /\ \A b \in ToBAN : \E r \in Requests :
       /\ r.type = "swap-to-ban" /\ r.id = b.hash
       /\ r.address = b.wallet /\ r.amount = b.amount
  /\ \A j \in ToWBAN \cup Gasless : j.wallet \in Address
  /\ MaxTroubles \in Nat

VARIABLES
  banBalance, audit, locks, pc, req, val, tries, submitted, applied,
  asked,      \* the jobs users ask for
  job,        \* the state of every job in Redis
  made,       \* attempts made of a job
  current,    \* the job the worker processes
  step,       \* what it does for it next
  receipt,    \* the receipt it has signed
  relayed,    \* the transactions given to the relayer
  minted,     \* receipts the token contract has accepted
  burned,     \* swaps to BAN the token contract has emitted
  freeSwaps,  \* wallets with a key swaps:gasless:${wallet}
  failures,   \* failures so far
  crashes     \* crashes so far

storageVars == <<banBalance, audit, locks, pc, req, val, tries, submitted, applied>>
queueVars == <<job, made>>
workerVars == <<current, step, receipt>>
chainVars == <<relayed, minted, burned>>
boundVars == <<asked, failures, crashes>>
vars == <<storageVars, queueVars, workerVars, chainVars, freeSwaps, boundVars>>

Storage == INSTANCE UsersDepositsStorage

(* What the storage assumes of its constants.                              *)
ASSUME StorageAssumption ==
  /\ Storage!LowerAssumption
  /\ Storage!RequestsAssumption
  /\ Storage!ParametersAssumption

(* One job id for a wallet and a time, a wallet and a hash, a wallet and a *)
(* recipient.                                                              *)
Jobs == ToWBAN \cup ToBAN \cup Gasless
JobStates == {"none", "waiting", "delayed", "active", "completed", "failed"}
StepNames == {"none", "balance", "store", "storing", "count", "relay", "wait",
              "free", "result"}
Attempts == 3

Receipts == {r \in Requests : r.type = "swap-to-wban"}

(* A mint is relayed once per receipt, a gasless swap once per attempt.    *)
FreeTxs == [swap : Gasless, attempt : 1..Attempts + MaxTroubles]
TxIds == Receipts \cup FreeTxs

-----------------------------------------------------------------------------
(* What the worker asks the storage.                                       *)
ReceiptsOf(s) ==
  {r \in Receipts : r.address = s.wallet /\ r.amount = s.amount /\ r.at = s.at}

(* createMintReceipt signs the time: another receipt with every attempt.   *)
FreshReceipts(s) ==
  {r \in ReceiptsOf(s) \ submitted : \A q \in ReceiptsOf(s) \ submitted : r.id <= q.id}

CreditOf(s) == CHOOSE r \in Requests : r.type = "swap-to-ban" /\ r.id = s.hash

BalanceOf(s) == {r \in Requests : r.type = "balance" /\ r.address = s.wallet}

IsRecorded(r) == Storage!EventOf(r) \in audit

Covers(balance, s) == balance >= s.amount

(* The swaps of getSwaps: to wBAN by the BAN wallet, to BAN by the         *)
(* blockchain wallet.                                                      *)
getSwaps(s) ==
  {e \in audit :
     \/ e.type = "swap-to-wban" /\ e.address = Lower[s.wallet]
     \/ /\ e.type = "swap-to-ban"
        /\ \E b \in ToBAN : b.blockchain = s.blockchain /\ b.hash = e.id}

(* Mutant: the swap that was just stored is not counted.                   *)
IsFirstWrap_NotCounted(s) == Cardinality(getSwaps(s)) <= 2

(* wrapCount.                                                              *)
IsFirstWrap(s) == Cardinality(getSwaps(s)) = 1

(* Mutant: free swaps are not looked up.                                   *)
isFreeSwapAlreadyDone_Never(j) == FALSE

isFreeSwapAlreadyDone(j) == Lower[j.wallet] \in freeSwaps

(* The transaction the worker waits for.                                   *)
FreeTxsOf(j) == {t \in FreeTxs : t.swap = j /\ relayed[t] # "none"}

CurrentTx ==
  IF current \in ToWBAN THEN receipt
  ELSE [swap |-> current, attempt |-> Cardinality(FreeTxsOf(current))]

NextTx ==
  IF current \in ToWBAN THEN receipt
  ELSE [swap |-> current, attempt |-> Cardinality(FreeTxsOf(current)) + 1]

-----------------------------------------------------------------------------
(* BullMQ.                                                                 *)

(* Mutant: the job has no id of its own.                                   *)
Add_Anew(j) == [job EXCEPT ![j] = "waiting"]

(* queue.add with a job id Redis already knows does nothing.               *)
Add(j) == [job EXCEPT ![j] = IF @ = "none" THEN "waiting" ELSE @]

(* Mutant: one attempt too many.                                           *)
MoreAttempts_OneMore(j) == made[j] <= Attempts

MoreAttempts(j) == made[j] + 1 < Attempts

Fail(j) ==
  /\ made' = [made EXCEPT ![j] = @ + 1]
  /\ job' = [job EXCEPT ![j] = IF MoreAttempts(j) THEN "delayed" ELSE "failed"]

WorkerFree == current' = NoJob /\ step' = "none" /\ receipt' = NoRequest

(* The processor of the current job throws, or returns.                    *)
FailJob == Fail(current) /\ WorkerFree

CompleteJob ==
  /\ job' = [job EXCEPT ![current] = "completed"]
  /\ WorkerFree
  /\ UNCHANGED made

Goes(next) == step' = next /\ UNCHANGED <<queueVars, current>>

Failure == failures + crashes < MaxTroubles /\ failures' = failures + 1

-----------------------------------------------------------------------------
Init ==
  /\ Storage!Init
  /\ asked \in Together
  /\ job = [j \in Jobs |-> "none"]
  /\ made = [j \in Jobs |-> 0]
  /\ current = NoJob
  /\ step = "none"
  /\ receipt = NoRequest
  /\ relayed = [t \in TxIds |-> "none"]
  /\ minted = {}
  /\ burned = {}
  /\ freeSwaps = {}
  /\ failures = 0
  /\ crashes = 0

(* POST /swap, POST /gasless/swap/:ban, an event of the contract.          *)
addJob(j) ==
  /\ j \in asked
  /\ j \in ToBAN => j \in burned
  /\ job' = Add(j)
  /\ UNCHANGED <<storageVars, made, workerVars, chainVars, freeSwaps, boundVars>>

Promote(j) ==
  /\ job[j] = "delayed"
  /\ job' = [job EXCEPT ![j] = "waiting"]
  /\ UNCHANGED <<storageVars, made, workerVars, chainVars, freeSwaps, boundVars>>

(* The worker takes a job.  `valid' stands for the signature and the claim *)
(* of a swap to wBAN and for the claim of a gasless swap, which is also    *)
(* refused to a wallet that had one or while the recipient's balance is    *)
(* above the threshold.                                                    *)
Refuses(j) ==
  \/ j \in ToWBAN /\ ~j.valid
  \/ j \in Gasless /\ (~j.valid \/ isFreeSwapAlreadyDone(j))

StartJob(j) ==
  /\ current = NoJob
  /\ job[j] = "waiting"
  /\ \/ /\ Refuses(j) \/ j \in Gasless
        /\ Fail(j)
        /\ UNCHANGED <<workerVars, failures>>
     \/ Failure /\ Fail(j) /\ UNCHANGED workerVars
     \/ /\ ~Refuses(j)
        /\ job' = [job EXCEPT ![j] = "active"]
        /\ current' = j
        /\ step' = IF j \in ToWBAN THEN "balance"
                   ELSE IF j \in ToBAN THEN "store" ELSE "relay"
        /\ UNCHANGED <<made, receipt, failures>>
  /\ UNCHANGED <<storageVars, chainVars, freeSwaps, asked, crashes>>

(* getUserAvailableBalance, for the check or for the result.               *)
ReadBalance ==
  /\ step \in {"balance", "result"}
  /\ \E r \in BalanceOf(current) : Storage!Call(Worker, r)
  /\ UNCHANGED <<queueVars, workerVars, chainVars, freeSwaps, boundVars>>

BalanceRead ==
  /\ step \in {"balance", "result"}
  /\ Storage!Release(Worker)
  /\ \/ /\ step = "balance" /\ Covers(val[Worker], current)
        /\ Goes("store")
        /\ UNCHANGED receipt
     \/ /\ step = "balance" /\ ~Covers(val[Worker], current)
        /\ FailJob
     \/ step = "result" /\ CompleteJob
  /\ UNCHANGED <<chainVars, freeSwaps, boundVars>>

(* createMintReceipt and storeUserSwapToWBan; or storeUserSwapToBan,       *)
(* unless the swap is found in the history.                                *)
StoreSwap ==
  /\ step = "store"
  /\ \/ /\ current \in ToWBAN
        /\ \E r \in FreshReceipts(current) : Storage!Call(Worker, r) /\ receipt' = r
     \/ /\ current \in ToBAN
        /\ Storage!Call(Worker, CreditOf(current))
        /\ UNCHANGED receipt
  /\ Goes(IF pc'[Worker] = "idle" THEN "result" ELSE "storing")
  /\ UNCHANGED <<chainVars, freeSwaps, boundVars>>

(* What the calls do in between, and how they fail.                        *)
StorageStep ==
  /\ \/ Storage!BeginLocking(Worker) \/ Storage!LockBalance(Worker)
     \/ Storage!RetryLock(Worker) \/ Storage!Recheck(Worker)
     \/ Storage!Read(Worker) \/ Storage!UnlockRead(Worker) \/ Storage!Write(Worker)
  /\ UNCHANGED <<queueVars, workerVars, chainVars, freeSwaps, boundVars>>

StorageFails ==
  /\ \/ Storage!GiveUp(Worker) /\ UNCHANGED failures
     \/ Failure /\ (Storage!ReadFails(Worker) \/ Storage!WriteFails(Worker))
  /\ IF pc'[Worker] = "idle" THEN FailJob ELSE UNCHANGED <<queueVars, workerVars>>
  /\ UNCHANGED <<chainVars, freeSwaps, asked, crashes>>

(* Mutant: an error of the store is only logged.                           *)
StoreEnds_IgnoresErrors ==
  /\ step = "storing"
  /\ Storage!Release(Worker)
  /\ Goes(IF current \in ToWBAN THEN "count" ELSE "result")
  /\ UNCHANGED <<receipt, chainVars, freeSwaps, boundVars>>

(* The store returns, or throws if it wrote nothing.                       *)
StoreEnds ==
  /\ step = "storing"
  /\ Storage!Release(Worker)
  /\ \/ /\ IsRecorded(req[Worker])
        /\ Goes(IF current \in ToWBAN THEN "count" ELSE "result")
        /\ UNCHANGED receipt
     \/ ~IsRecorded(req[Worker]) /\ FailJob
  /\ UNCHANGED <<chainVars, freeSwaps, boundVars>>

(* The first wrap of a wallet is relayed if it is big enough and the user  *)
(* has nearly no crypto.                                                   *)
CountSwaps ==
  /\ step = "count"
  /\ \/ IsFirstWrap(current) /\ current.big /\ Goes("relay")
     \/ Goes("result")
  /\ UNCHANGED <<storageVars, receipt, chainVars, freeSwaps, boundVars>>

(* mintWithReceipt, swapWBANToCrypto.  The answer of the relayer arrives,  *)
(* or it is lost.                                                          *)
Relay ==
  /\ step = "relay"
  /\ relayed' = [relayed EXCEPT ![NextTx] = "pending"]
  /\ \/ Goes("wait") /\ UNCHANGED <<receipt, failures>>
     \/ Failure /\ FailJob
  /\ UNCHANGED <<storageVars, minted, burned, freeSwaps, asked, crashes>>

(* Mutant: only a mined transaction ends the polling.                      *)
waitForRelayedTx_OnlyMined ==
  /\ step = "wait"
  /\ relayed[CurrentTx] = "mined"
  /\ Goes(IF current \in ToWBAN THEN "result" ELSE "free")
  /\ UNCHANGED <<storageVars, receipt, chainVars, freeSwaps, boundVars>>

(* The transaction is polled until it is mined or has failed: one that has *)
(* expired is polled on and on, until a poll fails or the process dies.    *)
waitForRelayedTx ==
  /\ step = "wait"
  /\ \/ /\ relayed[CurrentTx] = "mined"
        /\ Goes(IF current \in ToWBAN THEN "result" ELSE "free")
        /\ UNCHANGED receipt
     \/ relayed[CurrentTx] = "failed" /\ FailJob
  /\ UNCHANGED <<storageVars, chainVars, freeSwaps, boundVars>>

storeFreeSwap ==
  /\ step = "free"
  /\ freeSwaps' = freeSwaps \cup {Lower[current.wallet]}
  /\ CompleteJob
  /\ UNCHANGED <<storageVars, chainVars, boundVars>>

(* A request of a step, or a command, fails.                               *)
RequestFails ==
  /\ step \in {"store", "count", "relay", "wait", "free"}
  /\ Failure
  /\ FailJob
  /\ UNCHANGED <<storageVars, chainVars, freeSwaps, asked, crashes>>

-----------------------------------------------------------------------------
(* The relayer and the contracts.                                          *)

(* A receipt is minted once, a permit used once.                           *)
Accepts(t) ==
  IF t \in Receipts THEN t \notin minted
  ELSE \A u \in FreeTxsOf(t.swap) : relayed[u] # "mined"

(* The relayer has the transaction mined, or it fails, or it is not mined  *)
(* within its 300 s and expires.                                           *)
SettleTx(t) ==
  /\ relayed[t] = "pending"
  /\ \/ /\ Accepts(t)
        /\ relayed' = [relayed EXCEPT ![t] = "mined"]
        /\ minted' = minted \cup ({t} \cap Receipts)
     \/ /\ \E status \in {"failed", "expired"} : relayed' = [relayed EXCEPT ![t] = status]
        /\ UNCHANGED minted
  /\ UNCHANGED <<storageVars, queueVars, workerVars, burned, freeSwaps, boundVars>>

(* A user mints a receipt found in the history, or in a result, which is   *)
(* sent later.                                                             *)
UserMints(r) ==
  /\ IsRecorded(r)
  /\ r \notin minted
  /\ minted' = minted \cup {r}
  /\ UNCHANGED <<storageVars, queueVars, workerVars, relayed, burned, 
                 freeSwaps, boundVars>>

Amount(x) == x.amount

Total(S) == MapThenSumSet(Amount, S)

(* A user swaps wBAN in circulation.                                       *)
UserBurns(b) ==
  /\ b \in asked
  /\ b \notin burned
  /\ Total(minted) - Total(burned) >= b.amount
  /\ burned' = burned \cup {b}
  /\ UNCHANGED <<storageVars, queueVars, workerVars, relayed, minted, 
                 freeSwaps, boundVars>>

-----------------------------------------------------------------------------
ExpireLock(k) ==
  /\ Storage!Expire(k)
  /\ UNCHANGED <<queueVars, workerVars, chainVars, freeSwaps, boundVars>>

(* The process dies; its job is waiting again after the restart.           *)
CrashRestart ==
  /\ failures + crashes < MaxTroubles
  /\ crashes' = crashes + 1
  /\ Storage!Crash
  /\ job' = [j \in Jobs |-> IF job[j] = "active" THEN "waiting" ELSE job[j]]
  /\ WorkerFree
  /\ UNCHANGED <<made, chainVars, freeSwaps, asked, failures>>

WorkerStep ==
  \/ \E j \in Jobs : StartJob(j)
  \/ ReadBalance \/ BalanceRead \/ StoreSwap \/ StorageStep \/ StorageFails
  \/ StoreEnds \/ CountSwaps \/ Relay \/ waitForRelayedTx \/ storeFreeSwap
  \/ RequestFails

Next ==
  \/ \E j \in Jobs : addJob(j) \/ Promote(j)
  \/ WorkerStep
  \/ \E t \in TxIds : SettleTx(t)
  \/ \E r \in Receipts : UserMints(r)
  \/ \E b \in ToBAN : UserBurns(b)
  \/ \E k \in Storage!LockNames : ExpireLock(k)
  \/ CrashRestart

Spec == Init /\ [][Next]_vars

(* The worker goes on, delays and lock timeouts end, and the relayer comes *)
(* to an end with every transaction: what it cannot have mined expires,    *)
(* which does not end the wait for it.                                     *)
Fairness ==
  /\ WF_vars(WorkerStep)
  /\ WF_vars(\E j \in Jobs : Promote(j))
  /\ WF_vars(\E t \in TxIds : SettleTx(t))
  /\ WF_vars(\E k \in Storage!LockNames : ExpireLock(k))

FairSpec == Spec /\ Fairness

-----------------------------------------------------------------------------
(* Types of all variables; the troubles stay within their bound.           *)
TypeOK ==
  /\ Storage!TypeOK
  /\ asked \in Together
  /\ job \in [Jobs -> JobStates]
  /\ made \in [Jobs -> 0..Attempts]
  /\ current \in Jobs \cup {NoJob}
  /\ step \in StepNames
  /\ receipt \in Receipts \cup {NoRequest}
  /\ relayed \in [TxIds -> {"none", "pending", "mined", "failed", "expired"}]
  /\ minted \subseteq Receipts
  /\ burned \subseteq ToBAN
  /\ freeSwaps \subseteq Storage!Wallets
  /\ failures \in Nat /\ crashes \in Nat /\ failures + crashes <= MaxTroubles

(* BAN and wBAN are worth the same, and a swap makes none and loses none:  *)
(* the balance, the receipts to be minted, the wBAN in circulation and the *)
(* swaps to BAN to be credited always add up, whatever fails.              *)
Outstanding(a) == {r \in Receipts : Lower[r.address] = a /\ IsRecorded(r) /\ r \notin minted}
Circulating(a) ==
  Total({r \in minted : Lower[r.address] = a}) - Total({b \in burned : Lower[b.wallet] = a})
Uncredited(a) == {b \in burned : Lower[b.wallet] = a /\ ~IsRecorded(CreditOf(b))}

ValueIsConserved ==
  \A a \in Storage!Wallets :
    banBalance[a] + Total(Outstanding(a)) + Circulating(a) + Total(Uncredited(a)) = Opening

(* A swap to wBAN takes a second amount off the balance, for a receipt of  *)
(* its own, only after something failed behind the first; one without a    *)
(* claim takes none.                                                       *)
Debits(s) == Cardinality({r \in ReceiptsOf(s) : IsRecorded(r)})
FailedMints(s) == Cardinality({r \in ReceiptsOf(s) : relayed[r] = "failed"})

DebitedAgainAfterFailure ==
  \A s \in ToWBAN :
    Debits(s) <= IF s.valid THEN 1 + failures + crashes + FailedMints(s) ELSE 0

(* The bridge pays the gas of one mint for a wallet, ever.                 *)
OneMintRelayed ==
  \A a \in Storage!Wallets :
    Cardinality({r \in Receipts : Lower[r.address] = a /\ relayed[r] # "none"}) <= 1

(* And of one gasless swap, unless a failure or a crash lost track of it.  *)
FreeSwapsOf(a) == {t \in FreeTxs : Lower[t.swap.wallet] = a /\ relayed[t] = "mined"}

OneFreeSwap ==
  \A a \in Storage!Wallets : Cardinality(FreeSwapsOf(a)) <= 1 + failures + crashes

(* A job that has completed did what its result says.                      *)
CompletedIsDone ==
  /\ \A s \in ToWBAN : job[s] = "completed" => Debits(s) >= 1
  /\ \A b \in ToBAN : job[b] = "completed" => IsRecorded(CreditOf(b))
  /\ \A g \in Gasless : job[g] = "completed" => \E t \in FreeTxsOf(g) : relayed[t] = "mined"

(* One thing only may hold up the single worker for ever, and the jobs of  *)
(* all users with it: a relayed transaction that has expired, which        *)
(* waitForRelayedTx does not take for the end.  Otherwise every job ends:  *)
(* no lock, retry, mined or failed transaction stops it, and whenever a    *)
(* failing poll or a restart takes the worker out of that wait, the jobs   *)
(* go on.                                                                  *)
PollsExpired == step = "wait" /\ relayed[CurrentTx] = "expired"

EveryJobEnds ==
  \A j \in Jobs :
    job[j] = "waiting" ~> job[j] \in {"completed", "failed"} \/ PollsExpired

-----------------------------------------------------------------------------
(* The inductive invariants behind these properties.                       *)

(* Two jobs are of different swaps.                                        *)
DistinctSwaps ==
  /\ \A s, t \in ToWBAN : s.wallet = t.wallet /\ s.at = t.at => s = t
  /\ \A b, c \in ToBAN : b.hash = c.hash => b = c

(* The worker's job is the active one, it has attempts left, and each kind *)
(* of job goes its own way.                                                *)
WorkerInv ==
  /\ step = "none" <=> current = NoJob
  /\ \A j \in Jobs : job[j] = "active" <=> current = j
  /\ \A j \in Jobs : job[j] # "failed" => made[j] < Attempts
  /\ current \in ToWBAN =>
       current.valid /\ step \in {"balance", "store", "storing", "count", "relay", "wait", "result"}
  /\ current \in ToBAN => step \in {"store", "storing", "result"}
  /\ current \in Gasless =>
       step \in {"relay", "wait", "free"} /\ Lower[current.wallet] \notin freeSwaps

(* The call of the worker is the one of its step.                          *)
CallInv ==
  /\ pc[Worker] # "idle" =>
       \/ /\ step \in {"balance", "result"} /\ req[Worker] \in BalanceOf(current)
          /\ pc[Worker] \in {"waiting", "locked", "read"}
       \/ /\ step = "storing" /\ current \in ToWBAN /\ req[Worker] = receipt
          /\ pc[Worker] \in {"waiting-swaps", "swaps-locked", "waiting", "locked", "read",
                             "unlocked", "releasing"}
       \/ /\ step = "storing" /\ current \in ToBAN /\ req[Worker] = CreditOf(current)
          /\ pc[Worker] \in {"checked", "waiting", "locked", "rechecked", "read", "releasing"}
  /\ pc[Worker] \in {"read", "unlocked"}
       => val[Worker] = banBalance[Lower[req[Worker].address]]
  /\ step = "storing" /\ pc[Worker] # "releasing" => ~IsRecorded(req[Worker])

(* A receipt is submitted, recorded, then relayed or minted.               *)
ReceiptInv ==
  /\ receipt # NoRequest =>
       /\ current \in ToWBAN /\ receipt \in ReceiptsOf(current) \cap submitted
       /\ step \in {"storing", "count", "relay", "wait", "result"}
  /\ current \in ToWBAN /\ step \in {"storing", "count", "relay", "wait", "result"}
       => receipt # NoRequest
  /\ current \in ToWBAN /\ step \in {"count", "relay", "wait", "result"} => IsRecorded(receipt)
  /\ step \in {"storing", "count", "relay"} /\ receipt # NoRequest => relayed[receipt] = "none"
  /\ \A r \in Receipts : /\ IsRecorded(r) => r \in submitted
                         /\ relayed[r] # "none" \/ r \in minted => IsRecorded(r)

(* The sets that are summed up or counted are finite.                      *)
FiniteInv ==
  /\ IsFiniteSet(audit) /\ IsFiniteSet(minted) /\ IsFiniteSet(burned)
  /\ IsFiniteSet({t \in TxIds : relayed[t] # "none"})

(* What is credited was burned.                                            *)
BurnedInv ==
  /\ \A b \in ToBAN : job[b] # "none" \/ IsRecorded(CreditOf(b)) => b \in burned

(* The lock of the balance the worker found sufficient stays with it, so   *)
(* that only a failure keeps it from reading the balance again.            *)
LockInv ==
  /\ \A k \in Storage!LockNames : locks[k] = Worker =>
       /\ pc[Worker] # "idle"
       /\ \/ k = Storage!OuterLock(req[Worker])
          \/ k = Storage!BalanceLock(req[Worker]) /\ pc[Worker] \in {"locked", "read"}
  /\ current \in ToWBAN /\ (step = "balance" => pc[Worker] \in {"locked", "read"})
       => locks[<<"ban-balance", current.wallet>>] # "orphan"
  /\ current \in ToWBAN /\ step = "result" => pc[Worker] # "waiting"

(* Each receipt but one of a swap comes after a trouble.                   *)
Spent(s) ==
  \/ job[s] = "completed"
  \/ current = s /\ receipt # NoRequest /\ IsRecorded(receipt) /\ relayed[receipt] # "failed"

DebitInv ==
  \A s \in ToWBAN :
    /\ ~s.valid => Debits(s) = 0
    /\ Debits(s) <= failures + crashes + FailedMints(s) + (IF Spent(s) THEN 1 ELSE 0)

(* The mint about to be relayed is the first of its wallet.                *)
MintInv ==
  /\ step = "relay" /\ current \in ToWBAN =>
       \A r \in Receipts : Lower[r.address] = Lower[current.wallet] => relayed[r] = "none"
  /\ \A r, q \in Receipts :
       relayed[r] # "none" /\ relayed[q] # "none" /\ Lower[r.address] = Lower[q.address] => r = q

(* The transactions of a gasless swap are numbered, one for each attempt.  *)
AttemptsInv ==
  /\ \A t \in FreeTxs : relayed[t] # "none" <=> t.attempt <= Cardinality(FreeTxsOf(t.swap))
  /\ \A g \in Gasless :
       Cardinality(FreeTxsOf(g)) <=
         made[g] + crashes
           + (IF job[g] = "completed" \/ (current = g /\ step \in {"wait", "free"}) THEN 1 ELSE 0)
  /\ step \in {"wait", "free"} => CurrentTx \in TxIds /\ relayed[CurrentTx] # "none"

(* The free swaps of a wallet that are mined or may be, but for those that *)
(* a trouble let slip.                                                     *)
MayCost(a) == {t \in FreeTxs : Lower[t.swap.wallet] = a /\ relayed[t] \in {"pending", "mined"}}

Granted(a) ==
  \/ a \in freeSwaps
  \/ current \in Gasless /\ Lower[current.wallet] = a /\ step = "wait" /\ relayed[CurrentTx] # "failed"
  \/ current \in Gasless /\ Lower[current.wallet] = a /\ step = "free"

FreeInv ==
  \A a \in Storage!Wallets :
    Cardinality(MayCost(a)) <= failures + crashes + (IF Granted(a) THEN 1 ELSE 0)

(* The results of the jobs are those of their steps.                       *)
ResultInv ==
  /\ \A s \in ToWBAN : job[s] = "completed" => \E r \in ReceiptsOf(s) : IsRecorded(r)
  /\ \A b \in ToBAN :
       job[b] = "completed" \/ (current = b /\ step = "result") => IsRecorded(CreditOf(b))
  /\ \A g \in Gasless : job[g] = "completed" => \E t \in FreeTxsOf(g) : relayed[t] = "mined"
  /\ step = "free" => relayed[CurrentTx] = "mined"

IInv ==
  /\ TypeOK /\ WorkerInv /\ CallInv /\ ReceiptInv /\ FiniteInv /\ BurnedInv /\ LockInv
  /\ DebitInv /\ MintInv /\ AttemptsInv /\ FreeInv /\ ResultInv /\ ValueIsConserved
=============================================================================
