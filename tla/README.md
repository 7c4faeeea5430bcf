# wBAN backend: TLA+ models, checks and proofs

The backend of the wBAN bridge keeps the BAN that users deposit, lets them
withdraw it, and swaps it with wBAN on an EVM blockchain. It is one Node.js
process with Redis behind it. This directory models it in TLA+, checks the
models with TLC and proves the properties that matter most with TLAPS.

Paths are those of the repository under `src/`: `src/src/` holds the program,
`src/test/` its tests.

## 1. The system

### Components

| Component | Code | State it keeps | Operations |
|---|---|---|---|
| Users' deposits storage | `src/src/storage/RedisUsersDepositsStorage.ts` | Redis: `ban-balance:*`, the sorted sets `deposits:*`, `withdrawals:*`, `swaps:*`, the hashes `audit:*`, `claims:*`, `claims:pending:*`, the block pointer, the free swaps; the locks `locks:ban-balance:*` and `locks:swaps:ban-to-wban:*` | balance, four stores with their lookups, claims, block pointer, histories |
| Users' deposits service | `src/src/services/UsersDepositsService.ts` | none | checks the history before a store, starts the store without awaiting it |
| Processing queue | `src/src/services/queuing/RedisProcessingQueue.ts` | the BullMQ queue `operations`: jobs with id, state, attempts, delay | one `add` per kind of operation, pending withdrawals, the amount of pending withdrawals |
| Worker | `src/src/services/queuing/ProcessingQueueWorker.ts` | the job it runs | one job at a time, dispatched by name to a processor |
| Bridge service | `src/src/services/Service.ts` | the processors it registers | claim, withdraw, swap to wBAN, gasless swap, mint, swap to BAN |
| Banano wallet | `src/src/Banano.ts` | the hot and cold wallets (on the Banano network), the WebSocket | send, receive, deposits, pending transactions, cold wallet |
| Blockchain | `src/src/Blockchain.ts` | the contract (on the blockchain), listeners | mint receipts, relayed transactions, scan, `SwapToBan` events |
| Scan queue | `src/src/services/queuing/RedisBlockchainScanQueue.ts` | one repeated job | run the scan |
| Server-sent events | `src/src/services/sse/` | the open connections by wallet | connect, send, close |
| HTTP interface | `src/src/app.ts` | none of the bridge | one route per operation |
| Prices, gas, token list, blacklist | `src/src/prices/`, `*GasPriceTracker.ts`, `TokensList.ts`, `KirbyBananoWalletsBlacklist.ts` | caches | requests to other services |

### How they interact

* HTTP routes call the service. Claims and balances are answered directly,
  everything that moves money becomes a job in the queue.
* The single worker (`concurrency` is left at one) runs a job's processor, which
  calls the users' deposits service, the Banano wallet and the blockchain.
* The users' deposits service looks an event up and then starts the store in the
  storage *without awaiting it*: the job goes on, ends, and the next one starts
  while the store still runs (`UsersDepositsService.ts:87`, `:123`).
* The storage protects a balance by a Redlock lock whose TTL is 1 s (30 s for a
  deposit); `acquire` makes eleven attempts and throws.
* Events of the contract and the repeated scan put the same swaps into the queue,
  Banano's WebSocket and the polling of pending transactions the same deposits.
  Job ids and histories have to tell what was already done.
* A processor that throws makes BullMQ try the job again, three times in all; a
  job whose process dies stalls and is run again after the restart.

### What is hard here

* Calls interleave at every `await`; with the stores left running behind the
  worker, "one worker" does not mean "one operation at a time".
* The balance is read by one command and written by another. What holds between
  the two is the lock, *if* all writers of that balance take the same one.
* Payments leave before they are recorded. A crash in between is invisible.
* Checks are made against a state that may be stale when it is used: claims,
  histories, balances, the hot wallet.
* Job ids decide whether `add` does something; retries of jobs that throw on
  purpose mix with the jobs that replace them.
* A rejected promise that nobody awaits ends the process (Node.js 16), and with it
  everything that was under way for other users.
* The block pointer moves without waiting for the swaps before it, on a connection
  of its own.

### What makes each component correct

* Storage: an event is stored once; the balance is what the history adds up to;
  locks are given back by their holder, and always in the end.
* Service and queue: a withdrawal is paid once, covered by the balance, recorded,
  and never dropped; the worker always comes back to its queue.
* Claims: a BAN wallet has one owner, the one whose pending claim a deposit
  confirmed.
* Deposits: a deposit is either credited or sent back; the hot wallet keeps its
  minimum; every deposit is settled in the end.
* Swaps: a swap moves value between BAN and wBAN and neither makes nor loses any;
  the bridge pays the gas of one mint and of one free swap per wallet; every job ends,
  unless the transaction it waits for expires.
* Scan: the block pointer passes no swap that was not handed over, slices cover
  their range, and every swap on the chain is found without the listener.
* Events over SSE: the last connection of a wallet is its client until it closes, or
  an older one closes late, and results reach it.

## 2. The modules

| Module | What it is |
|---|---|
| `UserLedger` | abstract specification: a balance moves exactly when an event enters the history |
| `UsersDepositsStorage` | the storage, its locks and the checks of the service layer; the refinement of `UserLedger`; its inductive invariant |
| `SumTheorems` | sums over finite sets: of the empty set, with one element more or less, of subsets |
| `UsersDepositsStorageProofs` | theorems about the storage |
| `MCUsersDepositsStorage` | instances for TLC |
| `Withdrawals` | queue, worker, `processWithdrawBAN`, hot wallet and HTTP reads, composed with the storage by `INSTANCE`; its inductive invariant |
| `WithdrawalsProofs` | theorems about it, and from those of the storage |
| `MCWithdrawals` | instances for TLC |
| `Claims` | `Service.claim`, pending claims, and their confirmation by deposits; its inductive invariant |
| `ClaimsProofs` | theorems about it |
| `Deposits` | deposits from notification to credit or refund, over `Claims` and the storage by `INSTANCE`; its inductive invariant |
| `DepositsProofs` | theorems about it, and from those of the storage |
| `MCDeposits` | instances for TLC |
| `BlockchainScan` | listener, scan queue, slices and block pointer; its inductive invariant |
| `BlockchainScanProofs` | theorems about it |
| `MCBlockchainScan` | instance for TLC |
| `Swaps` | swaps to wBAN with their relayed mint, swaps to BAN, gasless swaps: the worker over the storage by `INSTANCE`, the relayer and the contracts; its inductive invariant |
| `SwapsProofs` | theorems about it, and from those of the storage |
| `MCSwaps` | instance for TLC |
| `ServerEvents` | connections by wallet and the results sent to them; its inductive invariant |
| `ServerEventsProofs` | theorems about it |
| `MCServerEvents` | instance for TLC |

### What a step is

All commands of the process leave by one connection in the order they are sent,
and JavaScript runs from one reply to the next without interruption. So a step
is *take a reply, send the next command*, and a command takes effect in the step
that sends it. A call is a process with a program counter that names the reply
it waits for. Nothing is lost by letting the effect happen at the send: replies
may be as late as they like, and another call can act on the effect before the
caller sees its reply, which is all that a late command could bring about as
well (the sends could be in that other order).

A reply that is an error is a separate action (`ReadFails`, `WriteFails`,
`JobFails`, `ClaimFails`...). A `MULTI` is one step: Redis applies all of it or
none.

Where a call is awaited by nobody, or by a route without a `try`, its error is a
rejection nobody handles, and that ends the process. There is no action for the
error of such a call in `Withdrawals` and `Deposits`: it is one of the crashes
(`CrashRestart`), which may come at any point.

`BlockchainScan` is different: queues, storage and chain have connections of their
own, so what is sent on one may take effect after what is sent later on another.
There a command that nobody waits for is kept (`adding`, `updates`) until it does.

### UsersDepositsStorage

| Variable | In the code |
|---|---|
| `banBalance` | `ban-balance:${wallet}` |
| `audit` | `audit:${hash}` and with it the sorted sets, written by the same `MULTI` |
| `locks` | `locks:ban-balance:${a}`, `locks:swaps:ban-to-wban:${a}`: the holder, `free`, or `orphan` when its process died |
| `pc`, `req`, `val`, `tries` | the suspended async calls: where they wait, their arguments, the balance read, the attempts at the lock |
| `submitted`, `applied` | history variables: what was asked, how often it was written |

A store runs through `Call` (the lookup of the service), `BeginLocking`,
`RetryLock`\*, `Recheck` (swaps to BAN only), `Read`, `Write`, `Release`. A swap to
wBAN takes the lock on swaps first, makes a nested `getUserAvailableBalance`
(`LockBalance`, `Read`, `UnlockRead`) and writes after the nested lock is
released. `GiveUp`, `ReadFails`, `WriteFails` are the error paths through the
`finally` blocks. `Expire` is the TTL, `Crash` the death of the process.

Locks are named as in the code: `BalanceLock` keeps the spelling of the address
for swaps to BAN and reads, and takes its lower case for the others.

### Withdrawals

| Variable | In the code |
|---|---|
| `job`, `made` | the jobs in Redis, `<<w, 0>>` for `banano-withdrawal-...`, `<<w, n>>` for the n-th pending job; attempts made |
| `current`, `step` | the job the worker runs and the next thing its processor does |
| `block` | the block the worker sent for its job: the hash it stores, and the result of the job |
| `hot` | BAN in the hot wallet |
| `paid`, `refused` | history variables: blocks sent, withdrawals refused for good |
| `refills`, `crashes` | counters with bounds |

`withdrawBAN` is the route; `StartJob` is the beginning of `processWithdrawBAN`
(lookup, signature, claim: `valid` says how the last two come out); `ReadBalance`,
`BalanceStep`, `BalanceRead`, `BalanceFails` are the check of the balance and, at
the end, the balance for the job's result; `eventuallySendBan` is the choice
between sending and a pending job; then `sendBan`, `StoreWithdrawal` and
`LeaveStoreRunning`, after which `BackgroundStep` runs what nobody awaits.
`JobFails` is a command, a request to the node or a send that fails under the worker.
BullMQ, the node's wallet and Redlock are external; they do what the source
relies on (`Add` does nothing for a known id, `Fail` delays or fails a job).

### Claims

`pending` and `claims` are the keys of Redis. A call of `Service.claim` looks for
a claim (`StartClaim`), for a pending claim twice (`CheckPending`, once in
`Service`, once in `UsersDepositsService`), then stores. The worker, with a deposit
(`processUserDeposit`), looks for a pending claim, asks for it again (`FindKey`) and
confirms it (`confirmClaim`). The pending claim is not removed; it times out
(`ExpirePending`).

### Deposits

| Variable | In the code |
|---|---|
| `sent`, `received`, `hot` | the hot wallet's account on the Banano network: blocks sent to it, those received, the BAN it can send |
| `job`, `made`, `current`, `step` | as in `Withdrawals`; a deposit has one job, `banano-deposit-${sender}-${hash}` |
| `share` | the amount `eventuallySendToColdWallet` is about to send |
| `poll` | what is left of the loop of `processPendingTransactions` |
| `refunds`, `failures` | history variable; bounded counter of failures and crashes |
| the rest | the variables of the storage and of `Claims` |

A block comes in by `wsMessageReceived` or by the scan (`processPendingTransactions`,
then one `NextPending` per block, which ends the scan after a block of the
bridge's own wallets). The job is `processUserDeposit` step by step: `StartJob` and
`ConfirmClaim` are the deposit actions of `Claims`; `ReceiveDeposit`, which swallows its
error; `Decide`; then `SendBack`, or `StoreDeposit`, `LeaveStoreRunning`, `ReadTotal`
and `SendToColdWallet`; at last `ReadBalance` and `BalanceRead` for the result.
`ColdWalletShare` is the arithmetic of the share, in whole BAN.

Users' calls of `claim` are one action here, `UserClaims`: a pending claim appears, or
times out, at any moment. This allows more than the calls of `Claims` can do, so
what holds here holds with them too.

### BlockchainScan

| Variable | In the code |
|---|---|
| `head`, `pointer` | the last block of the chain; `blockchain:blocks:latest` |
| `queued`, `job`, `made` | swaps in the queue of operations; the scan jobs in Redis by their id (first block, last block), and attempts made of them |
| `adding`, `heard` | events given to `queue.add` that are not in Redis yet; events the listener waits with for confirmations |
| `updates` | the blocks the pointer is about to be set to |
| `stage`, `latest`, `current`, `from`, `to`, `left` | what the scan worker does: the pointer it read, its job, `blockSliceFrom`, `blockSliceTo`, slices to go |
| `cut`, `failures`, `crashes` | history variable: adds a crash cut off; bounded counters |

The repeated job (`StartRepeat`, `AddScan`) reads the pointer, then asks for the last
block, and adds a job whose id is made of both; an id that Redis knows is not
added again. The repeated job is queued behind the scan job that the one before it
added, which `StartRepeat` asks not to be waiting for its first attempt; a job that comes
back after a delay or a restart may be overtaken. `StartScan` and `processBlocksSlice` are the loop of
`processBlocks`: a slice's swaps are handed over and the pointer's update is started,
and neither is waited for. The pointer is read in the same step and set by
`SetLastBlock`, any number of steps later. `RequestFails` gives the job back to
BullMQ. Two events of one transaction share the id of their job, as in the code, so
events are told apart by their hash in the queue. The chain only grows. The checks of
`handleSwapToBanEvents` that throw for an event with a field missing
(`Blockchain.ts:204-212`) are left out: the events of the contract have all of them.

### Swaps

| Variable | In the code |
|---|---|
| `job`, `made`, `current`, `step` | as in `Withdrawals`: `swap-ban-to-wban`, `swap-wban-to-ban`, `gasless-swap` jobs |
| `receipt` | the receipt the worker has signed for this attempt |
| `relayed` | the transactions given to the relayer: pending, mined, failed, expired |
| `minted`, `burned` | receipts the token contract has accepted, swaps to BAN it has emitted |
| `freeSwaps` | `swaps:gasless:${wallet}` |
| `asked` | the jobs users ask for in this behavior |
| `failures`, `crashes` | bounded counters |

A swap to wBAN is `StartJob` (`valid`: signature and claim), `ReadBalance` and
`BalanceRead` for the check, `StoreSwap` (a receipt with a new time, and the store,
which is awaited here), `CountSwaps` for `wrapCount`, and if it is the first wrap
and big enough `Relay` and `waitForRelayedTx`; then the balance again for the
result. A swap to BAN is the store, unless the swap is in the history, and the
balance. A gasless swap looks up the free swap, relays, waits and stores
it (`storeFreeSwap`). The relayer and the contracts are external: a transaction is
mined at most once per receipt or permit, or it fails, or it expires unmined
(`SettleTx`). The worker's wait ends on the first two only, as in the code
(`Service.ts:589-593`), so an expired one is polled until a poll fails or the process
restarts. The owner of a receipt may mint it too, as soon as it is in the history (`UserMints`).

The job id of a gasless swap is its wallet and recipient, so a user gets a second
try only with another recipient. Stores of withdrawals left running, and other
writers of the same balance, are not here: with them swaps to wBAN lose updates, as
`StorageSwapRace` shows, and `ValueIsConserved` would be lost too.

### ServerEvents

`clients` is the map of `SSEManager`; `state` says which connections are open. `open`
is the route with `SSEManager.open`, `close` its `req.on("close")`, which deletes the
client of the wallet *whichever connection it is*, and `onJobCompleted` the listener
of the queue, with `unicast` and `broadcast`. `sent`, `newest` and `cutOff` are history
variables: who got a result, the last connection of each wallet, and connections
that were open when another one of their wallet closed.

## 3. What TLC checks

Every run ends in less than five minutes; `Swaps`, `WithdrawalsQueue` and
`BlockchainScan`, the longest, take about three.

| Run | Question | Result |
|---|---|---|
| `StorageLedger` | three calls at a time, every kind of store, errors and crashes: is every event stored once, from a fresh balance, and does the storage implement `UserLedger`? | holds |
| `StorageTimeouts` | locks time out under live calls, with nested locks, two spellings of the wallet and events submitted again during their own store: does a late release spare the next holder, does every call end and every lock become free? | holds |
| `WithdrawalsQueue` | two withdrawals for more than the balance, a hot wallet to be refilled, a crash: paid once per life of the process, never beyond the balance, not after it is in the history, never dropped, in the end recorded? | holds |
| `WithdrawalsFaults` | any command or send may fail, locks may be given up, reads come in over HTTP: does the worker come back, and is the balance still the sum of the history? | holds |
| `Claims` | two users, two wallets, failing commands, timeouts, deposits, crashes: one owner? | holds |
| `Deposits` | notifications lost or repeated, scans, claims that come and go, stores left running behind the next attempt, failures, crashes: is nothing credited sent back, is a refund repeated only by a failure, does the hot wallet keep its minimum, is every deposit settled? | holds |
| `BlockchainScan` | a deaf listener, late updates of the pointer, failing requests until a job is given up, a crash: does the pointer pass no swap, do slices cover their range, is every swap found? | holds |
| `Swaps` | two swaps to wBAN of one wallet; one and its way back; two free swaps; a refused one; with mints by users, failed and expired transactions, a failure or a crash: is value conserved, is a wallet debited again only after something failed, is one mint and one free swap paid, does a completed job do what it says, does every job end but for the wait for an expired transaction? | holds |
| `ServerEvents` | three connections of a wallet in any order, one of another: is no client left behind, is the last connection the client, do results reach it and nobody else? | holds |
| `StorageSwapRace` | a swap to wBAN next to a withdrawal of the same wallet | `BalanceMatchesAudit` violated |
| `WithdrawalsReader` | a balance read over HTTP while a payment is being recorded | `NoOverdraft` violated |
| `ClaimsTwoOwners` | two users claim one wallet at the same moment | `OneOwner` violated |

### What the violations show

* **Swaps to wBAN lose updates.** `storeUserSwapToWBan` holds the lock on swaps, but
  the lock on the balance is given back by the nested read before the write
  (`RedisUsersDepositsStorage.ts:327`). Any other store of that wallet in between
  is overwritten. Two swaps to wBAN do exclude each other.
* **Spelling.** The lock of a swap to BAN keeps the spelling of the event, the
  balance does not (`:358`). With capitals, two stores write one balance under
  two locks. The runs that check balances use one spelling, and the theorems
  assume `Canonical`; with two spellings in `StorageLedger` TLC loses a credit.
* **Deposits in flight.** The lookup comes before a store that is not awaited and
  that does not look again under the lock, unlike `storeUserSwapToBan`. A job tried
  again while its first store still waits for the lock would credit the deposit
  twice. The first store would have to last longer than BullMQ's backoff of a second.
  `RetryInFlight` says whether this happens. It does in `StorageTimeouts` and in `Deposits`,
  which check what holds all the same; `StoredAtMostOnce` does not, TLC finds the second
  credit in either, so `StorageLedger` and the theorem `AtMostOnce` exclude it and say so.
  In the same way a swap to BAN may be credited twice if the lock times out between the
  second look under it and the write.
* **Expired transactions.** `waitForRelayedTx` leaves its loop for the statuses mined,
  confirmed and failed (`Service.ts:589-593`; the comment before it: "poll the transaction status 'til it's
  either a succesfull or failed tx"). A relayed transaction that expires gets none of them, and the single worker
  polls it for ever, with the jobs of all users behind it, until a poll fails or the process
  restarts. `EveryJobEnds` says that this is the only way to hold the worker up; without its exception
  (`PollsExpired`) TLC finds the worker polling for good.
* **Withdrawals in flight.** For the same reason a withdrawal may be checked
  against a balance that lacks the previous debit. The single worker hides it as
  long as the store takes the lock at once, which is the order `WithdrawalsQueue`
  checks; a reader that holds the lock for an instant is enough to break it.
* **Paid twice.** Nothing is written before the BAN leave. `PaidOncePerLife` says
  what is true instead: without failing commands only a crash repeats a payment, each
  crash at most once. A command that fails between payment and record does the same.
* **Replaced jobs.** The exception that should drop a replaced job makes BullMQ
  delay it for another attempt, so it stays next to its successor and is counted
  twice by `getPendingWithdrawalsAmount`. `Withdrawals` models it; `PaidOncePerLife` and `NotDropped` hold
  all the same, because whichever job pays first ends up in the history.
* **Two owners.** Lookups and store of a claim are separate commands, and the key
  of a pending claim includes the claimant, so both are stored; a confirmed claim
  stays pending, so a second deposit confirms the other.
* **Sent back twice.** A refund is recorded nowhere. The processor reads the balance
  after it for the result of the job; when that fails, the job throws and its next
  attempt sends the deposit back again. `SentBackOncePerFailure` says that nothing
  else repeats a refund: not the scans, not late notifications, not other attempts.

* **Debited again.** A swap to wBAN is debited before its receipt is relayed and
  before its result is read. When the relayed mint fails, when its owner mints the receipt
  first, so that the relayed transaction fails, or when a request behind the
  store fails, the next attempt signs another receipt and takes a second amount off the
  balance. No value is lost: both receipts can be minted (`ValueIsConserved`), and
  `DebitedAgainAfterFailure` says that nothing else does it.
* **Cut off on the way.** A crash between a hand-over and `queue.add` loses the swap
  if the pointer has passed it. `SwapsAreFound` excepts exactly these, and the end of
  the chain, where no new id makes up for a job that is known as completed or failed.
* **Late close.** When a page is loaded again the close of its old connection may
  come after the new one opened, and deletes it from the map. Until it connects again
  the user hears nothing. `NewestIsClient` says that this is the only way.

*Deposits in flight*, *Expired transactions*, *Replaced jobs*, *Spelling*, *Paid twice*, *Sent back twice* and the
last three were seen while modelling and have no run of their own.

### Bounds, and why they are enough

* `RetryCount = 1` (10 in the code): one retry already shows a lock that is taken
  late, and one that is given up. The proofs are for every value.
* `Caller`: three calls for the storage: a writer, its competitor, and a third
  that finds the lock released by the wrong one. Two in `StorageTimeouts`, which checks
  liveness. In `Withdrawals` the worker, one or two stores behind it, and one reader.
* Requests: one event of each kind on one wallet with distinct amounts (1, 2, 4), so that
  every subset has its own sum; swaps to wBAN on a second wallet, where
  `StorageLedger` and the theorems allow them; two of them, to compete.
* `MaxCrashes = 1`: BullMQ moves a job that stalls more than once (`maxStalledCount`
  is left at 1) to the failed ones. Three payments per withdrawal: more than
  retries and one crash can make, so that running out of hashes never hides one.
* `MaxAttempt = 2` pending jobs, an empty hot wallet and two refills: put off, put
  off again, then paid. At the last attempt the job waits for the hot wallet instead of making yet
  another job.
* Balances start at 3, the withdrawals ask for 1 and 3: either is covered, both are
  not, and the first could be paid twice if only the balance stood in its way.
* `Claims`: two wallets, two users, two calls; one worker, as in the code.
* `Deposits`: one deposit of 3 BAN next to a block of the cold wallet; units are half BAN.
  The hot wallet starts with 3 BAN and keeps 5, so that the deposit alone lifts it above
  its minimum by less than the deposit, and with the other block by more. Two failures
  or crashes in all (`MaxFailures`); that BullMQ gives a job up after two crashes of it
  is left out, which only adds behaviour. Next to a deposit of 3 BAN there is one with more
  than two decimals (`Odd`), of which one behavior makes either (`MaxDeposits = 1`). Two
  stores may be in flight, those of two attempts of one job. Scans do not overlap: they are a minute apart.
* `BlockchainScan`: slices of two blocks and ranges of four, on a chain of three blocks
  that grows by one with the swap in it: the range is cut off at an odd length, then two
  full slices, and the swap is in the last block. Two updates of the pointer
  under way, three failures, so that a job can be given up for good, one crash, one
  confirmation. The theorems are for every value.
* `Swaps`: `Together` names the sets of jobs that come together in one behavior: two swaps
  to wBAN that can both be paid for; one and its way back; two free swaps of one wallet with
  different recipients; one that is refused. One failure or crash in all (`MaxTroubles`),
  and any number of failed transactions; four receipts per swap, more than its attempts.
* `ServerEvents`: three connections of one wallet, so that one is neither first nor last;
  one of another; a result for each wallet and one for all. The theorems are for
  every value.
* Switches: `TtlMayElapse` (of the storage) is on in `StorageTimeouts`, `Overlap` in
  `ClaimsTwoOwners`, `Faults` (of the worker's own commands and sends) in
  `WithdrawalsFaults`, where `Timely` is off, `MayCrash` in `Deposits`. `RetryInFlight` is on in
  `StorageTimeouts` and `Deposits`; it is off in `StorageLedger`, and the other runs have no
  deposits. Pending claims do not time out under those who rely on them in the two runs of
  `Claims`; in `Deposits` they do.

`CHECK_DEADLOCK FALSE` stands where the environment may run out of things to ask:
withdrawals, swaps, blocks and connections of an instance come once, and then everything has
been done. `Claims` never stops and is checked for deadlock.

Permutations of the callers are a symmetry of `StorageLedger`, which checks no
liveness.

### Fairness

* Weak fairness of `Step(c)`: a command is answered or fails, and the timer of a
  retry fires. ioredis either gets a reply or rejects.
* Weak fairness of `Expire(k)`, as far as it frees the locks of calls that died: the TTL
  of a lock runs out. A lock does not have to time out under a live call.
* Weak fairness of `WorkerStep` and `Promote`: the worker takes jobs while there are
  any, its calls end, and BullMQ's scheduler moves delayed jobs on.
* `Deposits`: weak fairness of the scan as a whole (cron starts it every minute, and
  the loop ends), of the worker, the store behind it, `Promote` and the TTL of locks.
* `BlockchainScan`: weak fairness of the chain's growth, of the repeated job (it comes back
  every 30 s), of the scan worker's steps, of commands that nobody waits for, and of BullMQ's
  delays; strong fairness of taking a scan job, since it is in one FIFO queue with the
  repeated job and so its turn comes. None of the listener.
* `Swaps`: weak fairness of the worker, `Promote`, locks, and of the relayer, for which a
  transaction is mined, fails or expires: it is valid for 300 s. That it settles one way or
  another is assumed of the relayer; expiry does not end the polling. Polls need not fail.
* `ServerEvents` states no fairness and no liveness.
* No fairness of requests, notifications, claims, refills, crashes, or of any
  particular job.

`PaidIsRecorded` assumes `Timely` and no faults: a store nobody awaits is tried
once, so with failing commands it may simply be lost. `Timely` says that acquire
does not give up; it stands for locks held for much less than the two to four
seconds that the eleven attempts take.

## 4. What is proved

TLAPS checks these for every value of the constants, with all errors, retries and
crashes of the modules. Every safety invariant and every action property that a run
checks is among them; what runs add is liveness, and that the properties can be broken
by plausible bugs.

| Module | Theorem | Assumptions | Says |
|---|---|---|---|
| `UsersDepositsStorageProofs` | `TypeCorrect` | none | `[]TypeOK` |
| | `ReleasedByHolder` | none | `OnlyHolderReleases`: no late release frees the lock of another |
| | `AtMostOnce` | `CallsInTime` | `[]StoredAtMostOnce` |
| | `Inductive`, `FreshWrites` | `CallsInTime`, `OneLockPerWallet` | `[]IInv`; what a store writes was computed from the current balance |
| | `Refinement` | the same | the storage implements `UserLedger` |
| | `BalancesAddUp` | the same | `[]BalanceMatchesAudit` |
| `WithdrawalsProofs` | `TypeCorrect` | none | `[]TypeOK` |
| | `StorageImplemented` | none | `Spec => Storage!Spec` |
| | `BalancesAddUp` | as for the storage | `[]BalanceMatchesAudit` |
| | `NothingDropped` | `Undisturbed`, `DistinctTimes` | `[]NotDropped` |
| | `Inductive`, `PaidOnce`, `NotOverdrawn`, `RecordEndsPayments` | `Orderly` | `[]IInv`, `[]PaidOncePerLife`, `[]NoOverdraft`, `NoPaymentAfterRecord` |
| `ClaimsProofs` | `TypeCorrect` | none | `[]TypeOK` |
| | `Inductive`, `OneOwnerOnly`, `OwnersPending` | `NoRaces` | `[]IInv`; one owner per wallet; no contending pending claim |
| `DepositsProofs` | `Inductive`, `TypeCorrect` | none | `[]IInv`, `[]TypeOK` |
| | `SentBackOnce`, `CreditedKept`, `MinimumKept` | none | `[]SentBackOncePerFailure`, `CreditedIsKept`, `MinimumIsKept` |
| | `StorageImplemented` | none | `Spec => Storage!Spec` |
| | `StorageKeepsItsPromises` | as for the storage | deposits are credited once and the balances add up |
| `SwapsProofs` | `Working`, `TypeCorrect` | none | types, receipts, locks, attempts and results (`WorkInv`) |
| | `StorageImplemented` | none | `Spec => Storage!Spec` |
| | `OneMint`, `OneFree`, `Completed` | none | `[]OneMintRelayed`, `[]OneFreeSwap`, `[]CompletedIsDone` |
| | `Inductive`, `Debited`, `Conserved` | `DistinctSwaps` | `[]IInv`, `[]DebitedAgainAfterFailure`, `[]ValueIsConserved` |
| `BlockchainScanProofs` | `Inductive`, `TypeCorrect` | none | `[]IInv`, `[]TypeOK` |
| | `SkipsNothing`, `CoversRange` | none | `[]NothingSkipped`, `RangeIsCovered` |
| `ServerEventsProofs` | `Inductive`, `TypeCorrect` | none | the invariant of the connections, and its types |
| | `NoClientIsLeft`, `NewestIsKept`, `ResultsAreSent` | none | `ClientsAreOpen`, `NewestIsClient`, `ResultsReachNewest` |
| `SumTheorems` | `SumEmpty`, `SumType`, `SumAdd`, `SumRemove`, `SumMonotone` | the set is finite, its summands are integers (naturals for the last) | how sums change with their sets |

The assumptions are the hazards, stated exactly:

* `CallsInTime`: locks outlast the calls that hold them, and no deposit is
  submitted during its own first store. Section 3 (*Deposits in flight*) says why both
  are needed. Over the
  storage the same is written `~TtlMayElapse` and `~RetryInFlight`.
* `OneLockPerWallet`: wallets are spelled one way (`Canonical`), and no wallet sees
  both swaps to wBAN and other stores (`LockDiscipline`). `StorageSwapRace` shows the
  second half is needed.
* `NoRaces`: claims of one wallet by different users do not overlap, and no pending
  claim times out under a call that reads it or between the lookup and the write
  of `confirmClaim`. `ClaimsTwoOwners` shows the first half is needed. For the second: a call finds
  the wallet unclaimed, a deposit confirms the pending claim, this one times out,
  and the call finds nothing pending.
* `DistinctTimes`: two withdrawals of a wallet are asked for at different times. The id
  of the job and the lookup in the history go by the time (`RedisProcessingQueue.ts:96`), so of two at the same
  millisecond one would be dropped.
* `Undisturbed`: no command of the worker fails and no lock is given up. A job that has
  failed for the third time is not tried again, so with failing commands a withdrawal is
  dropped. Crashes are allowed.
* `Orderly`: moreover nobody reads balances over HTTP, locks do not time out under
  their calls, and wallets are spelled one way. `WithdrawalsReader` shows that a
  reader is enough to break `NoOverdraft`; a command that fails between a payment and
  its record has it paid again, beyond what `PaidOncePerLife` allows. That leaves two entries
  at one timestamp, which the lookup takes for none (`RedisUsersDepositsStorage.ts:302`), so
  `NoPaymentAfterRecord` needs `Orderly` as well.
* `DistinctSwaps`: no two swaps to wBAN of a wallet have the same time, and no two swaps
  to BAN the same hash. Both are job ids; two events of one transaction would be one job and
  one credit (`RedisProcessingQueue.ts:136`).

`MCWithdrawals` and `MCSwaps` state as `ASSUME`s that the instances of their runs meet
`Orderly` and `DistinctSwaps`. The inductive invariants were checked by TLC as invariants of the
runs' instances before they were proved, that of `Swaps` also with `TtlMayElapse` and
`RetryInFlight` on, since most of its theorems do not exclude them.

**Storage.** `StoredAtMostOnce` is not inductive: it does not say why a second write
cannot come. `OnceInv` adds the stages each kind of call goes through, that a call
holds its outer lock from its first command to its last (`HoldsOuterLock`), that an
event whose store is still to come is not in the history (`UnwrittenIsUnrecorded`),
that no withdrawal, swap to wBAN or deposit is under way twice (`SubmittedOnce`),
and that the count of writes is the history (`AppliedMatchesAudit`). Two swaps to
BAN of one event may be under way together: there it is the lock and the second
look under it that leave one. `IInv` adds `ReadIsFresh`, for which two calls that
have read the same balance must be one call: by the lock, if they use the same.
The refinement then is one step: `Write` is `Record` of its event, every other step
stutters. `ReleasedByHolder` needs the types only: every release compares tokens.

**Sums.** A sum over a set is a recursive function, and the library's induction
theorems cannot be used here. `SumTheorems` does without: if a fact about sums failed for
some subset of a finite set, there would be a smallest subset for which it fails
(`Smallest`), and one unfolding of the sum contradicts that. `BalancesAddUp` follows: a write adds one event that was not in the
history, hence one summand. The same theorems serve paid amounts, the cold wallet's
total, and the value of swaps.

**The storage under its users.** `Withdrawals`, `Deposits` and `Swaps` instantiate
`UsersDepositsStorage`; their proofs instantiate `UsersDepositsStorageProofs` as well. Each
of their steps is a step of the storage or leaves its variables alone
(`StorageImplemented`, without assumptions), so what is proved of the storage is cited
there and not proved again. Crashes of a composed module are crashes of the storage.

**Withdrawals.** `NotDropped` follows from `ScheduleInv`: a job that ends leaves a
payment, a refusal or another job.
`PaidOncePerLife` and `NoOverdraft` need more, because a payment precedes its record and nobody
waits for that. `SourceInv` says that what is recorded was paid for a withdrawal;
`StoresInv` that a store left running is the one of the worker's last payment and holds
the lock which the worker's next read waits for; `RecordInv` that a withdrawal is not
recorded before the worker is done with it; `PaymentsInv` that a payment not in
the history is the worker's or one that a crash left; and `FundsInv` that what left the hot
wallet has left the balance, but for the one payment that is about to (`Due`).

**Claims.** `IInv` of `Claims` says that pending and confirmed claims of a wallet
together have one claimant, that calls under way on one wallet agree on him, that a wallet
found unclaimed has its claims still pending, that after a call found nothing only
its own user leaves something, and that the key to be confirmed is pending. Timeouts
can break the third and the last, overlapping users the second.

**Deposits.** `RefundInv` counts: a refund not owed to a failure means that the job
has ended, or is about to. `KeptInv` says that what is credited or on its way was
decided by claims, which stay, so that a later attempt decides the same. `ShareInv` bounds the
share by a total that only grows, although the total was read before.

**Swaps.** `CallInv`, `ReceiptInv`, `LockInv` follow the worker's one receipt from its
signature to the relayer; the lock of the balance is never left orphaned under the worker, so only a failure
keeps it from reading the balance again. For `DebitInv` each receipt of a swap is matched with a failure,
a crash or a failed mint, but one: the one that is `Spent`, by a job that completed or
one that is completing. `FreeInv` does the same for gasless swaps with
`Granted`, the free swap that is noted or about to be, and `AttemptsInv` numbers their
transactions by attempts, so that the next one is fresh. `OneMintRelayed` rests on
`MintInv`: at the relay no receipt of the wallet was relayed, since `wrapCount` would have
counted it. For `ValueIsConserved` the value of a wallet is in four places (balance,
receipts not minted, circulation, burned and not credited); a mint, a burn, a debit and a
credit each move one amount from one place to the next.

**Scan.** `NothingSkipped` speaks of the pointer only; what will become the pointer is
elsewhere until then. `IInv` follows a block number on its way: the pointer a
repeated job has read, the id of the job it adds, the slice the worker is at, and the updates
under way (`WorkerIsReached`, `JobsAreReached`, `UpdatesAreReached`) all name blocks up to
which every swap was handed over. That late and repeated updates come in any order, and
even move the pointer back, then does not matter. `CoversRange` adds `SlicesSuffice`: the
slices to go, which `processBlocks` counts by division, times their length reach past the last
block, from the first slice to the last and for an empty range too.

**Events.** `NewestIsClient` needs `ClientsAreOpen` and that the last connection of a wallet is
one of its own and was opened (`NewestWasOpened`). `ResultsAreSent` follows from the
invariant in one step, `onJobCompleted`.

### What stays with TLC

Liveness under fairness is out of the prover's reach: `EveryCallSettles`, `LocksAreFreed`,
`PaidIsRecorded`, `WorkerIsFreed`, `DepositsAreSettled`, `SwapsAreFound`, `EveryJobEnds`.

## 5. What is not modelled, and why

* Signatures, logging, formatting, amounts as 18-digit numbers: a signature is
  valid or not, an amount is a small natural number.
* The order of waiting jobs: any waiting job may be taken next, which includes the
  order BullMQ gives.
* The connection of the WebSocket: that notifications may be lost is all it changes.
* Deposits of less than 10^-18 BAN: a notification of one throws, the scan receives it
  and stops, as at a block of the bridge's own wallets, or logs an error.
* Reorganisations of the chain: the scan takes blocks without confirmations, and a swap of a
  block that is dropped is credited; nothing in the code would undo it.
* The amount of pending withdrawals (`getPendingWithdrawalsAmount`): a sum for display.
* `multicast`, `deleteAll` and `count` of the SSE manager: nothing calls them.
* The lookups by blockchain wallet: `valid` stands for `isClaimedFromETH`, and
  `getBanAddressesForBlockchainAddress`, whose regular expression with the g flag leaves wallets
  out, only answers a request.
* The loss of a request that was acknowledged before `add` reached Redis: it looks
  like one never made.
* Histories and lookups for display, sessions, CORS, the health check, prices, gas
  trackers, the token list, and the script of the relayer list: they keep no state
  of the bridge.

## 6. Plan

In the order of what is at stake:

1. `UserLedger`, `UsersDepositsStorage`, `UsersDepositsStorageProofs` - done.
2. `Withdrawals` over the storage - done.
3. `Claims`, `ClaimsProofs` - done.
4. `Deposits` over `Claims` and the storage, `DepositsProofs` - done. Left: an abstract
   specification (a deposit is open, then credited or sent back) to refine.
5. `Swaps`, `SwapsProofs` - done. Left: an abstract specification (value moves between four
   places) to refine, and the stores of withdrawals next to swaps.
6. `BlockchainScan`, `BlockchainScanProofs` - done.
7. `ServerEvents`, `ServerEventsProofs` - done.
8. `WithdrawalsProofs` - done. Left: `PaidOncePerLife` with readers and without `Orderly`'s
   other halves, as far as it holds.
