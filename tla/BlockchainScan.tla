--------------------------- MODULE BlockchainScan ---------------------------
(***************************************************************************)
(* The two ways a SwapToBan event of the contract reaches the queue of     *)
(* operations: the listener of Blockchain, which waits for confirmations,  *)
(* and the scan (RedisBlockchainScanQueue, Blockchain.processBlocks), a    *)
(* repeated job that reads the block pointer and adds a job for the blocks *)
(* after it, which a single worker processes in slices.                    *)
(*                                                                         *)
(* The queues, the storage of the pointer and the chain have connections   *)
(* of their own: what is sent on one takes effect independently of the     *)
(* others.  Promises nobody awaits end the process when they are rejected. *)
(* The chain only grows here.                                              *)
(***************************************************************************)
EXTENDS Integers, Sequences

CONSTANTS
  Event,          \* SwapToBan events: [hash, block]
  StartBlock,     \* BlockchainWalletPendingTransactionsStartFromBlock
  BlockSlice,     \* BLOCK_SLICE, blocks per request (1000 in the code)
  RangeMax,       \* BlockchainWalletBlockRangeMax, blocks per job
  Confirmations,  \* the listener waits for (5 in the code)
  NoJob,          \* the worker runs no scan
  FirstHead,      \* height of the chain when the bridge starts first
  MaxBlock,       \* bound: height of the chain
  MaxUpdates,     \* bound: updates of the pointer under way
  MaxFailures,    \* bound: requests that fail
  MaxCrashes      \* bound: deaths of the process

ASSUME ScanAssumption ==
  /\ StartBlock \in Nat /\ MaxBlock \in Nat
  /\ FirstHead \in StartBlock..MaxBlock
  /\ BlockSlice \in Nat \ {0} /\ RangeMax \in Nat \ {0} /\ Confirmations \in Nat
  /\ \A e \in Event : e.block \in (StartBlock + 1)..MaxBlock
  /\ NoJob \notin Int \X Int
  /\ MaxUpdates \in Nat /\ MaxFailures \in Nat /\ MaxCrashes \in Nat

VARIABLES
  head,       \* the last block of the chain
  pointer,    \* blockchain:blocks:latest
  queued,     \* swaps in the queue of operations, by hash
  job,        \* the state of every scan job in Redis
  made,       \* attempts made of it
  adding,     \* events given to queue.add and not in Redis yet
  heard,      \* events the listener waits with
  updates,    \* blocks the pointer is about to be set to, in order
  stage,      \* what the worker does
  latest,     \* the pointer a repeated job has read
  current,    \* the job whose blocks are being processed
  from, to, left,  \* blockSliceFrom, blockSliceTo, slices to go
  cut,        \* history: events whose queue.add a crash cut off
  failures,   \* failures so far
  crashes     \* crashes so far

redisVars == <<pointer, queued, job, made>>
callVars == <<adding, heard, updates>>
workerVars == <<stage, latest, current, from, to, left>>
vars == <<head, redisVars, callVars, workerVars, cut, failures, crashes>>

Lesser(a, b) == IF a < b THEN a ELSE b

Attempts == 3
JobStates == {"none", "waiting", "delayed", "active", "completed", "failed"}
Blocks == StartBlock..MaxBlock

(* The first block and the last block of the chain when it was added.      *)
ScanIds == ((StartBlock + 1)..(MaxBlock + 1)) \X Blocks

(* Mutant: the last block of the chain is not part of the id.              *)
ScanId_First(first, last) == <<first, StartBlock>>

(* jobId: `${latestBlockProcessed + 1}-${currentBlock}`.                   *)
ScanId(first, last) == <<first, last>>

(* The blocks of a job, at most RangeMax of them.                          *)
BlockFrom(j) == j[1]
BlockTo(j) == Lesser(j[1] - 1 + RangeMax, j[2])

(* Mutant: as if the range did not include its last block.                 *)
Slices_Exclusive(first, last) == (last - first - 1) \div BlockSlice + 1

(* Math.floor((blockTo - blockFrom) / BLOCK_SLICE) + 1: none if the scan   *)
(* is up to date.                                                          *)
Slices(first, last) == (last - first) \div BlockSlice + 1

FirstTo(first, last) == Lesser(first + BlockSlice - 1, last)

NextFrom == from + (to - from + 1)
NextTo == to + Lesser(BlockSlice, BlockTo(current) - NextFrom + 1)

(* Mutant: one attempt too many.                                           *)
MoreAttempts_OneMore(j) == made[j] <= Attempts

MoreAttempts(j) == made[j] + 1 < Attempts

OnChain == {e \in Event : e.block <= head}

SwapsIn(first, last) == {e \in OnChain : e.block \in first..last}

IsQueued(e) == e.hash \in queued

WorkerFree ==
  /\ stage' = "free"
  /\ latest' = StartBlock
  /\ current' = NoJob
  /\ from' = 0 /\ to' = 0 /\ left' = 0

-----------------------------------------------------------------------------
Init ==
  /\ head = FirstHead
  /\ pointer = StartBlock
  /\ queued = {}
  /\ job = [j \in ScanIds |-> "none"]
  /\ made = [j \in ScanIds |-> 0]
  /\ adding = {}
  /\ heard = {}
  /\ updates = <<>>
  /\ stage = "free"
  /\ latest = StartBlock
  /\ current = NoJob
  /\ from = 0 /\ to = 0 /\ left = 0
  /\ cut = {}
  /\ failures = 0
  /\ crashes = 0

(* A block is added to the chain.  The listener hears of its events, or    *)
(* it does not.                                                            *)
MineBlock ==
  /\ head < MaxBlock
  /\ head' = head + 1
  /\ \E noticed \in SUBSET {e \in Event : e.block = head + 1} : heard' = heard \cup noticed
  /\ UNCHANGED <<redisVars, adding, updates, workerVars, cut, failures, crashes>>

(* waitForTransaction has its confirmations: swapToBAN adds a job, without *)
(* waiting for it.                                                         *)
handleSwapToBanEvents(e) ==
  /\ e \in heard
  /\ head - e.block + 1 >= Confirmations
  /\ heard' = heard \ {e}
  /\ adding' = adding \cup {e}
  /\ UNCHANGED <<head, redisVars, updates, workerVars, cut, failures, crashes>>

(* queue.add takes effect: nothing if the job is known.                    *)
addSwapToBan(e) ==
  /\ e \in adding
  /\ adding' = adding \ {e}
  /\ queued' = queued \cup {e.hash}
  /\ UNCHANGED <<head, pointer, job, made, heard, updates, workerVars, cut,
                 failures, crashes>>

(* The worker takes the repeated job "bc-scan-repeat", which is in the     *)
(* queue again 30 s after the last one and behind the job that one added,  *)
(* but perhaps ahead of a job that came back after a delay or a restart:   *)
(* it reads the pointer and then asks for the current block.               *)
StartRepeat ==
  /\ stage = "free"
  /\ \A j \in ScanIds : job[j] = "waiting" => made[j] > 0 \/ crashes > 0
  /\ stage' = "repeat"
  /\ latest' = pointer
  /\ UNCHANGED <<head, redisVars, callVars, current, from, to, left, cut,
                 failures, crashes>>

AddScan ==
  /\ stage = "repeat"
  /\ job' = [job EXCEPT ![ScanId(latest + 1, head)] = IF @ = "none" THEN "waiting" ELSE @]
  /\ WorkerFree
  /\ UNCHANGED <<head, pointer, queued, made, callVars, cut, failures, crashes>>

(* processBlocks.                                                          *)
StartScan(j) ==
  /\ stage = "free"
  /\ job[j] = "waiting"
  /\ job' = [job EXCEPT ![j] = "active"]
  /\ stage' = "scan"
  /\ current' = j
  /\ from' = BlockFrom(j)
  /\ to' = FirstTo(BlockFrom(j), BlockTo(j))
  /\ left' = Slices(BlockFrom(j), BlockTo(j))
  /\ UNCHANGED <<head, pointer, queued, made, callVars, latest, cut, failures, crashes>>

(* Mutant: the pointer goes to the end of the job with its first slice.    *)
processBlocksSlice_WholeRange ==
  /\ stage = "scan" /\ left > 0
  /\ Len(updates) < MaxUpdates
  /\ adding' = adding \cup SwapsIn(from, to)
  /\ updates' = IF to > pointer THEN Append(updates, BlockTo(current)) ELSE updates
  /\ from' = NextFrom
  /\ to' = NextTo
  /\ left' = left - 1
  /\ UNCHANGED <<head, redisVars, heard, stage, latest, current, cut, failures, crashes>>

(* processBlocksSlice: the logs of the slice are there, their swaps are    *)
(* handed over, and setLastBlockchainBlockProcessed is called; neither is  *)
(* waited for.  The latter reads the pointer and, with the answer, sets it *)
(* if it was behind.  handleSwapToBanEvents would fail the slice for an    *)
(* event without a wallet, an address or an amount; the contract emits     *)
(* none.                                                                   *)
processBlocksSlice ==
  /\ stage = "scan" /\ left > 0
  /\ Len(updates) < MaxUpdates
  /\ adding' = adding \cup SwapsIn(from, to)
  /\ updates' = IF to > pointer THEN Append(updates, to) ELSE updates
  /\ from' = NextFrom
  /\ to' = NextTo
  /\ left' = left - 1
  /\ UNCHANGED <<head, redisVars, heard, stage, latest, current, cut, failures, crashes>>

SetLastBlock ==
  /\ updates # <<>>
  /\ pointer' = Head(updates)
  /\ updates' = Tail(updates)
  /\ UNCHANGED <<head, queued, job, made, adding, heard, workerVars, cut,
                 failures, crashes>>

EndScan ==
  /\ stage = "scan" /\ left <= 0
  /\ job' = [job EXCEPT ![current] = "completed"]
  /\ made' = [made EXCEPT ![current] = 0]
  /\ WorkerFree
  /\ UNCHANGED <<head, pointer, queued, callVars, cut, failures, crashes>>

(* A request fails.  The repeated job comes back in any case, the job of a *)
(* range begins again with its first slice.                                *)
RequestFails ==
  /\ failures < MaxFailures
  /\ failures' = failures + 1
  /\ \/ stage = "repeat" /\ UNCHANGED <<job, made>>
     \/ /\ stage = "scan" /\ left > 0
        /\ made' = [made EXCEPT ![current] = @ + 1]
        /\ job' = [job EXCEPT ![current] =
                     IF MoreAttempts(current) THEN "delayed" ELSE "failed"]
  /\ WorkerFree
  /\ UNCHANGED <<head, pointer, queued, callVars, cut, crashes>>

(* A delay is over.                                                        *)
Promote(j) ==
  /\ job[j] = "delayed"
  /\ job' = [job EXCEPT ![j] = "waiting"]
  /\ UNCHANGED <<head, pointer, queued, made, callVars, workerVars, cut,
                 failures, crashes>>

(* The process dies, and with it what was under way: what the listener     *)
(* heard, what did not reach Redis.  Its job is waiting again.             *)
CrashRestart ==
  /\ crashes < MaxCrashes
  /\ crashes' = crashes + 1
  /\ cut' = cut \cup adding
  /\ adding' = {}
  /\ heard' = {}
  /\ updates' = <<>>
  /\ job' = [j \in ScanIds |-> IF job[j] = "active" THEN "waiting" ELSE job[j]]
  /\ WorkerFree
  /\ UNCHANGED <<head, pointer, queued, made, failures>>

ScanStep ==
  \/ AddScan
  \/ \E j \in ScanIds : StartScan(j)
  \/ processBlocksSlice \/ EndScan \/ RequestFails

Next ==
  \/ MineBlock
  \/ \E e \in Event : handleSwapToBanEvents(e) \/ addSwapToBan(e)
  \/ StartRepeat
  \/ ScanStep
  \/ SetLastBlock
  \/ \E j \in ScanIds : Promote(j)
  \/ CrashRestart

Spec == Init /\ [][Next]_vars

(* The chain grows, the repeated job comes back every 30 s, a job that     *)
(* waits is taken although the repeated one keeps coming, as both are in   *)
(* one FIFO queue, requests and commands are answered, delays end.  The    *)
(* listener may be deaf, and requests may fail.                            *)
Fairness ==
  /\ WF_vars(MineBlock)
  /\ \A e \in Event : WF_vars(addSwapToBan(e))
  /\ WF_vars(StartRepeat)
  /\ WF_vars(ScanStep)
  /\ SF_vars(\E j \in ScanIds : StartScan(j))
  /\ WF_vars(SetLastBlock)
  /\ WF_vars(\E j \in ScanIds : Promote(j))

FairSpec == Spec /\ Fairness

-----------------------------------------------------------------------------
(* Types of all variables; a job has failed with its last attempt.         *)
TypeOK ==
  /\ head \in Blocks
  /\ pointer \in Int
  /\ queued \subseteq {e.hash : e \in Event}
  /\ job \in [ScanIds -> JobStates]
  /\ made \in [ScanIds -> 0..Attempts]
  /\ \A j \in ScanIds : job[j] = "failed" <=> made[j] = Attempts
  /\ adding \subseteq Event
  /\ heard \subseteq Event
  /\ updates \in Seq(Int)
  /\ stage \in {"free", "repeat", "scan"}
  /\ latest \in Int
  /\ current \in ScanIds \cup {NoJob}
  /\ stage = "scan" => current \in ScanIds
  /\ from \in Int /\ to \in Int /\ left \in Int
  /\ cut \subseteq Event
  /\ failures \in 0..MaxFailures
  /\ crashes \in 0..MaxCrashes

Handled(e) == IsQueued(e) \/ e \in adding \/ e \in cut

(* The swaps up to a block are in the queue, or on their way, or were cut  *)
(* off on it by a crash.                                                   *)
Reached(b) == b <= head /\ \A e \in OnChain : e.block <= b => Handled(e)

(* The pointer, though it moves without waiting for the swaps, never moves *)
(* past one that was not handed over, whatever fails and crashes.          *)
NothingSkipped == Reached(pointer)

(* The slices of a job end with its last block, whatever its length.       *)
RangeIsCovered ==
  [][\A j \in ScanIds :
       job[j] = "active" /\ job'[j] = "completed" => from > BlockTo(j)]_vars

(* Without the listener every swap on the chain still reaches the queue,   *)
(* unless a crash cuts it off or, at the end of the chain, the id of the   *)
(* job that would scan its block is used up.                               *)
SwapsAreFound ==
  \A e \in Event :
    e \in OnChain ~>
      \/ IsQueued(e) \/ e \in cut
      \/ /\ head = MaxBlock /\ pointer < e.block
         /\ job[<<pointer + 1, MaxBlock>>] \in {"completed", "failed"}

-----------------------------------------------------------------------------
(* The inductive invariant behind NothingSkipped: whatever carries a block *)
(* number towards the pointer, a call under way, a job or the worker,      *)
(* carries one that was reached.                                           *)
UpdatesAreReached == \A i \in 1..Len(updates) : Reached(updates[i])

JobsAreReached ==
  \A j \in ScanIds : job[j] # "none" => Reached(j[1] - 1) /\ j[2] <= head

WorkerIsReached ==
  /\ stage = "repeat" => Reached(latest)
  /\ stage = "scan" => /\ job[current] = "active"
                       /\ Reached(from - 1)
                       /\ to <= BlockTo(current)

IInv ==
  /\ TypeOK
  /\ NothingSkipped
  /\ UpdatesAreReached
  /\ JobsAreReached
  /\ WorkerIsReached

(* And behind RangeIsCovered: the slices to go are enough for the blocks   *)
(* to go, whatever the length of the range.                                *)
SlicesSuffice ==
  stage = "scan" =>
    /\ to = FirstTo(from, BlockTo(current))
    /\ from + left * BlockSlice > BlockTo(current)
=============================================================================
