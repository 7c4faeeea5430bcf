------------------------ MODULE BlockchainScanProofs ------------------------
(* Theorems about BlockchainScan: for every chain, slice, range and number *)
(* of failures and crashes, the pointer passes no swap that was not handed *)
(* over.                                                                   *)
EXTENDS BlockchainScan, TLAPS

(* A swap handed over stays so: it is on its way, arrives, or is cut off.  *)
LEMMA HandledStays ==
  ASSUME TypeOK, [Next]_vars
  PROVE  /\ head' \in Int /\ head' >= head
         /\ \A e \in Event : Handled(e) => Handled(e)'
<1> USE ScanAssumption DEF Handled, IsQueued, TypeOK, Blocks
<1>1. CASE MineBlock
  BY <1>1 DEF MineBlock, redisVars
<1>2. CASE \E e \in Event : handleSwapToBanEvents(e) \/ addSwapToBan(e)
  BY <1>2 DEF handleSwapToBanEvents, addSwapToBan, redisVars
<1>3. CASE StartRepeat \/ SetLastBlock \/ \E j \in ScanIds : Promote(j)
  BY <1>3 DEF StartRepeat, SetLastBlock, Promote, redisVars, callVars
<1>4. CASE ScanStep
  BY <1>4 DEF ScanStep, AddScan, StartScan, processBlocksSlice, EndScan, RequestFails,
              redisVars, callVars
<1>5. CASE CrashRestart
  BY <1>5 DEF CrashRestart
<1>6. CASE UNCHANGED vars
  BY <1>6 DEF vars, redisVars, callVars
<1> QED
  BY <1>1, <1>2, <1>3, <1>4, <1>5, <1>6 DEF Next

(* A block that was reached stays so: new swaps come in blocks after it.   *)
LEMMA ReachedStays ==
  ASSUME TypeOK, [Next]_vars, NEW b \in Int, Reached(b)
  PROVE  Reached(b)'
<1>1. head' \in Int /\ head' >= head /\ \A e \in Event : Handled(e) => Handled(e)'
  BY HandledStays
<1>2. \A e \in Event : e.block \in Int
  BY ScanAssumption
<1>3. head \in Int
  BY ScanAssumption DEF TypeOK, Blocks
<1> QED
  BY <1>1, <1>2, <1>3 DEF Reached, OnChain

(* The slices of a job stay within its blocks, and one begins where the    *)
(* one before it ended.                                                    *)
LEMMA SlicesFollow ==
  ASSUME TypeOK, stage = "scan"
  PROVE  /\ NextFrom = to + 1
         /\ to <= BlockTo(current) => NextTo <= BlockTo(current)
<1>1. BlockTo(current) \in Int /\ BlockSlice \in Int
  BY ScanAssumption DEF TypeOK, BlockTo, Lesser, ScanIds, Blocks
<1> QED
  BY <1>1 DEF NextFrom, NextTo, Lesser, TypeOK

-----------------------------------------------------------------------------
LEMMA InitInv == Init => IInv
<1> SUFFICES ASSUME Init PROVE IInv
  OBVIOUS
<1> USE ScanAssumption DEF Init, Blocks, OnChain
<1>1. TypeOK
  BY DEF TypeOK, JobStates, Attempts
<1>2. NothingSkipped
  BY DEF NothingSkipped, Reached
<1>3. UpdatesAreReached /\ JobsAreReached /\ WorkerIsReached
  BY DEF UpdatesAreReached, JobsAreReached, WorkerIsReached
<1> QED
  BY <1>1, <1>2, <1>3 DEF IInv

(* Every step keeps the types.                                             *)
LEMMA TypeStep ==
  ASSUME IInv, [Next]_vars
  PROVE  TypeOK'
<1> USE ScanAssumption DEF TypeOK, Blocks, JobStates, Attempts
<1>1. TypeOK
  BY DEF IInv
<1>2. CASE MineBlock
  BY <1>1, <1>2 DEF MineBlock, redisVars, workerVars
<1>3. ASSUME NEW e \in Event, handleSwapToBanEvents(e) \/ addSwapToBan(e)
      PROVE  TypeOK'
  BY <1>1, <1>3 DEF handleSwapToBanEvents, addSwapToBan, redisVars, workerVars
<1>4. CASE StartRepeat
  BY <1>1, <1>4 DEF StartRepeat, redisVars, callVars
<1>5. CASE AddScan
  <2> DEFINE k == ScanId(latest + 1, head)
  <2>1. job' = [job EXCEPT ![k] = IF @ = "none" THEN "waiting" ELSE @]
    BY <1>5 DEF AddScan
  <2> HIDE DEF k
  <2>2. /\ job' \in [ScanIds -> JobStates]
        /\ \A j \in ScanIds : job'[j] = "failed" <=> job[j] = "failed"
    BY <1>1, <2>1
  <2> QED
    BY <1>1, <1>5, <2>2 DEF AddScan, WorkerFree, callVars
<1>6. ASSUME NEW j \in ScanIds, StartScan(j)
      PROVE  TypeOK'
  <2>1. BlockFrom(j) \in Int /\ BlockTo(j) \in Int
    BY DEF BlockFrom, BlockTo, Lesser, ScanIds
  <2>2. FirstTo(BlockFrom(j), BlockTo(j)) \in Int
    BY <2>1 DEF FirstTo, Lesser
  <2>3. Slices(BlockFrom(j), BlockTo(j)) \in Int
    BY <2>1 DEF Slices
  <2> QED
    BY <1>1, <1>6, <2>1, <2>2, <2>3 DEF StartScan, callVars
<1>7. CASE processBlocksSlice
  <2>1. NextFrom \in Int
    BY <1>1 DEF NextFrom
  <2>2. NextTo \in Int
    <3>1. current \in ScanIds
      BY <1>1, <1>7 DEF processBlocksSlice
    <3>2. BlockTo(current) \in Int
      BY <3>1 DEF BlockTo, Lesser, ScanIds
    <3> QED
      BY <1>1, <2>1, <3>2 DEF NextTo, Lesser
  <2>3. SwapsIn(from, to) \subseteq Event
    BY DEF SwapsIn, OnChain
  <2>4. updates' \in Seq(Int)
    BY <1>1, <1>7 DEF processBlocksSlice
  <2> QED
    BY <1>1, <1>7, <2>1, <2>2, <2>3, <2>4 DEF processBlocksSlice, redisVars
<1>8. CASE SetLastBlock
  <2>1. pointer' \in Int /\ updates' \in Seq(Int)
    BY <1>1, <1>8 DEF SetLastBlock
  <2> QED
    BY <1>1, <1>8, <2>1 DEF SetLastBlock, workerVars
<1>9. CASE EndScan
  BY <1>1, <1>9 DEF EndScan, WorkerFree, callVars
<1>10. CASE RequestFails
  <2>1. CASE stage = "repeat"
    BY <1>1, <1>10, <2>1 DEF RequestFails, WorkerFree, callVars
  <2>2. CASE stage = "scan"
    <3>1. current \in ScanIds /\ job[current] = "active"
      BY <1>1, <2>2 DEF IInv, WorkerIsReached
    <3>2. made[current] + 1 \in 0..Attempts
      BY <1>1, <3>1
    <3>3. MoreAttempts(current) <=> made[current] + 1 # Attempts
      BY <1>1, <3>1, <3>2 DEF MoreAttempts
    <3>4. /\ made' = [made EXCEPT ![current] = @ + 1]
          /\ job' = [job EXCEPT ![current] =
                       IF MoreAttempts(current) THEN "delayed" ELSE "failed"]
      BY <1>10, <2>2 DEF RequestFails
    <3>5. job' \in [ScanIds -> JobStates] /\ made' \in [ScanIds -> 0..Attempts]
      BY <1>1, <3>2, <3>4
    <3>6. \A j \in ScanIds : job'[j] = "failed" <=> made'[j] = Attempts
      BY <1>1, <3>1, <3>2, <3>3, <3>4
    <3>7. /\ UNCHANGED <<head, pointer, queued, adding, heard, updates, cut, crashes>>
          /\ WorkerFree /\ failures' \in 0..MaxFailures
      BY <1>1, <1>10 DEF RequestFails, callVars
    <3> QED
      BY <1>1, <3>5, <3>6, <3>7 DEF WorkerFree
  <2> QED
    BY <1>10, <2>1, <2>2 DEF RequestFails
<1>11. ASSUME NEW j \in ScanIds, Promote(j)
       PROVE  TypeOK'
  BY <1>1, <1>11 DEF Promote, callVars, workerVars
<1>12. CASE CrashRestart
  BY <1>1, <1>12 DEF CrashRestart, WorkerFree
<1>13. CASE UNCHANGED vars
  BY <1>1, <1>13 DEF vars, redisVars, callVars, workerVars
<1> QED
  BY <1>2, <1>3, <1>4, <1>5, <1>6, <1>7, <1>8, <1>9, <1>10, <1>11, <1>12, <1>13
     DEF Next, ScanStep

-----------------------------------------------------------------------------
(* Every step keeps what carries block numbers towards the pointer behind  *)
(* the swaps handed over.                                                  *)
LEMMA InvStep ==
  ASSUME IInv, [Next]_vars
  PROVE  IInv'
<1>1. TypeOK /\ TypeOK'
  BY TypeStep DEF IInv
<1>2. \A b \in Int : Reached(b) => Reached(b)'
  BY <1>1, ReachedStays
<1>3. \A j \in ScanIds : j[1] \in Int /\ j[2] \in Int
  BY ScanAssumption DEF ScanIds, Blocks
<1>4. head \in Int /\ head' \in Int /\ head' >= head
  BY <1>1, HandledStays, ScanAssumption DEF TypeOK, Blocks
<1>5. pointer \in Int /\ latest \in Int /\ from \in Int /\ to \in Int
  BY <1>1 DEF TypeOK
<1>6. \A i \in 1..Len(updates) : updates[i] \in Int
  BY <1>1 DEF TypeOK
<1> DEFINE Parts == NothingSkipped /\ UpdatesAreReached /\ JobsAreReached /\ WorkerIsReached
<1>7. Parts
  BY DEF IInv
<1>8. SUFFICES Parts'
  BY <1>1 DEF IInv
<1>10. CASE UNCHANGED <<pointer, updates, job, stage, latest, current, from, to>>
  <2>1. NothingSkipped'
    BY <1>2, <1>5, <1>7, <1>10 DEF NothingSkipped
  <2>2. UpdatesAreReached'
    BY <1>2, <1>6, <1>7, <1>10 DEF UpdatesAreReached
  <2>3. JobsAreReached'
    BY <1>2, <1>3, <1>4, <1>7, <1>10 DEF JobsAreReached
  <2>4. WorkerIsReached'
    BY <1>2, <1>5, <1>7, <1>10 DEF WorkerIsReached, BlockTo
  <2> QED
    BY <2>1, <2>2, <2>3, <2>4
<1>11. CASE StartRepeat
  <2>1. UNCHANGED <<pointer, updates, job>> /\ stage' = "repeat" /\ latest' = pointer
    BY <1>11 DEF StartRepeat, redisVars, callVars
  <2>2. NothingSkipped' /\ Reached(latest)'
    BY <1>2, <1>5, <1>7, <2>1 DEF NothingSkipped, Reached, Handled, IsQueued, OnChain
  <2>3. UpdatesAreReached'
    BY <1>2, <1>6, <1>7, <2>1 DEF UpdatesAreReached
  <2>4. JobsAreReached'
    BY <1>2, <1>3, <1>4, <1>7, <2>1 DEF JobsAreReached
  <2> QED
    BY <2>1, <2>2, <2>3, <2>4 DEF WorkerIsReached
<1>12. CASE AddScan
  <2> DEFINE k == ScanId(latest + 1, head)
  <2>1. /\ job' = [job EXCEPT ![k] = IF @ = "none" THEN "waiting" ELSE @]
        /\ UNCHANGED <<pointer, updates>> /\ stage = "repeat" /\ stage' = "free"
    BY <1>12 DEF AddScan, WorkerFree, callVars
  <2>2. k[1] - 1 = latest /\ k[2] = head
    BY <1>5 DEF ScanId
  <2> HIDE DEF k
  <2>3. NothingSkipped'
    BY <1>2, <1>5, <1>7, <2>1 DEF NothingSkipped
  <2>4. UpdatesAreReached'
    BY <1>2, <1>6, <1>7, <2>1 DEF UpdatesAreReached
  <2>5. \A j \in ScanIds : job'[j] # "none" => job[j] # "none" \/ j = k
    BY <1>1, <2>1 DEF TypeOK
  <2>6. Reached(k[1] - 1) /\ k[2] <= head
    BY <1>4, <1>7, <2>1, <2>2 DEF WorkerIsReached
  <2>7. \A j \in ScanIds : job'[j] # "none" => Reached(j[1] - 1) /\ j[2] <= head
    BY <1>7, <2>5, <2>6 DEF JobsAreReached
  <2>8. JobsAreReached'
    BY <1>2, <1>3, <1>4, <2>7 DEF JobsAreReached
  <2> QED
    BY <2>1, <2>3, <2>4, <2>8 DEF WorkerIsReached
<1>13. ASSUME NEW j \in ScanIds, StartScan(j)
       PROVE  Parts'
  <2>1. /\ job[j] = "waiting" /\ job' = [job EXCEPT ![j] = "active"]
        /\ stage' = "scan" /\ current' = j /\ from' = BlockFrom(j)
        /\ to' = FirstTo(BlockFrom(j), BlockTo(j))
        /\ UNCHANGED <<pointer, updates>>
    BY <1>13 DEF StartScan, callVars
  <2>2. NothingSkipped'
    BY <1>2, <1>5, <1>7, <2>1 DEF NothingSkipped
  <2>3. UpdatesAreReached'
    BY <1>2, <1>6, <1>7, <2>1 DEF UpdatesAreReached
  <2>4. JobsAreReached'
    <3>1. \A i \in ScanIds : job'[i] # "none" => job[i] # "none"
      BY <1>1, <2>1 DEF TypeOK
    <3> QED
      BY <1>2, <1>3, <1>4, <1>7, <3>1 DEF JobsAreReached
  <2>5. Reached(from - 1)'
    BY <1>2, <1>3, <1>7, <2>1 DEF JobsAreReached, BlockFrom, Reached, Handled, IsQueued, OnChain
  <2>6. to' <= BlockTo(j)
    <3>1. BlockFrom(j) \in Int /\ BlockTo(j) \in Int /\ BlockSlice \in Int
      BY <1>3, ScanAssumption DEF BlockFrom, BlockTo, Lesser
    <3> QED
      BY <2>1, <3>1 DEF FirstTo, Lesser
  <2>7. job'[j] = "active"
    BY <1>1, <2>1 DEF TypeOK
  <2>8. WorkerIsReached'
    BY <2>1, <2>5, <2>6, <2>7 DEF WorkerIsReached, BlockTo
  <2> QED
    BY <2>2, <2>3, <2>4, <2>8
<1>14. CASE processBlocksSlice
  <2>1. /\ stage = "scan" /\ UNCHANGED <<head, pointer, job, stage, latest, current, queued, cut>>
        /\ adding' = adding \cup SwapsIn(from, to)
        /\ updates' = IF to > pointer THEN Append(updates, to) ELSE updates
        /\ from' = NextFrom /\ to' = NextTo
    BY <1>14 DEF processBlocksSlice, redisVars
  <2>2. current \in ScanIds /\ job[current] = "active" /\ to <= BlockTo(current)
    BY <1>1, <1>7, <2>1 DEF TypeOK, WorkerIsReached
  <2>3. to <= head
    <3>1. current[2] <= head
      BY <1>7, <2>2 DEF JobsAreReached
    <3>2. BlockTo(current) <= current[2]
      BY <1>3, <2>2, ScanAssumption DEF BlockTo, Lesser
    <3>3. BlockTo(current) \in Int
      BY <1>3, <2>2, ScanAssumption DEF BlockTo, Lesser
    <3> QED
      BY <1>3, <1>4, <1>5, <2>2, <3>1, <3>2, <3>3
  <2>4. \A e \in OnChain : e.block <= to => Handled(e)'
    <3> SUFFICES ASSUME NEW e \in OnChain, e.block <= to PROVE Handled(e)'
      OBVIOUS
    <3>1. e \in Event /\ e.block \in Int
      BY ScanAssumption DEF OnChain
    <3>2. CASE e.block <= from - 1
      <4>1. Handled(e)
        BY <1>7, <2>1, <3>2 DEF WorkerIsReached, Reached
      <4> QED
        BY <1>1, <3>1, <4>1, HandledStays
    <3>3. CASE e.block >= from
      BY <1>5, <2>1, <3>1, <3>3 DEF SwapsIn, Handled
    <3> QED
      BY <1>5, <3>1, <3>2, <3>3
  <2>6. \A b \in Int : b = to => b <= head' /\ \A e \in OnChain' : e.block <= b => Handled(e)'
    BY <2>1, <2>3, <2>4 DEF OnChain
  <2>7. NothingSkipped'
    BY <1>2, <1>5, <1>7, <2>1 DEF NothingSkipped
  <2>8. JobsAreReached'
    BY <1>2, <1>3, <1>4, <1>7, <2>1 DEF JobsAreReached
  <2>9. UpdatesAreReached'
    <3>1. \A i \in 1..Len(updates') : (i \in 1..Len(updates) /\ updates'[i] = updates[i]) \/ updates'[i] = to
      BY <1>1, <1>5, <2>1 DEF TypeOK
    <3> QED
      BY <1>2, <1>5, <1>6, <1>7, <2>6, <3>1 DEF UpdatesAreReached, Reached
  <2>10. WorkerIsReached'
    <3>1. from' - 1 = to /\ to' <= BlockTo(current)
      BY <1>1, <1>5, <2>1, <2>2, SlicesFollow
    <3>2. Reached(from - 1)'
      BY <1>5, <2>6, <3>1 DEF Reached
    <3> QED
      BY <2>1, <2>2, <3>1, <3>2 DEF WorkerIsReached, BlockTo
  <2> QED
    BY <2>7, <2>8, <2>9, <2>10
<1>15. CASE SetLastBlock
  <2>1. /\ updates # <<>> /\ pointer' = Head(updates) /\ updates' = Tail(updates)
        /\ UNCHANGED <<job, stage, latest, current, from, to>>
    BY <1>15 DEF SetLastBlock, workerVars
  <2>2. Len(updates) \in Nat /\ Len(updates) >= 1 /\ Head(updates) = updates[1]
    BY <1>1, <2>1 DEF TypeOK
  <2>3. \A b \in Int : (\E i \in 1..Len(updates) : b = updates[i]) => Reached(b)'
    BY <1>2, <1>6, <1>7 DEF UpdatesAreReached
  <2>4. NothingSkipped'
    <3>1. pointer' = updates[1] /\ 1 \in 1..Len(updates)
      BY <2>1, <2>2
    <3> QED
      BY <1>6, <2>3, <3>1 DEF NothingSkipped, Reached
  <2>7. UpdatesAreReached'
    <3>1. \A i \in 1..Len(updates') : i + 1 \in 1..Len(updates) /\ updates'[i] = updates[i + 1]
      BY <1>1, <2>1, <2>2 DEF TypeOK
    <3> QED
      BY <1>6, <2>3, <3>1 DEF UpdatesAreReached, Reached
  <2>5. JobsAreReached'
    BY <1>2, <1>3, <1>4, <1>7, <2>1 DEF JobsAreReached
  <2>6. WorkerIsReached'
    BY <1>2, <1>5, <1>7, <2>1 DEF WorkerIsReached, BlockTo
  <2> QED
    BY <2>4, <2>5, <2>6, <2>7
<1>16. ASSUME /\ UNCHANGED pointer /\ stage' \in {stage, "free"}
              /\ UNCHANGED updates \/ updates' = <<>>
              /\ \A j \in ScanIds : job'[j] # "none" => job[j] # "none"
              /\ stage' # "free" => UNCHANGED <<latest, current, from, to>>
              /\ stage' = "scan" => job'[current] = job[current]
       PROVE  Parts'
  <2>1. NothingSkipped'
    BY <1>2, <1>5, <1>7, <1>16 DEF NothingSkipped
  <2>2. UpdatesAreReached'
    BY <1>2, <1>6, <1>7, <1>16 DEF UpdatesAreReached
  <2>3. JobsAreReached'
    BY <1>2, <1>3, <1>4, <1>7, <1>16 DEF JobsAreReached
  <2>4. WorkerIsReached'
    BY <1>2, <1>5, <1>7, <1>16 DEF WorkerIsReached, BlockTo
  <2> QED
    BY <2>1, <2>2, <2>3, <2>4
<1>17. CASE EndScan \/ RequestFails
  <2>1. /\ UNCHANGED <<pointer, updates>> /\ stage' = "free"
        /\ \/ UNCHANGED job
           \/ job[current] = "active" /\ \E s \in JobStates : job' = [job EXCEPT ![current] = s]
    <3>1. stage = "scan" => job[current] = "active"
      BY <1>7 DEF WorkerIsReached
    <3> QED
      BY <1>17, <3>1 DEF EndScan, RequestFails, WorkerFree, callVars, JobStates
  <2>2. \A j \in ScanIds : job'[j] # "none" => job[j] # "none"
    BY <1>1, <2>1 DEF TypeOK
  <2> QED
    BY <1>16, <2>1, <2>2
<1>18. ASSUME NEW j \in ScanIds, Promote(j)
       PROVE  Parts'
  <2>1. /\ UNCHANGED <<pointer, updates, stage, latest, current, from, to>>
        /\ job[j] = "delayed" /\ job' = [job EXCEPT ![j] = "waiting"]
    BY <1>18 DEF Promote, callVars, workerVars
  <2>2. \A i \in ScanIds : job'[i] # "none" => job[i] # "none"
    BY <1>1, <2>1 DEF TypeOK
  <2>3. stage = "scan" => job'[current] = job[current]
    BY <1>1, <1>7, <2>1 DEF TypeOK, WorkerIsReached
  <2> QED
    BY <1>16, <2>1, <2>2, <2>3
<1>19. CASE CrashRestart
  <2>1. /\ pointer' = pointer /\ updates' = <<>> /\ stage' = "free"
        /\ job' = [j \in ScanIds |-> IF job[j] = "active" THEN "waiting" ELSE job[j]]
    BY <1>19 DEF CrashRestart, WorkerFree
  <2>2. \A j \in ScanIds : job'[j] # "none" => job[j] # "none"
    BY <2>1
  <2> QED
    BY <1>16, <2>1, <2>2
<1>20. CASE \/ MineBlock \/ UNCHANGED vars
            \/ \E e \in Event : handleSwapToBanEvents(e) \/ addSwapToBan(e)
  <2>1. UNCHANGED <<pointer, updates, job, stage, latest, current, from, to>>
    BY <1>20 DEF MineBlock, handleSwapToBanEvents, addSwapToBan, vars, redisVars, callVars, workerVars
  <2> QED
    BY <1>10, <2>1
<1> QED
  BY <1>11, <1>12, <1>13, <1>14, <1>15, <1>17, <1>18, <1>19, <1>20 DEF Next, ScanStep

-----------------------------------------------------------------------------
(* IInv holds in every state of every behavior: the invariant that carries *)
(* NothingSkipped through calls, jobs and the worker.                      *)
THEOREM Inductive == Spec => []IInv
<1>1. IInv /\ [Next]_vars => IInv'
  BY InvStep
<1> QED
  BY InitInv, <1>1, PTL DEF Spec

(* The types of the scan, and that a job fails with its last attempt only. *)
THEOREM TypeCorrect == Spec => []TypeOK
<1>1. IInv => TypeOK
  BY DEF IInv
<1> QED
  BY <1>1, Inductive, PTL

(* Blockchain.processBlocksSlice moves the pointer without waiting for the *)
(* swaps it handed over; still no block up to the pointer has a swap that  *)
(* was never handed over.                                                  *)
THEOREM SkipsNothing == Spec => []NothingSkipped
<1>1. IInv => NothingSkipped
  BY DEF IInv
<1> QED
  BY <1>1, Inductive, PTL

-----------------------------------------------------------------------------
(* The slices of a job.                                                    *)

(* As many slices as Slices says reach past the last block, be the range   *)
(* empty, whole or broken.                                                 *)
LEMMA SlicesReach ==
  ASSUME NEW first \in Int, NEW last \in Int
  PROVE  /\ Slices(first, last) \in Int
         /\ first + Slices(first, last) * BlockSlice > last
<1> DEFINE q == (last - first) \div BlockSlice
<1>1. BlockSlice \in Int /\ BlockSlice > 0
  BY ScanAssumption
<1>2. q \in Int /\ q * BlockSlice + BlockSlice > last - first
  BY <1>1
<1> HIDE DEF q
<1>3. (q + 1) * BlockSlice = q * BlockSlice + BlockSlice
  BY <1>1, <1>2
<1>4. q * BlockSlice \in Int
  BY <1>1, <1>2
<1>5. first + (q + 1) * BlockSlice > last
  BY <1>1, <1>2, <1>3, <1>4
<1> QED BY <1>2, <1>5 DEF Slices, q

(* One slice less to go still is enough from the next slice on.            *)
LEMMA SliceAdvances ==
  ASSUME NEW n \in Int, n > 0, NEW f \in Int, NEW last \in Int,
         f + n * BlockSlice > last
  PROVE  FirstTo(f, last) + 1 + (n - 1) * BlockSlice > last
<1>1. BlockSlice \in Int /\ BlockSlice > 0
  BY ScanAssumption
<1> DEFINE p == n * BlockSlice
           q == (n - 1) * BlockSlice
<1>2. p \in Int /\ q \in Int /\ q = p - BlockSlice /\ q >= 0
  <2>1. p \in Int /\ q \in Int /\ q = p - BlockSlice
    BY <1>1
  <2>2. q >= 0
    BY <1>1
  <2> QED BY <2>1, <2>2
<1>3. f + p > last
  OBVIOUS
<1> HIDE DEF p, q
<1>4. FirstTo(f, last) + 1 + q > last
  <2>1. CASE f + BlockSlice - 1 < last
    BY <1>1, <1>2, <1>3, <2>1 DEF FirstTo, Lesser
  <2>2. CASE ~(f + BlockSlice - 1 < last)
    BY <1>1, <1>2, <2>2 DEF FirstTo, Lesser
  <2> QED BY <2>1, <2>2
<1> QED BY <1>4 DEF q

(* Every step of a scan keeps enough slices to go.                         *)
LEMMA SlicesSufficeStep ==
  ASSUME IInv, SlicesSuffice, [Next]_vars PROVE SlicesSuffice'
<1>1. TypeOK /\ WorkerIsReached
  BY DEF IInv
<1>2. \A j \in ScanIds : BlockFrom(j) \in Int /\ BlockTo(j) \in Int
  BY ScanAssumption DEF ScanIds, Blocks, BlockFrom, BlockTo, Lesser
<1>3. CASE UNCHANGED <<stage, current, from, to, left>>
  BY <1>3 DEF SlicesSuffice, BlockTo
<1>4. CASE stage' # "scan"
  BY <1>4 DEF SlicesSuffice
<1>5. ASSUME NEW j \in ScanIds, StartScan(j) PROVE SlicesSuffice'
  <2>1. /\ current' = j /\ from' = BlockFrom(j)
        /\ to' = FirstTo(BlockFrom(j), BlockTo(j))
        /\ left' = Slices(BlockFrom(j), BlockTo(j))
    BY <1>5 DEF StartScan
  <2> QED BY <1>2, <2>1, SlicesReach DEF SlicesSuffice
<1>6. CASE processBlocksSlice
  <2> DEFINE last == BlockTo(current)
  <2>1. /\ stage = "scan" /\ left > 0 /\ current' = current /\ stage' = stage
        /\ from' = NextFrom /\ to' = NextTo /\ left' = left - 1
    BY <1>6 DEF processBlocksSlice
  <2>2. /\ last \in Int /\ from \in Int /\ to \in Int /\ left \in Int
        /\ BlockSlice \in Int
    BY <1>1, <1>2, <2>1, ScanAssumption DEF TypeOK
  <2>3. to = FirstTo(from, last) /\ from + left * BlockSlice > last
    BY <2>1 DEF SlicesSuffice
  <2> HIDE DEF last
  <2>4. from' = to + 1
    BY <2>1, <2>2 DEF NextFrom
  <2>5. to' = FirstTo(to + 1, last)
    <3>1. NextTo = to + Lesser(BlockSlice, last - (to + 1) + 1)
      BY <2>1, <2>4 DEF NextTo, last
    <3> QED BY <2>1, <2>2, <3>1 DEF FirstTo, Lesser
  <2>6. to + 1 + (left - 1) * BlockSlice > last
    BY <2>1, <2>2, <2>3, SliceAdvances
  <2>7. last = BlockTo(current')
    BY <2>1 DEF last
  <2> QED BY <2>1, <2>4, <2>5, <2>6, <2>7 DEF SlicesSuffice
<1>7. CASE StartRepeat \/ AddScan \/ EndScan \/ RequestFails \/ CrashRestart
  BY <1>4, <1>7 DEF StartRepeat, AddScan, EndScan, RequestFails, CrashRestart, WorkerFree
<1>8. CASE \/ MineBlock \/ SetLastBlock \/ UNCHANGED vars
           \/ \E e \in Event : handleSwapToBanEvents(e) \/ addSwapToBan(e)
           \/ \E j \in ScanIds : Promote(j)
  BY <1>3, <1>8 DEF MineBlock, SetLastBlock, handleSwapToBanEvents, addSwapToBan,
                    Promote, vars, workerVars
<1> QED BY <1>5, <1>6, <1>7, <1>8 DEF Next, ScanStep

(* A job is completed by EndScan only, with no slice to go.                *)
LEMMA CompletedStep ==
  ASSUME IInv, SlicesSuffice, [Next]_vars, NEW j \in ScanIds,
         job[j] = "active", job'[j] = "completed"
  PROVE  from > BlockTo(j)
<1>1. TypeOK /\ WorkerIsReached
  BY DEF IInv
<1>2. CASE EndScan
  <2>1. j = current /\ stage = "scan" /\ left <= 0
    BY <1>1, <1>2 DEF EndScan, TypeOK
  <2>2. /\ from \in Int /\ left \in Int
        /\ BlockSlice \in Int /\ BlockSlice > 0
    BY <1>1, ScanAssumption DEF TypeOK
  <2>3. left * BlockSlice \in Int /\ left * BlockSlice <= 0
    BY <2>1, <2>2
  <2>4. from + left * BlockSlice > BlockTo(j)
    BY <2>1 DEF SlicesSuffice
  <2>5. BlockTo(j) \in Int
    BY ScanAssumption DEF ScanIds, Blocks, BlockTo, Lesser
  <2> QED BY <2>2, <2>3, <2>4, <2>5
<1>3. CASE ~EndScan
  <2>1. job'[j] # "completed"
    <3>1. CASE UNCHANGED job
      BY <3>1
    <3>2. CASE AddScan
      BY <1>1, <3>2 DEF AddScan, TypeOK
    <3>3. ASSUME NEW i \in ScanIds, StartScan(i) \/ Promote(i) PROVE job'[j] # "completed"
      BY <1>1, <3>3 DEF StartScan, Promote, TypeOK
    <3>4. CASE RequestFails
      BY <1>1, <3>4 DEF RequestFails, TypeOK
    <3>5. CASE CrashRestart
      BY <3>5 DEF CrashRestart
    <3> QED
      BY <1>3, <3>1, <3>2, <3>3, <3>4, <3>5
      DEF Next, ScanStep, MineBlock, handleSwapToBanEvents, addSwapToBan, StartRepeat,
          processBlocksSlice, SetLastBlock, vars, redisVars
  <2> QED BY <2>1
<1> QED BY <1>2, <1>3

(* Blockchain.processBlocks ends with the last block of its range: no      *)
(* rounding of the number of slices leaves a block out.                    *)
THEOREM CoversRange == Spec => RangeIsCovered
<1>1. Init => SlicesSuffice
  BY DEF Init, SlicesSuffice
<1>2. IInv /\ SlicesSuffice /\ [Next]_vars => SlicesSuffice'
  BY SlicesSufficeStep
<1>3. IInv /\ SlicesSuffice /\ [Next]_vars =>
        [\A j \in ScanIds :
           job[j] = "active" /\ job'[j] = "completed" => from > BlockTo(j)]_vars
  BY CompletedStep
<1> QED BY <1>1, <1>2, <1>3, Inductive, PTL DEF Spec, RangeIsCovered
=============================================================================
