---------------------------- MODULE ClaimsProofs ----------------------------
(***************************************************************************)
(* A BAN wallet has one owner, for any number of wallets, users and calls, *)
(* as long as claims of one wallet by different users do not overlap and a *)
(* pending claim does not time out under somebody who relies on what it    *)
(* read.                                                                   *)
(***************************************************************************)
EXTENDS Claims, TLAPS

(* The two races the code does not close.                                  *)
NoRaces == ~Overlap /\ ~TtlMayElapse

(* The invariant holds before the first claim.                             *)
LEMMA InitEstablishes == Init => IInv
  BY ClaimsAssumption
  DEF Init, IInv, TypeOK, OneClaimant, CallsAgree, UnclaimedIsPending,
      NobodyElse, KeyIsPending, Stages, DepositStages

(* A call that ends without writing disturbs nothing: what the invariant   *)
(* says of calls it says of those that are under way.                      *)
LEMMA EndOfCall ==
  ASSUME IInv, NEW c \in Caller, Answer(c), UNCHANGED <<pending, claims, depositVars>>
  PROVE  IInv'
<1>1. TypeOK'
  BY DEF Answer, IInv, TypeOK, depositVars, Stages
<1>2. \A d \in Caller : pc'[d] # "idle" => pc'[d] = pc[d] /\ who'[d] = who[d]
  BY DEF Answer, IInv, TypeOK
<1>3. OneClaimant' /\ KeyIsPending'
  BY DEF IInv, OneClaimant, KeyIsPending, depositVars
<1>4. CallsAgree'
  BY <1>2 DEF IInv, CallsAgree
<1>5. UnclaimedIsPending' /\ NobodyElse'
  BY <1>2 DEF IInv, UnclaimedIsPending, NobodyElse
<1> QED
  BY <1>1, <1>3, <1>4, <1>5 DEF IInv

(* A call that starts agrees with those under way on its wallet, and finds *)
(* it unclaimed only if it has no claim at all.                            *)
LEMMA Start ==
  ASSUME NoRaces, IInv, NEW c \in Caller, NEW claim \in Claim, StartClaim(c, claim)
  PROVE  IInv'
<1>1. TypeOK'
  BY DEF StartClaim, IInv, TypeOK, depositVars, Stages
<1>2. /\ pc'[c] \in {"claimed", "unclaimed"}
      /\ pc'[c] = "unclaimed" => \A q \in claims : q[1] # claim[1]
      /\ who'[c] = claim
  BY DEF StartClaim, IInv, TypeOK, isClaimed
<1>3. \A d \in Caller : d # c => pc'[d] = pc[d] /\ who'[d] = who[d]
  BY DEF StartClaim, IInv, TypeOK
<1>4. OneClaimant' /\ KeyIsPending'
  BY DEF StartClaim, IInv, OneClaimant, KeyIsPending, depositVars
<1>5. CallsAgree'
  BY <1>2, <1>3 DEF StartClaim, MayClaim, NoRaces, IInv, CallsAgree
<1>6. UnclaimedIsPending' /\ NobodyElse'
  <2>1. UNCHANGED <<pending, claims>>
    BY DEF StartClaim
  <2> QED
    BY <1>2, <1>3, <2>1 DEF IInv, UnclaimedIsPending, NobodyElse
<1> QED
  BY <1>1, <1>4, <1>5, <1>6 DEF IInv

(* A call that finds no pending claim of an unclaimed wallet knows that    *)
(* the wallet has no claimant: a claim confirmed meanwhile would still be  *)
(* pending.                                                                *)
LEMMA Check ==
  ASSUME IInv, NEW c \in Caller, CheckPending(c)
  PROVE  IInv'
<1>1. CASE Answer(c)
  BY <1>1, EndOfCall DEF CheckPending
<1>2. CASE /\ ~FindsPending(c)
           /\ pc' = [pc EXCEPT ![c] = IF @ = "unclaimed" THEN "unpending" ELSE "storing"]
           /\ UNCHANGED who
  <2> USE <1>2
  <2>1. UNCHANGED <<pending, claims, stage, sender, key>>
    BY DEF CheckPending, depositVars
  <2>2. pc'[c] \in {"unpending", "storing"}
    BY DEF IInv, TypeOK
  <2>3. \A d \in Caller : d # c => pc'[d] = pc[d]
    BY DEF IInv, TypeOK
  <2>4. TypeOK'
    BY <2>1 DEF CheckPending, IInv, TypeOK, Stages
  <2>5. OneClaimant' /\ KeyIsPending'
    BY <2>1 DEF IInv, OneClaimant, KeyIsPending
  <2>6. CallsAgree'
    BY <2>3 DEF CheckPending, IInv, CallsAgree
  <2>7. UnclaimedIsPending'
    BY <2>1, <2>2, <2>3 DEF IInv, UnclaimedIsPending
  <2>8. \A q \in pending \cup claims : q[1] = who[c][1] => q = who[c]
    <3>1. CASE pc[c] = "unclaimed"
      BY <3>1 DEF IInv, UnclaimedIsPending, FindsPending, hasPendingClaim
    <3>2. CASE pc[c] = "unpending"
      BY <3>2 DEF IInv, NobodyElse
    <3> QED
      BY <3>1, <3>2 DEF CheckPending
  <2>9. NobodyElse'
    BY <2>1, <2>3, <2>8 DEF IInv, NobodyElse
  <2> QED
    BY <2>4, <2>5, <2>6, <2>7, <2>9 DEF IInv
<1> QED
  BY <1>1, <1>2 DEF CheckPending

(* The pending claim that is stored joins none but its user's own.         *)
LEMMA Store ==
  ASSUME IInv, NEW c \in Caller, storePendingClaim(c)
  PROVE  IInv'
<1>1. who[c] \in Claim /\ pending' = pending \cup {who[c]} /\ claims' = claims
  BY DEF storePendingClaim, PendingKey, IInv, TypeOK
<1>2. UNCHANGED <<stage, sender, key>>
  BY DEF storePendingClaim, depositVars
<1>3. \A d \in Caller : pc'[d] # "idle" => pc'[d] = pc[d] /\ who'[d] = who[d]
  BY DEF storePendingClaim, Answer, IInv, TypeOK
<1>4. TypeOK'
  BY <1>1, <1>2 DEF storePendingClaim, Answer, IInv, TypeOK, Stages
<1>5. \A q \in pending \cup claims : q[1] = who[c][1] => q = who[c]
  BY DEF storePendingClaim, IInv, NobodyElse
<1>6. OneClaimant'
  BY <1>1, <1>5 DEF IInv, OneClaimant
<1>7. CallsAgree'
  BY <1>3 DEF IInv, CallsAgree
<1>8. UnclaimedIsPending' /\ KeyIsPending'
  BY <1>1, <1>2, <1>3 DEF IInv, UnclaimedIsPending, KeyIsPending
<1>9. NobodyElse'
  <2>1. \A d \in Caller : pc'[d] # "idle" /\ who[d][1] = who[c][1] => who[d] = who[c]
    BY <1>3 DEF storePendingClaim, IInv, CallsAgree
  <2> QED
    BY <1>1, <1>3, <2>1 DEF IInv, NobodyElse
<1> QED
  BY <1>4, <1>6, <1>7, <1>8, <1>9 DEF IInv

(* The claim that is confirmed is a pending one, whose user is the only    *)
(* claimant of the wallet.                                                 *)
LEMMA Confirm ==
  ASSUME IInv, confirmClaim
  PROVE  IInv'
<1>1. key \in pending /\ claims' = claims \cup {key} /\ pending' = pending
  BY DEF confirmClaim, IInv, KeyIsPending
<1>2. pc' = pc /\ who' = who /\ stage' = "confirmed"
  BY DEF confirmClaim, callVars
<1>3. TypeOK'
  BY <1>1, <1>2 DEF confirmClaim, IInv, TypeOK, DepositStages
<1>4. OneClaimant' /\ CallsAgree' /\ UnclaimedIsPending' /\ NobodyElse' /\ KeyIsPending'
  BY <1>1, <1>2
  DEF IInv, OneClaimant, CallsAgree, UnclaimedIsPending, NobodyElse, KeyIsPending
<1> QED
  BY <1>3, <1>4 DEF IInv

(* The steps of a deposit that write nothing.                              *)
LEMMA OtherDepositSteps ==
  ASSUME IInv,
         FindKey \/ LeaveDeposit \/ \E b \in BanWallet : processUserDeposit(b)
  PROVE  IInv'
<1>1. UNCHANGED <<pending, claims, pc, who>>
  BY DEF FindKey, LeaveDeposit, processUserDeposit, callVars
<1>2. stage' \in DepositStages /\ sender' \in BanWallet \cup {NoWallet}
  BY DEF FindKey, LeaveDeposit, processUserDeposit, EndDeposit, IInv, TypeOK, DepositStages
<1>3. key' \in Claim \cup {NoClaim} /\ (stage' = "found" => key' \in pending)
  BY DEF FindKey, LeaveDeposit, processUserDeposit, EndDeposit, IInv, TypeOK
<1>4. TypeOK'
  BY <1>1, <1>2, <1>3 DEF IInv, TypeOK
<1>5. OneClaimant' /\ CallsAgree' /\ UnclaimedIsPending' /\ NobodyElse' /\ KeyIsPending'
  BY <1>1, <1>3
  DEF IInv, OneClaimant, CallsAgree, UnclaimedIsPending, NobodyElse, KeyIsPending
<1> QED
  BY <1>4, <1>5 DEF IInv

(* A pending claim times out only where nobody relies on it.               *)
LEMMA Timeout ==
  ASSUME NoRaces, IInv, NEW p \in Claim, ExpirePending(p)
  PROVE  IInv'
<1>1. pending' = pending \ {p} /\ UNCHANGED <<claims, pc, who, stage, sender, key>>
  BY DEF ExpirePending, callVars, depositVars
<1>2. ~Relied(p[1])
  BY DEF ExpirePending, NoRaces
<1>3. TypeOK'
  BY <1>1 DEF IInv, TypeOK
<1>4. OneClaimant' /\ CallsAgree' /\ NobodyElse'
  BY <1>1 DEF IInv, OneClaimant, CallsAgree, NobodyElse
<1>5. UnclaimedIsPending'
  BY <1>1, <1>2 DEF IInv, UnclaimedIsPending, Relied
<1>6. KeyIsPending'
  BY <1>1, <1>2 DEF IInv, KeyIsPending, Relied
<1> QED
  BY <1>3, <1>4, <1>5, <1>6 DEF IInv

(* After a crash no call is under way.                                     *)
LEMMA Restart ==
  ASSUME IInv, Crash
  PROVE  IInv'
<1>1. \A c \in Caller : pc'[c] = "idle"
  BY DEF Crash
<1>2. TypeOK'
  BY DEF Crash, EndDeposit, IInv, TypeOK, Stages, DepositStages
<1>3. OneClaimant' /\ KeyIsPending'
  BY DEF Crash, EndDeposit, IInv, OneClaimant, KeyIsPending
<1>4. CallsAgree' /\ UnclaimedIsPending' /\ NobodyElse'
  BY <1>1 DEF CallsAgree, UnclaimedIsPending, NobodyElse
<1> QED
  BY <1>2, <1>3, <1>4 DEF IInv

(* Every step preserves the invariant.                                     *)
LEMMA StepPreserves ==
  ASSUME NoRaces, IInv, [Next]_vars
  PROVE  IInv'
<1>1. CASE \E c \in Caller : ClaimStep(c)
  <2>1. PICK c \in Caller : ClaimStep(c)
    BY <1>1
  <2>2. CASE \E claim \in Claim : StartClaim(c, claim)
    BY <2>2, Start
  <2>3. CASE AnswerClaimed(c) \/ ClaimFails(c)
    BY <2>3, EndOfCall DEF AnswerClaimed, ClaimFails
  <2>4. CASE CheckPending(c)
    BY <2>4, Check
  <2>5. CASE storePendingClaim(c)
    BY <2>5, Store
  <2> QED
    BY <2>1, <2>2, <2>3, <2>4, <2>5 DEF ClaimStep
<1>2. CASE DepositStep
  BY <1>2, Confirm, OtherDepositSteps DEF DepositStep
<1>3. CASE \E c \in Claim : ExpirePending(c)
  BY <1>3, Timeout
<1>4. CASE Crash
  BY <1>4, Restart
<1>5. CASE UNCHANGED vars
  BY <1>5
  DEF vars, callVars, depositVars, IInv, TypeOK, OneClaimant, CallsAgree,
      UnclaimedIsPending, NobodyElse, KeyIsPending
<1> QED
  BY <1>1, <1>2, <1>3, <1>4, <1>5 DEF Next

(* Every variable keeps its type, with or without those races.             *)
THEOREM TypeCorrect == Spec => []TypeOK
<1>1. Init => TypeOK
  BY ClaimsAssumption DEF Init, TypeOK, Stages, DepositStages
<1>2. TypeOK /\ [Next]_vars => TypeOK'
  <2> SUFFICES ASSUME TypeOK, [Next]_vars PROVE TypeOK'
    OBVIOUS
  <2> USE DEF TypeOK, Stages, DepositStages, callVars, depositVars
  <2>1. ASSUME NEW c \in Caller, ClaimStep(c) PROVE TypeOK'
    <3>1. CASE \E claim \in Claim : StartClaim(c, claim)
      BY <3>1 DEF StartClaim
    <3>2. CASE AnswerClaimed(c) \/ ClaimFails(c)
      BY <3>2 DEF AnswerClaimed, ClaimFails, Answer
    <3>3. CASE CheckPending(c)
      BY <3>3 DEF CheckPending, Answer
    <3>4. CASE storePendingClaim(c)
      BY <3>4 DEF storePendingClaim, PendingKey, Answer
    <3> QED
      BY <2>1, <3>1, <3>2, <3>3, <3>4 DEF ClaimStep
  <2>2. CASE DepositStep
    <3>1. CASE \E b \in BanWallet : processUserDeposit(b)
      BY <3>1 DEF processUserDeposit
    <3>2. CASE FindKey \/ confirmClaim \/ LeaveDeposit
      BY <3>2 DEF FindKey, confirmClaim, LeaveDeposit, EndDeposit
    <3> QED
      BY <2>2, <3>1, <3>2 DEF DepositStep
  <2>3. CASE \E c \in Claim : ExpirePending(c)
    BY <2>3 DEF ExpirePending
  <2>4. CASE Crash
    BY <2>4 DEF Crash, EndDeposit
  <2>5. CASE UNCHANGED vars
    BY <2>5 DEF vars
  <2> QED
    BY <2>1, <2>2, <2>3, <2>4, <2>5 DEF Next
<1> QED
  BY <1>1, <1>2, PTL DEF Spec

(* Without those races at most one user has or is about to get a wallet,   *)
(* and every call relies on something that is still true.                  *)
THEOREM Inductive == NoRaces /\ Spec => []IInv
<1>1. Init => IInv
  BY InitEstablishes
<1>2. NoRaces /\ IInv /\ [Next]_vars => IInv'
  BY StepPreserves
<1>3. SUFFICES ASSUME NoRaces PROVE Spec => []IInv
  OBVIOUS
<1>4. IInv /\ [Next]_vars => IInv'
  BY <1>2, <1>3
<1> QED
  BY <1>1, <1>4, PTL DEF Spec

(* A BAN wallet is never owned by two users.                               *)
THEOREM OneOwnerOnly == NoRaces /\ Spec => []OneOwner
<1>1. IInv => OneOwner
  BY DEF IInv, OneClaimant, OneOwner
<1> QED
  BY <1>1, Inductive, PTL

(* A deposit never confirms a claim of somebody else's wallet.             *)
THEOREM OwnersPending == NoRaces /\ Spec => []PendingIsOwners
<1>1. IInv => PendingIsOwners
  BY DEF IInv, OneClaimant, PendingIsOwners
<1> QED
  BY <1>1, Inductive, PTL
=============================================================================
