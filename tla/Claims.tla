------------------------------- MODULE Claims -------------------------------
(***************************************************************************)
(* Claims of BAN wallets: POST /claim leaves a pending claim in Redis,     *)
(* which times out after five minutes, and a deposit from the BAN wallet   *)
(* confirms it.  From then on the wallet belongs to the blockchain wallet  *)
(* that claimed it: withdrawals and swaps ask for that claim.              *)
(*                                                                         *)
(* As in UsersDepositsStorage a step takes the reply to a command and      *)
(* sends the next one, which takes effect as it is sent.  Claims with a    *)
(* wrong signature or of a blacklisted wallet are turned away before they  *)
(* reach Redis and are left out.                                           *)
(***************************************************************************)
EXTENDS FiniteSets

CONSTANTS
  BanWallet,         \* BAN wallets
  BlockchainWallet,  \* the users, by their blockchain wallets
  Caller,            \* calls of claim that may be in flight at once
  NoClaim,           \* what an idle caller and a worker without key carry
  NoWallet,          \* the worker processes no deposit
  Overlap,           \* may claims of a wallet by different users overlap?
  TtlMayElapse       \* may a pending claim time out under those who read it?

Claim == BanWallet \X BlockchainWallet

ASSUME ClaimsAssumption ==
  /\ NoClaim \notin Claim
  /\ NoWallet \notin BanWallet
  /\ Overlap \in BOOLEAN /\ TtlMayElapse \in BOOLEAN

VARIABLES
  pending,  \* claims:pending:${ban}:${blockchain}
  claims,   \* claims:${ban}:${blockchain}
  pc,       \* where each call of Service.claim stands
  who,      \* the claim it makes
  stage,    \* where the worker stands in the deposit it processes
  sender,   \* the wallet that deposit comes from
  key       \* the pending claim confirmClaim found

callVars == <<pc, who>>
depositVars == <<stage, sender, key>>
vars == <<pending, claims, callVars, depositVars>>

Stages == {"idle", "claimed", "unclaimed", "unpending", "storing"}
DepositStages == {"idle", "pending", "found", "confirmed"}

-----------------------------------------------------------------------------
(* Queries by key pattern.                                                 *)
hasPendingClaim(b) == \E c \in pending : c[1] = b

(* Mutant: confirmed claims are not found.                                 *)
isClaimed_Never(b) == FALSE

isClaimed(b) == \E c \in claims : c[1] = b

(* Mutant: the pattern names the claimant too and misses the others.       *)
FindsPending_Own(c) == who[c] \in pending

(* What a call of claim learns about pending claims of its wallet.         *)
FindsPending(c) == hasPendingClaim(who[c][1])

(* Mutant: the two wallets of the key are swapped.                         *)
PendingKey_Swapped(c) == <<who[c][2], who[c][1]>>

PendingKey(c) == who[c]

-----------------------------------------------------------------------------
Init ==
  /\ pending = {}
  /\ claims = {}
  /\ pc = [c \in Caller |-> "idle"]
  /\ who = [c \in Caller |-> NoClaim]
  /\ stage = "idle"
  /\ sender = NoWallet
  /\ key = NoClaim

(* The call is over, whatever it answers.                                  *)
Answer(c) ==
  /\ pc' = [pc EXCEPT ![c] = "idle"]
  /\ who' = [who EXCEPT ![c] = NoClaim]

(* Two users who claim one wallet at a time, or one who clicks twice.      *)
MayClaim(claim) ==
  \/ Overlap
  \/ \A d \in Caller : pc[d] # "idle" /\ who[d][1] = claim[1] => who[d] = claim

(* POST /claim, as far as the answer to isClaimed.                         *)
StartClaim(c, claim) ==
  /\ pc[c] = "idle"
  /\ MayClaim(claim)
  /\ pc' = [pc EXCEPT ![c] = IF isClaimed(claim[1]) THEN "claimed" ELSE "unclaimed"]
  /\ who' = [who EXCEPT ![c] = claim]
  /\ UNCHANGED <<pending, claims, depositVars>>

(* hasClaim tells AlreadyDone from InvalidOwner.                           *)
AnswerClaimed(c) ==
  /\ pc[c] = "claimed"
  /\ Answer(c)
  /\ UNCHANGED <<pending, claims, depositVars>>

(* Service.claim looks for a pending claim, then storePendingClaim of      *)
(* UsersDepositsService does again.  One that is found ends the call with  *)
(* InvalidOwner, or with Error the second time.                            *)
CheckPending(c) ==
  /\ pc[c] \in {"unclaimed", "unpending"}
  /\ \/ /\ FindsPending(c)
        /\ Answer(c)
     \/ /\ ~FindsPending(c)
        /\ pc' = [pc EXCEPT ![c] = IF @ = "unclaimed" THEN "unpending" ELSE "storing"]
        /\ UNCHANGED who
  /\ UNCHANGED <<pending, claims, depositVars>>

(* SET and EXPIRE in one MULTI.                                            *)
storePendingClaim(c) ==
  /\ pc[c] = "storing"
  /\ pending' = pending \cup {PendingKey(c)}
  /\ Answer(c)
  /\ UNCHANGED <<claims, depositVars>>

(* A command fails: the request is answered with an error.                 *)
ClaimFails(c) ==
  /\ pc[c] # "idle"
  /\ Answer(c)
  /\ UNCHANGED <<pending, claims, depositVars>>

(* The worker starts with a deposit from b, or with another attempt at it. *)
processUserDeposit(b) ==
  /\ stage = "idle"
  /\ sender' = b
  /\ stage' = IF hasPendingClaim(b) THEN "pending" ELSE "confirmed"
  /\ UNCHANGED <<pending, claims, callVars, key>>

EndDeposit ==
  /\ stage' = "idle"
  /\ sender' = NoWallet
  /\ key' = NoClaim

(* confirmClaim asks for the pending claims once more and takes the first  *)
(* of them, in the order of KEYS, which is none.  Without one it throws.   *)
FindKey ==
  /\ stage = "pending"
  /\ \/ /\ \E c \in pending : c[1] = sender /\ key' = c
        /\ stage' = "found"
        /\ UNCHANGED sender
     \/ /\ ~hasPendingClaim(sender)
        /\ EndDeposit
  /\ UNCHANGED <<pending, claims, callVars>>

(* The pending claim stays until it times out.                             *)
confirmClaim ==
  /\ stage = "found"
  /\ claims' = claims \cup {key}
  /\ stage' = "confirmed"
  /\ key' = NoClaim
  /\ UNCHANGED <<pending, callVars, sender>>

(* isClaimed decides whether the deposit is kept or sent back; a command   *)
(* that fails, or anything after it, ends the job sooner.                  *)
LeaveDeposit ==
  /\ stage # "idle"
  /\ EndDeposit
  /\ UNCHANGED <<pending, claims, callVars>>

(* Somebody found no claim of the wallet and goes on from there, or is     *)
(* about to confirm the pending one.                                       *)
Relied(b) ==
  \/ \E c \in Caller : pc[c] # "idle" /\ who[c][1] = b
  \/ stage = "found" /\ key[1] = b

ExpirePending(c) ==
  /\ c \in pending
  /\ TtlMayElapse \/ ~Relied(c[1])
  /\ pending' = pending \ {c}
  /\ UNCHANGED <<claims, callVars, depositVars>>

Crash ==
  /\ pc' = [c \in Caller |-> "idle"]
  /\ who' = [c \in Caller |-> NoClaim]
  /\ EndDeposit
  /\ UNCHANGED <<pending, claims>>

ClaimStep(c) ==
  \/ \E claim \in Claim : StartClaim(c, claim)
  \/ AnswerClaimed(c) \/ CheckPending(c) \/ storePendingClaim(c) \/ ClaimFails(c)

DepositStep ==
  \/ \E b \in BanWallet : processUserDeposit(b)
  \/ FindKey \/ confirmClaim \/ LeaveDeposit

Next ==
  \/ \E c \in Caller : ClaimStep(c)
  \/ DepositStep
  \/ \E c \in Claim : ExpirePending(c)
  \/ Crash

Spec == Init /\ [][Next]_vars

-----------------------------------------------------------------------------
(* Types of all variables.                                                 *)
TypeOK ==
  /\ pending \subseteq Claim
  /\ claims \subseteq Claim
  /\ pc \in [Caller -> Stages]
  /\ who \in [Caller -> Claim \cup {NoClaim}]
  /\ \A c \in Caller : pc[c] # "idle" => who[c] \in Claim
  /\ stage \in DepositStages
  /\ sender \in BanWallet \cup {NoWallet}
  /\ key \in Claim \cup {NoClaim}
  /\ stage = "found" => key \in Claim

(* A BAN wallet belongs to one user, although claiming it is a sequence of *)
(* lookups, a pending claim outlives its confirmation, and whoever deposits *)
(* from the wallet confirms whichever pending claim is there.              *)
OneOwner == \A p, q \in claims : p[1] = q[1] => p = q

(* What a deposit would confirm next is no other user's claim of a wallet  *)
(* that has its owner.                                                     *)
PendingIsOwners == \A p \in pending, q \in claims : p[1] = q[1] => p = q

-----------------------------------------------------------------------------
(* The inductive invariant behind these two.                               *)
OneClaimant == \A p, q \in pending \cup claims : p[1] = q[1] => p = q

CallsAgree ==
  \A c, d \in Caller :
    pc[c] # "idle" /\ pc[d] # "idle" /\ who[c][1] = who[d][1] => who[c] = who[d]

(* A wallet that was not claimed a moment ago still has its pending claim. *)
UnclaimedIsPending ==
  \A c \in Caller, q \in claims :
    pc[c] = "unclaimed" /\ q[1] = who[c][1] => q \in pending

(* Once a call has found nothing, only its user can leave something.       *)
NobodyElse ==
  \A c \in Caller, q \in pending \cup claims :
    pc[c] \in {"unpending", "storing"} /\ q[1] = who[c][1] => q = who[c]

KeyIsPending == stage = "found" => key \in pending

IInv ==
  /\ TypeOK
  /\ OneClaimant
  /\ CallsAgree
  /\ UnclaimedIsPending
  /\ NobodyElse
  /\ KeyIsPending
=============================================================================
