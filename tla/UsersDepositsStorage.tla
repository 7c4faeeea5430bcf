------------------------ MODULE UsersDepositsStorage ------------------------
(***************************************************************************)
(* RedisUsersDepositsStorage and the checks UsersDepositsService and       *)
(* Service make before they call it: the users' balances, the history      *)
(* behind them and the Redlock locks around them.                          *)
(*                                                                         *)
(* An async call is a sequence of Redis commands.  All commands of the     *)
(* process leave by one connection in the order they are sent, so a        *)
(* command takes effect in the step that sends it, and one step is what    *)
(* runs between two replies: take a reply, send the next command.  Calls   *)
(* interleave at these points.                                             *)
(*                                                                         *)
(* The sorted sets deposits:, withdrawals: and swaps: are written in the   *)
(* same MULTI as the audit: hash, so `audit' stands for all of them: the   *)
(* hash of an event is in the sorted set of its type iff the event is in   *)
(* `audit'.                                                                *)
(***************************************************************************)
EXTENDS Integers, FiniteSetsExt

CONSTANTS
  Address,       \* BAN addresses as spelled by callers
  Lower,         \* toLowerCase() on them
  Requests,      \* the calls made: [type, address, id, amount, at]
  NoRequest,     \* what an idle caller carries
  Caller,        \* calls that may be in flight at once
  RetryCount,    \* attempts Redlock makes after the first (10 in the code)
  Opening,       \* balance of every wallet at the start
  RetryInFlight, \* may a deposit be submitted while its first store is in flight?
  TtlMayElapse   \* may a lock time out under a live call?

WriteTypes == {"deposit", "withdrawal", "swap-to-wban", "swap-to-ban"}
Types == WriteTypes \cup {"balance"}

ASSUME LowerAssumption ==
  /\ Lower \in [Address -> Address]
  /\ \A a \in Address : Lower[Lower[a]] = Lower[a]

(* Transaction hashes, block hashes and receipts identify an event.        *)
ASSUME RequestsAssumption ==
  /\ \A r \in Requests :
       /\ r = [type |-> r.type, address |-> r.address, id |-> r.id,
               amount |-> r.amount, at |-> r.at]
       /\ r.type \in Types /\ r.address \in Address /\ r.amount \in Nat
  /\ \A r, s \in Requests :
       r.type \in WriteTypes /\ s.type \in WriteTypes /\ r.id = s.id => r = s
  /\ NoRequest \notin Requests

ASSUME ParametersAssumption ==
  /\ RetryCount \in Nat
  /\ Opening \in Int
  /\ RetryInFlight \in BOOLEAN
  /\ TtlMayElapse \in BOOLEAN
  /\ "free" \notin Caller /\ "orphan" \notin Caller

VARIABLES
  banBalance,  \* ban-balance:${wallet}
  audit,       \* the events recorded: audit:, deposits:, withdrawals:, swaps:
  locks,       \* locks:ban-balance:${a} and locks:swaps:ban-to-wban:${a}
  pc,          \* where each call stands
  req,         \* the request it carries
  val,         \* the balance it read
  tries,       \* retries made for the lock it waits for
  submitted,   \* history: withdrawals and swaps to wBAN submitted
  applied      \* history: how often each request was written

redisVars == <<banBalance, audit, locks>>
callVars == <<pc, req, val, tries>>
storageVars == <<redisVars, callVars, submitted, applied>>

Wallets == {Lower[a] : a \in Address}
LockNames == {"ban-balance", "swaps"} \X Address

Stages == {"idle", "checked", "waiting-swaps", "waiting", "swaps-locked",
           "locked", "rechecked", "read", "unlocked", "releasing"}

-----------------------------------------------------------------------------
(* Events and the queries on them.                                         *)

Delta(r) == IF r.type \in {"deposit", "swap-to-ban"} THEN r.amount ELSE -r.amount

(* What the MULTI of a store writes into audit:${id}.                      *)
EventOf(r) ==
  [type |-> r.type, address |-> Lower[r.address], id |-> r.id,
   amount |-> r.amount, at |-> r.at]

containsUserDepositTransaction(r) ==
  \E e \in audit : e.type = "deposit" /\ e.address = Lower[r.address] /\ e.id = r.id

(* ZCOUNT of the request's timestamp, compared with 1.                     *)
containsUserWithdrawalRequest(address, at) ==
  Cardinality({e \in audit : /\ e.type = "withdrawal"
                             /\ e.address = Lower[address]
                             /\ e.at = at}) = 1

swapToBanWasAlreadyDone(r) ==
  \E e \in audit : e.type = "swap-to-ban" /\ e.id = r.id

(* What UsersDepositsService looks up before it stores.                    *)
AlreadyIngested(r) ==
  \/ r.type = "deposit" /\ containsUserDepositTransaction(r)
  \/ r.type = "withdrawal" /\ containsUserWithdrawalRequest(r.address, r.at)

(* The check before the storage is called; Service makes that of a swap to *)
(* BAN.                                                                    *)
AlreadyStored(r) ==
  \/ AlreadyIngested(r)
  \/ r.type = "swap-to-ban" /\ swapToBanWasAlreadyDone(r)

-----------------------------------------------------------------------------
(* Locks.  getUserAvailableBalance and storeUserSwapToBan name the lock by *)
(* the address as it was spelled, the others by its lower case.            *)

(* Mutant: a swap to BAN takes a lock of its own, as swaps to wBAN do.     *)
BalanceLock_SwapsApart(r) ==
  <<IF r.type = "swap-to-ban" THEN "swaps" ELSE "ban-balance", r.address>>

BalanceLock(r) ==
  <<"ban-balance",
    IF r.type \in {"balance", "swap-to-ban"} THEN r.address ELSE Lower[r.address]>>

SwapsLock(r) == <<"swaps", Lower[r.address]>>

(* Mutant: a swap to wBAN releases the lock of its nested read once more.  *)
OuterLock_Nested(r) == BalanceLock(r)

(* The lock a store holds from its first command to its last.              *)
OuterLock(r) == IF r.type = "swap-to-wban" THEN SwapsLock(r) ELSE BalanceLock(r)

Free(k) == locks[k] = "free"

(* One attempt of redlock.acquire, SET NX of a fresh token: `stage' is     *)
(* where the call stands once it holds the lock, `waiting' otherwise.      *)
Acquire(c, k, stage, waiting, retries) ==
  \/ /\ Free(k)
     /\ locks' = [locks EXCEPT ![k] = c]
     /\ pc' = [pc EXCEPT ![c] = stage]
     /\ tries' = [tries EXCEPT ![c] = 0]
  \/ /\ ~Free(k)
     /\ pc' = [pc EXCEPT ![c] = waiting]
     /\ tries' = [tries EXCEPT ![c] = retries]
     /\ UNCHANGED locks

AcquireFirst(c, r, retries) ==
  IF r.type = "swap-to-wban"
    THEN Acquire(c, SwapsLock(r), "swaps-locked", "waiting-swaps", retries)
    ELSE Acquire(c, BalanceLock(r), "locked", "waiting", retries)

(* lock.release deletes the key only while it still holds the token.       *)
Unlocked(c, k) == IF locks[k] = c THEN [locks EXCEPT ![k] = "free"] ELSE locks

(* The call is over, whether it returns or throws.                         *)
Settle(c) ==
  /\ pc' = [pc EXCEPT ![c] = "idle"]
  /\ req' = [req EXCEPT ![c] = NoRequest]
  /\ val' = [val EXCEPT ![c] = 0]
  /\ tries' = [tries EXCEPT ![c] = 0]

-----------------------------------------------------------------------------
Init ==
  /\ banBalance = [w \in Wallets |-> Opening]
  /\ audit = {}
  /\ locks = [k \in LockNames |-> "free"]
  /\ pc = [c \in Caller |-> "idle"]
  /\ req = [c \in Caller |-> NoRequest]
  /\ val = [c \in Caller |-> 0]
  /\ tries = [c \in Caller |-> 0]
  /\ submitted = {}
  /\ applied = [r \in Requests |-> 0]

(* The hash of a withdrawal and the receipt of a swap are fresh in every   *)
(* call; a deposit and a swap to BAN come again under the same hash.  The  *)
(* code lets a deposit do so during its own first store, which nobody      *)
(* awaits; RetryInFlight FALSE leaves that out.                            *)
MaySubmit(r) ==
  /\ r.type \in {"withdrawal", "swap-to-wban"} => r \notin submitted
  /\ r.type = "deposit" /\ ~RetryInFlight => \A c \in Caller : req[c] # r

(* A call starts.  An event found in the history is skipped; otherwise the *)
(* reply to that check starts the locking.  Reads and swaps to wBAN make   *)
(* no such check and go for their lock at once.                            *)
Call(c, r) ==
  /\ pc[c] = "idle"
  /\ MaySubmit(r)
  /\ submitted' = IF r.type \in {"withdrawal", "swap-to-wban"}
                    THEN submitted \cup {r} ELSE submitted
  /\ \/ /\ r.type \in {"deposit", "withdrawal", "swap-to-ban"}
        /\ AlreadyStored(r)
        /\ UNCHANGED <<pc, req, tries, locks>>
     \/ /\ r.type \in {"deposit", "withdrawal", "swap-to-ban"}
        /\ ~AlreadyStored(r)
        /\ pc' = [pc EXCEPT ![c] = "checked"]
        /\ req' = [req EXCEPT ![c] = r]
        /\ UNCHANGED <<tries, locks>>
     \/ /\ r.type \in {"balance", "swap-to-wban"}
        /\ AcquireFirst(c, r, 0)
        /\ req' = [req EXCEPT ![c] = r]
  /\ UNCHANGED <<banBalance, audit, val, applied>>

BeginLocking(c) ==
  /\ pc[c] = "checked"
  /\ AcquireFirst(c, req[c], 0)
  /\ UNCHANGED <<banBalance, audit, req, val, submitted, applied>>

(* storeUserSwapToWBan calls getUserAvailableBalance under its own lock.   *)
LockBalance(c) ==
  /\ pc[c] = "swaps-locked"
  /\ Acquire(c, BalanceLock(req[c]), "locked", "waiting", 0)
  /\ UNCHANGED <<banBalance, audit, req, val, submitted, applied>>

(* Mutant: one attempt too many.                                           *)
RetryLock_OneMore(c) ==
  /\ pc[c] = "waiting"
  /\ tries[c] <= RetryCount
  /\ Acquire(c, BalanceLock(req[c]), "locked", "waiting", tries[c] + 1)
  /\ UNCHANGED <<banBalance, audit, req, val, submitted, applied>>

(* Mutant: failed attempts are not counted.                                *)
RetryLock_Uncounted(c) ==
  /\ pc[c] = "waiting"
  /\ Acquire(c, BalanceLock(req[c]), "locked", "waiting", tries[c])
  /\ UNCHANGED <<banBalance, audit, req, val, submitted, applied>>

(* retryDelay and retryJitter have passed.                                 *)
RetryLock(c) ==
  /\ tries[c] < RetryCount
  /\ \/ /\ pc[c] = "waiting-swaps"
        /\ AcquireFirst(c, req[c], tries[c] + 1)
     \/ /\ pc[c] = "waiting"
        /\ Acquire(c, BalanceLock(req[c]), "locked", "waiting", tries[c] + 1)
  /\ UNCHANGED <<banBalance, audit, req, val, submitted, applied>>

(* The last attempt failed: acquire throws.  The nested read of a swap to  *)
(* wBAN throws through the finally that releases the lock on swaps.        *)
GiveUp(c) ==
  /\ pc[c] \in {"waiting-swaps", "waiting"}
  /\ tries[c] = RetryCount
  /\ Settle(c)
  /\ locks' = Unlocked(c, OuterLock(req[c]))
  /\ UNCHANGED <<banBalance, audit, submitted, applied>>

(* Mutant: no second look.                                                 *)
Recheck_Skipped(c) ==
  /\ pc[c] = "locked"
  /\ req[c].type = "swap-to-ban"
  /\ pc' = [pc EXCEPT ![c] = "rechecked"]
  /\ UNCHANGED <<redisVars, req, val, tries, submitted, applied>>

(* storeUserSwapToBan looks at its history again under the lock.           *)
Recheck(c) ==
  /\ pc[c] = "locked"
  /\ req[c].type = "swap-to-ban"
  /\ pc' = [pc EXCEPT ![c] = IF swapToBanWasAlreadyDone(req[c])
                               THEN "releasing" ELSE "rechecked"]
  /\ UNCHANGED <<redisVars, req, val, tries, submitted, applied>>

(* Mutant: the lock is given back as soon as the balance is read.          *)
Read_GivesLockBack(c) ==
  /\ \/ pc[c] = "rechecked"
     \/ pc[c] = "locked" /\ req[c].type # "swap-to-ban"
  /\ pc' = [pc EXCEPT ![c] = "read"]
  /\ val' = [val EXCEPT ![c] = banBalance[Lower[req[c].address]]]
  /\ locks' = Unlocked(c, BalanceLock(req[c]))
  /\ UNCHANGED <<banBalance, audit, req, tries, submitted, applied>>

Read(c) ==
  /\ \/ pc[c] = "rechecked"
     \/ pc[c] = "locked" /\ req[c].type # "swap-to-ban"
  /\ pc' = [pc EXCEPT ![c] = "read"]
  /\ val' = [val EXCEPT ![c] = banBalance[Lower[req[c].address]]]
  /\ UNCHANGED <<redisVars, req, tries, submitted, applied>>

(* The reply is an error: the finally blocks release what is held.         *)
ReadFails(c) ==
  /\ pc[c] \in {"rechecked", "read"}
  /\ locks' = Unlocked(c, BalanceLock(req[c]))
  /\ \/ /\ req[c].type = "swap-to-wban"
        /\ pc' = [pc EXCEPT ![c] = "releasing"]
        /\ UNCHANGED <<req, val, tries>>
     \/ /\ req[c].type # "swap-to-wban"
        /\ Settle(c)
  /\ UNCHANGED <<banBalance, audit, submitted, applied>>

(* Mutant: the lock on swaps goes with the nested one.                     *)
UnlockRead_Both(c) ==
  /\ pc[c] = "read"
  /\ req[c].type = "swap-to-wban"
  /\ locks' = [k \in LockNames |-> IF locks[k] = c THEN "free" ELSE locks[k]]
  /\ pc' = [pc EXCEPT ![c] = "unlocked"]
  /\ UNCHANGED <<banBalance, audit, req, val, tries, submitted, applied>>

(* The nested getUserAvailableBalance returns: its lock is released before *)
(* the balance it read is used.                                            *)
UnlockRead(c) ==
  /\ pc[c] = "read"
  /\ req[c].type = "swap-to-wban"
  /\ locks' = Unlocked(c, BalanceLock(req[c]))
  /\ pc' = [pc EXCEPT ![c] = "unlocked"]
  /\ UNCHANGED <<banBalance, audit, req, val, tries, submitted, applied>>

ReadyToWrite(c) ==
  \/ pc[c] = "read" /\ req[c].type \in {"deposit", "withdrawal", "swap-to-ban"}
  \/ pc[c] = "unlocked"

(* Mutant: a withdrawal is added instead of subtracted.                    *)
NewBalance_Added(c) == val[c] + req[c].amount

(* The balance a store computes from the one it read.                      *)
NewBalance(c) == val[c] + Delta(req[c])

(* MULTI: set the balance, add to the sorted set, write the audit hash.    *)
Write(c) ==
  /\ ReadyToWrite(c)
  /\ banBalance' = [banBalance EXCEPT ![Lower[req[c].address]] = NewBalance(c)]
  /\ audit' = audit \cup {EventOf(req[c])}
  /\ applied' = [applied EXCEPT ![req[c]] = @ + 1]
  /\ pc' = [pc EXCEPT ![c] = "releasing"]
  /\ UNCHANGED <<locks, req, val, tries, submitted>>

(* Redis refuses the MULTI: nothing of it is applied.                      *)
WriteFails(c) ==
  /\ ReadyToWrite(c)
  /\ pc' = [pc EXCEPT ![c] = "releasing"]
  /\ UNCHANGED <<redisVars, req, val, tries, submitted, applied>>

(* Mutant: the finally block deletes the key, whoever has it by now.       *)
Release_DeletesKey(c) ==
  /\ \/ pc[c] = "releasing"
     \/ pc[c] = "read" /\ req[c].type = "balance"
  /\ Settle(c)
  /\ locks' = [locks EXCEPT ![OuterLock(req[c])] = "free"]
  /\ UNCHANGED <<banBalance, audit, submitted, applied>>

(* Mutant: there is no finally block.                                      *)
Release_KeepsLock(c) ==
  /\ \/ pc[c] = "releasing"
     \/ pc[c] = "read" /\ req[c].type = "balance"
  /\ Settle(c)
  /\ UNCHANGED <<redisVars, submitted, applied>>

(* The finally block of the call.                                          *)
Release(c) ==
  /\ \/ pc[c] = "releasing"
     \/ pc[c] = "read" /\ req[c].type = "balance"
  /\ Settle(c)
  /\ locks' = Unlocked(c, OuterLock(req[c]))
  /\ UNCHANGED <<banBalance, audit, submitted, applied>>

(* A lock times out: always once its holder is gone, and under a live call *)
(* too if that outlasts the 1 s (30 s for a deposit) the code asks for.    *)
Expire(k) ==
  /\ ~Free(k)
  /\ locks[k] = "orphan" \/ TtlMayElapse
  /\ locks' = [locks EXCEPT ![k] = "free"]
  /\ UNCHANGED <<banBalance, audit, callVars, submitted, applied>>

(* The process dies: Redis keeps its keys, the calls are gone and nobody   *)
(* will release their locks.                                               *)
Crash ==
  /\ pc' = [c \in Caller |-> "idle"]
  /\ req' = [c \in Caller |-> NoRequest]
  /\ val' = [c \in Caller |-> 0]
  /\ tries' = [c \in Caller |-> 0]
  /\ locks' = [k \in LockNames |-> IF Free(k) THEN "free" ELSE "orphan"]
  /\ UNCHANGED <<banBalance, audit, submitted, applied>>

(* What drives a call that is under way.                                   *)
Step(c) ==
  \/ BeginLocking(c) \/ LockBalance(c) \/ RetryLock(c) \/ GiveUp(c)
  \/ Recheck(c) \/ Read(c) \/ ReadFails(c) \/ UnlockRead(c)
  \/ Write(c) \/ WriteFails(c) \/ Release(c)

Next ==
  \/ \E c \in Caller : (\E r \in Requests : Call(c, r)) \/ Step(c)
  \/ \E k \in LockNames : Expire(k)
  \/ Crash

Spec == Init /\ [][Next]_storageVars

(* A reply or an error arrives for every command, a retry timer fires, and *)
(* the TTL frees the lock of a call that is gone.  Locks of live calls may *)
(* time out or not.                                                        *)
Fairness ==
  /\ \A c \in Caller : WF_storageVars(Step(c))
  /\ \A k \in LockNames : WF_storageVars(locks[k] = "orphan" /\ Expire(k))

FairSpec == Spec /\ Fairness

-----------------------------------------------------------------------------
(* Types of all variables.                                                 *)
TypeOK ==
  /\ banBalance \in [Wallets -> Int]
  /\ audit \subseteq {EventOf(r) : r \in Requests}
  /\ locks \in [LockNames -> Caller \cup {"free", "orphan"}]
  /\ pc \in [Caller -> Stages]
  /\ req \in [Caller -> Requests \cup {NoRequest}]
  /\ \A c \in Caller : pc[c] # "idle" => req[c] \in Requests
  /\ val \in [Caller -> Int]
  /\ tries \in [Caller -> 0..RetryCount]
  /\ submitted \subseteq Requests
  /\ applied \in [Requests -> Nat]

(* An event is written at most once, whatever retries, crashes and, for a  *)
(* swap to BAN, concurrent submissions of it do: the checks of the         *)
(* services and the second look of storeUserSwapToBan are enough, if no    *)
(* deposit is submitted during its own first store (~RetryInFlight) and    *)
(* locks outlast their calls (~TtlMayElapse).  The code ensures neither.   *)
StoredAtMostOnce == \A r \in Requests : applied[r] <= 1

(* The balance of a wallet is what its recorded events add up to: no store *)
(* overwrites the effect of another.                                       *)
BalanceMatchesAudit ==
  \A w \in Wallets :
    banBalance[w] = Opening + MapThenSumSet(Delta, {e \in audit : e.address = w})

(* Between the read of a balance and the write that depends on it, no      *)
(* other call has moved that balance.                                      *)
WritesAreFresh ==
  \A c \in Caller :
    ReadyToWrite(c) => val[c] = banBalance[Lower[req[c].address]]

(* A lock leaves its holder by the holder's own step, by its TTL or by a   *)
(* crash: a late release never frees the lock of the next holder.          *)
OnlyHolderReleases ==
  [][\A c \in Caller, k \in LockNames :
       locks[k] = c /\ locks'[k] # c
         => Step(c) \/ Expire(k) \/ Crash]_storageVars

(* Every call comes to its end and no lock is held for ever, on the error  *)
(* paths, after lock timeouts and after crashes.                           *)
EveryCallSettles == \A c \in Caller : pc[c] # "idle" ~> pc[c] = "idle"
LocksAreFreed == \A k \in LockNames : []<>Free(k)

-----------------------------------------------------------------------------
(* The inductive invariants behind these properties.  OnceInv holds for    *)
(* all requests; ReadIsFresh only for wallets spelled one way and written  *)
(* either by swaps to wBAN only or by the other stores only, since the two *)
(* families use different locks.                                           *)
Canonical == \A r \in Requests : Lower[r.address] = r.address

LockDiscipline ==
  \A r, s \in Requests :
    /\ r.type = "swap-to-wban"
    /\ s.type \in {"deposit", "withdrawal", "swap-to-ban"}
    => Lower[r.address] # Lower[s.address]

(* Stages in which a call holds its outer lock.                            *)
Holding(c) ==
  \/ pc[c] \in {"swaps-locked", "locked", "rechecked", "read", "unlocked", "releasing"}
  \/ pc[c] = "waiting" /\ req[c].type = "swap-to-wban"

HoldsOuterLock == \A c \in Caller : Holding(c) => locks[OuterLock(req[c])] = c

(* The stages each type of call goes through.                              *)
StagesMatchTypes ==
  \A c \in Caller :
    /\ pc[c] \in {"waiting-swaps", "swaps-locked", "unlocked"}
         => req[c].type = "swap-to-wban"
    /\ pc[c] = "rechecked" => req[c].type = "swap-to-ban"
    /\ pc[c] = "idle" => req[c] = NoRequest

(* What a call that has not written yet read is still the balance.         *)
ReadIsFresh ==
  \A c \in Caller :
    pc[c] \in {"read", "unlocked"} /\ req[c].type \in WriteTypes
      => val[c] = banBalance[Lower[req[c].address]]

(* The store still has to come, and nobody made it in the meantime.        *)
Unwritten(c) ==
  \/ /\ req[c].type \in {"deposit", "withdrawal", "swap-to-wban"}
     /\ pc[c] \notin {"idle", "releasing"}
  \/ /\ req[c].type = "swap-to-ban"
     /\ pc[c] \in {"rechecked", "read"}

UnwrittenIsUnrecorded ==
  \A c \in Caller : pc[c] # "idle" /\ Unwritten(c) => EventOf(req[c]) \notin audit

SubmittedOnce ==
  /\ \A c, d \in Caller :
       /\ pc[c] # "idle" /\ pc[d] # "idle" /\ req[c] = req[d]
       /\ req[c].type \in {"deposit", "withdrawal", "swap-to-wban"}
       => c = d
  /\ \A c \in Caller :
       pc[c] # "idle" /\ req[c].type \in {"withdrawal", "swap-to-wban"}
         => req[c] \in submitted
  /\ \A r \in Requests :
       r.type \in {"withdrawal", "swap-to-wban"} /\ EventOf(r) \in audit
         => r \in submitted

AppliedMatchesAudit ==
  \A r \in Requests :
    applied[r] = IF r.type \in WriteTypes /\ EventOf(r) \in audit THEN 1 ELSE 0

OnceInv ==
  /\ TypeOK
  /\ StagesMatchTypes
  /\ HoldsOuterLock
  /\ UnwrittenIsUnrecorded
  /\ SubmittedOnce
  /\ AppliedMatchesAudit

IInv == OnceInv /\ ReadIsFresh

-----------------------------------------------------------------------------
(* The storage implements the ledger: the balance and the history move     *)
(* together, once per event.                                               *)
Ledger == INSTANCE UserLedger WITH
  Wallet <- Wallets,
  Event <- {EventOf(r) : r \in {q \in Requests : q.type \in WriteTypes}},
  balance <- banBalance,
  history <- audit

ImplementsLedger == Ledger!Spec
=============================================================================
