----------------------------- MODULE UserLedger -----------------------------
(***************************************************************************)
(* What the storage of the users' deposits promises: the balance of a BAN  *)
(* wallet moves exactly when an event (deposit, withdrawal, swap) enters   *)
(* its history, by the amount of that event, and an event enters it once.  *)
(* UsersDepositsStorage is shown to implement this specification.          *)
(***************************************************************************)
EXTENDS Integers, FiniteSetsExt

CONSTANTS
  Wallet,    \* the BAN wallets, as they appear in the Redis keys
  Event,     \* the events that can be recorded: [type, address, id, amount, at]
  Opening    \* the balance every wallet starts with

VARIABLES
  balance,   \* ban-balance:${wallet}
  history    \* the events recorded so far

ledgerVars == <<balance, history>>

(* Deposits and swaps of wBAN back to BAN credit the wallet; withdrawals   *)
(* and swaps of BAN to wBAN debit it.                                      *)
Delta(e) == IF e.type \in {"deposit", "swap-to-ban"} THEN e.amount ELSE -e.amount

Init ==
  /\ balance = [w \in Wallet |-> Opening]
  /\ history = {}

Record(e) ==
  /\ e \notin history
  /\ history' = history \cup {e}
  /\ balance' = [balance EXCEPT ![e.address] = @ + Delta(e)]

Next == \E e \in Event : Record(e)

Spec == Init /\ [][Next]_ledgerVars

-----------------------------------------------------------------------------

(* Every balance is what its wallet's recorded history adds up to.         *)
BalanceIsHistory ==
  \A w \in Wallet :
    balance[w] = Opening + MapThenSumSet(Delta, {e \in history : e.address = w})
=============================================================================
