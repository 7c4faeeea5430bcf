------------------------------ MODULE MCSwaps -------------------------------
(* Instances of Swaps for TLC.                                             *)
EXTENDS Swaps

CONSTANTS worker

MCLower == [a \in Address |-> a]

Wrap(at, valid) ==
  [wallet |-> "ban_1", blockchain |-> "0x1", amount |-> 1, at |-> at,
   big |-> TRUE, valid |-> valid]

(* Two that the wallet can pay for, and one of somebody else.              *)
TwoWraps == {Wrap(1, TRUE), Wrap(2, TRUE)}
Wraps == TwoWraps \cup {Wrap(3, FALSE)}
OneUnwrap == {[wallet |-> "ban_1", blockchain |-> "0x1", amount |-> 1, hash |-> 100]}

(* Two recipients ask for the free swap of one wallet.                     *)
TwoFree == {[wallet |-> "ban_1", recipient |-> a, valid |-> TRUE] : a \in {"0x1", "0x2"}}

(* A receipt for every attempt.                                            *)
SwapRequests ==
  {[type |-> "swap-to-wban", address |-> s.wallet, id |-> 10 * s.at + i,
    amount |-> s.amount, at |-> s.at] : s \in ToWBAN, i \in 1..4}
  \cup {[type |-> "swap-to-ban", address |-> b.wallet, id |-> b.hash,
         amount |-> b.amount, at |-> 0] : b \in ToBAN}
  \cup {[type |-> "balance", address |-> "ban_1", id |-> 0, amount |-> 0, at |-> 0]}

(* Two wraps of a wallet; a wrap, and its wBAN back; two free swaps;       *)
(* one refused.                                                            *)
Mixes == {TwoWraps, {Wrap(1, TRUE)} \cup OneUnwrap, TwoFree, {Wrap(3, FALSE)}}

(* The instance meets what the theorems assume.                            *)
ASSUME SwapsAreDistinct == DistinctSwaps
=============================================================================
