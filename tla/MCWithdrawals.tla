--------------------------- MODULE MCWithdrawals ----------------------------
(* Instances of Withdrawals for TLC.                                       *)
EXTENDS Withdrawals, Sequences

CONSTANTS worker, b1, b2, reader

MCLower == [a \in Address |-> a]

Asked(amount, at, valid) ==
  [wallet |-> "ban_1", amount |-> amount, at |-> at, valid |-> valid]

Payment(w, id) ==
  [type |-> "withdrawal", address |-> w.wallet, id |-> id,
   amount |-> w.amount, at |-> w.at]

ReadOf(wallet) ==
  [type |-> "balance", address |-> wallet, id |-> 0, amount |-> 0, at |-> 0]

OneAsked == {Asked(2, 1, TRUE)}
(* Together more than the wallet holds.                                    *)
TwoAsked == {Asked(1, 1, TRUE), Asked(3, 2, TRUE)}

(* One by the owner of the wallet and one by somebody else.                *)
OneAndAnother == {Asked(2, 1, TRUE), Asked(1, 2, FALSE)}

(* Each payment of a withdrawal has a hash of its own.                     *)
PaymentsAndReads ==
  {Payment(w, 10 * w.at + i) : w \in Withdrawal, i \in 1..3} \cup {ReadOf("ban_1")}

(* The instance without faults and readers meets what the theorems assume. *)
ASSUME QueueIsOrderly == Undisturbed /\ Reader = {} => Orderly
=============================================================================
