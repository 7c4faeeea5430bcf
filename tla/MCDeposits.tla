----------------------------- MODULE MCDeposits -----------------------------
(* Instances of Deposits for TLC.                                          *)
EXTENDS Deposits

CONSTANTS worker, b1, b2, ann

MCLower == [a \in Address |-> a]

Request(type, id, amount) ==
  [type |-> type, address |-> "ban_1", id |-> id, amount |-> amount, at |-> id]

(* Half BANs are the unit: three BAN, and a deposit with too many decimals. *)
ThreeBan == {Request("deposit", 1, 6)}
TooManyDecimals == {Request("deposit", 2, 3)}

(* A block of the cold wallet.                                             *)
OwnBlock == {[id |-> 3, amount |-> 2]}

MCRequests == Deposit \cup {Request("balance", 0, 0)}
=============================================================================
