----------------------- MODULE MCUsersDepositsStorage -----------------------
(* Instances of UsersDepositsStorage for TLC.                              *)
EXTENDS UsersDepositsStorage, TLC

CONSTANTS c1, c2, c3

Request(type, address, id, amount, at) ==
  [type |-> type, address |-> address, id |-> id, amount |-> amount, at |-> at]

(* One wallet under two spellings, and another wallet.                     *)
MCLower == [a \in Address |-> IF a = "BAN_1" THEN "ban_1" ELSE a]

(* Every kind of store, on two wallets: swaps to wBAN on the second one,   *)
(* all the others on the first.                                            *)
EveryStore ==
  {Request("deposit", "ban_1", 1, 1, 1),
   Request("withdrawal", "ban_1", 2, 2, 2),
   Request("swap-to-ban", "ban_1", 3, 4, 3),
   Request("swap-to-wban", "ban_2", 4, 1, 1),
   Request("swap-to-wban", "ban_2", 5, 2, 1)}

(* A withdrawal next to a swap to wBAN of the same wallet.                 *)
SwapAndWithdrawal ==
  {Request("swap-to-wban", "ban_1", 1, 1, 1),
   Request("withdrawal", "ban_1", 2, 2, 2)}

(* Stores and reads whose locks may time out under them, on one wallet:    *)
(* the nested lock of a swap to wBAN among them, a read that spells the    *)
(* wallet in another case and so takes a lock of its own, and two events   *)
(* that may be stored again while their first store is under way.          *)
WithTimeouts ==
  {Request("deposit", "ban_1", 1, 1, 1),
   Request("swap-to-ban", "ban_1", 3, 4, 3),
   Request("swap-to-wban", "ban_1", 4, 1, 1),
   Request("balance", "BAN_1", 0, 0, 0)}

CallersAreAlike == Permutations(Caller)
=============================================================================
