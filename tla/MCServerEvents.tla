--------------------------- MODULE MCServerEvents ---------------------------
(* Instances of ServerEvents for TLC.                                      *)
EXTENDS ServerEvents

CONSTANTS c1, c2, c3, c4, w1, w2

(* Three connections of one wallet, one of another.                        *)
MCWalletOf == [c \in Connection |-> IF c = c4 THEN w2 ELSE w1]

(* A result of each wallet, and one that names none.                       *)
MCResult == {[id |-> 1, banWallet |-> w1], [id |-> 2, banWallet |-> w2],
             [id |-> 3, banWallet |-> NoWallet]}
=============================================================================
