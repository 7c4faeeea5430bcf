-------------------------- MODULE MCBlockchainScan --------------------------
(* Instances of BlockchainScan for TLC.                                    *)
EXTENDS BlockchainScan

(* A swap in the first block the listener can hear of, which is the last   *)
(* one of a job of two slices.                                             *)
OneSwap == {[hash |-> "0x1", block |-> 4]}
=============================================================================
