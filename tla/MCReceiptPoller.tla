--------------------------- MODULE MCReceiptPoller ---------------------------
(* Instances of ReceiptPoller for TLC. *)
EXTENDS ReceiptPoller, TLC

Symmetry == Permutations(Txid)
============================================================================
