------------------------------ MODULE MCPayout ------------------------------
(* Instances of Payout for TLC. *)
EXTENDS Payout, TLC

\* Threads, keys and transaction ids are interchangeable.
Symmetry == Permutations(Thread) \cup Permutations(Key) \cup Permutations(Txid)
============================================================================
