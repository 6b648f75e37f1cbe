----------------------------- MODULE MCKeystore -----------------------------
(* Instances of Keystore for TLC. *)
EXTENDS Keystore, TLC

Symmetry == Permutations(Operator) \cup Permutations(Name) \cup Permutations(Key)
              \cup Permutations(Passphrase)
============================================================================
