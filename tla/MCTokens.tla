------------------------------ MODULE MCTokens ------------------------------
(* Instances of Tokens for TLC. *)
EXTENDS Tokens, TLC

Scopes == {{"send", "metrics"}}

Symmetry == Permutations(Token) \cup Permutations(Operator)
============================================================================
