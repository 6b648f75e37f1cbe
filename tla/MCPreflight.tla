---------------------------- MODULE MCPreflight ----------------------------
(* Constants of the preflight run: a recipient for every trait.            *)
EXTENDS Preflight

MCRecipient == {"plain", "burned", "code", "tether", "scam", "bad"}
MCFacts == [r \in MCRecipient |->
  CASE r = "burned" -> {"burn"}
    [] r = "code" -> {"contract", "inactive"}
    [] r = "tether" -> {"blacklisted"}
    [] r = "scam" -> {"flagged", "tainted"}
    [] OTHER -> {}]
MCPool == <<"w1", "w2">>
============================================================================
