---------------------------- MODULE MCGatewayHub ----------------------------
(* Three clients compete for two places; the sequence numbers run out.     *)
EXTENDS GatewayHub, TLC

Symmetry == Permutations(Clients) \cup Permutations(Keys) \cup Permutations(Publishers)
=============================================================================
