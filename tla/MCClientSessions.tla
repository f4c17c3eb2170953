-------------------------- MODULE MCClientSessions --------------------------
(* One or two sessions and one publisher on a small hub and registry.      *)
EXTENDS ClientSessions, TLC

CONSTANTS k1, k2, venue

MCProviderOf == k1 :> venue @@ k2 :> venue
MCProviderOfOne == k1 :> venue
MCDeclared == venue :> 2
=============================================================================
