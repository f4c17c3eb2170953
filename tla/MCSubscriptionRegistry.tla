----------------------- MODULE MCSubscriptionRegistry -----------------------
(* Three clients, two providers, and ceilings that the requests can exceed.  *)
EXTENDS SubscriptionRegistry, TLC

CONSTANTS alice, bob, carol, btc, eth, sol, xrp, bingx, okx, sup1

\* bingx lists three keys and declares a ceiling; okx falls back.
MCProviderOf == btc :> bingx @@ eth :> bingx @@ sol :> bingx @@ xrp :> okx
MCDeclared == bingx :> 3

Symmetry == Permutations(Clients)
=============================================================================
