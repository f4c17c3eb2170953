------------------------- MODULE MCConnectionTimers -------------------------
(* ConnectionTimers with the targets of the venues, scaled down.           *)
EXTENDS ConnectionTimers

\* A venue that rotates (Binance, KuCoin) and one that does not acknowledge
\* unsubscribes (MEXC).
MCTargets == {Target(1, 2, 2, 3, 7, TRUE), Target(1, 2, 2, 3, Off, FALSE)}
=============================================================================
