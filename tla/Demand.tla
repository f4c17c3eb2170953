------------------------------- MODULE Demand -------------------------------
(***************************************************************************)
(* What the subscription registry promises, without reference counts:      *)
(* every client owns a set of keys, and the demand the gateway publishes   *)
(* to its upstream supervisors is at every moment the union of what the    *)
(* clients own, inside the per-client and the per-provider ceilings.       *)
(***************************************************************************)
CONSTANTS Clients, Keys,
          HoldingFits(_),    \* is a set of keys inside the per-client ceiling?
          DemandFits(_)      \* is it inside the ceiling of every provider?

VARIABLES owns,              \* owns[c]: the keys client c holds
          published          \* the desired-state snapshot upstream sees

vars == <<owns, published>>

Union(f) == UNION {f[c] : c \in Clients}

Init ==
    /\ owns = [c \in Clients |-> {}]
    /\ published = {}

\* One client's holding is replaced; the snapshot follows in the same step.
Replace(c, S) ==
    /\ HoldingFits(S)
    /\ owns' = [owns EXCEPT ![c] = S]
    /\ published' = Union(owns')

\* Growing demand is admitted only inside the ceiling of every provider.
Grow(c, S) ==
    /\ owns[c] \subseteq S
    /\ Replace(c, S)
    /\ DemandFits(published')

\* Shrinking demand is always admitted.
Shrink(c, S) ==
    /\ S \subseteq owns[c]
    /\ Replace(c, S)

Next == \E c \in Clients, S \in SUBSET Keys : Grow(c, S) \/ Shrink(c, S)

Spec == Init /\ [][Next]_vars
=============================================================================
