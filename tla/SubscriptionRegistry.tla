------------------------ MODULE SubscriptionRegistry ------------------------
(***************************************************************************)
(* SubscriptionRegistry of src/src/gateway.rs: downstream demand, counted  *)
(* per key, published to the upstream supervisors through a watch channel. *)
(*                                                                         *)
(* Every operation runs under the registry's async mutex, the watch send   *)
(* included, so an operation is one action.  The watch channel keeps one   *)
(* value; a receiver only knows whether a newer one than it has seen was   *)
(* sent, which is the set `unseen`.                                        *)
(***************************************************************************)
EXTENDS Naturals, FiniteSets

CONSTANTS
    Clients,         \* client ids
    Keys,            \* subscription keys
    Providers,
    ProviderOf,      \* ProviderOf[k]: the provider field of key k
    MaxPerClient,    \* max_subscriptions_per_client
    Declared,        \* provider -> ceiling its adapter declares (partial)
    Fallback,        \* DEFAULT_MAX_PROVIDER_SUBSCRIPTIONS
    Override,        \* the operator's ceiling, or NoOverride
    NoOverride,
    Receivers        \* watch receivers: one per endpoint supervisor

ASSUME KeysAssumption == IsFiniteSet(Keys) /\ ProviderOf \in [Keys -> Providers]

ASSUME LimitsAssumption ==
    /\ MaxPerClient \in Nat \ {0}
    /\ Fallback \in Nat
    /\ DOMAIN Declared \subseteq Providers
    /\ \A p \in DOMAIN Declared : Declared[p] \in Nat
    /\ Override \in Nat \cup {NoOverride}
    /\ NoOverride \notin Nat

VARIABLES
    clients,           \* client -> owned keys; no entry for an idle client
    reference_counts,  \* key -> number of owners; no entry when unowned
    desired,           \* the desired set kept under the lock
    snapshot,          \* the value held by the watch channel
    unseen,            \* receivers that have not seen the last send
    view               \* receiver -> value it last read; subscribed ones only

vars == <<clients, reference_counts, desired, snapshot, unseen, view>>

-----------------------------------------------------------------------------
(* ProviderLimits *)

\* capped_at: an operator may lower a ceiling but never raise it.
Capped(limit) ==
    IF Override # NoOverride /\ Override < limit THEN Override ELSE limit

limit_for(p) == Capped(IF p \in DOMAIN Declared THEN Declared[p] ELSE Fallback)

-----------------------------------------------------------------------------
(* Helpers *)

\* clients.get(c).cloned().unwrap_or_default()
Existing(c) == IF c \in DOMAIN clients THEN clients[c] ELSE {}

Owners(k) == {c \in DOMAIN clients : k \in clients[c]}

OfProvider(K, p) == {k \in K : ProviderOf[k] = p}

\* The map after c's keys become K; an emptied entry is removed.
WithClient(c, K) ==
    IF K = {}
    THEN [d \in DOMAIN clients \ {c} |-> clients[d]]
    ELSE [d \in DOMAIN clients \cup {c} |-> IF d = c THEN K ELSE clients[d]]

\* Faulty: replaces the value without marking it changed.
SendIfChanged_Silent(crossed) ==
    /\ snapshot' = desired'
    /\ UNCHANGED unseen

\* Faulty: sends after every operation.
SendIfChanged_Always(crossed) ==
    /\ snapshot' = desired'
    /\ unseen' = DOMAIN view

\* watch::Sender::send_replace, done only when a count crossed zero.
SendIfChanged(crossed) ==
    IF crossed = {}
    THEN UNCHANGED <<snapshot, unseen>>
    ELSE /\ snapshot' = desired'
         /\ unseen' = DOMAIN view

-----------------------------------------------------------------------------
(* add *)

Added(c, requested) == requested \ Existing(c)

ClientLimitExceeded(c, requested) ==
    Cardinality(Existing(c)) + Cardinality(Added(c, requested)) > MaxPerClient

\* Keys that would newly be demanded: the requested ones nobody owns.
Fresh(c, requested) == Added(c, requested) \ DOMAIN reference_counts

\* Faulty: looks at the present totals only.
ProviderLimitExceeded_Present(c, requested) ==
    \E p \in Providers : Cardinality(OfProvider(desired, p)) > limit_for(p)

ProviderLimitExceeded(c, requested) ==
    \E p \in Providers :
        Cardinality(OfProvider(desired, p))
            + Cardinality(OfProvider(Fresh(c, requested), p)) > limit_for(p)

\* The order of the early returns: the client limit, the empty addition
\* (accepted without looking at the provider limits), the provider limits.
AddRejected(c, requested) ==
    \/ ClientLimitExceeded(c, requested)
    \/ Added(c, requested) # {} /\ ProviderLimitExceeded(c, requested)

\* saturating_add cannot saturate: a count is bounded by the client map.
Increment(added) ==
    [k \in DOMAIN reference_counts \cup added |->
        IF k \notin DOMAIN reference_counts THEN 1
        ELSE IF k \in added THEN reference_counts[k] + 1
        ELSE reference_counts[k]]

AddKeys(c, added) ==
    LET activated == {k \in added : Increment(added)[k] = 1}
    IN  /\ clients' = WithClient(c, Existing(c) \cup added)
        /\ reference_counts' = Increment(added)
        /\ desired' = desired \cup activated
        /\ SendIfChanged(activated)
        /\ UNCHANGED view

add(c, requested) ==
    IF AddRejected(c, requested) \/ Added(c, requested) = {}
    THEN UNCHANGED vars
    ELSE AddKeys(c, Added(c, requested))

-----------------------------------------------------------------------------
(* remove and cleanup_client *)

\* Faulty: a key is dropped with its first leaving owner.
Deactivated_AnyOwner(removed) == removed \cap DOMAIN reference_counts

\* Faulty: a count is taken down while it is positive, and an entry dropped at
\* zero only.
Deactivated_AtZero(removed) ==
    {k \in removed \cap DOMAIN reference_counts : reference_counts[k] <= 0}

\* decrement_references: the keys whose last owner left.
Deactivated(removed) ==
    {k \in removed \cap DOMAIN reference_counts : reference_counts[k] <= 1}

Decrement(removed) ==
    [k \in DOMAIN reference_counts \ Deactivated(removed) |->
        IF k \in removed THEN reference_counts[k] - 1 ELSE reference_counts[k]]

RemoveKeys(c, removed) ==
    /\ clients' = WithClient(c, Existing(c) \ removed)
    /\ reference_counts' = Decrement(removed)
    /\ desired' = desired \ Deactivated(removed)
    /\ SendIfChanged(Deactivated(removed))
    /\ UNCHANGED view

\* Unknown keys are ignored; removing nothing returns early.
remove(c, requested) ==
    IF requested \cap Existing(c) = {}
    THEN UNCHANGED vars
    ELSE RemoveKeys(c, requested \cap Existing(c))

\* Faulty: forgets the client without releasing its references.
cleanup_client_NoDecrement(c) ==
    IF c \notin DOMAIN clients
    THEN UNCHANGED vars
    ELSE /\ clients' = WithClient(c, {})
         /\ UNCHANGED <<reference_counts, desired, snapshot, unseen, view>>

\* Faulty: releases the references without publishing the smaller demand.
cleanup_client_NoPublish(c) ==
    IF c \notin DOMAIN clients
    THEN UNCHANGED vars
    ELSE /\ clients' = WithClient(c, {})
         /\ reference_counts' = Decrement(clients[c])
         /\ desired' = desired \ Deactivated(clients[c])
         /\ UNCHANGED <<snapshot, unseen, view>>

cleanup_client(c) ==
    IF c \notin DOMAIN clients
    THEN UNCHANGED vars
    ELSE RemoveKeys(c, clients[c])

-----------------------------------------------------------------------------
(* The watch receivers *)

\* A supervisor task starts: the current value counts as seen.
subscribe_desired(r) ==
    /\ r \notin DOMAIN view
    /\ view' = [s \in DOMAIN view \cup {r} |->
                    IF s = r THEN snapshot ELSE view[s]]
    /\ UNCHANGED <<clients, reference_counts, desired, snapshot, unseen>>

\* changed().await returns, and the receiver reads the value.
Observe(r) ==
    /\ r \in unseen
    /\ unseen' = unseen \ {r}
    /\ view' = [view EXCEPT ![r] = snapshot]
    /\ UNCHANGED <<clients, reference_counts, desired, snapshot>>

-----------------------------------------------------------------------------

Init ==
    /\ clients = [c \in {} |-> {}]
    /\ reference_counts = [k \in {} |-> 0]
    /\ desired = {}
    /\ snapshot = {}
    /\ unseen = {}
    /\ view = [r \in {} |-> {}]

Next ==
    \/ \E c \in Clients, requested \in SUBSET Keys :
          \/ add(c, requested)
          \/ remove(c, requested)
    \/ \E c \in Clients : cleanup_client(c)
    \/ \E r \in Receivers : subscribe_desired(r) \/ Observe(r)

Spec == Init /\ [][Next]_vars

-----------------------------------------------------------------------------
(* Properties *)

\* Every map of the registry stays well formed; a reference count is positive
\* while it has an entry, which decrement_references relies on (usize has no -1).
TypeOK ==
    /\ DOMAIN clients \subseteq Clients
    /\ \A c \in DOMAIN clients : clients[c] \subseteq Keys
    /\ clients = [c \in DOMAIN clients |-> clients[c]]
    /\ DOMAIN reference_counts \subseteq Keys
    /\ \A k \in DOMAIN reference_counts : reference_counts[k] \in Nat \ {0}
    /\ reference_counts = [k \in DOMAIN reference_counts |-> reference_counts[k]]
    /\ desired \subseteq Keys
    /\ snapshot \subseteq Keys
    /\ DOMAIN view \subseteq Receivers
    /\ \A r \in DOMAIN view : view[r] \subseteq Keys
    /\ view = [r \in DOMAIN view |-> view[r]]
    /\ unseen \subseteq DOMAIN view

\* The count add and decrement_references keep for a key is the number of
\* clients that own it, and exactly the owned keys have one: demand neither
\* leaks after its last owner left nor vanishes while an owner remains.
ReferenceCountsExact ==
    /\ \A k \in Keys : k \in DOMAIN reference_counts <=> Owners(k) # {}
    /\ \A k \in DOMAIN reference_counts :
          reference_counts[k] = Cardinality(Owners(k))

\* The value in the watch channel is the demanded set at every moment, although
\* send_replace is only called when the activated or deactivated list is not
\* empty.
SnapshotIsDemand ==
    /\ desired = {k \in Keys : Owners(k) # {}}
    /\ snapshot = desired

HoldingFits(K) == Cardinality(K) <= MaxPerClient

DemandFits(K) ==
    \A p \in Providers : Cardinality(OfProvider(K, p)) <= limit_for(p)

\* No sequence of adds and removes takes a client past its ceiling, leaves an
\* empty client entry behind, or takes a provider past the ceiling of
\* limit_for, although add estimates the provider totals before it counts.
WithinLimits ==
    /\ \A c \in DOMAIN clients :
          /\ clients[c] # {}
          /\ HoldingFits(clients[c])
    /\ DemandFits(desired)

\* A watch receiver that is not flagged as changed has read the current
\* demand: no wake-up of a supervisor is lost.
NoLostWakeup == \A r \in DOMAIN view \ unseen : view[r] = snapshot

\* "It changes only when a key's global reference count crosses zero"
\* (subscribe_desired): a receiver is newly notified only by a step that
\* changes the demanded set.
NotifiedOnlyOnCrossing ==
    [][(unseen' \ unseen # {}) => (DOMAIN reference_counts' # DOMAIN reference_counts)]_vars

\* The registry implements the abstract demand specification: what each client
\* owns, and the union of it as the published snapshot.
D == INSTANCE Demand WITH owns <- [c \in Clients |-> Existing(c)],
                          published <- snapshot

ImplementsDemand == D!Spec
=============================================================================
