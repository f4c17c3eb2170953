--------------------- MODULE SubscriptionRegistryProofs ---------------------
(***************************************************************************)
(* Proofs about the registry, for any clients, any finite set of keys, any *)
(* ceilings and any number of supervisors.                                 *)
(***************************************************************************)
EXTENDS SubscriptionRegistry, FiniteSetTheorems, TLAPS

\* The inductive invariant.  The counts can only be compared with
\* Cardinality(Owners(k)) while the owners of a key are finitely many, which
\* is itself preserved step by step: Clients need not be finite.
IInv ==
    /\ TypeOK
    /\ \A k \in Keys : IsFiniteSet(Owners(k))
    /\ ReferenceCountsExact
    /\ SnapshotIsDemand
    /\ WithinLimits
    /\ NoLostWakeup

-----------------------------------------------------------------------------
(* Cardinalities *)

\* The size of a union is at most the sum of the sizes, and is the sum when
\* the sets are disjoint: what the totals of add rely on.
LEMMA CardinalityOfUnion ==
    ASSUME NEW S, NEW T, IsFiniteSet(S), IsFiniteSet(T)
    PROVE  /\ Cardinality(S) \in Nat /\ Cardinality(T) \in Nat
           /\ Cardinality(S \cup T) \in Nat
           /\ Cardinality(S \cup T) <= Cardinality(S) + Cardinality(T)
           /\ S \cap T = {} => Cardinality(S \cup T) = Cardinality(S) + Cardinality(T)
<1>1. Cardinality(S) \in Nat /\ Cardinality(T) \in Nat
  BY FS_CardinalityType
<1>2. /\ IsFiniteSet(S \cup T)
      /\ Cardinality(S \cup T) = Cardinality(S) + Cardinality(T) - Cardinality(S \cap T)
  BY FS_Union
<1>3. IsFiniteSet(S \cap T)
  BY FS_Intersection
<1>4. Cardinality(S \cap T) \in Nat
  BY <1>3, FS_CardinalityType
<1>5. S \cap T = {} => Cardinality(S \cap T) = 0
  BY FS_EmptySet
<1>6. \A s, t, i, u \in Int : s \in Nat /\ t \in Nat /\ i \in Nat /\ u = s + t - i
                                => u <= s + t /\ (i = 0 => u = s + t)
  OBVIOUS
<1>7. Cardinality(S \cup T) \in Nat
  BY <1>2, FS_CardinalityType
<1>8. Cardinality(S \cup T) <= Cardinality(S) + Cardinality(T)
  BY <1>1, <1>2, <1>4, <1>6, <1>7
<1>9. S \cap T = {} => Cardinality(S \cup T) = Cardinality(S) + Cardinality(T)
  BY <1>1, <1>2, <1>5
<1>. QED  BY <1>1, <1>7, <1>8, <1>9

-----------------------------------------------------------------------------
(* Replacing one client's keys *)

\* WithClient gives c exactly the keys K and leaves the other clients alone,
\* as the entry/extend/remove calls of add and remove do.
LEMMA WithClientOwners ==
    ASSUME TypeOK, NEW c \in Clients, NEW K \in SUBSET Keys,
           clients' = WithClient(c, K)
    PROVE  /\ DOMAIN clients' \subseteq Clients
           /\ clients' = [d \in DOMAIN clients' |-> clients'[d]]
           /\ \A d \in DOMAIN clients' : clients'[d] = IF d = c THEN K ELSE clients[d]
           /\ \A d \in DOMAIN clients' : d # c => d \in DOMAIN clients
           /\ c \in DOMAIN clients' <=> K # {}
           /\ \A k \in Keys : Owners(k)' = IF k \in K THEN Owners(k) \cup {c}
                                                      ELSE Owners(k) \ {c}
<1>1. CASE K = {}
  BY <1>1 DEF WithClient, TypeOK, Owners
<1>2. CASE K # {}
  BY <1>2 DEF WithClient, TypeOK, Owners
<1>. QED  BY <1>1, <1>2

-----------------------------------------------------------------------------
(* The initial state *)

LEMMA InitEstablishes == Init => IInv
<1>. SUFFICES ASSUME Init PROVE IInv
  OBVIOUS
<1>1. TypeOK
  BY DEF Init, TypeOK
<1>2. \A k \in Keys : Owners(k) = {}
  BY DEF Init, Owners
<1>3. \A k \in Keys : IsFiniteSet(Owners(k))
  BY <1>2, FS_EmptySet
<1>4. ReferenceCountsExact
  BY <1>2 DEF Init, ReferenceCountsExact
<1>5. SnapshotIsDemand
  BY <1>2 DEF Init, SnapshotIsDemand
<1>6. \A p \in Providers : limit_for(p) \in Nat
  BY LimitsAssumption DEF limit_for, Capped
<1>7. \A p \in Providers : OfProvider({}, p) = {}
  BY DEF OfProvider
<1>8. WithinLimits
  <2>1. \A p \in Providers : Cardinality(OfProvider(desired, p)) = 0
    BY <1>7, FS_EmptySet DEF Init
  <2>2. \A p \in Providers : Cardinality(OfProvider(desired, p)) <= limit_for(p)
    BY <1>6, <2>1
  <2>3. DOMAIN clients = {}
    BY DEF Init
  <2>. QED  BY <2>2, <2>3 DEF WithinLimits, HoldingFits, DemandFits
<1>9. NoLostWakeup
  BY DEF Init, NoLostWakeup
<1>. QED  BY <1>1, <1>3, <1>4, <1>5, <1>8, <1>9 DEF IInv

-----------------------------------------------------------------------------
(* The operations *)

\* add, when it is accepted and adds something, preserves the invariant.
LEMMA AddPreserves ==
    ASSUME IInv, NEW c \in Clients, NEW requested \in SUBSET Keys,
           ~ AddRejected(c, requested), Added(c, requested) # {},
           AddKeys(c, Added(c, requested))
    PROVE  IInv'
<1>. DEFINE A == Added(c, requested)
            F == Fresh(c, requested)
<1>. USE DEF IInv
<1>0. /\ A \subseteq Keys /\ A # {} /\ A \cap Existing(c) = {}
      /\ Existing(c) \subseteq Keys
      /\ F = A \ DOMAIN reference_counts
      /\ IsFiniteSet(A) /\ IsFiniteSet(Existing(c)) /\ IsFiniteSet(desired)
  <2>1. A \subseteq Keys /\ A # {} /\ A \cap Existing(c) = {}
    BY DEF Added
  <2>2. Existing(c) \subseteq Keys
    BY DEF Existing, TypeOK
  <2>3. F = A \ DOMAIN reference_counts
    BY DEF Fresh
  <2>4. desired \subseteq Keys
    BY DEF TypeOK
  <2>. QED  BY <2>1, <2>2, <2>3, <2>4, KeysAssumption, FS_Subset
<1>1. {k \in A : Increment(A)[k] = 1} = F
  <2>1. \A k \in A : k \in DOMAIN reference_counts => reference_counts[k] \in Nat \ {0}
    <3>. SUFFICES ASSUME NEW k \in A, k \in DOMAIN reference_counts
                  PROVE  reference_counts[k] \in Nat \ {0}
      OBVIOUS
    <3>1. Owners(k) # {} /\ IsFiniteSet(Owners(k))
      BY <1>0 DEF ReferenceCountsExact
    <3>2. Cardinality(Owners(k)) \in Nat \ {0}
      BY <3>1, FS_CardinalityType, FS_EmptySet
    <3>. QED  BY <3>2 DEF ReferenceCountsExact
  <2>. QED  BY <1>0, <2>1 DEF Increment
<1>2. /\ clients' = WithClient(c, Existing(c) \cup A)
      /\ reference_counts' = Increment(A)
      /\ desired' = desired \cup F
      /\ view' = view
      /\ F = {} => snapshot' = snapshot /\ unseen' = unseen
      /\ F # {} => snapshot' = desired' /\ unseen' = DOMAIN view
  BY <1>1 DEF AddKeys, SendIfChanged
<1>3. /\ DOMAIN clients' \subseteq Clients
      /\ clients' = [d \in DOMAIN clients' |-> clients'[d]]
      /\ \A d \in DOMAIN clients' :
            clients'[d] = IF d = c THEN Existing(c) \cup A ELSE clients[d]
      /\ \A d \in DOMAIN clients' : d # c => d \in DOMAIN clients
      /\ \A k \in Keys : Owners(k)' = IF k \in Existing(c) \cup A
                                      THEN Owners(k) \cup {c} ELSE Owners(k) \ {c}
  <2>1. Existing(c) \cup A \in SUBSET Keys
    BY <1>0
  <2>. HIDE DEF A
  <2>. QED  BY <1>2, <2>1, WithClientOwners
<1>4. \A k \in Keys : /\ k \in Existing(c) <=> c \in Owners(k)
                      /\ Owners(k)' = IF k \in A THEN Owners(k) \cup {c} ELSE Owners(k)
  BY <1>0, <1>3 DEF Owners, Existing
<1>5. TypeOK'
  <2>1. \A d \in DOMAIN clients' : clients'[d] \subseteq Keys
    BY <1>0, <1>3 DEF TypeOK
  <2>2. /\ DOMAIN reference_counts' \subseteq Keys
        /\ \A k \in DOMAIN reference_counts' : reference_counts'[k] \in Nat \ {0}
        /\ reference_counts' = [k \in DOMAIN reference_counts' |-> reference_counts'[k]]
    BY <1>0, <1>2 DEF TypeOK, Increment
  <2>3. desired' \subseteq Keys /\ snapshot' \subseteq Keys
    BY <1>0, <1>2 DEF TypeOK
  <2>. QED  BY <1>2, <1>3, <2>1, <2>2, <2>3 DEF TypeOK
<1>6. \A k \in Keys : IsFiniteSet(Owners(k)')
  BY <1>4, FS_AddElement
<1>7. ReferenceCountsExact'
  <2>1. \A k \in Keys : k \in DOMAIN reference_counts' <=> Owners(k)' # {}
    BY <1>0, <1>2, <1>4 DEF Increment, ReferenceCountsExact
  <2>2. ASSUME NEW k \in DOMAIN reference_counts'
        PROVE  reference_counts'[k] = Cardinality(Owners(k)')
    <3>1. k \in Keys /\ IsFiniteSet(Owners(k))
      BY <1>5 DEF TypeOK
    <3>2. CASE k \notin A
      BY <1>2, <1>4, <2>2, <3>1, <3>2 DEF Increment, ReferenceCountsExact
    <3>3. CASE k \in A
      <4>1. c \notin Owners(k) /\ Owners(k)' = Owners(k) \cup {c}
        BY <1>0, <1>4, <3>1, <3>3
      <4>2. Cardinality(Owners(k)') = Cardinality(Owners(k)) + 1
        BY <4>1, <3>1, FS_AddElement
      <4>3. CASE k \in DOMAIN reference_counts
        BY <1>2, <3>3, <4>2, <4>3 DEF Increment, ReferenceCountsExact
      <4>4. CASE k \notin DOMAIN reference_counts
        <5>1. Owners(k) = {}
          BY <3>1, <4>4 DEF ReferenceCountsExact
        <5>2. Cardinality(Owners(k)) = 0
          BY <5>1, FS_EmptySet
        <5>3. reference_counts'[k] = 1
          BY <1>2, <3>3, <4>4 DEF Increment
        <5>. QED  BY <4>2, <5>2, <5>3
      <4>. QED  BY <4>3, <4>4
    <3>. QED  BY <3>2, <3>3
  <2>. QED  BY <2>1, <2>2 DEF ReferenceCountsExact
<1>8. SnapshotIsDemand'
  <2>1. F = {k \in A : Owners(k) = {}}
    BY <1>0 DEF ReferenceCountsExact
  <2>2. desired' = {k \in Keys : Owners(k)' # {}}
    BY <1>0, <1>2, <1>4, <2>1 DEF SnapshotIsDemand
  <2>3. snapshot' = desired'
    BY <1>2 DEF SnapshotIsDemand
  <2>. QED  BY <2>2, <2>3 DEF SnapshotIsDemand
<1>9. WithinLimits'
  <2>1. Cardinality(Existing(c) \cup A) <= MaxPerClient
    <3>1. Cardinality(Existing(c)) + Cardinality(A) <= MaxPerClient
      BY <1>0, FS_CardinalityType, LimitsAssumption DEF AddRejected, ClientLimitExceeded
    <3>2. Cardinality(Existing(c) \cup A) = Cardinality(Existing(c)) + Cardinality(A)
      BY <1>0, CardinalityOfUnion
    <3>. QED  BY <3>1, <3>2
  <2>2. \A d \in DOMAIN clients' :
           clients'[d] # {} /\ Cardinality(clients'[d]) <= MaxPerClient
    BY <1>0, <1>3, <2>1 DEF WithinLimits, HoldingFits, DemandFits
  <2>3. ASSUME NEW p \in Providers
        PROVE  Cardinality(OfProvider(desired', p)) <= limit_for(p)
    <3>1. limit_for(p) \in Nat
      BY LimitsAssumption DEF limit_for, Capped
    <3>2. IsFiniteSet(OfProvider(desired, p)) /\ IsFiniteSet(OfProvider(F, p))
      <4>1. OfProvider(desired, p) \subseteq desired /\ OfProvider(F, p) \subseteq A
        BY <1>0 DEF OfProvider
      <4>. QED  BY <1>0, <4>1, FS_Subset
    <3>3. Cardinality(OfProvider(desired, p)) + Cardinality(OfProvider(F, p)) <= limit_for(p)
      BY <3>1, <3>2, FS_CardinalityType DEF AddRejected, ProviderLimitExceeded
    <3>4. OfProvider(desired', p) = OfProvider(desired, p) \cup OfProvider(F, p)
      BY <1>2 DEF OfProvider
    <3>5. /\ Cardinality(OfProvider(desired, p)) \in Nat
          /\ Cardinality(OfProvider(F, p)) \in Nat
          /\ Cardinality(OfProvider(desired', p)) \in Nat
          /\ Cardinality(OfProvider(desired', p))
                <= Cardinality(OfProvider(desired, p)) + Cardinality(OfProvider(F, p))
      BY <3>2, <3>4, CardinalityOfUnion
    <3>. QED  BY <3>1, <3>3, <3>5
  <2>. QED  BY <2>2, <2>3 DEF WithinLimits, HoldingFits, DemandFits, limit_for, Capped, OfProvider
<1>10. NoLostWakeup'
  BY <1>2 DEF NoLostWakeup, TypeOK
<1>. QED  BY <1>5, <1>6, <1>7, <1>8, <1>9, <1>10

\* Releasing keys a client owns, as remove and cleanup_client do, preserves
\* the invariant.
LEMMA RemovePreserves ==
    ASSUME IInv, NEW c \in Clients, NEW R \in SUBSET Existing(c),
           RemoveKeys(c, R)
    PROVE  IInv'
<1>. USE DEF IInv
<1>. DEFINE Z == Deactivated(R)
<1>0. R \subseteq Keys /\ Existing(c) \subseteq Keys /\ IsFiniteSet(desired)
  BY KeysAssumption, FS_Subset DEF Existing, TypeOK
<1>1. /\ clients' = WithClient(c, Existing(c) \ R)
      /\ reference_counts' = Decrement(R)
      /\ desired' = desired \ Z
      /\ view' = view
      /\ Z = {} => snapshot' = snapshot /\ unseen' = unseen
      /\ Z # {} => snapshot' = desired' /\ unseen' = DOMAIN view
  BY DEF RemoveKeys, SendIfChanged
<1>2. /\ DOMAIN clients' \subseteq Clients
      /\ clients' = [d \in DOMAIN clients' |-> clients'[d]]
      /\ \A d \in DOMAIN clients' :
            clients'[d] = IF d = c THEN Existing(c) \ R ELSE clients[d]
      /\ \A d \in DOMAIN clients' : d # c => d \in DOMAIN clients
      /\ c \in DOMAIN clients' <=> Existing(c) \ R # {}
      /\ \A k \in Keys : Owners(k)' = IF k \in Existing(c) \ R
                                      THEN Owners(k) \cup {c} ELSE Owners(k) \ {c}
  <2>1. Existing(c) \ R \in SUBSET Keys
    BY <1>0
  <2>. QED  BY <1>1, <2>1, WithClientOwners
<1>3. \A k \in Keys : /\ k \in Existing(c) <=> c \in Owners(k)
                      /\ Owners(k)' = IF k \in R THEN Owners(k) \ {c} ELSE Owners(k)
  BY <1>0, <1>2 DEF Owners, Existing
<1>4. \A k \in Keys : IsFiniteSet(Owners(k)')
  BY <1>3, FS_RemoveElement
<1>5. \A k \in R : /\ k \in DOMAIN reference_counts
                   /\ reference_counts[k] \in Nat
                   /\ reference_counts[k] = Cardinality(Owners(k))
                   /\ Cardinality(Owners(k)') = reference_counts[k] - 1
  <2>. SUFFICES ASSUME NEW k \in R
                PROVE  /\ k \in DOMAIN reference_counts
                       /\ reference_counts[k] \in Nat
                       /\ reference_counts[k] = Cardinality(Owners(k))
                       /\ Cardinality(Owners(k)') = reference_counts[k] - 1
    OBVIOUS
  <2>1. k \in Keys /\ c \in Owners(k) /\ Owners(k)' = Owners(k) \ {c}
    BY <1>0, <1>3
  <2>2. /\ k \in DOMAIN reference_counts
        /\ reference_counts[k] \in Nat
        /\ reference_counts[k] = Cardinality(Owners(k))
    BY <2>1 DEF ReferenceCountsExact, TypeOK
  <2>3. Cardinality(Owners(k) \ {c}) = Cardinality(Owners(k)) - 1
    BY <2>1, FS_RemoveElement
  <2>. QED  BY <2>1, <2>2, <2>3
<1>6. Z = {k \in R : Owners(k)' = {}}
  <2>1. \A k \in R : reference_counts[k] <= 1 <=> Owners(k)' = {}
    <3>. SUFFICES ASSUME NEW k \in R
                  PROVE  reference_counts[k] <= 1 <=> Owners(k)' = {}
      OBVIOUS
    <3>1. k \in Keys /\ IsFiniteSet(Owners(k)')
      BY <1>0, <1>4
    <3>2. Cardinality(Owners(k)') \in Nat /\ (Cardinality(Owners(k)') = 0 <=> Owners(k)' = {})
      BY <3>1, FS_CardinalityType, FS_EmptySet
    <3>. QED  BY <1>5, <3>2
  <2>. QED  BY <1>5, <2>1 DEF Deactivated
<1>7. TypeOK'
  <2>1. \A d \in DOMAIN clients' : clients'[d] \subseteq Keys
    BY <1>0, <1>2 DEF TypeOK
  <2>2. /\ DOMAIN reference_counts' \subseteq Keys
        /\ reference_counts' = [k \in DOMAIN reference_counts' |-> reference_counts'[k]]
    BY <1>1 DEF TypeOK, Decrement
  <2>3. ASSUME NEW k \in DOMAIN reference_counts'
        PROVE  reference_counts'[k] \in Nat \ {0}
    <3>1. k \in DOMAIN reference_counts /\ k \notin Z
      BY <1>1 DEF Decrement
    <3>2. k \in R => reference_counts[k] > 1
      BY <1>5, <3>1 DEF Deactivated
    <3>. QED  BY <1>1, <1>5, <3>1, <3>2 DEF Decrement, TypeOK
  <2>4. desired' \subseteq Keys /\ snapshot' \subseteq Keys
    BY <1>1 DEF TypeOK
  <2>. QED  BY <1>1, <1>2, <2>1, <2>2, <2>3, <2>4 DEF TypeOK
<1>8. ReferenceCountsExact'
  <2>1. \A k \in Keys : k \in DOMAIN reference_counts' <=> Owners(k)' # {}
    BY <1>0, <1>1, <1>3, <1>6 DEF Decrement, ReferenceCountsExact
  <2>2. ASSUME NEW k \in DOMAIN reference_counts'
        PROVE  reference_counts'[k] = Cardinality(Owners(k)')
    <3>1. k \in Keys /\ k \in DOMAIN reference_counts
      BY <1>1, <1>7 DEF Decrement, TypeOK
    <3>2. CASE k \in R
      BY <1>1, <1>5, <2>2, <3>2 DEF Decrement
    <3>3. CASE k \notin R
      BY <1>1, <1>3, <2>2, <3>1, <3>3 DEF Decrement, ReferenceCountsExact
    <3>. QED  BY <3>2, <3>3
  <2>. QED  BY <2>1, <2>2 DEF ReferenceCountsExact
<1>9. SnapshotIsDemand'
  <2>1. desired' = {k \in Keys : Owners(k)' # {}}
    BY <1>0, <1>1, <1>3, <1>6 DEF SnapshotIsDemand
  <2>2. snapshot' = desired'
    BY <1>1 DEF SnapshotIsDemand
  <2>. QED  BY <2>1, <2>2 DEF SnapshotIsDemand
<1>10. WithinLimits'
  <2>1. ASSUME NEW d \in DOMAIN clients'
        PROVE  clients'[d] # {} /\ Cardinality(clients'[d]) <= MaxPerClient
    <3>1. CASE d # c
      BY <1>2, <3>1 DEF WithinLimits, HoldingFits, DemandFits
    <3>2. CASE d = c
      <4>1. c \in DOMAIN clients /\ clients'[c] = clients[c] \ R /\ clients'[c] # {}
        BY <1>2, <2>1, <3>2 DEF Existing
      <4>2. /\ IsFiniteSet(clients[c]) /\ IsFiniteSet(clients[c] \ R)
            /\ Cardinality(clients[c] \ R) <= Cardinality(clients[c])
        BY <4>1, KeysAssumption, FS_Subset DEF TypeOK
      <4>3. Cardinality(clients[c]) <= MaxPerClient
        BY <4>1 DEF WithinLimits, HoldingFits, DemandFits
      <4>4. Cardinality(clients[c]) \in Nat /\ Cardinality(clients[c] \ R) \in Nat
        BY <4>2, FS_CardinalityType
      <4>. QED  BY <3>2, <4>1, <4>2, <4>3, <4>4, LimitsAssumption
    <3>. QED  BY <3>1, <3>2
  <2>2. ASSUME NEW p \in Providers
        PROVE  Cardinality(OfProvider(desired', p)) <= limit_for(p)
    <3>1. limit_for(p) \in Nat
      BY LimitsAssumption DEF limit_for, Capped
    <3>2. OfProvider(desired, p) \subseteq desired /\ OfProvider(desired', p) \subseteq OfProvider(desired, p)
      BY <1>1 DEF OfProvider
    <3>3. IsFiniteSet(OfProvider(desired, p))
      BY <1>0, <3>2, FS_Subset
    <3>4. /\ IsFiniteSet(OfProvider(desired', p))
          /\ Cardinality(OfProvider(desired', p)) <= Cardinality(OfProvider(desired, p))
      BY <3>2, <3>3, FS_Subset
    <3>5. Cardinality(OfProvider(desired, p)) <= limit_for(p)
      BY DEF WithinLimits, HoldingFits, DemandFits
    <3>6. Cardinality(OfProvider(desired, p)) \in Nat /\ Cardinality(OfProvider(desired', p)) \in Nat
      BY <3>3, <3>4, FS_CardinalityType
    <3>. QED  BY <3>1, <3>4, <3>5, <3>6
  <2>. QED  BY <2>1, <2>2 DEF WithinLimits, HoldingFits, DemandFits, limit_for, Capped, OfProvider
<1>11. NoLostWakeup'
  BY <1>1 DEF NoLostWakeup, TypeOK
<1>. QED  BY <1>4, <1>7, <1>8, <1>9, <1>10, <1>11

-----------------------------------------------------------------------------
(* Invariance *)

\* Every step of the registry, of its clients and of its watch receivers
\* preserves the invariant.
LEMMA NextPreserves == IInv /\ [Next]_vars => IInv'
<1>. SUFFICES ASSUME IInv, [Next]_vars PROVE IInv'
  OBVIOUS
<1>0. ASSUME UNCHANGED vars PROVE IInv'
  BY <1>0 DEF vars, IInv, TypeOK, Owners, ReferenceCountsExact, SnapshotIsDemand,
              WithinLimits, HoldingFits, DemandFits, OfProvider, NoLostWakeup
<1>1. ASSUME NEW c \in Clients, NEW requested \in SUBSET Keys, add(c, requested)
      PROVE  IInv'
  BY <1>0, <1>1, AddPreserves DEF add
<1>2. ASSUME NEW c \in Clients, NEW requested \in SUBSET Keys, remove(c, requested)
      PROVE  IInv'
  <2>1. requested \cap Existing(c) \in SUBSET Existing(c)
    OBVIOUS
  <2>. QED  BY <1>0, <1>2, <2>1, RemovePreserves DEF remove
<1>3. ASSUME NEW c \in Clients, cleanup_client(c)
      PROVE  IInv'
  <2>1. c \in DOMAIN clients => clients[c] \in SUBSET Existing(c)
    BY DEF Existing
  <2>. QED  BY <1>0, <1>3, <2>1, RemovePreserves DEF cleanup_client
<1>4. ASSUME NEW r \in Receivers, subscribe_desired(r)
      PROVE  IInv'
  <2>1. TypeOK'
    BY <1>4 DEF subscribe_desired, IInv, TypeOK
  <2>2. NoLostWakeup'
    BY <1>4 DEF subscribe_desired, IInv, TypeOK, NoLostWakeup
  <2>. QED  BY <1>4, <2>1, <2>2 DEF subscribe_desired, IInv, Owners, ReferenceCountsExact,
                                    SnapshotIsDemand, WithinLimits, HoldingFits, DemandFits, OfProvider
<1>5. ASSUME NEW r \in Receivers, Observe(r)
      PROVE  IInv'
  <2>1. TypeOK'
    BY <1>5 DEF Observe, IInv, TypeOK
  <2>2. NoLostWakeup'
    BY <1>5 DEF Observe, IInv, TypeOK, NoLostWakeup
  <2>. QED  BY <1>5, <2>1, <2>2 DEF Observe, IInv, Owners, ReferenceCountsExact,
                                    SnapshotIsDemand, WithinLimits, HoldingFits, DemandFits, OfProvider
<1>. QED  BY <1>0, <1>1, <1>2, <1>3, <1>4, <1>5 DEF Next

\* The inductive invariant holds in every reachable state.
THEOREM Invariance == Spec => []IInv
BY InitEstablishes, NextPreserves, PTL DEF Spec

\* The registry's maps stay well formed.
THEOREM TypeCorrect == Spec => []TypeOK
BY Invariance, PTL DEF IInv

\* Reference counts are the numbers of owners, whatever the interleaving of
\* add, remove and cleanup_client.
THEOREM CountsAreExact == Spec => []ReferenceCountsExact
BY Invariance, PTL DEF IInv

\* The published snapshot is the union of what the clients own.
THEOREM PublishedIsDemand == Spec => []SnapshotIsDemand
BY Invariance, PTL DEF IInv

\* No client and no provider is ever past its ceiling.
THEOREM CeilingsHold == Spec => []WithinLimits
BY Invariance, PTL DEF IInv

\* A receiver that is not flagged as changed has read the current demand.
THEOREM WakeupsAreKept == Spec => []NoLostWakeup
BY Invariance, PTL DEF IInv

\* A supervisor is woken only by a step in which some key's reference count
\* crosses zero.
THEOREM WakesOnlyOnCrossing == Spec => NotifiedOnlyOnCrossing
<1>. DEFINE Quiet == (unseen' \ unseen # {})
                       => (DOMAIN reference_counts' # DOMAIN reference_counts)
<1>1. ASSUME IInv, [Next]_vars PROVE Quiet \/ UNCHANGED vars
  <2>1. ASSUME NEW c \in Clients, NEW requested \in SUBSET Keys, add(c, requested)
        PROVE  Quiet \/ UNCHANGED vars
    <3>. SUFFICES ASSUME AddKeys(c, Added(c, requested)), unseen' # unseen
                  PROVE  DOMAIN reference_counts' # DOMAIN reference_counts
      BY <2>1 DEF add
    <3>1. PICK k \in Added(c, requested) : Increment(Added(c, requested))[k] = 1
      BY DEF AddKeys, SendIfChanged
    <3>2. k \in Keys /\ IsFiniteSet(Owners(k)) /\ k \notin Existing(c)
      BY <1>1 DEF Added, IInv
    <3>3. k \notin DOMAIN reference_counts
      <4>. SUFFICES ASSUME k \in DOMAIN reference_counts PROVE FALSE
        OBVIOUS
      <4>1. Owners(k) # {} /\ reference_counts[k] = Cardinality(Owners(k))
        BY <1>1, <3>2 DEF IInv, ReferenceCountsExact
      <4>2. reference_counts[k] \in Nat /\ reference_counts[k] # 0
        BY <3>2, <4>1, FS_CardinalityType, FS_EmptySet
      <4>3. Increment(Added(c, requested))[k] = reference_counts[k] + 1
        BY DEF Increment
      <4>. QED  BY <3>1, <4>2, <4>3
    <3>4. k \in DOMAIN reference_counts'
      BY DEF AddKeys, Increment
    <3>. QED  BY <3>3, <3>4
  <2>2. ASSUME NEW c \in Clients, NEW R \in SUBSET Existing(c), RemoveKeys(c, R)
        PROVE  Quiet
    <3>. SUFFICES ASSUME unseen' # unseen
                  PROVE  DOMAIN reference_counts' # DOMAIN reference_counts
      OBVIOUS
    <3>1. PICK k \in R : k \in Deactivated(R)
      BY <2>2 DEF RemoveKeys, SendIfChanged, Deactivated
    <3>. QED  BY <2>2, <3>1 DEF RemoveKeys, Decrement, Deactivated
  <2>3. ASSUME NEW c \in Clients, NEW requested \in SUBSET Keys, remove(c, requested)
        PROVE  Quiet \/ UNCHANGED vars
    <3>1. requested \cap Existing(c) \in SUBSET Existing(c)
      OBVIOUS
    <3>. QED  BY <2>2, <2>3, <3>1 DEF remove
  <2>4. ASSUME NEW c \in Clients, cleanup_client(c)
        PROVE  Quiet \/ UNCHANGED vars
    <3>1. c \in DOMAIN clients => clients[c] \in SUBSET Existing(c)
      BY DEF Existing
    <3>. QED  BY <2>2, <2>4, <3>1 DEF cleanup_client
  <2>5. ASSUME NEW r \in Receivers, subscribe_desired(r) \/ Observe(r)
        PROVE  Quiet
    BY <2>5 DEF subscribe_desired, Observe
  <2>. QED  BY <1>1, <2>1, <2>3, <2>4, <2>5 DEF Next
<1>2. IInv /\ [Next]_vars => [Quiet]_vars
  BY <1>1 DEF vars
<1>. QED  BY <1>2, Invariance, PTL DEF Spec, NotifiedOnlyOnCrossing

-----------------------------------------------------------------------------
(* The registry implements the abstract demand *)

\* Under the invariant the published snapshot is the union of the holdings.
LEMMA SnapshotIsUnion ==
    ASSUME IInv
    PROVE  snapshot = UNION {Existing(c) : c \in Clients}
BY DEF IInv, SnapshotIsDemand, Owners, Existing, TypeOK

\* A step that replaces one client's keys replaces its abstract holding.
LEMMA HoldingFollows ==
    ASSUME TypeOK, NEW c \in Clients, NEW K \in SUBSET Keys,
           clients' = WithClient(c, K)
    PROVE  /\ Existing(c)' = K
           /\ \A d \in Clients : d # c => Existing(d)' = Existing(d)
<1>1. CASE K = {}
  BY <1>1 DEF WithClient, Existing, TypeOK
<1>2. CASE K # {}
  BY <1>2 DEF WithClient, Existing, TypeOK
<1>. QED  BY <1>1, <1>2

\* No holding, present or empty, is past the per-client ceiling.
LEMMA HoldingWithinLimit ==
    ASSUME IInv, NEW c \in Clients
    PROVE  HoldingFits(Existing(c))
<1>1. CASE c \in DOMAIN clients
  BY <1>1 DEF IInv, WithinLimits, Existing
<1>2. CASE c \notin DOMAIN clients
  BY <1>2, FS_EmptySet, LimitsAssumption DEF Existing, HoldingFits
<1>. QED  BY <1>1, <1>2

\* The two facts above, as one state formula.
HoldingsPublished ==
    /\ snapshot = UNION {Existing(c) : c \in Clients}
    /\ \A c \in Clients : HoldingFits(Existing(c))

\* The invariant gives it, in the present state and after a step.
LEMMA HoldingFacts == IInv => HoldingsPublished
BY SnapshotIsUnion, HoldingWithinLimit DEF HoldingsPublished

\* The registry, counts, snapshots, wake-ups and all, implements the abstract
\* demand specification: every operation replaces one client's holding or
\* nothing, and the published set is the union of the holdings throughout.
THEOREM Refinement == Spec => ImplementsDemand
<1>1. Init => D!Init
  BY DEF Init, D!Init, Existing
<1>2. IInv' => HoldingsPublished'
  BY HoldingFacts, PTL
<1>3. ASSUME IInv, IInv', NEW c \in Clients, NEW K \in SUBSET Keys,
             clients' = WithClient(c, K)
      PROVE  D!Replace(c, K)
  <2>1. Existing(c)' = K /\ \A d \in Clients : d # c => Existing(d)' = Existing(d)
    BY <1>3, HoldingFollows DEF IInv
  <2>2. HoldingFits(K)
    BY <1>2, <1>3, <2>1 DEF HoldingsPublished, HoldingFits
  <2>3. [d \in Clients |-> Existing(d)'] = [[d \in Clients |-> Existing(d)] EXCEPT ![c] = K]
    BY <2>1
  <2>4. snapshot' = UNION {[d \in Clients |-> Existing(d)'][e] : e \in Clients}
    BY <1>2, <1>3 DEF HoldingsPublished
  <2>. QED  BY <2>2, <2>3, <2>4 DEF D!Replace, D!Union
<1>4. ASSUME IInv, IInv', NEW c \in Clients, NEW requested \in SUBSET Keys,
             AddKeys(c, Added(c, requested))
      PROVE  D!Next
  <2>. DEFINE K == Existing(c) \cup Added(c, requested)
  <2>1. K \in SUBSET Keys
    BY <1>4 DEF Existing, Added, IInv, TypeOK
  <2>2. D!Replace(c, K)
    <3>. HIDE DEF K
    <3>. QED  BY <1>3, <1>4, <2>1 DEF AddKeys, K
  <2>3. DemandFits(snapshot')
    <3>1. WithinLimits' /\ snapshot' = desired'
      BY <1>4 DEF IInv, SnapshotIsDemand
    <3>. QED  BY <3>1 DEF WithinLimits, DemandFits, limit_for, Capped, OfProvider
  <2>4. D!Grow(c, K)
    BY <2>2, <2>3 DEF D!Grow
  <2>. QED  BY <2>1, <2>4 DEF D!Next
<1>5. ASSUME IInv, IInv', NEW c \in Clients, NEW R \in SUBSET Existing(c),
             RemoveKeys(c, R)
      PROVE  D!Next
  <2>. DEFINE K == Existing(c) \ R
  <2>1. K \in SUBSET Keys
    BY <1>5 DEF Existing, IInv, TypeOK
  <2>2. D!Replace(c, K)
    <3>. HIDE DEF K
    <3>. QED  BY <1>3, <1>5, <2>1 DEF RemoveKeys, K
  <2>3. D!Shrink(c, K)
    BY <2>2 DEF D!Shrink
  <2>. QED  BY <2>1, <2>3 DEF D!Next
<1>6. ASSUME UNCHANGED <<clients, snapshot>> PROVE UNCHANGED D!vars
  BY <1>6 DEF D!vars, Existing
<1>7. IInv /\ IInv' /\ [Next]_vars => [D!Next]_(D!vars)
  <2>. SUFFICES ASSUME IInv, IInv', [Next]_vars
                PROVE  D!Next \/ UNCHANGED <<clients, snapshot>>
    BY <1>6
  <2>1. ASSUME NEW c \in Clients, NEW requested \in SUBSET Keys, add(c, requested)
        PROVE  D!Next \/ UNCHANGED <<clients, snapshot>>
    BY <1>4, <2>1 DEF add, vars
  <2>2. ASSUME NEW c \in Clients, NEW requested \in SUBSET Keys, remove(c, requested)
        PROVE  D!Next \/ UNCHANGED <<clients, snapshot>>
    <3>1. requested \cap Existing(c) \in SUBSET Existing(c)
      OBVIOUS
    <3>. QED  BY <1>5, <2>2, <3>1 DEF remove, vars
  <2>3. ASSUME NEW c \in Clients, cleanup_client(c)
        PROVE  D!Next \/ UNCHANGED <<clients, snapshot>>
    <3>1. c \in DOMAIN clients => clients[c] \in SUBSET Existing(c)
      BY DEF Existing
    <3>. QED  BY <1>5, <2>3, <3>1 DEF cleanup_client, vars
  <2>4. ASSUME NEW r \in Receivers, subscribe_desired(r) \/ Observe(r)
        PROVE  UNCHANGED <<clients, snapshot>>
    BY <2>4 DEF subscribe_desired, Observe
  <2>. QED  BY <2>1, <2>2, <2>3, <2>4 DEF Next, vars
<1>. QED  BY <1>1, <1>7, Invariance, PTL DEF Spec, ImplementsDemand, D!Spec
=============================================================================
