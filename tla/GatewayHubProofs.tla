-------------------------- MODULE GatewayHubProofs --------------------------
(***************************************************************************)
(* Proofs about the event hub, for any clients, keys and publishers        *)
(* (finitely many or not), any queue capacity and any client limit.        *)
(***************************************************************************)
EXTENDS GatewayHub, FiniteSetTheorems, SequenceTheorems, TLAPS

-----------------------------------------------------------------------------
(* The inductive invariant *)

\* The number the next event to be routed has: the one in flight, if any.
Horizon == IF publish_order = None THEN next_delivery_sequence
           ELSE next_delivery_sequence - 1

\* The queue f of a session that last took the number d holds numbers of
\* (d, h), in ascending order, and no more than fit.
Ordered(f, d, h) ==
    /\ d < h
    /\ \A i \in DOMAIN f.events : d < f.events[i].sequence /\ f.events[i].sequence < h
    /\ \A i, j \in DOMAIN f.events : i < j => f.events[i].sequence < f.events[j].sequence
    /\ Len(f.events) <= Capacity

Feed == [events : Seq(Event), lagged : Nat, open : BOOLEAN]

TypeOK ==
    /\ next_delivery_sequence \in 1 .. MaxSequence
    /\ publish_order \in Publishers \cup {None}
    /\ in_flight \in [Publishers -> Event \cup {None}]
    /\ DOMAIN clients \subseteq Clients
    /\ clients \in [DOMAIN clients -> SUBSET Keys]
    /\ feed \in [Clients -> Feed]
    /\ delivered \in [Clients -> Nat]

\* publish_order is held by exactly the publisher whose event is numbered and
\* not yet routed, and that event has the last number given out.
InFlightOrdered ==
    \A p \in Publishers :
        /\ in_flight[p] # None <=> publish_order = p
        /\ in_flight[p] # None => in_flight[p].sequence = next_delivery_sequence - 1

WithinLimit == IsFiniteSet(DOMAIN clients) /\ Cardinality(DOMAIN clients) <= MaxClients

\* The queues are ordered only because no number at or above Horizon is in one
\* yet, which is what holding publish_order from the numbering to the end of the
\* routing provides.
IInv ==
    /\ TypeOK
    /\ InFlightOrdered
    /\ WithinLimit
    /\ RoutesAgree
    /\ \A c \in Clients : Ordered(feed[c], delivered[c], Horizon)

-----------------------------------------------------------------------------
(* The route tables *)

\* The inverse of the routes that next describes.
ByKey(next) ==
    [k \in UNION {next[c] : c \in DOMAIN next} |-> {c \in DOMAIN next : k \in next[c]}]

\* next describes the current routes less what each client of C loses, with
\* what it gains.
Moved(next, C, lost, gained) ==
    /\ DOMAIN next \subseteq Clients
    /\ \A d \in DOMAIN next : next[d] \subseteq Keys
    /\ \A d \in Clients, k \in Keys :
          (d \in DOMAIN next /\ k \in next[d]) <=>
              \/ k \in Routed(d) /\ ~ (d \in C /\ k \in lost[d])
              \/ d \in C /\ k \in gained[d]

\* Rerouted turns the inverse of the old routes into the inverse of the new ones.
LEMMA ReroutedAgrees ==
    ASSUME TypeOK, RoutesAgree,
           NEW C \in SUBSET Clients, NEW lost, NEW gained, NEW next,
           Moved(next, C, lost, gained)
    PROVE  Rerouted(C, lost, gained) = ByKey(next)
<1>. USE DEF Moved
<1>. DEFINE of(k) == IF k \in DOMAIN clients_by_key THEN clients_by_key[k] ELSE {}
            now(k) == (of(k) \ {c \in C : k \in lost[c]}) \cup {c \in C : k \in gained[c]}
            then(k) == {c \in DOMAIN next : k \in next[c]}
<1>1. ASSUME NEW k \in Keys PROVE of(k) = {c \in Clients : k \in Routed(c)}
  BY DEF RoutesAgree, TypeOK, Routed
<1>2. ASSUME NEW k \in Keys PROVE now(k) = then(k)
  BY <1>1
<1>3. {k \in Keys : now(k) # {}} = UNION {next[c] : c \in DOMAIN next}
  <2>1. ASSUME NEW k \in Keys PROVE then(k) # {} <=> k \in UNION {next[c] : c \in DOMAIN next}
    OBVIOUS
  <2>. HIDE DEF now, then
  <2>. QED  BY <1>2, <2>1
<1>4. Rerouted(C, lost, gained) = [k \in {k \in Keys : now(k) # {}} |-> now(k)]
  BY DEF Rerouted
<1>5. \A k \in {k \in Keys : now(k) # {}} : now(k) = then(k)
  BY <1>2
<1>. HIDE DEF now
<1>. QED  BY <1>3, <1>4, <1>5 DEF ByKey

-----------------------------------------------------------------------------
(* The queues *)

LEMMA OrderedLater ==
    ASSUME NEW f \in Feed, NEW d \in Nat, NEW h \in Nat, NEW g \in Nat,
           Ordered(f, d, h), h <= g
    PROVE  Ordered(f, d, g)
<1>1. f.events \in Seq(Event)
  BY DEF Feed
<1>2. \A i \in DOMAIN f.events : f.events[i] \in Event
  BY <1>1
<1>3. \A i \in DOMAIN f.events : f.events[i].sequence \in Nat
  BY <1>2, HubAssumption DEF Event
<1>. QED  BY <1>3 DEF Ordered

\* The event with the number h goes behind everything the queue holds.
LEMMA OrderedAppend ==
    ASSUME NEW f \in Feed, NEW d \in Nat, NEW h \in Nat, NEW event \in Event,
           Ordered(f, d, h), event.sequence = h, Len(f.events) < Capacity
    PROVE  Ordered([f EXCEPT !.events = Append(@, event)], d, h + 1)
<1>. DEFINE q == f.events  r == Append(q, event)
<1>1. q \in Seq(Event) /\ r \in Seq(Event) /\ Len(r) = Len(q) + 1
  BY DEF Feed
<1>2. r[Len(r)] = event /\ \A i \in DOMAIN q : r[i] = q[i]
  BY <1>1
<1>3. DOMAIN q = 1 .. Len(q) /\ DOMAIN r = 1 .. Len(r)
  BY <1>1
<1>4. \A i \in DOMAIN q : q[i] \in Event
  BY <1>1
<1>5. \A i \in DOMAIN r : d < r[i].sequence /\ r[i].sequence < h + 1
  BY <1>1, <1>2, <1>3, <1>4 DEF Ordered, Event
<1>6. \A i, j \in DOMAIN r : i < j => r[i].sequence < r[j].sequence
  BY <1>1, <1>2, <1>3, <1>4 DEF Ordered, Event
<1>7. [f EXCEPT !.events = Append(@, event)].events = r
  BY DEF Feed
<1>. QED  BY <1>1, <1>5, <1>6, <1>7, HubAssumption, SMTT(40) DEF Ordered

LEMMA OrderedTail ==
    ASSUME NEW f \in Feed, NEW d \in Nat, NEW h \in Nat, Ordered(f, d, h), f.events # <<>>
    PROVE  /\ Head(f.events) \in Event
           /\ Tail(f.events) \in Seq(Event)
           /\ Ordered([f EXCEPT !.events = Tail(@)], Head(f.events).sequence, h)
<1>. DEFINE q == f.events  r == Tail(q)
<1>1. q \in Seq(Event) /\ r \in Seq(Event) /\ Len(r) = Len(q) - 1 /\ Len(q) > 0
  BY DEF Feed
<1>2. Head(q) = q[1] /\ \A i \in 1 .. Len(r) : r[i] = q[i + 1]
  BY <1>1
<1>3. DOMAIN q = 1 .. Len(q) /\ DOMAIN r = 1 .. Len(r)
  BY <1>1
<1>4. \A i \in DOMAIN q : q[i] \in Event
  BY <1>1
<1>a. \A i \in DOMAIN q : q[i].sequence < h
  BY DEF Ordered
<1>b. \A i, j \in DOMAIN q : i < j => q[i].sequence < q[j].sequence
  BY DEF Ordered
<1>c. \A i \in DOMAIN r : i \in Nat /\ 1 < i + 1 /\ 1 \in DOMAIN q /\ i + 1 \in DOMAIN q /\ r[i] = q[i + 1]
  BY <1>1, <1>2, <1>3
<1>5. \A i \in DOMAIN r : q[1].sequence < r[i].sequence /\ r[i].sequence < h
  <2>. HIDE DEF q, r
  <2>. QED  BY <1>a, <1>b, <1>c
<1>6. \A i, j \in DOMAIN r : i < j => r[i].sequence < r[j].sequence
  <2>. HIDE DEF q, r
  <2>. SUFFICES ASSUME NEW i \in DOMAIN r, NEW j \in DOMAIN r, i < j
                PROVE  r[i].sequence < r[j].sequence
    OBVIOUS
  <2>1. i + 1 < j + 1
    BY <1>c
  <2>. QED  BY <2>1, <1>b, <1>c
<1>7. [f EXCEPT !.events = Tail(@)].events = r
  BY DEF Feed
<1>. QED  BY <1>1, <1>2, <1>3, <1>4, <1>5, <1>6, <1>7, HubAssumption, SMTT(40) DEF Ordered

LEMMA OrderedEmpty ==
    ASSUME NEW f \in Feed, f.events = <<>>, NEW h \in Nat \ {0}
    PROVE  Ordered(f, 0, h)
BY HubAssumption DEF Ordered, Feed

LEMMA HorizonNat == ASSUME IInv PROVE Horizon \in Nat \ {0}
BY HubAssumption DEF IInv, TypeOK, Horizon, InFlightOrdered, Event

-----------------------------------------------------------------------------
(* Every step preserves the invariant *)

LEMMA InitIInv == ASSUME Init PROVE IInv
<1>1. TypeOK
  BY HubAssumption DEF Init, TypeOK, Feed, NoFeed
<1>2. InFlightOrdered
  BY HubAssumption DEF Init, InFlightOrdered
<1>3. WithinLimit
  <2>1. DOMAIN clients = {}
    BY DEF Init
  <2>. QED  BY <2>1, FS_EmptySet, HubAssumption DEF WithinLimit
<1>4. RoutesAgree
  BY DEF Init, RoutesAgree
<1>5. ASSUME NEW c \in Clients PROVE Ordered(feed[c], delivered[c], Horizon)
  <2>1. feed[c] \in Feed /\ feed[c].events = <<>> /\ delivered[c] = 0 /\ Horizon = 1
    BY DEF Init, Feed, NoFeed, Horizon
  <2>. QED  BY <2>1, OrderedEmpty
<1>. QED  BY <1>1, <1>2, <1>3, <1>4, <1>5 DEF IInv

LEMMA RegisterPreserves ==
    ASSUME IInv, NEW c \in Clients, try_register_client(c), ~ RegistrationRefused(c)
    PROVE  IInv' /\ Cardinality(DOMAIN clients \cup {c}) <= MaxClients
<1>. USE DEF IInv
<1>0. NewFeed \in Feed
  BY DEF Feed, NewFeed
<1>1. TypeOK'
  BY <1>0 DEF TypeOK, try_register_client
<1>2. InFlightOrdered'
  BY DEF InFlightOrdered, try_register_client
<1>3. Cardinality(DOMAIN clients \cup {c}) <= MaxClients /\ IsFiniteSet(DOMAIN clients \cup {c})
  <2>1. CASE c \in DOMAIN clients
    <3>1. DOMAIN clients \cup {c} = DOMAIN clients
      BY <2>1
    <3>. QED  BY <3>1 DEF WithinLimit
  <2>2. CASE c \notin DOMAIN clients
    <3>1. Cardinality(DOMAIN clients) \in Nat /\ Cardinality(DOMAIN clients) < MaxClients
      BY <2>2, FS_CardinalityType, HubAssumption DEF WithinLimit, RegistrationRefused
    <3>2. /\ IsFiniteSet(DOMAIN clients \cup {c})
          /\ Cardinality(DOMAIN clients \cup {c}) = Cardinality(DOMAIN clients) + 1
      BY <2>2, FS_AddElement DEF WithinLimit
    <3>. QED  BY <3>1, <3>2, HubAssumption
  <2>. QED  BY <2>1, <2>2
<1>4. WithinLimit'
  <2>1. DOMAIN clients' = DOMAIN clients \cup {c}
    BY DEF try_register_client
  <2>. QED  BY <1>3, <2>1 DEF WithinLimit
<1>5. RoutesAgree'
  <2>. DEFINE C == {c}
              L == [d \in {c} |-> Routed(d)]
              G == [d \in {c} |-> {}]
  <2>1. clients_by_key' = Rerouted(C, L, G)
    BY DEF try_register_client
  <2>2. clients' = [d \in DOMAIN clients \cup {c} |-> IF d = c THEN {} ELSE clients[d]]
    BY DEF try_register_client
  <2>3. C \in SUBSET Clients /\ Moved(clients', C, L, G)
    BY <2>2 DEF TypeOK, Moved, Routed
  <2>. HIDE DEF C, L, G
  <2>4. Rerouted(C, L, G) = ByKey(clients')
    BY <2>3, ReroutedAgrees
  <2>. QED  BY <2>1, <2>4 DEF RoutesAgree, ByKey
<1>6. ASSUME NEW d \in Clients PROVE Ordered(feed[d], delivered[d], Horizon)'
  <2>1. Horizon' = Horizon
    BY DEF Horizon, try_register_client
  <2>2. CASE d = c
    <3>1. feed'[d] \in Feed /\ feed'[d].events = <<>> /\ delivered'[d] = 0
      BY <1>0, <1>1, <2>2 DEF TypeOK, try_register_client, NewFeed
    <3>2. Ordered(feed'[d], 0, Horizon)
      BY <3>1, HorizonNat, OrderedEmpty
    <3>. QED  BY <3>1, <3>2, <2>1 DEF Ordered
  <2>3. CASE d # c
    BY <2>1, <2>3 DEF TypeOK, try_register_client, Ordered
  <2>. QED  BY <2>2, <2>3
<1>. QED  BY <1>1, <1>2, <1>3, <1>4, <1>5, <1>6

LEMMA UpdatePreserves ==
    ASSUME IInv, NEW c \in DOMAIN clients, NEW W \in SUBSET Keys,
           update_client_subscriptions(c, W)
    PROVE  IInv'
<1>. USE DEF IInv
<1>1. clients' = [clients EXCEPT ![c] = W] /\ DOMAIN clients' = DOMAIN clients
  BY DEF update_client_subscriptions
<1>2. UNCHANGED <<next_delivery_sequence, publish_order, in_flight, feed, delivered>>
  BY DEF update_client_subscriptions
<1>3. TypeOK' /\ InFlightOrdered' /\ WithinLimit'
  BY <1>1, <1>2 DEF TypeOK, InFlightOrdered, WithinLimit
<1>4. RoutesAgree'
  <2>. DEFINE C == {c}
              L == [d \in {c} |-> clients[d] \ W]
              G == [d \in {c} |-> W \ clients[d]]
  <2>1. clients_by_key' = Rerouted(C, L, G)
    BY DEF update_client_subscriptions
  <2>2. C \in SUBSET Clients /\ Moved(clients', C, L, G)
    BY <1>1 DEF TypeOK, Moved, Routed
  <2>. HIDE DEF C, L, G
  <2>3. Rerouted(C, L, G) = ByKey(clients')
    BY <2>2, ReroutedAgrees
  <2>. QED  BY <2>1, <2>3 DEF RoutesAgree, ByKey
<1>5. ASSUME NEW d \in Clients PROVE Ordered(feed[d], delivered[d], Horizon)'
  BY <1>2 DEF Ordered, Horizon
<1>. QED  BY <1>3, <1>4, <1>5

\* remove_route takes the clients of C out of clients_by_key.
LEMMA RemoveRoutePreserves ==
    ASSUME IInv, NEW C \in SUBSET Clients, NEW D \in SUBSET C, remove_route(C, D)
    PROVE  /\ RoutesAgree' /\ WithinLimit'
           /\ DOMAIN clients' \subseteq Clients
           /\ clients' \in [DOMAIN clients' -> SUBSET Keys]
<1>. USE DEF IInv
<1>1. clients' = [c \in DOMAIN clients \ D |-> IF c \in C THEN {} ELSE clients[c]]
  BY DEF remove_route
<1>2. RoutesAgree'
  <2>. DEFINE L == [c \in C |-> Routed(c)]
              G == [c \in C |-> {}]
  <2>1. clients_by_key' = Rerouted(C, L, G)
    BY DEF remove_route
  <2>2. Moved(clients', C, L, G)
    BY <1>1 DEF TypeOK, Moved, Routed
  <2>. HIDE DEF L, G
  <2>3. Rerouted(C, L, G) = ByKey(clients')
    BY <2>2, ReroutedAgrees
  <2>. QED  BY <2>1, <2>3 DEF RoutesAgree, ByKey
<1>3. WithinLimit'
  <2>1. DOMAIN clients' \subseteq DOMAIN clients
    BY <1>1
  <2>2. /\ IsFiniteSet(DOMAIN clients')
        /\ Cardinality(DOMAIN clients') <= Cardinality(DOMAIN clients)
    BY <2>1, FS_Subset DEF WithinLimit
  <2>. QED  BY <2>2, FS_CardinalityType, HubAssumption DEF WithinLimit
<1>. QED  BY <1>1, <1>2, <1>3 DEF TypeOK

LEMMA RemovePreserves ==
    ASSUME IInv, NEW c \in Clients, remove_client(c)
    PROVE  IInv'
<1>1. UNCHANGED <<next_delivery_sequence, publish_order, in_flight, feed, delivered>>
  BY DEF remove_client
<1>2. /\ RoutesAgree' /\ WithinLimit'
      /\ DOMAIN clients' \subseteq Clients
      /\ clients' \in [DOMAIN clients' -> SUBSET Keys]
  BY RemoveRoutePreserves DEF remove_client
<1>3. TypeOK' /\ InFlightOrdered'
  BY <1>1, <1>2 DEF IInv, TypeOK, InFlightOrdered
<1>4. ASSUME NEW d \in Clients PROVE Ordered(feed[d], delivered[d], Horizon)'
  BY <1>1 DEF IInv, Ordered, Horizon
<1>. QED  BY <1>2, <1>3, <1>4 DEF IInv

LEMMA RecvPreserves ==
    ASSUME IInv, NEW c \in Clients, recv(c)
    PROVE  IInv'
<1>. USE DEF IInv
<1>1. UNCHANGED <<next_delivery_sequence, publish_order, in_flight, clients, clients_by_key>>
  BY DEF recv, routes
<1>2. feed[c] \in Feed /\ delivered[c] \in Nat /\ feed[c].events # <<>>
  BY DEF TypeOK, recv
<1>3. /\ feed' = [feed EXCEPT ![c] = [feed[c] EXCEPT !.events = Tail(@)]]
      /\ delivered' = [delivered EXCEPT ![c] = Head(feed[c].events).sequence]
  BY DEF recv
<1>4. /\ Head(feed[c].events) \in Event
      /\ Tail(feed[c].events) \in Seq(Event)
      /\ Ordered([feed[c] EXCEPT !.events = Tail(@)], Head(feed[c].events).sequence, Horizon)
  BY <1>2, OrderedTail, HorizonNat
<1>5. [feed[c] EXCEPT !.events = Tail(@)] \in Feed /\ Head(feed[c].events).sequence \in Nat
  <2>1. [feed[c] EXCEPT !.events = Tail(@)] \in Feed
    BY <1>2, <1>4 DEF Feed
  <2>2. Head(feed[c].events).sequence \in Nat
    BY <1>4, HubAssumption DEF Event
  <2>. QED  BY <2>1, <2>2
<1>6. TypeOK'
  BY <1>1, <1>3, <1>5 DEF TypeOK
<1>7. InFlightOrdered' /\ WithinLimit' /\ RoutesAgree' /\ Horizon' = Horizon
  BY <1>1 DEF InFlightOrdered, WithinLimit, RoutesAgree, Horizon
<1>8. ASSUME NEW d \in Clients PROVE Ordered(feed[d], delivered[d], Horizon)'
  <2>1. CASE d = c
    <3>1. feed'[d] = [feed[c] EXCEPT !.events = Tail(@)] /\ delivered'[d] = Head(feed[c].events).sequence
      BY <2>1, <1>3 DEF TypeOK
    <3>. QED  BY <3>1, <1>4, <1>7 DEF Ordered
  <2>2. CASE d # c
    BY <2>2, <1>3, <1>7 DEF TypeOK, Ordered
  <2>. QED  BY <2>1, <2>2
<1>. QED  BY <1>6, <1>7, <1>8

LEMMA DropPreserves ==
    ASSUME IInv, NEW c \in Clients, drop_feed(c)
    PROVE  IInv'
<1>. USE DEF IInv
<1>1. UNCHANGED <<next_delivery_sequence, publish_order, in_flight, clients, clients_by_key>>
  BY DEF drop_feed, routes
<1>2. NoFeed \in Feed /\ NoFeed.events = <<>>
  BY DEF Feed, NoFeed
<1>3. TypeOK'
  BY <1>1, <1>2 DEF TypeOK, drop_feed
<1>4. InFlightOrdered' /\ WithinLimit' /\ RoutesAgree' /\ Horizon' = Horizon
  BY <1>1 DEF InFlightOrdered, WithinLimit, RoutesAgree, Horizon
<1>5. ASSUME NEW d \in Clients PROVE Ordered(feed[d], delivered[d], Horizon)'
  <2>1. CASE d = c
    <3>1. feed'[d] = NoFeed /\ delivered'[d] = 0
      BY <2>1 DEF TypeOK, drop_feed
    <3>2. Ordered(NoFeed, 0, Horizon)
      BY <1>2, HorizonNat, OrderedEmpty
    <3>. QED  BY <3>1, <3>2, <1>4 DEF Ordered
  <2>2. CASE d # c
    BY <2>2, <1>4 DEF TypeOK, Ordered, drop_feed
  <2>. QED  BY <2>1, <2>2
<1>. QED  BY <1>3, <1>4, <1>5

LEMMA AssignPreserves ==
    ASSUME IInv, NEW p \in Publishers, NEW k \in Keys, AssignSequence(p, k)
    PROVE  IInv'
<1>. USE DEF IInv
<1>1. UNCHANGED <<clients, clients_by_key, feed, delivered>>
  BY DEF AssignSequence, routes
<1>2. /\ [sequence |-> next_delivery_sequence, key |-> k] \in Event
      /\ next_delivery_sequence + 1 \in 1 .. MaxSequence
  BY HubAssumption DEF AssignSequence, SequenceExhausted, TypeOK, Event
<1>3. TypeOK'
  BY <1>1, <1>2 DEF TypeOK, AssignSequence
<1>4. InFlightOrdered'
  BY <1>2, HubAssumption DEF InFlightOrdered, AssignSequence, TypeOK
<1>5. Horizon' = Horizon
  BY HubAssumption DEF Horizon, AssignSequence, TypeOK
<1>6. ASSUME NEW d \in Clients PROVE Ordered(feed[d], delivered[d], Horizon)'
  BY <1>1, <1>5 DEF Ordered
<1>. QED  BY <1>1, <1>3, <1>4, <1>6 DEF WithinLimit, RoutesAgree

\* The clients that route_event reaches: those subscribed to the key now,
\* whatever they were subscribed to when the event was numbered.
Interested(p) == {c \in DOMAIN clients : in_flight[p].key \in clients[c]}
Gone(p) == {c \in Interested(p) : ~ feed[c].open}
Overrunning(p) == {c \in Interested(p) \ Gone(p) : Full(c)}

LEMMA RouteStep ==
    ASSUME IInv, NEW p \in Publishers, route_event(p)
    PROVE  /\ in_flight[p] \in Event
           /\ in_flight[p].sequence = Horizon
           /\ next_delivery_sequence = Horizon + 1
           /\ Horizon' = Horizon + 1
           /\ remove_route(Overrunning(p) \cup Gone(p), Gone(p))
           /\ feed' = [c \in Clients |->
                          IF c \in Overrunning(p) THEN Overrun(feed[c])
                          ELSE IF c \in Interested(p) \ Gone(p)
                               THEN [feed[c] EXCEPT !.events = Append(@, in_flight[p])]
                          ELSE feed[c]]
           /\ in_flight' = [in_flight EXCEPT ![p] = None]
           /\ publish_order = p
           /\ publish_order' = None
           /\ UNCHANGED <<next_delivery_sequence, delivered>>
<1>1. in_flight[p] # None
  BY DEF route_event
<1>2. in_flight[p] \in Event /\ publish_order = p /\ in_flight[p].sequence = next_delivery_sequence - 1
  BY <1>1 DEF IInv, TypeOK, InFlightOrdered
<1>3. Interested(p) = IF in_flight[p].key \in DOMAIN clients_by_key
                      THEN clients_by_key[in_flight[p].key] \cap DOMAIN clients ELSE {}
  BY DEF IInv, RoutesAgree, Interested
<1>4. /\ remove_route(Overrunning(p) \cup Gone(p), Gone(p))
      /\ feed' = [c \in Clients |->
                     IF c \in Overrunning(p) THEN Overrun(feed[c])
                     ELSE IF c \in Interested(p) \ Gone(p)
                          THEN [feed[c] EXCEPT !.events = Append(@, in_flight[p])]
                     ELSE feed[c]]
      /\ in_flight' = [in_flight EXCEPT ![p] = None]
      /\ publish_order' = None
      /\ UNCHANGED <<next_delivery_sequence, delivered>>
  <2>. HIDE DEF Interested
  <2>. QED  BY <1>3 DEF route_event, Overrunning, Gone
<1>5. next_delivery_sequence \in Nat /\ publish_order # None
  BY <1>2, HubAssumption DEF IInv, TypeOK
<1>. QED  BY <1>2, <1>4, <1>5 DEF Horizon

LEMMA RoutePreserves ==
    ASSUME IInv, NEW p \in Publishers, route_event(p)
    PROVE  IInv'
<1>. DEFINE event == in_flight[p]
<1>0. \A c \in Clients : feed[c] \in Feed /\ delivered[c] \in Nat /\ Ordered(feed[c], delivered[c], Horizon)
  BY DEF IInv, TypeOK
<1>1. Overrunning(p) \cup Gone(p) \in SUBSET Clients
  BY DEF IInv, TypeOK, Overrunning, Gone, Interested
<1>2. /\ RoutesAgree' /\ WithinLimit'
      /\ DOMAIN clients' \subseteq Clients
      /\ clients' \in [DOMAIN clients' -> SUBSET Keys]
  BY <1>1, RouteStep, RemoveRoutePreserves
<1>3. ASSUME NEW c \in Clients
      PROVE  feed'[c] \in Feed /\ Ordered(feed'[c], delivered'[c], Horizon')
  <2>1. CASE c \in Overrunning(p)
    <3>1. feed'[c] = [feed[c] EXCEPT !.lagged = @ + 1]
      BY <2>1, RouteStep DEF Overrun
    <3>2. feed'[c] \in Feed /\ feed'[c].events = feed[c].events
      BY <3>1, <1>0 DEF Feed
    <3>3. Ordered(feed[c], delivered[c], Horizon + 1)
      BY <1>0, OrderedLater, HorizonNat
    <3>. QED  BY <3>2, <3>3, RouteStep DEF Ordered
  <2>2. CASE c \in (Interested(p) \ Gone(p)) \ Overrunning(p)
    <3>1. feed'[c] = [feed[c] EXCEPT !.events = Append(@, event)]
      BY <2>2, RouteStep
    <3>2. feed[c].events \in Seq(Event) /\ event \in Event /\ Len(feed[c].events) < Capacity
      <4>1. feed[c].events \in Seq(Event)
        BY <1>0 DEF Feed
      <4>2. ~ Full(c)
        BY <2>2 DEF Overrunning
      <4>3. Len(feed[c].events) \in Nat
        BY <4>1
      <4>4. Len(feed[c].events) < Capacity
        BY <4>2, <4>3, HubAssumption DEF Full
      <4>5. event \in Event
        BY RouteStep
      <4>. QED  BY <4>1, <4>4, <4>5
    <3>3. feed'[c] \in Feed
      <4>1. Append(feed[c].events, event) \in Seq(Event)
        BY <3>2
      <4>. HIDE DEF event
      <4>. QED  BY <3>1, <4>1, <1>0 DEF Feed
    <3>4. Ordered([feed[c] EXCEPT !.events = Append(@, event)], delivered[c], Horizon + 1)
      BY <3>2, <1>0, OrderedAppend, RouteStep, HorizonNat
    <3>. QED  BY <3>1, <3>3, <3>4, RouteStep
  <2>3. CASE c \notin Overrunning(p) /\ c \notin Interested(p) \ Gone(p)
    <3>1. feed'[c] = feed[c]
      BY <2>3, RouteStep
    <3>2. Ordered(feed[c], delivered[c], Horizon + 1)
      BY <1>0, OrderedLater, HorizonNat
    <3>. QED  BY <3>1, <3>2, <1>0, RouteStep
  <2>. QED  BY <2>1, <2>2, <2>3
<1>4. TypeOK'
  <2>1. feed' \in [Clients -> Feed]
    BY <1>3, RouteStep
  <2>2. in_flight' \in [Publishers -> Event \cup {None}]
    BY RouteStep DEF IInv, TypeOK
  <2>. QED  BY <2>1, <2>2, <1>2, RouteStep DEF IInv, TypeOK
<1>5. InFlightOrdered'
  BY RouteStep, HubAssumption, ZenonT(40) DEF IInv, InFlightOrdered, TypeOK
<1>. QED  BY <1>2, <1>3, <1>4, <1>5 DEF IInv

LEMMA NextPreserves == ASSUME IInv, [Next]_vars PROVE IInv'
<1>1. CASE UNCHANGED vars
  BY <1>1 DEF vars, IInv, TypeOK, InFlightOrdered, WithinLimit, RoutesAgree, Ordered, Horizon
<1>2. ASSUME NEW p \in Publishers, NEW k \in Keys, AssignSequence(p, k) PROVE IInv'
  BY <1>2, AssignPreserves
<1>3. ASSUME NEW p \in Publishers, route_event(p) PROVE IInv'
  BY <1>3, RoutePreserves
<1>4. ASSUME NEW c \in Clients, try_register_client(c) PROVE IInv'
  <2>1. CASE RegistrationRefused(c)
    BY <1>1, <1>4, <2>1 DEF try_register_client
  <2>2. CASE ~ RegistrationRefused(c)
    BY <1>4, <2>2, RegisterPreserves
  <2>. QED  BY <2>1, <2>2
<1>5. ASSUME NEW c \in Clients, NEW W \in SUBSET Keys, update_client_subscriptions(c, W) PROVE IInv'
  <2>1. CASE c \in DOMAIN clients
    BY <1>5, <2>1, UpdatePreserves
  <2>2. CASE c \notin DOMAIN clients
    BY <1>1, <1>5, <2>2 DEF update_client_subscriptions
  <2>. QED  BY <2>1, <2>2
<1>6. ASSUME NEW c \in Clients, remove_client(c) PROVE IInv'
  BY <1>6, RemovePreserves
<1>7. ASSUME NEW c \in Clients, recv(c) PROVE IInv'
  BY <1>7, RecvPreserves
<1>8. ASSUME NEW c \in Clients, drop_feed(c) PROVE IInv'
  BY <1>8, DropPreserves
<1>. QED  BY <1>1, <1>2, <1>3, <1>4, <1>5, <1>6, <1>7, <1>8 DEF Next

\* The invariant holds in every reachable state of the hub.
THEOREM Invariance == Spec => []IInv
BY InitIInv, NextPreserves, PTL DEF Spec

-----------------------------------------------------------------------------
(* Theorems *)

\* The two tables of HubRoutes never disagree, whatever registrations, updates,
\* removals and overruns happened before.
THEOREM RouteAgreement == Spec => []RoutesAgree
<1>1. IInv => RoutesAgree
  BY DEF IInv
<1>. QED  BY <1>1, Invariance, PTL

\* A session takes events in the order of their numbers: holding publish_order
\* over the numbering and the routing suffices, for any number of publishers.
THEOREM InOrderDelivery == Spec => []DeliveryInOrder
<1>1. ASSUME IInv PROVE DeliveryInOrder
  <2>. SUFFICES ASSUME NEW c \in Clients
                PROVE  LET numbers == <<delivered[c]>> \o [i \in DOMAIN feed[c].events |->
                                                              feed[c].events[i].sequence]
                       IN  \A i, j \in DOMAIN numbers : i < j => numbers[i] < numbers[j]
    BY DEF DeliveryInOrder
  <2>. DEFINE q == feed[c].events
              r == [i \in DOMAIN q |-> q[i].sequence]
              numbers == <<delivered[c]>> \o r
  <2>1. q \in Seq(Event) /\ delivered[c] \in Nat
    BY <1>1 DEF IInv, TypeOK, Feed
  <2>2. r \in Seq(Nat) /\ Len(r) = Len(q) /\ DOMAIN q = 1 .. Len(q)
    <3>1. \A i \in DOMAIN q : q[i] \in Event
      BY <2>1
    <3>2. \A i \in DOMAIN q : q[i].sequence \in Nat
      BY <3>1, HubAssumption DEF Event
    <3>. HIDE DEF q
    <3>. QED  BY <3>2, <2>1
  <2>3. /\ DOMAIN numbers = 1 .. Len(q) + 1
        /\ numbers[1] = delivered[c]
        /\ \A i \in 2 .. Len(q) + 1 : i - 1 \in DOMAIN q /\ numbers[i] = q[i - 1].sequence
    <3>. HIDE DEF q
    <3>. QED  BY <2>1, <2>2
  <2>4. /\ \A i \in DOMAIN q : delivered[c] < q[i].sequence
        /\ \A i, j \in DOMAIN q : i < j => q[i].sequence < q[j].sequence
    BY <1>1 DEF IInv, Ordered
  <2>5. Len(q) \in Nat
    BY <2>1
  <2>. HIDE DEF q, numbers
  <2>6. ASSUME NEW i \in DOMAIN numbers, NEW j \in DOMAIN numbers, i < j
        PROVE  numbers[i] < numbers[j]
    <3>1. i \in Nat /\ j \in 2 .. Len(q) + 1 /\ j - 1 \in DOMAIN q
      BY <2>3, <2>5, <2>6
    <3>2. CASE i = 1
      BY <3>1, <3>2, <2>3, <2>4
    <3>3. CASE i # 1
      <4>1. i \in 2 .. Len(q) + 1 /\ i - 1 < j - 1
        BY <3>1, <3>3, <2>3, <2>5, <2>6
      <4>. QED  BY <4>1, <3>1, <2>3, <2>4
    <3>. QED  BY <3>2, <3>3
  <2>. QED  BY <2>6 DEF numbers, q
<1>. QED  BY <1>1, Invariance, PTL

-----------------------------------------------------------------------------
(* Refinement *)

LEMMA LastRoutedHorizon == IInv => LastRouted = Horizon - 1
<1>. HAVE IInv
<1>. DEFINE P == {p \in Publishers : in_flight[p] # None}
<1>1. next_delivery_sequence \in Nat /\ publish_order \in Publishers \cup {None}
  BY HubAssumption DEF IInv, TypeOK
<1>2. CASE publish_order = None
  <2>1. P = {}
    BY <1>2, HubAssumption DEF IInv, InFlightOrdered
  <2>2. Cardinality(P) = 0
    BY <2>1, FS_EmptySet
  <2>. QED  BY <2>2, <1>1, <1>2 DEF LastRouted, Horizon
<1>3. CASE publish_order # None
  <2>1. P = {publish_order}
    BY <1>1, <1>3 DEF IInv, InFlightOrdered
  <2>2. Cardinality(P) = 1
    BY <2>1, FS_Singleton
  <2>. QED  BY <2>2, <1>1, <1>3 DEF LastRouted, Horizon
<1>. QED  BY <1>2, <1>3

\* The abstract state, as Streams sees the hub.
Listening == {c \in Clients : feed[c].open}
Window == [c \in Clients |-> feed[c].events]
Lost == [c \in Clients |-> feed[c].lagged]

\* The step that routes an event is the step that publishes it.
LEMMA RouteIsPublish ==
    ASSUME IInv, IInv', NEW p \in Publishers, route_event(p), NEW k, k = in_flight[p].key
    PROVE  S!Publish(k)
<1>. DEFINE event == [sequence |-> LastRouted + 1, key |-> k]
            interested == {c \in DOMAIN clients : k \in clients[c]}
            gone == interested \ Listening
            full == {c \in interested \cap Listening : Len(Window[c]) = Capacity}
<1>1. LastRouted = Horizon - 1 /\ LastRouted' = Horizon' - 1 /\ Horizon \in Nat
  <2>1. (IInv => LastRouted = Horizon - 1)'
    BY LastRoutedHorizon, PTL
  <2>. QED  BY <2>1, LastRoutedHorizon, HorizonNat
<1>2. event = in_flight[p]
  <2>1. in_flight[p] \in Event /\ in_flight[p].sequence = Horizon
    BY RouteStep
  <2>2. Horizon = LastRouted + 1
    BY <1>1
  <2>. QED  BY <2>1, <2>2 DEF Event
<1>3. interested = Interested(p) /\ gone = Gone(p) /\ interested \subseteq Clients
  BY DEF Interested, Gone, Listening, IInv, TypeOK
<1>4. full = Overrunning(p)
  <2>1. \A c \in Clients : Len(feed[c].events) \in Nat /\ Len(feed[c].events) <= Capacity
    <3>1. \A c \in Clients : feed[c].events \in Seq(Event)
      BY DEF IInv, TypeOK, Feed
    <3>. QED  BY <3>1 DEF IInv, Ordered
  <2>2. \A c \in Clients : Full(c) <=> Len(Window[c]) = Capacity
    BY <2>1, HubAssumption DEF Full, Window
  <2>. QED  BY <1>3, <2>2 DEF Overrunning, Gone, Listening
<1>5. /\ LastRouted < MaxSequence
      /\ LastRouted' = LastRouted + 1
  <2>1. next_delivery_sequence = Horizon + 1 /\ Horizon' = Horizon + 1
    BY RouteStep
  <2>. QED  BY <1>1, <2>1, HubAssumption DEF IInv, TypeOK
<1>6. ASSUME NEW c \in Clients
      PROVE  /\ feed'[c].open = feed[c].open
             /\ feed'[c].events = IF c \in interested \ (gone \cup full)
                                  THEN Append(feed[c].events, event) ELSE feed[c].events
             /\ feed'[c].lagged = IF c \in full THEN feed[c].lagged + 1 ELSE feed[c].lagged
  <2>0. feed[c] \in Feed
    BY DEF IInv, TypeOK
  <2>1. CASE c \in Overrunning(p)
    <3>1. feed'[c] = [feed[c] EXCEPT !.lagged = @ + 1]
      BY <2>1, RouteStep DEF Overrun
    <3>. QED  BY <2>0, <2>1, <3>1, <1>3, <1>4 DEF Feed
  <2>2. CASE c \in (Interested(p) \ Gone(p)) \ Overrunning(p)
    <3>0. feed'[c] = [feed[c] EXCEPT !.events = Append(@, in_flight[p])]
      BY <2>2, RouteStep
    <3>. HIDE DEF event
    <3>1. feed'[c] = [feed[c] EXCEPT !.events = Append(@, event)]
      BY <3>0, <1>2
    <3>. QED  BY <2>0, <2>2, <3>1, <1>3, <1>4 DEF Feed
  <2>3. CASE c \notin Overrunning(p) /\ c \notin Interested(p) \ Gone(p)
    <3>1. feed'[c] = feed[c]
      BY <2>3, RouteStep
    <3>. QED  BY <2>3, <3>1, <1>3, <1>4
  <2>. QED  BY <2>1, <2>2, <2>3
<1>7. clients' = [c \in DOMAIN clients \ gone |-> IF c \in full THEN {} ELSE clients[c]]
  <2>1. clients' = [c \in DOMAIN clients \ gone |->
                       IF c \in full \cup gone THEN {} ELSE clients[c]]
    BY <1>3, <1>4, RouteStep DEF remove_route
  <2>. HIDE DEF gone, full
  <2>. QED  BY <2>1
<1>8. /\ Listening' = Listening
      /\ Window' = [c \in Clients |-> IF c \in interested \ (gone \cup full)
                                      THEN Append(Window[c], event) ELSE Window[c]]
      /\ Lost' = [c \in Clients |-> IF c \in full THEN Lost[c] + 1 ELSE Lost[c]]
  <2>. HIDE DEF interested, gone, full, event
  <2>. QED  BY <1>6 DEF Listening, Window, Lost
<1>. QED  BY <1>5, <1>7, <1>8 DEF S!Publish, Listening, Window, Lost

\* The hub implements the abstract streams of events, for any publishers that
\* interleave their two halves of publish with each other and with the clients:
\* numbering an event changes nothing a client can see, and routing it is the
\* one step that publishes it.
THEOREM Refinement == Spec => ImplementsStreams
<1>. USE DEF Listening, Window, Lost
<1>1. Init => S!Init
  <2>. HAVE Init
  <2>1. LastRouted = 0
    BY InitIInv, LastRoutedHorizon DEF Init, Horizon
  <2>. QED  BY <2>1 DEF Init, S!Init, NoFeed
<1>2. ASSUME IInv, IInv', [Next]_vars PROVE [S!Next]_(S!vars)
  <2>. USE <1>2
  <2>0. (IInv => LastRouted = Horizon - 1)'
    BY LastRoutedHorizon, PTL
  <2>1. CASE UNCHANGED vars
    BY <2>1 DEF vars, S!vars, LastRouted
  <2>2. ASSUME NEW p \in Publishers, NEW k \in Keys, AssignSequence(p, k) PROVE UNCHANGED S!vars
    <3>1. LastRouted' = LastRouted
      <4>1. Horizon' = Horizon
        BY <2>2, HubAssumption DEF Horizon, AssignSequence, IInv, TypeOK
      <4>. QED  BY <4>1, <2>0, LastRoutedHorizon
    <3>. QED  BY <2>2, <3>1 DEF AssignSequence, routes, S!vars
  <2>3. ASSUME NEW p \in Publishers, route_event(p) PROVE S!Next
    <3>1. PICK k \in Keys : k = in_flight[p].key
      BY <2>3, RouteStep DEF Event
    <3>2. S!Publish(k)
      BY <2>3, <3>1, RouteIsPublish
    <3>. QED  BY <3>1, <3>2 DEF S!Next
  <2>4. ASSUME NEW c \in Clients, try_register_client(c) PROVE [S!Next]_(S!vars)
    <3>1. CASE RegistrationRefused(c)
      BY <2>1, <2>4, <3>1 DEF try_register_client
    <3>2. CASE ~ RegistrationRefused(c)
      <4>1. Cardinality(DOMAIN clients \cup {c}) <= MaxClients
        BY <2>4, <3>2, RegisterPreserves
      <4>2. LastRouted' = LastRouted
        BY <2>4, <3>2 DEF try_register_client, LastRouted
      <4>3. /\ Listening' = Listening \cup {c}
            /\ Window' = [Window EXCEPT ![c] = <<>>]
            /\ Lost' = [Lost EXCEPT ![c] = 0]
        <5>1. feed' = [feed EXCEPT ![c] = NewFeed] /\ feed \in [Clients -> Feed]
          BY <2>4, <3>2 DEF try_register_client, IInv, TypeOK
        <5>. QED  BY <5>1 DEF NewFeed
      <4>4. S!Join(c)
        BY <2>4, <3>2, <4>1, <4>2, <4>3 
        DEF try_register_client, S!Join, S!Fresh, S!Cardinality, Cardinality
      <4>. QED  BY <4>4 DEF S!Next
    <3>. QED  BY <3>1, <3>2
  <2>5. ASSUME NEW c \in Clients, NEW W \in SUBSET Keys, update_client_subscriptions(c, W)
        PROVE  [S!Next]_(S!vars)
    <3>1. CASE c \in DOMAIN clients
      <4>1. S!Resubscribe(c, W)
        BY <2>5, <3>1 DEF update_client_subscriptions, S!Resubscribe, LastRouted
      <4>. QED  BY <4>1 DEF S!Next
    <3>2. CASE c \notin DOMAIN clients
      BY <2>1, <2>5, <3>2 DEF update_client_subscriptions
    <3>. QED  BY <3>1, <3>2
  <2>6. ASSUME NEW c \in Clients, remove_client(c) PROVE S!Next
    <3>1. clients' = [d \in DOMAIN clients \ {c} |-> clients[d]]
      BY <2>6 DEF remove_client, remove_route
    <3>2. S!Leave(c)
      BY <2>6, <3>1 DEF remove_client, S!Leave, LastRouted
    <3>. QED  BY <3>2 DEF S!Next
  <2>7. ASSUME NEW c \in Clients, recv(c) PROVE S!Next
    <3>1. S!Take(c)
      BY <2>7 DEF recv, routes, S!Take, LastRouted, IInv, TypeOK, Feed
    <3>. QED  BY <3>1 DEF S!Next
  <2>8. ASSUME NEW c \in Clients, drop_feed(c) PROVE S!Next
    <3>1. S!Hangup(c)
      BY <2>8 DEF drop_feed, routes, S!Hangup, S!Fresh, LastRouted, IInv, TypeOK, Feed, NoFeed
    <3>. QED  BY <3>1 DEF S!Next
  <2>. QED  BY <2>1, <2>2, <2>3, <2>4, <2>5, <2>6, <2>7, <2>8 DEF Next
<1>. QED  BY <1>1, <1>2, Invariance, PTL DEF Spec, ImplementsStreams, S!Spec
=============================================================================
