----------------------------- MODULE GatewayHub -----------------------------
(***************************************************************************)
(* GatewayHub of src/src/gateway.rs: it numbers the normalized events of   *)
(* all providers and routes each one, by key, to the bounded queue of      *)
(* every client subscribed to that key.                                    *)
(*                                                                         *)
(* Two mutexes guard it.  publish_order is held from the assignment of a   *)
(* sequence number to the end of the routing; routes is held by each       *)
(* operation on the route tables and taken anew for the routing, so        *)
(* clients come, go and change their keys between the two halves of a      *)
(* publish.                                                                *)
(***************************************************************************)
EXTENDS Naturals, Sequences, FiniteSets

CONSTANTS
    Clients,        \* client ids
    Keys,           \* subscription keys
    Publishers,     \* upstream tasks that publish
    Capacity,       \* client_capacity
    MaxClients,     \* max_clients
    MaxSequence,    \* the largest sequence number, u64::MAX in the code
    None            \* no publisher, no event

Event == [sequence : 1 .. MaxSequence, key : Keys]

ASSUME HubAssumption ==
    /\ Capacity \in Nat \ {0}
    /\ MaxClients \in Nat \ {0}
    /\ MaxSequence \in Nat \ {0}
    /\ None \notin Publishers /\ None \notin Event

VARIABLES
    next_delivery_sequence,
    publish_order,    \* the publisher that holds the mutex, or None
    in_flight,        \* publisher -> event numbered and not yet routed, or None
    clients,          \* registered client -> its routed subscriptions
    clients_by_key,   \* key -> clients; no entry for an unrouted key
    feed,             \* client -> the channels its session holds
    delivered         \* history: the last number the session took from its queue

routes == <<clients, clients_by_key>>
vars == <<next_delivery_sequence, publish_order, in_flight, clients,
          clients_by_key, feed, delivered>>

NoFeed == [events |-> <<>>, lagged |-> 0, open |-> FALSE]
NewFeed == [events |-> <<>>, lagged |-> 0, open |-> TRUE]

-----------------------------------------------------------------------------
(* The route tables *)

\* The keys routed to c; none when c is not registered.
Routed(c) == IF c \in DOMAIN clients THEN clients[c] ELSE {}

\* clients_by_key when each client of C loses the keys lost[c] and each
\* client of C gains gained[c]; an entry left empty is removed
\* (remove_key_route).
Rerouted(C, lost, gained) ==
    LET of(k) == IF k \in DOMAIN clients_by_key THEN clients_by_key[k] ELSE {}
        now(k) == (of(k) \ {c \in C : k \in lost[c]})
                     \cup {c \in C : k \in gained[c]}
    IN  [k \in {k \in Keys : now(k) # {}} |-> now(k)]

\* remove_route for each client of C: no key leads to it any more; its entry
\* is kept, without subscriptions, unless it is in Dropped.
remove_route(C, Dropped) ==
    /\ clients_by_key' = Rerouted(C, [c \in C |-> Routed(c)], [c \in C |-> {}])
    /\ clients' = [c \in DOMAIN clients \ Dropped |->
                      IF c \in C THEN {} ELSE clients[c]]

-----------------------------------------------------------------------------
(* Client operations *)

RegistrationRefused(c) ==
    c \notin DOMAIN clients /\ Cardinality(DOMAIN clients) >= MaxClients

\* A route that the id already has is replaced.
try_register_client(c) ==
    IF RegistrationRefused(c)
    THEN UNCHANGED vars
    ELSE /\ clients_by_key' = Rerouted({c}, [d \in {c} |-> Routed(d)], [d \in {c} |-> {}])
         /\ clients' = [d \in DOMAIN clients \cup {c} |->
                           IF d = c THEN {} ELSE clients[d]]
         /\ feed' = [feed EXCEPT ![c] = NewFeed]
         /\ delivered' = [delivered EXCEPT ![c] = 0]
         /\ UNCHANGED <<next_delivery_sequence, publish_order, in_flight>>

\* Faulty: adds the new routes and leaves the old ones in place.
update_client_subscriptions_KeepsOld(c, subscriptions) ==
    IF c \notin DOMAIN clients
    THEN UNCHANGED vars
    ELSE /\ clients_by_key' = Rerouted({c}, [d \in {c} |-> {}],
                                            [d \in {c} |-> subscriptions \ clients[d]])
         /\ clients' = [clients EXCEPT ![c] = subscriptions]
         /\ UNCHANGED <<next_delivery_sequence, publish_order, in_flight, feed, delivered>>

\* Nothing happens for a client that has gone.
update_client_subscriptions(c, subscriptions) ==
    IF c \notin DOMAIN clients
    THEN UNCHANGED vars
    ELSE /\ clients_by_key' = Rerouted({c}, [d \in {c} |-> clients[d] \ subscriptions],
                                            [d \in {c} |-> subscriptions \ clients[d]])
         /\ clients' = [clients EXCEPT ![c] = subscriptions]
         /\ UNCHANGED <<next_delivery_sequence, publish_order, in_flight, feed, delivered>>

\* Buffered events stay readable until the session drops its feed.
remove_client(c) ==
    /\ remove_route({c}, {c})
    /\ UNCHANGED <<next_delivery_sequence, publish_order, in_flight, feed, delivered>>

\* The session takes the oldest event of its queue.
recv(c) ==
    /\ feed[c].open /\ feed[c].events # <<>>
    /\ feed' = [feed EXCEPT ![c].events = Tail(@)]
    /\ delivered' = [delivered EXCEPT ![c] = Head(feed[c].events).sequence]
    /\ UNCHANGED <<next_delivery_sequence, publish_order, in_flight, routes>>

\* The session's task ends and its receivers are dropped.
drop_feed(c) ==
    /\ feed[c].open
    /\ feed' = [feed EXCEPT ![c] = NoFeed]
    /\ delivered' = [delivered EXCEPT ![c] = 0]
    /\ UNCHANGED <<next_delivery_sequence, publish_order, in_flight, routes>>

-----------------------------------------------------------------------------
(* publish *)

\* checked_add refuses to leave the last number; the event is not sent.
SequenceExhausted == next_delivery_sequence = MaxSequence

\* Faulty: numbers the event without taking publish_order.
AssignSequence_Unordered(p, k) ==
    /\ in_flight[p] = None
    /\ ~ SequenceExhausted
    /\ publish_order' = p
    /\ in_flight' = [in_flight EXCEPT
                        ![p] = [sequence |-> next_delivery_sequence, key |-> k]]
    /\ next_delivery_sequence' = next_delivery_sequence + 1
    /\ UNCHANGED <<routes, feed, delivered>>

\* publish up to the call of route_event.
AssignSequence(p, k) ==
    /\ publish_order = None
    /\ ~ SequenceExhausted
    /\ publish_order' = p
    /\ in_flight' = [in_flight EXCEPT
                        ![p] = [sequence |-> next_delivery_sequence, key |-> k]]
    /\ next_delivery_sequence' = next_delivery_sequence + 1
    /\ UNCHANGED <<routes, feed, delivered>>

Full(c) == Len(feed[c].events) >= Capacity

\* Faulty: drops the event without a word.
Overrun_Silent(f) == f

\* The lagged watch of an overrun client is incremented.
Overrun(f) == [f EXCEPT !.lagged = @ + 1]

\* route_event and the end of publish: every client of the key gets the event,
\* or is counted as lagged and unrouted, or, its receiver gone, is removed.
route_event(p) ==
    LET event == in_flight[p]
        client_ids == IF event.key \in DOMAIN clients_by_key
                      THEN clients_by_key[event.key] \cap DOMAIN clients ELSE {}
        closed == {c \in client_ids : ~ feed[c].open}
        lagged == {c \in client_ids \ closed : Full(c)}
    IN  /\ event # None
        /\ remove_route(lagged \cup closed, closed)
        /\ feed' = [c \in Clients |->
                       IF c \in lagged THEN Overrun(feed[c])
                       ELSE IF c \in client_ids \ closed
                            THEN [feed[c] EXCEPT !.events = Append(@, event)]
                       ELSE feed[c]]
        /\ in_flight' = [in_flight EXCEPT ![p] = None]
        /\ publish_order' = None
        /\ UNCHANGED <<next_delivery_sequence, delivered>>

-----------------------------------------------------------------------------

Init ==
    /\ next_delivery_sequence = 1
    /\ publish_order = None
    /\ in_flight = [p \in Publishers |-> None]
    /\ clients = [c \in {} |-> {}]
    /\ clients_by_key = [k \in {} |-> {}]
    /\ feed = [c \in Clients |-> NoFeed]
    /\ delivered = [c \in Clients |-> 0]

Next ==
    \/ \E p \in Publishers, k \in Keys : AssignSequence(p, k)
    \/ \E p \in Publishers : route_event(p)
    \/ \E c \in Clients :
          \/ try_register_client(c)
          \/ \E S \in SUBSET Keys : update_client_subscriptions(c, S)
          \/ remove_client(c)
          \/ recv(c)
          \/ drop_feed(c)

Spec == Init /\ [][Next]_vars

-----------------------------------------------------------------------------
(* Properties *)

\* The two route tables describe the same routes after any sequence of
\* registrations, updates, removals and overruns: clients_by_key is the exact
\* inverse of the clients' subscriptions, and holds no empty entry.
RoutesAgree ==
    clients_by_key = [k \in UNION {clients[c] : c \in DOMAIN clients} |->
                         {c \in DOMAIN clients : k \in clients[c]}]

\* publish: "receiver delivery order agree[s] with the delivery sequence even
\* when multiple provider tasks publish concurrently": what waits in a queue is
\* strictly increasing and beyond what its session has taken.
DeliveryInOrder ==
    \A c \in Clients :
        LET numbers == <<delivered[c]>> \o [i \in DOMAIN feed[c].events |->
                                               feed[c].events[i].sequence]
        IN  \A i, j \in DOMAIN numbers : i < j => numbers[i] < numbers[j]

\* The number of the last event that was routed: an event numbered and not yet
\* routed is not part of any stream.
LastRouted ==
    next_delivery_sequence - 1 - Cardinality({p \in Publishers : in_flight[p] # None})

\* publish is atomic to the clients although it numbers under one lock and
\* routes under another: the hub implements Streams, where an event takes the
\* next number and in one step reaches every client subscribed to its key, or is
\* counted as lost for one whose queue is full.  Nothing is lost silently,
\* duplicated, sent to another client or delivered past the client limit.
S == INSTANCE Streams WITH
        WindowSize <- Capacity,
        last <- LastRouted,
        wants <- clients,
        listening <- {c \in Clients : feed[c].open},
        window <- [c \in Clients |-> feed[c].events],
        lost <- [c \in Clients |-> feed[c].lagged]

ImplementsStreams == S!Spec
=============================================================================
