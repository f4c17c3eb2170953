------------------------ MODULE ClientSessionsProofs ------------------------
(***************************************************************************)
(* What a session of src/src/api.rs leaves in the hub and the registry, at *)
(* every await and after its cleanup, for any number of sessions and       *)
(* publishers and any limits.                                              *)
(*                                                                         *)
(* First the sessions: what each step does to its own session and that it  *)
(* leaves the others alone.  Then the hub's and the registry's proofs are  *)
(* brought in, for what those keep to themselves.                          *)
(***************************************************************************)
EXTENDS ClientSessions, FiniteSetTheorems, TLAPS

-----------------------------------------------------------------------------
(* What holds of a session *)

Stages == {"idle", "hello", "loop", "route", "closing", "releasing"}
Channels == [events : Seq(Hub!Event), lagged : Nat, open : BOOLEAN]

Typed == pc \in [Clients -> Stages] /\ subscriptions \in [Clients -> SUBSET Keys]

\* What the sessions take from the hub and from the registry.
FeedsTyped == feed \in [Clients -> Channels]
DemandTyped == \A c \in Clients : Registry!Existing(c) \subseteq Keys

\* RoutesFollowDemand for one session, with what its cleanup relies on: the
\* feed is open exactly as long as the task runs, and an ended one demands
\* nothing.
Placed(c) ==
    /\ pc[c] # "idle" <=> feed[c].open
    /\ Running(c) => c \in DOMAIN hub_clients
    /\ pc[c] \in {"hello", "loop", "closing"} =>
          \/ Hub!Routed(c) = Registry!Existing(c)
          \/ feed[c].lagged > 0 /\ Hub!Routed(c) = {}
    /\ pc[c] = "route" => subscriptions[c] = Registry!Existing(c)
    /\ pc[c] \in {"releasing", "idle"} => c \notin DOMAIN hub_clients
    /\ pc[c] = "idle" => c \notin DOMAIN reg_clients

\* The downstream_connections gauge counts the sessions that have not ended.
Present == {c \in Clients : pc[c] # "idle"}
Counted == IsFiniteSet(Present) /\ connections = Cardinality(Present)

AllPlaced == \A c \in Clients : Placed(c)

Sessions == Typed /\ Counted /\ AllPlaced

\* A step of another session changes nothing that Placed(d) looks at.
Apart(d) ==
    /\ pc'[d] = pc[d] /\ subscriptions'[d] = subscriptions[d] /\ feed'[d] = feed[d]
    /\ d \in DOMAIN hub_clients' <=> d \in DOMAIN hub_clients
    /\ Hub!Routed(d)' = Hub!Routed(d)
    /\ d \in DOMAIN reg_clients' <=> d \in DOMAIN reg_clients
    /\ Registry!Existing(d)' = Registry!Existing(d)

LEMMA ApartPlaced ==
    ASSUME NEW d \in Clients, Placed(d), Apart(d)
    PROVE  Placed(d)'
  BY DEF Placed, Apart, Running

-----------------------------------------------------------------------------
(* The registry, seen from the sessions *)

\* The registry's map after a step about client c.
RegistryMoved(c) ==
    \A d \in Clients : d # c =>
        /\ d \in DOMAIN reg_clients' <=> d \in DOMAIN reg_clients
        /\ Registry!Existing(d)' = Registry!Existing(d)

LEMMA WithClientMoves ==
    ASSUME NEW c \in Clients, NEW K, reg_clients' = Registry!WithClient(c, K)
    PROVE  RegistryMoved(c) /\ (K = {} => c \notin DOMAIN reg_clients')
<1>1. CASE K = {}
  BY <1>1 DEF Registry!WithClient, RegistryMoved, Registry!Existing
<1>2. CASE K # {}
  BY <1>2 DEF Registry!WithClient, RegistryMoved, Registry!Existing
<1>. QED
  BY <1>1, <1>2

LEMMA RegistryMoves ==
    ASSUME NEW c \in Clients, NEW K,
           Registry!add(c, K) \/ Registry!remove(c, K) \/ Registry!cleanup_client(c)
    PROVE  RegistryMoved(c)
<1>1. CASE UNCHANGED Registry!vars
  BY <1>1 DEF Registry!vars, RegistryMoved, Registry!Existing
<1>2. ASSUME NEW L, reg_clients' = Registry!WithClient(c, L)
      PROVE  RegistryMoved(c)
  BY <1>2, WithClientMoves
<1>. QED
  BY <1>1, <1>2 DEF Registry!add, Registry!AddKeys, Registry!remove, Registry!RemoveKeys,
                    Registry!cleanup_client

LEMMA CleanupMoves ==
    ASSUME NEW c \in Clients, Registry!cleanup_client(c)
    PROVE  c \notin DOMAIN reg_clients'
<1>1. CASE c \notin DOMAIN reg_clients
  BY <1>1 DEF Registry!cleanup_client, Registry!vars
<1>2. CASE c \in DOMAIN reg_clients
  <2>1. reg_clients' = Registry!WithClient(c, Registry!Existing(c) \ reg_clients[c])
    BY <1>2 DEF Registry!cleanup_client, Registry!RemoveKeys
  <2>2. Registry!Existing(c) \ reg_clients[c] = {}
    BY <1>2 DEF Registry!Existing
  <2>. QED
    BY <2>1, <2>2, WithClientMoves
<1>. QED
  BY <1>1, <1>2

-----------------------------------------------------------------------------
(* One step of a session *)

\* Every session but c is left alone.
OthersApart(c) == \A d \in Clients : d # c => Apart(d)

LEMMA OthersPlaced ==
    ASSUME NEW c \in Clients, AllPlaced, OthersApart(c), Placed(c)'
    PROVE  AllPlaced'
  BY ApartPlaced DEF AllPlaced, OthersApart

\* The sends and the branches of the select! that touch neither hub nor registry.
LEMMA MovePlaced ==
    ASSUME Typed, AllPlaced, NEW c \in Clients, NEW l \in {"loop", "closing"},
           pc[c] \in {"hello", "loop"}, Goto(c, l),
           UNCHANGED <<hub, registry, subscriptions>>
    PROVE  AllPlaced'
<1>. USE DEF hub, registry, Typed, Goto
<1>1. OthersApart(c)
  BY DEF OthersApart, Apart, Hub!Routed, Registry!Existing
<1>2. pc'[c] = l
  OBVIOUS
<1>3. Hub!Routed(c)' = Hub!Routed(c) /\ Registry!Existing(c)' = Registry!Existing(c)
  BY DEF Hub!Routed, Registry!Existing
<1>4. Placed(c)'
  BY <1>2, <1>3 DEF Placed, AllPlaced, Running
<1>. QED
  BY <1>1, <1>4, OthersPlaced

LEMMA ConnectPlaced ==
    ASSUME Typed, FeedsTyped, AllPlaced, NEW c \in Clients, Connect(c)
    PROVE  AllPlaced'
<1>. USE DEF Connect, registry, Typed, FeedsTyped, Goto, At
<1>1. /\ hub_clients' = [d \in DOMAIN hub_clients \cup {c} |->
                            IF d = c THEN {} ELSE hub_clients[d]]
      /\ feed' = [feed EXCEPT ![c] = Hub!NewFeed]
  BY DEF Hub!try_register_client
<1>2. OthersApart(c)
  BY <1>1 DEF OthersApart, Apart, Hub!Routed, Registry!Existing
<1>3. feed'[c].open = TRUE /\ pc'[c] = "hello"
  BY <1>1 DEF Hub!NewFeed
<1>4. c \in DOMAIN hub_clients' /\ Hub!Routed(c)' = {}
  BY <1>1 DEF Hub!Routed
<1>5. Registry!Existing(c)' = {}
  BY DEF AllPlaced, Placed, Registry!Existing
<1>6. Placed(c)'
  BY <1>3, <1>4, <1>5 DEF Placed, Running
<1>. QED
  BY <1>2, <1>6, OthersPlaced

\* subscribe and unsubscribe up to the hub update.
LEMMA CommandPlaced ==
    ASSUME Typed, AllPlaced, NEW c \in Clients, NEW K,
           subscribe(c, K) \/ unsubscribe(c, K)
    PROVE  AllPlaced'
<1>. USE DEF subscribe, unsubscribe, hub, Typed, Goto, At
<1>1. RegistryMoved(c)
  BY RegistryMoves
<1>2. OthersApart(c)
  BY <1>1 DEF OthersApart, Apart, RegistryMoved, Hub!Routed
<1>3. pc'[c] = "route" /\ subscriptions'[c] = Registry!Existing(c)' /\ feed'[c] = feed[c]
  OBVIOUS
<1>4. pc[c] = "loop" /\ hub_clients' = hub_clients
  OBVIOUS
<1>5. Placed(c)'
  BY <1>3, <1>4 DEF Placed, AllPlaced, Running
<1>. QED
  BY <1>2, <1>5, OthersPlaced

LEMMA UpdatePlaced ==
    ASSUME Typed, AllPlaced, NEW c \in Clients, UpdateRoutes(c)
    PROVE  AllPlaced'
<1>. USE DEF UpdateRoutes, registry, Typed, Goto, SendThen, At
<1>1. c \in DOMAIN hub_clients /\ subscriptions[c] = Registry!Existing(c)
  BY DEF AllPlaced, Placed, Running
<1>2. hub_clients' = [hub_clients EXCEPT ![c] = subscriptions[c]] /\ feed' = feed
  BY <1>1 DEF Hub!update_client_subscriptions
<1>3. OthersApart(c)
  BY <1>2 DEF OthersApart, Apart, Hub!Routed, Registry!Existing
<1>4. pc'[c] \in {"loop", "closing"} /\ feed'[c] = feed[c]
  BY <1>2
<1>5. c \in DOMAIN hub_clients' /\ Hub!Routed(c)' = subscriptions[c]
  BY <1>1, <1>2 DEF Hub!Routed
<1>6. Registry!Existing(c)' = Registry!Existing(c)
  BY DEF Registry!Existing
<1>7. pc[c] # "idle" <=> feed[c].open
  BY DEF AllPlaced, Placed
<1>8. Placed(c)'
  BY <1>1, <1>4, <1>5, <1>6, <1>7 DEF Placed, Running
<1>. QED
  BY <1>3, <1>8, OthersPlaced

LEMMA DeliverPlaced ==
    ASSUME Typed, FeedsTyped, AllPlaced, NEW c \in Clients, Deliver(c)
    PROVE  AllPlaced'
<1>. USE DEF Deliver, registry, Typed, FeedsTyped, Goto, SendThen, At
<1>1. hub_clients' = hub_clients /\ feed' = [feed EXCEPT ![c].events = Tail(@)]
  BY DEF Hub!recv, Hub!routes
<1>2. OthersApart(c)
  BY <1>1 DEF OthersApart, Apart, Hub!Routed, Registry!Existing
<1>3. feed'[c].open = feed[c].open /\ feed'[c].lagged = feed[c].lagged
  BY <1>1 DEF Channels
<1>4. pc[c] = "loop" /\ pc'[c] \in {"loop", "closing"}
  OBVIOUS
<1>5. Hub!Routed(c)' = Hub!Routed(c) /\ Registry!Existing(c)' = Registry!Existing(c)
  BY <1>1 DEF Hub!Routed, Registry!Existing
<1>6. Placed(c)'
  BY <1>1, <1>3, <1>4, <1>5 DEF Placed, AllPlaced, Running
<1>. QED
  BY <1>2, <1>6, OthersPlaced

LEMMA CleanupHubPlaced ==
    ASSUME Typed, AllPlaced, NEW c \in Clients, CleanupHub(c)
    PROVE  AllPlaced'
<1>. USE DEF CleanupHub, registry, Typed, Goto, At
<1>1. /\ hub_clients' = [d \in DOMAIN hub_clients \ {c} |->
                            IF d \in {c} THEN {} ELSE hub_clients[d]]
      /\ feed' = feed
  BY DEF Hub!remove_client, Hub!remove_route
<1>2. OthersApart(c)
  BY <1>1 DEF OthersApart, Apart, Hub!Routed, Registry!Existing
<1>3. pc[c] = "closing" /\ pc'[c] = "releasing" /\ c \notin DOMAIN hub_clients'
  BY <1>1
<1>4. Placed(c)'
  BY <1>1, <1>3 DEF Placed, AllPlaced, Running
<1>. QED
  BY <1>2, <1>4, OthersPlaced

LEMMA CleanupRegistryPlaced ==
    ASSUME Typed, FeedsTyped, AllPlaced, NEW c \in Clients, CleanupRegistry(c)
    PROVE  AllPlaced'
<1>. USE DEF CleanupRegistry, Typed, FeedsTyped, Goto, At
<1>1. hub_clients' = hub_clients /\ feed' = [feed EXCEPT ![c] = Hub!NoFeed]
  BY DEF Hub!drop_feed, Hub!routes
<1>2. RegistryMoved(c)
  BY RegistryMoves
<1>3. OthersApart(c)
  BY <1>1, <1>2 DEF OthersApart, Apart, Hub!Routed, RegistryMoved
<1>4. pc[c] = "releasing" /\ pc'[c] = "idle" /\ feed'[c].open = FALSE
  BY <1>1 DEF Hub!NoFeed
<1>5. c \notin DOMAIN hub_clients'
  BY <1>1, <1>4 DEF AllPlaced, Placed
<1>6. c \notin DOMAIN reg_clients'
  BY CleanupMoves
<1>7. Placed(c)'
  BY <1>4, <1>5, <1>6 DEF Placed, Running
<1>. QED
  BY <1>3, <1>7, OthersPlaced

-----------------------------------------------------------------------------
(* A publish *)

\* A session in the hub has an open feed, so the routing finds no closed one:
\* it takes no entry away, and unroutes exactly the sessions it overruns.
LEMMA RoutePlaced ==
    ASSUME Typed, FeedsTyped, AllPlaced, NEW p \in Publishers, Hub!route_event(p),
           DOMAIN hub_clients \subseteq Clients,
           UNCHANGED <<registry, pc, subscriptions>>
    PROVE  AllPlaced'
<1>. DEFINE event == in_flight[p]
            ids == IF event.key \in DOMAIN clients_by_key
                   THEN clients_by_key[event.key] \cap DOMAIN hub_clients ELSE {}
            closed == {c \in ids : ~ feed[c].open}
            lagged == {c \in ids \ closed : Hub!Full(c)}
<1>1. ids \subseteq DOMAIN hub_clients
  OBVIOUS
<1>2. /\ hub_clients' = [c \in DOMAIN hub_clients \ closed |->
                            IF c \in lagged \cup closed THEN {} ELSE hub_clients[c]]
      /\ feed' = [c \in Clients |->
                     IF c \in lagged THEN Hub!Overrun(feed[c])
                     ELSE IF c \in ids \ closed
                          THEN [feed[c] EXCEPT !.events = Append(@, event)]
                     ELSE feed[c]]
  BY DEF Hub!route_event, Hub!remove_route
<1>. HIDE DEF ids
<1>3. closed = {}
  <2>. SUFFICES ASSUME NEW c \in ids, ~ feed[c].open PROVE FALSE
    OBVIOUS
  <2>. QED
    BY <1>1 DEF AllPlaced, Placed, Typed, Stages
<1>. HIDE DEF closed, lagged, event
<1>4. \A c \in Clients : c \in DOMAIN hub_clients' <=> c \in DOMAIN hub_clients
  BY <1>2, <1>3
<1>. SUFFICES ASSUME NEW c \in Clients PROVE Placed(c)'
  BY DEF AllPlaced
<1>5. feed[c] \in Channels
  BY DEF FeedsTyped
<1>6. feed'[c].open = feed[c].open
  BY <1>2, <1>5 DEF Hub!Overrun, Channels
<1>7. Registry!Existing(c)' = Registry!Existing(c)
  BY DEF Registry!Existing, registry
<1>8. CASE c \in lagged
  <2>1. feed'[c].lagged > 0
    BY <1>2, <1>5, <1>8 DEF Hub!Overrun, Channels
  <2>2. Hub!Routed(c)' = {}
    BY <1>2, <1>8 DEF Hub!Routed
  <2>. QED
    BY <1>4, <1>6, <1>7, <2>1, <2>2 DEF AllPlaced, Placed, Running, registry
<1>9. CASE c \notin lagged
  <2>1. feed'[c].lagged = feed[c].lagged
    BY <1>2, <1>5, <1>9 DEF Channels
  <2>2. Hub!Routed(c)' = Hub!Routed(c)
    BY <1>2, <1>3, <1>9 DEF Hub!Routed
  <2>. QED
    BY <1>4, <1>6, <1>7, <2>1, <2>2 DEF AllPlaced, Placed, Running, registry
<1>. QED
  BY <1>8, <1>9

-----------------------------------------------------------------------------
(* All steps *)

\* What a step does to the gauge and to the set of sessions it counts.
LEMMA GaugeMoves ==
    ASSUME Typed, Counted, NEW c \in Clients,
           \/ Present' = Present /\ connections' = connections
           \/ c \notin Present /\ Present' = Present \cup {c} /\ connections' = connections + 1
           \/ c \in Present /\ Present' = Present \ {c} /\ connections' = connections - 1
    PROVE  Counted'
<1>1. Cardinality(Present) \in Nat
  BY FS_CardinalityType DEF Counted
<1>2. CASE Present' = Present /\ connections' = connections
  BY <1>2 DEF Counted
<1>3. CASE c \notin Present /\ Present' = Present \cup {c} /\ connections' = connections + 1
  BY <1>3, FS_AddElement DEF Counted
<1>4. CASE c \in Present /\ Present' = Present \ {c} /\ connections' = connections - 1
  BY <1>4, FS_RemoveElement DEF Counted
<1>. QED
  BY <1>2, <1>3, <1>4

\* A session moves from one await to another.
LEMMA GotoCounts ==
    ASSUME Typed, Counted, NEW c \in Clients, NEW l \in Stages, pc[c] # "idle",
           l # "idle", Goto(c, l), UNCHANGED connections
    PROVE  Counted' /\ pc' \in [Clients -> Stages]
<1>1. Present' = Present
  BY DEF Present, Goto, Typed
<1>. QED
  BY <1>1, GaugeMoves DEF Goto, Typed

LEMMA SessionStep ==
    ASSUME Sessions, FeedsTyped, DemandTyped', NEW c \in Clients,
           \/ Connect(c) \/ Hangup(c) \/ Answer(c) \/ Gap(c) \/ Stop(c)
           \/ \E requested \in Requested :
                 \/ subscribe(c, requested) \/ SubscribeRefused(c, requested)
                 \/ unsubscribe(c, requested)
           \/ Session(c)
    PROVE  Sessions'
<1>. USE DEF Sessions
<1>1. CASE Connect(c)
  <2>1. AllPlaced'
    BY <1>1, ConnectPlaced
  <2>2. c \notin Present /\ Present' = Present \cup {c}
    BY <1>1 DEF Connect, At, Goto, Present, Typed
  <2>3. Counted'
    BY <1>1, <2>2, GaugeMoves DEF Connect
  <2>4. Typed'
    BY <1>1 DEF Connect, Goto, Typed, Stages
  <2>. QED
    BY <2>1, <2>3, <2>4
<1>2. ASSUME pc[c] \in {"hello", "loop"}, SendThen(c, "loop") \/ Goto(c, "closing"),
             UNCHANGED <<hub, registry, subscriptions, connections>>
      PROVE  Sessions'
  <2>1. PICK l \in {"loop", "closing"} : Goto(c, l)
    BY <1>2 DEF SendThen
  <2>2. AllPlaced'
    BY <1>2, <2>1, MovePlaced
  <2>3. Counted' /\ pc' \in [Clients -> Stages]
    BY <1>2, <2>1, GotoCounts DEF Stages
  <2>. QED
    BY <1>2, <2>2, <2>3 DEF Typed
<1>3. CASE Hangup(c) \/ Answer(c) \/ Gap(c) \/ Stop(c) \/ Hello(c)
  BY <1>2, <1>3 DEF Hangup, Answer, Gap, Stop, Hello, At
<1>4. ASSUME NEW K, SubscribeRefused(c, K) PROVE Sessions'
  BY <1>2, <1>4 DEF SubscribeRefused, At
<1>5. ASSUME NEW K, subscribe(c, K) \/ unsubscribe(c, K) PROVE Sessions'
  <2>1. AllPlaced'
    BY <1>5, CommandPlaced
  <2>2. /\ pc[c] = "loop" /\ Goto(c, "route") /\ connections' = connections
        /\ subscriptions' = [subscriptions EXCEPT ![c] = Registry!Existing(c)']
    BY <1>5 DEF subscribe, unsubscribe, At
  <2>3. Counted' /\ pc' \in [Clients -> Stages]
    BY <2>2, GotoCounts DEF Stages
  <2>4. Registry!Existing(c)' \subseteq Keys
    BY DEF DemandTyped
  <2>5. Typed'
    BY <2>2, <2>3, <2>4 DEF Typed
  <2>. QED
    BY <2>1, <2>3, <2>5
<1>6. CASE UpdateRoutes(c) \/ Deliver(c)
  <2>1. AllPlaced'
    BY <1>6, UpdatePlaced, DeliverPlaced
  <2>2. PICK l \in {"loop", "closing"} : Goto(c, l)
    BY <1>6 DEF UpdateRoutes, Deliver, SendThen
  <2>3. pc[c] \in {"route", "loop"} /\ UNCHANGED <<subscriptions, connections>>
    BY <1>6 DEF UpdateRoutes, Deliver, At
  <2>4. Counted' /\ pc' \in [Clients -> Stages]
    BY <2>2, <2>3, GotoCounts DEF Stages
  <2>. QED
    BY <2>1, <2>3, <2>4 DEF Typed
<1>7. CASE CleanupHub(c)
  <2>1. AllPlaced'
    BY <1>7, CleanupHubPlaced
  <2>2. Counted' /\ pc' \in [Clients -> Stages]
    BY <1>7, GotoCounts DEF Stages, CleanupHub, At
  <2>. QED
    BY <1>7, <2>1, <2>2 DEF Typed, CleanupHub
<1>8. CASE CleanupRegistry(c)
  <2>1. AllPlaced'
    BY <1>8, CleanupRegistryPlaced
  <2>2. c \in Present /\ Present' = Present \ {c}
    BY <1>8 DEF CleanupRegistry, At, Goto, Present, Typed
  <2>3. Counted'
    BY <1>8, <2>2, GaugeMoves DEF CleanupRegistry
  <2>4. Typed'
    BY <1>8 DEF CleanupRegistry, Goto, Typed, Stages
  <2>. QED
    BY <2>1, <2>3, <2>4
<1>. QED
  BY <1>1, <1>3, <1>4, <1>5, <1>6, <1>7, <1>8 DEF Session

\* A step that is of no session and changes no route.
LEMMA ElsewhereStep ==
    ASSUME Sessions,
           UNCHANGED <<registry, pc, subscriptions, connections, hub_clients, feed>>
    PROVE  Sessions'
<1>1. Typed' /\ Counted'
  BY DEF Sessions, Typed, Counted, Present
<1>2. \A d \in Clients : Apart(d)
  BY DEF Apart, Hub!Routed, Registry!Existing, registry
<1>3. AllPlaced'
  BY <1>2, ApartPlaced DEF Sessions, AllPlaced
<1>. QED
  BY <1>1, <1>3 DEF Sessions

LEMMA PublishStep ==
    ASSUME Sessions, FeedsTyped, DOMAIN hub_clients \subseteq Clients, Publish
    PROVE  Sessions'
<1>1. UNCHANGED <<registry, pc, subscriptions, connections>>
  BY DEF Publish
<1>2. ASSUME NEW p \in Publishers, NEW k \in Keys, Hub!AssignSequence(p, k)
      PROVE  Sessions'
  BY <1>1, <1>2, ElsewhereStep DEF Hub!AssignSequence, Hub!routes
<1>3. ASSUME NEW p \in Publishers, Hub!route_event(p) PROVE Sessions'
  <2>1. AllPlaced'
    BY <1>1, <1>3, RoutePlaced DEF Sessions
  <2>2. Typed' /\ Counted'
    BY <1>1 DEF Sessions, Typed, Counted, Present
  <2>. QED
    BY <2>1, <2>2 DEF Sessions
<1>. QED
  BY <1>2, <1>3 DEF Publish

LEMMA SessionsKept ==
    ASSUME Sessions, FeedsTyped, DemandTyped', DOMAIN hub_clients \subseteq Clients,
           [Next]_vars
    PROVE  Sessions'
<1>1. CASE Publish
  BY <1>1, PublishStep
<1>2. CASE Shutdown \/ Exit \/ UNCHANGED vars
  BY <1>2, ElsewhereStep DEF Shutdown, Exit, vars, hub
<1>. QED
  BY <1>1, <1>2, SessionStep DEF Next

\* What a step of the composition is to the registry, and to the hub.
RegistrySteps ==
    \/ UNCHANGED registry
    \/ \E c \in Clients, K \in SUBSET Keys :
          Registry!add(c, K) \/ Registry!remove(c, K) \/ Registry!cleanup_client(c)
HubSteps ==
    \/ UNCHANGED hub
    \/ \E p \in Publishers, k \in Keys : Hub!AssignSequence(p, k)
    \/ \E p \in Publishers : Hub!route_event(p)
    \/ \E c \in Clients :
          \/ Hub!try_register_client(c)
          \/ \E S \in SUBSET Keys : Hub!update_client_subscriptions(c, S)
          \/ Hub!remove_client(c) \/ Hub!recv(c) \/ Hub!drop_feed(c)

LEMMA NextSorted ==
    ASSUME Typed, [Next]_vars
    PROVE  RegistrySteps /\ HubSteps
<1>1. ASSUME NEW c \in Clients,
             Hangup(c) \/ Answer(c) \/ Gap(c) \/ Stop(c) \/ Hello(c)
      PROVE  UNCHANGED <<hub, registry>>
  BY <1>1 DEF Hangup, Answer, Gap, Stop, Hello
<1>2. CASE Shutdown \/ Exit \/ UNCHANGED vars
  BY <1>2 DEF Shutdown, Exit, vars, RegistrySteps, HubSteps
<1>3. CASE Publish
  BY <1>3 DEF Publish, RegistrySteps, HubSteps
<1>4. ASSUME NEW c \in Clients, Connect(c) PROVE RegistrySteps /\ HubSteps
  BY <1>4 DEF Connect, RegistrySteps, HubSteps
<1>5. ASSUME NEW c \in Clients, NEW K \in Requested,
             subscribe(c, K) \/ SubscribeRefused(c, K) \/ unsubscribe(c, K)
      PROVE  RegistrySteps /\ HubSteps
  BY <1>5 DEF subscribe, SubscribeRefused, unsubscribe, Requested, RegistrySteps, HubSteps
<1>6. ASSUME NEW c \in Clients, UpdateRoutes(c) PROVE RegistrySteps /\ HubSteps
  <2>1. subscriptions[c] \in SUBSET Keys
    BY DEF Typed
  <2>. QED
    BY <1>6, <2>1 DEF UpdateRoutes, RegistrySteps, HubSteps
<1>7. ASSUME NEW c \in Clients, Deliver(c) \/ CleanupHub(c)
      PROVE  RegistrySteps /\ HubSteps
  BY <1>7 DEF Deliver, CleanupHub, RegistrySteps, HubSteps
<1>8. ASSUME NEW c \in Clients, CleanupRegistry(c) PROVE RegistrySteps /\ HubSteps
  BY <1>8 DEF CleanupRegistry, RegistrySteps, HubSteps
<1>9. ASSUME UNCHANGED <<hub, registry>> PROVE RegistrySteps /\ HubSteps
  BY <1>9 DEF RegistrySteps, HubSteps
<1>. QED
  BY <1>1, <1>2, <1>3, <1>4, <1>5, <1>6, <1>7, <1>8, <1>9 DEF Next, Session

LEMMA SessionsStart == ASSUME Init PROVE Sessions
<1>1. Typed
  BY DEF Init, Typed, Stages
<1>2. Present = {}
  BY DEF Init, Present
<1>3. Counted
  BY <1>2, FS_EmptySet DEF Counted, Init
<1>4. AllPlaced
  BY DEF AllPlaced, Placed, Running, Init, Hub!Init, Hub!NoFeed, Registry!Init
<1>. QED
  BY <1>1, <1>3, <1>4 DEF Sessions

-----------------------------------------------------------------------------
(* The registry *)

R == INSTANCE SubscriptionRegistryProofs WITH clients <- reg_clients, Receivers <- {}

LEMMA RegistryAssumptions == R!KeysAssumption /\ R!LimitsAssumption
  BY SessionsAssumption DEF R!IsFiniteSet, IsFiniteSet

LEMMA RegistryInit == ASSUME Registry!Init PROVE R!IInv
  BY RegistryAssumptions, R!InitEstablishes DEF R!Init, Registry!Init

\* The steps the registry's proofs are about are those of the composition.
LEMMA RegistrySame ==
    ASSUME NEW c \in Clients, NEW K \in SUBSET Keys,
           Registry!add(c, K) \/ Registry!remove(c, K) \/ Registry!cleanup_client(c)
    PROVE  R!add(c, K) \/ R!remove(c, K) \/ R!cleanup_client(c)
  BY Zenon
     DEF R!vars, Registry!vars, R!Existing, Registry!Existing, R!WithClient, Registry!WithClient,
         R!SendIfChanged, Registry!SendIfChanged, R!Added, Registry!Added,
         R!ClientLimitExceeded, Registry!ClientLimitExceeded, R!Fresh, Registry!Fresh,
         R!ProviderLimitExceeded, Registry!ProviderLimitExceeded, R!OfProvider,
         Registry!OfProvider, R!limit_for, Registry!limit_for, R!Capped,
         Registry!Capped, R!AddRejected, Registry!AddRejected, R!Increment,
         Registry!Increment, R!AddKeys, Registry!AddKeys, R!add, Registry!add,
         R!Deactivated, Registry!Deactivated, R!Decrement, Registry!Decrement,
         R!RemoveKeys, Registry!RemoveKeys, R!remove, Registry!remove, R!cleanup_client,
         Registry!cleanup_client, R!Cardinality, Registry!Cardinality

LEMMA RegistryKept == ASSUME R!IInv, RegistrySteps PROVE R!IInv' /\ DemandTyped'
<1>1. R!IInv'
  BY RegistrySame, RegistryAssumptions, R!NextPreserves
     DEF RegistrySteps, R!Next, R!vars, registry
<1>2. DemandTyped'
  BY <1>1 DEF R!IInv, R!TypeOK, DemandTyped, Registry!Existing
<1>. QED
  BY <1>1, <1>2

\* Without a client in the registry nothing is demanded upstream.
LEMMA DemandReleased ==
    ASSUME R!IInv, \A c \in Clients : c \notin DOMAIN reg_clients
    PROVE  snapshot = {}
  BY RegistryAssumptions, R!SnapshotIsUnion DEF R!Existing

-----------------------------------------------------------------------------
(* The hub *)

H == INSTANCE GatewayHubProofs WITH clients <- hub_clients

LEMMA HubAssumptions == H!HubAssumption
  BY SessionsAssumption DEF H!Event

LEMMA HubInit == ASSUME Hub!Init PROVE H!IInv
  BY HubAssumptions, H!InitIInv DEF H!Init, Hub!Init, H!NoFeed, Hub!NoFeed

\* The steps the hub's proofs are about are those of the composition.
LEMMA HubSame == ASSUME HubSteps PROVE [H!Next]_(H!vars)
  BY Zenon
     DEF HubSteps, hub, H!vars, Hub!vars, H!Next, H!routes, Hub!routes, H!NoFeed, Hub!NoFeed,
         H!NewFeed, Hub!NewFeed, H!Routed, Hub!Routed, H!Rerouted, Hub!Rerouted,
         H!remove_route, Hub!remove_route, H!RegistrationRefused, Hub!RegistrationRefused,
         H!try_register_client, Hub!try_register_client, H!update_client_subscriptions,
         Hub!update_client_subscriptions, H!remove_client, Hub!remove_client, H!recv, Hub!recv,
         H!drop_feed, Hub!drop_feed, H!SequenceExhausted, Hub!SequenceExhausted,
         H!AssignSequence, Hub!AssignSequence, H!Full, Hub!Full, H!Overrun, Hub!Overrun,
         H!route_event, Hub!route_event, H!Cardinality, Hub!Cardinality

LEMMA HubKept == ASSUME H!IInv, HubSteps PROVE H!IInv'
  BY HubSame, HubAssumptions, H!NextPreserves

LEMMA HubTyped ==
    ASSUME H!IInv
    PROVE  FeedsTyped /\ DOMAIN hub_clients \subseteq Clients
  BY DEF H!IInv, H!TypeOK, H!Feed, H!Event, FeedsTyped, Channels, Hub!Event

\* Without a client in the hub no key has a route.
LEMMA RoutesReleased ==
    ASSUME H!IInv, \A c \in Clients : c \notin DOMAIN hub_clients
    PROVE  DOMAIN clients_by_key = {}
<1>1. DOMAIN hub_clients = {}
  BY DEF H!IInv, H!TypeOK
<1>. QED
  BY <1>1 DEF H!IInv, H!RoutesAgree

-----------------------------------------------------------------------------
(* The composition *)

IInv == R!IInv /\ H!IInv /\ Sessions

\* Whatever the sessions, the publishers and the shutdown interleave, the hub
\* and the registry keep their own invariants and every session is where its
\* await says it is.
THEOREM Invariance == Spec => []IInv
<1>1. Init => IInv
  BY RegistryInit, HubInit, SessionsStart DEF Init, IInv
<1>2. IInv /\ [Next]_vars => IInv'
  BY NextSorted, RegistryKept, HubKept, HubTyped, SessionsKept DEF IInv, Sessions
<1>. QED
  BY <1>1, <1>2, PTL DEF Spec

\* What the hub routes to a session is what the registry demands for it, but
\* for the time between the two halves of a command and after an overrun.
THEOREM RoutesTrackDemand == Spec => []RoutesFollowDemand
<1>1. IInv => RoutesFollowDemand
  BY DEF IInv, Sessions, AllPlaced, Placed, RoutesFollowDemand, Running
<1>. QED
  BY <1>1, Invariance, PTL

\* Whichever branch ended it, a session leaves no demand, no route and no queue
\* behind, and the gauge counts the sessions that are not finished.
THEOREM CleanupComplete == Spec => []NothingLeaks
<1>1. ASSUME IInv, \A c \in Clients : pc[c] = "idle"
      PROVE  snapshot = {} /\ DOMAIN clients_by_key = {}
  BY <1>1, DemandReleased, RoutesReleased DEF IInv, Sessions, AllPlaced, Placed
<1>2. IInv => NothingLeaks
  BY <1>1 DEF IInv, Sessions, AllPlaced, Placed, Counted, Present, NothingLeaks
<1>. QED
  BY <1>2, Invariance, PTL
=============================================================================
