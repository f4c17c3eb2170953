--------------------------- MODULE ClientSessions ---------------------------
(***************************************************************************)
(* The downstream sessions of src/src/api.rs (client_session and the       *)
(* handlers it calls), composed with the hub and the registry they share.  *)
(*                                                                         *)
(* A session is one task.  It runs from one await to the next; at each     *)
(* await the other sessions, the publishers and the shutdown may act.  pc  *)
(* is the await a session is at:                                           *)
(*   idle       no task                                                    *)
(*   hello      registered with the hub, sending the hello frame           *)
(*   loop       at the select! of client_session                           *)
(*   route      its registry operation is done, the hub not yet told       *)
(*   closing    left the loop, before cleanup_session                      *)
(*   releasing  removed from the hub, waiting for the registry lock        *)
(* A client id is drawn afresh for every session; an id is reused here     *)
(* once its task has ended.                                                *)
(***************************************************************************)
EXTENDS Naturals, Sequences, FiniteSets

CONSTANTS Clients, Keys, Publishers, Capacity, MaxClients, MaxSequence, None,
          Providers, ProviderOf, MaxPerClient, Declared, Fallback, Override,
          NoOverride

ASSUME SessionsAssumption ==
    /\ Capacity \in Nat \ {0} /\ MaxClients \in Nat \ {0} /\ MaxSequence \in Nat \ {0}
    /\ None \notin Publishers /\ None \notin [sequence : 1 .. MaxSequence, key : Keys]
    /\ IsFiniteSet(Keys) /\ ProviderOf \in [Keys -> Providers]
    /\ MaxPerClient \in Nat \ {0} /\ Fallback \in Nat
    /\ DOMAIN Declared \subseteq Providers
    /\ \A p \in DOMAIN Declared : Declared[p] \in Nat
    /\ Override \in Nat \cup {NoOverride} /\ NoOverride \notin Nat

VARIABLES
    next_delivery_sequence, publish_order, in_flight, hub_clients,
    clients_by_key, feed, delivered,                            \* GatewayHub
    reg_clients, reference_counts, desired, snapshot, unseen, view,
                                                      \* SubscriptionRegistry
    pc,                  \* client -> the await its session is at
    subscriptions,       \* client -> the session's local copy of its keys
    connections,         \* the downstream_connections gauge
    shutdown,            \* the cancellation token
    upgrading            \* clients whose upgrade was under way when it was cancelled

hub == <<next_delivery_sequence, publish_order, in_flight, hub_clients,
         clients_by_key, feed, delivered>>
registry == <<reg_clients, reference_counts, desired, snapshot, unseen, view>>
token == <<shutdown, upgrading>>
vars == <<hub, registry, pc, subscriptions, connections, token>>

Hub == INSTANCE GatewayHub WITH clients <- hub_clients
Registry == INSTANCE SubscriptionRegistry WITH clients <- reg_clients,
                                               Receivers <- {}

At(c, l) == pc[c] = l
Goto(c, l) == pc' = [pc EXCEPT ![c] = l]

\* A frame is sent within the send timeout and the session goes on at l, or
\* the send fails and the session leaves its loop.
SendThen(c, l) == Goto(c, l) \/ Goto(c, "closing")

-----------------------------------------------------------------------------
(* client_session *)

\* A task that is refused at the client limit answers and ends; nothing changes.
\* The listener takes no connection once the token is cancelled, but an upgrade
\* under way is completed: client_session registers before it looks at the token.
Connect(c) ==
    /\ At(c, "idle")
    /\ ~ shutdown \/ c \in upgrading
    /\ upgrading' = upgrading \ {c}
    /\ ~ Hub!RegistrationRefused(c)
    /\ Hub!try_register_client(c)
    /\ connections' = connections + 1
    /\ subscriptions' = [subscriptions EXCEPT ![c] = {}]
    /\ Goto(c, "hello")
    /\ UNCHANGED <<registry, shutdown>>

\* Faulty: returns without cleanup when the hello frame cannot be sent.
Hello_NoCleanup(c) ==
    /\ At(c, "hello")
    /\ Goto(c, "loop") \/ Goto(c, "idle")
    /\ UNCHANGED <<hub, registry, subscriptions, connections, token>>

Hello(c) ==
    /\ At(c, "hello")
    /\ SendThen(c, "loop")
    /\ UNCHANGED <<hub, registry, subscriptions, connections, token>>

\* The socket ends or fails, or the peer closes.
Hangup(c) ==
    /\ At(c, "loop")
    /\ Goto(c, "closing")
    /\ UNCHANGED <<hub, registry, subscriptions, connections, token>>

\* A message that is answered and changes nothing: a ping, or what is refused
\* for its type, size, syntax, request id, keys or by the catalogs.
Answer(c) ==
    /\ At(c, "loop")
    /\ SendThen(c, "loop")
    /\ UNCHANGED <<hub, registry, subscriptions, connections, token>>

\* The keys a command can name once they are expanded; keys of a disabled
\* provider or without an instrument in its catalog are refused (Answer).
Requested == SUBSET Keys \ {{}}

\* registry_error_reply: the registry refuses the keys and changes nothing.
SubscribeRefused(c, requested) ==
    /\ At(c, "loop")
    /\ Registry!AddRejected(c, requested)
    /\ SendThen(c, "loop")
    /\ UNCHANGED <<hub, registry, subscriptions, connections, token>>

\* subscribe and unsubscribe up to the hub update.
subscribe(c, requested) ==
    /\ At(c, "loop")
    /\ ~ Registry!AddRejected(c, requested)
    /\ Registry!add(c, requested)
    /\ subscriptions' = [subscriptions EXCEPT ![c] = Registry!Existing(c)']
    /\ Goto(c, "route")
    /\ UNCHANGED <<hub, connections, token>>

unsubscribe(c, requested) ==
    /\ At(c, "loop")
    /\ Registry!remove(c, requested)
    /\ subscriptions' = [subscriptions EXCEPT ![c] = Registry!Existing(c)']
    /\ Goto(c, "route")
    /\ UNCHANGED <<hub, connections, token>>

\* Faulty: acknowledges without telling the hub.
UpdateRoutes_Skipped(c) ==
    /\ At(c, "route")
    /\ SendThen(c, "loop")
    /\ UNCHANGED <<hub, registry, subscriptions, connections, token>>

\* The end of subscribe and unsubscribe: the hub is told and the ack is sent.
UpdateRoutes(c) ==
    /\ At(c, "route")
    /\ Hub!update_client_subscriptions(c, subscriptions[c])
    /\ SendThen(c, "loop")
    /\ UNCHANGED <<registry, subscriptions, connections, token>>

\* feed.events.recv() wins the select!.
Deliver(c) ==
    /\ At(c, "loop")
    /\ Hub!recv(c)
    /\ SendThen(c, "loop")
    /\ UNCHANGED <<registry, subscriptions, connections, token>>

\* Faulty: sends the gap frame and stays in the loop.
Gap_StaysOpen(c) ==
    /\ At(c, "loop")
    /\ feed[c].lagged > 0
    /\ UNCHANGED vars

\* feed.lagged.changed() wins: the gap frame is tried and the session ends.
Gap(c) ==
    /\ At(c, "loop")
    /\ feed[c].lagged > 0
    /\ Goto(c, "closing")
    /\ UNCHANGED <<hub, registry, subscriptions, connections, token>>

\* Faulty: sends the close frame and forgets to leave the loop.
Stop_NoBreak(c) ==
    /\ At(c, "loop")
    /\ shutdown
    /\ UNCHANGED vars

\* shutdown.cancelled() wins: a close frame is tried and the session ends.
Stop(c) ==
    /\ At(c, "loop")
    /\ shutdown
    /\ Goto(c, "closing")
    /\ UNCHANGED <<hub, registry, subscriptions, connections, token>>

-----------------------------------------------------------------------------
(* cleanup_session *)

CleanupHub(c) ==
    /\ At(c, "closing")
    /\ Hub!remove_client(c)
    /\ Goto(c, "releasing")
    /\ UNCHANGED <<registry, subscriptions, connections, token>>

\* The registry lock is obtained; the gauge is lowered and the task ends,
\* dropping its feed.
CleanupRegistry(c) ==
    /\ At(c, "releasing")
    /\ Registry!cleanup_client(c)
    /\ connections' = connections - 1
    /\ Hub!drop_feed(c)
    /\ subscriptions' = [subscriptions EXCEPT ![c] = {}]
    /\ Goto(c, "idle")
    /\ UNCHANGED token

-----------------------------------------------------------------------------
(* The rest of the process *)

Publish ==
    /\ \/ \E p \in Publishers, k \in Keys : Hub!AssignSequence(p, k)
       \/ \E p \in Publishers : Hub!route_event(p)
    /\ UNCHANGED <<registry, pc, subscriptions, connections, token>>

Shutdown ==
    /\ ~ shutdown
    /\ shutdown' = TRUE
    /\ upgrading' \in SUBSET {c \in Clients : At(c, "idle")}
    /\ UNCHANGED <<hub, registry, pc, subscriptions, connections>>

\* After a shutdown with every session gone the process ends.
Exit ==
    /\ shutdown
    /\ \A c \in Clients : At(c, "idle")
    /\ UNCHANGED vars

Session(c) ==
    \/ Hello(c) \/ UpdateRoutes(c) \/ Deliver(c)
    \/ CleanupHub(c) \/ CleanupRegistry(c)

Init ==
    /\ Hub!Init
    /\ Registry!Init
    /\ pc = [c \in Clients |-> "idle"]
    /\ subscriptions = [c \in Clients |-> {}]
    /\ connections = 0
    /\ shutdown = FALSE /\ upgrading = {}

Next ==
    \/ \E c \in Clients :
          \/ Connect(c) \/ Hangup(c) \/ Answer(c) \/ Gap(c) \/ Stop(c)
          \/ \E requested \in Requested :
                \/ subscribe(c, requested) \/ SubscribeRefused(c, requested)
                \/ unsubscribe(c, requested)
          \/ Session(c)
    \/ Publish \/ Shutdown \/ Exit

\* A task that can run is run.  select! polls its branches in random order, so
\* a branch that is ready again and again is eventually the one taken.
Fairness ==
    \A c \in Clients : WF_vars(Session(c)) /\ SF_vars(Gap(c)) /\ SF_vars(Stop(c))

Spec == Init /\ [][Next]_vars /\ Fairness

-----------------------------------------------------------------------------
(* Properties *)

Running(c) == pc[c] \in {"hello", "loop", "route"}

\* What the hub routes to a session is what the registry demands for it,
\* except between the registry operation and the hub update of one command,
\* and after an overrun, which unroutes it; a session that has left the hub
\* is routed nothing.  In its loop a session always has its hub entry, so the
\* closed-channel branch of client_session is never the first to end it.
RoutesFollowDemand ==
    \A c \in Clients :
        /\ Running(c) => c \in DOMAIN hub_clients /\ feed[c].open
        /\ pc[c] \in {"hello", "loop", "closing"} =>
              \/ Hub!Routed(c) = Registry!Existing(c)
              \/ feed[c].lagged > 0 /\ Hub!Routed(c) = {}
        /\ pc[c] = "route" => subscriptions[c] = Registry!Existing(c)
        /\ pc[c] \in {"releasing", "idle"} => c \notin DOMAIN hub_clients

\* cleanup_session leaves nothing behind, whichever branch ended the session
\* and whatever happened between its two halves: no demand, no route, no queue,
\* and the gauge counts exactly the sessions whose cleanup is not finished.
NothingLeaks ==
    /\ \A c \in Clients : pc[c] = "idle" =>
          c \notin DOMAIN reg_clients /\ ~ feed[c].open
    /\ connections = Cardinality({c \in Clients : pc[c] # "idle"})
    /\ (\A c \in Clients : pc[c] = "idle") => snapshot = {} /\ DOMAIN clients_by_key = {}

\* "If that queue overruns, the gateway ... closes the connection": an overrun
\* session ends, even if its client keeps sending commands.
OverrunEndsSession ==
    \A c \in Clients : feed[c].lagged > 0 ~> pc[c] = "idle"

\* After the shutdown token is cancelled every session ends and all demand is
\* released.
ShutdownReleasesDemand ==
    shutdown ~> (snapshot = {} /\ \A c \in Clients : pc[c] = "idle")

\* route_event: "Stop routing immediately. Retain the lag watch sender until
\* the API session observes it and performs normal cleanup": no further event
\* is routed to a client between its overrun and the end of its session.
RoutingStopsAtOverrun ==
    [][\A c \in Clients :
          feed[c].lagged > 0 /\ feed'[c].open =>
              /\ feed'[c].lagged = feed[c].lagged
              /\ Len(feed'[c].events) <= Len(feed[c].events)]_vars
=============================================================================
