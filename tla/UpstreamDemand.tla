--------------------------- MODULE UpstreamDemand ---------------------------
(***************************************************************************)
(* From the clients' demand to the venue: the subscription registry of     *)
(* src/src/gateway.rs with the supervisors of a provider's endpoints       *)
(* (src/src/runtime.rs) on the receiving side of its watch channel, and    *)
(* the readiness that src/src/health.rs computes over their entries.       *)
(*                                                                         *)
(* OKX has two endpoints, tickers on the public one and candles on the     *)
(* business one (endpoint_for), under one ceiling; the other providers     *)
(* have one, and main spawns no second supervisor for them.  Supervisors   *)
(* share the watch channel and the token and nothing else.                 *)
(***************************************************************************)
EXTENDS Naturals, FiniteSets

CONSTANTS
    Clients,
    Keys,                       \* the provider's keys, numbered as the supervisors list them
    Providers,                  \* records [one, two]: the adapter at each endpoint
    MaxPerClient, Ceiling,      \* of a client and of the provider
    NoOverride,                 \* the operator sets no ceiling
    BackoffMin, BackoffMax,
    MaxChanges,                 \* bound: commands of the clients
    MaxFaults                   \* bound: failures of the venue and the network

ASSUME DemandAssumption ==
    /\ Keys \subseteq Nat /\ IsFiniteSet(Keys)
    /\ \A p \in Providers :
          /\ p.one.serves \cap p.two.serves = {}
          /\ p.one.serves \cup p.two.serves = Keys
          /\ \A a \in {p.one, p.two} :
                /\ a.topics_per_key \in Nat \ {0} /\ a.topics_per_command \in Nat \ {0}
                /\ a.ack_per_topic \in BOOLEAN /\ a.unsubscribe_acked \in BOOLEAN
                /\ a.max_topics \in Nat /\ a.unlisted \subseteq Keys
    /\ MaxPerClient \in Nat \ {0} /\ Ceiling \in Nat /\ NoOverride \notin Nat
    /\ BackoffMin \in Nat \ {0} /\ BackoffMax \in Nat /\ BackoffMin <= BackoffMax

VARIABLES
    provider,     \* the provider considered; never changes
    clients, reference_counts, desired, snapshot, receivers, view,
    shutdown, changes, faults,
    unseen1, pc1, backoff1, result1, conn1, wire1, health1,
    unseen2, pc2, backoff2, result2, conn2, wire2, health2

registry == <<provider, clients, reference_counts, desired, snapshot, receivers, view>>
one == <<unseen1, pc1, backoff1, result1, conn1, wire1, health1>>
two == <<unseen2, pc2, backoff2, result2, conn2, wire2, health2>>
vars == <<registry, shutdown, changes, faults, one, two>>

\* The receivers of the watch channel are the supervisors below.
Registry == INSTANCE SubscriptionRegistry WITH
    Providers <- {"p"}, ProviderOf <- [k \in Keys |-> "p"],
    Declared <- [p \in {"p"} |-> Ceiling], Fallback <- Ceiling,
    Override <- NoOverride, Receivers <- {}, unseen <- receivers

One == INSTANCE EndpointSupervisor WITH
    Adapters <- {p.one : p \in Providers}, adapter <- provider.one, MaxDemand <- Ceiling,
    unseen <- unseen1, pc <- pc1, backoff <- backoff1, result <- result1,
    conn <- conn1, wire <- wire1, health <- health1

Two == INSTANCE EndpointSupervisor WITH
    Adapters <- {p.two : p \in Providers}, adapter <- provider.two, MaxDemand <- Ceiling,
    unseen <- unseen2, pc <- pc2, backoff <- backoff2, result <- result2,
    conn <- conn2, wire <- wire2, health <- health2

-----------------------------------------------------------------------------
(* The clients' side *)

\* Faulty: only the first receiver is marked.
Notify_First ==
    /\ unseen1' = (unseen1 \/ snapshot' # snapshot)
    /\ UNCHANGED unseen2

\* send_replace marks the value as changed for every receiver.
Notify ==
    /\ unseen1' = (unseen1 \/ snapshot' # snapshot)
    /\ unseen2' = (unseen2 \/ snapshot' # snapshot)

Command ==
    /\ changes' = changes + 1
    /\ Notify
    /\ UNCHANGED <<provider, shutdown, faults, pc1, backoff1, result1, conn1, wire1,
                   health1, pc2, backoff2, result2, conn2, wire2, health2>>

Subscribe(c, K) ==
    /\ changes < MaxChanges
    /\ ~ Registry!AddRejected(c, K) /\ Registry!Added(c, K) # {}
    /\ Registry!add(c, K)
    /\ Command

Unsubscribe(c, K) ==
    /\ changes < MaxChanges
    /\ K \cap Registry!Existing(c) # {}
    /\ Registry!remove(c, K)
    /\ Command

Disconnect(c) ==
    /\ changes < MaxChanges
    /\ c \in DOMAIN clients
    /\ Registry!cleanup_client(c)
    /\ Command

-----------------------------------------------------------------------------
(* The supervisors' side *)

\* A step of one supervisor, its connection or its venue.
StepOne ==
    /\ UNCHANGED <<registry, two>>
    /\ One!Task \/ One!Stop \/ One!Failure \/ One!VenueApplies

StepTwo ==
    /\ UNCHANGED <<registry, one>>
    /\ Two!Task \/ Two!Stop \/ Two!Failure \/ Two!VenueApplies

CancelToken ==
    /\ ~ shutdown
    /\ shutdown' = TRUE
    /\ UNCHANGED <<registry, changes, faults, one, two>>

Terminated == pc1 = "stopped" /\ pc2 = "stopped" /\ UNCHANGED vars

\* A supervisor that main does not spawn is a stopped one.
Init ==
    /\ provider \in Providers
    /\ Registry!Init
    /\ One!Init
    /\ IF provider.two.serves # {} THEN Two!Init
       ELSE /\ unseen2 = FALSE /\ pc2 = "stopped" /\ backoff2 = BackoffMin /\ result2 = "none"
            /\ conn2 = Two!NoConn /\ wire2 = Two!NoWire
            /\ health2 = [state |-> "Stopped", epoch |-> FALSE, desired_subscriptions |-> 0]

Next ==
    \/ \E c \in Clients :
          \/ \E K \in SUBSET Keys \ {{}} : Subscribe(c, K) \/ Unsubscribe(c, K)
          \/ Disconnect(c)
    \/ StepOne \/ StepTwo
    \/ CancelToken \/ Terminated

\* Both supervisors run and both venues answer; see EndpointSupervisor.
Fairness == One!Fairness /\ Two!Fairness

Spec == Init /\ [][Next]_vars /\ Fairness

-----------------------------------------------------------------------------
(* Properties *)

Held == UNION {Registry!Existing(c) : c \in Clients}

\* HealthRegistry::readiness: every endpoint without demand or live.
ready == One!ready /\ Two!ready

\* A supervisor that has no change of the demand to look at, and is at an await.
CaughtUp(pc, unseen) == ~ unseen /\ pc \notin {"check", "exiting"}

\* What the venue streams, of the topics of the keys that some client holds.
Streams1 == One!Topics(Held \cap One!Served) \subseteq wire1.subscribed
Streams2 == Two!Topics(Held \cap Two!Served) \subseteq wire2.subscribed

\* When readiness says ready and the supervisors have caught up, every key some
\* client holds is streamed by the venue, whichever endpoint serves it.
ReadyMeansStreamed ==
    ready /\ CaughtUp(pc1, unseen1) /\ (Two!Served = {} \/ CaughtUp(pc2, unseen2))
        => Streams1 /\ Streams2

\* Demand and supply meet: once clients, venue and network are quiet, the venue
\* streams exactly what the clients hold, or the gateway stops.  A key the
\* venue refuses, or more topics than a connection takes, keeps that endpoint
\* from it as long as it is held, and never the other endpoint.
DemandMet ==
    /\ <>[] (\/ wire1.subscribed = One!Topics(Held \cap One!Served)
             \/ One!Unservable \/ shutdown)
    /\ <>[] (\/ wire2.subscribed = Two!Topics(Held \cap Two!Served)
             \/ Two!Unservable \/ shutdown)

\* The token ends both supervisors, wherever each one is.
ShutdownStops == shutdown ~> (pc1 = "stopped" /\ pc2 = "stopped")
=============================================================================
