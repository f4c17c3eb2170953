------------------------ MODULE UpstreamDemandProofs ------------------------
(***************************************************************************)
(* From the registry's invariant and that of each supervisor to what the   *)
(* readiness of a provider means, for any clients, keys, adapters, number  *)
(* of commands and number of failures.                                     *)
(*                                                                         *)
(* The components are proved elsewhere.  R, P1 and P2 are their proofs,    *)
(* instantiated as UpstreamDemand instantiates the components; what is     *)
(* left is that a step of one of them is, to the others, a step they are   *)
(* proved to allow.  The steps are sorted out before P1 and P2 come in.    *)
(***************************************************************************)
EXTENDS UpstreamDemand, TLAPS

\* What a step of the composition is to a supervisor: a step of its own, or one
\* that changes only what the clients or the other endpoint hold.
OneSteps == One!Task \/ One!Stop \/ One!Failure \/ One!VenueApplies
TwoSteps == Two!Task \/ Two!Stop \/ Two!Failure \/ Two!VenueApplies

OneAside == /\ UNCHANGED <<provider, pc1, conn1, wire1, health1>>
            /\ \/ snapshot' = snapshot /\ unseen1' = unseen1
               \/ snapshot' \subseteq Keys /\ unseen1' = TRUE
TwoAside == /\ UNCHANGED <<provider, pc2, conn2, wire2, health2>>
            /\ \/ snapshot' = snapshot /\ unseen2' = unseen2
               \/ snapshot' \subseteq Keys /\ unseen2' = TRUE

-----------------------------------------------------------------------------
(* The registry *)

R == INSTANCE SubscriptionRegistryProofs WITH
    Providers <- {"p"}, ProviderOf <- [k \in Keys |-> "p"],
    Declared <- [p \in {"p"} |-> Ceiling], Fallback <- Ceiling,
    Override <- NoOverride, Receivers <- {}, unseen <- receivers

LEMMA RegistryAssumptions == R!KeysAssumption /\ R!LimitsAssumption
  BY DemandAssumption DEF R!IsFiniteSet, IsFiniteSet

LEMMA RegistryInit ==
    ASSUME Registry!Init
    PROVE  R!IInv
  BY RegistryAssumptions, R!InitEstablishes DEF R!Init, Registry!Init

\* A command of a client, as the composition takes it, is a step of the
\* registry the proofs are about.
LEMMA RegistrySame ==
    ASSUME NEW c \in Clients, NEW K \in SUBSET Keys,
           Registry!add(c, K) \/ Registry!remove(c, K) \/ Registry!cleanup_client(c)
    PROVE  R!add(c, K) \/ R!remove(c, K) \/ R!cleanup_client(c)
  BY Zenon
     DEF R!vars, Registry!vars, R!Existing, Registry!Existing, R!WithClient, Registry!WithClient,
         R!SendIfChanged, Registry!SendIfChanged, R!Added, Registry!Added,
         R!ClientLimitExceeded, Registry!ClientLimitExceeded, R!Fresh, Registry!Fresh,
         R!ProviderLimitExceeded, Registry!ProviderLimitExceeded, R!OfProvider,
         Registry!OfProvider, R!limit_for, Registry!limit_for, R!Capped,
         Registry!Capped, R!AddRejected, Registry!AddRejected, R!Increment,
         Registry!Increment, R!AddKeys, Registry!AddKeys, R!add, Registry!add,
         R!Deactivated, Registry!Deactivated, R!Decrement, Registry!Decrement,
         R!RemoveKeys, Registry!RemoveKeys, R!remove, Registry!remove, R!cleanup_client,
         Registry!cleanup_client, R!Cardinality, Registry!Cardinality

\* A command of a client: the registry steps, and both receivers are marked
\* if the demand has changed.
LEMMA CommandKeeps ==
    ASSUME NEW c \in Clients, NEW K \in SUBSET Keys, R!IInv,
           unseen1 \in BOOLEAN, unseen2 \in BOOLEAN, Command,
           Registry!add(c, K) \/ Registry!remove(c, K) \/ Registry!cleanup_client(c)
    PROVE  R!IInv' /\ provider' = provider /\ OneAside /\ TwoAside
<1>1. R!IInv'
  BY RegistrySame, RegistryAssumptions, R!NextPreserves DEF R!Next
<1>2. snapshot' \subseteq Keys
  BY <1>1 DEF R!IInv, R!TypeOK
<1>. QED
  BY <1>1, <1>2 DEF Command, Notify, OneAside, TwoAside

LEMMA RegistryAside ==
    ASSUME R!IInv, UNCHANGED registry
    PROVE  R!IInv' /\ provider' = provider /\ snapshot' = snapshot
  BY RegistryAssumptions, R!NextPreserves DEF registry, R!vars

LEMMA NextSorted ==
    ASSUME R!IInv, unseen1 \in BOOLEAN, unseen2 \in BOOLEAN, [Next]_vars
    PROVE  R!IInv' /\ provider' = provider /\ (OneAside \/ OneSteps) /\ (TwoAside \/ TwoSteps)
<1>1. ASSUME NEW c \in Clients, NEW K \in SUBSET Keys,
             Subscribe(c, K) \/ Unsubscribe(c, K) \/ Disconnect(c)
      PROVE  R!IInv' /\ provider' = provider /\ OneAside /\ TwoAside
  BY <1>1, CommandKeeps DEF Subscribe, Unsubscribe, Disconnect
<1>2. CASE StepOne
  BY <1>2, RegistryAside DEF StepOne, OneSteps, TwoAside, two
<1>3. CASE StepTwo
  BY <1>3, RegistryAside DEF StepTwo, TwoSteps, OneAside, one
<1>4. CASE UNCHANGED <<registry, one, two>>
  BY <1>4, RegistryAside DEF OneAside, TwoAside, one, two
<1>. QED
  BY <1>1, <1>2, <1>3, <1>4 DEF Next, CancelToken, Terminated, vars

\* What the supervisors are asked for is what the clients hold.
LEMMA HeldPublished ==
    ASSUME R!IInv
    PROVE  snapshot = Held
  BY RegistryAssumptions, R!SnapshotIsUnion DEF Held, R!Existing, Registry!Existing

-----------------------------------------------------------------------------
(* The supervisor of the first endpoint *)

P1 == INSTANCE EndpointSupervisorProofs WITH
    Adapters <- {p.one : p \in Providers}, adapter <- provider.one, MaxDemand <- Ceiling,
    unseen <- unseen1, pc <- pc1, backoff <- backoff1, result <- result1,
    conn <- conn1, wire <- wire1, health <- health1

LEMMA OneAssumption == P1!SupervisorAssumption
  BY DemandAssumption DEF P1!IsFiniteSet, IsFiniteSet

LEMMA OneInit ==
    ASSUME Init
    PROVE  P1!IInv
  BY OneAssumption, P1!FreshHolds
     DEF Init, One!Init, One!NoConn, One!NoPending, One!NoWire, P1!NoConn, P1!NoPending,
         P1!NoWire

\* The steps the proofs are about are those of the composition.
LEMMA OneSame ==
    ASSUME OneSteps
    PROVE  P1!Task \/ P1!Stop \/ P1!Failure \/ P1!VenueApplies
  BY ZenonT(60)
     DEF OneSteps, P1!environment, One!environment, P1!Served, One!Served, P1!TopicsPerKey,
         One!TopicsPerKey, P1!TopicsPerCommand, One!TopicsPerCommand, P1!AckPerTopic,
         One!AckPerTopic, P1!UnsubscribeAcked, One!UnsubscribeAcked, P1!MaxTopics,
         One!MaxTopics, P1!Unlisted, One!Unlisted, P1!Filter, One!Filter, P1!Wanted,
         One!Wanted, P1!NoPending, One!NoPending, P1!NoConn, One!NoConn, P1!NoWire,
         One!NoWire, P1!Topics, One!Topics, P1!Place, One!Place, P1!Commands,
         One!Commands, P1!Acks, One!Acks, P1!AdapterRefuses, One!AdapterRefuses,
         P1!Enqueue, One!Enqueue, P1!MarkSent, One!MarkSent, P1!Acknowledge,
         One!Acknowledge, P1!ReadinessComplete, One!ReadinessComplete, P1!GoLive,
         One!GoLive, P1!SetHealth, One!SetHealth, P1!SetHealthNoEpoch,
         One!SetHealthNoEpoch, P1!CheckDesired, One!CheckDesired, P1!WakeIdle,
         One!WakeIdle, P1!Stopped, One!Stopped, P1!StopIdle, One!StopIdle, P1!Leave,
         One!Leave, P1!Fault, One!Fault, P1!Connect, One!Connect, P1!ConnectRefused,
         One!ConnectRefused, P1!ConnectFails, One!ConnectFails, P1!StopConnected,
         One!StopConnected, P1!Rotate, One!Rotate, P1!AckTimeout, One!AckTimeout,
         P1!SendCommand, One!SendCommand, P1!ConnectionFails, One!ConnectionFails,
         P1!ApplyDiff, One!ApplyDiff, P1!DesiredChanged, One!DesiredChanged,
         P1!AckFrame, One!AckFrame, P1!RejectFrame, One!RejectFrame, P1!Exit, One!Exit,
         P1!Retry, One!Retry, P1!StopBackoff, One!StopBackoff, P1!Apply, One!Apply,
         P1!Refused, One!Refused, P1!VenueApplies, One!VenueApplies, P1!VenueRejects,
         One!VenueRejects, P1!VenueStrayAck, One!VenueStrayAck, P1!Advance, One!Advance,
         P1!Task, One!Task, P1!Stop, One!Stop, P1!Failure, One!Failure, P1!Cardinality,
         One!Cardinality

LEMMA OneKeeps ==
    ASSUME P1!IInv, OneAside \/ OneSteps
    PROVE  P1!IInv'
  BY OneSame, OneAssumption, P1!TaskKeeps, P1!DemandKeeps DEF OneAside

\* A ready endpoint that has caught up streams what the clients hold.
LEMMA OneStreams ==
    ASSUME P1!IInv, One!ready, CaughtUp(pc1, unseen1), snapshot = Held
    PROVE  Streams1
  BY OneAssumption, P1!ReadyStreams
     DEF CaughtUp, Streams1, P1!ready, One!ready, P1!Wanted, P1!Filter, P1!Served, One!Served,
         P1!Topics, One!Topics, P1!TopicsPerKey, One!TopicsPerKey

-----------------------------------------------------------------------------
(* The supervisor of the second endpoint *)

P2 == INSTANCE EndpointSupervisorProofs WITH
    Adapters <- {p.two : p \in Providers}, adapter <- provider.two, MaxDemand <- Ceiling,
    unseen <- unseen2, pc <- pc2, backoff <- backoff2, result <- result2,
    conn <- conn2, wire <- wire2, health <- health2

LEMMA TwoAssumption == P2!SupervisorAssumption
  BY DemandAssumption DEF P2!IsFiniteSet, IsFiniteSet

\* main spawns no supervisor for an endpoint the provider does not have; the
\* invariant holds of it as of a task that has not run.
LEMMA TwoInit ==
    ASSUME Init
    PROVE  P2!IInv
  BY TwoAssumption, P2!FreshHolds
     DEF Init, Two!Init, Registry!Init, Two!NoConn, Two!NoPending, Two!NoWire, P2!NoConn,
         P2!NoPending, P2!NoWire

\* The steps the proofs are about are those of the composition.
LEMMA TwoSame ==
    ASSUME TwoSteps
    PROVE  P2!Task \/ P2!Stop \/ P2!Failure \/ P2!VenueApplies
  BY ZenonT(60)
     DEF TwoSteps, P2!environment, Two!environment, P2!Served, Two!Served, P2!TopicsPerKey,
         Two!TopicsPerKey, P2!TopicsPerCommand, Two!TopicsPerCommand, P2!AckPerTopic,
         Two!AckPerTopic, P2!UnsubscribeAcked, Two!UnsubscribeAcked, P2!MaxTopics,
         Two!MaxTopics, P2!Unlisted, Two!Unlisted, P2!Filter, Two!Filter, P2!Wanted,
         Two!Wanted, P2!NoPending, Two!NoPending, P2!NoConn, Two!NoConn, P2!NoWire,
         Two!NoWire, P2!Topics, Two!Topics, P2!Place, Two!Place, P2!Commands,
         Two!Commands, P2!Acks, Two!Acks, P2!AdapterRefuses, Two!AdapterRefuses,
         P2!Enqueue, Two!Enqueue, P2!MarkSent, Two!MarkSent, P2!Acknowledge,
         Two!Acknowledge, P2!ReadinessComplete, Two!ReadinessComplete, P2!GoLive,
         Two!GoLive, P2!SetHealth, Two!SetHealth, P2!SetHealthNoEpoch,
         Two!SetHealthNoEpoch, P2!CheckDesired, Two!CheckDesired, P2!WakeIdle,
         Two!WakeIdle, P2!Stopped, Two!Stopped, P2!StopIdle, Two!StopIdle, P2!Leave,
         Two!Leave, P2!Fault, Two!Fault, P2!Connect, Two!Connect, P2!ConnectRefused,
         Two!ConnectRefused, P2!ConnectFails, Two!ConnectFails, P2!StopConnected,
         Two!StopConnected, P2!Rotate, Two!Rotate, P2!AckTimeout, Two!AckTimeout,
         P2!SendCommand, Two!SendCommand, P2!ConnectionFails, Two!ConnectionFails,
         P2!ApplyDiff, Two!ApplyDiff, P2!DesiredChanged, Two!DesiredChanged,
         P2!AckFrame, Two!AckFrame, P2!RejectFrame, Two!RejectFrame, P2!Exit, Two!Exit,
         P2!Retry, Two!Retry, P2!StopBackoff, Two!StopBackoff, P2!Apply, Two!Apply,
         P2!Refused, Two!Refused, P2!VenueApplies, Two!VenueApplies, P2!VenueRejects,
         Two!VenueRejects, P2!VenueStrayAck, Two!VenueStrayAck, P2!Advance, Two!Advance,
         P2!Task, Two!Task, P2!Stop, Two!Stop, P2!Failure, Two!Failure, P2!Cardinality,
         Two!Cardinality

LEMMA TwoKeeps ==
    ASSUME P2!IInv, TwoAside \/ TwoSteps
    PROVE  P2!IInv'
  BY TwoSame, TwoAssumption, P2!TaskKeeps, P2!DemandKeeps DEF TwoAside

\* A ready endpoint that has caught up streams what the clients hold.
LEMMA TwoStreams ==
    ASSUME P2!IInv, Two!ready, CaughtUp(pc2, unseen2), snapshot = Held
    PROVE  Streams2
  BY TwoAssumption, P2!ReadyStreams
     DEF CaughtUp, Streams2, P2!ready, Two!ready, P2!Wanted, P2!Filter, P2!Served, Two!Served,
         P2!Topics, Two!Topics, P2!TopicsPerKey, Two!TopicsPerKey

-----------------------------------------------------------------------------
(* The composition *)

IInv == R!IInv /\ P1!IInv /\ P2!IInv

\* The registry and both supervisors keep their invariants in the composition.
THEOREM Invariance == Spec => []IInv
<1>1. Init => IInv
  BY RegistryInit, OneInit, TwoInit DEF Init, IInv
<1>2. IInv /\ [Next]_vars => IInv'
  BY NextSorted, OneKeeps, TwoKeeps DEF IInv, P1!IInv, P1!TypeOK, P2!IInv, P2!TypeOK
<1>. QED
  BY <1>1, <1>2, PTL DEF Spec

\* HealthRegistry::readiness never reports ready while a key some client holds
\* is not streamed, once the supervisors have looked at the last demand.
THEOREM ReadinessIsStreaming == Spec => []ReadyMeansStreamed
<1>1. IInv => ReadyMeansStreamed
  BY HeldPublished, OneStreams, TwoStreams
     DEF IInv, ReadyMeansStreamed, ready, Streams2, Two!Topics
<1>. QED
  BY <1>1, Invariance, PTL
=============================================================================
