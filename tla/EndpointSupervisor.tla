------------------------- MODULE EndpointSupervisor -------------------------
(***************************************************************************)
(* supervise_endpoint, wait_for_desired, run_connection and CommandState   *)
(* of src/src/runtime.rs: the task that keeps one provider endpoint        *)
(* connected and subscribed to the demand the registry publishes, and the  *)
(* health entry it maintains (src/src/health.rs).                          *)
(*                                                                         *)
(* pc is the await the task is at:                                         *)
(*   check       before it reads the watch channel in wait_for_desired     *)
(*   idle        parked in wait_for_desired without demand                 *)
(*   connecting  inside connection_target or the websocket handshake       *)
(*   connected   at the select! of run_connection                          *)
(*   exiting     run_connection has chosen its result (it may still be     *)
(*               sending a close frame)                                    *)
(*   backoff     sleeping before the next attempt                          *)
(*   stopped     the task has ended                                        *)
(* The venue is external: it applies commands in order, acknowledges them, *)
(* and may refuse one, answer what was not asked, or hang up.              *)
(***************************************************************************)
EXTENDS Naturals, Sequences, FiniteSets

CONSTANTS
    Keys,           \* the provider's keys, numbered in the order of the BTreeSet
    Adapters,       \* the adapters considered, as records of the fields below
    MaxDemand,      \* the registry's ceiling on this provider's keys
    BackoffMin, BackoffMax,
    MaxChanges,     \* bound: changes of the demand
    MaxFaults       \* bound: failures of the venue and the network

ASSUME SupervisorAssumption ==
    /\ Keys \subseteq Nat /\ IsFiniteSet(Keys)
    /\ \A a \in Adapters :
          /\ a.serves \subseteq Keys
          /\ a.topics_per_key \in Nat \ {0} /\ a.topics_per_command \in Nat \ {0}
          /\ a.ack_per_topic \in BOOLEAN /\ a.unsubscribe_acked \in BOOLEAN
          /\ a.max_topics \in Nat /\ a.unlisted \subseteq Keys
    /\ MaxDemand \in Nat
    /\ BackoffMin \in Nat \ {0} /\ BackoffMax \in Nat /\ BackoffMin <= BackoffMax

VARIABLES
    adapter,      \* the adapter of this endpoint; never changes
    snapshot,     \* value of the watch channel
    unseen,       \* this receiver has not seen the last send
    shutdown,     \* the cancellation token
    pc,
    backoff,
    result,       \* what run_connection returned: idle, rotate or error
    conn,         \* the local variables of run_connection
    wire,         \* both directions of the websocket and the venue's state
    health,       \* this endpoint's entry of the health registry
    changes,      \* demand changes so far
    faults        \* failures so far

vars == <<adapter, snapshot, unseen, shutdown, pc, backoff, result, conn, wire, health,
          changes, faults>>
environment == <<adapter, snapshot, shutdown, changes>>

Served == adapter.serves                        \* keys whose channel endpoint_for sends here
TopicsPerKey == adapter.topics_per_key          \* native topics a key expands to
TopicsPerCommand == adapter.topics_per_command  \* topics packed into one command
AckPerTopic == adapter.ack_per_topic            \* each topic is acknowledged, not each command
UnsubscribeAcked == adapter.unsubscribe_acked   \* unsubscribe commands are acknowledged at all
MaxTopics == adapter.max_topics                 \* topics accepted on one connection
Unlisted == adapter.unlisted                    \* keys the venue refuses every time

\* filter_desired
Filter(K) == K \cap Served
Wanted == Filter(snapshot)

-----------------------------------------------------------------------------
(* CommandState and the adapter's commands *)

NoPending == [id \in {} |-> 0]

NoConn == [desired |-> {}, queued |-> <<>>, pending |-> NoPending, known |-> {},
           next_id |-> 1, live |-> FALSE, deadline |-> FALSE, idle_after |-> FALSE]

NoWire == [up |-> <<>>, down |-> <<>>, subscribed |-> {}]

\* The topics of a set of keys, and the place of a topic when they are listed
\* key by key.
Topics(K) == K \X (1 .. TopicsPerKey)
Place(K, topic) == Cardinality({k \in K : k < topic[1]}) * TopicsPerKey + topic[2] - 1

\* subscription_messages of the adapters: the topics of the keys, in order,
\* cut into commands numbered by the session.
Commands(action, K, first) ==
    LET chunks == (Cardinality(Topics(K)) + TopicsPerCommand - 1) \div TopicsPerCommand
        chunk(i) == {t \in Topics(K) : Place(K, t) \div TopicsPerCommand = i - 1}
    IN  [i \in 1 .. chunks |-> [id |-> first + i - 1, action |-> action, topics |-> chunk(i)]]

\* expected_acknowledgements
Acks(command) ==
    IF command.action = "unsubscribe" /\ ~ UnsubscribeAcked THEN 0
    ELSE IF AckPerTopic THEN Cardinality(command.topics) ELSE 1

\* The session counts its active topics and refuses to subscribe past the
\* connection's ceiling.
AdapterRefuses(K) == Cardinality(Topics(K)) > MaxTopics

\* queue_subscription_diff and CommandState::enqueue; ids are never reused.
Enqueue(c, action, K) ==
    LET batch == Commands(action, K, c.next_id)
    IN  [c EXCEPT !.queued = @ \o batch,
                  !.known = @ \cup {batch[i].id : i \in 1 .. Len(batch)},
                  !.next_id = @ + Len(batch)]

\* Faulty: sending a command does not arm the deadline.
MarkSent_NoDeadline(c) ==
    LET command == Head(c.queued)
        popped == [c EXCEPT !.queued = Tail(@)]
    IN  IF Acks(command) = 0
        THEN [popped EXCEPT !.known = @ \ {command.id}]
        ELSE [popped EXCEPT
                 !.pending = [id \in DOMAIN @ \cup {command.id} |->
                                 IF id = command.id THEN Acks(command) ELSE @[id]]]

\* CommandState::mark_sent, after pop_front.
MarkSent(c) ==
    LET command == Head(c.queued)
        popped == [c EXCEPT !.queued = Tail(@)]
    IN  IF Acks(command) = 0
        THEN [popped EXCEPT !.known = @ \ {command.id}]
        ELSE [popped EXCEPT
                 !.pending = [id \in DOMAIN @ \cup {command.id} |->
                                 IF id = command.id THEN Acks(command) ELSE @[id]],
                 !.deadline = TRUE]

\* Faulty: a completed id stays known.
Acknowledge_KeepsId(c, id) ==
    IF c.pending[id] > 1
    THEN [c EXCEPT !.pending[id] = @ - 1]
    ELSE [c EXCEPT !.pending = [i \in DOMAIN @ \ {id} |-> @[i]]]

\* CommandState::acknowledge
Acknowledge(c, id) ==
    IF c.pending[id] > 1
    THEN [c EXCEPT !.pending[id] = @ - 1]
    ELSE [c EXCEPT !.pending = [i \in DOMAIN @ \ {id} |-> @[i]],
                   !.known = @ \ {id}]

\* Faulty: sent commands count as confirmed.
ReadinessComplete_IgnoresPending(c) == c.queued = <<>>

ReadinessComplete(c) == c.queued = <<>> /\ DOMAIN c.pending = {}

\* mark_live and the clearing of the acknowledgement deadline.
GoLive(c) == [c EXCEPT !.deadline = FALSE, !.live = TRUE]

-----------------------------------------------------------------------------
(* The health entry *)

SetHealth(state) == health' = [health EXCEPT !.state = state]
SetHealthNoEpoch(state) == health' = [health EXCEPT !.state = state, !.epoch = FALSE]

\* HealthRegistry::readiness, for this endpoint.
ready == health.desired_subscriptions = 0 \/ health.state = "Live"

-----------------------------------------------------------------------------
(* wait_for_desired *)

\* Faulty: the desired count is published only for an idle endpoint.
CheckDesired_NoCount ==
    /\ pc = "check"
    /\ IF Wanted # {}
       THEN /\ pc' = "connecting"
            /\ conn' = [NoConn EXCEPT !.desired = Wanted]
            /\ health' = [health EXCEPT !.state = "Connecting", !.epoch = FALSE]
       ELSE /\ pc' = "idle"
            /\ health' = [state |-> "Idle", epoch |-> FALSE,
                          desired_subscriptions |-> 0]
            /\ UNCHANGED conn
    /\ UNCHANGED <<environment, unseen, backoff, result, wire, faults>>

\* borrow() reads the value without marking it seen.
CheckDesired ==
    /\ pc = "check"
    /\ IF Wanted # {}
       THEN /\ pc' = "connecting"
            /\ conn' = [NoConn EXCEPT !.desired = Wanted]
            /\ health' = [state |-> "Connecting", epoch |-> FALSE,
                          desired_subscriptions |-> Cardinality(Wanted)]
       ELSE /\ pc' = "idle"
            /\ health' = [state |-> "Idle", epoch |-> FALSE,
                          desired_subscriptions |-> 0]
            /\ UNCHANGED conn
    /\ UNCHANGED <<environment, unseen, backoff, result, wire, faults>>

\* changed() returns and marks the value seen.
WakeIdle ==
    /\ pc = "idle"
    /\ unseen
    /\ unseen' = FALSE
    /\ pc' = "check"
    /\ UNCHANGED <<environment, backoff, result, conn, wire, health, faults>>

\* The end of supervise_endpoint.
Stopped ==
    /\ pc' = "stopped"
    /\ SetHealthNoEpoch("Stopped")
    /\ conn' = NoConn
    /\ wire' = NoWire

StopIdle ==
    /\ pc = "idle"
    /\ shutdown
    /\ Stopped
    /\ UNCHANGED <<environment, unseen, backoff, result, faults>>

-----------------------------------------------------------------------------
(* run_connection *)

\* run_connection returns r: the socket goes with it.
Leave(r) ==
    /\ pc' = "exiting"
    /\ result' = r
    /\ wire' = NoWire
    /\ UNCHANGED <<environment, backoff>>

Fault == faults < MaxFaults /\ faults' = faults + 1

\* Faulty: connecting marks the watch value as seen.
Connect_MarksSeen ==
    /\ pc = "connecting"
    /\ ~ AdapterRefuses(conn.desired)
    /\ conn' = Enqueue(conn, "subscribe", conn.desired)
    /\ pc' = "connected"
    /\ health' = [health EXCEPT !.state = "Connecting", !.epoch = TRUE]
    /\ unseen' = FALSE
    /\ UNCHANGED <<environment, backoff, result, wire, faults>>

\* The handshake succeeds and the commands for the demand read before it are
\* queued; neither the token nor the watch channel is looked at until then.  The
\* demand is never empty, so the branch for a connection that has nothing to
\* confirm is not taken.
Connect ==
    /\ pc = "connecting"
    /\ ~ AdapterRefuses(conn.desired)
    /\ conn' = Enqueue(conn, "subscribe", conn.desired)
    /\ pc' = "connected"
    /\ health' = [health EXCEPT !.state = "Connecting", !.epoch = TRUE]
    /\ UNCHANGED <<environment, unseen, backoff, result, wire, faults>>

\* subscription_messages refuses the demand: no command is queued.
ConnectRefused ==
    /\ pc = "connecting"
    /\ AdapterRefuses(conn.desired)
    /\ Leave("error")
    /\ UNCHANGED <<unseen, conn, health, faults>>

\* Discovery, the handshake or its timeout fails.
ConnectFails ==
    /\ pc = "connecting"
    /\ Fault
    /\ Leave("error")
    /\ UNCHANGED <<unseen, conn, health>>

StopConnected ==
    /\ pc = "connected"
    /\ shutdown
    /\ Leave("idle")
    /\ UNCHANGED <<unseen, conn, health, faults>>

Rotate ==
    /\ pc = "connected"
    /\ Fault
    /\ Leave("rotate")
    /\ UNCHANGED <<unseen, conn, health>>

\* The acknowledgement deadline passes.
AckTimeout ==
    /\ pc = "connected"
    /\ conn.deadline
    /\ Fault
    /\ Leave("error")
    /\ UNCHANGED <<unseen, conn, health>>

\* The pacer sends the next command.  When the last one is out and none is
\* pending the endpoint is live; when the demand is gone it closes instead.
SendCommand ==
    /\ pc = "connected"
    /\ conn.queued # <<>>
    /\ LET sent == MarkSent(conn)
       IN  /\ conn' = IF ReadinessComplete(sent) THEN GoLive(sent) ELSE sent
           /\ IF ReadinessComplete(sent) THEN SetHealth("Live") ELSE UNCHANGED health
           /\ IF sent.idle_after /\ sent.queued = <<>>
              THEN Leave("idle")
              ELSE /\ wire' = [wire EXCEPT !.up = Append(@, Head(conn.queued))]
                   /\ UNCHANGED <<environment, backoff, result, pc>>
    /\ UNCHANGED <<unseen, faults>>

\* A write fails, a binary frame cannot be decoded, the venue hangs up, or no
\* demanded event arrived for stale_after.
ConnectionFails ==
    /\ pc = "connected"
    /\ Fault
    /\ Leave("error")
    /\ UNCHANGED <<unseen, conn, health>>

\* Faulty: nothing is unsubscribed.
ApplyDiff_NoUnsubscribe(c, removed, added) ==
    [Enqueue(c, "subscribe", added) EXCEPT
        !.live = @ /\ removed = {} /\ added = {}]

\* Unsubscribe what is no longer wanted, then subscribe what is new; the
\* connection is live again when the commands are done.
ApplyDiff(c, removed, added) ==
    [Enqueue(Enqueue(c, "unsubscribe", removed), "subscribe", added) EXCEPT
        !.live = @ /\ removed = {} /\ added = {}]

\* The desired_rx.changed() branch.
DesiredChanged ==
    /\ pc = "connected"
    /\ unseen
    /\ unseen' = FALSE
    /\ LET next == Wanted
           removed == conn.desired \ next
           added == next \ conn.desired
           diffed == ApplyDiff(conn, removed, added)
           counted == [health EXCEPT !.desired_subscriptions = Cardinality(next)]
       IN  IF added # {} /\ AdapterRefuses(next)
           THEN /\ health' = counted
                /\ Leave("error")
                /\ UNCHANGED conn
           ELSE /\ conn' = [diffed EXCEPT !.desired = next, !.idle_after = (next = {})]
                /\ health' = IF removed # {} \/ added # {}
                             THEN [counted EXCEPT !.state = "Connecting"] ELSE counted
                /\ IF next = {} /\ diffed.queued = <<>>
                   THEN Leave("idle")
                   ELSE UNCHANGED <<environment, backoff, result, pc, wire>>
    /\ UNCHANGED faults

\* handle_processed_frame for an acknowledgement; an unknown id ends the
\* connection.
AckFrame ==
    /\ pc = "connected"
    /\ wire.down # <<>> /\ Head(wire.down).kind = "ack"
    /\ LET id == Head(wire.down).id
           acked == Acknowledge(conn, id)
       IN  IF id \notin DOMAIN conn.pending
           THEN /\ Leave("error")
                /\ UNCHANGED <<conn, health>>
           ELSE /\ conn' = IF ReadinessComplete(acked) THEN GoLive(acked)
                           ELSE [acked EXCEPT !.deadline = TRUE]
                /\ IF ReadinessComplete(acked) /\ ~ conn.live
                   THEN SetHealth("Live") ELSE UNCHANGED health
                /\ wire' = [wire EXCEPT !.down = Tail(@)]
                /\ UNCHANGED <<environment, backoff, result, pc>>
    /\ UNCHANGED <<unseen, faults>>

\* CommandRejected ends the connection.
RejectFrame ==
    /\ pc = "connected"
    /\ wire.down # <<>> /\ Head(wire.down).kind = "reject"
    /\ Leave("error")
    /\ UNCHANGED <<unseen, conn, health, faults>>

-----------------------------------------------------------------------------
(* supervise_endpoint after run_connection *)

\* Faulty: the token is not looked at when a connection ends.
Exit_IgnoresToken ==
    /\ pc = "exiting"
    /\ conn' = NoConn
    /\ result' = "none"
    /\ IF result = "idle"
       THEN /\ pc' = "check"
            /\ backoff' = BackoffMin
            /\ UNCHANGED health
       ELSE /\ pc' = "backoff"
            /\ SetHealthNoEpoch("Backoff")
            /\ backoff' \in {backoff, BackoffMin}
    /\ UNCHANGED <<environment, unseen, wire, faults>>

Exit ==
    /\ pc = "exiting"
    /\ conn' = NoConn
    /\ result' = "none"
    /\ \/ /\ shutdown
          /\ pc' = "stopped"
          /\ SetHealthNoEpoch("Stopped")
          /\ UNCHANGED backoff
       \/ /\ ~ shutdown /\ result = "idle"
          /\ pc' = "check"
          /\ backoff' = BackoffMin
          /\ UNCHANGED health
       \/ /\ ~ shutdown /\ result # "idle"
          /\ pc' = "backoff"
          /\ SetHealthNoEpoch("Backoff")
          /\ backoff' \in {backoff, BackoffMin}  \* stable connections reset it
    /\ UNCHANGED <<environment, unseen, wire, faults>>

\* The jittered sleep ends.
Retry ==
    /\ pc = "backoff"
    /\ pc' = "check"
    /\ backoff' = IF 2 * backoff < BackoffMax THEN 2 * backoff ELSE BackoffMax
    /\ UNCHANGED <<environment, unseen, result, conn, wire, health, faults>>

StopBackoff ==
    /\ pc = "backoff"
    /\ shutdown
    /\ Stopped
    /\ UNCHANGED <<environment, unseen, backoff, result, faults>>

-----------------------------------------------------------------------------
(* The environment *)

\* The registry publishes another snapshot; it never admits more than the
\* provider's ceiling.
DemandChanges ==
    /\ changes < MaxChanges
    /\ changes' = changes + 1
    /\ \E K \in SUBSET Keys :
          /\ K # snapshot
          /\ Cardinality(Filter(K)) <= MaxDemand
          /\ snapshot' = K
    /\ unseen' = TRUE
    /\ UNCHANGED <<adapter, shutdown, pc, backoff, result, conn, wire, health, faults>>

CancelToken ==
    /\ ~ shutdown
    /\ shutdown' = TRUE
    /\ UNCHANGED <<adapter, snapshot, changes, unseen, pc, backoff, result, conn, wire, health, faults>>

\* What the venue is subscribed to after a command.
Apply(subscribed, command) ==
    IF command.action = "subscribe" THEN subscribed \cup command.topics
    ELSE subscribed \ command.topics

\* A command that subscribes a key the venue does not know.
Refused(command) ==
    command.action = "subscribe" /\ command.topics \cap Topics(Unlisted) # {}

\* The venue applies the oldest command and acknowledges it.
VenueApplies ==
    /\ pc = "connected" /\ wire.up # <<>> /\ ~ Refused(Head(wire.up))
    /\ LET command == Head(wire.up)
       IN  wire' = [up |-> Tail(wire.up),
                    down |-> wire.down
                        \o [i \in 1 .. Acks(command) |-> [kind |-> "ack", id |-> command.id]],
                    subscribed |-> Apply(wire.subscribed, command)]
    /\ UNCHANGED <<environment, unseen, pc, backoff, result, conn, health, faults>>

\* The venue refuses the oldest command, for its key or for no reason.
VenueRejects ==
    /\ pc = "connected" /\ wire.up # <<>>
    /\ IF Refused(Head(wire.up)) THEN UNCHANGED faults ELSE Fault
    /\ wire' = [wire EXCEPT !.up = Tail(@), !.down = Append(@, [kind |-> "reject", id |-> 0])]
    /\ UNCHANGED <<environment, unseen, pc, backoff, result, conn, health>>

\* The venue acknowledges a request it was not sent, or has answered in full: the
\* id is not pending either way.  An acknowledgement repeated while others of its
\* request are due would be counted for one of them; it is assumed not to come.
VenueStrayAck ==
    /\ pc = "connected"
    /\ Fault
    /\ wire' = [wire EXCEPT !.down = Append(@, [kind |-> "ack", id |-> 0])]
    /\ UNCHANGED <<environment, unseen, pc, backoff, result, conn, health>>

Terminated == pc = "stopped" /\ UNCHANGED vars

-----------------------------------------------------------------------------

Init ==
    /\ adapter \in Adapters
    /\ snapshot = {}
    /\ unseen = FALSE
    /\ shutdown = FALSE
    /\ pc = "check"
    /\ backoff = BackoffMin
    /\ result = "none"
    /\ conn = NoConn
    /\ wire = NoWire
    /\ health = [state |-> "Idle", epoch |-> FALSE, desired_subscriptions |-> 0]
    /\ changes = 0
    /\ faults = 0

\* The steps outside the select! of run_connection: one per await.
Advance ==
    \/ CheckDesired \/ WakeIdle \/ Connect \/ ConnectRefused
    \/ Exit \/ Retry

Task ==
    \/ Advance
    \/ SendCommand \/ DesiredChanged \/ AckFrame \/ RejectFrame

Stop == StopIdle \/ StopConnected \/ StopBackoff

Failure ==
    \/ ConnectFails \/ Rotate \/ AckTimeout \/ ConnectionFails
    \/ VenueRejects \/ VenueStrayAck

Next ==
    \/ Task \/ Stop \/ Failure
    \/ DemandChanges \/ CancelToken \/ VenueApplies
    \/ Terminated

\* A task with a ready branch runs, whichever branch it then takes, and the venue
\* answers.  Nothing obliges the demand to change, the token to be cancelled or
\* anything to fail.
Fairness == WF_vars(Task \/ Stop) /\ WF_vars(VenueApplies \/ VenueRejects)

Spec == Init /\ [][Next]_vars /\ Fairness

-----------------------------------------------------------------------------
(* Properties *)

Connected == pc = "connected"

\* Once the venue has applied a line of commands it is subscribed to the topics
\* the last command about them subscribes, and to those it already had that no
\* command is about.
Reaches(line, subscribed, topic) ==
    \/ topic \in subscribed /\ \A i \in DOMAIN line : topic \notin line[i].topics
    \/ \E i \in DOMAIN line : /\ line[i].action = "subscribe" /\ topic \in line[i].topics
                              /\ \A j \in DOMAIN line : j > i => topic \notin line[j].topics

\* The topics the venue will be subscribed to once it has applied every command
\* that is on its way or queued.
Target == {t \in Topics(Keys) : Reaches(wire.up \o conn.queued, wire.subscribed, t)}

\* mark_live runs only when the venue has confirmed everything: while the
\* health entry says Live, no command is queued or unacknowledged and the venue
\* is subscribed to every topic of the demand the connection serves.
LiveMeansSubscribed ==
    Connected /\ health.state = "Live" =>
        /\ ReadinessComplete(conn)
        /\ Topics(conn.desired) \subseteq wire.subscribed

\* The acknowledgement deadline is armed as long as a command is unacknowledged
\* (a venue that falls silent cannot hold the endpoint in Connecting forever)
\* and is off once the endpoint is ready.
DeadlineCoversPending ==
    Connected =>
        /\ DOMAIN conn.pending # {} => conn.deadline
        /\ ReadinessComplete(conn) => ~ conn.deadline

\* The redundant state of a connection stays consistent: the live flag agrees
\* with the state readiness reports, so handle_processed_frame's "if !live"
\* never skips a mark_live that is due, and known_request_ids holds exactly the
\* ids queued or pending, so it does not grow with the age of the connection
\* and never refuses a fresh id.
BookkeepingExact ==
    /\ Connected => conn.live = (health.state = "Live")
    /\ conn.known = DOMAIN conn.pending \cup {conn.queued[i].id : i \in DOMAIN conn.queued}

\* Whenever the receiver has nothing unseen, the task works on the current
\* demand: no change is lost between the borrow of wait_for_desired, the
\* handshake and the select! of run_connection.
NoLostDemand ==
    ~ unseen => /\ pc \in {"connecting", "connected"} => conn.desired = Wanted
                /\ pc = "idle" => Wanted = {}

\* However changes of the demand interleave with the pacing of the commands,
\* what was sent and what is queued lead the venue to exactly the demand the
\* connection serves (until the venue refuses a command).
CommandsReachDesired ==
    Connected /\ (\A i \in DOMAIN wire.down : wire.down[i].kind # "reject") =>
        Target = Topics(conn.desired)

Settled ==
    \/ shutdown /\ pc = "stopped"
    \/ pc = "idle" /\ Wanted = {} /\ ready
    \/ Connected /\ health.state = "Live" /\ wire.subscribed = Topics(Wanted)

\* Demand that no connection can serve: more than the adapter accepts, or with a
\* key the venue refuses, which ends every connection and so starves the rest.
Unservable == AdapterRefuses(Wanted) \/ Wanted \cap Unlisted # {}

\* Demand the registry has admitted is served unless it changes first.  The
\* ceiling the registry enforces is max_subscriptions, which exists "so the
\* gateway refuses demand it could not honour" (src/src/providers/mod.rs).
AdmittedDemandServed ==
    \A K \in SUBSET Keys :
        (snapshot = K) ~> (snapshot # K \/ shutdown \/ Settled)
=============================================================================
