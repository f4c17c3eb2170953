-------------------------- MODULE ConnectionTimers --------------------------
(***************************************************************************)
(* The timers of run_connection (src/src/runtime.rs) in discrete time: the *)
(* pacer of the commands, the acknowledgement deadline, the heartbeat with *)
(* its staleness check and the rotation, on one open connection.           *)
(*                                                                         *)
(* EndpointSupervisor lets each timer fire at any moment; here each fires  *)
(* when it is due.  A timer is the time left until it fires.  The task is  *)
(* never late: time passes only when no branch of the select! is ready     *)
(* and the venue has not used up the time it takes to answer.              *)
(***************************************************************************)
EXTENDS Integers, Sequences

CONSTANTS
    Targets,       \* the connection targets considered: records of
                   \* command_interval, subscription_ack_timeout, heartbeat_interval,
                   \* stale_after, rotate_after (Off for none), unsubscribe_acked
    Latency,       \* a healthy venue answers a command within this time
    MaxKeys,       \* bound: subscriptions of the connection, a command each
    MaxChanges,    \* bound: changes of the demand
    MaxLost        \* bound: acknowledgements that never come

Off == -1

Target(interval, timeout, beat, stale, rotation, unsubscribe_acked) ==
    [command_interval |-> interval, subscription_ack_timeout |-> timeout,
     heartbeat_interval |-> beat, stale_after |-> stale, rotate_after |-> rotation,
     unsubscribe_acked |-> unsubscribe_acked]

\* connection_target of the adapters, in milliseconds.
Minutes(n) == n * 60000
binance_target == Target(125, 15000, Minutes(3), Minutes(10), Minutes(23 * 60 + 55), TRUE)
bybit_target == Target(150, 15000, 20000, 45000, Off, TRUE)
okx_target == Target(400, 15000, 20000, 45000, Off, TRUE)
mexc_target == Target(250, 15000, 15000, 45000, Off, FALSE)
bingx_target == Target(100, 15000, 4000, 20000, Off, TRUE)

\* KuCoin advertises its timings; of zero, or with a sum past 64 bits, they are
\* refused and there is no connection.
target_from_discovery(ping_interval, ping_timeout) ==
    Target(125, 15000, IF ping_interval < 2 THEN 1 ELSE ping_interval \div 2,
           ping_interval + ping_timeout, Minutes(1410), TRUE)

\* The venues' targets; of KuCoin's, examples.
Venues ==
    {binance_target, bybit_target, okx_target, mexc_target, bingx_target}
        \cup {target_from_discovery(ping_interval, ping_timeout) :
                ping_interval, ping_timeout \in {1, 2, 18000}}

\* What the targets used for checking share with those of the venues.
Proportioned(t) ==
    /\ t.command_interval \in Nat \ {0} /\ t.heartbeat_interval \in Nat \ {0}
    /\ t.subscription_ack_timeout \in Nat /\ t.stale_after \in Nat
    /\ t.unsubscribe_acked \in BOOLEAN
    /\ t.command_interval < t.subscription_ack_timeout
    /\ t.heartbeat_interval < t.stale_after

ASSUME TimersAssumption ==
    /\ \A t \in Targets \cup Venues : Proportioned(t)
    /\ MaxKeys \in Nat
    /\ Latency \in Nat /\ \A t \in Targets : Latency < t.subscription_ack_timeout

VARIABLES
    target,       \* the ConnectionTarget; never changes
    outcome,      \* "open", or how run_connection returned
    desired,      \* the number of subscriptions the connection serves
    queued,       \* queued commands: TRUE for one that will be acknowledged
    pending,      \* commands sent and not acknowledged
    command_pacer, acknowledgement_deadline, heartbeat, rotate,
    last_market_event,   \* time since the instant the code keeps
    quiet,        \* history: time since the last demanded event
    unacked,      \* history: commands sent since the deadline was last armed
    waiting,      \* venue: time since it last answered or had nothing to answer
    lost,         \* venue: pending commands it will never acknowledge
    silent,       \* venue: it has stopped answering and streaming
    changes

vars == <<target, outcome, desired, queued, pending, command_pacer, acknowledgement_deadline,
          heartbeat, rotate, last_market_event, quiet, unacked, waiting, lost, silent, changes>>
clocks == <<heartbeat, rotate, last_market_event, quiet>>
venue == <<lost, silent>>

Open == outcome = "open"

-----------------------------------------------------------------------------
(* The branches of the select! *)

\* run_connection returns: its variables go with it.
Return(how) ==
    /\ outcome' = how
    /\ desired' = 0 /\ queued' = <<>> /\ pending' = 0
    /\ command_pacer' = Off /\ acknowledgement_deadline' = Off
    /\ heartbeat' = Off /\ rotate' = Off
    /\ last_market_event' = 0 /\ quiet' = 0 /\ waiting' = 0
    /\ UNCHANGED <<target, unacked, venue, changes>>

ReadinessComplete(queue, open) == queue = <<>> /\ open = 0

\* Faulty: sending a command does not arm the deadline.
Armed_NotOnSend(acked, queue, open) ==
    IF ReadinessComplete(queue, open) THEN Off ELSE acknowledgement_deadline

\* The deadline after a command was sent: armed afresh by one that will be
\* acknowledged, left as it is by another, off when nothing is outstanding.
Armed(acked, queue, open) ==
    IF ReadinessComplete(queue, open) THEN Off
    ELSE IF acked THEN target.subscription_ack_timeout ELSE acknowledgement_deadline

\* The pacer's branch; the socket is closed once the demand is gone.
SendCommand ==
    /\ Open /\ queued # <<>> /\ command_pacer = 0
    /\ \/ desired = 0 /\ Len(queued) = 1 /\ Return("idle")
       \/ /\ desired > 0 \/ Len(queued) > 1
          /\ LET acked == Head(queued)
             IN  /\ queued' = Tail(queued)
                 /\ pending' = pending + (IF acked THEN 1 ELSE 0)
                 /\ acknowledgement_deadline' = Armed(acked, queued', pending')
                 /\ unacked' = IF acked THEN 0 ELSE unacked + 1
          /\ command_pacer' = target.command_interval
          /\ waiting' = IF pending = lost THEN 0 ELSE waiting
          /\ UNCHANGED <<target, outcome, desired, clocks, venue, changes>>

\* Faulty: an acknowledgement leaves the deadline of the last command.
AckFrame_NoRearm ==
    /\ Open /\ ~ silent /\ pending > lost
    /\ pending' = pending - 1
    /\ acknowledgement_deadline' = IF ReadinessComplete(queued, pending') THEN Off
                                   ELSE acknowledgement_deadline
    /\ unacked' = 0
    /\ waiting' = 0
    /\ UNCHANGED <<target, outcome, desired, queued, command_pacer, clocks, venue, changes>>

\* Faulty: any frame counts as a sign of life of the market data.
AckFrame_ResetsStale ==
    /\ Open /\ ~ silent /\ pending > lost
    /\ pending' = pending - 1
    /\ acknowledgement_deadline' = IF ReadinessComplete(queued, pending') THEN Off
                                   ELSE target.subscription_ack_timeout
    /\ unacked' = 0
    /\ waiting' = 0
    /\ last_market_event' = 0
    /\ UNCHANGED <<target, outcome, desired, queued, command_pacer, heartbeat, rotate, quiet,
                   venue, changes>>

\* handle_processed_frame for an acknowledgement: the deadline starts afresh
\* for what is still outstanding.
AckFrame ==
    /\ Open /\ ~ silent /\ pending > lost
    /\ pending' = pending - 1
    /\ acknowledgement_deadline' = IF ReadinessComplete(queued, pending') THEN Off
                                   ELSE target.subscription_ack_timeout
    /\ unacked' = 0
    /\ waiting' = 0
    /\ UNCHANGED <<target, outcome, desired, queued, command_pacer, clocks, venue, changes>>

\* handle_processed_frame for DemandedMarketEvent.
MarketEvent ==
    /\ Open /\ ~ silent /\ desired > 0
    /\ last_market_event' = 0
    /\ quiet' = 0
    /\ UNCHANGED <<target, outcome, desired, queued, pending, command_pacer,
                   acknowledgement_deadline, heartbeat, rotate, unacked, waiting, venue, changes>>

AckTimeout == Open /\ acknowledgement_deadline = 0 /\ Return("ack_timeout")

Rotate == Open /\ rotate = 0 /\ Return("rotate")

\* The heartbeat's tick checks for staleness before it pings.
HeartbeatTick ==
    /\ Open /\ heartbeat = 0
    /\ \/ last_market_event >= target.stale_after /\ Return("stale")
       \/ /\ last_market_event < target.stale_after
          /\ heartbeat' = target.heartbeat_interval
          /\ UNCHANGED <<target, outcome, desired, queued, pending, command_pacer,
                         acknowledgement_deadline, rotate, last_market_event, quiet, unacked,
                         waiting, venue, changes>>

\* The desired_rx.changed() branch: unsubscribes, then subscribes.
DesiredChanged(removed, added) ==
    /\ Open /\ changes < MaxChanges
    /\ changes' = changes + 1
    /\ removed <= desired /\ removed + added > 0
    /\ desired' = desired - removed + added
    /\ desired' <= MaxKeys
    /\ queued' = queued \o [i \in 1 .. removed |-> target.unsubscribe_acked]
                        \o [i \in 1 .. added |-> TRUE]
    /\ UNCHANGED <<target, outcome, pending, command_pacer, acknowledgement_deadline, clocks,
                   unacked, waiting, venue>>

-----------------------------------------------------------------------------
(* Time and the venue *)

Left(timer) == IF timer > 0 THEN timer - 1 ELSE timer

Ready ==
    \/ acknowledgement_deadline = 0 \/ rotate = 0 \/ heartbeat = 0
    \/ command_pacer = 0 /\ queued # <<>>

Tick ==
    /\ Open /\ ~ Ready
    /\ ~ silent /\ pending > lost => waiting < Latency
    /\ command_pacer' = Left(command_pacer)
    /\ acknowledgement_deadline' = Left(acknowledgement_deadline)
    /\ heartbeat' = Left(heartbeat)
    /\ rotate' = Left(rotate)
    /\ last_market_event' = last_market_event + 1
    /\ quiet' = quiet + 1
    /\ waiting' = IF ~ silent /\ pending > lost THEN waiting + 1 ELSE 0
    /\ UNCHANGED <<target, outcome, desired, queued, pending, unacked, venue, changes>>

LoseAck ==
    /\ Open /\ lost < pending /\ lost < MaxLost
    /\ lost' = lost + 1
    /\ UNCHANGED <<target, outcome, desired, queued, pending, command_pacer,
                   acknowledgement_deadline, clocks, unacked, waiting, silent, changes>>

FallSilent ==
    /\ Open /\ ~ silent
    /\ silent' = TRUE
    /\ waiting' = 0
    /\ UNCHANGED <<target, outcome, desired, queued, pending, command_pacer,
                   acknowledgement_deadline, clocks, unacked, lost, changes>>

Terminated == ~ Open /\ UNCHANGED vars

\* An interval's first tick is due at once; the heartbeat's has been awaited.
Init ==
    /\ target \in Targets
    /\ outcome = "open"
    /\ desired \in 1 .. MaxKeys
    /\ queued = [i \in 1 .. desired |-> TRUE]
    /\ pending = 0
    /\ command_pacer = 0
    /\ acknowledgement_deadline = Off
    /\ heartbeat = target.heartbeat_interval
    /\ rotate = target.rotate_after
    /\ last_market_event = 0 /\ quiet = 0
    /\ unacked = 0 /\ waiting = 0 /\ lost = 0 /\ silent = FALSE /\ changes = 0

Timers == SendCommand \/ AckTimeout \/ Rotate \/ HeartbeatTick

Next ==
    \/ Timers \/ AckFrame \/ MarketEvent
    \/ \E removed, added \in 0 .. MaxKeys : DesiredChanged(removed, added)
    \/ Tick \/ LoseAck \/ FallSilent
    \/ Terminated

\* Time passes, the task runs and a venue that answers answers; markets may be
\* quiet.
Spec == Init /\ [][Next]_vars /\ WF_vars(Tick) /\ WF_vars(Timers) /\ WF_vars(AckFrame)

-----------------------------------------------------------------------------
(* Properties *)

\* A venue that answers every command in time loses the connection to the
\* deadline only when commands that nobody acknowledges took all of it to send:
\* nothing but acknowledged commands and acknowledgements arms it again.
HealthyVenueKept ==
    outcome = "ack_timeout" =>
        \/ silent \/ lost > 0
        \/ (unacked + 1) * target.command_interval >= target.subscription_ack_timeout

\* A connection on which no demanded event arrives is given up within
\* stale_after and one heartbeat, whatever else the venue answers.
StaleNoticed == Open => quiet <= target.stale_after + target.heartbeat_interval

\* A command is acknowledged or the connection ends, even when only its
\* acknowledgement is lost and the market data keeps flowing; the commands and
\* acknowledgements of later changes put that off, each by one deadline.
LostAckEnds == pending > 0 ~> (pending = 0 \/ ~ Open)
=============================================================================
