---------------------------- MODULE RuntimeProofs ----------------------------
(***************************************************************************)
(* Proofs about what the gateway asks of the asynchronous runtime: the     *)
(* timers of a connection, and the background tasks of the process.        *)
(*                                                                         *)
(* The first part is about ConnectionTimers, for any target with the       *)
(* proportions of the venues' and any latency below the deadline, in time  *)
(* units as fine as one likes.  The second is about GatewayProcess, for    *)
(* any providers, endpoints and settings, and any number of background     *)
(* tasks.                                                                  *)
(***************************************************************************)
EXTENDS ConnectionTimers, GatewayProcess, SequenceTheorems, TLAPS

-----------------------------------------------------------------------------
(* The inductive invariant *)

TypeOK ==
    /\ target \in Targets
    /\ desired \in Nat /\ pending \in Nat /\ unacked \in Nat /\ waiting \in Nat /\ lost \in Nat
    /\ silent \in BOOLEAN
    /\ queued \in Seq(BOOLEAN)
    /\ Open => command_pacer \in 0 .. target.command_interval
    /\ Open => heartbeat \in 0 .. target.heartbeat_interval
    /\ Open => acknowledgement_deadline \in 0 .. target.subscription_ack_timeout \cup {Off}

\* At the last tick of the heartbeat the connection was not stale yet.
CheckedForStale ==
    Open => /\ quiet \in Nat /\ last_market_event = quiet
            /\ quiet + heartbeat < target.stale_after + target.heartbeat_interval

\* How long the deadline has been running.
Elapsed == target.subscription_ack_timeout - acknowledgement_deadline

\* The deadline runs only while something is outstanding.  With a command sent
\* and not yet acknowledged it has run no longer than the venue has had to answer;
\* without, no longer than the pacer needed for what was sent since.
DeadlineExplained ==
    Open /\ ~ silent /\ lost = 0 =>
        /\ pending > 0 => waiting <= Latency
        /\ acknowledgement_deadline # Off =>
              /\ queued # <<>> \/ pending > 0
              /\ pending > 0 => Elapsed <= waiting
              /\ pending = 0 => Elapsed <= unacked * target.command_interval
                                             + (target.command_interval - command_pacer)

IInv == TypeOK /\ CheckedForStale /\ DeadlineExplained /\ HealthyVenueKept

LEMMA TargetFacts ==
    ASSUME TypeOK
    PROVE  /\ target.command_interval \in Nat \ {0}
           /\ target.heartbeat_interval \in Nat \ {0}
           /\ target.subscription_ack_timeout \in Nat
           /\ target.stale_after \in Nat
           /\ target.unsubscribe_acked \in BOOLEAN
           /\ target.heartbeat_interval < target.stale_after
           /\ Latency \in Nat /\ Latency < target.subscription_ack_timeout
BY TimersAssumption DEF TypeOK, Proportioned

LEMMA OneMore == ASSUME NEW m \in Nat, NEW n \in Nat PROVE (m + 1) * n = m * n + n /\ m * n \in Nat
OBVIOUS

-----------------------------------------------------------------------------
(* Every step preserves the invariant *)

LEMMA InitIInv == ASSUME Init PROVE IInv
<1>1. TypeOK
  <2>1. queued \in Seq(BOOLEAN)
    BY TimersAssumption DEF Init
  <2>2. Proportioned(target)
    BY TimersAssumption DEF Init
  <2>3. /\ target.command_interval \in Nat /\ target.heartbeat_interval \in Nat
        /\ target.subscription_ack_timeout \in Nat
    BY <2>2 DEF Proportioned
  <2>4. desired \in Nat
    BY TimersAssumption DEF Init
  <2>5. silent \in BOOLEAN
    BY DEF Init
  <2>6. /\ command_pacer \in 0 .. target.command_interval
        /\ heartbeat \in 0 .. target.heartbeat_interval
    BY <2>3 DEF Init
  <2>. QED  BY <2>1, <2>4, <2>5, <2>6 DEF Init, TypeOK
<1>. QED  BY <1>1, TargetFacts DEF Init, IInv, CheckedForStale, DeadlineExplained, HealthyVenueKept, Off

\* Nothing is asked of a connection that has returned, except for how.
LEMMA ReturnPreserves ==
    ASSUME IInv, NEW how, how # "open", Return(how),
           how = "ack_timeout" =>
               \/ silent \/ lost > 0
               \/ (unacked + 1) * target.command_interval >= target.subscription_ack_timeout
    PROVE  IInv'
<1>1. ~ Open'
  BY DEF Return, Open
<1>2. TypeOK'
  BY <1>1 DEF IInv, TypeOK, Return, venue
<1>3. HealthyVenueKept'
  BY DEF Return, HealthyVenueKept, venue
<1>. QED  BY <1>1, <1>2, <1>3 DEF IInv, CheckedForStale, DeadlineExplained

\* The deadline cannot be due while a healthy venue has a command to answer.
LEMMA AckTimeoutPreserves == ASSUME IInv, AckTimeout PROVE IInv'
<1>. DEFINE slow == (unacked + 1) * target.command_interval >= target.subscription_ack_timeout
<1>. USE TargetFacts DEF IInv
<1>1. Open /\ acknowledgement_deadline = 0 /\ Return("ack_timeout")
  BY DEF AckTimeout
<1>2. silent \/ lost > 0 \/ slow
  <2>. SUFFICES ASSUME ~ silent, lost = 0 PROVE slow
    BY DEF TypeOK
  <2>1. Elapsed = target.subscription_ack_timeout /\ acknowledgement_deadline # Off
    BY <1>1 DEF Elapsed, Off
  <2>2. pending = 0
    BY <1>1, <2>1 DEF TypeOK, DeadlineExplained
  <2>3. Elapsed <= unacked * target.command_interval + (target.command_interval - command_pacer)
    BY <1>1, <2>1, <2>2 DEF DeadlineExplained
  <2>4. command_pacer \in Nat /\ unacked \in Nat
    BY <1>1 DEF TypeOK
  <2>. QED  BY <2>1, <2>3, <2>4, OneMore
<1>. QED  BY <1>1, <1>2, ReturnPreserves

\* Sending a command that will be acknowledged arms the deadline, and the venue
\* has yet to answer it; another command leaves the deadline to the pacer.
LEMMA SendPreserves == ASSUME IInv, SendCommand PROVE IInv'
<1>. USE TargetFacts DEF IInv
<1>1. CASE Return("idle")
  BY <1>1, ReturnPreserves
<1>2. CASE ~ Return("idle")
  <2>. DEFINE acked == Head(queued)
  <2>1. /\ Open /\ queued # <<>> /\ command_pacer = 0
        /\ queued' = Tail(queued)
        /\ pending' = pending + (IF acked THEN 1 ELSE 0)
        /\ acknowledgement_deadline' = Armed(acked, queued', pending')
        /\ unacked' = IF acked THEN 0 ELSE unacked + 1
        /\ command_pacer' = target.command_interval
        /\ waiting' = IF pending = lost THEN 0 ELSE waiting
        /\ UNCHANGED <<target, outcome, desired, clocks, venue, changes>>
    BY <1>2 DEF SendCommand
  <2>2. acked \in BOOLEAN /\ Tail(queued) \in Seq(BOOLEAN)
    BY <2>1, HeadTailProperties, Zenon DEF TypeOK
  <2>. HIDE DEF acked
  <2>3. Open' /\ target' = target /\ heartbeat' = heartbeat /\ silent' = silent /\ lost' = lost
    BY <2>1 DEF Open, clocks, venue
  <2>4. /\ acknowledgement_deadline' \in {Off, target.subscription_ack_timeout, acknowledgement_deadline}
        /\ acknowledgement_deadline' # Off => queued' # <<>> \/ pending' > 0
        /\ acked /\ acknowledgement_deadline' # Off =>
              acknowledgement_deadline' = target.subscription_ack_timeout
        /\ ~ acked /\ acknowledgement_deadline' # Off =>
              acknowledgement_deadline' = acknowledgement_deadline
    <3>1. pending \in Nat /\ pending' \in Nat
      BY <2>1, <2>2 DEF TypeOK
    <3>2. CASE queued' = <<>> /\ pending' = 0
      <4>1. ReadinessComplete(queued', pending') /\ ~ acked
        BY <2>1, <3>1, <3>2 DEF ReadinessComplete, TypeOK
      <4>2. acknowledgement_deadline' = Off
        BY <2>1, <4>1 DEF Armed
      <4>. QED  BY <4>2
    <3>3. CASE ~ (queued' = <<>> /\ pending' = 0) /\ acked
      <4>1. acknowledgement_deadline' = target.subscription_ack_timeout
        BY <2>1, <3>3 DEF Armed, ReadinessComplete
      <4>. QED  BY <4>1, <3>1, <3>3
    <3>4. CASE ~ (queued' = <<>> /\ pending' = 0) /\ ~ acked
      <4>1. acknowledgement_deadline' = acknowledgement_deadline
        BY <2>1, <3>4 DEF Armed, ReadinessComplete
      <4>. QED  BY <4>1, <3>1, <3>4
    <3>. QED  BY <3>2, <3>3, <3>4
  <2>5. TypeOK'
    BY <2>1, <2>2, <2>3, <2>4 DEF TypeOK
  <2>6. CheckedForStale'
    BY <2>1, <2>3 DEF CheckedForStale, clocks
  <2>7. DeadlineExplained'
    <3>. SUFFICES ASSUME ~ silent, lost = 0
                  PROVE  /\ pending' > 0 => waiting' <= Latency
                         /\ acknowledgement_deadline' # Off =>
                              /\ queued' # <<>> \/ pending' > 0
                              /\ pending' > 0 => Elapsed' <= waiting'
                              /\ pending' = 0 => Elapsed' <= unacked' * target.command_interval
                                    + (target.command_interval - command_pacer')
      BY <2>3 DEF DeadlineExplained
    <3>1. pending' > 0 => waiting' <= Latency
      BY <2>1, <2>2 DEF DeadlineExplained, TypeOK
    <3>2. CASE acked
      <4>1. pending' > 0
        BY <2>1, <3>2 DEF TypeOK
      <4>2. acknowledgement_deadline' # Off => Elapsed' = 0
        BY <2>3, <2>4, <3>2 DEF Elapsed
      <4>. QED  BY <3>1, <4>1, <4>2, <2>5 DEF TypeOK
    <3>3. CASE ~ acked
      <4>1. pending' = pending /\ unacked' = unacked + 1 /\ pending \in Nat /\ unacked \in Nat
        BY <2>1, <3>3 DEF TypeOK
      <4>2. ASSUME acknowledgement_deadline' # Off
            PROVE  acknowledgement_deadline # Off /\ Elapsed' = Elapsed /\ Elapsed \in Int
        BY <4>2, <2>1, <2>3, <2>4, <3>3 DEF Elapsed, TypeOK
      <4>3. ASSUME acknowledgement_deadline' # Off, pending' > 0 PROVE Elapsed' <= waiting'
        BY <4>1, <4>2, <4>3, <2>1 DEF DeadlineExplained
      <4>4. ASSUME acknowledgement_deadline' # Off, pending' = 0
            PROVE  Elapsed' <= unacked' * target.command_interval
                                  + (target.command_interval - command_pacer')
        <5>1. Elapsed <= unacked * target.command_interval + target.command_interval
          BY <4>1, <4>2, <4>4, <2>1 DEF DeadlineExplained
        <5>2. unacked' * target.command_interval = unacked * target.command_interval + target.command_interval
          BY <4>1, OneMore
        <5>. QED  BY <5>1, <5>2, <4>1, <4>2, <4>4, <2>1
      <4>. QED  BY <3>1, <4>3, <4>4, <2>4
    <3>. QED  BY <3>2, <3>3, <2>2
  <2>8. HealthyVenueKept'
    BY <2>3 DEF Open, HealthyVenueKept
  <2>. QED  BY <2>5, <2>6, <2>7, <2>8
<1>. QED  BY <1>1, <1>2

LEMMA AckPreserves == ASSUME IInv, AckFrame PROVE IInv'
<1>. USE TargetFacts DEF IInv
<1>1. /\ Open /\ ~ silent /\ pending > lost
      /\ pending' = pending - 1 /\ pending' \in Nat
      /\ acknowledgement_deadline' \in {Off, target.subscription_ack_timeout}
      /\ acknowledgement_deadline' # Off => queued # <<>> \/ pending' > 0
      /\ unacked' = 0 /\ waiting' = 0
      /\ UNCHANGED <<target, outcome, desired, queued, command_pacer, clocks, venue, changes>>
  BY DEF AckFrame, ReadinessComplete, TypeOK
<1>2. Open' /\ target' = target
  BY <1>1 DEF Open
<1>3. TypeOK'
  BY <1>1, <1>2 DEF TypeOK, clocks, venue
<1>4. CheckedForStale' /\ HealthyVenueKept'
  BY <1>1, <1>2 DEF CheckedForStale, HealthyVenueKept, clocks, Open
<1>5. DeadlineExplained'
  <2>1. acknowledgement_deadline' # Off => Elapsed' = 0
    BY <1>1, <1>2 DEF Elapsed
  <2>2. command_pacer' \in 0 .. target.command_interval
    BY <1>1 DEF TypeOK
  <2>. QED  BY <1>1, <1>2, <2>1, <2>2 DEF DeadlineExplained
<1>. QED  BY <1>3, <1>4, <1>5

LEMMA HeartbeatPreserves == ASSUME IInv, HeartbeatTick PROVE IInv'
<1>. USE TargetFacts DEF IInv
<1>1. CASE Return("stale")
  BY <1>1, ReturnPreserves
<1>2. CASE ~ Return("stale")
  <2>1. /\ Open /\ last_market_event < target.stale_after
        /\ heartbeat' = target.heartbeat_interval
        /\ UNCHANGED <<target, outcome, desired, queued, pending, command_pacer,
                       acknowledgement_deadline, rotate, last_market_event, quiet, unacked,
                       waiting, venue, changes>>
    BY <1>2 DEF HeartbeatTick
  <2>2. TypeOK' /\ CheckedForStale'
    BY <2>1 DEF TypeOK, CheckedForStale, Open, venue
  <2>3. DeadlineExplained' /\ HealthyVenueKept'
    BY <2>1 DEF DeadlineExplained, HealthyVenueKept, Elapsed, Open, venue
  <2>. QED  BY <2>2, <2>3
<1>. QED  BY <1>1, <1>2

LEMMA DesiredPreserves ==
    ASSUME IInv, NEW removed \in 0 .. MaxKeys, NEW added \in 0 .. MaxKeys,
           DesiredChanged(removed, added)
    PROVE  IInv'
<1>. USE TargetFacts, TimersAssumption DEF IInv
<1>. DEFINE r == [i \in 1 .. removed |-> target.unsubscribe_acked]
            a == [i \in 1 .. added |-> TRUE]
<1>1. r \in Seq(BOOLEAN) /\ a \in Seq(BOOLEAN) /\ queued \in Seq(BOOLEAN)
  BY IsASeq DEF TypeOK
<1>2. /\ queued' = queued \o r \o a
      /\ UNCHANGED <<target, outcome, pending, command_pacer, acknowledgement_deadline, clocks,
                     unacked, waiting, venue>>
  BY DEF DesiredChanged
<1>. HIDE DEF r, a
<1>3. queued' \in Seq(BOOLEAN) /\ (queued # <<>> => queued' # <<>>)
  BY <1>1, <1>2
<1>4. desired' \in Nat
  BY DEF DesiredChanged, TypeOK
<1>5. TypeOK'
  BY <1>2, <1>3, <1>4 DEF TypeOK, Open, clocks, venue
<1>6. DeadlineExplained'
  BY <1>2, <1>3 DEF DeadlineExplained, Elapsed, Open, venue
<1>7. CheckedForStale' /\ HealthyVenueKept'
  BY <1>2 DEF CheckedForStale, HealthyVenueKept, Open, clocks, venue
<1>. QED  BY <1>5, <1>6, <1>7

\* A unit of time passes: the heartbeat comes one nearer for each that the
\* connection is quiet, and the venue, or the pacer, has had one more.
LEMMA TickPreserves == ASSUME IInv, Tick PROVE IInv'
<1>. USE TargetFacts DEF IInv
<1>1. /\ Open /\ acknowledgement_deadline # 0 /\ heartbeat # 0
      /\ (queued # <<>> => command_pacer # 0)
      /\ (~ silent /\ pending > lost => waiting < Latency)
      /\ command_pacer' = Left(command_pacer)
      /\ acknowledgement_deadline' = Left(acknowledgement_deadline)
      /\ heartbeat' = Left(heartbeat)
      /\ last_market_event' = last_market_event + 1
      /\ quiet' = quiet + 1
      /\ waiting' = IF ~ silent /\ pending > lost THEN waiting + 1 ELSE 0
      /\ UNCHANGED <<target, outcome, desired, queued, pending, unacked, venue, changes>>
  BY DEF Tick, Ready
<1>2. Open' /\ target' = target /\ silent' = silent /\ lost' = lost
  BY <1>1 DEF Open, venue
<1>3. heartbeat' = heartbeat - 1 /\ heartbeat \in 1 .. target.heartbeat_interval
  BY <1>1 DEF Left, TypeOK
<1>4. command_pacer' \in 0 .. target.command_interval
  BY <1>1 DEF Left, TypeOK
<1>5. CASE acknowledgement_deadline = Off
  <2>1. acknowledgement_deadline' = Off
    BY <1>1, <1>5 DEF Left, Off
  <2>2. TypeOK'
    BY <1>1, <1>2, <1>3, <1>4, <2>1 DEF TypeOK
  <2>3. CheckedForStale' /\ HealthyVenueKept'
    BY <1>1, <1>2, <1>3, SMTT(40) DEF CheckedForStale, HealthyVenueKept, Open
  <2>4. DeadlineExplained'
    BY <1>1, <1>2, <2>1 DEF DeadlineExplained, TypeOK
  <2>. QED  BY <2>2, <2>3, <2>4
<1>6. CASE acknowledgement_deadline # Off
  <2>1. /\ acknowledgement_deadline \in 1 .. target.subscription_ack_timeout
        /\ acknowledgement_deadline' = acknowledgement_deadline - 1
        /\ acknowledgement_deadline' \in 0 .. target.subscription_ack_timeout
    BY <1>1, <1>6, SMTT(40) DEF Left, TypeOK
  <2>2. TypeOK'
    BY <1>1, <1>2, <1>3, <1>4, <2>1 DEF TypeOK
  <2>3. CheckedForStale' /\ HealthyVenueKept'
    BY <1>1, <1>2, <1>3, SMTT(40) DEF CheckedForStale, HealthyVenueKept, Open
  <2>4. Elapsed' = Elapsed + 1 /\ Elapsed \in Nat
    BY <1>2, <2>1 DEF Elapsed
  <2>5. DeadlineExplained'
    <3>. SUFFICES ASSUME ~ silent, lost = 0
                  PROVE  /\ pending' > 0 => waiting' <= Latency
                         /\ queued' # <<>> \/ pending' > 0
                         /\ pending' > 0 => Elapsed' <= waiting'
                         /\ pending' = 0 => Elapsed' <= unacked' * target.command_interval
                               + (target.command_interval - command_pacer')
      BY <1>2 DEF DeadlineExplained
    <3>1. pending \in Nat /\ pending' = pending /\ waiting \in Nat
      BY <1>1 DEF TypeOK
    <3>2. CASE pending > 0
      <4>1. Elapsed <= waiting
        BY <1>1, <1>6, <3>2 DEF DeadlineExplained
      <4>. QED  BY <1>1, <2>4, <3>1, <3>2, <4>1
    <3>3. CASE pending = 0
      <4>1. /\ queued # <<>>
            /\ Elapsed <= unacked * target.command_interval + (target.command_interval - command_pacer)
        BY <1>1, <1>6, <3>3 DEF DeadlineExplained
      <4>2. command_pacer \in Nat /\ command_pacer' = command_pacer - 1
        BY <1>1, <4>1 DEF Left, TypeOK
      <4>3. unacked * target.command_interval \in Nat
        BY OneMore DEF TypeOK
      <4>. QED  BY <1>1, <2>4, <3>1, <3>3, <4>1, <4>2, <4>3
    <3>. QED  BY <3>1, <3>2, <3>3
  <2>. QED  BY <2>2, <2>3, <2>5
<1>. QED  BY <1>5, <1>6

LEMMA NextPreserves == ASSUME IInv, [Next]_vars PROVE IInv'
<1>1. CASE UNCHANGED vars \/ Terminated
  BY <1>1 DEF Terminated, vars, IInv, TypeOK, CheckedForStale, DeadlineExplained, HealthyVenueKept,
              Elapsed, Open
<1>2. CASE SendCommand
  BY <1>2, SendPreserves
<1>3. CASE AckTimeout
  BY <1>3, AckTimeoutPreserves
<1>4. CASE Rotate
  BY <1>4, ReturnPreserves DEF Rotate
<1>5. CASE HeartbeatTick
  BY <1>5, HeartbeatPreserves
<1>6. CASE AckFrame
  BY <1>6, AckPreserves
<1>7. CASE MarketEvent
  <2>1. TypeOK' /\ CheckedForStale'
    BY <1>7, TargetFacts DEF MarketEvent, IInv, TypeOK, CheckedForStale, Open, venue
  <2>2. DeadlineExplained' /\ HealthyVenueKept'
    BY <1>7 DEF MarketEvent, IInv, DeadlineExplained, HealthyVenueKept, Elapsed, Open, venue
  <2>. QED  BY <2>1, <2>2 DEF IInv
<1>8. ASSUME NEW removed \in 0 .. MaxKeys, NEW added \in 0 .. MaxKeys,
             DesiredChanged(removed, added)
      PROVE  IInv'
  BY <1>8, DesiredPreserves
<1>9. CASE Tick
  BY <1>9, TickPreserves
<1>10. CASE LoseAck
  BY <1>10 DEF LoseAck, IInv, TypeOK, CheckedForStale, DeadlineExplained, HealthyVenueKept,
               Elapsed, Open, clocks
<1>11. CASE FallSilent
  BY <1>11 DEF FallSilent, IInv, TypeOK, CheckedForStale, DeadlineExplained, HealthyVenueKept,
               Elapsed, Open, clocks
<1>. QED  BY <1>1, <1>2, <1>3, <1>4, <1>5, <1>6, <1>7, <1>8, <1>9, <1>10, <1>11 DEF Next, Timers

\* The invariant holds in every reachable state of the connection.
THEOREM Invariance == Spec => []IInv
BY InitIInv, NextPreserves, PTL DEF Spec

-----------------------------------------------------------------------------
(* Theorems *)

\* Whatever timings KuCoin advertises, as long as they are accepted, its target has
\* the proportions the other theorems ask for: the heartbeat, half the interval but
\* never zero, comes before stale_after.
THEOREM DiscoveredTimings ==
    ASSUME NEW ping_interval \in Nat \ {0}, NEW ping_timeout \in Nat \ {0}
    PROVE  Proportioned(target_from_discovery(ping_interval, ping_timeout))
<1>1. CASE ping_interval < 2
  BY <1>1 DEF Proportioned, target_from_discovery, Target
<1>2. CASE ping_interval >= 2
  <2>1. ping_interval \div 2 \in Nat \ {0} /\ ping_interval \div 2 < ping_interval
    BY <1>2
  <2>. QED  BY <1>2, <2>1 DEF Proportioned, target_from_discovery, Target
<1>. QED  BY <1>1, <1>2

\* With any timings of these proportions, a venue that answers within the latency
\* is given up by the acknowledgement deadline only over commands that it does
\* not acknowledge.
THEOREM HealthyKept == Spec => []HealthyVenueKept
<1>1. IInv => HealthyVenueKept
  BY DEF IInv
<1>. QED  BY <1>1, Invariance, PTL

\* With any timings, a connection without demanded events does not outlive
\* stale_after by more than a heartbeat.
THEOREM StaleIsNoticed == Spec => []StaleNoticed
<1>1. ASSUME IInv PROVE StaleNoticed
  BY <1>1, TargetFacts DEF IInv, TypeOK, CheckedForStale, StaleNoticed
<1>. QED  BY <1>1, Invariance, PTL

-----------------------------------------------------------------------------
(***************************************************************************)
(* The life of the process                                                 *)
(***************************************************************************)

-----------------------------------------------------------------------------
(* The settings *)

LEMMA EnabledKnown == ASSUME NEW s PROVE enabled_providers(s) \subseteq AllProviders
BY DEF enabled_providers

LEMMA CappedTightens ==
    ASSUME NEW limit \in Nat \ {0}, NEW ceiling \in Nat \cup {Unset}, ceiling # 0
    PROVE  /\ CappedAt(limit, ceiling) \in 1 .. limit
           /\ ceiling # Unset => CappedAt(limit, ceiling) <= ceiling
BY DEF CappedAt, Unset

-----------------------------------------------------------------------------
(* The inductive invariant *)

\* What main has built by the time it gets to each of its steps.
Built ==
    /\ main \in {"refreshing", "binding", "serving"} =>
          validate(settings) /\ limits = provider_limits(settings)
    /\ main \in {"binding", "serving"} =>
          /\ health = Supervisors(settings)
          /\ DOMAIN task = Supervisors(settings) \cup {refresher}

\* A task that the monitor no longer waits for is over, and main returns from
\* serving only after the monitor.
Joined ==
    /\ tasks \subseteq DOMAIN task
    /\ \A t \in DOMAIN task \ tasks : Over(t)
    /\ monitor = "done" => \A t \in DOMAIN task : Over(t)
    /\ monitor = "panicked" => settings.grace_overflows
    /\ main = "returned" /\ status = "ok" => monitor \in {"done", "panicked"}
    /\ main \in {"configuring", "refreshing"} => monitor = "none"

ProcessIInv == settings \in SomeSettings /\ Built /\ Joined

LEMMA ProcessInitial == ASSUME ProcessInit PROVE ProcessIInv
BY DEF ProcessInit, ProcessIInv, Built, Joined

-----------------------------------------------------------------------------
(* Every step preserves the invariant *)

\* The steps that change neither the tasks nor what was built.
LEMMA MainStepPreserves ==
    ASSUME ProcessIInv,
           \/ StartFails \/ Configure \/ BindFails \/ Bind
           \/ Signal \/ ServerSeesToken \/ ServeReturns \/ MainReturns
    PROVE  ProcessIInv'
<1>. USE DEF ProcessIInv, built, work
<1>1. CASE StartFails
  BY <1>1 DEF StartFails, Built, Joined, Over
<1>2. CASE Configure
  BY <1>2 DEF Configure, Built, Joined, Over
<1>3. CASE BindFails
  BY <1>3 DEF BindFails, Built, Joined, Over
<1>4. CASE Bind
  BY <1>4 DEF Bind, Built, Joined, Over
<1>5. CASE Signal
  BY <1>5 DEF Signal, Built, Joined, Over
<1>6. CASE ServerSeesToken
  BY <1>6 DEF ServerSeesToken, Built, Joined, Over
<1>7. CASE ServeReturns
  BY <1>7 DEF ServeReturns, Built, Joined, Over
<1>8. CASE MainReturns
  BY <1>8 DEF MainReturns, Built, Joined, Over
<1>. QED  BY <1>1, <1>2, <1>3, <1>4, <1>5, <1>6, <1>7, <1>8

LEMMA SpawnPreserves == ASSUME ProcessIInv, Spawn PROVE ProcessIInv'
<1>1. DOMAIN task' = Supervisors(settings) \cup {refresher} /\ tasks' = DOMAIN task'
  BY DEF Spawn
<1>2. Built'
  BY <1>1 DEF ProcessIInv, Spawn, Built
<1>3. Joined'
  BY <1>1 DEF Spawn, Joined
<1>. QED  BY <1>2, <1>3 DEF ProcessIInv, Spawn

LEMMA TaskEndPreserves ==
    ASSUME ProcessIInv, NEW t \in DOMAIN task, TaskReturns(t) \/ TaskPanics(t)
    PROVE  ProcessIInv'
<1>1. \E end \in {"returned", "panicked"} : task' = [task EXCEPT ![t] = end]
  BY DEF TaskReturns, TaskPanics
<1>2. DOMAIN task' = DOMAIN task /\ \A u \in DOMAIN task : Over(u) => Over(u)'
  BY <1>1 DEF Over
<1>3. UNCHANGED <<built, main, status, monitor, shutdown, tasks, work>>
  BY DEF TaskReturns, TaskPanics
<1>4. Built'
  BY <1>2, <1>3 DEF ProcessIInv, Built, built
<1>5. Joined'
  BY <1>2, <1>3 DEF ProcessIInv, Joined, built
<1>. QED  BY <1>3, <1>4, <1>5 DEF ProcessIInv, built

LEMMA MonitorStepPreserves ==
    ASSUME ProcessIInv, \/ \E t \in DOMAIN task : TaskLost(t) \/ TaskJoined(t)
                 \/ MonitorSeesToken \/ AllJoined
    PROVE  ProcessIInv'
<1>. USE DEF ProcessIInv, built, work
<1>1. ASSUME NEW t \in DOMAIN task, TaskLost(t) PROVE ProcessIInv'
  BY <1>1 DEF TaskLost, Draining, Built, Joined, Over
<1>2. ASSUME NEW t \in DOMAIN task, TaskJoined(t) PROVE ProcessIInv'
  BY <1>2 DEF TaskJoined, Built, Joined, Over
<1>3. CASE MonitorSeesToken
  BY <1>3 DEF MonitorSeesToken, Draining, Built, Joined, Over
<1>4. CASE AllJoined
  BY <1>4 DEF AllJoined, Built, Joined, Over
<1>. QED  BY <1>1, <1>2, <1>3, <1>4

\* Once the grace period is over, what had not been joined is aborted.
LEMMA GracePreserves == ASSUME ProcessIInv, GraceExpires PROVE ProcessIInv'
<1>1. task' = [t \in DOMAIN task |-> IF t \in tasks THEN "aborted" ELSE task[t]]
  BY DEF GraceExpires
<1>2. DOMAIN task' = DOMAIN task /\ \A t \in DOMAIN task : Over(t)'
  BY <1>1 DEF ProcessIInv, Joined, Over
<1>. QED  BY <1>2 DEF ProcessIInv, GraceExpires, built, Built, Joined

LEMMA GonePreserves == ASSUME ProcessIInv, Killed \/ RuntimeDropped PROVE ProcessIInv'
<1>1. Gone
  BY DEF Killed, RuntimeDropped
<1>2. DOMAIN task' = DOMAIN task /\ \A t \in DOMAIN task : Over(t)'
  BY <1>1 DEF Gone, Over
<1>. QED  BY <1>1, <1>2 DEF ProcessIInv, Gone, built, Built, Joined

LEMMA ProcessStep == ASSUME ProcessIInv, [ProcessNext]_process_vars PROVE ProcessIInv'
<1>1. CASE UNCHANGED process_vars \/ ProcessOver
  BY <1>1 DEF ProcessOver, process_vars, built, Over, ProcessIInv, Built, Joined
<1>2. CASE \/ StartFails \/ Configure \/ BindFails \/ Bind
           \/ Signal \/ ServerSeesToken \/ ServeReturns \/ MainReturns
  BY <1>2, MainStepPreserves
<1>3. CASE Spawn
  BY <1>3, SpawnPreserves
<1>4. ASSUME NEW t \in DOMAIN task, TaskReturns(t) \/ TaskPanics(t) PROVE ProcessIInv'
  BY <1>4, TaskEndPreserves
<1>5. CASE \/ \E t \in DOMAIN task : TaskLost(t) \/ TaskJoined(t)
           \/ MonitorSeesToken \/ AllJoined
  BY <1>5, MonitorStepPreserves
<1>6. CASE GraceExpires
  BY <1>6, GracePreserves
<1>7. CASE Killed \/ RuntimeDropped
  BY <1>7, GonePreserves
<1>8. CASE RequestArrives \/ HistoryArrives \/ RequestAnswered \/ HistoryAnswered
  BY <1>8 DEF RequestArrives, HistoryArrives, RequestAnswered,
              HistoryAnswered, built, ProcessIInv, Built,
              Joined, Over
<1>. QED  BY <1>1, <1>2, <1>3, <1>4, <1>5, <1>6, <1>7, <1>8 DEF ProcessNext

\* The invariant holds in every reachable state of the process.
THEOREM ProcessInvariance == ProcessSpec => []ProcessIInv
BY ProcessInitial, ProcessStep, PTL DEF ProcessSpec

-----------------------------------------------------------------------------
(* Theorems *)

\* However many tasks there are and whichever of them end early, on the token or
\* never, main returns from serving only when all of them are over.
THEOREM NoTaskLeftBehind == ProcessSpec => []NothingLeftRunning
<1>1. ProcessIInv => NothingLeftRunning
  BY DEF ProcessIInv, Joined, NothingLeftRunning
<1>. QED  BY <1>1, ProcessInvariance, PTL

\* For any settings that validate accepts, what is served is what they ask for.
THEOREM ServiceAsConfigured == ProcessSpec => []ServedAsConfigured
<1>1. ASSUME ProcessIInv, main = "serving",
             NEW p \in enabled_providers(settings)
      PROVE  /\ limits[p] \in 1 .. Declared[p]
             /\ settings.max_provider_subscriptions # Unset
                   => limits[p] <= settings.max_provider_subscriptions
             /\ \A e \in Endpoints[p] : <<p, e>> \in health \cap DOMAIN task
  <2>1. /\ settings.max_provider_subscriptions \in Nat \cup {Unset}
        /\ settings.max_provider_subscriptions # 0
    BY <1>1, ProcessAssumption DEF ProcessIInv, Built, validate
  <2>2. p \in AllProviders /\ Declared[p] \in Nat \ {0}
    BY EnabledKnown, ConfigurationAssumption
  <2>3. limits[p] = CappedAt(Declared[p], settings.max_provider_subscriptions)
    BY <1>1, <2>2 DEF ProcessIInv, Built, provider_limits
  <2>4. \A e \in Endpoints[p] : <<p, e>> \in Supervisors(settings)
    BY DEF Supervisors
  <2>5. health = Supervisors(settings) /\ Supervisors(settings) \subseteq DOMAIN task
    BY <1>1 DEF ProcessIInv, Built
  <2>. QED  BY <2>1, <2>2, <2>3, <2>4, <2>5, CappedTightens
<1>2. ProcessIInv => ServedAsConfigured
  <2>. SUFFICES ASSUME ProcessIInv, main = "serving"
                PROVE  0 < settings.backoff_min /\ settings.backoff_min <= settings.backoff_max
    BY <1>1 DEF ServedAsConfigured
  <2>. QED  BY ProcessAssumption DEF ProcessIInv, Built, validate
<1>. QED  BY <1>2, ProcessInvariance, PTL
=============================================================================
