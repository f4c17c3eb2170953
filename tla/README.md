# Verification of market-stream-gateway

TLA+ specifications of the gateway, TLC configurations that check them on small
instances, and TLAPS proofs of the safety properties of all components but one,
and of two compositions of them, for every size. Every definition is translated
from the Rust sources; `PROJECT.json` maps each one to its lines and lists runs,
mutants, hazards, findings and theorems.

## 1. The system

The gateway holds one websocket connection per venue endpoint, normalizes what
arrives and streams it to websocket clients. Clients create demand; demand
decides what is subscribed upstream.

```
 client --command--> session --add/remove--> SubscriptionRegistry --watch--> supervisor --> venue
 client <--events--- session <--queue------- GatewayHub <------publish------ supervisor <-- venue
```

### Inventory

| Part | Source | State | Operations | What is hard about it |
|---|---|---|---|---|
| Subscription registry | `gateway.rs` | owned keys per client, reference counts, demanded set, watch channel | `add`, `remove`, `cleanup_client`, `subscribe_desired` | shared keys, two ceilings, wake-ups that coalesce |
| Event hub | `gateway.rs` | sequence counter, two route tables, a bounded queue and a lag signal per client | register, update, remove, `publish` | numbering and routing are two critical sections; full queues; counter exhaustion |
| Downstream sessions | `api.rs` | local subscriptions, gauge, position between awaits | `client_session`, commands, `cleanup_session` | registry and hub have no common lock; a send may fail anywhere; `select!` picks at random |
| Endpoint supervisor | `runtime.rs` | command queue, pending and known ids, deadline, live flag, backoff | `supervise_endpoint`, `wait_for_desired`, `run_connection`, `CommandState` | demand changes at every await; late, repeated or missing acknowledgements; reconnects |
| Timers of a connection | `runtime.rs`, `providers/*.rs` | pacer, acknowledgement deadline, heartbeat, rotation, time of the last event | the `select!` of `run_connection`, `connection_target` | one deadline for many commands, re-armed by some of them; staleness seen only at a heartbeat |
| Health and readiness | `health.rs`, `api.rs` | state and counts per endpoint | `update`, `readiness` | copies of facts the supervisor also holds |
| Provider adapters | `providers/*.rs` | request ids, pending answers, topics, accumulated tickers | `subscription_messages`, `parse` | six ways to correlate an answer; partial updates; frames that outlive an unsubscribe |
| Candle history | `history.rs` | page cursor, collected candles | `fetch` for six venues | inclusive and exclusive bounds, a moving clock, a page budget |
| Instrument catalog | `catalog.rs`, `main.rs` | one snapshot per provider, cursors | `refresh_provider`, `refresh_all`, `validate_subscription` | listings that change between pages, failures half-way |
| Start-up and shutdown | `main.rs` | task set, token, server, position of main | every early return, spawning, monitor, signal, drain, grace period | tasks run before the listener is bound; the loss of a task races the signal; a task may ignore the token |
| Configuration | `config.rs`, `main.rs` | the settings | `validate`, `enabled_providers`, `provider_limits` | settings that are each fine and wrong together; ceilings that only tighten |
| REST handlers | `api.rs` | permits for history requests | readiness, candles, listings | the first two are covered by the parts above |
| Domain types, protocol, metrics, healthcheck | `domain.rs`, `protocol.rs`, `metrics.rs`, `bin/` | none that feeds back | parsing and formatting | pure data |

### What each part must get right

- Registry: counts equal owners, the published set is the union of what clients
  own, ceilings hold, no wake-up is lost and none is spurious.
- Hub: the two tables agree, every client receives in sequence order, and to the
  clients a publish is one step: an event reaches each client subscribed to its
  key or is counted as lost for one whose queue is full.
- Sessions: routes follow demand, and whatever ends a session nothing is left.
- Supervisor: what was sent and what is queued lead the venue to the demand,
  Live means confirmed and no change is lost.
- Timers: a venue that answers is kept, a silent one and a lost acknowledgement
  are noticed in bounded time.
- Registry and supervisors together: ready means that what clients hold is
  streamed, and once all is quiet the venue streams exactly that.
- Adapters: an answer is tied to the right command, and a published ticker is
  the accumulation of what was received since it was last dropped.
- History: a venue that behaves gives the earliest candles of the range, closed
  means final, and no venue keeps the loop going.
- Catalog: a snapshot is complete and replaced whole or not at all.
- Process: what is served is what was configured, the loss of a task ends the
  process, and no task outlives it.

## 2. Modules and their correspondence to the code

`MC*` modules only give constants their values; `XProofs` holds the theorems about
`X` (`RuntimeProofs` those about ConnectionTimers and GatewayProcess, whose
specification is therefore called `ProcessSpec`), and section 5 describes them. A definition named `X_Desc`
directly before `X`, marked "Faulty", is a plausible bug in that code: with it
in place of `X` some property must fail.

**SubscriptionRegistry** keeps the names of the struct's fields: `clients`,
`reference_counts`, `desired`; HashMaps are partial functions. Every operation
runs under one async mutex, the `send_replace` included, and is one action. The
watch channel is its value (`snapshot`) and the set of receivers that have not
seen the last send (`unseen`); `view` is what each receiver last read.
**Demand** is the abstract specification: each client owns a set, the published
set is the union, growth is admitted only inside the ceilings. `ImplementsDemand`
states the refinement.

**GatewayHub** has an action for each operation, and two for `publish`: the
sequence number is assigned under `publish_order`, which stays held, and the
route lock is taken afterwards. `feed` is a client's bounded channel, its lag
value and whether the sender exists. `delivered`, the last number a session
took, is a history variable. `MaxSequence` stands for `u64::MAX`.
**Streams** is the abstract specification: no tables, no locks, and an event is
published in one step. `ImplementsStreams` states the refinement: an event
happens when it is routed, so the abstract counter is the concrete one less the
event that is numbered and not yet routed.

**ClientSessions** instantiates the hub and the registry and adds the session
tasks. `pc` is the await a session is at; everything up to the next await is one
action, except that a command is two (registry, then hub) and the cleanup is two
(hub, then registry), as in the code. Besides the commands that change
something there are those refused by the registry's ceilings and those only
answered (a ping, a message that does not parse, a name the catalog does not
know). A client refused at the limit changes nothing and takes no step; the limit
itself is checked in `hub`. Any send may fail. The server stops accepting at the
shutdown, but `client_session` registers before it looks at the token: the
upgrades under way at that moment (`upgrading`) may still become sessions.

**EndpointSupervisor** models one supervisor task, its connection and its health
entry. `conn` is the locals of `run_connection`; `wire` is the socket in both
directions and the venue's subscriptions. The states `check` and `exiting` lie
between two awaits: other threads may act there. Timers are choices: a deadline
that is armed may fire. The adapter is one of three profiles, chosen in `Init`:
topics per key and per command, whether each topic is acknowledged, whether
unsubscribes are, and how many topics a connection may hold. Keys are numbers,
in the order in which the code sorts them; topic `i` of a key has its place in
that order, and command `n` of a diff is the topics whose places fall into its
share. Since a supervisor
owns a reference to the registry, and so to the sender of its watch channel,
the branch for a closed registry cannot be reached and has no action; neither
can the branch that goes live at once, since a connection is only opened for some
demand. A stray acknowledgement is one whose request is unknown or has been
confirmed in full. An acknowledgement repeated while others of its request are
still due would count for one of them (`CommandState` only counts): the model
assumes that venues do not repeat one.

**UpstreamDemand** composes the registry with the supervisors of one provider:
its two instances of EndpointSupervisor are the receivers of the registry's
watch channel, and clients subscribe, unsubscribe and disconnect. OKX has two
endpoints under one ceiling; for the other providers the second supervisor does
not exist. `ready` is `HealthRegistry::readiness` over both entries.

**ConnectionTimers** is one open connection in discrete time. A timer is the
time left until it fires, `Off` when it is not armed; `Tick` passes one unit and
is disabled while a branch of the `select!` is ready, so the task is never late.
The venue answers within `Latency` unless it loses an acknowledgement or falls
silent. `quiet` and `unacked` are history variables. The five constant
`connection_target`s and examples of KuCoin's, computed from what it advertises,
are written down in milliseconds (`Venues`); `TimersAssumption` evaluates that they
are in the same proportions (`Proportioned`) as the small targets that are checked,
and `DiscoveredTimings` proves it for whatever KuCoin advertises.

**AdapterSession** models `subscription_messages` and `parse` of the seven kinds
of session (Bybit, Binance, OKX public and business, KuCoin, MEXC, BingX). The
tables `*_feeds` and `*_topics` say which fields each native feed carries and
which topics a key expands to. Commands wait in a queue, travel and are
answered. A refusal ends the connection, except that BingX's is not recognised
when it names no request; an answer without its request is only counted. A
frame may hold several updates of which one is malformed, and how
much of the frame is then stored differs per provider (`Stored`). `out` is what the
last step hands on; `ProviderEvent::validate` may still drop any of it. `heard` is
the history of the updates that count, which `Kept` states on its own and not
through `Stored`: those before a malformed one, at Bybit none of its frame. `Told`
names the ticker fields told apart in each session. Candles pass through and leave
the session as it was.

**HistoryFetch** models `HistoryClient::fetch`: validation, the server time, and
three paging schemes: backward (Bybit, OKX), forward (Binance), fixed spans
(KuCoin, MEXC, BingX); then filter, order, deduplicate, cut. Time is in ticks.
The value of a candle is the number of its ticks that have passed, so an open
candle really differs from one page to the next. `Sorted` is the sort by its
result: the candle with `i - 1` earlier ones is the `i`-th; a page of an honest
venue is likewise the `First` or the `Last` candles of the window, by how many
come before or after them. The page limits of the six venues differ; one
`PageLimit` stands for each.

**Catalog** models the snapshots, a refresh page by page, the refresher task,
catalog readiness and `validate_subscription`. A row of a listing is the set of
what sets it apart from the readable row of a trading perpetual (another kind,
halted, another currency, dated, unreadable in some field, of the wrong shape). Every
row of a body is decoded before any is looked at, so that one of the wrong shape
refuses the body whatever it lists; the six `*_instrument` operators say which of
the other oddities make a parser leave the row out and which make it refuse the
body. What the catalog should hold (`Live`) and the rows for which a body is refused
(`Fatal`) are defined from the listing and not from the parsers: undecodable rows,
rows on offer with an unreadable value or time, and KuCoin's perpetuals of any
currency with an unreadable expiry, which it reads before the currency. `Refreshed`
says that a catalog settles on `Live` exactly if it is not empty and no row is
`Fatal`. The refresh lock is not modelled,
as nothing contends for it: main refreshes before it serves, and afterwards only
the refresher does.

**Configuration** has `validate`, the providers that are enabled, the ceilings
the registry applies and the supervisors that are spawned, over settings as
records. **GatewayProcess** extends it to the life of the process: reading the
settings, the first refresh, the spawned tasks and their health entries, the
bind, the server, the monitor that joins the tasks, the token, the drain, the
grace period, the aborts, and the runtime that is dropped when main returns.
Main may return early at each `?`; a signal before the server has installed its
handler kills the process. History requests hold a permit each. The monitor's
branch for an empty task set is unreachable, since the refresher is always among
the tasks. Websocket sessions are not waited for by the drain: their tasks are
detached, and the runtime drops those that are left. `abort()` is not awaited, so
an aborted task is one told to end: it ends at its next await, or with the runtime.

External parts, modelled from how the code uses them: the venues, the watch and
mpsc channels, the network and the operating system's signal.

## 3. Runs

State counts are distinct states. All passing runs explore their instance
completely; those with a temporal property check it under the fairness below.

| Run | States | Instance and bounds | What it shows |
|---|---|---|---|
| `registry` | 3,136 | 3 clients with at most 2 keys each, 4 keys, 2 providers (declared ceiling 3 capped to 2; fallback), a supervisor | `TypeOK`, `ReferenceCountsExact`, `SnapshotIsDemand`, `WithinLimits`, `NoLostWakeup`, `NotifiedOnlyOnCrossing`, `ImplementsDemand` |
| `hub` | 56,721 | 3 clients for 2 places, 2 publishers, 2 keys, queue of 1, sequence up to 4 | `RoutesAgree`, `DeliveryInOrder`, `ImplementsStreams` |
| `sessions` | 80,239 | 2 sessions, 2 keys of a provider capped at 1, a publisher, queue of 1, sequence up to 3 | `RoutesFollowDemand`, `NothingLeaks`, `OverrunEndsSession`, `ShutdownReleasesDemand` |
| `sessions_overrun` | violation | 1 session, 1 key | finding 1 |
| `supervisor` | 1,102,163 | 2 keys and one of another endpoint, 3 adapter profiles, 3 demand changes, 2 faults | `LiveMeansSubscribed`, `BookkeepingExact`, `DeadlineCoversPending`, `NoLostDemand`, `CommandsReachDesired` |
| `supervisor_topics` | violation | BingX's numbers in proportion | finding 2 |
| `demand` | 89,870 | 2 clients, a ticker and a candle, 3 providers (two endpoints, one with a key the venue refuses; a key in two commands with unacknowledged unsubscribes; topics above the connection's ceiling), 2 commands, 1 fault | `ReadyMeansStreamed`, `DemandMet`, `ShutdownStops` |
| `timers` | 168,437 | a target that rotates and one with unacknowledged unsubscribes, 3 keys, 2 demand changes, 1 lost acknowledgement | `HealthyVenueKept`, `StaleNoticed`, `LostAckEnds` |
| `history` | 252,315 | 6 providers, 6 minutes of 2 ticks, pages of 2, 3 pages, every set of gaps | `HonestVenueSucceeds`, `EarliestReturned`, `ClosedIsFinal`, `ResultWellFormed`, `PagingProgresses` |
| `catalog` | 138,481 | Bybit (paged) with OKX, and each of the 6 providers alone with every row of at most 2 oddities; 2 symbols, pages of 1, 1 listing change, 1 fault | `CompleteSnapshot`, `ReadyAdmits`, `CursorAskedOnce`, `Refreshed` |
| `process` | 42,527 | 2 providers with 3 endpoints, 20 settings, a refresher that may ignore the token, 1 history permit, 1 other request | `NothingLeftRunning`, `ServedAsConfigured`, `LossEndsProcess` |
| `adapters` | 1,123,504 | 7 sessions, 1 symbol, 2 ticker fields, 3 demand changes, 2 data frames of at most 2 updates, 1 fault | `AcknowledgementsCorrelate`, `PublishedIsLatest` |

### Why the bounds are enough

- registry: a count must go 0-1-2-1-0 with owners in any order, and each ceiling
  must be reached with a key that another client already demands. Three clients
  and three keys of one provider give both.
- hub, sessions: an overrun needs a queue of one and two events; one more event
  shows what follows an overrun. A third client waits for a place. The last
  sequence number is reached, so the counter's end is covered.
- supervisor: demand can appear, change while commands are queued, vanish and
  return (three changes) around two failures, which is a failure of the
  connection that follows a failure. Three topics a command with two topics a
  key makes a command cut a key in half.
- demand: two commands suffice for two clients that hold the same key, for a key
  released while the supervisor is connecting, and for demand on both endpoints;
  the fault can hit either of them.
- timers: with a deadline of two sends, three keys make unacknowledged
  unsubscribes outlast it; a heartbeat does not divide the stale time; the
  rotation comes after a stale time and two heartbeats.
- process: the default settings and every rule of `validate` broken on its own.
- history: three pages of two candles just suffice for five candles, so any page
  wasted on a repeated or skipped candle shows as a failure.
- catalog: two symbols on pages of one give a middle and a last page, with a
  listing change between them. Rows with two oddities show the order in which a
  parser filters and checks.
- adapters: subscribe, unsubscribe, subscribe again, with two frames that can be
  under way across either change. Of the fields one is a price and the other is
  the one its provider may erase (OKX) or that comes from a second feed.

Bounded counters are named in the modules: `MaxChanges`, `MaxFaults`,
`MaxPushes`, `MaxUpdates`, `MaxRequests`, `MaxKeys`, `MaxLost`, `Ticks`, `MaxRows`. `MaxSequence`, `MaxPages`,
`MaxCandles`, `MaxRange`, `MaxClients`, `MaxPerClient`, `Capacity`, `MaxDemand`,
`HistorySlots` and `PageSize` are limits of the code, made small.

Symmetry is used where clients (in the hub also keys and publishers) are
interchangeable and only safety is checked. Deadlock is checked everywhere
except in `adapters`, where a connection that has spent its bounded inputs stops.

### Fairness

- A task that can run is run: weak fairness of the steps of a task, which is
  what the tokio scheduler gives a task that has been woken.
- `select!` polls its branches in random order, so a branch that is ready again
  and again is eventually taken: strong fairness of a session's `Gap` and `Stop`
  and of the refresher's `Stop`. Nothing is assumed of what clients send.
- The supervisor's `select!` needs only weak fairness of its steps taken together
  (`Task \/ Stop`), since its demand, faults and data are bounded in the run.
- The venue answers what it received, by applying or by refusing it
  (`VenueApplies \/ VenueRejects`), which `DemandMet` needs; it may still hang up
  within the fault budget. In the catalog a
  request returns, with data or an error, because the HTTP client has a timeout.
- In `timers` time passes, the task runs when a timer is due, and a venue that is
  not silent answers. Nothing is assumed of market data: markets may be quiet.
- In `process`, supervisors return after the token is cancelled; nothing is
  assumed of the refresher, which may be in a refresh. Requests are answered,
  because the handlers end by the HTTP timeouts and clients are assumed to read
  what they asked for; a client that does not holds up the drain, which has no
  deadline, and `LossEndsProcess` says nothing of it.
  A bind returns, with or without the listener.

### Assumptions about time

There are no clocks except in ConnectionTimers and HistoryFetch. Elsewhere timers
are steps that may happen once armed, which covers every timing of them. In
ConnectionTimers a task is polled as soon as a timer is due, and sending takes
no time. In HistoryFetch fetching a page takes less than a candle lasts: the
HTTP client gives up after 15 seconds (`main.rs`), a candle lasts a minute.

## 4. Findings

1. **Routing resumes after an overrun** (`sessions_overrun`). `route_event` says
   "Stop routing immediately. Retain the lag watch sender until the API session
   observes it and performs normal cleanup." `update_client_subscriptions` does
   not know of the overrun: a command the session handles before its `select!`
   picks the lag branch installs the routes again, and later events are routed
   to the client. `OverrunEndsSession` and `ImplementsStreams` still hold: the
   session ends and the losses are counted, so the client is told of the gap.
2. **BingX's ceiling counts keys, its sessions count topics** (`supervisor_topics`).
   `max_subscriptions` returns 200 and the registry applies it to keys, while a
   ticker key needs three topics and a session refuses to go past 200 topics.
   Demand between the two is admitted and acknowledged, and the endpoint fails
   on each attempt, although the ceiling exists "so the gateway refuses demand
   it could not honour" (`providers/mod.rs`).

Observations that need no run of their own:

- The test for a repeated cursor at the top of the loop of `fetch_bybit` never
  fails (`CursorAskedOnce`), since the test at the bottom comes first.
- Commands that nobody acknowledges do not re-arm the acknowledgement deadline.
  At MEXC's pace of 250 ms some sixty of them (thirty tickers of two topics)
  take up the 15 seconds, and a venue that answers everything is dropped when an
  acknowledged command waits behind or before them. `HealthyVenueKept` names this
  as the only case.
- Every later command and acknowledgement re-arms the one deadline, so a demand
  that keeps changing puts off the detection of a lost acknowledgement.
  `LostAckEnds` holds because the changes end.
- `validate` accepts any positive grace period. One so long that the clock
  overflows makes the monitor panic, which main only logs; `NothingLeftRunning`
  excludes it, and the end of the runtime still drops the tasks.
- A failure to bind comes after the tasks were spawned: main returns its error
  and the tasks are dropped without the token or the grace period.

## 5. Proofs

Eight modules prove, for every value of the constants, what the runs check on
small instances.

| Module | Theorem | Statement |
|---|---|---|
| `SubscriptionRegistryProofs` | `TypeCorrect` | `Spec => []TypeOK` |
| | `CountsAreExact` | `Spec => []ReferenceCountsExact` |
| | `PublishedIsDemand` | `Spec => []SnapshotIsDemand` |
| | `CeilingsHold` | `Spec => []WithinLimits` |
| | `WakeupsAreKept` | `Spec => []NoLostWakeup` |
| | `WakesOnlyOnCrossing` | `Spec => NotifiedOnlyOnCrossing`, an action property |
| | `Refinement` | `Spec => ImplementsDemand` |
| `GatewayHubProofs` | `RouteAgreement` | `Spec => []RoutesAgree` |
| | `InOrderDelivery` | `Spec => []DeliveryInOrder` |
| | `Refinement` | `Spec => ImplementsStreams` |
| `ClientSessionsProofs` | `RoutesTrackDemand` | `Spec => []RoutesFollowDemand` |
| | `CleanupComplete` | `Spec => []NothingLeaks` |
| `EndpointSupervisorProofs` | `LiveIsSubscribed` | `Spec => []LiveMeansSubscribed` |
| | `Bookkeeping` | `Spec => []BookkeepingExact` |
| | `DeadlineArmed` | `Spec => []DeadlineCoversPending` |
| | `DemandNotLost` | `Spec => []NoLostDemand` |
| | `CommandsSteer` | `Spec => []CommandsReachDesired` |
| `UpstreamDemandProofs` | `ReadinessIsStreaming` | `Spec => []ReadyMeansStreamed` |
| `RuntimeProofs` | `DiscoveredTimings` | every target computed from what KuCoin advertises is `Proportioned` |
| | `HealthyKept` | `Spec => []HealthyVenueKept` |
| | `StaleIsNoticed` | `Spec => []StaleNoticed` |
| `CatalogProofs` | `CursorsAskedOnce` | `Spec => []CursorAskedOnce` |
| | `ReadinessAdmits` | `Spec => []ReadyAdmits` |
| | `RefusedExactly` | a parser refuses a body over a row exactly if the row is `Fatal` |
| | `SnapshotsComplete` | `Spec => CompleteSnapshot`, an action property |
| `RuntimeProofs` | `NoTaskLeftBehind` | `ProcessSpec => []NothingLeftRunning` |
| | `ServiceAsConfigured` | `ProcessSpec => []ServedAsConfigured` |
| `HistoryFetchProofs` | `ResultsWellFormed` | `Spec => []ResultWellFormed` |
| | `ClosedCandlesFinal` | `Spec => []ClosedIsFinal` |
| | `EarliestAreReturned` | `Spec => []EarliestReturned` |
| | `HonestVenuesSucceed` | `Spec => []HonestVenueSucceeds` |
| | `PagingAlwaysProgresses` | `Spec => PagingProgresses`, an action property |

Each module also has `Invariance`, `Spec => []IInv`, for its inductive invariant
`IInv` (for GatewayProcess `ProcessInvariance` and `ProcessIInv`); the invariants above follow from it. Each `IInv` also holds, by TLC, on
the instance of the component's run.

### Assumptions

Every constant's assumption is named, stands in the module that declares the
constant and is evaluated by TLC in the component's run. They are types, except:

- `KeysAssumption`, `SupervisorAssumption`, `SessionsAssumption`: the keys are
  finitely many. Clients and publishers need not be.
- `LimitsAssumption`, `HubAssumption`: client ceiling, queue capacity, client
  limit and last sequence number are positive, which `validate` ensures. `None`
  and `NoOverride` are no publisher, event or number.
- `SupervisorAssumption`: an adapter needs at least a topic a key and sends at
  least a topic a command; the backoff is positive and at most its maximum.
- `DemandAssumption`: the two endpoints of a provider share the keys out between
  them, as `endpoint_for` does.
- `TimersAssumption`: the proportions of the six targets (a heartbeat is shorter
  than `stale_after`, and the rest of `Proportioned`), and a venue's latency
  below the acknowledgement timeout. `DiscoveredTimings` discharges the first part
  for KuCoin, whose timings are not constants of the code.
- `CatalogAssumption`: a page holds a row at least, and a row is odd only in what
  its venue's listing can say (`Traits`).
- `HistoryAssumption`: a candle and a page are not empty, and the page budget
  covers the longest range (`MaxRange <= MaxPages * (PageLimit * Interval)`): 40
  pages of OKX's 300 candles, the fewest, are 12,000 minutes, and the longest
  range is 10,000. The start times in arbitrary answers are finitely many.
- `ProcessAssumption`: the numbers of the settings are natural; nothing is assumed
  of the settings `validate` refuses.

### The arguments

**Registry.** `IInv` is the conjunction of the invariants above and one fact
more: the owners of each key are finitely many. The conjuncts need each other.
`add` compares ceilings with sizes computed from `desired` and the counts, so
`WithinLimits` needs `desired` to be the owned keys; the snapshot is sent only
when a count crosses zero, so `SnapshotIsDemand` needs the counts to be exact;
counts are compared with cardinalities, which mean something only for finite
sets. `CardinalityOfUnion` is the arithmetic behind the ceilings. The refinement
maps `owns[c]` to the keys of `c` and `published` to the snapshot: each operation
replaces one client's holding or stutters.

**Hub.** The queues are ordered only because nothing at or above `Horizon`, the
number of the next event to be routed, is in one yet. That in turn needs
`InFlightOrdered`: `publish_order` is held by exactly the publisher whose event
is numbered and not yet routed, and that event has the last number given out.
`ReroutedAgrees` shows that the incremental change of `clients_by_key` is the
inverse of the new subscriptions. In the refinement numbering is a stutter and
routing the abstract publish.

**Sessions.** `Placed(c)` says for one session what its await implies: its feed
is open until the task ends, its hub entry exists while it runs, its routes are
its demand or are empty after an overrun, its local copy is its demand between
the halves of a command, and an ended one has no demand. A step of one session
leaves the others `Apart`. Since a session in the hub has an open feed, the
routing never finds a closed one. `Counted` ties the gauge to the finite set of
sessions present. The last conjunct of `NothingLeaks` uses the components: with
nobody in the registry its snapshot is empty, with nobody in the hub no key has a
route.

**Supervisor.** The invariant follows the line of commands from the queue over
the socket to the venue. `Numbered` says which ids are known, queued and pending,
and that queued ids ascend; `InFlight` that a command on its way has an id of its
own and, if it will be acknowledged, is pending and not yet answered; `Steered`
that the commands lead the venue to every topic of the demand last looked at
unless one of them stays unacknowledged (`Doomed`), and to no other topic unless
one was refused. Where commands lead is decided topic by topic, by the last
command about it (`Reaches`), which needs no recursion. `Timed` relates the
deadline and the live flag to what is outstanding, `Published` the health entry
to the demand. There is a lemma for each step of the task: which conjuncts it
disturbs and why they hold again.

**Demand.** `UpstreamDemandProofs` and `ClientSessionsProofs` instantiate the
proofs of the components as the compositions instantiate the components. What is
left is that the steps agree (`RegistrySame`, `HubSame`, `OneSame`) and that a
step of one component is, to another, a step it is proved to allow: to a
supervisor a client's command is a change of the watched set, or nothing.

**Timers.** The acknowledgement deadline of a venue that answers has run no
longer than the venue has had to answer, or, with nothing pending, no longer than
the pacer needed for the unacknowledged commands sent since (`DeadlineExplained`).
`CheckedForStale` is that at the last heartbeat the connection was not stale.

**Catalog.** Between two pages of an honest venue the instruments gathered are
everything tradable since the refresh began up to the cursor, and nothing that
was never tradable (`Gathered`). `FirstRows` gives what a page of the first rows
in symbol order contains. `RefusedExactly` goes through the parsers one by one.

**Process.** A task the monitor no longer waits for is over, and main returns
from serving only after the monitor (`Joined`); registry and tasks are built from
validated settings (`Built`).

**History.** While pages are asked for, an honest venue's candles collected so far
are exactly one for each candle the cursor has passed, and every page has moved
the cursor by as many candles as a page holds (`Collected`); the last conjunct is
what makes the budget suffice. A page that is not
the last moves the cursor no further than its candles reach, and the last one
holds whatever is left of the window, so nothing known when the request arrived
is skipped (`MissingLater`,
`OnwardPasses`). A venue that answers anything disturbs none of `Typed`,
`Underway` and `Returned`, from which the shape of the result and the progress of
the cursor follow. The steps that look like inductions are counting arguments:
that every place of the sorted result is taken is the pigeonhole principle for
the ranks of a finite set (`EveryRank`, `SortedInOrder`), that aligned candles
between two bounds are few enough is an injection into an interval
(`AlignedCount`), and the ends of a page are extremes of a finite set
(`Extremes`).

### Only model-checked

- Liveness: `OverrunEndsSession`, `ShutdownReleasesDemand`, `DemandMet`,
  `ShutdownStops`, `LostAckEnds`, `Refreshed`, `LossEndsProcess`. The proof system
  has no rules for fairness here.
- AdapterSession: `PublishedIsLatest` is about the tickers that a recursive
  function computes over the updates of a frame; `AcknowledgementsCorrelate` is
  about commands cut from a flattened and filtered sequence of topics. Both need
  inductions over sequences.
- The two findings are counterexamples, and stay with TLC.

## 6. Not modelled

- Parsing and formatting of decimals, symbols, JSON, protobuf and frames
  (`domain.rs`, `protocol.rs`, the parsers' field by field work): pure data. What a parser
  accepts, refuses and leaves half-done is modelled.
- Prices as numbers; hence not the rejection of a crossed ticker as a computed
  result, only that an event may be rejected.
- The heartbeat's message and its request id (KuCoin), and the requests of
  KuCoin's endpoint discovery; its timing and its failure are modelled.
- Command-line and environment parsing, which is clap's, and logging.
- Metrics other than the downstream gauge, which nothing reads back.
- The encoding of control messages (`protocol.rs`) and the healthcheck binary: a
  data layout and a single request.
- Health error texts and timestamps.
- The read-only REST listings, the origin check, and the arithmetic by which
  MEXC's candle volumes are converted.
- The hub's diagnostics channel, which nothing in the system depends on.

## 7. Plan

Done: every component is modelled, the registry and the hub with their abstract
specifications, and the safety properties of all but the adapters are proved.

Next: `PublishedIsLatest` of the adapters, whose invariant ties each accumulated
field to the last stored update that mentions it.
