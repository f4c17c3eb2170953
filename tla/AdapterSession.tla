--------------------------- MODULE AdapterSession ---------------------------
(***************************************************************************)
(* The AdapterSession of each provider (src/src/providers), as             *)
(* run_connection uses it on one connection: it turns changes of the       *)
(* demand into commands, ties the venue's answers to them, and             *)
(* accumulates the ticker of each symbol from the venue's feeds.           *)
(* EndpointSupervisor takes the correlation of answers for granted; here   *)
(* it is MEXC's queue of expected acknowledgements that provides it.       *)
(*                                                                         *)
(* A ticker field holds the observation (value and time) it was last given *)
(* or None.  Candles pass through a session without touching its state.    *)
(* OKX has two sessions, one per endpoint.  The venue is external.         *)
(***************************************************************************)
EXTENDS Naturals, Sequences, FiniteSets, SequencesExt

CONSTANTS
    Demanded,     \* the sessions considered, and the channels in demand on each
    KeyOrder,     \* keys <<symbol, channel>>, in the order of the BTreeSet
    Told,         \* the ticker fields told apart in each session
    Batch,        \* topics per command, where the adapter packs several
    MaxUpdates,   \* bound: updates in one frame
    MaxChanges,   \* bound: changes of the demand
    MaxPushes,    \* bound: market data frames
    MaxFaults     \* bound: commands ignored or refused, and malformed frames

VARIABLES
    provider,     \* whose session this is; never changes
    desired,
    session,      \* the AdapterSession
    commands,     \* CommandState: queued, and acknowledgements pending
    wire,         \* the frames under way from the venue, and its topics
    connected,
    out,          \* ticker events the last step hands on to be published
    heard,        \* history: updates that count since the ticker's last unsubscribe
    changes, pushes, faults

vars == <<provider, desired, session, commands, wire, connected, out, heard,
          changes, pushes, faults>>

None == 0
Fields == Told[provider]
Prices == {"last", "mark", "index", "bid", "ask"}
Symbols == {k[1] : k \in ToSet(KeyOrder)}
default == [f \in Fields |-> None]
has_price(ticker) == \E f \in Prices \cap DOMAIN ticker : ticker[f] # None

-----------------------------------------------------------------------------
(* What the adapters' parsers accept: of each feed, the fields a frame must *)
(* give, those it may give, those it erases by leaving them out, and if it  *)
(* holds several updates or has its sequence numbers compared at the end.   *)

Feed(topic, must, may) ==
    [topic |-> topic, channel |-> "ticker", must |-> must, may |-> may, erases |-> {},
     many |-> FALSE, sequenced |-> FALSE]
Candles(topic) == [Feed(topic, {}, {}) EXCEPT !.channel = "candle_1m"]
Many(feed) == [feed EXCEPT !.many = TRUE]
Sequenced(feed) == [feed EXCEPT !.sequenced = TRUE]
Erasing(feed) == [feed EXCEPT !.erases = feed.may]

bybit_feeds ==
    {Many(Feed("tickers", {}, Prices \cup {"funding_rate", "next_funding_time_ms"})),
     Candles("kline.1")}
binance_feeds ==
    {Erasing(Feed("ticker", {"last"}, {"bid", "ask"})),
     Feed("markPrice", {"mark", "index", "funding_rate", "next_funding_time_ms"}, {}),
     Candles("kline_1m")}
okx_feeds ==
    {Many(Feed("tickers", {}, {"last", "bid", "ask"})),
     Many(Feed("mark-price", {"mark"}, {})),
     Many(Erasing(Feed("funding-rate", {"funding_rate"}, {"next_funding_time_ms"})))}
okx_business_feeds == {Many(Candles("candle1m"))}
kucoin_feeds ==
    {Sequenced(Feed("tickerV2", {"bid", "ask"}, {})),
     Sequenced(Feed("execution", {"last"}, {})),
     Feed("instrument", {"mark", "index"}, {}),
     Feed("instrument", {"funding_rate"}, {}),
     Candles("limitCandle")}
mexc_feeds ==
    {Feed("ticker", {}, Prices \cup {"funding_rate"}),
     Feed("funding.rate", {"funding_rate", "next_funding_time_ms"}, {}),
     Candles("kline")}
bingx_feeds ==
    {Feed("ticker", {"last"}, {}), Feed("markPrice", {"mark"}, {}),
     Feed("bookTicker", {"bid", "ask"}, {}), Candles("kline_1m")}

SessionFeeds ==
    [bybit |-> bybit_feeds, binance |-> binance_feeds, okx |-> okx_feeds,
     okx_business |-> okx_business_feeds, kucoin |-> kucoin_feeds,
     mexc |-> mexc_feeds, bingx |-> bingx_feeds]

\* The feeds of each session, as far as its fields are told apart; one that has
\* none of them is left out: its frames change nothing.
ToldFeeds ==
    [p \in DOMAIN Demanded |->
        {feed \in {[f EXCEPT !.must = @ \cap Told[p], !.may = @ \cap Told[p],
                             !.erases = @ \cap Told[p]] : f \in SessionFeeds[p]} :
            feed.channel = "candle_1m" \/ feed.must \cup feed.may # {}}]

Feeds == ToldFeeds[provider]

-----------------------------------------------------------------------------
(* subscription_messages *)

\* The native topics of a key; OKX's endpoints serve one channel each.
bybit_topics == [ticker |-> <<"tickers">>, candle_1m |-> <<"kline.1">>]
binance_topics == [ticker |-> <<"ticker", "markPrice">>, candle_1m |-> <<"kline_1m">>]
okx_topics == [ticker |-> <<"tickers", "mark-price", "funding-rate">>]
okx_business_topics == [candle_1m |-> <<"candle1m">>]
kucoin_topics == [ticker |-> <<"tickerV2", "execution", "instrument">>,
                  candle_1m |-> <<"limitCandle">>]
mexc_topics == [ticker |-> <<"ticker", "funding.rate">>, candle_1m |-> <<"kline">>]
bingx_topics == [ticker |-> <<"ticker", "markPrice", "bookTicker">>,
                 candle_1m |-> <<"kline_1m">>]

Native == [bybit |-> bybit_topics, binance |-> binance_topics, okx |-> okx_topics,
           okx_business |-> okx_business_topics, kucoin |-> kucoin_topics,
           mexc |-> mexc_topics, bingx |-> bingx_topics][provider]

\* filter_desired: the keys that belong to this session's endpoint.
Keys == {k \in ToSet(KeyOrder) : k[2] \in DOMAIN Native \cap Demanded[provider]}

TopicSeq(K) ==
    LET keys == SelectSeq(KeyOrder, LAMBDA k : k \in K)
    IN  FlattenSeq([i \in DOMAIN keys |->
            [j \in DOMAIN Native[keys[i][2]] |-> <<keys[i][1], Native[keys[i][2]][j]>>]])

Chunks(s, n) ==
    [i \in 1 .. (Len(s) + n - 1) \div n |->
        SubSeq(s, (i - 1) * n + 1, IF i * n < Len(s) THEN i * n ELSE Len(s))]

\* build_topics: a command for each topic of a ticker, then the candles together.
build_topics(K) ==
    LET of(channel) == TopicSeq({k \in K : k[2] = channel})
    IN  Chunks(of("ticker"), 1) \o Chunks(of("candle_1m"), Batch)

\* BingX only asks for what changes its set of active topics.
Requested(ses, action, K) ==
    IF provider # "bingx" THEN TopicSeq(K)
    ELSE SelectSeq(TopicSeq(K), LAMBDA t :
             (t \in ses.active_topics) <=> (action = "unsubscribe"))

CommandTopics(ses, action, K) ==
    CASE provider = "kucoin" -> build_topics(K)
      [] provider \in {"mexc", "bingx"} -> Chunks(Requested(ses, action, K), 1)
      [] OTHER -> Chunks(Requested(ses, action, K), Batch)

expected_acknowledgements(action, topics) ==
    CASE provider \in {"okx", "okx_business"} -> Len(topics)
      [] provider = "mexc" /\ action = "unsubscribe" -> 0
      [] OTHER -> 1

\* Faulty: unsubscribe commands are expected to be answered too.
Expecting_Unsubscribes(action, batch) ==
    IF provider # "mexc" THEN <<>>
    ELSE [i \in DOMAIN batch |-> [response_channel |-> batch[i].topics[1][2],
                                  request_id |-> batch[i].id]]

\* MEXC's answers name no request: what the next answers will be about.
Expecting(action, batch) ==
    IF provider # "mexc" \/ action = "unsubscribe" THEN <<>>
    ELSE [i \in DOMAIN batch |-> [response_channel |-> batch[i].topics[1][2],
                                  request_id |-> batch[i].id]]

\* Faulty: the ticker accumulated so far survives the subscription.
Forget_Keeps(action, K) == session.tickers

Forget(action, K) ==
    [s \in Symbols |-> IF action = "unsubscribe" /\ <<s, "ticker">> \in K
                       THEN default ELSE session.tickers[s]]

\* queue_subscription_diff for one action; K may be empty.
Diff(ses, queued, action, K) ==
    LET groups == CommandTopics(ses, action, K)
        batch == [i \in DOMAIN groups |->
                    [id |-> ses.next_request_id + i - 1, action |-> action,
                     topics |-> groups[i],
                     acks |-> expected_acknowledgements(action, groups[i])]]
        active == IF provider # "bingx" THEN {}
                  ELSE IF action = "subscribe"
                  THEN ses.active_topics \cup ToSet(TopicSeq(K))
                  ELSE ses.active_topics \ ToSet(TopicSeq(K))
    IN  [session |->
            [ses EXCEPT !.next_request_id = @ + Len(batch),
                        !.pending_acknowledgements = @ \o Expecting(action, batch),
                        !.active_topics = active],
         queued |-> queued \o batch]

\* desired_rx.changed(): unsubscribe what is gone, then subscribe what is new.
DemandChanges(next) ==
    LET removed == desired \ next
        dropped == Diff([session EXCEPT !.tickers = Forget("unsubscribe", removed)],
                        commands.queued, "unsubscribe", removed)
        added == Diff(dropped.session, dropped.queued, "subscribe", next \ desired)
    IN  /\ connected /\ changes < MaxChanges /\ next # desired
        /\ session' = added.session
        /\ commands' = [commands EXCEPT !.queued = added.queued]
        /\ heard' = [s \in Symbols |-> IF <<s, "ticker">> \in removed THEN <<>> ELSE heard[s]]
        /\ desired' = next
        /\ changes' = changes + 1
        /\ out' = {}
        /\ UNCHANGED <<provider, wire, connected, pushes, faults>>

\* The venue applies commands as they come and acknowledges them (MEXC may or
\* may not answer an unsubscribe), or it ignores or refuses one.  What is under
\* way to it is as if still queued: its answers, and its data, wait in wire.down.
Answer(command) == [type |-> "ack", action |-> command.action, id |-> command.id,
                    channel |-> command.topics[1][2]]

VenueApplies(command) ==
    /\ \E answers \in 0 .. Len(command.topics) :
          /\ answers = command.acks \/ (command.acks = 0 /\ answers = 1)
          /\ wire' = [down |-> wire.down \o [i \in 1 .. answers |-> Answer(command)],
                      subscribed |-> IF command.action = "subscribe"
                                     THEN wire.subscribed \cup ToSet(command.topics)
                                     ELSE wire.subscribed \ ToSet(command.topics)]
    /\ UNCHANGED faults

\* A refusal may not name the request, and an answer may come without its id.
VenueFails(command) ==
    /\ faults < MaxFaults
    /\ \E answer \in {<<>>, <<[Answer(command) EXCEPT !.type = "unnamed"]>>}
                         \cup {<<[type |-> "error", named |-> named]>> : named \in BOOLEAN} :
          wire' = [wire EXCEPT !.down = @ \o answer]
    /\ faults' = faults + 1

\* The pacer's tick: pop_front, send, mark_sent.
SendCommand ==
    LET command == Head(commands.queued)
        with == DOMAIN commands.pending \cup (IF command.acks = 0 THEN {} ELSE {command.id})
    IN  /\ connected /\ commands.queued # <<>>
        /\ VenueApplies(command) \/ VenueFails(command)
        /\ commands' = [queued |-> Tail(commands.queued),
                        pending |-> [id \in with |-> IF id = command.id THEN command.acks
                                                     ELSE commands.pending[id]]]
        /\ out' = {}
        /\ UNCHANGED <<provider, desired, session, connected, heard, changes, pushes>>

-----------------------------------------------------------------------------
(* Market data *)

\* Updates a frame of the feed may carry; one may fail to parse before it is
\* stored (what it sets is then irrelevant) or, where sequence numbers are
\* compared, after.
Updates(feed) ==
    {[sets |-> feed.must \cup given, fails |-> "no"] : given \in SUBSET feed.may}
        \cup {[sets |-> feed.must, fails |-> "early"]}
        \cup (IF feed.sequenced THEN {[sets |-> feed.must, fails |-> "late"]} ELSE {})

Observed(updates) ==
    [i \in DOMAIN updates |->
        [sets |-> updates[i].sets, fails |-> updates[i].fails, obs |-> MaxUpdates * pushes + i]]

VenuePushes(feed, s, snapshot, updates) ==
    /\ connected /\ pushes < MaxPushes
    /\ <<s, feed.topic>> \in wire.subscribed
    /\ Len(updates) = 1 \/ feed.many
    /\ snapshot => provider = "bybit"
    /\ LET malformed == \E i \in DOMAIN updates : updates[i].fails # "no"
       IN  IF malformed THEN faults < MaxFaults /\ faults' = faults + 1 ELSE UNCHANGED faults
    /\ pushes' = pushes + 1
    /\ wire' = [wire EXCEPT !.down = Append(@,
            [type |-> feed.channel, feed |-> feed, symbol |-> s, snapshot |-> snapshot,
             updates |-> Observed(updates)])]
    /\ out' = {}
    /\ UNCHANGED <<provider, desired, session, commands, connected, heard, changes>>

-----------------------------------------------------------------------------
(* parse and process_text *)

Received(type) == connected /\ wire.down # <<>> /\ Head(wire.down).type = type
Consume == wire' = [wire EXCEPT !.down = Tail(@)]
Unchanged == UNCHANGED <<provider, desired, changes, pushes, faults>>

\* The request an answer is about.  MexcSession::parse_acknowledgement takes it
\* from its queue, and drops an answer that does not match.
request_id(frame) ==
    LET expected == session.pending_acknowledgements
    IN  CASE provider # "mexc" -> frame.id
          [] /\ frame.action = "subscribe" /\ expected # <<>>
             /\ Head(expected).response_channel = frame.channel -> Head(expected).request_id
          [] OTHER -> None

\* CommandState::acknowledge
Acknowledge(pending, id) ==
    LET rest == IF pending[id] > 1 THEN DOMAIN pending ELSE DOMAIN pending \ {id}
    IN  [i \in rest |-> IF i = id THEN pending[i] - 1 ELSE pending[i]]

ReceiveAck ==
    /\ Received("ack") /\ Consume
    /\ LET frame == Head(wire.down)
           id == request_id(frame)
       IN  /\ id \in DOMAIN commands.pending \cup {None}
           /\ commands' = IF id = None THEN commands
                          ELSE [commands EXCEPT !.pending = Acknowledge(@, id)]
           /\ session' = [session EXCEPT !.pending_acknowledgements =
                             IF frame.action = "subscribe" /\ @ # <<>> THEN Tail(@) ELSE @]
    /\ out' = {}
    /\ UNCHANGED <<connected, heard>> /\ Unchanged

NewSession == [next_request_id |-> 1, pending_acknowledgements |-> <<>>,
               active_topics |-> {}, tickers |-> [s \in Symbols |-> default]]
NoCommands == [queued |-> <<>>, pending |-> [id \in {} |-> 0]]
NoWire == [down |-> <<>>, subscribed |-> {}]
NothingHeard == [s \in Symbols |-> <<>>]

UnexpectedAcknowledgement ==
    Received("ack") /\ request_id(Head(wire.down)) \notin DOMAIN commands.pending \cup {None}

\* A refusal is told from other frames by its error, whatever request it names;
\* BingX's only by its code, which is looked at once the frame has an id.
CommandRejected ==
    Received("error") /\ (provider = "bingx" => Head(wire.down).named)

\* An answer that lacks its id, or a refusal not recognised, is counted as
\* malformed or ignored: its command stays unanswered.  A MEXC answer has no id
\* to lack, but one without its result is dropped before the queue is touched.
ReceiveUnreadable ==
    /\ Received("unnamed") \/ (Received("error") /\ ~ CommandRejected)
    /\ Consume
    /\ out' = {}
    /\ UNCHANGED <<session, commands, connected, heard>> /\ Unchanged

\* CommandRejected, UnexpectedAcknowledgement or the acknowledgement timeout:
\* the connection and its session are dropped.
ConnectionEnds ==
    /\ connected
    /\ CommandRejected \/ UnexpectedAcknowledgement \/ DOMAIN commands.pending # {}
    /\ connected' = FALSE
    /\ session' = NewSession /\ commands' = NoCommands /\ wire' = NoWire
    /\ desired' = {} /\ out' = {} /\ heard' = NothingHeard
    /\ UNCHANGED <<provider, changes, pushes, faults>>

\* One update on top of what is known; Bybit's snapshots start afresh.
Apply(ticker, frame, update) ==
    [f \in Fields |-> CASE f \in update.sets -> update.obs
                        [] f \in frame.feed.erases \ update.sets -> None
                        [] OTHER -> IF frame.snapshot THEN None ELSE ticker[f]]

\* The ticker after the first n updates of a frame.
After(frame, n) ==
    LET step[i \in 0 .. n] == IF i = 0 THEN session.tickers[frame.symbol]
                              ELSE Apply(step[i - 1], frame, frame.updates[i])
    IN  step[n]

\* An update the parser refuses before it stores anything.
Refused(frame, i) ==
    \/ frame.updates[i].fails = "early"
    \/ provider = "okx" /\ frame.feed.topic = "tickers" /\ frame.updates[i].sets = {}
    \/ provider = "mexc" /\ frame.feed.topic = "ticker" /\ ~ has_price(After(frame, i))

\* Faulty: Bybit's updates are stored one by one as well.
Stored_OneByOne(frame) ==
    LET refused == {i \in DOMAIN frame.updates : Refused(frame, i)}
    IN  IF refused = {} THEN Len(frame.updates)
        ELSE (CHOOSE i \in refused : \A j \in refused : i <= j) - 1

\* How many updates are stored: those before the first refused one, except that
\* Bybit stores a frame whole or not at all.
Stored(frame) ==
    LET refused == {i \in DOMAIN frame.updates : Refused(frame, i)}
    IN  IF refused = {} THEN Len(frame.updates)
        ELSE IF provider = "bybit" THEN 0
        ELSE (CHOOSE i \in refused : \A j \in refused : i <= j) - 1

\* The events of a frame that parses, less those without a price, which
\* ProviderEvent::validate or MEXC's parser drops.
Events(frame) ==
    IF \E i \in DOMAIN frame.updates : Refused(frame, i) \/ frame.updates[i].fails = "late"
    THEN {}
    ELSE {event \in {[symbol |-> frame.symbol, ticker |-> After(frame, i),
                      heard |-> Len(heard[frame.symbol]) + i] : i \in DOMAIN frame.updates} :
             has_price(event.ticker)}

\* The updates of a frame that are to count: those with no malformed one before
\* them, at Bybit nor after them.
Kept(frame) ==
    {i \in DOMAIN frame.updates :
        \A j \in DOMAIN frame.updates : (j <= i \/ provider = "bybit") => ~ Refused(frame, j)}

Heard(frame, i) ==
    LET update == frame.updates[i]
    IN  [sets |-> update.sets, obs |-> update.obs,
         erases |-> (IF frame.snapshot THEN Fields ELSE frame.feed.erases) \ update.sets]

\* validate may still drop any of the events by its prices, such as a bid above
\* the ask, before they are published; no state depends on it.
ReceiveTicker ==
    /\ Received("ticker") /\ Consume
    /\ LET frame == Head(wire.down)
       IN  /\ session' = [session EXCEPT !.tickers[frame.symbol] = After(frame, Stored(frame))]
           /\ out' = Events(frame)
           /\ heard' = [heard EXCEPT ![frame.symbol] =
                          @ \o [i \in 1 .. Cardinality(Kept(frame)) |-> Heard(frame, i)]]
    /\ UNCHANGED <<commands, connected>> /\ Unchanged

ReceiveCandle ==
    /\ Received("candle_1m") /\ Consume
    /\ out' = {}
    /\ UNCHANGED <<session, commands, connected, heard>> /\ Unchanged

-----------------------------------------------------------------------------

\* A new session, before its initial subscriptions are queued.
Init ==
    /\ provider \in DOMAIN Demanded
    /\ desired = {}
    /\ session = NewSession /\ commands = NoCommands /\ wire = NoWire
    /\ connected = TRUE
    /\ out = {}
    /\ heard = NothingHeard
    /\ changes = 0 /\ pushes = 0 /\ faults = 0

Next ==
    \/ \E next \in SUBSET Keys : DemandChanges(next)
    \/ SendCommand
    \/ \E feed \in Feeds, s \in Symbols, snapshot \in BOOLEAN :
          \E updates \in BoundedSeq(Updates(feed), MaxUpdates) \ {<<>>} :
             VenuePushes(feed, s, snapshot, updates)
    \/ ReceiveAck \/ ReceiveUnreadable \/ ReceiveTicker \/ ReceiveCandle
    \/ ConnectionEnds

Spec == Init /\ [][Next]_vars

-----------------------------------------------------------------------------
(* Properties *)

readiness_complete == commands.queued = <<>> /\ DOMAIN commands.pending = {}

\* MEXC's subscribe commands not yet confirmed, in the order of their answers.
Outstanding ==
    LET isSubscribe(m) == m.type = "ack" /\ m.action = "subscribe"
        answers == SelectSeq(wire.down, isSubscribe)
        sent == SelectSeq(commands.queued, LAMBDA c : c.action = "subscribe")
    IN  [i \in DOMAIN answers |-> answers[i].id] \o [i \in DOMAIN sent |-> sent[i].id]

\* Answers are tied to the right commands: while the venue answers them all,
\* the head of pending_acknowledgements is the command of the next answer,
\* however queueing, pacing and unsubscribes interleave; and when every expected
\* answer has come, ignored commands or not, the venue streams what is wanted.
AcknowledgementsCorrelate ==
    connected =>
        /\ provider = "mexc" /\ faults = 0 =>
              LET expected == session.pending_acknowledgements
              IN  [i \in DOMAIN expected |-> expected[i].request_id] = Outstanding
        /\ readiness_complete => ToSet(TopicSeq(desired)) \subseteq wire.subscribed

\* The observation a field has by the last of n updates that mentioned it.
Latest(s, n, f) ==
    LET said == {i \in 1 .. n : f \in heard[s][i].sets \cup heard[s][i].erases}
        last == CHOOSE i \in said : \A j \in said : j <= i
    IN  IF said = {} \/ f \notin heard[s][last].sets THEN None ELSE heard[s][last].obs

Current(event) == \A f \in Fields : event.ticker[f] = Latest(event.symbol, event.heard, f)

\* Every published ticker shows, field by field, the last observation received
\* since its key was last unsubscribed, across feeds, deltas, snapshots and frames
\* still in flight when the demand changed.  Of a frame rejected half-way the
\* updates before the malformed one count and, at Bybit, none does.
PublishedIsLatest == \A event \in out : Current(event)
=============================================================================
