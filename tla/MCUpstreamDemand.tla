-------------------------- MODULE MCUpstreamDemand --------------------------
(* UpstreamDemand with one ticker and one candle.                          *)
EXTENDS UpstreamDemand

candle == 1
ticker == 2

MCKeys == {candle, ticker}

Adapter(serves, per_key, unsubscribe_acked, max_topics, unlisted) ==
    [serves |-> serves, topics_per_key |-> per_key, topics_per_command |-> 1,
     ack_per_topic |-> FALSE, unsubscribe_acked |-> unsubscribe_acked,
     max_topics |-> max_topics, unlisted |-> unlisted]

\* An endpoint that does not exist.
None == Adapter({}, 1, TRUE, 0, {})

\* Two endpoints, one of which is asked for an instrument its venue refuses
\* (OKX); a key in two commands, unsubscribes unacknowledged (MEXC); a ceiling
\* below the admitted demand (BingX).
MCProviders ==
    {[one |-> Adapter({ticker}, 1, TRUE, 2, {ticker}), two |-> Adapter({candle}, 1, TRUE, 2, {})],
     [one |-> Adapter({ticker, candle}, 2, FALSE, 4, {}), two |-> None],
     [one |-> Adapter({ticker, candle}, 2, TRUE, 3, {}), two |-> None]}
=============================================================================
