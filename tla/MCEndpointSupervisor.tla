------------------------ MODULE MCEndpointSupervisor ------------------------
(* EndpointSupervisor with two keys, and one key of another endpoint.      *)
EXTENDS EndpointSupervisor

btc == 1
eth == 2
other == 3

MCKeys == {btc, eth, other}

Adapter(per_key, per_command, ack_per_topic, unsubscribe_acked, max_topics, unlisted) ==
    [serves |-> {btc, eth}, topics_per_key |-> per_key, topics_per_command |-> per_command,
     ack_per_topic |-> ack_per_topic, unsubscribe_acked |-> unsubscribe_acked,
     max_topics |-> max_topics, unlisted |-> unlisted]

\* A key's topics cut across commands, each acknowledged (OKX, KuCoin); one
\* topic a command, unsubscribes unacknowledged (MEXC); a ceiling below the
\* admitted demand and a key the venue refuses (BingX).
MCAdapters ==
    {Adapter(2, 3, TRUE, TRUE, 4, {}), Adapter(2, 1, FALSE, FALSE, 4, {}),
     Adapter(2, 1, FALSE, TRUE, 3, {eth})}

\* A key with three topics and a ceiling of four topics.
MCBingx == {Adapter(3, 1, FALSE, TRUE, 4, {})}
=============================================================================
