-------------------------- MODULE MCAdapterSession --------------------------
(* Every session, for the ticker of a symbol; Binance's and OKX's business *)
(* session also for its candles.                                           *)
EXTENDS AdapterSession

MCKeyOrder == <<<<"x", "ticker">>, <<"x", "candle_1m">>>>
MCDemanded ==
    [p \in {"bybit", "okx", "kucoin", "mexc", "bingx"} |-> {"ticker"}]
        @@ [p \in {"binance", "okx_business"} |-> {"ticker", "candle_1m"}]

\* A price and what comes with the funding rate: the rate or, where its absence
\* erases it, the time of the next funding.
MCTold ==
    [p \in DOMAIN MCDemanded |->
        {"bid", IF p = "okx" THEN "next_funding_time_ms" ELSE "funding_rate"}]
=============================================================================
