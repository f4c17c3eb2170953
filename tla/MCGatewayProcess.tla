-------------------------- MODULE MCGatewayProcess --------------------------
(* A provider with two endpoints and one with one.                         *)
EXTENDS GatewayProcess

MCEndpoints == [p \in AllProviders |-> IF p = "okx" THEN {"public", "business"} ELSE {"primary"}]
MCDeclared == [p \in AllProviders |-> IF p = "okx" THEN 4 ELSE 2]

Default ==
    [zero |-> {}, backoff_min |-> 1, backoff_max |-> 2, max_provider_subscriptions |-> Unset,
     invalid_urls |-> {}, providers |-> <<"all">>, empty_origin |-> FALSE,
     grace_overflows |-> FALSE]

\* The defaults, and the defaults with one setting changed.
MCSettings ==
    {Default, [Default EXCEPT !.zero = {"downstream_buffer"}],
     [Default EXCEPT !.invalid_urls = {"okx_rest_url"}],
     [Default EXCEPT !.empty_origin = TRUE],
     [Default EXCEPT !.grace_overflows = TRUE]}
    \cup {[Default EXCEPT !.max_provider_subscriptions = n] : n \in {0, 1, 3}}
    \cup {[Default EXCEPT !.backoff_min = lo, !.backoff_max = hi] : lo \in 0 .. 2, hi \in 0 .. 1}
    \cup {[Default EXCEPT !.providers = l] :
             l \in {<<>>, <<"none">>, <<"bybit">>, <<"okx", "bybit">>, <<"all", "okx">>,
                    <<"none", "bybit">>}}
=============================================================================
