---------------------------- MODULE Configuration ----------------------------
(***************************************************************************)
(* src/src/config.rs and the part of src/src/main.rs that builds the       *)
(* gateway from the settings: which settings are accepted, which providers *)
(* they enable, and the adapters, ceilings and supervisors that follow.    *)
(*                                                                         *)
(* Settings are records:                                                   *)
(*   zero          the names, in Positive, of the settings that are 0      *)
(*   backoff_min, backoff_max                                              *)
(*   max_provider_subscriptions   a number, or Unset                       *)
(*   invalid_urls  the URLs whose scheme, path or query is refused         *)
(*   providers     the list of provider selections                         *)
(*   empty_origin  an allowed origin is the empty string                   *)
(*   grace_overflows  Instant::now() + shutdown_grace is past the clock    *)
(***************************************************************************)
EXTENDS Integers, SequencesExt

CONSTANTS
    AllProviders,   \* the variants of Provider
    Endpoints,      \* ProviderAdapter::endpoints, of each provider
    Declared,       \* ProviderAdapter::max_subscriptions, of each provider
    Fallback        \* DEFAULT_MAX_PROVIDER_SUBSCRIPTIONS

ASSUME ConfigurationAssumption ==
    /\ Declared \in [AllProviders -> Nat \ {0}] /\ Fallback \in Nat \ {0}
    /\ \A p \in AllProviders : Endpoints[p] # {}
    /\ "all" \notin AllProviders /\ "none" \notin AllProviders

Unset == -1

\* The settings that must not be zero.
Positive ==
    {"downstream_buffer", "max_downstream_clients", "max_client_subscriptions",
     "max_command_bytes", "max_history_requests", "stable_connection_seconds",
     "shutdown_grace_seconds", "catalog_refresh_seconds"}

\* Faulty: the reconnect range is not looked at.
validate_NoBackoff(s) ==
    /\ s.zero \cap Positive = {}
    /\ s.max_provider_subscriptions # 0
    /\ s.invalid_urls = {}
    /\ s.providers # <<>>
    /\ ToSet(s.providers) \cap {"all", "none"} # {} => Len(s.providers) = 1
    /\ ~ s.empty_origin

\* Settings::validate
validate(s) ==
    /\ s.zero \cap Positive = {}
    /\ s.max_provider_subscriptions # 0
    /\ s.backoff_min > 0 /\ s.backoff_min <= s.backoff_max
    /\ s.invalid_urls = {}
    /\ s.providers # <<>>
    /\ ToSet(s.providers) \cap {"all", "none"} # {} => Len(s.providers) = 1
    /\ ~ s.empty_origin

\* Settings::enabled_providers
enabled_providers(s) ==
    LET selected == ToSet(s.providers)
    IN  IF "none" \in selected THEN {}
        ELSE IF "all" \in selected THEN AllProviders
        ELSE selected \cap AllProviders

\* Faulty: the operator's ceiling replaces the declared one.
CappedAt_Replaces(limit, ceiling) == IF ceiling = Unset THEN limit ELSE ceiling

\* ProviderLimits::capped_at: a ceiling only tightens.
CappedAt(limit, ceiling) ==
    IF ceiling # Unset /\ ceiling < limit THEN ceiling ELSE limit

\* provider_limits and ProviderLimits::limit_for: what the registry applies
\* to a provider, the fallback for one without an adapter.
provider_limits(s) ==
    [p \in AllProviders |->
        CappedAt(IF p \in enabled_providers(s) THEN Declared[p] ELSE Fallback,
                 s.max_provider_subscriptions)]

\* configured_adapters and the loop of spawn_provider_supervisors: one
\* supervisor for each endpoint of each enabled provider.
Supervisors(s) == UNION {{p} \X Endpoints[p] : p \in enabled_providers(s)}
=============================================================================
