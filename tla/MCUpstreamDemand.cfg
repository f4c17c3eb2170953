SPECIFICATION Spec
CONSTANTS
    Clients = {c1, c2}
    Keys <- MCKeys
    Providers <- MCProviders
    MaxPerClient = 2
    Ceiling = 2
    NoOverride = NoOverride
    BackoffMin = 2
    BackoffMax = 2
    MaxChanges = 2
    MaxFaults = 1
INVARIANT ReadyMeansStreamed
PROPERTIES DemandMet ShutdownStops
