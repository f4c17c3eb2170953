CONSTANTS
    Clients = {c1, c2}
    k1 = k1
    k2 = k2
    Keys = {k1, k2}
    Publishers = {p1}
    Capacity = 1
    MaxClients = 2
    MaxSequence = 3
    None = None
    venue = venue
    Providers = {venue}
    ProviderOf <- MCProviderOf
    MaxPerClient = 2
    Declared <- MCDeclared
    Fallback = 2
    Override = 1
    NoOverride = NoOverride
SPECIFICATION Spec
INVARIANTS RoutesFollowDemand NothingLeaks
PROPERTIES OverrunEndsSession ShutdownReleasesDemand
