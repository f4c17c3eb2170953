CONSTANTS
    Clients = {c1}
    k1 = k1
    k2 = k2
    Keys = {k1}
    Publishers = {p1}
    Capacity = 1
    MaxClients = 1
    MaxSequence = 4
    None = None
    venue = venue
    Providers = {venue}
    ProviderOf <- MCProviderOfOne
    MaxPerClient = 2
    Declared <- MCDeclared
    Fallback = 2
    Override = 1
    NoOverride = NoOverride
SPECIFICATION Spec
PROPERTIES RoutingStopsAtOverrun
