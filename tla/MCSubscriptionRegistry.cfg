\* Three clients may own two of four keys each; the override caps bingx,
\* which lists three of the keys, at two.
CONSTANTS
    alice = alice
    bob = bob
    carol = carol
    btc = btc
    eth = eth
    sol = sol
    xrp = xrp
    bingx = bingx
    okx = okx
    sup1 = sup1
    Clients = {alice, bob, carol}
    Keys = {btc, eth, sol, xrp}
    Providers = {bingx, okx}
    ProviderOf <- MCProviderOf
    MaxPerClient = 2
    Declared <- MCDeclared
    Fallback = 4
    NoOverride = NoOverride
    Override = 2
    Receivers = {sup1}
SYMMETRY Symmetry
SPECIFICATION Spec
INVARIANTS TypeOK ReferenceCountsExact SnapshotIsDemand WithinLimits NoLostWakeup
PROPERTIES NotifiedOnlyOnCrossing ImplementsDemand
