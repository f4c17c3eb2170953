\* A queue of one overruns with the second event; three events are enough for
\* an overrun followed by a later event.
CONSTANTS
    Clients = {c1, c2, c3}
    Keys = {btc, eth}
    Publishers = {p1, p2}
    Capacity = 1
    MaxClients = 2
    MaxSequence = 4
    None = None
SYMMETRY Symmetry
SPECIFICATION Spec
INVARIANTS RoutesAgree DeliveryInOrder
PROPERTY ImplementsStreams
