SPECIFICATION Spec
CONSTANTS
    Targets <- MCTargets
    Latency = 1
    MaxKeys = 3
    MaxChanges = 2
    MaxLost = 1
INVARIANTS HealthyVenueKept StaleNoticed
PROPERTY LostAckEnds
