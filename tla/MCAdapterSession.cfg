SPECIFICATION Spec
CONSTANTS
    Demanded <- MCDemanded
    KeyOrder <- MCKeyOrder
    Told <- MCTold
    Batch = 2
    MaxUpdates = 2
    MaxChanges = 3
    MaxPushes = 2
    MaxFaults = 1
CHECK_DEADLOCK FALSE
INVARIANTS AcknowledgementsCorrelate PublishedIsLatest
