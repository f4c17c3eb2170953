SPECIFICATION Spec
CONSTANTS
    Keys <- MCKeys
    Adapters <- MCAdapters
    MaxDemand = 2
    BackoffMin = 2
    BackoffMax = 3
    MaxChanges = 3
    MaxFaults = 2
INVARIANTS LiveMeansSubscribed BookkeepingExact DeadlineCoversPending
    NoLostDemand CommandsReachDesired
