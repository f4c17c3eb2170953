SPECIFICATION Spec
CONSTANTS
    Keys <- MCKeys
    Adapters <- MCBingx
    MaxDemand = 4
    BackoffMin = 2
    BackoffMax = 3
    MaxChanges = 1
    MaxFaults = 0
PROPERTY AdmittedDemandServed
