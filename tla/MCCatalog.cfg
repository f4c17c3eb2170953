SPECIFICATION FairSpec
CONSTANTS
    Providers <- MCProviders
    Configurations <- MCConfigurations
    Paged = {"bybit"}
    MaxSymbol = 2
    PageSize = 1
    MaxPages = 4
    MaxChanges = 1
    MaxFaults = 1
INVARIANTS ReadyAdmits CursorAskedOnce
PROPERTIES CompleteSnapshot Refreshed
