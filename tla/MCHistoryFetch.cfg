SPECIFICATION Spec
CONSTANTS
    Interval = 2
    MaxRange = 10
    MaxCandles = 5
    PageLimit = 2
    MaxPages = 3
    Providers <- MCProviders
    Requests <- MCRequests
    Clocks = {3, 7, 9, 12}
    Gaps <- MCGaps
    Ticks = {0, 3, 4, 6, 8}
    MaxRows = 2
INVARIANTS HonestVenueSucceeds EarliestReturned ClosedIsFinal ResultWellFormed
PROPERTY PagingProgresses
