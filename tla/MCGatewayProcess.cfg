SPECIFICATION ProcessSpec
CONSTANTS
    AllProviders = {"bybit", "okx"}
    Endpoints <- MCEndpoints
    Declared <- MCDeclared
    Fallback = 5
    SomeSettings <- MCSettings
    HistorySlots = 1
    MaxRequests = 1
INVARIANTS NothingLeftRunning ServedAsConfigured
PROPERTY LossEndsProcess
