\* Every history of four days and two assets, by every way of paging.
SPECIFICATION FairSpec
CONSTANTS
    NumDays = 4
    NumAssets = 2
    CohortSize = 1
    RowLimit = 2
    MaxPages = 5
    MaxRetries = 2
    BufferLimit = 4
    Claims <- MCClaims
    MaxFaults = 1
INVARIANT SettledAsProvided
PROPERTY EveryDaySettles
CHECK_DEADLOCK FALSE
