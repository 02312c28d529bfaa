\* One Item is initialized, updated and resumed while its input and its output change.
SPECIFICATION Spec
CONSTANTS
    p1 = p1  raw = raw  base = base  top = top
    Raws = {raw}
    Items = {base}
    Inputs <- MCDirect
    Forward = {}
    Days <- MCDays
    Requests <- MCGrowing
    Targets = {base}
    Procs = {p1}
    NoProc = NoProc
    MaxIngests = 1
    MaxDefinitions = 2
    MaxCalls = 3
    MaxEvents = 2
INVARIANTS CompletionHolds RepairsArePlanned AdvertisedIsCertified
PROPERTY PinnedFlagIsFresh
CHECK_DEADLOCK FALSE
