\* An Item on an Item on raw data, asked for again and again.
SPECIFICATION FairSpec
CONSTANTS
    p1 = p1  raw = raw  base = base  top = top
    Raws = {raw}
    Items = {base, top}
    Inputs <- MCChain
    Forward = {top}
    Days <- MCDays
    Requests <- MCWhole
    Targets = {base, top}
    Procs = {p1}
    NoProc = NoProc
    MaxIngests = 1
    MaxDefinitions = 2
    MaxCalls = 0
    MaxEvents = 1
PROPERTY EventuallyFresh
CHECK_DEADLOCK FALSE
