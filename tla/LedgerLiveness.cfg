\* Termination and hand-back of the lease.
SPECIFICATION FairSpec
CONSTANTS
    r1 = r1  r2 = r2  r3 = r3  v1 = v1  v2 = v2
    Runs = {r1, r2}
    OwnerOf <- MCOwnerIsRun
    ModeOf <- MCIncremental
    First <- MCTailFirst
    Last <- MCLast
    NoRun = NoRun
    NumDays = 2
    Defs = {v1}
    FirstDef = v1
    Recent = {}
    Required = {2}
    Backfill = TRUE
    Reasons = {"other"}
    Serial = FALSE
    SilentInterrupts = FALSE
    MaxRegisters = 0
    MaxCrashes = 1
    MaxResets = 0
    MaxReopens = 0
    Owners = {r1, r2}
PROPERTIES UpdateEnds LeaseIsReturned ClaimIsSettled
CHECK_DEADLOCK FALSE
