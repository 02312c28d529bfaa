\* Two concurrent updates, a redefinition, a reset and a process death.
SPECIFICATION Spec
CONSTANTS
    r1 = r1  r2 = r2  r3 = r3  v1 = v1  v2 = v2
    Runs = {r1, r2}
    OwnerOf <- MCOwnerIsRun
    ModeOf <- MCIncremental
    First <- MCTailFirst
    Last <- MCLast
    NoRun = NoRun
    NumDays = 2
    Defs = {v1, v2}
    FirstDef = v1
    Recent = {}
    Required = {2}
    Backfill = TRUE
    Reasons = {"other"}
    Serial = FALSE
    SilentInterrupts = TRUE
    MaxRegisters = 1
    MaxCrashes = 1
    MaxResets = 1
    MaxReopens = 0
    Owners = {r1, r2}
INVARIANTS ExclusiveUpdate LiveClaimIsLeased ClaimsAccountedFor UpdateMarksIncomplete
PROPERTIES OutcomeByClaimant TerminalIsKept
CHECK_DEADLOCK FALSE
