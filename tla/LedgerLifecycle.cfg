\* One API call at a time: baseline, resumption, reopening, refresh, with a redefinition, a reset and a process death between or during calls.
SPECIFICATION Spec
CONSTANTS
    r1 = r1  r2 = r2  r3 = r3  v1 = v1  v2 = v2
    Runs = {r1, r2, r3}
    OwnerOf <- MCOwnerIsRun
    ModeOf <- MCLifecycle
    First <- MCLateFirst
    Last <- MCLast
    NoRun = NoRun
    NumDays = 2
    Defs = {v1, v2}
    FirstDef = v1
    Recent = {}
    Required = {1}
    Backfill = FALSE
    Reasons = {"other"}
    Serial = TRUE
    SilentInterrupts = FALSE
    MaxRegisters = 1
    MaxCrashes = 1
    MaxResets = 1
    MaxReopens = 1
    Owners = {r1, r2, r3}
   
PROPERTIES InitializationCompletesTerminal
CHECK_DEADLOCK FALSE
SYMMETRY MCBaselines
