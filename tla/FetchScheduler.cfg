\* One phase on two threads; every response may fail, fit or, of a range, be split.
SPECIFICATION FairSpec
CONSTANTS
    range = range  h1 = h1  h2 = h2  r1 = r1  r2 = r2  f1 = f1  f2 = f2
    Requests = {range, h1, h2, r1, r2, f1, f2}
    Tasks <- MCTasks
    Halves <- MCHalves
    Taken = {f1, f2}
    MaxInFlight = 2
    Workers = 2
    Budget = 4
    Sizes = {1, 2}
    BatchSize = 3
    Partitions = 3
    MaxMixed = 1
INVARIANTS ConsumedOnce BudgetHolds EndsComplete
PROPERTY PhaseEnds
CHECK_DEADLOCK FALSE
