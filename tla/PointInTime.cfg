\* Baselines, revisions, witnesses, cancelled and repeated builds of one Item.
SPECIFICATION Spec
CONSTANTS
    LastDay = 3
    Ranges <- MCRanges
    Values = {1, 2}
    Kept = {1}
    Window = 2
    Lag = 0
    Null = Null
    Foreign = Foreign
    MaxCommits = 2
    MaxBuilds = 2
    MaxForeign = 1
INVARIANTS PointInTime HistoryStands NoPromotion
CHECK_DEADLOCK FALSE
