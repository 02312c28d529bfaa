\* Removal, cleanup and copies beside the builds of two Items.
SPECIFICATION FairSpec
CONSTANTS
    a = a  b = b
    Names = {a, b}
    Reads <- MCReads
    MaxBuilds = 2
    MaxFreezes = 1
    MaxRemovals = 1
    MaxCrashes = 1
INVARIANTS NothingDangles OriginalsKept
PROPERTIES  RemovalEnds
CHECK_DEADLOCK FALSE
