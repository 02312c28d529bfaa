\* Writers, deaths, abandoned owners and redefinitions against each other.
SPECIFICATION Spec
CONSTANTS
    w1 = w1  w2 = w2  k1 = k1  k2 = k2  a = a  b = b
    v1 = v1  v2 = v2  jan = jan  feb = feb
    Keys = {k1, k2}
    Values = {a, b}
    Frames <- MCFrames
    Earlier <- MCEarlier
    Writers = {w1, w2}
    Enclosed = {w2}
    NoWriter = NoWriter
    Partitions = {jan, feb}
    Month <- MCMonth
    Definitions = {v1, v2}
    FirstDefinition = v1
    PartitionWorkers = 2
    MaxDeclarations = 1
    MaxAccidents = 1
INVARIANTS VisibleIsWhole NothingLeftBehind OwnDefinition
PROPERTIES BoundaryIsStable Implements
CHECK_DEADLOCK FALSE
