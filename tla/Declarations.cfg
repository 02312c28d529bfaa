\* Two clients change one catalog, call by call and by batches.
SPECIFICATION Spec
CONSTANTS
    r = r  a = a  b = b  c1 = c1  c2 = c2  n = n
    Raws = {r}
    Items = {a, b}
    Categories = {c1, c2}
    CategoryNames = {n}
    NoName = NoName
    Payloads <- MCPayloads
    RequestIds = {1}
    Clients = {1, 2}
    MaxChanges = 6
INVARIANT CatalogHolds
PROPERTY BatchAddsOnly
CHECK_DEADLOCK FALSE
