\* Two handlers, from an empty store, a small one, and one at the largest id.
SPECIFICATION StoreSpec
CONSTANTS
    c1 = c1  c2 = c2
    f1 = f1  f2 = f2
    v1 = v1  v2 = v2
    Nothing = Nothing
    Clients = {c1, c2}
    Fields = {f1, f2}
    Values = {v1, v2}
    TopId = 4
    Seeds <- MCSeeds
    Checked = TRUE
    MaxCalls = 4
INVARIANTS
    UniqueIds
    AtomicUnlessRaced
PROPERTIES
    UpdatesKeepIds
    WritesOneRecord
SYMMETRY Symmetry
CHECK_DEADLOCK FALSE
