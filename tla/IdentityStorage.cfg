SPECIFICATION Spec
CONSTANTS
    Identities = {"d1", "d2"}
    Gateways = {"g1"}
    Values <- MCValues
    Programs <- MCPrograms
    Processes = {p1, p2}
    Stores = {"json", "stub"}
    MaxDuplicates = 1
    MaxStarts = 3
    None = None
    Torn = Torn
    Nobody = Nobody
SYMMETRY Symmetry
INVARIANTS
    TypeOK
    OkMeansApplied
    StoreIsTrue
CHECK_DEADLOCK FALSE
