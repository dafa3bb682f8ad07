SPECIFICATION Spec
CONSTANTS
    Workers = {w1, w2}
    Shipments = {s1}
    Vehicles = {v1}
    Documents = {d1}
    Photos = {p1, p2}
    MaxCrashes = 1
SYMMETRY Symmetry
CHECK_DEADLOCK FALSE
INVARIANTS TypeOK DocumentHasFile PhotoHasFile NothingLeftBehind OnePrimary
PROPERTIES PrimaryStays
