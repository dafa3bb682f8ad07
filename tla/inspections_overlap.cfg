SPECIFICATION Spec
CONSTANTS
    Inspections = {i1}
    Vehicles = {v1}
    Reports = {}
    Workers = {w1, w2}
    Types = {"RECEIVING", "PRE_LOADING"}
    Flags = {}
    MaxHistory = 2
    MaxMoves = 0
SYMMETRY Symmetry
CHECK_DEADLOCK FALSE
INVARIANTS TypeOK StatusAccountedFor ApprovalAccountedFor NoFreeAdvance
