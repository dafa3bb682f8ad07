SPECIFICATION Spec
CONSTANTS
    Inspections = {i1}
    Vehicles = {v1, v2}
    Reports = {r1, r2}
    Workers = {w1}
    Types = {"GENERAL"}
    Flags = {}
    MaxHistory = 3
    MaxMoves = 1
CHECK_DEADLOCK FALSE
INVARIANT DamageShown
PROPERTIES ImplementsInspectionRecord
