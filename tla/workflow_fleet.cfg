SPECIFICATION Spec
CONSTANTS
    Shipments = {s1}
    Vehicles = {v1, v2}
    Workers = {w1, w2}
    CreateStatuses = {"DRAFT"}
    Facts = {}
    MaxEvents = 1
    MaxCrashes = 0
SYMMETRY Symmetry
INVARIANTS TypeOK FleetFollowsLog StatusHasEvent
CHECK_DEADLOCK FALSE
