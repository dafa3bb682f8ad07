SPECIFICATION FleetSpec
CONSTANTS
    Shipments = {s1}
    Vehicles = {v1, v2}
    Workers = {w1}
    Editors = {e1}
    CreateStatuses = {"RECEIVED"}
    Facts = {}
    MaxEvents = 1
    MaxCrashes = 0
    MaxEdits = 4
SYMMETRY VehicleSymmetry
INVARIANTS FleetTypeOK VehicleHasShipment
PROPERTIES NothingTravelsEmpty
CHECK_DEADLOCK FALSE
