SPECIFICATION FleetSpec
CONSTANTS
    Shipments = {s1}
    Vehicles = {v1, v2}
    Workers = {w1}
    Editors = {e1}
    CreateStatuses = {"RECEIVED"}
    Facts = {}
    MaxEvents = 1
    MaxCrashes = 0
    MaxEdits = 3
SYMMETRY VehicleSymmetry
PROPERTIES NoVehicleLeftBehind
CHECK_DEADLOCK FALSE
