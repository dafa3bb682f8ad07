SPECIFICATION Spec
CONSTANTS
    Shipments = {s1}
    Vehicles = {v1}
    Workers = {w1, w2}
    CreateStatuses = {"DRAFT"}
    Facts = {}
    MaxEvents = 1
    MaxCrashes = 0
CHECK_DEADLOCK FALSE
PROPERTIES TerminalStatusesAreFinal
