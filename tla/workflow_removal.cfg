SPECIFICATION FairSpec
CONSTANTS
    Shipments = {s1}
    Vehicles = {v1}
    Workers = {w1, w2}
    CreateStatuses = {"DRAFT"}
    Facts = {"hasDocument"}
    MaxEvents = 1
    MaxCrashes = 0
PROPERTIES DeletedStaysDeleted RequestsAnswered
CHECK_DEADLOCK FALSE
