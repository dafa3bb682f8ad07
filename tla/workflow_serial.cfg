SPECIFICATION FairSpec
CONSTANTS
    Shipments = {s1}
    Vehicles = {v1, v2}
    Workers = {w1}
    CreateStatuses = {"DRAFT", "QUOTED", "BOOKED", "RECEIVED"}
    Facts = {"isActive", "hasDocument"}
    MaxEvents = 2
    MaxCrashes = 1
INVARIANT FleetFollowsStatus
PROPERTIES LoadedShipmentWasReady ImplementsLifecycle MilestonesAnnounced
CHECK_DEADLOCK FALSE
