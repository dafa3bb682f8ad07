-------------------------------- MODULE Fleet --------------------------------
(***************************************************************************)
(* VehiclesService (apps/api/src/vehicles/vehicles.service.ts) composed    *)
(* with ShipmentWorkflow: vehicles are created in, moved between and       *)
(* removed from shipments while these are dispatched.  An editor is one    *)
(* vehicle request in flight; like the shipment handlers it reads, checks  *)
(* and then writes the row by its id alone, whatever happened in between.  *)
(***************************************************************************)
EXTENDS ShipmentWorkflow

CONSTANTS
    Editors,        \* vehicle requests the API process may have in flight
    MaxEdits        \* bound: how many vehicle requests are sent

ASSUME FleetAssumption == MaxEdits \in Nat

VARIABLES
    unused,         \* vehicle identifiers no row was inserted under yet
    edit,           \* [Editors -> the vehicle request served, or NoEdit]
    edits           \* vehicle requests sent so far

fleetVars == <<vars, unused, edit, edits>>

-----------------------------------------------------------------------------

NoRow == [shipment |-> NoShipment, isActive |-> FALSE, status |-> "REGISTERED"]
hasRow(v) == vehicle[v].shipment # NoShipment

NoEdit == [phase |-> "idle"]

\* The fields of a vehicle dto that the model tells apart; each may be absent.
VehicleDto == [shipment: Shipments \cup {Unset},
               isActive: {"yes", "no", Unset},
               status:   VehicleStatus \cup {Unset}]
Edit == [phase:   {"assigning", "writing"},
         handler: {"create", "update", "remove"},
         vehicle: Vehicles,
         dto:     VehicleDto]

FleetTypeOK ==
    /\ TypeOK
    /\ unused \subseteq Vehicles
    /\ edit \in [Editors -> Edit \cup {NoEdit}]
    /\ edits \in Nat

FleetInit ==
    /\ status \in [Shipments -> {"DRAFT", NotCreated}]
    /\ facts = [s \in Shipments |-> Facts \ {"hasDocument"}]
    /\ vehicle = [v \in Vehicles |-> NoRow]
    /\ cleared = {}
    /\ events = [s \in Shipments |->
                    [t \in controlledWorkflowStatuses |-> 0]]
    /\ request = [w \in Workers |-> NoRequest]
    /\ crashes = 0
    /\ untold = [s \in Shipments |-> {}]
    /\ withdrawn = [w \in Workers |-> {}]
    /\ unused = Vehicles
    /\ edit = [e \in Editors |-> NoEdit]
    /\ edits = 0

-----------------------------------------------------------------------------

\* A request arrives and its first reads and checks have passed.
BeginEdit(e, phase, handler, v, dto) ==
    /\ edit[e] = NoEdit
    /\ edits < MaxEdits
    /\ edits' = edits + 1
    /\ edit' = [edit EXCEPT ![e] = [phase |-> phase, handler |-> handler,
                                    vehicle |-> v, dto |-> dto]]

AnswerEdit(e) == edit' = [edit EXCEPT ![e] = NoEdit]

Editing(e, phase, handler) ==
    /\ edit[e] # NoEdit
    /\ edit[e].phase = phase
    /\ edit[e].handler = handler

\* The shipment a vehicle is to join must exist and be active when it is read.
mayJoin(s) == Exists(s) /\ ("isActive" \in Facts => "isActive" \in facts[s])

BeginCreateVehicle(e, v, dto) ==
    /\ v \in unused
    /\ dto.shipment # Unset /\ dto.status = Unset
    /\ mayJoin(dto.shipment)
    /\ BeginEdit(e, "writing", "create", v, dto)
    /\ unused' = unused \ {v}
    /\ UNCHANGED vars

\* The foreign key lets a row refer to a shipment that exists only.
referUnchecked(s) == TRUE                \* faulty: there is no such key
mayRefer(s) == s # Unset => Exists(s)

CommitCreateVehicle(e) ==
    LET v   == edit[e].vehicle
        dto == edit[e].dto
    IN  /\ Editing(e, "writing", "create")
        /\ mayRefer(dto.shipment)
        /\ vehicle' = [vehicle EXCEPT ![v] =
                          [shipment |-> dto.shipment,
                           isActive |-> dto.isActive # "no",
                           status   |-> "REGISTERED"]]
        /\ AnswerEdit(e)
        /\ UNCHANGED <<status, facts, cleared, events, history, request,
                       crashes, unused, edits>>

\* VehiclesService.assertValidStatusTransition: one step along the chain, or
\* CANCELLED; nothing leaves DELIVERED and CANCELLED.
VehicleChain ==
    { <<"REGISTERED", "RECEIVED">>, <<"RECEIVED", "INSPECTED">>,
      <<"INSPECTED", "READY_FOR_LOADING">>, <<"READY_FOR_LOADING", "LOADED">>,
      <<"LOADED", "IN_TRANSIT">>, <<"IN_TRANSIT", "ARRIVED">>,
      <<"ARRIVED", "CUSTOMS_CLEARANCE">>,
      <<"CUSTOMS_CLEARANCE", "READY_FOR_DELIVERY">>,
      <<"READY_FOR_DELIVERY", "DELIVERED">> }

isVehicleTransitionAllowed(from, to) ==
    \/ <<from, to>> \in VehicleChain
    \/ from \notin {"DELIVERED", "CANCELLED"} /\ to = "CANCELLED"

BeginUpdateVehicle(e, v, dto) ==
    /\ hasRow(v)
    /\ \/ dto.status \in {Unset, vehicle[v].status}
       \/ isVehicleTransitionAllowed(vehicle[v].status, dto.status)
    /\ BeginEdit(e, IF dto.shipment = Unset THEN "writing" ELSE "assigning",
                 "update", v, dto)
    /\ UNCHANGED <<vars, unused>>

\* The second read of the row and the read of the shipment it shall join.
CheckAssignment(e) ==
    /\ Editing(e, "assigning", "update")
    /\ IF hasRow(edit[e].vehicle) /\ mayJoin(edit[e].dto.shipment)
       THEN edit' = [edit EXCEPT ![e].phase = "writing"]
       ELSE AnswerEdit(e)
    /\ UNCHANGED <<vars, unused, edits>>

\* A field that was not sent keeps its value.
overwritten(new, old) == new             \* faulty: it is written anyway
sentOrKept(new, old) == IF new = Unset THEN old ELSE new

\* The row is written by id with the fields that were sent.
CommitUpdateVehicle(e) ==
    LET v   == edit[e].vehicle
        dto == edit[e].dto
    IN  /\ Editing(e, "writing", "update")
        /\ hasRow(v)
        /\ mayRefer(dto.shipment)
        /\ vehicle' = [vehicle EXCEPT ![v] =
               [shipment |-> sentOrKept(dto.shipment, @.shipment),
                isActive |-> IF dto.isActive = Unset THEN @.isActive
                                                     ELSE dto.isActive = "yes",
                status   |-> sentOrKept(dto.status, @.status)]]
        /\ AnswerEdit(e)
        /\ UNCHANGED <<status, facts, cleared, events, history, request,
                       crashes, unused, edits>>

AllUnset == [shipment |-> Unset, isActive |-> Unset, status |-> Unset]

BeginRemoveVehicle(e, v) ==
    /\ hasRow(v)
    /\ BeginEdit(e, "writing", "remove", v, AllUnset)
    /\ UNCHANGED <<vars, unused>>

\* A hard delete; the inspections of the vehicle go with it.
CommitRemoveVehicle(e) ==
    LET v == edit[e].vehicle
    IN  /\ Editing(e, "writing", "remove")
        /\ hasRow(v)
        /\ vehicle' = [vehicle EXCEPT ![v] = NoRow]
        /\ cleared' = cleared \ {v}
        /\ AnswerEdit(e)
        /\ UNCHANGED <<status, facts, events, history, request, crashes,
                       unused, edits>>

\* The write fails: its row is gone, the shipment it refers to is, or another
\* vehicle took its VIN (the VINs are kept outside this module).
FailEdit(e) ==
    /\ edit[e] # NoEdit
    /\ edit[e].phase = "writing"
    /\ edit[e].handler = "remove" => ~hasRow(edit[e].vehicle)
    /\ AnswerEdit(e)
    /\ UNCHANGED <<vars, unused, edits>>

-----------------------------------------------------------------------------

FleetStep ==
    \/ \E e \in Editors, v \in Vehicles, dto \in VehicleDto :
           BeginCreateVehicle(e, v, dto) \/ BeginUpdateVehicle(e, v, dto)
    \/ \E e \in Editors, v \in Vehicles : BeginRemoveVehicle(e, v)
    \/ \E e \in Editors :
           \/ CommitCreateVehicle(e)
           \/ CheckAssignment(e)
           \/ CommitUpdateVehicle(e)
           \/ CommitRemoveVehicle(e)
           \/ FailEdit(e)

\* A crash of the process takes the vehicle requests with it as well.
FleetNext ==
    \/ FleetStep
    \/ /\ Next
       /\ edit' = IF crashes' = crashes THEN edit
                                        ELSE [e \in Editors |-> NoEdit]
       /\ UNCHANGED <<unused, edits>>

FleetSpec == FleetInit /\ [][FleetNext]_fleetVars

-----------------------------------------------------------------------------

\* Every vehicle belongs to a shipment that exists, although the handlers
\* check it before they write and the shipment may be deleted in between.
VehicleHasShipment ==
    \A v \in Vehicles : hasRow(v) => Exists(vehicle[v].shipment)

\* No shipment is loaded, leaves or arrives empty: the transaction that logs
\* it moves a vehicle, although vehicles are moved to other shipments,
\* deactivated and removed while the requests are under way.
NothingTravelsEmpty ==
    [][\A s \in Shipments, t \in {"LOADED", "IN_TRANSIT", "ARRIVED"} :
           events'[s][t] > events[s][t] =>
               \E v \in activeVehicles(s) :
                   vehicle'[v].status = t /\ vehicle[v].status # t]_fleetVars

\* "All active shipment vehicles must be READY_FOR_LOADING before the shipment
\* can be loaded", and alike for departure and arrival: none is left behind.
NoVehicleLeftBehind ==
    [][\A s \in Shipments, t \in {"LOADED", "IN_TRANSIT", "ARRIVED"} :
           events'[s][t] > events[s][t] =>
               \A v \in activeVehicles(s) : vehicle'[v].status = t]_fleetVars

=============================================================================
