----------------------- MODULE ShipmentWorkflowProofs -----------------------
(***************************************************************************)
(* Theorems about ShipmentWorkflow, for every number of shipments,         *)
(* vehicles and concurrent requests and for every bound, and on top of     *)
(* them about Fleet: what the vehicle endpoints and the shipment handlers  *)
(* keep together, for every number of requests of either kind.             *)
(***************************************************************************)
EXTENDS Fleet, FiniteSetTheorems, TLAPS

-----------------------------------------------------------------------------
(* Requests and types *)

\* The milestones that move vehicles, and the handlers that log a milestone.
Milestones == {"LOADED", "IN_TRANSIT", "ARRIVED"}
Movers     == {"dispatch", "arrival"}
Recorders  == Handlers \ {"update", "remove"}

\* What each handler asks for, and the phases it goes through.  RecordStatus
\* needs it: an update may carry no status at all.
TargetOK(h, t) ==
    /\ h = "dispatch" => t \in {"LOADED", "IN_TRANSIT"}
    /\ h = "arrival" => t = "ARRIVED"
    /\ h \in Recorders \ Movers => t \in controlledWorkflowStatuses \ Milestones

RequestOK(r) ==
    /\ TargetOK(r.handler, r.target)
    /\ r.phase = "checking" => r.handler \in Recorders
    /\ r.phase = "counting" => r.handler \in Movers

RequestsOK == \A w \in Workers : request[w] # NoRequest => RequestOK(request[w])

TypeInv == TypeOK /\ RequestsOK

\* The one way a worker's request changes.
LEMMA RequestReplaced ==
    ASSUME TypeInv, NEW w \in Workers, NEW r \in InFlight \cup {NoRequest},
           r # NoRequest => RequestOK(r),
           request' = [request EXCEPT ![w] = r]
    PROVE  /\ request' \in [Workers -> InFlight \cup {NoRequest}]
           /\ RequestsOK'
  BY DEF TypeInv, TypeOK, RequestsOK

LEMMA RequestAnswered ==
    ASSUME TypeInv, NEW w \in Workers,
           request' = [request EXCEPT ![w] = NoRequest]
    PROVE  /\ request' \in [Workers -> InFlight \cup {NoRequest}]
           /\ RequestsOK'
  BY RequestReplaced

\* What is kept of the withdrawals has its type after every kind of step.
LEMMA WithdrawnType ==
    ASSUME TypeInv,
           \/ UNCHANGED withdrawn
           \/ \E w \in Workers : withdrawn' = [withdrawn EXCEPT ![w] = {}]
           \/ withdrawn' = [w \in Workers |-> {}]
           \/ \E s, lost : lost \subseteq Vehicles \cup Facts
                          /\ TakeBack(s, lost)
    PROVE  withdrawn' \in [Workers -> SUBSET (Vehicles \cup Facts)]
  BY DEF TypeInv, TypeOK, TakeBack

LEMMA RequestProceeds ==
    ASSUME TypeInv, NEW w \in Workers, request[w] # NoRequest,
           NEW p \in {"counting", "writing", "notifying"},
           p = "counting" => request[w].handler \in Movers,
           Proceed(w, p)
    PROVE  /\ request' \in [Workers -> InFlight \cup {NoRequest}]
           /\ RequestsOK'
  <1> DEFINE r == [request[w] EXCEPT !.phase = p]
  <1>1. request[w] \in InFlight /\ RequestOK(request[w])
    BY DEF TypeInv, TypeOK, RequestsOK
  <1>2. /\ r \in InFlight
        /\ r.phase = p
        /\ r.handler = request[w].handler
        /\ r.target = request[w].target
    BY <1>1 DEF InFlight
  <1>3. RequestOK(r)
    BY <1>1, <1>2 DEF RequestOK
  <1>4. request' = [request EXCEPT ![w] = r]
    BY DEF Proceed
  <1>5. QED
    BY <1>2, <1>3, <1>4, RequestReplaced

LEMMA BeginInv ==
    ASSUME TypeInv, NEW w \in Workers, NEW s \in Shipments,
           NEW h \in Handlers, NEW t \in ShipmentStatus \cup {Unset},
           NEW p \in {"checking", "writing"},
           TargetOK(h, t), p = "checking" => h \in Recorders,
           Begin(w, h, s, t, p)
    PROVE  TypeInv'
  <1> DEFINE r == [phase |-> p, handler |-> h, shipment |-> s, target |-> t,
                   counted |-> 0]
  <1>1. r \in InFlight /\ RequestOK(r)
    BY DEF InFlight, RequestOK
  <1>2. request' = [request EXCEPT ![w] = r]
    BY DEF Begin
  <1>3. /\ request' \in [Workers -> InFlight \cup {NoRequest}]
        /\ RequestsOK'
    BY <1>1, <1>2, RequestReplaced
  <1>4. QED
    BY <1>3 DEF Begin, TypeInv, TypeOK, database, history

LEMMA BeginTransitionInv ==
    ASSUME TypeInv, NEW w \in Workers, NEW s \in Shipments,
           NEW h \in Recorders, NEW t \in ShipmentStatus,
           TargetOK(h, t), BeginTransition(w, h, s, t)
    PROVE  TypeInv'
  <1>1. h \in Handlers
    BY DEF Recorders
  <1>2. CASE t \in readinessProtectedStatuses
    <2>1. Begin(w, h, s, t, "checking")
      BY <1>2 DEF BeginTransition
    <2>2. QED
      BY <1>1, <2>1, BeginInv
  <1>3. CASE t \notin readinessProtectedStatuses
    <2>1. Begin(w, h, s, t, "writing")
      BY <1>3 DEF BeginTransition
    <2>2. QED
      BY <1>1, <2>1, BeginInv
  <1>4. QED
    BY <1>2, <1>3

LEMMA ArriveInv ==
    ASSUME TypeInv, NEW w \in Workers, NEW s \in Shipments, Arrive(w, s)
    PROVE  TypeInv'
  <1> USE DEF Recorders, Movers, Milestones, Handlers, TargetOK,
              ShipmentStatus, controlledWorkflowStatuses
  <1>1. CASE \E t \in ShipmentStatus : BeginDispatch(w, s, t)
    BY <1>1, BeginTransitionInv DEF BeginDispatch
  <1>2. CASE BeginMarkArrived(w, s)
    BY <1>2, BeginTransitionInv DEF BeginMarkArrived
  <1>3. CASE BeginCustomsClearance(w, s)
    BY <1>3, BeginTransitionInv DEF BeginCustomsClearance
  <1>4. CASE BeginMarkReadyForDelivery(w, s)
    BY <1>4, BeginTransitionInv DEF BeginMarkReadyForDelivery
  <1>5. CASE BeginMarkDelivered(w, s)
    BY <1>5, BeginTransitionInv DEF BeginMarkDelivered
  <1>6. CASE BeginCancel(w, s)
    BY <1>6, BeginTransitionInv DEF BeginCancel
  <1>7. CASE \E t \in ShipmentStatus \cup {Unset} : BeginUpdate(w, s, t)
    BY <1>7, BeginInv DEF BeginUpdate
  <1>8. CASE BeginRemove(w, s)
    BY <1>8, BeginInv DEF BeginRemove
  <1>9. QED
    BY <1>1, <1>2, <1>3, <1>4, <1>5, <1>6, <1>7, <1>8 DEF Arrive

-----------------------------------------------------------------------------
(* Serving a request keeps the types *)

LEMMA AssertReadyInv ==
    ASSUME TypeInv, NEW w \in Workers, AssertReadyForStatus(w)
    PROVE  TypeInv'
  <1>1. /\ request' \in [Workers -> InFlight \cup {NoRequest}]
        /\ RequestsOK'
    <2>1. CASE Answer(w)
      BY <2>1, RequestAnswered DEF Answer
    <2>2. CASE Proceed(w, "counting") /\ request[w].handler \in Movers
      BY <2>2, RequestProceeds DEF AssertReadyForStatus
    <2>3. CASE Proceed(w, "writing")
      BY <2>3, RequestProceeds DEF AssertReadyForStatus
    <2>4. QED
      BY <2>1, <2>2, <2>3 DEF AssertReadyForStatus, Movers
  <1>2. withdrawn' \in [Workers -> SUBSET (Vehicles \cup Facts)]
    BY WithdrawnType DEF AssertReadyForStatus, Answer, Proceed
  <1>3. QED
    BY <1>1, <1>2 DEF AssertReadyForStatus, TypeInv, TypeOK, database

LEMMA ActiveVehiclesFinite ==
    ASSUME NEW s
    PROVE  /\ IsFiniteSet(activeVehicles(s))
           /\ Cardinality(activeVehicles(s)) \in Nat
  <1>1. activeVehicles(s) \subseteq Vehicles
    BY DEF activeVehicles
  <1>2. QED
    BY <1>1, ConstantsAssumption, FS_Subset, FS_CardinalityType

LEMMA CountInv ==
    ASSUME TypeInv, NEW w \in Workers, CountActiveVehicles(w)
    PROVE  TypeInv'
  <1> DEFINE n == Cardinality(activeVehicles(request[w].shipment))
             r == [request[w] EXCEPT !.phase = "writing", !.counted = n]
  <1>1. /\ request[w] \in InFlight
        /\ RequestOK(request[w])
    BY DEF TypeInv, TypeOK, RequestsOK, CountActiveVehicles
  <1>2. n \in Nat
    BY ActiveVehiclesFinite
  <1>3. /\ r \in InFlight
        /\ r.phase = "writing"
        /\ r.handler = request[w].handler
        /\ r.target = request[w].target
    BY <1>1, <1>2 DEF InFlight
  <1>4. RequestOK(r)
    BY <1>1, <1>3 DEF RequestOK
  <1>0. withdrawn' \in [Workers -> SUBSET (Vehicles \cup Facts)]
    BY WithdrawnType DEF CountActiveVehicles, Answer
  <1>5. CASE Answer(w)
    BY <1>0, <1>5, RequestAnswered
       DEF CountActiveVehicles, Answer, TypeInv, TypeOK, database
  <1>6. CASE request' = [request EXCEPT ![w] = r]
    <2>1. /\ request' \in [Workers -> InFlight \cup {NoRequest}]
          /\ RequestsOK'
      BY <1>3, <1>4, <1>6, RequestReplaced
    <2>2. QED
      BY <1>0, <2>1 DEF CountActiveVehicles, TypeInv, TypeOK, database
  <1>7. request' = [request EXCEPT ![w].phase = "writing", ![w].counted = n]
            => request' = [request EXCEPT ![w] = r]
    BY DEF TypeInv, TypeOK
  <1>8. QED
    BY <1>5, <1>6, <1>7 DEF CountActiveVehicles

\* RecordStatus writes a controlled status and counts its event.
LEMMA RecordStatusInv ==
    ASSUME TypeInv, NEW w \in Workers,
           request[w] # NoRequest, request[w].handler \in Recorders,
           RecordStatus(w), vehicle' \in [Vehicles -> Vehicle]
    PROVE  TypeInv'
  <1> DEFINE s == request[w].shipment
             t == request[w].target
  <1>1. s \in Shipments /\ t \in controlledWorkflowStatuses
    BY DEF TypeInv, TypeOK, RequestsOK, RequestOK, TargetOK, InFlight,
           Recorders, Movers, Milestones, Handlers, controlledWorkflowStatuses
  <1>2. status' \in [Shipments -> RowStatus]
    BY <1>1 DEF RecordStatus, TypeInv, TypeOK, RowStatus, ShipmentStatus,
                controlledWorkflowStatuses
  <1>3. events' \in [Shipments -> [controlledWorkflowStatuses -> Nat]]
    BY <1>1 DEF RecordStatus, TypeInv, TypeOK
  <1>4. /\ request' \in [Workers -> InFlight \cup {NoRequest}]
        /\ RequestsOK'
    BY RequestProceeds DEF RecordStatus
  <1>5. /\ untold' \in [Shipments -> SUBSET controlledWorkflowStatuses]
        /\ UNCHANGED withdrawn
    BY <1>1 DEF RecordStatus, Proceed, TypeInv, TypeOK
  <1>6. QED
    BY <1>2, <1>3, <1>4, <1>5 DEF RecordStatus, TypeInv, TypeOK

LEMMA MoveVehiclesType ==
    ASSUME TypeInv, NEW w \in Workers,
           request[w] # NoRequest, request[w].handler \in Movers,
           MoveVehicles(w)
    PROVE  vehicle' \in [Vehicles -> Vehicle]
  <1>1. request[w].target \in Milestones
    BY DEF TypeInv, TypeOK, RequestsOK, RequestOK, TargetOK, Movers, Milestones
  <1>2. ASSUME NEW v \in Vehicles
        PROVE  [vehicle[v] EXCEPT !.status = request[w].target] \in Vehicle
    BY <1>1 DEF TypeInv, TypeOK, Vehicle, VehicleStatus, Milestones
  <1>3. QED
    BY <1>2 DEF MoveVehicles, TypeInv, TypeOK

LEMMA CommitInv ==
    ASSUME TypeInv, NEW w \in Workers,
           \/ CommitDispatch(w) \/ CommitMarkArrived(w)
           \/ CommitCustomsClearance(w) \/ CommitMarkReadyForDelivery(w)
           \/ CommitMarkDelivered(w) \/ CommitCancel(w)
    PROVE  TypeInv'
  <1>1. CASE CommitDispatch(w) \/ CommitMarkArrived(w)
    <2>1. /\ request[w] # NoRequest
          /\ request[w].handler \in Movers \cap Recorders
          /\ MoveVehicles(w)
          /\ RecordStatus(w)
      BY <1>1 DEF CommitDispatch, CommitMarkArrived, Serving, Movers,
                  Recorders, Handlers
    <2>2. QED
      BY <2>1, MoveVehiclesType, RecordStatusInv
  <1>2. CASE \/ CommitCustomsClearance(w) \/ CommitMarkReadyForDelivery(w)
             \/ CommitMarkDelivered(w) \/ CommitCancel(w)
    <2>1. /\ request[w] # NoRequest
          /\ request[w].handler \in Recorders
          /\ RecordStatus(w)
          /\ UNCHANGED vehicle
      BY <1>2 DEF CommitCustomsClearance, CommitMarkReadyForDelivery,
                  CommitMarkDelivered, CommitCancel, Serving, Recorders,
                  Handlers
    <2>2. vehicle' \in [Vehicles -> Vehicle]
      BY <2>1 DEF TypeInv, TypeOK
    <2>3. QED
      BY <2>1, <2>2, RecordStatusInv
  <1>3. QED
    BY <1>1, <1>2

LEMMA CommitUpdateInv ==
    ASSUME TypeInv, NEW w \in Workers, CommitUpdate(w)
    PROVE  TypeInv'
  <1>1. /\ request' \in [Workers -> InFlight \cup {NoRequest}]
        /\ RequestsOK'
    BY RequestAnswered DEF CommitUpdate
  <1>2. /\ request[w].shipment \in Shipments
        /\ request[w].target \in ShipmentStatus \cup {Unset}
    BY DEF CommitUpdate, Serving, TypeInv, TypeOK, InFlight
  <1>3. status' \in [Shipments -> RowStatus]
    BY <1>2 DEF CommitUpdate, writtenStatus, TypeInv, TypeOK, RowStatus
  <1>4. facts' \in [Shipments -> SUBSET Facts]
    BY <1>2 DEF CommitUpdate, TypeInv, TypeOK
  <1>5. withdrawn' \in [Workers -> SUBSET (Vehicles \cup Facts)]
    <2>1. PICK f : TakeBack(request[w].shipment,
                            facts[request[w].shipment] \ f)
      BY DEF CommitUpdate
    <2>2. facts[request[w].shipment] \ f \subseteq Vehicles \cup Facts
      BY <1>2 DEF TypeInv, TypeOK
    <2>3. QED
      BY <2>1, <2>2, WithdrawnType
  <1>6. QED
    BY <1>1, <1>3, <1>4, <1>5 DEF CommitUpdate, TypeInv, TypeOK

LEMMA CommitRemoveInv ==
    ASSUME TypeInv, NEW w \in Workers, CommitRemove(w)
    PROVE  TypeInv'
  <1>1. /\ request' \in [Workers -> InFlight \cup {NoRequest}]
        /\ RequestsOK'
    BY RequestAnswered DEF CommitRemove, Answer
  <1>2. request[w].shipment \in Shipments
    BY DEF CommitRemove, Serving, TypeInv, TypeOK, InFlight
  <1>3. withdrawn' \in [Workers -> SUBSET (Vehicles \cup Facts)]
    BY WithdrawnType DEF CommitRemove, Answer
  <1>4. QED
    BY <1>1, <1>2, <1>3 DEF CommitRemove, TypeInv, TypeOK, RowStatus

LEMMA RollbackInv ==
    ASSUME TypeInv, NEW w \in Workers, Rollback(w)
    PROVE  TypeInv'
  <1>1. withdrawn' \in [Workers -> SUBSET (Vehicles \cup Facts)]
    BY WithdrawnType DEF Rollback, Answer
  <1>2. QED
    BY <1>1, RequestAnswered DEF Rollback, Answer, TypeInv, TypeOK, database

LEMMA NotifyInv ==
    ASSUME TypeInv, NEW w \in Workers, NotifyShipmentStatusChange(w)
    PROVE  TypeInv'
  <1>1. /\ request' \in [Workers -> InFlight \cup {NoRequest}]
        /\ RequestsOK'
    BY RequestAnswered DEF NotifyShipmentStatusChange, Answer
  <1>2. withdrawn' \in [Workers -> SUBSET (Vehicles \cup Facts)]
    BY WithdrawnType DEF NotifyShipmentStatusChange, Answer
  <1>3. untold' \in [Shipments -> SUBSET controlledWorkflowStatuses]
    BY DEF NotifyShipmentStatusChange, TypeInv, TypeOK
  <1>4. QED
    BY <1>1, <1>2, <1>3
       DEF NotifyShipmentStatusChange, TypeInv, TypeOK, database

LEMMA FailInv ==
    ASSUME TypeInv, NEW w \in Workers, Fail(w)
    PROVE  TypeInv'
  <1>1. withdrawn' \in [Workers -> SUBSET (Vehicles \cup Facts)]
    BY WithdrawnType DEF Fail, Answer
  <1>2. untold' \in [Shipments -> SUBSET controlledWorkflowStatuses]
    BY DEF Fail, EndWithError, TypeInv, TypeOK
  <1>3. QED
    BY <1>1, <1>2, RequestAnswered DEF Fail, Answer, TypeInv, TypeOK, database

LEMMA ServeInv ==
    ASSUME TypeInv, NEW w \in Workers, Serve(w)
    PROVE  TypeInv'
  BY AssertReadyInv, CountInv, CommitInv, CommitUpdateInv, CommitRemoveInv,
     RollbackInv, NotifyInv
     DEF Serve

LEMMA EnvironmentInv ==
    ASSUME TypeInv, Environment
    PROVE  TypeInv'
  <1>0. ASSUME NEW s, NEW lost, lost \subseteq Vehicles \cup Facts,
               TakeBack(s, lost)
        PROVE  withdrawn' \in [Workers -> SUBSET (Vehicles \cup Facts)]
    BY <1>0, WithdrawnType
  <1> USE DEF TypeInv, TypeOK
  <1>1. CASE \E s \in Shipments, t \in CreateStatuses : Create(s, t)
    BY <1>1, ConstantsAssumption DEF Create, RowStatus, RequestsOK, history
  <1>2. ASSUME NEW v \in Vehicles, NEW from, NEW to,
               ApproveInspection(v, from, to)
        PROVE  TypeInv'
    <2>1. to \in VehicleStatus
      BY <1>2 DEF ApproveInspection, VehicleStatus
    <2>2. [vehicle[v] EXCEPT !.status = to] \in Vehicle
      BY <2>1 DEF Vehicle
    <2>3. vehicle' \in [Vehicles -> Vehicle]
      BY <1>2, <2>2 DEF ApproveInspection
    <2>4. QED
      BY <1>2, <2>3 DEF ApproveInspection, RequestsOK, history
  <1>3. ASSUME NEW v \in Vehicles, RevokeApproval(v)
        PROVE  TypeInv'
    <2>1. withdrawn' \in [Workers -> SUBSET (Vehicles \cup Facts)]
      BY <1>0, <1>3 DEF RevokeApproval
    <2>2. QED
      BY <1>3, <2>1 DEF RevokeApproval, RequestsOK
  <1>4. CASE \E s \in Shipments : UploadDocument(s)
    BY <1>4 DEF UploadDocument, RequestsOK, history
  <1>5. ASSUME NEW s \in Shipments, RemoveDocument(s)
        PROVE  TypeInv'
    <2>1. "hasDocument" \in Facts
      BY <1>5 DEF RemoveDocument
    <2>2. withdrawn' \in [Workers -> SUBSET (Vehicles \cup Facts)]
      BY <1>0, <1>5, <2>1 DEF RemoveDocument
    <2>3. QED
      BY <1>5, <2>2 DEF RemoveDocument, RequestsOK
  <1>6. CASE \E w \in Workers : Fail(w)
    BY <1>6, FailInv
  <1>7. CASE Crash
    BY <1>7 DEF Crash, EndWithError, RequestsOK, database
  <1>8. QED
    BY <1>1, <1>2, <1>3, <1>4, <1>5, <1>6, <1>7 DEF Environment

LEMMA InitInv == Init => TypeInv
  BY ConstantsAssumption
     DEF Init, TypeInv, TypeOK, RequestsOK, RowStatus, ShipmentStatus,
         Vehicle, VehicleStatus

LEMMA NextInv == TypeInv /\ [Next]_vars => TypeInv'
  <1> SUFFICES ASSUME TypeInv, [Next]_vars
               PROVE  TypeInv'
    OBVIOUS
  <1>1. CASE UNCHANGED vars
    BY <1>1 DEF vars, database, history, TypeInv, TypeOK, RequestsOK
  <1>2. QED
    BY <1>1, ArriveInv, ServeInv, EnvironmentInv DEF Next

\* Every variable keeps its type, and every request in flight asks for a
\* status its handler may ask for: no handler can write a status that was
\* left out of the dto.
THEOREM TypeCorrect == Spec => [](TypeOK /\ RequestsOK)
  <1>1. QED
    BY InitInv, NextInv, PTL DEF Spec, TypeInv

-----------------------------------------------------------------------------
(* The vehicles of a shipment move together *)

\* What a handler that moves vehicles knows when it writes: the number it
\* counted is the number of active vehicles, and it is not zero.  It is what
\* makes the comparison with the rows changed an all-or-nothing test.
CountOK(r) ==
    r.handler \in Movers /\ r.phase = "writing" =>
        /\ activeVehicles(r.shipment) # {}
        /\ r.counted = Cardinality(activeVehicles(r.shipment))

CountsOK == \A w \in Workers : request[w] # NoRequest => CountOK(request[w])

FleetInv == TypeInv /\ CountsOK /\ FleetFollowsLog

\* A step that leaves the log, the vehicles' place and their status alone.
LEMMA LogKept ==
    ASSUME FleetFollowsLog, UNCHANGED <<vehicle, events>>
    PROVE  FleetFollowsLog'
  BY DEF FleetFollowsLog, fleetAt, activeVehicles

LEMMA CountsKept ==
    ASSUME FleetInv, NEW w \in Workers, NEW r,
           request' = [request EXCEPT ![w] = r],
           r # NoRequest => CountOK(r),
           \A s : activeVehicles(s)' = activeVehicles(s)
    PROVE  CountsOK'
  <1>1. ASSUME NEW u \in Workers, request'[u] # NoRequest
        PROVE  CountOK(request'[u])
    BY <1>1 DEF FleetInv, TypeInv, TypeOK, CountsOK
  <1>2. ASSUME NEW u \in Workers
        PROVE  CountOK(request[u])' <=> CountOK(request'[u])
    BY DEF CountOK
  <1>3. QED
    BY <1>1, <1>2 DEF CountsOK

LEMMA ArriveFleet ==
    ASSUME FleetInv, NEW w \in Workers, NEW s \in Shipments, Arrive(w, s)
    PROVE  FleetInv'
  <1> USE DEF ShipmentStatus, controlledWorkflowStatuses
  <1>1. PICK h, t, p : /\ Begin(w, h, s, t, p)
                       /\ h \in Movers => p # "writing"
    <2>1. CASE \E t \in ShipmentStatus : BeginDispatch(w, s, t)
      BY <2>1 DEF BeginDispatch, BeginTransition, readinessProtectedStatuses
    <2>2. CASE BeginMarkArrived(w, s)
      BY <2>2 DEF BeginMarkArrived, BeginTransition, readinessProtectedStatuses
    <2>3. CASE \/ BeginCustomsClearance(w, s) \/ BeginMarkReadyForDelivery(w, s)
               \/ BeginMarkDelivered(w, s) \/ BeginCancel(w, s)
      BY <2>3 DEF BeginCustomsClearance, BeginMarkReadyForDelivery,
                  BeginMarkDelivered, BeginCancel, BeginTransition, Movers
    <2>4. CASE \E t \in ShipmentStatus \cup {Unset} : BeginUpdate(w, s, t)
      BY <2>4 DEF BeginUpdate, Movers
    <2>5. CASE BeginRemove(w, s)
      BY <2>5 DEF BeginRemove, Movers
    <2>6. QED
      BY <2>1, <2>2, <2>3, <2>4, <2>5 DEF Arrive
  <1> DEFINE r == [phase |-> p, handler |-> h, shipment |-> s, target |-> t,
                   counted |-> 0]
  <1>2. /\ request' = [request EXCEPT ![w] = r]
        /\ UNCHANGED <<vehicle, events>>
    BY <1>1 DEF Begin, database
  <1>3. CountOK(r)
    BY <1>1 DEF CountOK
  <1>4. \A z : activeVehicles(z)' = activeVehicles(z)
    BY <1>2 DEF activeVehicles
  <1>5. CountsOK'
    BY <1>2, <1>3, <1>4, CountsKept
  <1>6. QED
    BY <1>2, <1>5, ArriveInv, LogKept DEF FleetInv

\* A request that is answered knows nothing any more.
LEMMA AnswerFleet ==
    ASSUME FleetInv, NEW w \in Workers,
           request' = [request EXCEPT ![w] = NoRequest],
           \A s : activeVehicles(s)' = activeVehicles(s)
    PROVE  CountsOK'
  BY CountsKept

\* Counting is what establishes CountOK; no phase before it claims anything.
LEMMA QuietStepsFleet ==
    ASSUME FleetInv, NEW w \in Workers,
           \/ AssertReadyForStatus(w) \/ CountActiveVehicles(w) \/ Rollback(w)
           \/ CommitUpdate(w) \/ NotifyShipmentStatusChange(w) \/ Fail(w)
    PROVE  FleetInv'
  <1>1. UNCHANGED <<vehicle, events>>
    BY DEF AssertReadyForStatus, CountActiveVehicles, Rollback, CommitUpdate,
           NotifyShipmentStatusChange, Fail, database
  <1>2. \A z : activeVehicles(z)' = activeVehicles(z)
    BY <1>1 DEF activeVehicles
  <1>3. ASSUME request' = [request EXCEPT ![w] = NoRequest] PROVE CountsOK'
    BY <1>2, <1>3, AnswerFleet
  <1>4. ASSUME AssertReadyForStatus(w), ~Answer(w) PROVE CountsOK'
    <2> DEFINE p == IF request[w].handler \in {"dispatch", "arrival"}
                    THEN "counting" ELSE "writing"
               r == [request[w] EXCEPT !.phase = p]
    <2>1. request' = [request EXCEPT ![w] = r]
      BY <1>4 DEF AssertReadyForStatus, Proceed
    <2>2. request[w] \in InFlight
      BY <1>4 DEF AssertReadyForStatus, FleetInv, TypeInv, TypeOK
    <2>3. r.phase = p /\ r.handler = request[w].handler
      BY <2>2 DEF InFlight
    <2>4. CountOK(r)
      BY <2>3 DEF CountOK, Movers
    <2>5. QED
      BY <1>2, <2>1, <2>4, CountsKept
  <1>5. ASSUME CountActiveVehicles(w), ~Answer(w) PROVE CountsOK'
    <2> DEFINE n == Cardinality(activeVehicles(request[w].shipment))
               r == [request[w] EXCEPT !.phase = "writing", !.counted = n]
    <2>1. /\ request[w] \in InFlight
          /\ activeVehicles(request[w].shipment) # {}
      BY <1>5 DEF CountActiveVehicles, FleetInv, TypeInv, TypeOK
    <2>2. request' = [request EXCEPT ![w] = r]
      BY <1>5 DEF CountActiveVehicles, FleetInv, TypeInv, TypeOK
    <2>3. /\ r.shipment = request[w].shipment
          /\ r.counted = n
      BY <2>1 DEF InFlight
    <2>4. CountOK(r)
      BY <2>1, <2>3 DEF CountOK
    <2>5. QED
      BY <1>2, <2>2, <2>4, CountsKept
  <1>6. CountsOK'
    BY <1>3, <1>4, <1>5
       DEF Rollback, CommitUpdate, NotifyShipmentStatusChange, Fail, Answer
  <1>7. TypeInv'
    BY AssertReadyInv, CountInv, RollbackInv, CommitUpdateInv, NotifyInv,
       FailInv
       DEF FleetInv
  <1>8. QED
    BY <1>1, <1>6, <1>7, LogKept DEF FleetInv

\* After a commit the request only has the notification left.
LEMMA NotifyingCounts ==
    ASSUME FleetInv, NEW w \in Workers, request[w] # NoRequest,
           Proceed(w, "notifying"),
           \A s : activeVehicles(s)' = activeVehicles(s)
    PROVE  CountsOK'
  <1> DEFINE r == [request[w] EXCEPT !.phase = "notifying"]
  <1>1. request[w] \in InFlight
    BY DEF FleetInv, TypeInv, TypeOK
  <1>2. r.phase = "notifying"
    BY <1>1 DEF InFlight
  <1>3. CountOK(r)
    BY <1>2 DEF CountOK
  <1>4. request' = [request EXCEPT ![w] = r]
    BY DEF Proceed
  <1>5. QED
    BY <1>3, <1>4, CountsKept

\* The endpoints that leave the vehicles alone log no milestone.
LEMMA StationaryCommitFleet ==
    ASSUME FleetInv, NEW w \in Workers,
           \/ CommitCustomsClearance(w) \/ CommitMarkReadyForDelivery(w)
           \/ CommitMarkDelivered(w) \/ CommitCancel(w)
    PROVE  FleetInv'
  <1> DEFINE s == request[w].shipment
             t == request[w].target
  <1>1. /\ request[w] # NoRequest
        /\ request[w].handler \in Recorders \ Movers
        /\ RecordStatus(w)
        /\ UNCHANGED vehicle
    BY DEF CommitCustomsClearance, CommitMarkReadyForDelivery,
           CommitMarkDelivered, CommitCancel, Serving, Recorders, Movers,
           Handlers
  <1>2. s \in Shipments /\ t \in controlledWorkflowStatuses \ Milestones
    BY <1>1 DEF FleetInv, TypeInv, TypeOK, RequestsOK, RequestOK, TargetOK,
                InFlight
  <1>3. \A z : activeVehicles(z)' = activeVehicles(z)
    BY <1>1 DEF activeVehicles
  <1>4. ASSUME NEW z \in Shipments, NEW m \in Milestones
        PROVE  events'[z][m] = events[z][m]
    BY <1>1, <1>2 DEF RecordStatus, FleetInv, TypeInv, TypeOK
  <1>5. FleetFollowsLog'
    BY <1>1, <1>3, <1>4 DEF FleetInv, FleetFollowsLog, fleetAt, Milestones
  <1>6. CountsOK'
    BY <1>1, <1>3, NotifyingCounts DEF RecordStatus
  <1>7. TypeInv'
    BY CommitInv DEF FleetInv
  <1>8. QED
    BY <1>5, <1>6, <1>7 DEF FleetInv

\* The rows changed are as many as the active vehicles: they are all of them.
LEMMA MovedAll ==
    ASSUME FleetInv, NEW w \in Workers, request[w] # NoRequest,
           request[w].handler \in Movers, request[w].phase = "writing",
           movedAsCounted(w)
    PROVE  /\ movedVehicles(w) = activeVehicles(request[w].shipment)
           /\ movedVehicles(w) # {}
  <1> DEFINE A == activeVehicles(request[w].shipment)
  <1>1. A # {} /\ request[w].counted = Cardinality(A)
    BY DEF FleetInv, CountsOK, CountOK
  <1>2. movedVehicles(w) \subseteq A /\ IsFiniteSet(A)
    BY ActiveVehiclesFinite DEF movedVehicles
  <1>3. Cardinality(movedVehicles(w)) = Cardinality(A)
    BY <1>1 DEF movedAsCounted
  <1>4. movedVehicles(w) = A
    BY <1>2, <1>3, FS_Subset
  <1>5. QED
    BY <1>1, <1>4

LEMMA MovingCommitFleet ==
    ASSUME FleetInv, NEW w \in Workers,
           CommitDispatch(w) \/ CommitMarkArrived(w)
    PROVE  FleetInv'
  <1>1. /\ request[w] # NoRequest
        /\ request[w].phase = "writing"
        /\ request[w].handler \in Movers
        /\ MoveVehicles(w)
        /\ RecordStatus(w)
    BY DEF CommitDispatch, CommitMarkArrived, Serving, Movers
  <1>2. PICK s \in Shipments, t \in Milestones :
            s = request[w].shipment /\ t = request[w].target
    BY <1>1 DEF FleetInv, TypeInv, TypeOK, RequestsOK, RequestOK, TargetOK,
                InFlight, Movers, Milestones
  <1>3. /\ movedVehicles(w) = activeVehicles(s)
        /\ activeVehicles(s) # {}
    BY <1>1, <1>2, MovedAll DEF MoveVehicles
  <1>4. PICK v0 \in activeVehicles(s) :
            vehicle[v0].status = requiredVehicleStatus(t)
    BY <1>2, <1>3 DEF movedVehicles
  <1>5. ASSUME NEW v \in Vehicles
        PROVE  /\ vehicle'[v].shipment = vehicle[v].shipment
               /\ vehicle'[v].isActive = vehicle[v].isActive
               /\ v \in activeVehicles(s) => vehicle'[v].status = t
               /\ v \notin activeVehicles(s) => vehicle'[v] = vehicle[v]
    BY <1>1, <1>2, <1>3 DEF MoveVehicles, FleetInv, TypeInv, TypeOK, Vehicle
  <1>6. ASSUME NEW z
        PROVE  activeVehicles(z)' = activeVehicles(z)
    BY <1>5 DEF activeVehicles
  <1>7. /\ events'[s][t] = events[s][t] + 1
        /\ \A m \in Milestones \ {t} : events'[s][m] = events[s][m]
        /\ \A z \in Shipments \ {s} : events'[z] = events[z]
    BY <1>1, <1>2 DEF RecordStatus, FleetInv, TypeInv, TypeOK, Milestones,
                      controlledWorkflowStatuses
  <1>8. ASSUME NEW z \in Shipments \ {s}
        PROVE  \A v \in activeVehicles(z) : vehicle'[v] = vehicle[v]
    BY <1>5 DEF activeVehicles
  <1>9. ASSUME NEW S, NEW l, NEW d, NEW a, NEW z \in Shipments \ {s},
               fleetAt(z, S, l, d, a)
        PROVE  fleetAt(z, S, l, d, a)'
    BY <1>6, <1>7, <1>8, <1>9 DEF fleetAt
  <1>10. \/ t = "LOADED" /\ fleetAt(s, {"LOADED"}, 1, 0, 0)'
         \/ t = "IN_TRANSIT" /\ fleetAt(s, {"IN_TRANSIT"}, 1, 1, 0)'
         \/ t = "ARRIVED" /\ fleetAt(s, {"ARRIVED"}, 1, 1, 1)'
    <2>1. \A v \in activeVehicles(s)' : vehicle'[v].status = t
      BY <1>5, <1>6 DEF activeVehicles
    <2>2. CASE t = "LOADED"
      <3>1. vehicle[v0].status = "READY_FOR_LOADING"
        BY <1>4, <2>2 DEF requiredVehicleStatus
      <3>2. events[s]["LOADED"] = 0 /\ events[s]["IN_TRANSIT"] = 0
            /\ events[s]["ARRIVED"] = 0
        BY <1>2, <3>1 DEF FleetInv, FleetFollowsLog, fleetAt
      <3>3. QED
        BY <1>7, <2>1, <2>2, <3>2 DEF fleetAt, Milestones
    <2>3. CASE t = "IN_TRANSIT"
      <3>1. vehicle[v0].status = "LOADED"
        BY <1>4, <2>3 DEF requiredVehicleStatus
      <3>2. events[s]["LOADED"] = 1 /\ events[s]["IN_TRANSIT"] = 0
            /\ events[s]["ARRIVED"] = 0
        BY <1>2, <3>1 DEF FleetInv, FleetFollowsLog, fleetAt
      <3>3. QED
        BY <1>7, <2>1, <2>3, <3>2 DEF fleetAt, Milestones
    <2>4. CASE t = "ARRIVED"
      <3>1. vehicle[v0].status = "IN_TRANSIT"
        BY <1>4, <2>4 DEF requiredVehicleStatus
      <3>2. events[s]["LOADED"] = 1 /\ events[s]["IN_TRANSIT"] = 1
            /\ events[s]["ARRIVED"] = 0
        BY <1>2, <3>1 DEF FleetInv, FleetFollowsLog, fleetAt
      <3>3. QED
        BY <1>7, <2>1, <2>4, <3>2 DEF fleetAt, Milestones
    <2>5. QED
      BY <1>2, <2>2, <2>3, <2>4 DEF Milestones
  <1>11. FleetFollowsLog'
    BY <1>9, <1>10 DEF FleetInv, FleetFollowsLog
  <1>12. CountsOK'
    BY <1>1, <1>6, NotifyingCounts DEF RecordStatus
  <1>13. TypeInv'
    BY CommitInv DEF FleetInv
  <1>14. QED
    BY <1>11, <1>12, <1>13 DEF FleetInv

\* Only a shipment without vehicles is removed.
LEMMA RemoveFleet ==
    ASSUME FleetInv, NEW w \in Workers, CommitRemove(w)
    PROVE  FleetInv'
  <1> DEFINE s == request[w].shipment
  <1>1. /\ s \in Shipments
        /\ UNCHANGED vehicle
        /\ request' = [request EXCEPT ![w] = NoRequest]
    BY DEF CommitRemove, Answer, Serving, FleetInv, TypeInv, TypeOK, InFlight
  <1>2. \A z : activeVehicles(z)' = activeVehicles(z)
    BY <1>1 DEF activeVehicles
  <1>3. activeVehicles(s) = {}
    BY DEF CommitRemove, activeVehicles
  <1>4. /\ \A m \in Milestones : events'[s][m] = 0
        /\ \A z \in Shipments \ {s} : events'[z] = events[z]
    BY <1>1 DEF CommitRemove, FleetInv, TypeInv, TypeOK, Milestones,
                controlledWorkflowStatuses
  <1>5. FleetFollowsLog'
    BY <1>1, <1>2, <1>3, <1>4
       DEF FleetInv, FleetFollowsLog, fleetAt, Milestones
  <1>6. QED
    BY <1>1, <1>2, <1>5, AnswerFleet, CommitRemoveInv DEF FleetInv

\* Approvals move vehicles that are not loaded yet, one status on.
LEMMA EnvironmentFleet ==
    ASSUME FleetInv, Environment
    PROVE  FleetInv'
  <1>1. TypeInv'
    BY EnvironmentInv DEF FleetInv
  <1>2. ASSUME UNCHANGED <<vehicle, events, request>>
        PROVE  FleetInv'
    BY <1>1, <1>2, LogKept
       DEF FleetInv, CountsOK, CountOK, activeVehicles
  <1>3. ASSUME NEW v \in Vehicles, NEW from, NEW to,
               ApproveInspection(v, from, to)
        PROVE  FleetInv'
    <2> DEFINE before == {"RECEIVED", "INSPECTED", "READY_FOR_LOADING"}
    <2>1. /\ from \in before /\ to \in before
          /\ from \notin Milestones
      BY <1>3 DEF ApproveInspection, Milestones
    <2>2. ASSUME NEW u \in Vehicles
          PROVE  /\ vehicle'[u].shipment = vehicle[u].shipment
                 /\ vehicle'[u].isActive = vehicle[u].isActive
                 /\ \/ vehicle'[u].status = vehicle[u].status
                    \/ vehicle[u].status = from /\ vehicle'[u].status = to
      BY <1>3 DEF ApproveInspection, FleetInv, TypeInv, TypeOK, Vehicle
    <2>3. \A z : activeVehicles(z)' = activeVehicles(z)
      BY <2>2 DEF activeVehicles
    <2>4. UNCHANGED <<events, request>>
      BY <1>3 DEF ApproveInspection
    <2>5. CountsOK'
      BY <2>3, <2>4 DEF FleetInv, CountsOK, CountOK
    <2>6. \A z \in Shipments : \A u \in activeVehicles(z) :
              /\ vehicle[u].status \in before => vehicle'[u].status \in before
              /\ vehicle[u].status \in Milestones =>
                     vehicle'[u].status = vehicle[u].status
      BY <2>1, <2>2 DEF activeVehicles
    <2>7. FleetFollowsLog'
      BY <2>3, <2>4, <2>6 DEF FleetInv, FleetFollowsLog, fleetAt, Milestones
    <2>8. QED
      BY <1>1, <2>5, <2>7 DEF FleetInv
  <1>4. CASE Crash
    <2>1. UNCHANGED <<vehicle, events>> /\ request' = [w \in Workers |-> NoRequest]
      BY <1>4 DEF Crash, database
    <2>2. CountsOK'
      BY <2>1 DEF CountsOK
    <2>3. QED
      BY <1>1, <2>1, <2>2, LogKept DEF FleetInv
  <1>5. QED
    BY <1>2, <1>3, <1>4, QuietStepsFleet
       DEF Environment, Create, RevokeApproval, UploadDocument, RemoveDocument

LEMMA InitFleet == Init => FleetInv
  <1> SUFFICES ASSUME Init
               PROVE  FleetInv
    OBVIOUS
  <1>1. CountsOK
    BY DEF Init, CountsOK
  <1>2. FleetFollowsLog
    BY DEF Init, FleetFollowsLog, fleetAt, activeVehicles,
           controlledWorkflowStatuses
  <1>3. QED
    BY <1>1, <1>2, InitInv DEF FleetInv

LEMMA NextFleet == FleetInv /\ [Next]_vars => FleetInv'
  <1> SUFFICES ASSUME FleetInv, [Next]_vars
               PROVE  FleetInv'
    OBVIOUS
  <1>1. CASE UNCHANGED vars
    <2>1. UNCHANGED <<vehicle, events, request>>
      BY <1>1 DEF vars, database
    <2>2. TypeInv'
      BY NextInv DEF FleetInv
    <2>3. QED
      BY <2>1, <2>2, LogKept DEF FleetInv, CountsOK, CountOK, activeVehicles
  <1>2. ASSUME NEW w \in Workers, Serve(w)
        PROVE  FleetInv'
    BY <1>2, QuietStepsFleet, StationaryCommitFleet, MovingCommitFleet,
       RemoveFleet
       DEF Serve
  <1>3. QED
    BY <1>1, <1>2, ArriveFleet, EnvironmentFleet DEF Next

\* However many requests race for a shipment, and whatever each of them found
\* when it was checked, loading, departure and arrival are each logged at most
\* once and in this order, and all its active vehicles stand where the log
\* says.  The statuses of the shipment itself play no part in the argument:
\* they are written without a test, the vehicles are not.
THEOREM FleetFollowsLogAlways == Spec => []FleetFollowsLog
  <1>1. FleetInv => FleetFollowsLog
    BY DEF FleetInv
  <1>2. QED
    BY <1>1, InitFleet, NextFleet, PTL DEF Spec

-----------------------------------------------------------------------------
(* Every step in one of five kinds, by what it does to status and log *)

Commits(w) ==
    \/ CommitDispatch(w) \/ CommitMarkArrived(w)
    \/ CommitCustomsClearance(w) \/ CommitMarkReadyForDelivery(w)
    \/ CommitMarkDelivered(w) \/ CommitCancel(w)

LEMMA CommitsRecord ==
    ASSUME TypeInv, NEW w \in Workers, Commits(w)
    PROVE  /\ request[w] # NoRequest /\ request[w] \in InFlight
           /\ request[w].phase = "writing"
           /\ request[w].handler \in Recorders
           /\ request[w].shipment \in Shipments
           /\ request[w].target \in controlledWorkflowStatuses
           /\ RecordStatus(w)
           /\ request[w].target = "LOADED" => CommitDispatch(w)
  <1>1. /\ request[w] # NoRequest /\ request[w].phase = "writing"
        /\ request[w].handler \in Recorders
        /\ RecordStatus(w)
    BY DEF Commits, CommitDispatch, CommitMarkArrived, CommitCustomsClearance,
           CommitMarkReadyForDelivery, CommitMarkDelivered, CommitCancel,
           Serving, Recorders, Handlers
  <1>2. request[w] \in InFlight /\ RequestOK(request[w])
    BY <1>1 DEF TypeInv, TypeOK, RequestsOK
  <1>3. request[w].target \in controlledWorkflowStatuses
    BY <1>1, <1>2 DEF RequestOK, TargetOK, Recorders, Movers, Milestones,
                      controlledWorkflowStatuses
  <1>4. request[w].target = "LOADED" => request[w].handler = "dispatch"
    BY <1>1, <1>2 DEF RequestOK, TargetOK, Recorders, Movers, Milestones,
                      Handlers
  <1>5. request[w].handler = "dispatch" => CommitDispatch(w)
    BY DEF Commits, CommitDispatch, CommitMarkArrived, CommitCustomsClearance,
           CommitMarkReadyForDelivery, CommitMarkDelivered, CommitCancel,
           Serving
  <1>6. QED
    BY <1>1, <1>2, <1>3, <1>4, <1>5 DEF InFlight

Quiet(w) ==
    \/ AssertReadyForStatus(w) \/ CountActiveVehicles(w)
    \/ Rollback(w) \/ NotifyShipmentStatusChange(w) \/ Fail(w)

LEMMA QuietKeeps ==
    ASSUME NEW w \in Workers, Quiet(w)
    PROVE  UNCHANGED database
  BY DEF Quiet, AssertReadyForStatus, CountActiveVehicles, Rollback,
         NotifyShipmentStatusChange, Fail

LEMMA ArriveKeeps ==
    ASSUME NEW w \in Workers, NEW s \in Shipments, Arrive(w, s)
    PROVE  UNCHANGED database /\ UNCHANGED history
  BY DEF Arrive, BeginDispatch, BeginMarkArrived, BeginCustomsClearance,
         BeginMarkReadyForDelivery, BeginMarkDelivered, BeginCancel,
         BeginUpdate, BeginRemove, BeginTransition, Begin

Elsewhere ==
    \/ \E v \in Vehicles :
           \/ ApproveInspection(v, "RECEIVED", "INSPECTED")
           \/ ApproveInspection(v, "INSPECTED", "READY_FOR_LOADING")
           \/ RevokeApproval(v)
    \/ \E s \in Shipments : UploadDocument(s) \/ RemoveDocument(s)

LEMMA ElsewhereKeeps ==
    ASSUME Elsewhere
    PROVE  UNCHANGED <<status, events, request>>
  BY DEF Elsewhere, ApproveInspection, RevokeApproval, UploadDocument,
         RemoveDocument

\* The case split every proof below starts with.
LEMMA StepKinds ==
    ASSUME [Next]_vars
    PROVE  \/ \E w \in Workers, s \in Shipments : Arrive(w, s)
           \/ \E w \in Workers : Quiet(w) \/ Commits(w)
           \/ \E w \in Workers : CommitUpdate(w) \/ CommitRemove(w)
           \/ \E s \in Shipments, t \in CreateStatuses : Create(s, t)
           \/ Elsewhere
           \/ Crash
           \/ UNCHANGED vars
  BY DEF Next, Serve, Environment, Quiet, Commits, Elsewhere

-----------------------------------------------------------------------------
(* Vehicles and their shipments *)

\* No shipment handler moves a vehicle to another shipment.
LEMMA PlacesKept ==
    ASSUME TypeInv, Next, NEW v \in Vehicles
    PROVE  vehicle'[v].shipment = vehicle[v].shipment
  <1> USE DEF TypeInv, TypeOK
  <1>1. ASSUME NEW w \in Workers, Commits(w)
        PROVE  vehicle'[v].shipment = vehicle[v].shipment
    <2>1. MoveVehicles(w) \/ UNCHANGED vehicle
      BY <1>1 DEF Commits, CommitDispatch, CommitMarkArrived,
         CommitCustomsClearance, CommitMarkReadyForDelivery,
         CommitMarkDelivered, CommitCancel
    <2>2. QED
      BY <2>1 DEF MoveVehicles, Vehicle
  <1>2. ASSUME NEW w \in Workers, CommitUpdate(w) \/ CommitRemove(w)
        PROVE  UNCHANGED vehicle
    BY <1>2 DEF CommitUpdate, CommitRemove
  <1>3. ASSUME NEW r \in Shipments, NEW t \in CreateStatuses, Create(r, t)
        PROVE  UNCHANGED vehicle
    BY <1>3 DEF Create
  <1>4. ASSUME NEW u \in Vehicles, NEW from, NEW to,
               ApproveInspection(u, from, to)
        PROVE  vehicle'[v].shipment = vehicle[v].shipment
    BY <1>4 DEF ApproveInspection, Vehicle
  <1>5. ASSUME NEW u \in Vehicles, RevokeApproval(u)
        PROVE  UNCHANGED vehicle
    BY <1>5 DEF RevokeApproval
  <1>6. ASSUME NEW s \in Shipments, UploadDocument(s) \/ RemoveDocument(s)
        PROVE  UNCHANGED vehicle
    BY <1>6 DEF UploadDocument, RemoveDocument
  <1>7. QED
    BY <1>1, <1>2, <1>3, <1>4, <1>5, <1>6, StepKinds, ArriveKeeps, QuietKeeps
       DEF database, vars, Crash, Elsewhere

\* A shipment that a vehicle refers to goes on to exist.
LEMMA ReferredToStays ==
    ASSUME TypeInv, Next, NEW s \in Shipments, Exists(s),
           NEW v \in Vehicles, vehicle[v].shipment = s
    PROVE  Exists(s)'
  <1> USE DEF TypeInv, TypeOK
  <1>1. ASSUME NEW w \in Workers, Commits(w)
        PROVE  Exists(s)'
    BY <1>1, CommitsRecord
       DEF RecordStatus, Exists, controlledWorkflowStatuses, ShipmentStatus
  <1>2. ASSUME NEW w \in Workers, CommitUpdate(w)
        PROVE  Exists(s)'
    BY <1>2 DEF CommitUpdate, Serving, InFlight, writtenStatus, Exists
  <1>3. ASSUME NEW w \in Workers, CommitRemove(w)
        PROVE  Exists(s)'
    BY <1>3 DEF CommitRemove, Serving, InFlight, Exists
  <1>4. ASSUME NEW r \in Shipments, NEW t \in CreateStatuses, Create(r, t)
        PROVE  Exists(s)'
    BY <1>4 DEF Create, Exists, NotCreated, ShipmentStatus
  <1>5. QED
    BY <1>1, <1>2, <1>3, <1>4, StepKinds, ArriveKeeps, QuietKeeps,
       ElsewhereKeeps
       DEF database, vars, Crash, Exists

-----------------------------------------------------------------------------
(* A deleted shipment stays deleted *)

LEMMA DeletedStep ==
    ASSUME TypeInv, [Next]_vars, NEW s \in Shipments, status[s] = Deleted
    PROVE  status'[s] = Deleted /\ events'[s] = events[s]
  <1> USE DEF TypeInv, TypeOK
  <1>1. ASSUME NEW w \in Workers, Commits(w)
        PROVE  status'[s] = Deleted /\ events'[s] = events[s]
    BY <1>1, CommitsRecord DEF RecordStatus, Exists, Deleted, ShipmentStatus
  <1>2. ASSUME NEW w \in Workers, CommitUpdate(w) \/ CommitRemove(w)
        PROVE  status'[s] = Deleted /\ events'[s] = events[s]
    BY <1>2 DEF CommitUpdate, CommitRemove, Serving, Exists, Deleted,
                ShipmentStatus, InFlight
  <1>3. ASSUME NEW r \in Shipments, NEW t \in CreateStatuses, Create(r, t)
        PROVE  status'[s] = Deleted /\ events'[s] = events[s]
    BY <1>3 DEF Create, Deleted, NotCreated
  <1>4. QED
    BY <1>1, <1>2, <1>3, StepKinds, ArriveKeeps, QuietKeeps, ElsewhereKeeps
       DEF database, vars, Crash

\* The rows a shipment owns are not touched once it is deleted, whatever
\* handlers that had read it before still write.
LEMMA DeletedFacts ==
    ASSUME TypeInv, [Next]_vars, NEW s \in Shipments, status[s] = Deleted,
           facts[s] = {}
    PROVE  facts'[s] = {}
  <1> USE DEF TypeInv, TypeOK
  <1>1. ASSUME NEW w \in Workers, Commits(w)
        PROVE  facts'[s] = {}
    BY <1>1, CommitsRecord DEF RecordStatus
  <1>2. ASSUME NEW w \in Workers, CommitUpdate(w) \/ CommitRemove(w)
        PROVE  facts'[s] = {}
    BY <1>2 DEF CommitUpdate, CommitRemove, Serving, Exists, Deleted,
                ShipmentStatus, InFlight
  <1>3. ASSUME NEW r \in Shipments, NEW t \in CreateStatuses, Create(r, t)
        PROVE  facts'[s] = {}
    BY <1>3 DEF Create, Deleted, NotCreated
  <1>4. ASSUME Elsewhere
        PROVE  facts'[s] = {}
    BY <1>4 DEF Elsewhere, ApproveInspection, RevokeApproval, UploadDocument,
                RemoveDocument, Exists, Deleted, ShipmentStatus
  <1>5. QED
    BY <1>1, <1>2, <1>3, <1>4, StepKinds, ArriveKeeps, QuietKeeps
       DEF database, vars, Crash

DeletedEmpty == \A s \in Shipments : status[s] = Deleted => facts[s] = {}

LEMMA DeletedEmptyStep ==
    ASSUME TypeInv, DeletedEmpty, [Next]_vars
    PROVE  DeletedEmpty'
  <1> SUFFICES ASSUME NEW s \in Shipments, status'[s] = Deleted
               PROVE  facts'[s] = {}
    BY DEF DeletedEmpty
  <1> USE DEF TypeInv, TypeOK
  <1>1. CASE status[s] = Deleted
    BY <1>1, DeletedFacts DEF DeletedEmpty
  <1>2. CASE status[s] # Deleted
    <2>1. ASSUME NEW w \in Workers, Commits(w)
          PROVE  FALSE
      BY <1>2, <2>1, CommitsRecord
         DEF RecordStatus, Deleted, controlledWorkflowStatuses
    <2>2. ASSUME NEW w \in Workers, CommitUpdate(w)
          PROVE  FALSE
      BY <1>2, <2>2 DEF CommitUpdate, writtenStatus, Serving, Exists, Deleted,
                        ShipmentStatus, InFlight, Unset
    <2>3. ASSUME NEW w \in Workers, CommitRemove(w)
          PROVE  facts'[s] = {}
      BY <1>2, <2>3 DEF CommitRemove, Serving, InFlight
    <2>4. ASSUME NEW r \in Shipments, NEW t \in CreateStatuses, Create(r, t)
          PROVE  FALSE
      BY <1>2, <2>4, ConstantsAssumption DEF Create, Deleted, ShipmentStatus
    <2>5. QED
      BY <1>2, <2>1, <2>2, <2>3, <2>4, StepKinds, ArriveKeeps, QuietKeeps,
         ElsewhereKeeps
         DEF database, vars, Crash
  <1>3. QED
    BY <1>1, <1>2

\* Nothing of a deleted shipment comes back, for any number of handlers that
\* read the shipment before it was deleted.
THEOREM DeletedStaysDeletedAlways == Spec => DeletedStaysDeleted
  <1>1. Init => TypeInv /\ DeletedEmpty
    BY InitInv DEF Init, DeletedEmpty, Deleted, NotCreated
  <1>2. TypeInv /\ DeletedEmpty /\ [Next]_vars => (TypeInv /\ DeletedEmpty)'
    BY NextInv, DeletedEmptyStep
  <1>3. ASSUME TypeInv, DeletedEmpty, [Next]_vars
        PROVE  [\A s \in Shipments : status[s] = Deleted =>
                   status'[s] = Deleted /\ events'[s] = events[s]
                                        /\ facts'[s] = facts[s]]_vars
    BY <1>3, DeletedStep, DeletedFacts DEF DeletedEmpty
  <1>4. QED
    BY <1>1, <1>2, <1>3, PTL DEF Spec, DeletedStaysDeleted

-----------------------------------------------------------------------------
(* An operational status was logged *)

Logged(s, t) == status[s] = Deleted \/ events[s][t] > 0

\* An update that carries an operational status carries the one it found.
UpdatesLogged ==
    \A w \in Workers :
        /\ request[w] # NoRequest
        /\ request[w].handler = "update"
        /\ request[w].target \in controlledWorkflowStatuses
        => Logged(request[w].shipment, request[w].target)

LogInv == TypeInv /\ StatusHasEvent /\ UpdatesLogged

LEMMA LoggedKept ==
    ASSUME TypeInv, [Next]_vars, NEW s \in Shipments,
           NEW t \in controlledWorkflowStatuses, Logged(s, t)
    PROVE  Logged(s, t)'
  <1> USE DEF TypeInv, TypeOK
  <1>1. CASE status[s] = Deleted
    BY <1>1, DeletedStep DEF Logged
  <1>2. CASE status[s] # Deleted
    <2>1. events[s][t] \in Nat /\ events[s][t] > 0
      BY <1>2 DEF Logged
    <2>2. ASSUME NEW w \in Workers, Commits(w)
          PROVE  events'[s][t] > 0
      <3>1. PICK r \in Shipments, u \in controlledWorkflowStatuses :
                events' = [events EXCEPT ![r][u] = @ + 1]
        BY <2>2, CommitsRecord DEF RecordStatus
      <3>2. events'[s][t] \in {events[s][t], events[s][t] + 1}
        BY <3>1
      <3>3. QED
        BY <2>1, <3>2
    <2>3. ASSUME NEW w \in Workers, CommitUpdate(w)
          PROVE  events'[s][t] > 0
      BY <2>1, <2>3 DEF CommitUpdate
    <2>4. ASSUME NEW w \in Workers, CommitRemove(w)
          PROVE  status'[s] = Deleted \/ events'[s][t] > 0
      BY <2>1, <2>4 DEF CommitRemove, Serving, InFlight
    <2>5. ASSUME NEW r \in Shipments, NEW u \in CreateStatuses, Create(r, u)
          PROVE  events'[s][t] > 0
      BY <2>1, <2>5 DEF Create
    <2>6. QED
      BY <2>1, <2>2, <2>3, <2>4, <2>5, StepKinds, ArriveKeeps, QuietKeeps,
         ElsewhereKeeps
         DEF Logged, database, vars, Crash
  <1>3. QED
    BY <1>1, <1>2

\* The shipment and the target of a request do not change while it is served.
LEMMA RequestsOfUpdates ==
    ASSUME LogInv, [Next]_vars, NEW w \in Workers,
           request'[w] # NoRequest, request'[w].handler = "update",
           request'[w].target \in controlledWorkflowStatuses
    PROVE  /\ request'[w].shipment \in Shipments
           /\ Logged(request'[w].shipment, request'[w].target)
  <1> USE DEF TypeInv, TypeOK
  <1>0. /\ TypeInv /\ StatusHasEvent /\ UpdatesLogged
        /\ request[w] \in InFlight \cup {NoRequest}
    BY DEF LogInv
  <1>1. CASE request'[w] = request[w]
    BY <1>0, <1>1 DEF UpdatesLogged, InFlight
  <1>2. ASSUME NEW s \in Shipments, Arrive(w, s), request[w] = NoRequest
        PROVE  /\ request'[w].shipment \in Shipments
               /\ Logged(request'[w].shipment, request'[w].target)
    <2>1. PICK t \in ShipmentStatus \cup {Unset} : BeginUpdate(w, s, t)
      BY <1>0, <1>2 DEF Arrive, BeginDispatch, BeginMarkArrived,
         BeginCustomsClearance, BeginMarkReadyForDelivery, BeginMarkDelivered,
         BeginCancel, BeginRemove, BeginTransition, Begin
    <2>2. /\ request'[w].shipment = s /\ request'[w].target = t
          /\ updateAccepts(s, t)
      BY <1>0, <2>1 DEF BeginUpdate, Begin
    <2>3. t = status[s]
      BY <2>2 DEF updateAccepts, Unset, controlledWorkflowStatuses
    <2>4. QED
      BY <1>0, <2>2, <2>3 DEF StatusHasEvent, Logged
  <1>3. ASSUME NEW v \in Workers, NEW s \in Shipments, Arrive(v, s)
        PROVE  request'[w] = request[w] \/ (v = w /\ request[w] = NoRequest)
    BY <1>0, <1>3 DEF Arrive, BeginDispatch, BeginMarkArrived,
       BeginCustomsClearance, BeginMarkReadyForDelivery, BeginMarkDelivered,
       BeginCancel, BeginUpdate, BeginRemove, BeginTransition, Begin
  <1>4. ASSUME NEW v \in Workers, Quiet(v) \/ Commits(v)
        PROVE  \/ request'[w] = request[w]
               \/ /\ request[w] # NoRequest
                  /\ request'[w].shipment = request[w].shipment
                  /\ request'[w].handler = request[w].handler
                  /\ request'[w].target = request[w].target
    <2>1. CASE Commits(v)
      <3>1. Proceed(v, "notifying") /\ request[v] # NoRequest
        BY <1>0, <2>1, CommitsRecord DEF RecordStatus
      <3>2. QED
        BY <1>0, <3>1 DEF Proceed, InFlight
    <2>2. CASE Quiet(v)
      <3>1. request[v] # NoRequest
        BY <2>2 DEF Quiet, AssertReadyForStatus, CountActiveVehicles,
           Rollback, NotifyShipmentStatusChange, Fail
      <3>2. \/ Answer(v)
            \/ Proceed(v, "counting") \/ Proceed(v, "writing")
            \/ \E n : request' = [request EXCEPT ![v].phase = "writing",
                                                 ![v].counted = n]
        BY <2>2 DEF Quiet, AssertReadyForStatus, CountActiveVehicles,
           Rollback, NotifyShipmentStatusChange, Fail
      <3>3. QED
        BY <1>0, <3>1, <3>2 DEF Answer, Proceed, InFlight
    <2>3. QED
      BY <1>4, <2>1, <2>2
  <1>5. ASSUME NEW v \in Workers, CommitUpdate(v) \/ CommitRemove(v)
        PROVE  request'[w] = request[w]
    BY <1>0, <1>5 DEF CommitUpdate, CommitRemove, Answer
  <1>6. Crash => request'[w] = NoRequest
    BY DEF Crash
  <1>7. ASSUME NEW s \in Shipments, NEW t \in CreateStatuses, Create(s, t)
        PROVE  request' = request
    BY <1>7 DEF Create
  <1>8. CASE /\ request[w] # NoRequest
             /\ request'[w].shipment = request[w].shipment
             /\ request'[w].handler = request[w].handler
             /\ request'[w].target = request[w].target
    BY <1>0, <1>8 DEF UpdatesLogged, InFlight
  <1>9. QED
    BY <1>1, <1>2, <1>3, <1>4, <1>5, <1>6, <1>7, <1>8, StepKinds,
       ElsewhereKeeps
       DEF vars

LEMMA StatusHasEventStep ==
    ASSUME LogInv, [Next]_vars, NEW s \in Shipments,
           CreateStatuses \cap controlledWorkflowStatuses = {},
           status'[s] \in controlledWorkflowStatuses
    PROVE  events'[s][status'[s]] > 0
  <1> USE DEF TypeInv, TypeOK
  <1>0. TypeInv /\ StatusHasEvent /\ UpdatesLogged
    BY DEF LogInv
  <1>1. CASE status'[s] = status[s]
    <2>1. Logged(s, status[s])
      BY <1>0, <1>1 DEF StatusHasEvent, Logged
    <2>2. Logged(s, status[s])'
      <3>1. PICK t \in controlledWorkflowStatuses : t = status[s]
        BY <1>1
      <3>2. Logged(s, t)'
        BY <1>0, <2>1, <3>1, LoggedKept
      <3>3. QED
        BY <1>1, <3>1, <3>2 DEF Logged
    <2>3. QED
      BY <1>1, <2>2 DEF Logged, Deleted, controlledWorkflowStatuses
  <1>2. CASE status'[s] # status[s]
    <2>1. ASSUME NEW w \in Workers, Commits(w)
          PROVE  events'[s][status'[s]] > 0
      <3>1. PICK r \in Shipments, t \in controlledWorkflowStatuses :
                /\ status' = [status EXCEPT ![r] = t]
                /\ events' = [events EXCEPT ![r][t] = @ + 1]
        BY <1>0, <2>1, CommitsRecord DEF RecordStatus
      <3>2. r = s /\ status'[s] = t /\ events'[s][t] = events[s][t] + 1
        BY <1>0, <1>2, <3>1
      <3>3. events[s][t] \in Nat
        BY <1>0
      <3>4. QED
        BY <3>2, <3>3
    <2>2. ASSUME NEW w \in Workers, CommitUpdate(w)
          PROVE  events'[s][status'[s]] > 0
      <3>1. /\ request[w] # NoRequest /\ request[w] \in InFlight
            /\ request[w].handler = "update"
            /\ Exists(request[w].shipment)
            /\ UNCHANGED events
        BY <1>0, <2>2 DEF CommitUpdate, Serving
      <3>2. request[w].shipment = s /\ request[w].target = status'[s]
        BY <1>0, <1>2, <2>2, <3>1 DEF CommitUpdate, writtenStatus, InFlight
      <3>3. Logged(s, status'[s])
        BY <1>0, <3>1, <3>2 DEF UpdatesLogged
      <3>4. QED
        BY <3>1, <3>2, <3>3 DEF Logged, Exists, Deleted, ShipmentStatus
    <2>3. ASSUME NEW w \in Workers, CommitRemove(w)
          PROVE  FALSE
      BY <1>0, <1>2, <2>3 DEF CommitRemove, Serving, InFlight, Deleted,
                              controlledWorkflowStatuses
    <2>4. ASSUME NEW r \in Shipments, NEW t \in CreateStatuses, Create(r, t)
          PROVE  FALSE
      BY <1>0, <1>2, <2>4 DEF Create
    <2>5. QED
      BY <1>2, <2>1, <2>2, <2>3, <2>4, StepKinds, ArriveKeeps, QuietKeeps,
         ElsewhereKeeps
         DEF database, vars, Crash
  <1>3. QED
    BY <1>1, <1>2

\* No handler leaves a shipment in an operational status that its tracking log
\* does not show, however the requests overlap, unless a caller created the
\* shipment in that status.
THEOREM StatusHasEventAlways ==
    ASSUME CreateStatuses \cap controlledWorkflowStatuses = {}
    PROVE  Spec => []StatusHasEvent
  <1>1. Init => LogInv
    BY InitInv DEF Init, LogInv, StatusHasEvent, UpdatesLogged, NotCreated,
                   controlledWorkflowStatuses
  <1>2. LogInv /\ [Next]_vars => LogInv'
    <2> SUFFICES ASSUME LogInv, [Next]_vars PROVE LogInv'
      OBVIOUS
    <2>1. TypeInv /\ TypeInv'
      BY NextInv DEF LogInv
    <2>2. StatusHasEvent'
      BY StatusHasEventStep DEF StatusHasEvent
    <2>3. UpdatesLogged'
      <3> SUFFICES ASSUME NEW w \in Workers, request'[w] # NoRequest,
                          request'[w].handler = "update",
                          request'[w].target \in controlledWorkflowStatuses
                   PROVE  Logged(request[w].shipment, request[w].target)'
        BY DEF UpdatesLogged
      <3>1. PICK s \in Shipments, t \in controlledWorkflowStatuses :
                /\ s = request'[w].shipment /\ t = request'[w].target
                /\ Logged(s, t)
        BY RequestsOfUpdates
      <3>2. Logged(s, t)'
        BY <2>1, <3>1, LoggedKept
      <3>3. QED
        BY <3>1, <3>2 DEF Logged
    <2>4. QED
      BY <2>1, <2>2, <2>3 DEF LogInv
  <1>3. QED
    BY <1>1, <1>2, PTL DEF Spec, LogInv

-----------------------------------------------------------------------------
(* A shipment is loaded ready *)

\* What a request that passed its readiness check goes on knowing: whatever
\* the shipment lacks by now was taken back since.
ReadyBut ==
    \A w \in Workers, s \in Shipments :
        reliesOnCheck(w, s) /\ Exists(s) => unready(s) \subseteq withdrawn[w]

\* A request is about a shipment that was registered.
Registered ==
    \A w \in Workers : request[w] # NoRequest =>
        status[request[w].shipment] # NotCreated

ReadyInv == TypeInv /\ Registered /\ ReadyBut

\* No step moves a vehicle to another shipment or deactivates it.
LEMMA FleetKept ==
    ASSUME TypeInv, [Next]_vars
    PROVE  \A s \in Shipments : activeVehicles(s)' = activeVehicles(s)
  <1> USE DEF TypeInv, TypeOK
  <1>1. ASSUME NEW w \in Workers, Commits(w)
        PROVE  \A s \in Shipments : activeVehicles(s)' = activeVehicles(s)
    <2>1. MoveVehicles(w) \/ UNCHANGED vehicle
      BY <1>1 DEF Commits, CommitDispatch, CommitMarkArrived,
         CommitCustomsClearance, CommitMarkReadyForDelivery,
         CommitMarkDelivered, CommitCancel
    <2>2. \A v \in Vehicles : /\ vehicle'[v].shipment = vehicle[v].shipment
                              /\ vehicle'[v].isActive = vehicle[v].isActive
      BY <2>1 DEF MoveVehicles, Vehicle
    <2>3. QED
      BY <2>2 DEF activeVehicles
  <1>2. ASSUME NEW v \in Vehicles, NEW from, NEW to,
               ApproveInspection(v, from, to)
        PROVE  \A s \in Shipments : activeVehicles(s)' = activeVehicles(s)
    <2>1. \A u \in Vehicles : /\ vehicle'[u].shipment = vehicle[u].shipment
                              /\ vehicle'[u].isActive = vehicle[u].isActive
      BY <1>2 DEF ApproveInspection, Vehicle
    <2>2. QED
      BY <2>1 DEF activeVehicles
  <1>3. UNCHANGED vehicle =>
            \A s \in Shipments : activeVehicles(s)' = activeVehicles(s)
    BY DEF activeVehicles
  <1>4. QED
    BY <1>1, <1>2, <1>3, StepKinds, ArriveKeeps, QuietKeeps
       DEF database, vars, Crash, Elsewhere, CommitUpdate, CommitRemove,
           Create, RevokeApproval, UploadDocument, RemoveDocument

\* Loading is logged by a handler that commits it.
LEMMA LoadedByCommit ==
    ASSUME TypeInv, [Next]_vars, NEW s \in Shipments,
           events'[s]["LOADED"] > events[s]["LOADED"]
    PROVE  \E w \in Workers : /\ Commits(w)
                             /\ request[w].shipment = s
                             /\ request[w].target = "LOADED"
  <1> USE DEF TypeInv, TypeOK
  <1>0. /\ "LOADED" \in controlledWorkflowStatuses
        /\ events[s]["LOADED"] \in Nat
    BY DEF controlledWorkflowStatuses
  <1>1. ASSUME NEW w \in Workers, Commits(w),
               ~(request[w].shipment = s /\ request[w].target = "LOADED")
        PROVE  events'[s]["LOADED"] = events[s]["LOADED"]
    <2>1. PICK r \in Shipments, t \in controlledWorkflowStatuses :
              r = request[w].shipment /\ t = request[w].target
      BY <1>1, CommitsRecord
    <2>2. events' = [events EXCEPT ![r][t] = @ + 1]
      BY <1>1, <2>1, CommitsRecord DEF RecordStatus
    <2>3. CASE r = s
      BY <1>0, <1>1, <2>1, <2>2, <2>3
    <2>4. CASE r # s
      BY <1>0, <2>2, <2>4
    <2>5. QED
      BY <2>3, <2>4
  <1>2. ASSUME NEW w \in Workers, CommitRemove(w)
        PROVE  FALSE
    BY <1>0, <1>2 DEF CommitRemove, Serving, InFlight
  <1>3. ~UNCHANGED events
    BY <1>0
  <1>4. QED
    BY <1>0, <1>1, <1>2, <1>3, StepKinds, ArriveKeeps, QuietKeeps,
       ElsewhereKeeps
       DEF database, vars, Crash, CommitUpdate, Create

\* A request comes to rely on a readiness check by passing it.
LEMMA ReliesAfterPassing ==
    ASSUME TypeInv, [Next]_vars, NEW w \in Workers, NEW s \in Shipments,
           reliesOnCheck(w, s)', ~reliesOnCheck(w, s)
    PROVE  AssertReadyForStatus(w) /\ isReady(s) /\ Exists(s)
  <1> USE DEF TypeInv, TypeOK
  <1>0. /\ request[w] \in InFlight \cup {NoRequest}
        /\ request'[w] # NoRequest
        /\ request'[w] # request[w]
        /\ request'[w].phase \in {"counting", "writing"}
        /\ request'[w].handler \notin {"update", "remove"}
        /\ request'[w].shipment = s
        /\ request'[w].target \in readinessProtectedStatuses
    BY DEF reliesOnCheck
  <1>1. ASSUME NEW v \in Workers, NEW r \in Shipments, Arrive(v, r)
        PROVE  FALSE
    <2>1. ASSUME NEW h, NEW t, NEW p, Begin(v, h, r, t, p)
          PROVE  /\ request'[w].phase = p
                 /\ request'[w].handler = h
                 /\ request'[w].target = t
      <3>1. v = w
        BY <1>0, <2>1 DEF Begin
      <3>2. request'[w] = [phase |-> p, handler |-> h, shipment |-> r,
                           target |-> t, counted |-> 0]
        BY <2>1, <3>1 DEF Begin
      <3>3. QED
        BY <3>2
    <2>2. ASSUME NEW h, NEW t, BeginTransition(v, h, r, t)
          PROVE  FALSE
      <3>1. CASE t \in readinessProtectedStatuses
        <4>1. Begin(v, h, r, t, "checking")
          BY <2>2, <3>1 DEF BeginTransition
        <4>2. QED
          BY <1>0, <2>1, <4>1
      <3>2. CASE t \notin readinessProtectedStatuses
        <4>1. Begin(v, h, r, t, "writing")
          BY <2>2, <3>2 DEF BeginTransition
        <4>2. QED
          BY <1>0, <2>1, <3>2, <4>1
      <3>3. QED
        BY <3>1, <3>2
    <2>3. ASSUME NEW t, BeginUpdate(v, r, t)
          PROVE  FALSE
      <3>1. Begin(v, "update", r, t, "writing")
        BY <2>3 DEF BeginUpdate
      <3>2. QED
        BY <1>0, <2>1, <3>1
    <2>4. ~BeginRemove(v, r)
      <3>1. ASSUME Begin(v, "remove", r, Unset, "writing") PROVE FALSE
        BY <1>0, <2>1, <3>1
      <3>2. QED
        BY <3>1 DEF BeginRemove
    <2>5. QED
      BY <1>1, <2>2, <2>3, <2>4
         DEF Arrive, BeginDispatch, BeginMarkArrived, BeginCustomsClearance,
             BeginMarkReadyForDelivery, BeginMarkDelivered, BeginCancel
  <1>2. ASSUME NEW v \in Workers, CountActiveVehicles(v)
        PROVE  FALSE
    <2>1. v = w /\ ~Answer(w)
      BY <1>0, <1>2 DEF CountActiveVehicles, Answer
    <2>2. /\ request[w] # NoRequest /\ request[w].phase = "counting"
          /\ \E n : request' = [request EXCEPT ![w].phase = "writing",
                                               ![w].counted = n]
      BY <1>2, <2>1 DEF CountActiveVehicles
    <2>3. /\ request'[w].shipment = request[w].shipment
          /\ request'[w].handler = request[w].handler
          /\ request'[w].target = request[w].target
      BY <1>0, <2>2 DEF InFlight
    <2>4. QED
      BY <1>0, <2>2, <2>3 DEF reliesOnCheck
  <1>3. ASSUME NEW v \in Workers, Commits(v)
        PROVE  FALSE
    <2>1. Proceed(v, "notifying") /\ request[v] # NoRequest
      BY <1>3, CommitsRecord DEF RecordStatus
    <2>2. QED
      BY <1>0, <2>1 DEF Proceed, InFlight
  <1>4. ASSUME NEW v \in Workers,
               \/ Rollback(v) \/ NotifyShipmentStatusChange(v) \/ Fail(v)
               \/ CommitUpdate(v) \/ CommitRemove(v)
        PROVE  FALSE
    BY <1>0, <1>4 DEF Rollback, NotifyShipmentStatusChange, Fail, CommitUpdate,
                      CommitRemove, Answer
  <1>5. ~Crash
    BY <1>0 DEF Crash
  <1>6. request' # request
    BY <1>0
  <1>7. PICK v \in Workers : AssertReadyForStatus(v)
    BY <1>1, <1>2, <1>3, <1>4, <1>5, <1>6, StepKinds, ElsewhereKeeps
       DEF Quiet, Create, vars
  <1>8. v = w /\ ~Answer(w)
    BY <1>0, <1>7 DEF AssertReadyForStatus, Proceed, Answer
  <1>9. /\ request[w] # NoRequest
        /\ Exists(request[w].shipment) /\ isReady(request[w].shipment)
        /\ Proceed(w, "counting") \/ Proceed(w, "writing")
    BY <1>7, <1>8 DEF AssertReadyForStatus
  <1>10. request'[w].shipment = request[w].shipment
    BY <1>0, <1>9 DEF Proceed, InFlight
  <1>11. QED
    BY <1>0, <1>7, <1>8, <1>9, <1>10

\* While a request relies on its check, what its shipment loses is recorded.
LEMMA LossesRecorded ==
    ASSUME TypeInv, [Next]_vars, NEW w \in Workers, NEW s \in Shipments,
           reliesOnCheck(w, s), reliesOnCheck(w, s)', Exists(s)',
           status[s] # NotCreated
    PROVE  /\ withdrawn[w] \subseteq withdrawn'[w]
           /\ unready(s)' \subseteq unready(s) \cup withdrawn'[w]
  <1> USE DEF TypeInv, TypeOK
  <1>0. /\ activeVehicles(s)' = activeVehicles(s)
        /\ request[w] # NoRequest /\ request'[w] # NoRequest
        /\ request[w] \in InFlight
        /\ activeVehicles(s) \subseteq Vehicles
    BY FleetKept DEF reliesOnCheck, activeVehicles
  <1>1. ASSUME facts[s] \subseteq facts'[s] \cup withdrawn'[w],
               cleared \subseteq cleared' \cup withdrawn'[w]
        PROVE  unready(s)' \subseteq unready(s) \cup withdrawn'[w]
    BY <1>0, <1>1 DEF unready
  <1>2. ASSUME NEW v \in Workers, Answer(v)
        PROVE  withdrawn'[w] = withdrawn[w]
    <2>1. v # w
      BY <1>0, <1>2 DEF Answer
    <2>2. QED
      BY <1>2, <2>1 DEF Answer
  <1>3. ASSUME NEW z, NEW lost, TakeBack(z, lost)
        PROVE  /\ withdrawn[w] \subseteq withdrawn'[w]
               /\ z = s => lost \subseteq withdrawn'[w]
    BY <1>3 DEF TakeBack
  <1>4. ASSUME NEW v \in Workers, Quiet(v)
        PROVE  UNCHANGED database /\ withdrawn'[w] = withdrawn[w]
    <2>1. UNCHANGED withdrawn \/ Answer(v)
      BY <1>4 DEF Quiet, AssertReadyForStatus, CountActiveVehicles, Rollback,
                  NotifyShipmentStatusChange, Fail, Proceed
    <2>2. QED
      BY <1>2, <1>4, <2>1, QuietKeeps
  <1>5. ASSUME NEW v \in Workers, Commits(v)
        PROVE  UNCHANGED <<facts, cleared, withdrawn>>
    BY <1>5, CommitsRecord DEF RecordStatus, Proceed
  <1>6. ASSUME NEW v \in Workers, CommitUpdate(v)
        PROVE  /\ UNCHANGED cleared
               /\ withdrawn[w] \subseteq withdrawn'[w]
               /\ facts[s] \subseteq facts'[s] \cup withdrawn'[w]
    <2> DEFINE z == request[v].shipment
    <2>1. PICK f \in SUBSET Facts : /\ facts' = [facts EXCEPT ![z] = f]
                                    /\ TakeBack(z, facts[z] \ f)
      BY <1>6 DEF CommitUpdate
    <2>2. UNCHANGED cleared
      BY <1>6 DEF CommitUpdate
    <2>3. CASE z = s
      BY <1>3, <2>1, <2>2, <2>3
    <2>4. CASE z # s
      BY <1>3, <2>1, <2>2, <2>4
    <2>5. QED
      BY <2>3, <2>4
  <1>7. ASSUME NEW v \in Workers, CommitRemove(v)
        PROVE  /\ UNCHANGED cleared
               /\ withdrawn'[w] = withdrawn[w]
               /\ facts'[s] = facts[s]
    <2>1. request[v].shipment # s
      BY <1>7 DEF CommitRemove, Exists, Deleted, ShipmentStatus
    <2>2. QED
      BY <1>2, <1>7, <2>1 DEF CommitRemove
  <1>8. ASSUME NEW z \in Shipments, NEW t \in CreateStatuses, Create(z, t),
               z # s
        PROVE  UNCHANGED <<cleared, withdrawn>> /\ facts'[s] = facts[s]
    BY <1>8 DEF Create, history
  <1>9. ASSUME NEW v \in Vehicles, NEW from, NEW to,
               ApproveInspection(v, from, to)
        PROVE  UNCHANGED <<facts, withdrawn>> /\ cleared \subseteq cleared'
    BY <1>9 DEF ApproveInspection, history
  <1>10. ASSUME NEW v \in Vehicles, RevokeApproval(v)
         PROVE  /\ withdrawn[w] \subseteq withdrawn'[w]
                /\ unready(s)' \subseteq unready(s) \cup withdrawn'[w]
    <2>1. /\ TakeBack(vehicle[v].shipment, {v})
          /\ cleared' = cleared \ {v}
          /\ UNCHANGED facts
      BY <1>10 DEF RevokeApproval
    <2>2. withdrawn[w] \subseteq withdrawn'[w]
      BY <1>3, <2>1
    <2>3. CASE vehicle[v].shipment = s
      <3>1. v \in withdrawn'[w]
        BY <1>3, <2>1, <2>3
      <3>2. QED
        BY <1>1, <2>1, <2>2, <3>1
    <2>4. CASE vehicle[v].shipment # s
      <3>1. v \notin activeVehicles(s)
        BY <2>4 DEF activeVehicles
      <3>2. QED
        BY <1>0, <2>1, <2>2, <3>1 DEF unready
    <2>5. QED
      BY <2>3, <2>4
  <1>11. ASSUME NEW z \in Shipments, UploadDocument(z)
         PROVE  UNCHANGED <<cleared, withdrawn>> /\ facts[s] \subseteq facts'[s]
    BY <1>11 DEF UploadDocument, history
  <1>12. ASSUME NEW z \in Shipments, RemoveDocument(z)
         PROVE  /\ UNCHANGED cleared
                /\ withdrawn[w] \subseteq withdrawn'[w]
                /\ facts[s] \subseteq facts'[s] \cup withdrawn'[w]
    <2>1. /\ TakeBack(z, {"hasDocument"})
          /\ facts' = [facts EXCEPT ![z] = @ \ {"hasDocument"}]
          /\ UNCHANGED cleared
      BY <1>12 DEF RemoveDocument
    <2>2. CASE z = s
      BY <1>3, <2>1, <2>2
    <2>3. CASE z # s
      BY <1>3, <2>1, <2>3
    <2>4. QED
      BY <2>2, <2>3
  <1>13. ~Crash
    BY <1>0 DEF Crash
  <1>14. ASSUME NEW t \in CreateStatuses, Create(s, t)
         PROVE  FALSE
    BY <1>14 DEF Create
  <1>15. QED
    BY <1>1, <1>4, <1>5, <1>6, <1>7, <1>8, <1>9, <1>10, <1>11, <1>12, <1>13,
       <1>14, StepKinds, ArriveKeeps
       DEF database, history, vars, Elsewhere

\* A registered row that exists after a step existed before it.
LEMMA RegisteredExists ==
    ASSUME TypeInv, [Next]_vars, NEW s \in Shipments, Exists(s)',
           status[s] # NotCreated
    PROVE  Exists(s)
  <1>1. status[s] # Deleted
    BY DeletedStep DEF Exists, Deleted, ShipmentStatus, vars
  <1>2. QED
    BY <1>1 DEF Exists, TypeInv, TypeOK, RowStatus

LEMMA RegisteredStep ==
    ASSUME ReadyInv, [Next]_vars
    PROVE  Registered'
  <1> SUFFICES ASSUME NEW w \in Workers, request'[w] # NoRequest
               PROVE  status'[request'[w].shipment] # NotCreated
    BY DEF Registered
  <1> USE DEF TypeInv, TypeOK
  <1>0. /\ TypeInv /\ TypeInv' /\ Registered
        /\ request[w] \in InFlight \cup {NoRequest}
        /\ request'[w] \in InFlight
    BY NextInv DEF ReadyInv
  <1>1. \A s \in Shipments : status[s] # NotCreated => status'[s] # NotCreated
    <2>1. ASSUME NEW s \in Shipments, NEW v \in Workers, Commits(v),
                 status[s] # NotCreated
          PROVE  status'[s] # NotCreated
      BY <1>0, <2>1, CommitsRecord
         DEF RecordStatus, NotCreated, controlledWorkflowStatuses
    <2>2. ASSUME NEW s \in Shipments, NEW v \in Workers, CommitUpdate(v),
                 status[s] # NotCreated
          PROVE  status'[s] # NotCreated
      <3>1. /\ request[v].target \in ShipmentStatus \cup {Unset}
            /\ status' = [status EXCEPT ![request[v].shipment] =
                             writtenStatus(request[v].shipment,
                                           request[v].target)]
        BY <1>0, <2>2 DEF CommitUpdate, Serving, InFlight
      <3>2. QED
        BY <1>0, <2>2, <3>1 DEF writtenStatus, NotCreated, ShipmentStatus
    <2>3. ASSUME NEW s \in Shipments, NEW v \in Workers, CommitRemove(v),
                 status[s] # NotCreated
          PROVE  status'[s] # NotCreated
      BY <1>0, <2>3 DEF CommitRemove, Deleted, NotCreated
    <2>4. ASSUME NEW s \in Shipments, NEW z \in Shipments,
                 NEW t \in CreateStatuses, Create(z, t), status[s] # NotCreated
          PROVE  status'[s] # NotCreated
      BY <1>0, <2>4 DEF Create
    <2>5. QED
      BY <2>1, <2>2, <2>3, <2>4, StepKinds, ArriveKeeps, QuietKeeps,
         ElsewhereKeeps
         DEF database, vars, Crash
  <1>2. CASE request[w] # NoRequest /\ request'[w].shipment = request[w].shipment
    BY <1>0, <1>1, <1>2 DEF Registered, InFlight
  <1>3. ASSUME NEW v \in Workers, NEW s \in Shipments, Arrive(v, s)
        PROVE  \/ request'[w] = request[w]
               \/ request'[w].shipment = s /\ Exists(s)
    <2>1. ASSUME NEW h, NEW t, NEW p, Begin(v, h, s, t, p)
          PROVE  \/ request'[w] = request[w]
                 \/ request'[w].shipment = s /\ Exists(s)
      <3>1. CASE v # w
        BY <1>0, <2>1, <3>1 DEF Begin
      <3>2. CASE v = w
        <4>1. request'[w] = [phase |-> p, handler |-> h, shipment |-> s,
                             target |-> t, counted |-> 0]
          BY <1>0, <2>1, <3>2 DEF Begin
        <4>2. QED
          BY <2>1, <4>1 DEF Begin
      <3>3. QED
        BY <3>1, <3>2
    <2>2. QED
      BY <1>3, <2>1
         DEF Arrive, BeginDispatch, BeginMarkArrived, BeginCustomsClearance,
             BeginMarkReadyForDelivery, BeginMarkDelivered, BeginCancel,
             BeginTransition, BeginUpdate, BeginRemove
  <1>4. ASSUME NEW v \in Workers, NEW r, request' = [request EXCEPT ![v] = r],
               v = w => /\ request[w] # NoRequest
                        /\ r # NoRequest => r.shipment = request[w].shipment
        PROVE  request[w] # NoRequest /\ request'[w].shipment = request[w].shipment
    BY <1>0, <1>4
  <1>5. ASSUME NEW v \in Workers, NEW p, request[v] # NoRequest, Proceed(v, p)
        PROVE  request[w] # NoRequest /\ request'[w].shipment = request[w].shipment
    <2>1. v = w => [request[v] EXCEPT !.phase = p].shipment = request[w].shipment
      BY <1>0, <1>5 DEF InFlight
    <2>2. request' = [request EXCEPT ![v] = [request[v] EXCEPT !.phase = p]]
      BY <1>5 DEF Proceed
    <2>3. QED
      BY <1>4, <1>5, <2>1, <2>2
  <1>6. ASSUME NEW v \in Workers, request' = [request EXCEPT ![v] = NoRequest]
        PROVE  request[w] # NoRequest /\ request'[w].shipment = request[w].shipment
    BY <1>0, <1>6
  <1>7. ASSUME NEW v \in Workers, CountActiveVehicles(v)
        PROVE  request[w] # NoRequest /\ request'[w].shipment = request[w].shipment
    <2>1. CASE Answer(v)
      BY <1>6, <2>1 DEF Answer
    <2>2. CASE ~Answer(v)
      <3> DEFINE n == Cardinality(activeVehicles(request[v].shipment))
                 r == [request[v] EXCEPT !.phase = "writing", !.counted = n]
      <3>1. request[v] \in InFlight /\ request[v] # NoRequest
        BY <1>0, <1>7 DEF CountActiveVehicles
      <3>2. request' = [request EXCEPT ![v] = r]
        BY <1>0, <1>7, <2>2 DEF CountActiveVehicles
      <3>3. r.shipment = request[v].shipment
        BY <3>1 DEF InFlight
      <3>4. QED
        BY <1>4, <3>1, <3>2, <3>3
    <2>3. QED
      BY <2>1, <2>2
  <1>8. ASSUME NEW v \in Workers, Quiet(v) \/ Commits(v) \/ CommitUpdate(v)
                                  \/ CommitRemove(v)
        PROVE  request[w] # NoRequest /\ request'[w].shipment = request[w].shipment
    <2>1. CASE Quiet(v)
      BY <1>5, <1>6, <1>7, <2>1
         DEF Quiet, AssertReadyForStatus, Rollback, NotifyShipmentStatusChange,
             Fail, Answer
    <2>2. CASE Commits(v)
      BY <1>0, <1>5, <2>2, CommitsRecord DEF RecordStatus
    <2>3. CASE CommitUpdate(v) \/ CommitRemove(v)
      BY <1>6, <2>3 DEF CommitUpdate, CommitRemove, Answer
    <2>4. QED
      BY <1>8, <2>1, <2>2, <2>3
  <1>9. CASE UNCHANGED request
    BY <1>0, <1>1, <1>9 DEF Registered, InFlight
  <1>10. CASE \E v \in Workers, s \in Shipments : Arrive(v, s)
    BY <1>0, <1>1, <1>3, <1>10, ArriveKeeps
       DEF Registered, Exists, NotCreated, ShipmentStatus, database, InFlight
  <1>11. ~Crash
    BY DEF Crash
  <1>12. QED
    BY <1>2, <1>8, <1>9, <1>10, <1>11, StepKinds, ElsewhereKeeps
       DEF vars, Create

\* Although readiness is checked before the transaction, any number of
\* requests overlap and anybody may revoke, reopen, edit and remove in
\* between: what a shipment lacks when its loading is logged was taken back
\* after the request that loads it had passed its own check.
THEOREM LoadedShipmentWasReadyAlways == Spec => LoadedShipmentWasReady
  <1>1. Init => ReadyInv
    BY InitInv DEF Init, ReadyInv, Registered, ReadyBut, reliesOnCheck
  <1>2. ReadyInv /\ [Next]_vars => ReadyInv'
    <2> SUFFICES ASSUME ReadyInv, [Next]_vars PROVE ReadyInv'
      OBVIOUS
    <2>1. TypeInv /\ TypeInv' /\ Registered'
      BY NextInv, RegisteredStep DEF ReadyInv
    <2>2. ASSUME NEW w \in Workers, NEW s \in Shipments,
                 reliesOnCheck(w, s)', Exists(s)'
          PROVE  unready(s)' \subseteq withdrawn'[w]
      <3>1. CASE reliesOnCheck(w, s)
        <4>1. status[s] # NotCreated
          BY <3>1 DEF ReadyInv, Registered, reliesOnCheck
        <4>2. /\ withdrawn[w] \subseteq withdrawn'[w]
              /\ unready(s)' \subseteq unready(s) \cup withdrawn'[w]
          BY <2>1, <2>2, <3>1, <4>1, LossesRecorded
        <4>3. Exists(s)
          BY <2>1, <2>2, <3>1, <4>1, RegisteredExists
        <4>4. unready(s) \subseteq withdrawn[w]
          BY <3>1, <4>3 DEF ReadyInv, ReadyBut
        <4>5. QED
          BY <4>2, <4>4
      <3>2. CASE ~reliesOnCheck(w, s)
        <4>1. AssertReadyForStatus(w) /\ isReady(s)
          BY <2>1, <2>2, <3>2, ReliesAfterPassing
        <4>2. unready(s) = {}
          BY <4>1 DEF isReady, unready
        <4>3. unready(s)' = unready(s)
          BY <4>1 DEF AssertReadyForStatus, database, unready, activeVehicles
        <4>4. QED
          BY <4>2, <4>3
      <3>3. QED
        BY <3>1, <3>2
    <2>3. ReadyBut'
      BY <2>2 DEF ReadyBut
    <2>4. QED
      BY <2>1, <2>3 DEF ReadyInv
  <1>3. ASSUME ReadyInv, [Next]_vars
        PROVE  [\A s \in Shipments :
                    events'[s]["LOADED"] > events[s]["LOADED"] =>
                        \E w \in Workers :
                            /\ request[w] # NoRequest /\ request[w].shipment = s
                            /\ request'[w] # request[w]
                            /\ unready(s) \subseteq withdrawn[w]]_vars
    <2> SUFFICES ASSUME ReadyInv, [Next]_vars, NEW s \in Shipments,
                        events'[s]["LOADED"] > events[s]["LOADED"]
                 PROVE  \E w \in Workers :
                            /\ request[w] # NoRequest /\ request[w].shipment = s
                            /\ request'[w] # request[w]
                            /\ unready(s) \subseteq withdrawn[w]
      BY <1>3
    <2>1. PICK w \in Workers : /\ Commits(w)
                              /\ request[w].shipment = s
                              /\ request[w].target = "LOADED"
      BY LoadedByCommit DEF ReadyInv
    <2>2. /\ request[w] # NoRequest /\ request[w] \in InFlight
          /\ request[w].phase = "writing"
          /\ request[w].handler \in Recorders
          /\ RecordStatus(w)
      BY <2>1, CommitsRecord DEF ReadyInv
    <2>3. reliesOnCheck(w, s)
      BY <2>1, <2>2 DEF reliesOnCheck, Recorders, readinessProtectedStatuses
    <2>4. unready(s) \subseteq withdrawn[w]
      BY <2>1, <2>2, <2>3 DEF RecordStatus, ReadyInv, ReadyBut
    <2>5. request'[w] # request[w]
      BY <2>2 DEF RecordStatus, Proceed, ReadyInv, TypeInv, TypeOK, InFlight
    <2>6. QED
      BY <2>1, <2>2, <2>4, <2>5
  <1>4. QED
    BY <1>1, <1>2, <1>3, PTL DEF Spec, LoadedShipmentWasReady

-----------------------------------------------------------------------------
(* Requests served one after the other *)

OneAtATime == \A v, w \in Workers : v = w

\* What a request was accepted for is still allowed when it writes.
StillAllowed(r) ==
    /\ Exists(r.shipment)
    /\ r.handler \in Recorders =>
           isShipmentTransitionAllowed(status[r.shipment], r.target)
    /\ r.handler = "update" => updateAccepts(r.shipment, r.target)

SerialInv ==
    \A w \in Workers :
        request[w] # NoRequest /\ request[w].phase # "notifying" =>
            StillAllowed(request[w])

SerialTypeInv == TypeInv /\ SerialInv

-----------------------------------------------------------------------------
(* The invariant *)

\* A worker that has answered, or only has to notify, promises nothing.
LEMMA SerialDone ==
    ASSUME OneAtATime, TypeInv, NEW w \in Workers,
           \/ request' = [request EXCEPT ![w] = NoRequest]
           \/ request[w] # NoRequest /\ Proceed(w, "notifying")
    PROVE  SerialInv'
  <1>1. request[w] \in InFlight \cup {NoRequest}
    BY DEF TypeInv, TypeOK
  <1>2. request'[w] = NoRequest \/ request'[w].phase = "notifying"
    BY <1>1 DEF Proceed, InFlight, TypeInv, TypeOK
  <1>3. QED
    BY <1>2 DEF OneAtATime, SerialInv

\* A request that goes on with the same shipment in the same status.
LEMMA SerialGoesOn ==
    ASSUME OneAtATime, SerialTypeInv, NEW w \in Workers,
           request[w] # NoRequest, request[w].phase # "notifying",
           request'[w].shipment = request[w].shipment,
           request'[w].handler = request[w].handler,
           request'[w].target = request[w].target,
           UNCHANGED status
    PROVE  SerialInv'
  <1>1. StillAllowed(request[w])
    BY DEF SerialTypeInv, SerialInv
  <1>2. StillAllowed(request[w])'
    BY <1>1 DEF StillAllowed, Exists, updateAccepts
  <1>3. QED
    BY <1>2 DEF OneAtATime, SerialInv

LEMMA BeginSerial ==
    ASSUME OneAtATime, NEW w \in Workers, NEW s \in Shipments,
           TypeInv, Arrive(w, s)
    PROVE  SerialInv'
  <1>1. UNCHANGED status
    BY DEF Arrive, BeginDispatch, BeginMarkArrived, BeginCustomsClearance,
           BeginMarkReadyForDelivery, BeginMarkDelivered, BeginCancel,
           BeginUpdate, BeginRemove, BeginTransition, Begin, database
  <1>2. PICK h \in Handlers, t \in ShipmentStatus \cup {Unset},
             p \in {"checking", "writing"} :
            /\ Begin(w, h, s, t, p)
            /\ h \in Recorders => isShipmentTransitionAllowed(status[s], t)
            /\ h = "update" => updateAccepts(s, t)
    <2>1. ASSUME NEW t \in ShipmentStatus, NEW h \in Recorders,
                 BeginTransition(w, h, s, t)
          PROVE  \E p \in {"checking", "writing"} :
                    /\ Begin(w, h, s, t, p)
                    /\ isShipmentTransitionAllowed(status[s], t)
                    /\ h # "update"
      BY <2>1 DEF BeginTransition, Recorders
    <2>2. CASE \E t \in ShipmentStatus : BeginDispatch(w, s, t)
      BY <2>1, <2>2 DEF BeginDispatch, Recorders, Handlers
    <2>3. CASE BeginMarkArrived(w, s)
      BY <2>1, <2>3 DEF BeginMarkArrived, Recorders, Handlers, ShipmentStatus
    <2>4. CASE BeginCustomsClearance(w, s)
      BY <2>1, <2>4
         DEF BeginCustomsClearance, Recorders, Handlers, ShipmentStatus
    <2>5. CASE BeginMarkReadyForDelivery(w, s)
      BY <2>1, <2>5
         DEF BeginMarkReadyForDelivery, Recorders, Handlers, ShipmentStatus
    <2>6. CASE BeginMarkDelivered(w, s)
      BY <2>1, <2>6 DEF BeginMarkDelivered, Recorders, Handlers, ShipmentStatus
    <2>7. CASE BeginCancel(w, s)
      BY <2>1, <2>7 DEF BeginCancel, Recorders, Handlers, ShipmentStatus
    <2>8. CASE \E t \in ShipmentStatus \cup {Unset} : BeginUpdate(w, s, t)
      BY <2>8 DEF BeginUpdate, Recorders, Handlers
    <2>9. CASE BeginRemove(w, s)
      BY <2>9 DEF BeginRemove, Recorders, Handlers
    <2>10. QED
      BY <2>2, <2>3, <2>4, <2>5, <2>6, <2>7, <2>8, <2>9 DEF Arrive
  <1>3. /\ Exists(s)
        /\ request'[w].shipment = s
        /\ request'[w].handler = h
        /\ request'[w].target = t
    BY <1>2 DEF Begin, TypeInv, TypeOK
  <1>4. StillAllowed(request[w])'
    BY <1>1, <1>2, <1>3 DEF StillAllowed, Exists, updateAccepts
  <1>5. QED
    BY <1>4 DEF OneAtATime, SerialInv

LEMMA ServeSerial ==
    ASSUME OneAtATime, SerialTypeInv, NEW w \in Workers, Serve(w)
    PROVE  SerialInv'
  <1>1. request[w] \in InFlight \cup {NoRequest} /\ TypeInv
    BY DEF SerialTypeInv, TypeInv, TypeOK
  <1>2. CASE AssertReadyForStatus(w)
    <2>1. CASE Answer(w)
      BY <1>1, <2>1, SerialDone DEF Answer
    <2>2. CASE Proceed(w, "counting") \/ Proceed(w, "writing")
      <3>1. /\ request[w] # NoRequest /\ request[w].phase # "notifying"
            /\ request[w] \in InFlight
            /\ UNCHANGED status
        BY <1>1, <1>2 DEF AssertReadyForStatus, database
      <3>2. /\ request'[w].shipment = request[w].shipment
            /\ request'[w].handler = request[w].handler
            /\ request'[w].target = request[w].target
        BY <1>1, <2>2, <3>1 DEF Proceed, InFlight, TypeInv, TypeOK
      <3>3. QED
        BY <3>1, <3>2, SerialGoesOn
    <2>3. QED
      BY <1>2, <2>1, <2>2 DEF AssertReadyForStatus
  <1>3. CASE CountActiveVehicles(w)
    <2>1. CASE Answer(w)
      BY <1>1, <2>1, SerialDone DEF Answer
    <2>2. CASE ~Answer(w)
      <3>1. /\ request[w] # NoRequest /\ request[w].phase # "notifying"
            /\ request[w] \in InFlight
            /\ UNCHANGED status
        BY <1>1, <1>3 DEF CountActiveVehicles, database
      <3>2. PICK n : request' = [request EXCEPT ![w].phase = "writing",
                                                ![w].counted = n]
        BY <1>3, <2>2 DEF CountActiveVehicles
      <3>3. /\ request'[w].shipment = request[w].shipment
            /\ request'[w].handler = request[w].handler
            /\ request'[w].target = request[w].target
        BY <1>1, <3>1, <3>2 DEF InFlight, TypeInv, TypeOK
      <3>4. QED
        BY <3>1, <3>3, SerialGoesOn
    <2>3. QED
      BY <2>1, <2>2
  <1>4. CASE \/ CommitDispatch(w) \/ CommitMarkArrived(w)
             \/ CommitCustomsClearance(w) \/ CommitMarkReadyForDelivery(w)
             \/ CommitMarkDelivered(w) \/ CommitCancel(w)
    <2>1. request[w] # NoRequest /\ Proceed(w, "notifying")
      BY <1>4 DEF CommitDispatch, CommitMarkArrived, CommitCustomsClearance,
                  CommitMarkReadyForDelivery, CommitMarkDelivered,
                  CommitCancel, Serving, RecordStatus
    <2>2. QED
      BY <1>1, <2>1, SerialDone
  <1>5. CASE \/ CommitUpdate(w) \/ CommitRemove(w) \/ Rollback(w)
             \/ NotifyShipmentStatusChange(w)
    <2>1. request' = [request EXCEPT ![w] = NoRequest]
      BY <1>5 DEF CommitUpdate, CommitRemove, Rollback,
                  NotifyShipmentStatusChange, Answer
    <2>2. QED
      BY <1>1, <2>1, SerialDone
  <1>6. QED
    BY <1>2, <1>3, <1>4, <1>5 DEF Serve

\* Nothing but a request changes the status of a shipment that exists.
LEMMA EnvironmentSerial ==
    ASSUME OneAtATime, SerialTypeInv, Environment
    PROVE  SerialInv'
  <1>1. CASE Crash
    BY <1>1 DEF Crash, SerialInv
  <1>2. ASSUME UNCHANGED request,
               \A s \in Shipments : Exists(s) => status'[s] = status[s]
        PROVE  SerialInv'
    <2> SUFFICES ASSUME NEW w \in Workers, request[w] # NoRequest,
                        request[w].phase # "notifying"
                 PROVE  StillAllowed(request[w])'
      BY <1>2 DEF SerialInv
    <2>1. StillAllowed(request[w])
      BY DEF SerialTypeInv, SerialInv
    <2>2. request[w].shipment \in Shipments
      BY DEF SerialTypeInv, TypeInv, TypeOK, InFlight
    <2>3. status'[request[w].shipment] = status[request[w].shipment]
      BY <1>2, <2>1, <2>2 DEF StillAllowed
    <2>4. QED
      BY <1>2, <2>1, <2>3 DEF StillAllowed, Exists, updateAccepts
  <1>3. ASSUME NEW s \in Shipments, NEW t \in CreateStatuses, Create(s, t)
        PROVE  SerialInv'
    <2>1. \A r \in Shipments : Exists(r) => status'[r] = status[r]
      BY <1>3 DEF Create, Exists, NotCreated, ShipmentStatus, SerialTypeInv,
                  TypeInv, TypeOK
    <2>2. QED
      BY <1>2, <1>3, <2>1 DEF Create
  <1>4. ASSUME NEW v \in Vehicles, NEW from, NEW to,
               ApproveInspection(v, from, to) \/ RevokeApproval(v)
        PROVE  SerialInv'
    BY <1>2, <1>4 DEF ApproveInspection, RevokeApproval
  <1>5. ASSUME NEW s \in Shipments, UploadDocument(s) \/ RemoveDocument(s)
        PROVE  SerialInv'
    BY <1>2, <1>5 DEF UploadDocument, RemoveDocument
  <1>6. CASE \E w \in Workers : Fail(w)
    BY <1>6, SerialDone DEF Fail, Answer, SerialTypeInv
  <1>7. QED
    BY <1>1, <1>3, <1>4, <1>5, <1>6 DEF Environment

LEMMA SerialAlways ==
    ASSUME OneAtATime
    PROVE  Spec => []SerialTypeInv
  <1>1. Init => SerialTypeInv
    BY InitInv DEF Init, SerialTypeInv, SerialInv
  <1>2. SerialTypeInv /\ [Next]_vars => SerialTypeInv'
    <2> SUFFICES ASSUME SerialTypeInv, [Next]_vars PROVE SerialTypeInv'
      OBVIOUS
    <2>1. TypeInv'
      BY NextInv DEF SerialTypeInv
    <2>2. CASE \E w \in Workers, s \in Shipments : Arrive(w, s)
      BY <2>1, <2>2, BeginSerial DEF SerialTypeInv
    <2>3. CASE \E w \in Workers : Serve(w)
      BY <2>1, <2>3, ServeSerial DEF SerialTypeInv
    <2>4. CASE Environment
      BY <2>1, <2>4, EnvironmentSerial DEF SerialTypeInv
    <2>5. CASE UNCHANGED vars
      BY <2>1, <2>5 DEF vars, database, SerialTypeInv, SerialInv, StillAllowed,
                        Exists, updateAccepts
    <2>6. QED
      BY <2>2, <2>3, <2>4, <2>5 DEF Next
  <1>3. QED
    BY <1>1, <1>2, PTL DEF Spec

-----------------------------------------------------------------------------
(* The refinement *)

\* Both modules read the same table.
LEMMA SameTables ==
    /\ Lifecycle!ShipmentStatus = ShipmentStatus
    /\ Lifecycle!NotCreated = NotCreated
    /\ Lifecycle!Deleted = Deleted
    /\ Lifecycle!controlledWorkflowStatuses = controlledWorkflowStatuses
    /\ \A x, t : Lifecycle!isShipmentTransitionAllowed(x, t)
                    <=> isShipmentTransitionAllowed(x, t)
  BY DEF Lifecycle!ShipmentStatus, Lifecycle!NotCreated, Lifecycle!Deleted,
         Lifecycle!controlledWorkflowStatuses,
         Lifecycle!isShipmentTransitionAllowed,
         Lifecycle!SHIPMENT_WORKFLOW_TRANSITIONS,
         ShipmentStatus, NotCreated, Deleted, controlledWorkflowStatuses,
         isShipmentTransitionAllowed, SHIPMENT_WORKFLOW_TRANSITIONS

LEMMA RecordAdvances ==
    ASSUME SerialTypeInv, NEW w \in Workers, request[w] # NoRequest,
           request[w].phase = "writing", request[w].handler \in Recorders,
           RecordStatus(w)
    PROVE  Lifecycle!Next
  <1>1. PICK s \in Shipments, t \in ShipmentStatus \cup {Unset} :
            s = request[w].shipment /\ t = request[w].target
    BY DEF SerialTypeInv, TypeInv, TypeOK, InFlight
  <1>2. RequestOK(request[w]) /\ StillAllowed(request[w])
    BY DEF SerialTypeInv, SerialInv, TypeInv, RequestsOK
  <1>3. t \in controlledWorkflowStatuses
    BY <1>1, <1>2 DEF RequestOK, TargetOK, Recorders, Movers, Milestones,
                      controlledWorkflowStatuses
  <1>4. t \in ShipmentStatus
    BY <1>3 DEF controlledWorkflowStatuses, ShipmentStatus
  <1>5. Lifecycle!Advance(s, t)
    BY <1>1, <1>2, <1>3, SameTables
       DEF RecordStatus, StillAllowed, Lifecycle!Advance
  <1>6. QED
    BY <1>4, <1>5, SameTables DEF Lifecycle!Next

LEMMA StepRefines ==
    SerialTypeInv /\ [Next]_vars => [Lifecycle!Next]_(Lifecycle!lifecycle)
  <1> SUFFICES ASSUME SerialTypeInv, [Next]_vars
               PROVE  [Lifecycle!Next]_(Lifecycle!lifecycle)
    OBVIOUS
  <1>0. status \in [Shipments -> RowStatus]
    BY DEF SerialTypeInv, TypeInv, TypeOK
  <1>1. ASSUME NEW w \in Workers, NEW s \in Shipments, Arrive(w, s)
        PROVE  UNCHANGED <<status, events>>
    BY <1>1 DEF Arrive, BeginDispatch, BeginMarkArrived, BeginCustomsClearance,
           BeginMarkReadyForDelivery, BeginMarkDelivered, BeginCancel,
           BeginUpdate, BeginRemove, BeginTransition, Begin, database
  <1>2. ASSUME NEW w \in Workers,
               \/ AssertReadyForStatus(w) \/ CountActiveVehicles(w)
               \/ Rollback(w) \/ NotifyShipmentStatusChange(w)
        PROVE  UNCHANGED <<status, events>>
    BY <1>2 DEF AssertReadyForStatus, CountActiveVehicles, Rollback,
                NotifyShipmentStatusChange, database
  <1>3. ASSUME NEW w \in Workers,
               \/ CommitDispatch(w) \/ CommitMarkArrived(w)
               \/ CommitCustomsClearance(w) \/ CommitMarkReadyForDelivery(w)
               \/ CommitMarkDelivered(w) \/ CommitCancel(w)
        PROVE  Lifecycle!Next
    <2>1. /\ request[w] # NoRequest /\ request[w].phase = "writing"
          /\ request[w].handler \in Recorders
          /\ RecordStatus(w)
      BY <1>3 DEF CommitDispatch, CommitMarkArrived, CommitCustomsClearance,
                  CommitMarkReadyForDelivery, CommitMarkDelivered,
                  CommitCancel, Serving, Recorders, Handlers
    <2>2. QED
      BY <2>1, RecordAdvances
  <1>4. ASSUME NEW w \in Workers, CommitUpdate(w)
        PROVE  Lifecycle!Next \/ UNCHANGED <<status, events>>
    <2>1. PICK s \in Shipments, t \in ShipmentStatus \cup {Unset} :
              s = request[w].shipment /\ t = request[w].target
      BY <1>4 DEF CommitUpdate, Serving, SerialTypeInv, TypeInv, TypeOK,
                  InFlight
    <2>2. updateAccepts(s, t)
      BY <1>4, <2>1 DEF CommitUpdate, Serving, SerialTypeInv, SerialInv,
                        StillAllowed
    <2>3. /\ status' = [status EXCEPT ![s] = writtenStatus(s, t)]
          /\ UNCHANGED events
      BY <1>4, <2>1 DEF CommitUpdate
    <2>4. CASE t \in {Unset, status[s]}
      BY <1>0, <2>3, <2>4 DEF writtenStatus
    <2>5. CASE t \notin {Unset, status[s]}
      <3>1. /\ t \in ShipmentStatus
            /\ t \notin controlledWorkflowStatuses
            /\ isShipmentTransitionAllowed(status[s], t)
            /\ status' = [status EXCEPT ![s] = t]
        BY <2>2, <2>3, <2>5 DEF updateAccepts, writtenStatus
      <3>2. Lifecycle!Prepare(s, t)
        BY <2>3, <3>1, SameTables DEF Lifecycle!Prepare
      <3>3. QED
        BY <3>1, <3>2, SameTables DEF Lifecycle!Next
    <2>6. QED
      BY <2>4, <2>5
  <1>5. ASSUME NEW w \in Workers, CommitRemove(w)
        PROVE  Lifecycle!Next
    <2>1. PICK s \in Shipments : s = request[w].shipment
      BY <1>5 DEF CommitRemove, Serving, SerialTypeInv, TypeInv, TypeOK,
                  InFlight
    <2>2. Lifecycle!Discard(s)
      BY <1>5, <2>1, SameTables DEF CommitRemove, Exists, Lifecycle!Discard,
                                    Lifecycle!emptyLog
    <2>3. QED
      BY <2>2 DEF Lifecycle!Next
  <1>6. ASSUME NEW s \in Shipments, NEW t \in CreateStatuses, Create(s, t)
        PROVE  Lifecycle!Next
    BY <1>6, SameTables DEF Create, Lifecycle!Next, Lifecycle!Open
  <1>7. ASSUME NEW v \in Vehicles, NEW from, NEW to,
               ApproveInspection(v, from, to) \/ RevokeApproval(v)
        PROVE  UNCHANGED <<status, events>>
    BY <1>7 DEF ApproveInspection, RevokeApproval
  <1>8. ASSUME NEW s \in Shipments, UploadDocument(s) \/ RemoveDocument(s)
        PROVE  UNCHANGED <<status, events>>
    BY <1>8 DEF UploadDocument, RemoveDocument
  <1>9. Crash \/ (\E w \in Workers : Fail(w)) => UNCHANGED <<status, events>>
    BY DEF Crash, Fail, database
  <1>10. UNCHANGED vars => UNCHANGED <<status, events>>
    BY DEF vars, database
  <1>11. Lifecycle!Next \/ UNCHANGED <<status, events>>
    BY <1>1, <1>2, <1>3, <1>4, <1>5, <1>6, <1>7, <1>8, <1>9, <1>10
       DEF Next, Serve, Environment
  <1>12. QED
    BY <1>11 DEF Lifecycle!lifecycle

\* Served one at a time, the handlers implement the lifecycle: together, a
\* readiness check, a count, the transaction and the notification behave as
\* one step along the workflow table that is logged in the same moment.
THEOREM SerialImplementsLifecycle ==
    ASSUME OneAtATime
    PROVE  Spec => ImplementsLifecycle
  <1>1. Init => Lifecycle!Init
    BY SameTables DEF Init, Lifecycle!Init, Lifecycle!emptyLog
  <1>2. QED
    BY <1>1, SerialAlways, StepRefines, PTL
       DEF Spec, ImplementsLifecycle, Lifecycle!Spec

-----------------------------------------------------------------------------
(* The contract: the log is the way travelled *)

\* The operational statuses shipment s has entries for.
logged(s) == {t \in Lifecycle!controlledWorkflowStatuses : events[s][t] > 0}

\* What the log of s says is the way to status x.
LogMatches(s, x) ==
    IF x = "CANCELLED"
    THEN logged(s) \in {{"CANCELLED"}, {"LOADED", "CANCELLED"}}
    ELSE logged(s) = Lifecycle!passedBefore(x)

Once(s) == \A t \in Lifecycle!controlledWorkflowStatuses : events[s][t] <= 1

LifecycleInv ==
    /\ Lifecycle!LifecycleTypeOK
    /\ \A s \in Shipments : Once(s) /\ LogMatches(s, status[s])

\* A step into an operational status appends that status to the way.
LEMMA WayGrows ==
    ASSUME NEW x \in Lifecycle!RowStatus, NEW t \in Lifecycle!controlledWorkflowStatuses,
           Lifecycle!isShipmentTransitionAllowed(x, t)
    PROVE  /\ x # "CANCELLED"
           /\ t \notin Lifecycle!passedBefore(x)
           /\ t # "CANCELLED" =>
                  Lifecycle!passedBefore(t) = Lifecycle!passedBefore(x) \cup {t}
           /\ t = "CANCELLED" => Lifecycle!passedBefore(x) \in {{}, {"LOADED"}}
  BY DEF Lifecycle!isShipmentTransitionAllowed, Lifecycle!SHIPMENT_WORKFLOW_TRANSITIONS,
         Lifecycle!passedBefore, Lifecycle!controlledWorkflowStatuses

\* Any other step leaves from and leads to a status with an empty way.
LEMMA WayEmpty ==
    ASSUME NEW x \in Lifecycle!RowStatus, NEW t \in Lifecycle!ShipmentStatus,
           t \notin Lifecycle!controlledWorkflowStatuses,
           Lifecycle!isShipmentTransitionAllowed(x, t)
    PROVE  /\ x # "CANCELLED"
           /\ Lifecycle!passedBefore(x) = {} /\ Lifecycle!passedBefore(t) = {}
  BY DEF Lifecycle!isShipmentTransitionAllowed, Lifecycle!SHIPMENT_WORKFLOW_TRANSITIONS,
         Lifecycle!passedBefore, Lifecycle!controlledWorkflowStatuses

LEMMA AdvanceInv ==
    ASSUME LifecycleInv, NEW s \in Shipments, NEW t \in Lifecycle!ShipmentStatus,
           Lifecycle!Advance(s, t)
    PROVE  LifecycleInv'
  <1>1. /\ t \in Lifecycle!controlledWorkflowStatuses
        /\ status[s] \in Lifecycle!RowStatus
        /\ status' = [status EXCEPT ![s] = t]
        /\ events' = [events EXCEPT ![s][t] = @ + 1]
        /\ status \in [Shipments -> Lifecycle!RowStatus]
        /\ events \in [Shipments -> [Lifecycle!controlledWorkflowStatuses -> Nat]]
    BY DEF Lifecycle!Advance, LifecycleInv, Lifecycle!LifecycleTypeOK
  <1>2. Lifecycle!LifecycleTypeOK'
    BY <1>1 DEF Lifecycle!LifecycleTypeOK, Lifecycle!RowStatus
  <1>3. /\ status[s] # "CANCELLED"
        /\ t \notin Lifecycle!passedBefore(status[s])
        /\ t # "CANCELLED" =>
               Lifecycle!passedBefore(t) = Lifecycle!passedBefore(status[s]) \cup {t}
        /\ t = "CANCELLED" => Lifecycle!passedBefore(status[s]) \in {{}, {"LOADED"}}
    BY <1>1, WayGrows DEF Lifecycle!Advance
  <1>4. Once(s) /\ logged(s) = Lifecycle!passedBefore(status[s])
    BY <1>3 DEF LifecycleInv, LogMatches
  <1>5. events[s][t] = 0
    <2>1. t \notin logged(s)
      BY <1>3, <1>4
    <2>2. events[s][t] \in Nat /\ ~(events[s][t] > 0)
      BY <1>1, <2>1 DEF logged
    <2>3. QED
      BY <2>2
  <1>6. \A u \in Lifecycle!controlledWorkflowStatuses :
            events'[s][u] = IF u = t THEN 1 ELSE events[s][u]
    BY <1>1, <1>5
  <1>7. logged(s)' = logged(s) \cup {t}
    BY <1>1, <1>6 DEF logged
  <1>8. Once(s)'
    BY <1>4, <1>6 DEF Once
  <1>9. LogMatches(s, status[s])'
    <2>1. status'[s] = t
      BY <1>1
    <2>2. CASE t = "CANCELLED"
      BY <1>3, <1>4, <1>7, <2>1, <2>2 DEF LogMatches
    <2>3. CASE t # "CANCELLED"
      BY <1>3, <1>4, <1>7, <2>1, <2>3 DEF LogMatches
    <2>4. QED
      BY <2>2, <2>3
  <1>10. ASSUME NEW r \in Shipments, r # s
         PROVE  (Once(r) /\ LogMatches(r, status[r]))'
    <2>1. status'[r] = status[r] /\ events'[r] = events[r]
      BY <1>1, <1>10
    <2>2. Once(r) /\ LogMatches(r, status[r])
      BY DEF LifecycleInv
    <2>3. QED
      BY <2>1, <2>2 DEF Once, LogMatches, logged
  <1>11. QED
    BY <1>2, <1>8, <1>9, <1>10 DEF LifecycleInv

\* A step that changes the status of s alone, between two empty ways.
LEMMA QuietInv ==
    ASSUME LifecycleInv, NEW s \in Shipments, NEW t \in Lifecycle!RowStatus,
           t # "CANCELLED", Lifecycle!passedBefore(t) = {},
           status' = [status EXCEPT ![s] = t],
           \/ /\ events' = events
              /\ status[s] # "CANCELLED" /\ Lifecycle!passedBefore(status[s]) = {}
           \/ events' = [events EXCEPT ![s] = Lifecycle!emptyLog]
    PROVE  LifecycleInv'
  <1>1. /\ status \in [Shipments -> Lifecycle!RowStatus]
        /\ events \in [Shipments -> [Lifecycle!controlledWorkflowStatuses -> Nat]]
    BY DEF LifecycleInv, Lifecycle!LifecycleTypeOK
  <1>2. Lifecycle!LifecycleTypeOK'
    BY <1>1 DEF Lifecycle!LifecycleTypeOK, Lifecycle!emptyLog
  <1>3. Once(s)' /\ logged(s)' = {}
    <2>1. CASE events' = [events EXCEPT ![s] = Lifecycle!emptyLog]
      <3>1. \A u \in Lifecycle!controlledWorkflowStatuses : events'[s][u] = 0
        BY <1>1, <2>1 DEF Lifecycle!emptyLog
      <3>2. QED
        BY <3>1 DEF Once, logged
    <2>2. CASE /\ events' = events
               /\ status[s] # "CANCELLED" /\ Lifecycle!passedBefore(status[s]) = {}
      BY <2>2 DEF LifecycleInv, LogMatches, Once, logged
    <2>3. QED
      BY <2>1, <2>2
  <1>4. LogMatches(s, status[s])'
    BY <1>1, <1>3 DEF LogMatches
  <1>5. ASSUME NEW r \in Shipments, r # s
        PROVE  (Once(r) /\ LogMatches(r, status[r]))'
    <2>1. status'[r] = status[r] /\ events'[r] = events[r]
      BY <1>1, <1>5
    <2>2. Once(r) /\ LogMatches(r, status[r])
      BY DEF LifecycleInv
    <2>3. QED
      BY <2>1, <2>2 DEF Once, LogMatches, logged
  <1>6. QED
    BY <1>2, <1>3, <1>4, <1>5 DEF LifecycleInv

\* Every shipment starts with an empty log, and no caller gives it an
\* operational status when creating it.
LEMMA LifecycleInitInv == Lifecycle!Init => LifecycleInv
  <1> SUFFICES ASSUME Lifecycle!Init PROVE LifecycleInv
    OBVIOUS
  <1>1. Lifecycle!LifecycleTypeOK
    BY DEF Lifecycle!Init, Lifecycle!LifecycleTypeOK, Lifecycle!emptyLog,
           Lifecycle!RowStatus, Lifecycle!ShipmentStatus
  <1>2. ASSUME NEW s \in Shipments PROVE Once(s) /\ LogMatches(s, status[s])
    <2>1. \A u \in Lifecycle!controlledWorkflowStatuses : events[s][u] = 0
      BY DEF Lifecycle!Init, Lifecycle!emptyLog
    <2>2. status[s] \in {"DRAFT", Lifecycle!NotCreated}
      BY DEF Lifecycle!Init
    <2>3. Once(s) /\ logged(s) = {}
      BY <2>1 DEF Once, logged
    <2>4. status[s] # "CANCELLED" /\ Lifecycle!passedBefore(status[s]) = {}
      BY <2>2 DEF Lifecycle!NotCreated, Lifecycle!passedBefore
    <2>5. QED
      BY <2>3, <2>4 DEF LogMatches
  <1>3. QED
    BY <1>1, <1>2 DEF LifecycleInv

LEMMA LifecycleNextInv ==
    ASSUME CreateStatuses \subseteq ShipmentStatus \ controlledWorkflowStatuses
    PROVE  LifecycleInv /\ [Lifecycle!Next]_(Lifecycle!lifecycle) => LifecycleInv'
  <1> SUFFICES ASSUME LifecycleInv, [Lifecycle!Next]_(Lifecycle!lifecycle) PROVE LifecycleInv'
    OBVIOUS
  <1>1. ASSUME NEW s \in Shipments, NEW t \in CreateStatuses, Lifecycle!Open(s, t)
        PROVE  LifecycleInv'
    <2>1. /\ t \in Lifecycle!RowStatus
          /\ t # "CANCELLED" /\ Lifecycle!passedBefore(t) = {}
      BY SameTables
      DEF Lifecycle!RowStatus, Lifecycle!controlledWorkflowStatuses, Lifecycle!ShipmentStatus,
          Lifecycle!passedBefore
    <2>2. status[s] # "CANCELLED" /\ Lifecycle!passedBefore(status[s]) = {}
      BY <1>1 DEF Lifecycle!Open, Lifecycle!NotCreated, Lifecycle!passedBefore
    <2>3. QED
      BY <1>1, <2>1, <2>2, QuietInv DEF Lifecycle!Open
  <1>2. ASSUME NEW s \in Shipments, NEW t \in Lifecycle!ShipmentStatus, Lifecycle!Prepare(s, t)
        PROVE  LifecycleInv'
    <2>1. status[s] \in Lifecycle!RowStatus
      BY DEF LifecycleInv, Lifecycle!LifecycleTypeOK
    <2>2. /\ status[s] # "CANCELLED" /\ Lifecycle!passedBefore(status[s]) = {}
          /\ Lifecycle!passedBefore(t) = {}
      BY <1>2, <2>1, WayEmpty DEF Lifecycle!Prepare
    <2>3. t \in Lifecycle!RowStatus /\ t # "CANCELLED"
      BY <1>2 DEF Lifecycle!Prepare, Lifecycle!RowStatus, Lifecycle!controlledWorkflowStatuses
    <2>4. QED
      BY <1>2, <2>2, <2>3, QuietInv DEF Lifecycle!Prepare
  <1>3. ASSUME NEW s \in Shipments, Lifecycle!Discard(s)
        PROVE  LifecycleInv'
    <2>1. /\ Lifecycle!Deleted \in Lifecycle!RowStatus /\ Lifecycle!Deleted # "CANCELLED"
          /\ Lifecycle!passedBefore(Lifecycle!Deleted) = {}
      BY DEF Lifecycle!Deleted, Lifecycle!RowStatus, Lifecycle!passedBefore
    <2>2. QED
      BY <1>3, <2>1, QuietInv DEF Lifecycle!Discard
  <1>4. ASSUME UNCHANGED Lifecycle!lifecycle
        PROVE  LifecycleInv'
    BY <1>4 DEF Lifecycle!lifecycle, LifecycleInv, Lifecycle!LifecycleTypeOK, Once, LogMatches,
                logged
  <1>5. QED
    BY <1>1, <1>2, <1>3, <1>4, AdvanceInv DEF Lifecycle!Next

\* The contract is worth keeping: whoever implements it has a tracking log
\* that is exactly the way of the shipment through the workflow table, as long
\* as no caller creates a shipment in an operational status.
THEOREM LogIsTheWayTravelledAlways ==
    ASSUME CreateStatuses \subseteq ShipmentStatus \ controlledWorkflowStatuses
    PROVE  Lifecycle!Spec => []Lifecycle!LogIsTheWayTravelled
  <1>1. LifecycleInv => Lifecycle!LogIsTheWayTravelled
    BY DEF LifecycleInv, Lifecycle!LogIsTheWayTravelled, Once, LogMatches, logged
  <1>2. QED
    BY LifecycleInitInv, LifecycleNextInv, <1>1, PTL DEF Lifecycle!Spec

\* So does the API when it serves one request at a time: the log that a customer
\* reads is the way of the shipment, no milestone is left out and none is told
\* twice.
THEOREM SerialLogIsTheWayTravelled ==
    ASSUME OneAtATime,
           CreateStatuses \subseteq ShipmentStatus \ controlledWorkflowStatuses
    PROVE  Spec => []Lifecycle!LogIsTheWayTravelled
  BY SerialImplementsLifecycle, LogIsTheWayTravelledAlways, PTL DEF ImplementsLifecycle

-----------------------------------------------------------------------------
(* The shipment and its vehicles agree *)

\* A shipment a vehicle stands in was inserted and not deleted, so that none is
\* created around vehicles that are there already.
Attached ==
    \A v \in Vehicles :
        vehicle[v].shipment # NoShipment => Exists(vehicle[v].shipment)

AgreeInv == SerialTypeInv /\ FleetInv /\ Attached /\ FleetFollowsStatus

LEMMA AttachedStep ==
    ASSUME TypeInv, Attached, [Next]_vars
    PROVE  Attached'
  <1> SUFFICES ASSUME NEW v \in Vehicles, vehicle'[v].shipment # NoShipment
               PROVE  Exists(vehicle[v].shipment)'
    BY DEF Attached
  <1>1. CASE UNCHANGED vars
    BY <1>1 DEF vars, database, Attached, Exists
  <1>2. CASE Next
    <2>1. vehicle'[v].shipment = vehicle[v].shipment
      BY <1>2, PlacesKept
    <2>2. PICK s \in Shipments : s = vehicle[v].shipment
      BY <2>1 DEF TypeInv, TypeOK, Vehicle
    <2>3. Exists(s)
      BY <2>1, <2>2 DEF Attached
    <2>4. Exists(s)'
      BY <1>2, <2>2, <2>3, ReferredToStays
    <2>5. QED
      BY <2>1, <2>2, <2>4 DEF Exists
  <1>3. QED
    BY <1>1, <1>2

\* Where the vehicles of a shipment in status x must stand.
standsWith(x, y) ==
    /\ x \in {"LOADED", "IN_TRANSIT"} => y = x
    /\ x \in {"ARRIVED", "CUSTOMS_CLEARANCE", "READY_FOR_DELIVERY",
              "DELIVERED"} => y = "ARRIVED"

LEMMA StandsWith ==
    FleetFollowsStatus <=>
        \A s \in Shipments : \A v \in activeVehicles(s) :
            standsWith(status[s], vehicle[v].status)
  BY DEF FleetFollowsStatus, standsWith

\* A commit writes the status its vehicles have reached, or the next of the
\* statuses in which they stay where they arrived.
LEMMA CommitAgrees ==
    ASSUME AgreeInv, NEW w \in Workers, Commits(w)
    PROVE  FleetFollowsStatus'
  <1> DEFINE s == request[w].shipment
             t == request[w].target
  <1>1. /\ TypeInv /\ FleetInv
        /\ request[w] # NoRequest /\ request[w] \in InFlight
        /\ request[w].phase = "writing"
        /\ request[w].handler \in Recorders
        /\ s \in Shipments
        /\ t \in controlledWorkflowStatuses
        /\ RecordStatus(w)
    BY CommitsRecord DEF AgreeInv, FleetInv
  <1>2. /\ RequestOK(request[w])
        /\ isShipmentTransitionAllowed(status[s], t)
    BY <1>1 DEF TypeInv, RequestsOK, AgreeInv, SerialTypeInv, SerialInv,
                StillAllowed
  <1>3. \A z \in Shipments : status'[z] = IF z = s THEN t ELSE status[z]
    BY <1>1 DEF RecordStatus, TypeInv, TypeOK
  <1>4. CASE request[w].handler \in Movers
    <2>1. MoveVehicles(w)
      BY <1>4 DEF Commits, CommitDispatch, CommitMarkArrived,
         CommitCustomsClearance, CommitMarkReadyForDelivery,
         CommitMarkDelivered, CommitCancel, Serving, Movers
    <2>2. movedVehicles(w) = activeVehicles(s)
      BY <1>1, <1>4, <2>1, MovedAll DEF MoveVehicles
    <2>3. ASSUME NEW v \in Vehicles
          PROVE  /\ vehicle'[v].shipment = vehicle[v].shipment
                 /\ vehicle'[v].isActive = vehicle[v].isActive
                 /\ v \in activeVehicles(s) => vehicle'[v].status = t
                 /\ v \notin activeVehicles(s) => vehicle'[v] = vehicle[v]
      BY <1>1, <2>1, <2>2 DEF MoveVehicles, TypeInv, TypeOK, Vehicle
    <2>4. t \in Milestones
      BY <1>2, <1>4 DEF RequestOK, TargetOK, Movers, Milestones
    <2>5. standsWith(t, t)
      BY <2>4 DEF standsWith, Milestones
    <2>6. ASSUME NEW z \in Shipments, NEW v \in activeVehicles(z)'
          PROVE  standsWith(status[z], vehicle[v].status)'
      <3>1. v \in Vehicles /\ v \in activeVehicles(z)
        BY <2>3 DEF activeVehicles
      <3>2. CASE z = s
        BY <1>3, <2>3, <2>5, <3>1, <3>2 DEF standsWith
      <3>3. CASE z # s
        <4>1. v \notin activeVehicles(s)
          BY <3>1, <3>3 DEF activeVehicles
        <4>2. standsWith(status[z], vehicle[v].status)
          BY <3>1, StandsWith DEF AgreeInv
        <4>3. status'[z] = status[z] /\ vehicle'[v] = vehicle[v]
          BY <1>3, <2>3, <3>1, <3>3, <4>1
        <4>4. QED
          BY <4>2, <4>3 DEF standsWith
      <3>4. QED
        BY <3>2, <3>3
    <2>7. QED
      BY <2>6 DEF FleetFollowsStatus, standsWith
  <1>5. CASE request[w].handler \notin Movers
    <2>1. UNCHANGED vehicle
      BY <1>5 DEF Commits, CommitDispatch, CommitMarkArrived,
         CommitCustomsClearance, CommitMarkReadyForDelivery,
         CommitMarkDelivered, CommitCancel, Serving, Movers
    <2>2. t \in controlledWorkflowStatuses \ Milestones
      BY <1>1, <1>2, <1>5 DEF RequestOK, TargetOK
    <2>3. t = "CANCELLED" \/ status[s] \in {"ARRIVED", "CUSTOMS_CLEARANCE",
                                            "READY_FOR_DELIVERY"}
      BY <1>2, <2>2
         DEF isShipmentTransitionAllowed, SHIPMENT_WORKFLOW_TRANSITIONS,
             controlledWorkflowStatuses, Milestones
    <2>4. ASSUME NEW y, standsWith(status[s], y)
          PROVE  standsWith(t, y)
      BY <2>2, <2>3, <2>4
         DEF standsWith, controlledWorkflowStatuses, Milestones
    <2>5. ASSUME NEW z \in Shipments, NEW v \in activeVehicles(z)'
          PROVE  standsWith(status[z], vehicle[v].status)'
      <3>1. v \in activeVehicles(z) /\ vehicle'[v] = vehicle[v]
        BY <2>1 DEF activeVehicles
      <3>2. standsWith(status[z], vehicle[v].status)
        BY <3>1, StandsWith DEF AgreeInv
      <3>3. standsWith(status'[z], vehicle[v].status)
        BY <1>3, <2>4, <3>2
      <3>4. QED
        BY <3>1, <3>3 DEF standsWith
    <2>6. QED
      BY <2>5 DEF FleetFollowsStatus, standsWith
  <1>6. QED
    BY <1>4, <1>5

\* A step that leaves the vehicles alone agrees when every status it changes
\* becomes one that says nothing of vehicles, or one without vehicles.
LEMMA StatusAgrees ==
    ASSUME AgreeInv, UNCHANGED vehicle,
           \A s \in Shipments :
               \/ status'[s] = status[s]
               \/ status'[s] \notin controlledWorkflowStatuses
               \/ activeVehicles(s) = {}
    PROVE  FleetFollowsStatus'
  <1> SUFFICES ASSUME NEW s \in Shipments, NEW v \in activeVehicles(s)'
               PROVE  standsWith(status[s], vehicle[v].status)'
    BY DEF FleetFollowsStatus, standsWith
  <1>1. v \in activeVehicles(s) /\ vehicle'[v] = vehicle[v]
    BY DEF activeVehicles
  <1>2. standsWith(status[s], vehicle[v].status)
    BY <1>1, StandsWith DEF AgreeInv
  <1>3. CASE status'[s] = status[s]
    BY <1>1, <1>2, <1>3 DEF standsWith
  <1>4. CASE status'[s] \notin controlledWorkflowStatuses
    BY <1>4 DEF standsWith, controlledWorkflowStatuses
  <1>5. QED
    BY <1>1, <1>3, <1>4

LEMMA AgreesStep ==
    ASSUME AgreeInv, [Next]_vars
    PROVE  FleetFollowsStatus'
  <1>1. TypeInv /\ status \in [Shipments -> RowStatus]
    BY DEF AgreeInv, SerialTypeInv, TypeInv, TypeOK
  <1>2. ASSUME NEW w \in Workers, CommitUpdate(w)
        PROVE  FleetFollowsStatus'
    <2>1. PICK s \in Shipments, t \in ShipmentStatus \cup {Unset} :
              s = request[w].shipment /\ t = request[w].target
      BY <1>1, <1>2 DEF CommitUpdate, Serving, TypeInv, TypeOK, InFlight
    <2>2. updateAccepts(s, t)
      BY <1>2, <2>1 DEF CommitUpdate, Serving, AgreeInv, SerialTypeInv,
                        SerialInv, StillAllowed
    <2>3. /\ status' = [status EXCEPT ![s] = writtenStatus(s, t)]
          /\ UNCHANGED vehicle
      BY <1>2, <2>1 DEF CommitUpdate
    <2>4. \/ writtenStatus(s, t) = status[s]
          \/ writtenStatus(s, t) \notin controlledWorkflowStatuses
      BY <2>2 DEF updateAccepts, writtenStatus
    <2>5. QED
      BY <1>1, <2>3, <2>4, StatusAgrees
  <1>3. ASSUME NEW w \in Workers, CommitRemove(w)
        PROVE  FleetFollowsStatus'
    <2>1. \A z \in Shipments : status'[z] \in {status[z], Deleted}
      BY <1>1, <1>3 DEF CommitRemove
    <2>2. UNCHANGED vehicle
      BY <1>3 DEF CommitRemove
    <2>3. QED
      BY <2>1, <2>2, StatusAgrees DEF Deleted, controlledWorkflowStatuses
  <1>4. ASSUME NEW s \in Shipments, NEW t \in CreateStatuses, Create(s, t)
        PROVE  FleetFollowsStatus'
    <2>1. /\ status[s] = NotCreated
          /\ \A z \in Shipments \ {s} : status'[z] = status[z]
          /\ UNCHANGED vehicle
      BY <1>1, <1>4 DEF Create
    <2>2. ~Exists(s) /\ s # NoShipment
      BY <2>1, ConstantsAssumption DEF Exists, NotCreated, ShipmentStatus
    <2>3. activeVehicles(s) = {}
      BY <2>2 DEF activeVehicles, AgreeInv, Attached
    <2>4. QED
      BY <2>1, <2>3, StatusAgrees
  <1>5. ASSUME NEW v \in Vehicles, NEW from, NEW to,
               ApproveInspection(v, from, to)
        PROVE  FleetFollowsStatus'
    <2>1. UNCHANGED status /\ from \notin Milestones
      BY <1>5 DEF ApproveInspection, Milestones
    <2>2. ASSUME NEW u \in Vehicles
          PROVE  /\ vehicle'[u].shipment = vehicle[u].shipment
                 /\ vehicle'[u].isActive = vehicle[u].isActive
                 /\ \/ vehicle'[u].status = vehicle[u].status
                    \/ vehicle[u].status = from
      BY <1>1, <1>5 DEF ApproveInspection, TypeInv, TypeOK, Vehicle
    <2>3. ASSUME NEW s \in Shipments, NEW u \in activeVehicles(s)'
          PROVE  standsWith(status[s], vehicle[u].status)'
      <3>1. u \in Vehicles /\ u \in activeVehicles(s)
        BY <2>2 DEF activeVehicles
      <3>2. standsWith(status[s], vehicle[u].status)
        BY <3>1, StandsWith DEF AgreeInv
      <3>3. QED
        BY <2>1, <2>2, <3>1, <3>2 DEF standsWith, Milestones
    <2>4. QED
      BY <2>3 DEF FleetFollowsStatus, standsWith
  <1>6. ASSUME UNCHANGED <<status, vehicle>>
        PROVE  FleetFollowsStatus'
    BY <1>6, StatusAgrees
  <1>7. ASSUME Elsewhere
        PROVE  FleetFollowsStatus'
    BY <1>5, <1>6, <1>7 DEF Elsewhere, RevokeApproval, UploadDocument,
                            RemoveDocument
  <1>8. QED
    BY <1>2, <1>3, <1>4, <1>6, <1>7, CommitAgrees, StepKinds, ArriveKeeps,
       QuietKeeps
       DEF database, vars, Crash

\* Served one at a time, the handlers keep the status of a shipment and of its
\* active vehicles together: loaded and under way with it, and waiting where
\* they arrived while it is cleared and delivered.  It is lost when requests
\* overlap, because the status is written whatever it has become; the log and
\* the vehicles stay together even then (FleetFollowsLogAlways).
THEOREM FleetFollowsStatusAlways ==
    ASSUME OneAtATime
    PROVE  Spec => []FleetFollowsStatus
  <1> DEFINE Rest == FleetInv /\ Attached /\ FleetFollowsStatus
  <1>1. Init => Rest
    <2>1. Init => Attached
      BY DEF Init, Attached, Exists, ShipmentStatus
    <2>2. Init => FleetFollowsStatus
      BY DEF Init, FleetFollowsStatus, NotCreated
    <2>3. QED
      BY <2>1, <2>2, InitFleet
  <1>2. SerialTypeInv /\ Rest /\ [Next]_vars => Rest'
    BY NextFleet, AttachedStep, AgreesStep
       DEF AgreeInv, SerialTypeInv, FleetInv
  <1>3. Rest => FleetFollowsStatus
    OBVIOUS
  <1>4. QED
    BY <1>1, <1>2, <1>3, SerialAlways, PTL DEF Spec

-----------------------------------------------------------------------------
(* Fleet: types *)

\* A vehicle is created in the shipment its dto names; the other handlers may
\* leave the shipment out.
EditOK(r) == r.handler = "create" => r.dto.shipment # Unset

EditsOK == \A e \in Editors : edit[e] # NoEdit => EditOK(edit[e])

FleetTypeInv == FleetTypeOK /\ RequestsOK /\ EditsOK

LEMMA FleetHasTypeInv ==
    ASSUME FleetTypeInv
    PROVE  TypeInv
  BY DEF FleetTypeInv, FleetTypeOK, TypeInv

\* The one way an editor's request changes.
LEMMA EditReplaced ==
    ASSUME FleetTypeInv, NEW e \in Editors, NEW r \in Edit \cup {NoEdit},
           r # NoEdit => EditOK(r), edit' = [edit EXCEPT ![e] = r]
    PROVE  edit' \in [Editors -> Edit \cup {NoEdit}] /\ EditsOK'
  BY DEF FleetTypeInv, FleetTypeOK, EditsOK

LEMMA EditAnswered ==
    ASSUME FleetTypeInv, NEW e \in Editors, AnswerEdit(e)
    PROVE  edit' \in [Editors -> Edit \cup {NoEdit}] /\ EditsOK'
  BY EditReplaced DEF AnswerEdit

\* A vehicle request that only arrives, or only checks, writes no row.
LEMMA ShipmentStateKept ==
    ASSUME TypeInv, UNCHANGED vars
    PROVE  TypeOK' /\ RequestsOK'
  BY NextInv DEF TypeInv

LEMMA BeginEditInv ==
    ASSUME FleetTypeInv, NEW e \in Editors, NEW v \in Vehicles,
           NEW dto \in VehicleDto, NEW p \in {"assigning", "writing"},
           NEW h \in {"create", "update", "remove"},
           h = "create" => dto.shipment # Unset,
           BeginEdit(e, p, h, v, dto)
    PROVE  /\ edit' \in [Editors -> Edit \cup {NoEdit}] /\ EditsOK'
           /\ edits' \in Nat
  <1> DEFINE r == [phase |-> p, handler |-> h, vehicle |-> v, dto |-> dto]
  <1>1. r \in Edit /\ EditOK(r)
    BY DEF Edit, EditOK
  <1>2. edit' = [edit EXCEPT ![e] = r]
    BY DEF BeginEdit
  <1>3. edit' \in [Editors -> Edit \cup {NoEdit}] /\ EditsOK'
    <2> HIDE DEF r
    <2>1. QED
      BY <1>1, <1>2, EditReplaced
  <1>4. QED
    BY <1>3 DEF BeginEdit, FleetTypeInv, FleetTypeOK

\* The first reads and checks of a vehicle request.
Requests(e) ==
    \E v \in Vehicles :
        \/ \E dto \in VehicleDto :
               BeginCreateVehicle(e, v, dto) \/ BeginUpdateVehicle(e, v, dto)
        \/ BeginRemoveVehicle(e, v)

LEMMA RequestsInv ==
    ASSUME FleetTypeInv, NEW e \in Editors, Requests(e)
    PROVE  FleetTypeInv' /\ UNCHANGED vars
  <1>1. TypeInv
    BY FleetHasTypeInv
  <1>2. PICK v \in Vehicles :
            \/ \E dto \in VehicleDto : \/ BeginCreateVehicle(e, v, dto)
                                       \/ BeginUpdateVehicle(e, v, dto)
            \/ BeginRemoveVehicle(e, v)
    BY DEF Requests
  <1>3. /\ UNCHANGED vars
        /\ unused' \subseteq Vehicles
    BY <1>2 DEF BeginCreateVehicle, BeginUpdateVehicle, BeginRemoveVehicle,
                FleetTypeInv, FleetTypeOK
  <1>4. AllUnset \in VehicleDto
    BY DEF AllUnset, VehicleDto
  <1>5. /\ edit' \in [Editors -> Edit \cup {NoEdit}] /\ EditsOK'
        /\ edits' \in Nat
    <2>1. ASSUME NEW dto \in VehicleDto, BeginCreateVehicle(e, v, dto)
          PROVE  /\ edit' \in [Editors -> Edit \cup {NoEdit}] /\ EditsOK'
                 /\ edits' \in Nat
      BY <2>1, BeginEditInv DEF BeginCreateVehicle
    <2>2. ASSUME NEW dto \in VehicleDto, BeginUpdateVehicle(e, v, dto)
          PROVE  /\ edit' \in [Editors -> Edit \cup {NoEdit}] /\ EditsOK'
                 /\ edits' \in Nat
      BY <2>2, BeginEditInv DEF BeginUpdateVehicle
    <2>3. ASSUME BeginRemoveVehicle(e, v)
          PROVE  /\ edit' \in [Editors -> Edit \cup {NoEdit}] /\ EditsOK'
                 /\ edits' \in Nat
      BY <1>4, <2>3, BeginEditInv DEF BeginRemoveVehicle
    <2>4. QED
      BY <1>2, <2>1, <2>2, <2>3
  <1>6. QED
    BY <1>1, <1>3, <1>5, ShipmentStateKept DEF FleetTypeInv, FleetTypeOK

-----------------------------------------------------------------------------
(* The writes of the vehicle endpoints *)

\* What a write leaves in the rows: one row is replaced, all others stay.
RowWritten(v, row) == vehicle' = [vehicle EXCEPT ![v] = row]

Writes(e) ==
    \/ CommitCreateVehicle(e) \/ CommitUpdateVehicle(e)
    \/ CommitRemoveVehicle(e)

\* The row a vehicle request writes is a vehicle's row that belongs to a
\* shipment that exists, or to none when the vehicle is removed.
LEMMA WritesRow ==
    ASSUME FleetTypeInv, VehicleHasShipment, NEW e \in Editors, Writes(e)
    PROVE  \E v \in Vehicles, row \in Vehicle :
               /\ RowWritten(v, row)
               /\ row.shipment # NoShipment => Exists(row.shipment)
  <1> USE DEF FleetTypeInv, FleetTypeOK, TypeOK
  <1>1. PICK r \in Edit : r = edit[e] /\ EditOK(r)
    BY DEF Writes, CommitCreateVehicle, CommitUpdateVehicle,
           CommitRemoveVehicle, Editing, EditsOK
  <1>2. PICK v \in Vehicles, dto \in VehicleDto :
            v = r.vehicle /\ dto = r.dto
    BY DEF Edit
  <1>3. /\ dto.shipment \in Shipments \cup {Unset}
        /\ dto.status \in VehicleStatus \cup {Unset}
        /\ vehicle[v] \in Vehicle
    BY DEF VehicleDto
  <1>4. CASE CommitCreateVehicle(e)
    <2> DEFINE row == [shipment |-> dto.shipment,
                       isActive |-> dto.isActive # "no",
                       status   |-> "REGISTERED"]
    <2>1. dto.shipment # Unset /\ Exists(dto.shipment)
      BY <1>1, <1>2, <1>4
         DEF CommitCreateVehicle, Editing, EditOK, mayRefer
    <2>2. row \in Vehicle /\ row.shipment = dto.shipment
      BY <1>3, <2>1 DEF Vehicle, VehicleStatus
    <2>3. RowWritten(v, row)
      BY <1>1, <1>2, <1>4 DEF CommitCreateVehicle, RowWritten
    <2>4. QED
      BY <2>1, <2>2, <2>3
  <1>5. CASE CommitUpdateVehicle(e)
    <2> DEFINE old == vehicle[v]
               row == [shipment |-> sentOrKept(dto.shipment, old.shipment),
                       isActive |-> IF dto.isActive = Unset THEN old.isActive
                                    ELSE dto.isActive = "yes",
                       status   |-> sentOrKept(dto.status, old.status)]
    <2>1. row \in Vehicle
      BY <1>3 DEF Vehicle, sentOrKept
    <2>2. /\ dto.shipment # Unset => Exists(dto.shipment)
          /\ Exists(old.shipment)
      BY <1>1, <1>2, <1>5
         DEF CommitUpdateVehicle, mayRefer, VehicleHasShipment
    <2>3. Exists(row.shipment)
      BY <2>2 DEF sentOrKept
    <2>4. RowWritten(v, row)
      BY <1>1, <1>2, <1>5 DEF CommitUpdateVehicle, RowWritten
    <2>5. QED
      BY <2>1, <2>3, <2>4
  <1>6. CASE CommitRemoveVehicle(e)
    <2>1. NoRow \in Vehicle /\ NoRow.shipment = NoShipment
      BY DEF NoRow, Vehicle, VehicleStatus
    <2>2. RowWritten(v, NoRow)
      BY <1>1, <1>2, <1>6 DEF CommitRemoveVehicle, RowWritten
    <2>3. QED
      BY <2>1, <2>2
  <1>7. QED
    BY <1>4, <1>5, <1>6 DEF Writes

LEMMA WritesInv ==
    ASSUME FleetTypeInv, VehicleHasShipment, NEW e \in Editors, Writes(e)
    PROVE  FleetTypeInv' /\ VehicleHasShipment'
  <1>1. PICK v \in Vehicles, row \in Vehicle :
            /\ RowWritten(v, row)
            /\ row.shipment # NoShipment => Exists(row.shipment)
    BY WritesRow
  <1>2. /\ UNCHANGED <<status, facts, events, untold, withdrawn, request,
                       crashes, unused, edits>>
        /\ cleared' \subseteq cleared
        /\ AnswerEdit(e)
    BY DEF Writes, CommitCreateVehicle, CommitUpdateVehicle,
           CommitRemoveVehicle, history
  <1>3. edit' \in [Editors -> Edit \cup {NoEdit}] /\ EditsOK'
    BY <1>2, EditAnswered
  <1>4. FleetTypeInv'
    BY <1>1, <1>2, <1>3
       DEF FleetTypeInv, FleetTypeOK, TypeOK, RequestsOK, RowWritten
  <1>5. VehicleHasShipment'
    BY <1>1, <1>2 DEF RowWritten, VehicleHasShipment, hasRow, Exists,
                      FleetTypeInv, FleetTypeOK, TypeOK
  <1>6. QED
    BY <1>4, <1>5

\* A check that passes lets the request write; a failed one answers it.
LEMMA ChecksInv ==
    ASSUME FleetTypeInv, NEW e \in Editors, CheckAssignment(e) \/ FailEdit(e)
    PROVE  FleetTypeInv' /\ UNCHANGED vars
  <1>1. UNCHANGED <<vars, unused, edits>>
    BY DEF CheckAssignment, FailEdit
  <1>2. CASE AnswerEdit(e)
    BY <1>1, <1>2, EditAnswered, ShipmentStateKept, FleetHasTypeInv
       DEF FleetTypeInv, FleetTypeOK
  <1>3. CASE ~AnswerEdit(e)
    <2> DEFINE r == [edit[e] EXCEPT !.phase = "writing"]
    <2>1. edit' = [edit EXCEPT ![e] = r] /\ edit[e] # NoEdit
      BY <1>3 DEF CheckAssignment, FailEdit, Editing
    <2>2. edit[e] \in Edit /\ EditOK(edit[e])
      BY <2>1 DEF FleetTypeInv, FleetTypeOK, EditsOK
    <2>3. r \in Edit /\ EditOK(r)
      BY <2>2 DEF Edit, EditOK
    <2>4. edit' \in [Editors -> Edit \cup {NoEdit}] /\ EditsOK'
      BY <2>1, <2>3, EditReplaced
    <2>5. QED
      BY <1>1, <2>4, ShipmentStateKept, FleetHasTypeInv
         DEF FleetTypeInv, FleetTypeOK
  <1>4. QED
    BY <1>1, <1>2, <1>3

-----------------------------------------------------------------------------
(* The steps of the shipment handlers *)

ShipmentStep ==
    /\ Next
    /\ edit' = IF crashes' = crashes THEN edit
                                     ELSE [e \in Editors |-> NoEdit]
    /\ UNCHANGED <<unused, edits>>

\* The case split of the steps of the composition.
LEMMA FleetStepKinds ==
    ASSUME [FleetNext]_fleetVars
    PROVE  \/ \E e \in Editors : Requests(e)
           \/ \E e \in Editors : Writes(e)
           \/ \E e \in Editors : CheckAssignment(e) \/ FailEdit(e)
           \/ ShipmentStep
           \/ UNCHANGED fleetVars
  BY DEF FleetNext, FleetStep, Requests, Writes, ShipmentStep

LEMMA ShipmentStepTypes ==
    ASSUME FleetTypeInv, ShipmentStep
    PROVE  FleetTypeInv'
  <1>1. TypeInv'
    BY FleetHasTypeInv, NextInv DEF ShipmentStep
  <1>2. edit' \in [Editors -> Edit \cup {NoEdit}] /\ EditsOK'
    BY DEF ShipmentStep, FleetTypeInv, FleetTypeOK, EditsOK
  <1>3. QED
    BY <1>1, <1>2 DEF TypeInv, FleetTypeInv, FleetTypeOK, ShipmentStep

LEMMA ShipmentStepPlaces ==
    ASSUME FleetTypeInv, VehicleHasShipment, ShipmentStep
    PROVE  VehicleHasShipment'
  <1> SUFFICES ASSUME NEW v \in Vehicles, vehicle'[v].shipment # NoShipment
               PROVE  Exists(vehicle[v].shipment)'
    BY DEF VehicleHasShipment, hasRow
  <1>1. TypeInv /\ Next
    BY FleetHasTypeInv DEF ShipmentStep
  <1>2. vehicle'[v].shipment = vehicle[v].shipment
    BY <1>1, PlacesKept
  <1>3. PICK s \in Shipments : s = vehicle[v].shipment
    BY <1>1, <1>2 DEF TypeInv, TypeOK, Vehicle
  <1>4. Exists(s)
    BY <1>2, <1>3 DEF VehicleHasShipment, hasRow
  <1>5. Exists(s)'
    BY <1>1, <1>3, <1>4, ReferredToStays
  <1>6. QED
    BY <1>2, <1>3, <1>5 DEF Exists

\* Every vehicle refers to a shipment that exists.  A vehicle request reads
\* the shipment it wants to join, and writes after other awaits; a shipment is
\* deleted after a read of its own.  The invariant carries no claim about what
\* either of them had read: it is the foreign key, at the moment of each
\* write, that keeps the two tables together.
FleetRowsInv == FleetTypeInv /\ VehicleHasShipment

LEMMA FleetRowsInit == FleetInit => FleetRowsInv
  BY ConstantsAssumption
     DEF FleetInit, FleetRowsInv, FleetTypeInv, FleetTypeOK, TypeOK,
         RequestsOK, EditsOK, VehicleHasShipment, hasRow, NoRow, Vehicle,
         VehicleStatus, RowStatus, ShipmentStatus

LEMMA FleetRowsNext == FleetRowsInv /\ [FleetNext]_fleetVars => FleetRowsInv'
  <1> SUFFICES ASSUME FleetTypeInv, VehicleHasShipment, [FleetNext]_fleetVars
               PROVE  FleetTypeInv' /\ VehicleHasShipment'
    BY DEF FleetRowsInv
  <1>1. ASSUME UNCHANGED vars
        PROVE  VehicleHasShipment'
    BY <1>1 DEF vars, database, VehicleHasShipment, hasRow, Exists
  <1>2. ASSUME NEW e \in Editors, Requests(e)
        PROVE  FleetTypeInv' /\ VehicleHasShipment'
    BY <1>1, <1>2, RequestsInv
  <1>3. ASSUME NEW e \in Editors, CheckAssignment(e) \/ FailEdit(e)
        PROVE  FleetTypeInv' /\ VehicleHasShipment'
    BY <1>1, <1>3, ChecksInv
  <1>4. CASE ShipmentStep
    BY <1>4, ShipmentStepTypes, ShipmentStepPlaces
  <1>5. CASE UNCHANGED fleetVars
    <2>1. TypeOK' /\ RequestsOK'
      BY <1>5, ShipmentStateKept, FleetHasTypeInv DEF fleetVars
    <2>2. QED
      BY <1>1, <1>5, <2>1 DEF fleetVars, FleetTypeInv, FleetTypeOK, EditsOK
  <1>6. QED
    BY <1>2, <1>3, <1>4, <1>5, FleetStepKinds, WritesInv

\* Every variable keeps its type when the vehicle endpoints run beside the
\* shipment handlers: no vehicle row is written with a field left out of the
\* dto.
THEOREM FleetTypeCorrect == FleetSpec => []FleetTypeOK
  <1>1. FleetRowsInv => FleetTypeOK
    BY DEF FleetRowsInv, FleetTypeInv
  <1>2. QED
    BY <1>1, FleetRowsInit, FleetRowsNext, PTL DEF FleetSpec

\* Every vehicle belongs to a shipment that exists, for any number of vehicle
\* and shipment requests that overlap.
THEOREM VehicleHasShipmentAlways == FleetSpec => []VehicleHasShipment
  <1>1. FleetRowsInv => VehicleHasShipment
    BY DEF FleetRowsInv
  <1>2. QED
    BY <1>1, FleetRowsInit, FleetRowsNext, PTL DEF FleetSpec

-----------------------------------------------------------------------------
(* No shipment travels empty *)

\* A transaction that writes a milestone had counted a vehicle.  Unlike in
\* CountOK the number may be outdated: vehicles come and go in between.
CountedSome ==
    \A w \in Workers :
        /\ request[w] # NoRequest
        /\ request[w].handler \in Movers
        /\ request[w].phase = "writing"
        => request[w].counted > 0

LEMMA CountedSomeStep ==
    ASSUME TypeInv, CountedSome, [Next]_vars
    PROVE  CountedSome'
  <1> SUFFICES ASSUME NEW w \in Workers, request'[w] # NoRequest,
                      request'[w].handler \in Movers,
                      request'[w].phase = "writing"
               PROVE  request'[w].counted > 0
    BY DEF CountedSome
  <1> USE DEF TypeInv, TypeOK
  <1>0. request[w] \in InFlight \cup {NoRequest}
    OBVIOUS
  <1>1. CASE request'[w] = request[w]
    BY <1>1 DEF CountedSome
  <1>2. ASSUME NEW v \in Workers, NEW s \in Shipments, Arrive(v, s),
               request'[w] # request[w]
        PROVE  FALSE
    <2>1. ASSUME NEW h \in Handlers, NEW t, NEW p, Begin(v, h, s, t, p)
          PROVE  request'[w].handler = h /\ request'[w].phase = p
      BY <1>2, <2>1 DEF Begin
    <2>2. ASSUME NEW h \in Movers, NEW t \in Milestones,
                 BeginTransition(v, h, s, t)
          PROVE  FALSE
      BY <2>1, <2>2
         DEF BeginTransition, Milestones, readinessProtectedStatuses, Movers,
             Handlers
    <2>3. ASSUME NEW h \in Recorders \ Movers, NEW t,
                 BeginTransition(v, h, s, t)
          PROVE  FALSE
      BY <2>1, <2>3 DEF BeginTransition, Recorders
    <2>4. ~ \E t \in ShipmentStatus : BeginDispatch(v, s, t)
      BY <2>2 DEF BeginDispatch, Milestones, Movers
    <2>5. ~BeginMarkArrived(v, s)
      BY <2>2 DEF BeginMarkArrived, Milestones, Movers
    <2>6. /\ ~BeginCustomsClearance(v, s) /\ ~BeginMarkReadyForDelivery(v, s)
          /\ ~BeginMarkDelivered(v, s) /\ ~BeginCancel(v, s)
      BY <2>3 DEF BeginCustomsClearance, BeginMarkReadyForDelivery,
                  BeginMarkDelivered, BeginCancel, Recorders, Movers, Handlers
    <2>7. /\ ~ \E t \in ShipmentStatus \cup {Unset} : BeginUpdate(v, s, t)
          /\ ~BeginRemove(v, s)
      BY <2>1 DEF BeginUpdate, BeginRemove, Movers, Handlers
    <2>8. QED
      BY <1>2, <2>4, <2>5, <2>6, <2>7 DEF Arrive
  <1>3. ASSUME NEW v \in Workers, AssertReadyForStatus(v),
               request'[w] # request[w]
        PROVE  FALSE
    <2>1. v = w /\ request[w] # NoRequest /\ request[w] \in InFlight
      BY <1>0, <1>3 DEF AssertReadyForStatus, Proceed, Answer
    <2>2. PICK p : /\ Proceed(w, p)
                   /\ p = "writing" => request[w].handler \notin Movers
      BY <1>3, <2>1 DEF AssertReadyForStatus, Answer, Movers
    <2>3. request'[w].phase = p /\ request'[w].handler = request[w].handler
      BY <2>1, <2>2 DEF Proceed, InFlight
    <2>4. QED
      BY <2>2, <2>3
  <1>4. ASSUME NEW v \in Workers, CountActiveVehicles(v),
               request'[w] # request[w]
        PROVE  request'[w].counted > 0
    <2> DEFINE found == activeVehicles(request[w].shipment)
               n     == Cardinality(found)
    <2>1. v = w /\ request[w] # NoRequest /\ request[w] \in InFlight
      BY <1>0, <1>4 DEF CountActiveVehicles, Answer
    <2>2. /\ found # {}
          /\ request' = [request EXCEPT ![w].phase = "writing",
                                        ![w].counted = n]
      BY <1>4, <2>1 DEF CountActiveVehicles, Answer
    <2>3. request'[w].counted = n
      BY <2>1, <2>2 DEF InFlight
    <2>4. n \in Nat /\ n # 0
      BY <2>2, ActiveVehiclesFinite, FS_EmptySet
    <2>5. QED
      BY <2>3, <2>4
  <1>5. ASSUME NEW v \in Workers, Commits(v), request'[w] # request[w]
        PROVE  FALSE
    <2>1. Proceed(v, "notifying") /\ request[v] # NoRequest
      BY <1>5, CommitsRecord DEF RecordStatus
    <2>2. QED
      BY <1>0, <1>5, <2>1 DEF Proceed, InFlight
  <1>6. ASSUME NEW v \in Workers, request'[w] # request[w],
               \/ Rollback(v) \/ NotifyShipmentStatusChange(v) \/ Fail(v)
               \/ CommitUpdate(v) \/ CommitRemove(v)
        PROVE  FALSE
    BY <1>6 DEF Rollback, NotifyShipmentStatusChange, Fail, CommitUpdate,
                CommitRemove, Answer
  <1>7. ~Crash
    BY DEF Crash
  <1>8. ASSUME NEW r \in Shipments, NEW t \in CreateStatuses, Create(r, t)
        PROVE  request' = request
    BY <1>8 DEF Create
  <1>9. QED
    BY <1>1, <1>2, <1>3, <1>4, <1>5, <1>6, <1>7, <1>8, StepKinds,
       ElsewhereKeeps
       DEF vars, Quiet

\* The log grows by a commit only, and a milestone by one that moves vehicles.
LEMMA MilestoneByMover ==
    ASSUME TypeInv, [Next]_vars, NEW s \in Shipments, NEW t \in Milestones,
           events'[s][t] > events[s][t]
    PROVE  \E w \in Workers : /\ request[w] # NoRequest
                              /\ request[w].handler \in Movers
                              /\ request[w].phase = "writing"
                              /\ request[w].shipment = s
                              /\ request[w].target = t
                              /\ MoveVehicles(w)
  <1> USE DEF TypeInv, TypeOK
  <1>0. t \in controlledWorkflowStatuses /\ events[s][t] \in Nat
    BY DEF Milestones, controlledWorkflowStatuses
  <1>1. ASSUME NEW w \in Workers, Commits(w)
        PROVE  /\ request[w] # NoRequest
               /\ request[w].handler \in Movers
               /\ request[w].phase = "writing"
               /\ request[w].shipment = s
               /\ request[w].target = t
               /\ MoveVehicles(w)
    <2>0. /\ request[w] # NoRequest
          /\ request[w].phase = "writing"
          /\ request[w].handler \in Recorders
          /\ request[w].shipment \in Shipments
          /\ request[w].target \in controlledWorkflowStatuses
          /\ RecordStatus(w)
      BY <1>1, CommitsRecord
    <2>1. PICK z \in Shipments, u \in controlledWorkflowStatuses :
              z = request[w].shipment /\ u = request[w].target
      BY <2>0
    <2>2. z = s /\ u = t
      <3>1. events' = [events EXCEPT ![z][u] = @ + 1]
        BY <2>0, <2>1 DEF RecordStatus
      <3>2. CASE z # s
        BY <1>0, <3>1, <3>2
      <3>3. CASE z = s /\ u # t
        BY <1>0, <3>1, <3>3
      <3>4. QED
        BY <3>2, <3>3
    <2>3. request[w].handler \in Movers
      BY <2>0, <2>1, <2>2 DEF RequestsOK, RequestOK, TargetOK
    <2>4. MoveVehicles(w)
      BY <1>1, <2>3 DEF Commits, CommitDispatch, CommitMarkArrived,
         CommitCustomsClearance, CommitMarkReadyForDelivery,
         CommitMarkDelivered, CommitCancel, Serving, Movers
    <2>5. QED
      BY <2>0, <2>1, <2>2, <2>3, <2>4
  <1>2. ASSUME NEW w \in Workers, CommitUpdate(w)
        PROVE  FALSE
    BY <1>0, <1>2 DEF CommitUpdate
  <1>3. ASSUME NEW w \in Workers, CommitRemove(w)
        PROVE  FALSE
    BY <1>0, <1>3 DEF CommitRemove, Serving, InFlight
  <1>4. ASSUME NEW r \in Shipments, NEW u \in CreateStatuses, Create(r, u)
        PROVE  FALSE
    BY <1>0, <1>4 DEF Create
  <1>5. QED
    BY <1>0, <1>1, <1>2, <1>3, <1>4, StepKinds, ArriveKeeps, QuietKeeps,
       ElsewhereKeeps
       DEF database, vars, Crash

LEMMA MilestoneMoves ==
    ASSUME TypeInv, CountedSome, [Next]_vars, NEW s \in Shipments,
           NEW t \in Milestones, events'[s][t] > events[s][t]
    PROVE  \E v \in activeVehicles(s) :
               vehicle'[v].status = t /\ vehicle[v].status # t
  <1>1. PICK w \in Workers : /\ request[w] # NoRequest
                             /\ request[w].handler \in Movers
                             /\ request[w].phase = "writing"
                             /\ request[w].shipment = s
                             /\ request[w].target = t
                             /\ MoveVehicles(w)
    BY MilestoneByMover
  <1>2. /\ request[w].counted > 0
        /\ Cardinality(movedVehicles(w)) = request[w].counted
    BY <1>1 DEF CountedSome, MoveVehicles, movedAsCounted
  <1>3. movedVehicles(w) # {}
    BY <1>2, FS_EmptySet
  <1>4. PICK v \in activeVehicles(s) :
            /\ v \in movedVehicles(w)
            /\ vehicle[v].status = requiredVehicleStatus(t)
    BY <1>1, <1>3 DEF movedVehicles
  <1>5. vehicle'[v].status = t
    BY <1>1, <1>4 DEF MoveVehicles, activeVehicles, TypeInv, TypeOK, Vehicle
  <1>6. requiredVehicleStatus(t) # t
    BY DEF requiredVehicleStatus, Milestones
  <1>7. QED
    BY <1>4, <1>5, <1>6

\* No shipment is logged as loaded, departed or arrived without a vehicle of
\* its own that the same transaction moves, for any number of vehicle requests
\* that move, deactivate and remove vehicles between the count and the write.
THEOREM NothingTravelsEmptyAlways == FleetSpec => NothingTravelsEmpty
  <1> DEFINE Inv == FleetRowsInv /\ CountedSome
  <1>1. FleetInit => Inv
    BY FleetRowsInit DEF FleetInit, CountedSome
  <1>2. FleetRowsInv /\ CountedSome /\ [FleetNext]_fleetVars
            => TypeInv /\ ([Next]_vars \/ UNCHANGED <<events, request>>)
    <2> SUFFICES ASSUME FleetTypeInv, [FleetNext]_fleetVars
                 PROVE  TypeInv /\ ([Next]_vars \/ UNCHANGED <<events, request>>)
      BY DEF FleetRowsInv
    <2>1. ASSUME NEW e \in Editors, Writes(e)
          PROVE  UNCHANGED <<events, request>>
      BY <2>1 DEF Writes, CommitCreateVehicle, CommitUpdateVehicle,
                  CommitRemoveVehicle
    <2>2. QED
      BY <2>1, FleetHasTypeInv, FleetStepKinds, RequestsInv, ChecksInv
         DEF ShipmentStep, fleetVars
  <1>3. Inv /\ [FleetNext]_fleetVars => Inv'
    BY <1>2, FleetRowsNext, CountedSomeStep DEF CountedSome
  <1>4. Inv /\ [FleetNext]_fleetVars =>
            [\A s \in Shipments, t \in {"LOADED", "IN_TRANSIT", "ARRIVED"} :
                events'[s][t] > events[s][t] =>
                    \E v \in activeVehicles(s) :
                        vehicle'[v].status = t /\ vehicle[v].status # t
            ]_fleetVars
    <2> SUFFICES ASSUME FleetRowsInv, CountedSome, [FleetNext]_fleetVars,
                        NEW s \in Shipments, NEW t \in Milestones,
                        events'[s][t] > events[s][t]
                 PROVE  \E v \in activeVehicles(s) :
                            vehicle'[v].status = t /\ vehicle[v].status # t
      BY DEF Milestones
    <2>1. TypeInv /\ events[s][t] \in Nat
      BY <1>2 DEF TypeInv, TypeOK, Milestones, controlledWorkflowStatuses
    <2>2. [Next]_vars
      BY <1>2, <2>1
    <2>3. QED
      BY <2>1, <2>2, MilestoneMoves
  <1>5. QED
    BY <1>1, <1>3, <1>4, PTL DEF FleetSpec, NothingTravelsEmpty

=============================================================================
