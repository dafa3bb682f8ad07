-------------------------- MODULE ShipmentWorkflow --------------------------
(***************************************************************************)
(* ShipmentsService (apps/api/src/shipments/shipments.service.ts): the     *)
(* dedicated workflow endpoints, the generic update, create and remove, as *)
(* concurrent requests over one database.                                  *)
(*                                                                         *)
(* A handler reads the shipment (findOne), checks it, reads again for the  *)
(* readiness check, and only then opens a transaction.  Handlers of one    *)
(* API process interleave at every await, so what a handler checked may be *)
(* stale when it writes.  A worker is one request in flight; each step of  *)
(* a worker is what happens between two awaits that another request can    *)
(* observe:                                                                *)
(*                                                                         *)
(*   idle -> checking -> counting -> writing -> notifying -> idle          *)
(*                                                                         *)
(* Inside a transaction the vehicle count is a step of its own: at READ    *)
(* COMMITTED nothing keeps the rows it saw as they are.  From updateMany   *)
(* on, the rows written are locked until commit, so the rest of the        *)
(* transaction is one step.  A request that is refused changes nothing: a  *)
(* refusal on arrival is a stuttering step, a later one frees the worker.  *)
(*                                                                         *)
(* The vehicles stay attached to their shipments here; module Fleet adds   *)
(* the endpoints of VehiclesService that create, move and remove them.     *)
(***************************************************************************)
EXTENDS ShipmentStatuses, FiniteSets

CONSTANTS
    Shipments,      \* shipment identifiers
    Vehicles,       \* vehicle identifiers
    Workers,        \* requests the API process may have in flight
    CreateStatuses, \* values callers give dto.status when creating
    Facts,          \* the readiness facts of a shipment that may vary
    MaxEvents,      \* bound: no request is sent for a status logged so often
    MaxCrashes      \* bound: how often the API process dies

\* getReadiness asks three things of the shipment row and its documents.
\* An instance may fix some of them as satisfied by leaving them out.
ReadinessFacts == {"isActive", "routeComplete", "hasDocument"}

NoShipment == "NO_SHIPMENT"
Unset      == "UNSET"       \* dto.status left out

ASSUME ConstantsAssumption ==
    /\ IsFiniteSet(Vehicles)
    /\ CreateStatuses \subseteq ShipmentStatus
    /\ Facts \subseteq ReadinessFacts
    /\ MaxEvents \in Nat /\ MaxCrashes \in Nat
    /\ NoShipment \notin Shipments

VARIABLES
    status,     \* [Shipments -> RowStatus]: Shipment.status
    facts,      \* [Shipments -> SUBSET Facts]: what getReadiness would find
    vehicle,    \* [Vehicles -> Vehicle row]
    cleared,    \* vehicles with a COMPLETED and APPROVED inspection and no
                \* unresolved critical damage
    events,     \* [Shipments -> [status -> how many STATUS_CHANGED rows]]
    request,    \* [Workers -> the request being served, or NoRequest]
    crashes

\* Kept for the properties; no guard reads them.
VARIABLES
    untold,     \* [Shipments -> the milestone last logged, while no message
                \* told the customer of it and no error its caller]
    withdrawn   \* [Workers -> clearances of vehicles and facts taken back
                \* since the request passed its readiness check]

database == <<status, facts, vehicle, cleared, events>>
history  == <<untold, withdrawn>>
vars == <<database, history, request, crashes>>

-----------------------------------------------------------------------------
(* Rows and requests *)

VehicleStatus ==
    {"REGISTERED", "RECEIVED", "INSPECTED", "READY_FOR_LOADING", "LOADED",
     "IN_TRANSIT", "ARRIVED", "CUSTOMS_CLEARANCE", "READY_FOR_DELIVERY",
     "DELIVERED", "CANCELLED"}

Vehicle == [shipment: Shipments \cup {NoShipment},
            isActive: BOOLEAN,
            status:   VehicleStatus]

\* What a request asks for: the handler, the shipment and the new status.
Handlers == {"dispatch", "arrival", "customs", "readyForDelivery",
             "delivery", "cancel", "update", "remove"}

NoRequest == [phase |-> "idle"]
InFlight == [phase:    {"checking", "counting", "writing", "notifying"},
             handler:  Handlers,
             shipment: Shipments,
             target:   ShipmentStatus \cup {Unset},
             counted:  Nat]

wasCreated(s) == status[s] # NotCreated  \* faulty: a deleted row still counts
Exists(s) == status[s] \in ShipmentStatus

\* The active vehicles of shipment s: what vehicle.count and updateMany select.
activeVehicles(s) ==
    {v \in Vehicles : vehicle[v].shipment = s /\ vehicle[v].isActive}

\* Faulty: one inspected vehicle is enough.
anyCleared(s) == facts[s] = Facts /\ activeVehicles(s) \cap cleared # {}

\* getReadiness(s).isReady: the conjunction of its blocking checks.
isReady(s) ==
    /\ facts[s] = Facts
    /\ activeVehicles(s) # {}
    /\ activeVehicles(s) \subseteq cleared

\* What shipment s lacks of it.
unready(s) == (Facts \ facts[s]) \cup (activeVehicles(s) \ cleared)

TypeOK ==
    /\ status \in [Shipments -> RowStatus]
    /\ facts \in [Shipments -> SUBSET Facts]
    /\ vehicle \in [Vehicles -> Vehicle]
    /\ cleared \subseteq Vehicles
    /\ events \in [Shipments -> [controlledWorkflowStatuses -> Nat]]
    /\ request \in [Workers -> InFlight \cup {NoRequest}]
    /\ crashes \in Nat
    /\ untold \in [Shipments -> SUBSET controlledWorkflowStatuses]
    /\ withdrawn \in [Workers -> SUBSET (Vehicles \cup Facts)]

\* Vehicles that were received in the yard, each attached to a shipment that
\* still is a draft or not registered at all; nothing inspected, uploaded or
\* logged yet.
Init ==
    /\ vehicle \in [Vehicles -> [shipment: Shipments \cup {NoShipment},
                                 isActive: BOOLEAN, status: {"RECEIVED"}]]
    /\ status \in [Shipments -> {"DRAFT", NotCreated}]
    /\ \A v \in Vehicles : vehicle[v].shipment # NoShipment =>
                             status[vehicle[v].shipment] = "DRAFT"
    /\ facts = [s \in Shipments |-> Facts \ {"hasDocument"}]
    /\ cleared = {}
    /\ events = [s \in Shipments |->
                    [t \in controlledWorkflowStatuses |-> 0]]
    /\ request = [w \in Workers |-> NoRequest]
    /\ crashes = 0
    /\ untold = [s \in Shipments |-> {}]
    /\ withdrawn = [w \in Workers |-> {}]

-----------------------------------------------------------------------------
(* The parts the handlers share.  A definition marked faulty is a plausible  *)
(* mistake in the one after it, kept to show which property notices it; no   *)
(* action uses it.                                                           *)

Serving(w, phase, handler) ==
    /\ request[w] # NoRequest
    /\ request[w].phase = phase
    /\ request[w].handler = handler

\* The request is answered, with a result or with an error.
Answer(w) ==
    /\ request' = [request EXCEPT ![w] = NoRequest]
    /\ withdrawn' = [withdrawn EXCEPT ![w] = {}]

Proceed(w, phase) ==
    /\ request' = [request EXCEPT ![w].phase = phase]
    /\ UNCHANGED withdrawn

\* A request arrives; findOne finds the shipment, the handler's checks of the
\* status it read have passed, and the handler stops at its next await.
Begin(w, handler, s, t, phase) ==
    /\ request[w] = NoRequest
    /\ Exists(s)
    /\ request' = [request EXCEPT ![w] =
                      [phase |-> phase, handler |-> handler, shipment |-> s,
                       target |-> t, counted |-> 0]]
    /\ UNCHANGED <<database, history, crashes>>

\* A workflow endpoint for status t: the transition must be allowed from the
\* status read; assertReadyForStatus follows for the protected statuses.
BeginTransition(w, handler, s, t) ==
    /\ isShipmentTransitionAllowed(status[s], t)
    /\ events[s][t] < MaxEvents
    /\ Begin(w, handler, s, t,
             IF t \in readinessProtectedStatuses THEN "checking" ELSE "writing")

\* shipment.update and shipmentTracking.create, in one transaction.  The
\* update addresses the row by id only: it fails when the row is gone.
RecordStatus(w) ==
    LET s == request[w].shipment
        t == request[w].target
    IN  /\ Exists(s)
        /\ status' = [status EXCEPT ![s] = t]
        /\ events' = [events EXCEPT ![s][t] = @ + 1]
        /\ untold' = [untold EXCEPT ![s] = {t}]
        /\ Proceed(w, "notifying")
        /\ UNCHANGED <<facts, cleared, crashes>>

\* Faulty: a shipment that is not ready is waited for.
AwaitReadiness(w) ==
    /\ request[w] # NoRequest
    /\ request[w].phase = "checking"
    /\ isReady(request[w].shipment)
    /\ Proceed(w, "writing")
    /\ UNCHANGED <<database, untold, crashes>>

\* assertReadyForStatus, with the shipment as it is now.
AssertReadyForStatus(w) ==
    /\ request[w] # NoRequest
    /\ request[w].phase = "checking"
    /\ IF Exists(request[w].shipment) /\ isReady(request[w].shipment)
       THEN Proceed(w, IF request[w].handler \in {"dispatch", "arrival"}
                       THEN "counting" ELSE "writing")
       ELSE Answer(w)
    /\ UNCHANGED <<database, untold, crashes>>

\* The first query of the dispatch and arrival transactions.
CountActiveVehicles(w) ==
    LET found == activeVehicles(request[w].shipment)
    IN  /\ request[w] # NoRequest
        /\ request[w].phase = "counting"
        /\ IF found = {}
           THEN Answer(w)
           ELSE /\ request' = [request EXCEPT ![w].phase = "writing",
                                             ![w].counted = Cardinality(found)]
                /\ UNCHANGED withdrawn
        /\ UNCHANGED <<database, untold, crashes>>

\* The vehicle status that updateMany requires for the shipment status t.
requiredVehicleStatus(t) ==
    CASE t = "LOADED"     -> "READY_FOR_LOADING"
      [] t = "IN_TRANSIT" -> "LOADED"
      [] OTHER            -> "IN_TRANSIT"

\* The rows updateMany changes.
movedVehicles(w) ==
    {v \in activeVehicles(request[w].shipment) :
        vehicle[v].status = requiredVehicleStatus(request[w].target)}

\* Faulty: it is enough that a vehicle moved, or that not too many did.
movedAny(w)    == movedVehicles(w) # {}
movedAtMost(w) == Cardinality(movedVehicles(w)) <= request[w].counted

\* Every vehicle that was counted must have been changed, or all roll back.
movedAsCounted(w) == Cardinality(movedVehicles(w)) = request[w].counted

MoveVehicles(w) ==
    /\ movedAsCounted(w)
    /\ vehicle' = [v \in Vehicles |->
                      IF v \in movedVehicles(w)
                      THEN [vehicle[v] EXCEPT !.status = request[w].target]
                      ELSE vehicle[v]]

\* The transaction fails and leaves nothing behind: the shipment is gone, the
\* vehicles are not the ones counted, or a foreign key refuses the delete (a
\* vehicle or an invoice, the latter kept outside this module, refers to it).
Rollback(w) ==
    /\ request[w] # NoRequest
    /\ request[w].phase = "writing"
    /\ \/ ~Exists(request[w].shipment)
       \/ request[w].handler \in {"dispatch", "arrival"} /\ ~movedAsCounted(w)
       \/ request[w].handler = "remove"
    /\ Answer(w)
    /\ UNCHANGED <<database, untold, crashes>>

\* Faulty: the notification is forgotten.
AnswerWithoutNotice(w) ==
    /\ request[w] # NoRequest
    /\ request[w].phase = "notifying"
    /\ Answer(w)
    /\ UNCHANGED <<database, untold, crashes>>

\* notifyShipmentStatusChange, after the commit: the shipment is read again
\* and the status found is announced, unless the row is gone.
NotifyShipmentStatusChange(w) ==
    LET s == request[w].shipment
    IN  /\ request[w] # NoRequest
        /\ request[w].phase = "notifying"
        /\ untold' = IF Exists(s) THEN [untold EXCEPT ![s] = @ \ {status[s]}]
                                 ELSE untold
        /\ Answer(w)
        /\ UNCHANGED <<database, crashes>>

\* What the errors that end the requests W tell the callers who asked for a
\* milestone of s, when it is logged already.
toldByErrors(W, s) ==
    {request[w].target : w \in {x \in W : /\ request[x] # NoRequest
                                         /\ request[x].phase = "notifying"
                                         /\ request[x].shipment = s}}

EndWithError(W) ==
    untold' = [s \in Shipments |-> untold[s] \ toldByErrors(W, s)]

\* A query of the request fails: the transaction it belongs to rolls back and
\* the caller gets the error.  After the commit it is the read above (or the
\* commit itself whose answer was lost): the milestone is logged and will not
\* be announced.
Fail(w) ==
    /\ request[w] # NoRequest
    /\ EndWithError({w})
    /\ Answer(w)
    /\ UNCHANGED <<database, crashes>>

\* The request passed its readiness check of s and will not look again.
reliesOnCheck(w, s) ==
    /\ request[w] # NoRequest
    /\ request[w].phase \in {"counting", "writing"}
    /\ request[w].handler \notin {"update", "remove"}
    /\ request[w].shipment = s
    /\ request[w].target \in readinessProtectedStatuses

\* Something the readiness of s may rest on is no longer there.
TakeBack(s, lost) ==
    withdrawn' = [w \in Workers |-> IF reliesOnCheck(w, s)
                                     THEN withdrawn[w] \cup lost
                                     ELSE withdrawn[w]]

-----------------------------------------------------------------------------
(* The workflow endpoints *)

BeginDispatch(w, s, t) ==
    /\ t \in {"LOADED", "IN_TRANSIT"}
    /\ BeginTransition(w, "dispatch", s, t)

CommitDispatch(w) ==
    /\ Serving(w, "writing", "dispatch")
    /\ MoveVehicles(w)
    /\ RecordStatus(w)

BeginMarkArrived(w, s) == BeginTransition(w, "arrival", s, "ARRIVED")

CommitMarkArrived(w) ==
    /\ Serving(w, "writing", "arrival")
    /\ MoveVehicles(w)
    /\ RecordStatus(w)

BeginCustomsClearance(w, s) ==
    BeginTransition(w, "customs", s, "CUSTOMS_CLEARANCE")

CommitCustomsClearance(w) ==
    /\ Serving(w, "writing", "customs")
    /\ RecordStatus(w)
    /\ UNCHANGED vehicle

BeginMarkReadyForDelivery(w, s) ==
    BeginTransition(w, "readyForDelivery", s, "READY_FOR_DELIVERY")

CommitMarkReadyForDelivery(w) ==
    /\ Serving(w, "writing", "readyForDelivery")
    /\ RecordStatus(w)
    /\ UNCHANGED vehicle

BeginMarkDelivered(w, s) == BeginTransition(w, "delivery", s, "DELIVERED")

CommitMarkDelivered(w) ==
    /\ Serving(w, "writing", "delivery")
    /\ RecordStatus(w)
    /\ UNCHANGED vehicle

BeginCancel(w, s) == BeginTransition(w, "cancel", s, "CANCELLED")

CommitCancel(w) ==
    /\ Serving(w, "writing", "cancel")
    /\ RecordStatus(w)
    /\ UNCHANGED vehicle

-----------------------------------------------------------------------------
(* The generic endpoints *)

\* One transaction inserts the row; callers may give it any status.
Create(s, t) ==
    /\ status[s] = NotCreated
    /\ status' = [status EXCEPT ![s] = t]
    /\ \E f \in SUBSET (Facts \ {"hasDocument"}) :
           facts' = [facts EXCEPT ![s] = f]
    /\ UNCHANGED <<vehicle, cleared, events, history, request, crashes>>

\* Faulty: the controlled statuses are not protected.
updateAcceptsAnyStep(s, t) ==
    t \in {Unset, status[s]} \/ isShipmentTransitionAllowed(status[s], t)

\* The status the generic update accepts: none, the one just read, or an
\* allowed successor when neither of the two is a controlled status.
updateAccepts(s, t) ==
    \/ t \in {Unset, status[s]}
    \/ /\ {status[s], t} \cap controlledWorkflowStatuses = {}
       /\ isShipmentTransitionAllowed(status[s], t)

BeginUpdate(w, s, t) ==
    /\ updateAccepts(s, t)
    /\ Begin(w, "update", s, t, "writing")

\* prepareData hands over the status only when it was sent.
writeWhateverSent(s, t) == t             \* faulty: undefined is written
writtenStatus(s, t) == IF t = Unset THEN status[s] ELSE t

\* The row is written by id with what the caller sent: status if given, and
\* any of the fields readiness depends on.  No event, no notification.
CommitUpdate(w) ==
    LET s == request[w].shipment
        t == request[w].target
    IN  /\ Serving(w, "writing", "update")
        /\ Exists(s)
        /\ status' = [status EXCEPT ![s] = writtenStatus(s, t)]
        /\ \E f \in SUBSET Facts :
               /\ "hasDocument" \in f <=> "hasDocument" \in facts[s]
               /\ facts' = [facts EXCEPT ![s] = f]
               /\ TakeBack(s, facts[s] \ f)
        /\ request' = [request EXCEPT ![w] = NoRequest]
        /\ UNCHANGED <<vehicle, cleared, events, untold, crashes>>

BeginRemove(w, s) == Begin(w, "remove", s, Unset, "writing")

\* A hard delete: refused while a vehicle row refers to the shipment; the
\* tracking events and documents go with it.
CommitRemove(w) ==
    LET s == request[w].shipment
    IN  /\ Serving(w, "writing", "remove")
        /\ Exists(s)
        /\ \A v \in Vehicles : vehicle[v].shipment # s
        /\ status' = [status EXCEPT ![s] = Deleted]
        /\ facts' = [facts EXCEPT ![s] = {}]
        /\ events' = [events EXCEPT
                         ![s] = [t \in controlledWorkflowStatuses |-> 0]]
        /\ untold' = [untold EXCEPT ![s] = {}]
        /\ Answer(w)
        /\ UNCHANGED <<vehicle, cleared, crashes>>

-----------------------------------------------------------------------------
(* Inspections and documents, as far as readiness depends on them *)

\* Approving a completed inspection of vehicle v moves the vehicle on when it
\* is in the status the kind of inspection applies to.  The vehicle is cleared
\* unless an unresolved critical damage report stands against it.
ApproveInspection(v, from, to) ==
    /\ <<from, to>> \in {<<"RECEIVED", "INSPECTED">>,
                         <<"INSPECTED", "READY_FOR_LOADING">>}
    /\ vehicle[v].shipment # NoShipment
    /\ vehicle' = IF vehicle[v].status = from
                  THEN [vehicle EXCEPT ![v].status = to]
                  ELSE vehicle
    /\ cleared' \in {cleared, cleared \cup {v}}
    /\ UNCHANGED <<status, facts, events, history, request, crashes>>

\* The approval is revoked; the vehicle keeps its status.
RevokeApproval(v) ==
    /\ v \in cleared
    /\ cleared' = cleared \ {v}
    /\ TakeBack(vehicle[v].shipment, {v})
    /\ UNCHANGED <<status, facts, vehicle, events, untold, request, crashes>>

UploadDocument(s) ==
    /\ Exists(s)
    /\ "hasDocument" \in Facts \ facts[s]
    /\ facts' = [facts EXCEPT ![s] = @ \cup {"hasDocument"}]
    /\ UNCHANGED <<status, vehicle, cleared, events, history, request, crashes>>

\* Only the removal of the last document shows.
RemoveDocument(s) ==
    /\ "hasDocument" \in facts[s]
    /\ facts' = [facts EXCEPT ![s] = @ \ {"hasDocument"}]
    /\ TakeBack(s, {"hasDocument"})
    /\ UNCHANGED <<status, vehicle, cleared, events, untold, request, crashes>>

\* The API process dies and is restarted by docker: the requests in flight
\* are gone, a transaction that was open rolls back, the callers lose their
\* connections.
Crash ==
    /\ crashes < MaxCrashes
    /\ crashes' = crashes + 1
    /\ EndWithError(Workers)
    /\ request' = [w \in Workers |-> NoRequest]
    /\ withdrawn' = [w \in Workers |-> {}]
    /\ UNCHANGED database

-----------------------------------------------------------------------------
(* The specification *)

Arrive(w, s) ==
    \/ \E t \in ShipmentStatus : BeginDispatch(w, s, t)
    \/ BeginMarkArrived(w, s)
    \/ BeginCustomsClearance(w, s)
    \/ BeginMarkReadyForDelivery(w, s)
    \/ BeginMarkDelivered(w, s)
    \/ BeginCancel(w, s)
    \/ \E t \in ShipmentStatus \cup {Unset} : BeginUpdate(w, s, t)
    \/ BeginRemove(w, s)

Serve(w) ==
    \/ AssertReadyForStatus(w)
    \/ CountActiveVehicles(w)
    \/ CommitDispatch(w)
    \/ CommitMarkArrived(w)
    \/ CommitCustomsClearance(w)
    \/ CommitMarkReadyForDelivery(w)
    \/ CommitMarkDelivered(w)
    \/ CommitCancel(w)
    \/ CommitUpdate(w)
    \/ CommitRemove(w)
    \/ Rollback(w)
    \/ NotifyShipmentStatusChange(w)

Environment ==
    \/ \E s \in Shipments, t \in CreateStatuses : Create(s, t)
    \/ \E v \in Vehicles :
           \/ ApproveInspection(v, "RECEIVED", "INSPECTED")
           \/ ApproveInspection(v, "INSPECTED", "READY_FOR_LOADING")
           \/ RevokeApproval(v)
    \/ \E s \in Shipments : UploadDocument(s) \/ RemoveDocument(s)
    \/ \E w \in Workers : Fail(w)
    \/ Crash

Next ==
    \/ \E w \in Workers, s \in Shipments : Arrive(w, s)
    \/ \E w \in Workers : Serve(w)
    \/ Environment

Spec == Init /\ [][Next]_vars

\* The event loop resumes every handler whose await has resolved.
FairSpec == Spec /\ \A w \in Workers : WF_vars(Serve(w))

-----------------------------------------------------------------------------
(* What holds however the requests interleave *)

\* The active vehicles of shipment s all have a status of S, and the three
\* milestones that move vehicles were logged l, t and a times.
fleetAt(s, S, l, t, a) ==
    /\ \A v \in activeVehicles(s) : vehicle[v].status \in S
    /\ events[s]["LOADED"] = l
    /\ events[s]["IN_TRANSIT"] = t
    /\ events[s]["ARRIVED"] = a

\* The vehicles of a shipment move together: loading, departure and arrival
\* are each logged at most once and in this order, and every active vehicle
\* stands exactly where the log says, whatever stale checks the requests that
\* raced for the shipment had passed and whichever of them rolled back.
FleetFollowsLog ==
    \A s \in Shipments :
        \/ fleetAt(s, {"RECEIVED", "INSPECTED", "READY_FOR_LOADING"}, 0, 0, 0)
        \/ fleetAt(s, {"LOADED"}, 1, 0, 0)
        \/ fleetAt(s, {"IN_TRANSIT"}, 1, 1, 0)
        \/ fleetAt(s, {"ARRIVED"}, 1, 1, 1)

\* No shipment is loaded unready: what it lacks of the readiness facts and of
\* the clearances of its active vehicles when its loading is logged was taken
\* back after the request that loads it had passed its own readiness check.
LoadedShipmentWasReady ==
    [][\A s \in Shipments : events'[s]["LOADED"] > events[s]["LOADED"] =>
           \E w \in Workers :
               /\ request[w] # NoRequest /\ request[w].shipment = s
               /\ request'[w] # request[w]
               /\ unready(s) \subseteq withdrawn[w]]_vars

\* The tracking page shows every operational status a shipment is in: no
\* handler, the generic update included, leaves a shipment in a controlled
\* status that was never logged.
StatusHasEvent ==
    \A s \in Shipments :
        status[s] \in controlledWorkflowStatuses => events[s][status[s]] > 0

\* Nothing of a deleted shipment comes back: a handler that read the shipment
\* before it was deleted writes neither the row nor a tracking event for it.
DeletedStaysDeleted ==
    [][\A s \in Shipments : status[s] = Deleted =>
           status'[s] = Deleted /\ events'[s] = events[s]
                              /\ facts'[s] = facts[s]]_vars

\* A request is always answered: no handler waits for what another one holds.
RequestsAnswered ==
    \A w \in Workers : request[w] # NoRequest ~> request[w] = NoRequest

-----------------------------------------------------------------------------
(* What holds when a request is served only after the one before it *)

\* The status of the shipment and of its active vehicles agree.
FleetFollowsStatus ==
    \A s \in Shipments : \A v \in activeVehicles(s) :
        /\ status[s] \in {"LOADED", "IN_TRANSIT"} => vehicle[v].status = status[s]
        /\ status[s] \in {"ARRIVED", "CUSTOMS_CLEARANCE", "READY_FOR_DELIVERY",
                          "DELIVERED"} => vehicle[v].status = "ARRIVED"

\* No milestone goes by in silence: one that was logged is announced to the
\* customer, or the request that logged it ends with an error (a query fails
\* after the commit, the process dies) that its caller sees.
MilestonesAnnounced ==
    \A s \in Shipments, t \in controlledWorkflowStatuses :
        t \in untold[s] ~> t \notin untold[s]

\* With the requests one after the other, the handlers implement the
\* lifecycle: the log and the status change as if each request was one step.
Lifecycle == INSTANCE ShipmentLifecycle
ImplementsLifecycle == Lifecycle!Spec

-----------------------------------------------------------------------------
(* What the tests and the README say of the endpoints, and concurrent       *)
(* requests break                                                           *)

\* "keeps both DELIVERED and CANCELLED terminal".
TerminalStatusesAreFinal ==
    [][\A s \in Shipments : isShipmentTerminalStatus(status[s]) =>
           status'[s] \in {status[s], Deleted}]_status

=============================================================================
