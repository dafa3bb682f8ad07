------------------------- MODULE VehicleInspections -------------------------
(***************************************************************************)
(* VehicleInspectionsService                                               *)
(* (apps/api/src/vehicle-inspections/vehicle-inspections.service.ts): the  *)
(* inspections of the vehicles, their approval and their damage reports,   *)
(* as concurrent requests.                                                 *)
(*                                                                         *)
(* Every handler reads the row (findOne), decides, and writes in a later   *)
(* step: what it decided on, and what it records as the value before, is   *)
(* the row as it was read.  A history row and the row it is about are      *)
(* written in one transaction, hence in one step; the handlers of damage   *)
(* reports use no transaction, so each of their queries is a step, and     *)
(* any query may fail after the ones before it took effect.                *)
(*                                                                         *)
(* Left out: the contents of a report, so also the endpoint that edits     *)
(* one, and the inspection number, which may be taken: a create that fails *)
(* changes nothing.  A vehicle that has inspections is not deleted here.   *)
(***************************************************************************)
EXTENDS InspectionStatuses, FiniteSets

CONSTANTS
    Inspections,  \* inspection identifiers
    Vehicles,     \* vehicle identifiers
    Reports,      \* damage report identifiers
    Workers,      \* requests the API process may have in flight
    Types,        \* the types of inspection callers use
    Flags,        \* values callers give dto.hasVisibleDamage
    MaxHistory,   \* bound: no request is sent that extends a longer history
    MaxMoves      \* bound: how often others move a vehicle

InspectionType == {"RECEIVING", "PRE_LOADING", "POST_LOADING", "ARRIVAL",
                   "CUSTOMS", "DELIVERY", "GENERAL"}
YesNo == {"YES", "NO"}
Unset == "UNSET"  \* a field that the request leaves out

ASSUME InspectionConstants ==
    /\ Types \subseteq InspectionType
    /\ Flags \subseteq YesNo
    /\ MaxHistory \in Nat /\ MaxMoves \in Nat
    /\ IsFiniteSet(Inspections) /\ IsFiniteSet(Vehicles) /\ IsFiniteSet(Reports)
    /\ Unset \notin Vehicles
    /\ Null \notin Reports
    /\ NotCreated \notin Inspections /\ Deleted \notin Inspections

VARIABLES
    inspection,       \* [Inspections -> row, Absent or Gone]
    statusHistory,    \* [Inspections -> Seq(StatusEntry)], as committed
    approvalHistory,  \* [Inspections -> Seq(ApprovalEntry)], as committed
    report,           \* [Reports -> its inspection, NotCreated or Deleted]
    vehicleStatus,    \* [Vehicles -> VehicleStatus]
    request,          \* [Workers -> the request being served, or NoRequest]
    unflagged,        \* history: reports whose request failed after their
                      \* insert, with its error, before it set the flag
    moves

histories == <<statusHistory, approvalHistory>>
database == <<inspection, histories, report, vehicleStatus>>
vars == <<database, request, unflagged, moves>>

-----------------------------------------------------------------------------
(* Rows and requests *)

\* The part of VehicleStatus that approvals deal with, and what follows it.
VehicleStatus == {"RECEIVED", "INSPECTED", "READY_FOR_LOADING", "LOADED"}

Row == [vehicleId:        Vehicles,
        type:             Types,
        status:           InspectionStatus,
        approvalStatus:   InspectionApprovalStatus,
        hasVisibleDamage: YesNo]

Absent == [status |-> NotCreated]
Gone   == [status |-> Deleted]

Exists(i) == inspection[i].status \in InspectionStatus

\* UpdateVehicleInspectionDto, as far as it is modelled; changeStatus sends
\* the status alone.
Dto == [vehicleId:        Vehicles \cup {Unset},
        type:             Types \cup {Unset},
        status:           InspectionStatus \cup {Unset},
        hasVisibleDamage: Flags \cup {Unset}]
NothingSent == [vehicleId |-> Unset, type |-> Unset, status |-> Unset,
                hasVisibleDamage |-> Unset]

Handlers == {"update", "changeStatus", "approve", "reject", "revokeApproval",
             "remove", "createDamageReport", "removeDamageReport"}

NoRequest == [step |-> "idle"]
InFlight == [step:       {"writing", "flagging", "counting", "clearing"},
             handler:    Handlers,
             inspection: Inspections,
             seen:       Row,
             sent:       Dto,
             report:     Reports \cup {Null}]

reportsOf(i) == {r \in Reports : report[r] = i}

TypeOK ==
    /\ inspection \in [Inspections -> Row \cup {Absent, Gone}]
    /\ statusHistory \in [Inspections -> Seq(StatusEntry)]
    /\ approvalHistory \in [Inspections -> Seq(ApprovalEntry)]
    /\ report \in [Reports -> Inspections \cup {NotCreated, Deleted}]
    /\ vehicleStatus \in [Vehicles -> VehicleStatus]
    /\ request \in [Workers -> InFlight \cup {NoRequest}]
    /\ unflagged \subseteq Reports
    /\ moves \in Nat

Init ==
    /\ inspection = [i \in Inspections |-> Absent]
    /\ statusHistory = [i \in Inspections |-> <<>>]
    /\ approvalHistory = [i \in Inspections |-> <<>>]
    /\ report = [r \in Reports |-> NotCreated]
    /\ vehicleStatus = [v \in Vehicles |-> "RECEIVED"]
    /\ request = [w \in Workers |-> NoRequest]
    /\ unflagged = {}
    /\ moves = 0

-----------------------------------------------------------------------------
(* The parts the handlers share.  A definition marked faulty is a plausible  *)
(* mistake in the one after it, kept to show which property notices it; no   *)
(* action uses it.                                                           *)

Answer(w) == request' = [request EXCEPT ![w] = NoRequest]

Serving(w, step, handler) ==
    /\ request[w] # NoRequest
    /\ request[w].step = step
    /\ request[w].handler = handler

\* findOne finds the inspection and the checks of the row have passed.
Begin(w, handler, i, sent) ==
    /\ request[w] = NoRequest
    /\ Exists(i)
    /\ request' = [request EXCEPT ![w] =
                      [step |-> "writing", handler |-> handler,
                       inspection |-> i, seen |-> inspection[i],
                       sent |-> sent, report |-> Null]]
    /\ UNCHANGED <<database, unflagged, moves>>

\* A query fails, be it that its row is gone, or the process dies: the request
\* ends with an error, and what its earlier queries wrote stays written.
Fail(w) ==
    /\ request[w] # NoRequest
    /\ unflagged' = IF Serving(w, "flagging", "createDamageReport")
                    THEN unflagged \cup {request[w].report} ELSE unflagged
    /\ Answer(w)
    /\ UNCHANGED <<database, moves>>

statusChanged(row, sent) == sent.status \notin {Unset, row.status}

\* Faulty: any status that was sent is recorded.
recordedWhenSent(history, row, sent) ==
    IF sent.status # Unset
    THEN Append(history, Entry(row.status, sent.status)) ELSE history

\* A change of the status is recorded as a change of the status that was read.
recorded(history, row, sent) ==
    IF statusChanged(row, sent)
    THEN Append(history, Entry(row.status, sent.status)) ELSE history

\* Faulty: a column is written although the request leaves it out.
keptOrSent(sent, kept) == sent

sentOrKept(sent, kept) == IF sent = Unset THEN kept ELSE sent

\* The columns that were sent are written, the others stay as they are now.
written(row, sent) ==
    [row EXCEPT !.vehicleId        = sentOrKept(sent.vehicleId, @),
                !.type             = sentOrKept(sent.type, @),
                !.status           = sentOrKept(sent.status, @),
                !.hasVisibleDamage = sentOrKept(sent.hasVisibleDamage, @)]

\* The transaction of update and changeStatus.
WriteRow(w) ==
    LET i    == request[w].inspection
        sent == request[w].sent
    IN  /\ Exists(i)
        /\ statusHistory' = [statusHistory EXCEPT
                                ![i] = recorded(@, request[w].seen, sent)]
        /\ inspection' = [inspection EXCEPT ![i] = written(@, sent)]
        /\ Answer(w)
        /\ UNCHANGED <<approvalHistory, report, vehicleStatus, unflagged,
                       moves>>

\* What approve, reject and revokeApproval make of the approval.
decision(handler) ==
    CASE handler = "approve" -> "APPROVED"
      [] handler = "reject"  -> "REJECTED"
      [] OTHER               -> "PENDING"

\* Faulty: only one of the two checks is made.
mayDecideAnytime(handler, row) == row.approvalStatus # decision(handler)
mayDecideAgain(handler, row) ==
    handler \in {"approve", "reject"} => row.status = "COMPLETED"

mayDecide(handler, row) ==
    /\ handler \in {"approve", "reject"} => row.status = "COMPLETED"
    /\ row.approvalStatus # decision(handler)

RecordDecision(w) ==
    LET i == request[w].inspection
        d == decision(request[w].handler)
    IN  /\ Exists(i)
        /\ approvalHistory' =
               [approvalHistory EXCEPT
                   ![i] = Append(@, Entry(request[w].seen.approvalStatus, d))]
        /\ inspection' = [inspection EXCEPT ![i].approvalStatus = d]
        /\ Answer(w)
        /\ UNCHANGED <<statusHistory, report, unflagged, moves>>

\* Faulty: updateMany does not ask for the status the vehicle must have.
advancedUnguarded(type, status) ==
    CASE type = "RECEIVING"   -> "INSPECTED"
      [] type = "PRE_LOADING" -> "READY_FOR_LOADING"
      [] OTHER                -> status

\* The status updateMany gives to a vehicle when an inspection is approved.
advanced(type, status) ==
    CASE type = "RECEIVING" /\ status = "RECEIVED" -> "INSPECTED"
      [] type = "PRE_LOADING" /\ status = "INSPECTED" -> "READY_FOR_LOADING"
      [] OTHER -> status

-----------------------------------------------------------------------------
(* The endpoints of an inspection *)

\* One transaction after the vehicle and the number were looked up.  Callers
\* may give the new inspection any status; no visible damage is the default.
Create(i) ==
    /\ inspection[i] = Absent
    /\ \E v \in Vehicles, y \in Types, t \in InspectionStatus, f \in Flags \cup {"NO"} :
           /\ inspection' = [inspection EXCEPT ![i] =
                  [vehicleId |-> v, type |-> y, status |-> t,
                   approvalStatus |-> "PENDING", hasVisibleDamage |-> f]]
           /\ statusHistory' =
                  [statusHistory EXCEPT ![i] = <<Entry(Null, t)>>]
    /\ UNCHANGED <<approvalHistory, report, vehicleStatus, request,
                   unflagged, moves>>

BeginUpdate(w, i, sent) ==
    /\ statusChanged(inspection[i], sent) =>
           /\ sent.status \in allowedTransitions(inspection[i].status)
           /\ Len(statusHistory[i]) < MaxHistory
    /\ Begin(w, "update", i, sent)

CommitUpdate(w) == Serving(w, "writing", "update") /\ WriteRow(w)

BeginChangeStatus(w, i, t) ==
    /\ t \in allowedTransitions(inspection[i].status)
    /\ Len(statusHistory[i]) < MaxHistory
    /\ Begin(w, "changeStatus", i, [NothingSent EXCEPT !.status = t])

CommitChangeStatus(w) == Serving(w, "writing", "changeStatus") /\ WriteRow(w)

BeginDecision(w, handler, i) ==
    /\ mayDecide(handler, inspection[i])
    /\ Len(approvalHistory[i]) < MaxHistory
    /\ Begin(w, handler, i, NothingSent)

\* The vehicle that moves is the one the inspection was read with.
CommitApprove(w) ==
    LET seen == request[w].seen
    IN  /\ Serving(w, "writing", "approve")
        /\ vehicleStatus' = [vehicleStatus EXCEPT
                                ![seen.vehicleId] = advanced(seen.type, @)]
        /\ RecordDecision(w)

CommitReject(w) ==
    /\ Serving(w, "writing", "reject")
    /\ RecordDecision(w)
    /\ UNCHANGED vehicleStatus

\* The vehicle keeps the status that the approval gave it.
CommitRevokeApproval(w) ==
    /\ Serving(w, "writing", "revokeApproval")
    /\ RecordDecision(w)
    /\ UNCHANGED vehicleStatus

BeginRemove(w, i) == Begin(w, "remove", i, NothingSent)

\* Histories and damage reports are deleted along.
CommitRemove(w) ==
    LET i == request[w].inspection
    IN  /\ Serving(w, "writing", "remove")
        /\ Exists(i)
        /\ inspection' = [inspection EXCEPT ![i] = Gone]
        /\ statusHistory' = [statusHistory EXCEPT ![i] = <<>>]
        /\ approvalHistory' = [approvalHistory EXCEPT ![i] = <<>>]
        /\ report' = [r \in Reports |->
                         IF report[r] = i THEN Deleted ELSE report[r]]
        /\ Answer(w)
        /\ UNCHANGED <<vehicleStatus, unflagged, moves>>

-----------------------------------------------------------------------------
(* The endpoints of a damage report *)

SetFlag(w, flag) ==
    LET i == request[w].inspection
    IN  /\ Exists(i)
        /\ inspection' = [inspection EXCEPT ![i].hasVisibleDamage = flag]
        /\ Answer(w)
        /\ UNCHANGED <<histories, report, vehicleStatus, unflagged, moves>>

Proceed(w, step) == request' = [request EXCEPT ![w].step = step]

BeginCreateDamageReport(w, i) == Begin(w, "createDamageReport", i, NothingSent)

InsertDamageReport(w, r) ==
    /\ Serving(w, "writing", "createDamageReport")
    /\ Exists(request[w].inspection)
    /\ report[r] = NotCreated
    /\ report' = [report EXCEPT ![r] = request[w].inspection]
    /\ request' = [request EXCEPT ![w].step = "flagging", ![w].report = r]
    /\ UNCHANGED <<inspection, histories, vehicleStatus, unflagged, moves>>

FlagDamage(w) ==
    /\ Serving(w, "flagging", "createDamageReport")
    /\ SetFlag(w, "YES")

\* Only the report is read; the inspection it belongs to never changes.
BeginRemoveDamageReport(w, r) ==
    /\ request[w] = NoRequest
    /\ report[r] \in Inspections
    /\ request' = [request EXCEPT ![w] =
                      [step |-> "writing", handler |-> "removeDamageReport",
                       inspection |-> report[r],
                       seen |-> inspection[report[r]],
                       sent |-> NothingSent, report |-> r]]
    /\ UNCHANGED <<database, unflagged, moves>>

DeleteDamageReport(w) ==
    LET r == request[w].report
    IN  /\ Serving(w, "writing", "removeDamageReport")
        /\ report[r] \in Inspections
        /\ report' = [report EXCEPT ![r] = Deleted]
        /\ Proceed(w, "counting")
        /\ UNCHANGED <<inspection, histories, vehicleStatus, unflagged, moves>>

\* Faulty: the flag is cleared although reports remain.
clearsAlways(remaining) == TRUE

clearsFlag(remaining) == Cardinality(remaining) = 0

CountRemainingReports(w) ==
    /\ Serving(w, "counting", "removeDamageReport")
    /\ IF clearsFlag(reportsOf(request[w].inspection))
       THEN Proceed(w, "clearing")
       ELSE Answer(w)
    /\ UNCHANGED <<database, unflagged, moves>>

ClearFlag(w) ==
    /\ Serving(w, "clearing", "removeDamageReport")
    /\ SetFlag(w, "NO")

-----------------------------------------------------------------------------
(* The specification *)

\* How far a vehicle has come.
stage(status) ==
    CASE status = "RECEIVED"          -> 0
      [] status = "INSPECTED"         -> 1
      [] status = "READY_FOR_LOADING" -> 2
      [] status = "LOADED"            -> 3

\* The vehicle and shipment endpoints (module Fleet) move a vehicle one stage
\* on or, when they overlap, back.
MoveVehicle(v, to) ==
    /\ moves < MaxMoves
    /\ stage(to) <= stage(vehicleStatus[v]) + 1
    /\ vehicleStatus' = [vehicleStatus EXCEPT ![v] = to]
    /\ moves' = moves + 1
    /\ UNCHANGED <<inspection, histories, report, request, unflagged>>

Arrive(w, i) ==
    \/ \E sent \in Dto : BeginUpdate(w, i, sent)
    \/ \E t \in InspectionStatus : BeginChangeStatus(w, i, t)
    \/ \E h \in {"approve", "reject", "revokeApproval"} :
           BeginDecision(w, h, i)
    \/ BeginRemove(w, i)
    \/ BeginCreateDamageReport(w, i)

Serve(w) ==
    \/ CommitUpdate(w)
    \/ CommitChangeStatus(w)
    \/ CommitApprove(w)
    \/ CommitReject(w)
    \/ CommitRevokeApproval(w)
    \/ CommitRemove(w)
    \/ \E r \in Reports : InsertDamageReport(w, r)
    \/ FlagDamage(w)
    \/ DeleteDamageReport(w)
    \/ CountRemainingReports(w)
    \/ ClearFlag(w)
    \/ Fail(w)

Next ==
    \/ \E i \in Inspections : Create(i)
    \/ \E w \in Workers, i \in Inspections : Exists(i) /\ Arrive(w, i)
    \/ \E w \in Workers, r \in Reports : BeginRemoveDamageReport(w, r)
    \/ \E w \in Workers : Serve(w)
    \/ \E v \in Vehicles, to \in VehicleStatus : MoveVehicle(v, to)

Spec == Init /\ [][Next]_vars

-----------------------------------------------------------------------------
(* What holds however the requests interleave.  Overlapping requests record  *)
(* what they read, so a history need not be a path; the properties do not    *)
(* depend on the order in which overlapping entries are sorted.              *)

\* However stale the row a handler decided on, every change of status that is
\* recorded is an edge of the transition table from a status recorded before
\* it, and the inspection is in no status that its history does not know.
StatusAccountedFor ==
    \A i \in Inspections : Exists(i) =>
        LET history == statusHistory[i]
        IN  /\ Len(history) > 0 /\ history[1].fromStatus = Null
            /\ \A k \in 2 .. Len(history) :
                   /\ history[k].toStatus \in
                          allowedTransitions(history[k].fromStatus)
                   /\ \E j \in 1 .. k - 1 :
                          history[j].toStatus = history[k].fromStatus
            /\ \E k \in 1 .. Len(history) :
                   history[k].toStatus = inspection[i].status

\* The same for the approval: no inspection is approved or rejected without an
\* entry that says so, and every entry names a change from an approval the
\* inspection had.
ApprovalAccountedFor ==
    \A i \in Inspections : Exists(i) =>
        LET history == approvalHistory[i]
            reached(d, n) ==
                d = "PENDING" \/ \E j \in 1 .. n : history[j].toStatus = d
        IN  /\ reached(inspection[i].approvalStatus, Len(history))
            /\ \A k \in 1 .. Len(history) :
                   /\ history[k].fromStatus # history[k].toStatus
                   /\ reached(history[k].fromStatus, k - 1)

\* The stages the vehicles have come forward, and the approvals recorded.
stagesReached ==
    {p \in Vehicles \X (1 .. 3) : p[2] <= stage(vehicleStatus[p[1]])}
approvals ==
    UNION {{i} \X {k \in 1 .. Len(approvalHistory[i]) :
                      approvalHistory[i][k].toStatus = "APPROVED"} :
              i \in Inspections}

\* An approval advances at most one vehicle by one stage, also when the same
\* inspection is approved twice at once, or with the type and the vehicle it
\* had before: the stages the vehicles have come forward are paid for by the
\* approvals recorded and by the steps of the other endpoints.
NoFreeAdvance ==
    (\A i \in Inspections : inspection[i] # Gone) =>
        Cardinality(stagesReached) <= Cardinality(approvals) + moves

-----------------------------------------------------------------------------
(* What holds when a request is served only after the one before it *)

\* With the requests one after the other, the handlers implement the record
\* of InspectionRecord: status, approval and histories change as if each
\* request was one step.
Record == INSTANCE InspectionRecord
              WITH status   <- [i \in Inspections |-> inspection[i].status],
                   approval <- [i \in Inspections |->
                                   IF Exists(i)
                                   THEN inspection[i].approvalStatus
                                   ELSE "PENDING"]
ImplementsInspectionRecord == Record!Spec

\* An inspection shows that there is damage while it has a damage report whose
\* request did not fail half way: whatever is created, removed, edited or fails
\* around it, as long as no update says otherwise (Flags without "NO") and no
\* request is being served.
DamageShown ==
    \A i \in Inspections :
        (/\ Exists(i)
         /\ reportsOf(i) \ unflagged # {}
         /\ \A w \in Workers : request[w] = NoRequest)
        => inspection[i].hasVisibleDamage = "YES"

=============================================================================
