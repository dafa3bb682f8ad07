-------------------------- MODULE InspectionRecord --------------------------
(***************************************************************************)
(* What the inspection API promises to those who rely on an inspection: a  *)
(* status that follows the transition table, an approval that is decided   *)
(* while the inspection is completed, and a history of each that tells how *)
(* the present value came about.  One step is one successful request.      *)
(* VehicleInspections implements it when requests do not overlap.          *)
(***************************************************************************)
EXTENDS InspectionStatuses

CONSTANT Inspections  \* inspection identifiers

VARIABLES
    status,          \* VehicleInspection.status, NotCreated or Deleted
    approval,        \* VehicleInspection.approvalStatus
    statusHistory,   \* InspectionStatusHistory rows, oldest first
    approvalHistory  \* InspectionApprovalHistory rows, oldest first

record == <<status, approval, statusHistory, approvalHistory>>

Init ==
    /\ status = [i \in Inspections |-> NotCreated]
    /\ approval = [i \in Inspections |-> "PENDING"]
    /\ statusHistory = [i \in Inspections |-> <<>>]
    /\ approvalHistory = [i \in Inspections |-> <<>>]

Open(i, t) ==
    /\ status[i] = NotCreated
    /\ status' = [status EXCEPT ![i] = t]
    /\ statusHistory' = [statusHistory EXCEPT ![i] = <<Entry(Null, t)>>]
    /\ UNCHANGED <<approval, approvalHistory>>

Advance(i, t) ==
    /\ status[i] \in InspectionStatus
    /\ t \in allowedTransitions(status[i])
    /\ status' = [status EXCEPT ![i] = t]
    /\ statusHistory' =
           [statusHistory EXCEPT ![i] = Append(@, Entry(status[i], t))]
    /\ UNCHANGED <<approval, approvalHistory>>

\* An approval may be withdrawn from an inspection that was reopened; it is
\* given or refused for a completed one.
Decide(i, d) ==
    /\ status[i] \in (IF d = "PENDING" THEN InspectionStatus ELSE {"COMPLETED"})
    /\ approval[i] # d
    /\ approval' = [approval EXCEPT ![i] = d]
    /\ approvalHistory' =
           [approvalHistory EXCEPT ![i] = Append(@, Entry(approval[i], d))]
    /\ UNCHANGED <<status, statusHistory>>

\* The histories are deleted with the inspection.
Discard(i) ==
    /\ status[i] \in InspectionStatus
    /\ status' = [status EXCEPT ![i] = Deleted]
    /\ approval' = [approval EXCEPT ![i] = "PENDING"]
    /\ statusHistory' = [statusHistory EXCEPT ![i] = <<>>]
    /\ approvalHistory' = [approvalHistory EXCEPT ![i] = <<>>]

Next ==
    \E i \in Inspections :
        \/ \E t \in InspectionStatus : Open(i, t) \/ Advance(i, t)
        \/ \E d \in InspectionApprovalStatus : Decide(i, d)
        \/ Discard(i)

Spec == Init /\ [][Next]_record

RecordTypeOK ==
    /\ status \in [Inspections -> InspectionStatus \cup {NotCreated, Deleted}]
    /\ approval \in [Inspections -> InspectionApprovalStatus]
    /\ statusHistory \in [Inspections -> Seq(StatusEntry)]
    /\ approvalHistory \in [Inspections -> Seq(ApprovalEntry)]

-----------------------------------------------------------------------------

\* Each entry of a history starts where the one before it ended.
isChain(history) ==
    \A k \in 1 .. Len(history) - 1 :
        history[k + 1].fromStatus = history[k].toStatus

\* The status history of an inspection is a way through the transition table,
\* from its creation to the status it has.
StatusHistoryIsPath ==
    \A i \in Inspections : status[i] \in InspectionStatus =>
        LET history == statusHistory[i]
        IN  /\ Len(history) > 0
            /\ history[1].fromStatus = Null
            /\ history[Len(history)].toStatus = status[i]
            /\ isChain(history)
            /\ \A k \in 2 .. Len(history) :
                   history[k].toStatus \in
                       allowedTransitions(history[k].fromStatus)

\* The approval history leads from PENDING to the approval the inspection
\* has, and each entry of it changed the approval.
ApprovalHistoryIsPath ==
    \A i \in Inspections :
        LET history == approvalHistory[i]
        IN  /\ isChain(history)
            /\ \A k \in 1 .. Len(history) :
                   history[k].fromStatus # history[k].toStatus
            /\ IF history = <<>>
               THEN approval[i] = "PENDING"
               ELSE /\ history[1].fromStatus = "PENDING"
                    /\ history[Len(history)].toStatus = approval[i]

HistoriesArePaths == StatusHistoryIsPath /\ ApprovalHistoryIsPath

=============================================================================
