-------------------------- MODULE ShipmentLifecycle --------------------------
(***************************************************************************)
(* What the shipment API promises to its users: one shipment status that   *)
(* moves along the workflow table only, and a tracking log that gets one   *)
(* STATUS_CHANGED entry for every step into an operational status.  One    *)
(* step is one successful request; how the handlers get there is left out. *)
(* ShipmentWorkflow implements it when requests do not overlap.            *)
(***************************************************************************)
EXTENDS ShipmentStatuses

CONSTANTS
    Shipments,      \* shipment identifiers
    CreateStatuses  \* values callers give dto.status when creating

VARIABLES status, events

lifecycle == <<status, events>>

emptyLog == [t \in controlledWorkflowStatuses |-> 0]

Init ==
    /\ status \in [Shipments -> {"DRAFT", NotCreated}]
    /\ events = [s \in Shipments |-> emptyLog]

Open(s, t) ==
    /\ status[s] = NotCreated
    /\ status' = [status EXCEPT ![s] = t]
    /\ UNCHANGED events

\* Paperwork: a step that no tracking entry reports.
Prepare(s, t) ==
    /\ isShipmentTransitionAllowed(status[s], t)
    /\ t \notin controlledWorkflowStatuses
    /\ status' = [status EXCEPT ![s] = t]
    /\ UNCHANGED events

\* An operational step, reported in the tracking log.
Advance(s, t) ==
    /\ isShipmentTransitionAllowed(status[s], t)
    /\ t \in controlledWorkflowStatuses
    /\ status' = [status EXCEPT ![s] = t]
    /\ events' = [events EXCEPT ![s][t] = @ + 1]

Discard(s) ==
    /\ status[s] \in ShipmentStatus
    /\ status' = [status EXCEPT ![s] = Deleted]
    /\ events' = [events EXCEPT ![s] = emptyLog]

Next ==
    \E s \in Shipments :
        \/ \E t \in CreateStatuses : Open(s, t)
        \/ \E t \in ShipmentStatus : Prepare(s, t) \/ Advance(s, t)
        \/ Discard(s)

Spec == Init /\ [][Next]_lifecycle

LifecycleTypeOK ==
    /\ status \in [Shipments -> RowStatus]
    /\ events \in [Shipments -> [controlledWorkflowStatuses -> Nat]]

-----------------------------------------------------------------------------

\* The operational statuses a shipment has been in when it is in status t and
\* was not created in an operational status.
passedBefore(t) ==
    CASE t = "LOADED"              -> {"LOADED"}
      [] t = "IN_TRANSIT"          -> {"LOADED", "IN_TRANSIT"}
      [] t = "ARRIVED"             -> {"LOADED", "IN_TRANSIT", "ARRIVED"}
      [] t = "CUSTOMS_CLEARANCE"   -> {"LOADED", "IN_TRANSIT", "ARRIVED",
                                       "CUSTOMS_CLEARANCE"}
      [] t = "READY_FOR_DELIVERY"  -> {"LOADED", "IN_TRANSIT", "ARRIVED",
                                       "CUSTOMS_CLEARANCE",
                                       "READY_FOR_DELIVERY"}
      [] t = "DELIVERED"           -> controlledWorkflowStatuses \ {"CANCELLED"}
      [] OTHER                     -> {}

\* The tracking log of a shipment is exactly its way to the status it has:
\* each operational status on it once, none skipped, none repeated.  A
\* cancelled shipment may have been loaded, and went no further.
LogIsTheWayTravelled ==
    \A s \in Shipments :
        LET logged == {t \in controlledWorkflowStatuses : events[s][t] > 0}
        IN  /\ \A t \in controlledWorkflowStatuses : events[s][t] <= 1
            /\ IF status[s] = "CANCELLED"
               THEN logged \in {{"CANCELLED"}, {"LOADED", "CANCELLED"}}
               ELSE logged = passedBefore(status[s])

=============================================================================
