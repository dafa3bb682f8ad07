--------------------------- MODULE ShipmentScreen ---------------------------
(***************************************************************************)
(* The page of one shipment (dashboard/shipments/[id]/page.tsx) with the   *)
(* panels of its workflow (components/shipments): what the operator is     *)
(* offered, and what happens when another operator was faster.             *)
(*                                                                         *)
(* db is the status of the shipment and whether it is ready; the endpoints *)
(* move it as ShipmentLifecycle says.  The page keeps what its two loads   *)
(* found, the shipment (the badge of the header) and its readiness (the    *)
(* panels).  The fields of a panel are left out, a panel is sent or not.   *)
(***************************************************************************)
EXTENDS WebCalls, ShipmentStatuses

CONSTANT StartStatuses  \* statuses of the shipment when the page is opened

Panels == {"dispatch", "arrival", "customs", "readyForDelivery", "delivery", "cancel"}
Found == [status: ShipmentStatus, ready: BOOLEAN]

\* done, newest and overtaken only observe: the status the operator reached
\* last; the load of the readiness sent last, until it is answered; whether an
\* older one was answered after it.
Blank ==
    [shipment |-> None, isLoading |-> TRUE, readiness |-> None, loadingReadiness |-> FALSE,
     isRefreshing |-> FALSE, failed |-> FALSE, submitting |-> {}, orphans |-> {},
     reloading |-> FALSE, done |-> None, newest |-> None, overtaken |-> FALSE]

TypeOK ==
    /\ db \in Found
    /\ ui \in [shipment: ShipmentStatus \cup {None}, isLoading: BOOLEAN,
               readiness: Found \cup {None}, loadingReadiness: BOOLEAN,
               isRefreshing: BOOLEAN, failed: BOOLEAN, submitting: SUBSET Panels, orphans: SUBSET Slots,
               reloading: BOOLEAN, done: ShipmentStatus \cup {None},
               newest: Slots \cup {None}, overtaken: BOOLEAN]
    /\ \A i \in underWay : calls[i].op \in {"shipment", "readiness"} \cup Panels

Init ==
    /\ db \in [status: StartStatuses, ready: BOOLEAN]
    /\ ui = Blank
    /\ calls = placed(NoCalls, Sent("shipment", None))

-----------------------------------------------------------------------------
(* The API and the other operators *)

accepts(t) ==
    /\ isShipmentTransitionAllowed(db.status, t)
    /\ t \in readinessProtectedStatuses => db.ready

\* A transition is made or refused; what was made may still be answered by an
\* error, when the answer is lost.
ServeTransition(i) ==
    /\ waiting(i) /\ calls[i].op \in Panels
    /\ \/ accepts(calls[i].arg.to) /\ db' = [db EXCEPT !.status = calls[i].arg.to] /\ Reply(i, None)
       \/ Fail(i) /\ UNCHANGED db
    /\ UNCHANGED ui

ServeLoad(i) ==
    /\ waiting(i) /\ calls[i].op \in {"shipment", "readiness"}
    /\ Reply(i, db)
    /\ UNCHANGED <<db, ui>>

\* Others move the shipment, and inspect, upload and revoke.
SomebodyElse ==
    /\ \/ \E t \in ShipmentStatus : accepts(t) /\ db' = [db EXCEPT !.status = t]
       \/ db' = [db EXCEPT !.ready = ~@]
    /\ UNCHANGED <<ui, calls>>

-----------------------------------------------------------------------------
(* The loads *)

\* With the shipment the readiness panel appears, and loads.
ShipmentArrives(i) ==
    /\ answered(i) /\ calls[i].op = "shipment"
    /\ IF calls[i].ok
       THEN /\ Continue(i, "readiness", None)
            /\ ui' = [ui EXCEPT !.shipment = calls[i].data.status, !.isLoading = FALSE,
                                !.loadingReadiness = TRUE, !.newest = i]
       ELSE Finish(i) /\ ui' = [ui EXCEPT !.isLoading = FALSE]
    /\ UNCHANGED db

refreshStarts(u, i) == [u EXCEPT !.isRefreshing = TRUE, !.failed = FALSE, !.newest = i]

\* An error takes the panels away: those that come back know nothing of the
\* requests that were sent before.
ReadinessArrives(i) ==
    LET u == [ui EXCEPT !.loadingReadiness = FALSE, !.isRefreshing = FALSE,
                        !.newest = IF i = @ THEN None ELSE @, !.overtaken = (i # ui.newest)]
    IN  /\ answered(i) /\ calls[i].op = "readiness" /\ Finish(i)
        /\ ui' = IF calls[i].ok
                 THEN [u EXCEPT !.readiness = calls[i].data]
                 ELSE [u EXCEPT !.failed = TRUE, !.submitting = {},
                                !.orphans = callsOf(Panels)]
        /\ UNCHANGED db

\* The button of the panel, or the one beside the error.
Refresh ==
    /\ ui.shipment # None /\ ~ui.loadingReadiness
    /\ (ui.readiness # None /\ ~ui.isRefreshing) \/ ui.failed
    /\ Call("readiness", None)
    /\ ui' = refreshStarts(ui, freeSlot)
    /\ UNCHANGED db

-----------------------------------------------------------------------------
(* The panels *)

panelsShown == ui.readiness # None /\ ~ui.loadingReadiness /\ ~ui.failed
workflowShown == panelsShown /\ ui.readiness.status # "CANCELLED"

alreadyDispatched ==
    ui.readiness.status \in {"IN_TRANSIT", "ARRIVED", "CUSTOMS_CLEARANCE",
                             "READY_FOR_DELIVERY", "DELIVERED"}

CANCELLABLE_STATUSES == {"DRAFT", "QUOTED", "BOOKED", "RECEIVED", "LOADED"}

offersDispatch(t) == t \in {"LOADED", "IN_TRANSIT"} /\ ui.readiness.ready /\ ~alreadyDispatched
offersArrival(t) == t = "ARRIVED" /\ ui.readiness = [status |-> "IN_TRANSIT", ready |-> TRUE]
offersCustoms(t) == t = "CUSTOMS_CLEARANCE" /\ ui.readiness = [status |-> "ARRIVED", ready |-> TRUE]

\* Faulty: the shipment is released for delivery straight from the port.
offersEarlyRelease(t) ==
    /\ t = "READY_FOR_DELIVERY" /\ ui.readiness.ready
    /\ ui.readiness.status \in {"ARRIVED", "CUSTOMS_CLEARANCE"}

offersRelease(t) ==
    t = "READY_FOR_DELIVERY" /\ ui.readiness = [status |-> "CUSTOMS_CLEARANCE", ready |-> TRUE]
offersDelivery(t) ==
    t = "DELIVERED" /\ ui.readiness = [status |-> "READY_FOR_DELIVERY", ready |-> TRUE]
offersCancel(t) == t = "CANCELLED" /\ ui.readiness.status \in CANCELLABLE_STATUSES

Submit(p, t) ==
    /\ p \notin ui.submitting
    /\ Call(p, [to |-> t, seen |-> ui.readiness])
    /\ ui' = [ui EXCEPT !.submitting = @ \cup {p}]
    /\ UNCHANGED db

Dispatch(t) == workflowShown /\ offersDispatch(t) /\ Submit("dispatch", t)
Arrive(t)   == workflowShown /\ offersArrival(t) /\ Submit("arrival", t)
Clear(t)    == workflowShown /\ offersCustoms(t) /\ Submit("customs", t)
Release(t)  == workflowShown /\ offersRelease(t) /\ Submit("readyForDelivery", t)
Deliver(t)  == workflowShown /\ offersDelivery(t) /\ Submit("delivery", t)
Cancel(t)   == panelsShown /\ offersCancel(t) /\ Submit("cancel", t)

\* Faulty: the readiness is not loaded again.
AnswerNoted(i) ==
    /\ answered(i) /\ calls[i].op \in Panels
    /\ Finish(i)
    /\ ui' = [ui EXCEPT !.submitting = @ \ {calls[i].op},
                        !.orphans = @ \ {i},
                        !.done = IF calls[i].ok THEN calls[i].arg.to ELSE @]
    /\ UNCHANGED db

\* After a success the readiness is loaded again, whether the panel is still
\* there or not; a departure and an arrival load the whole page again later.
PanelAnswered(i) ==
    LET p == calls[i].op
        u == [ui EXCEPT !.submitting = IF i \in ui.orphans THEN @ ELSE @ \ {p},
                        !.orphans = @ \ {i}]
    IN  /\ answered(i) /\ p \in Panels
        /\ IF calls[i].ok
           THEN /\ Continue(i, "readiness", None)
                /\ ui' = refreshStarts([u EXCEPT !.done = calls[i].arg.to,
                                                 !.reloading = @ \/ p \in {"dispatch", "arrival"}],
                                       i)
           ELSE Finish(i) /\ ui' = u
        /\ UNCHANGED db

\* What was sent and not answered is forgotten; if the API still serves it,
\* that is no different from a step of somebody else.
Reload ==
    /\ ui.reloading
    /\ ui' = Blank
    /\ calls' = placed(NoCalls, Sent("shipment", None))
    /\ UNCHANGED db

-----------------------------------------------------------------------------
Operator ==
    \/ Refresh \/ Reload
    \/ \E t \in ShipmentStatus :
          Dispatch(t) \/ Arrive(t) \/ Clear(t) \/ Release(t) \/ Deliver(t) \/ Cancel(t)

Serve(i) == ServeTransition(i) \/ ServeLoad(i)
Receive(i) == ShipmentArrives(i) \/ ReadinessArrives(i) \/ PanelAnswered(i)

Next == Operator \/ SomebodyElse \/ \E i \in Slots : Serve(i) \/ Receive(i)

-----------------------------------------------------------------------------
(* Properties *)

\* A button is disabled only while what it started is under way.
BusyWhileUnderWay ==
    /\ \A p \in ui.submitting : \E i \in callsOf({p}) : i \notin ui.orphans
    /\ ui.loadingReadiness \/ ui.isRefreshing => callsOf({"readiness"}) # {}

\* A panel is refused only if the shipment is not what the panel showed when it
\* was sent: the conditions of the panels agree with those of the endpoints.
\* The panel for the dispatch is left out, it offers both statuses always.
RefusedOnlyWhenStale ==
    \A i \in callsOf(Panels \ {"dispatch"}) :
        waiting(i) /\ calls[i].arg.seen = db => accepts(calls[i].arg.to)

\* What the operator has done is shown once nothing is under way: the panels are
\* never left at a status before it, unless answers arrived out of order.
OwnStepIsShown ==
    /\ underWay = {} /\ ~ui.failed /\ ~ui.overtaken /\ ui.done # None
    => ui.readiness.status \in statusesAfter(ui.done) \cup {ui.done, "CANCELLED"}
=============================================================================
