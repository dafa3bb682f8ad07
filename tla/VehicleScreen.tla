---------------------------- MODULE VehicleScreen ----------------------------
(***************************************************************************)
(* The pages of one vehicle: its details (dashboard/vehicles/[id]), the    *)
(* page that edits it (vehicles/[id]/edit) and the form on that page       *)
(* (components/vehicles/VehicleForm.tsx).  The edit page sends the status  *)
(* it found when it was opened with every save.                            *)
(*                                                                         *)
(* db is the status of the vehicle and whether it is active, or Gone; the  *)
(* other fields are left out.                                              *)
(***************************************************************************)
EXTENDS WebCalls

CONSTANTS
    StartStatuses,  \* statuses of the vehicle when the page is opened
    Gone            \* the vehicle was deleted

\* The way of a vehicle; it can be CANCELLED before its end.
vehicleWay == <<"REGISTERED", "RECEIVED", "INSPECTED", "READY_FOR_LOADING", "LOADED",
                "IN_TRANSIT", "ARRIVED", "CUSTOMS_CLEARANCE", "READY_FOR_DELIVERY", "DELIVERED">>
VehicleStatus == {vehicleWay[n] : n \in DOMAIN vehicleWay} \cup {"CANCELLED"}
Vehicle == [status: VehicleStatus, isActive: BOOLEAN]

allowedTransitions(s) ==
    IF s \in {"DELIVERED", "CANCELLED"} THEN {}
    ELSE {"CANCELLED"} \cup {vehicleWay[n + 1] : n \in {k \in 1 .. 9 : vehicleWay[k] = s}}

\* What the details page and the edit page start from.
Details == [page |-> "details", vehicle |-> None, isLoading |-> TRUE, error |-> FALSE,
            deleting |-> FALSE]
EditPage == [page |-> "edit", vehicle |-> None, draft |-> None, isLoading |-> TRUE,
             error |-> FALSE, shipments |-> "loading", submitting |-> FALSE, formError |-> FALSE,
             leaving |-> FALSE]

TypeOK ==
    /\ db \in Vehicle \cup {Gone}
    /\ \/ /\ ui \in [page: {"details"}, vehicle: Vehicle \cup {None}, isLoading: BOOLEAN,
                     error: BOOLEAN, deleting: BOOLEAN]
          /\ \A i \in underWay : calls[i].op \in {"load", "delete"}
       \/ /\ ui \in [page: {"edit"}, vehicle: Vehicle \cup {None}, draft: Vehicle \cup {None},
                     isLoading: BOOLEAN, error: BOOLEAN, shipments: {"loading", "some", "none"},
                     submitting: BOOLEAN, formError: BOOLEAN, leaving: BOOLEAN]
          /\ \A i \in underWay : calls[i].op \in {"load", "shipments", "update"}

opened(page) == ui' = page /\ calls' = placed(NoCalls, Sent("load", None))

Init ==
    /\ db \in [status: StartStatuses, isActive: BOOLEAN]
    /\ ui = Details
    /\ calls = placed(NoCalls, Sent("load", None))

-----------------------------------------------------------------------------
(* The API and the other operators *)

ServeLoad(i) ==
    /\ waiting(i) /\ calls[i].op \in {"load", "shipments"}
    /\ IF calls[i].op = "load" /\ db = Gone THEN Fail(i) ELSE Reply(i, db)
    /\ UNCHANGED <<db, ui>>

ServeDelete(i) ==
    /\ waiting(i) /\ calls[i].op = "delete"
    /\ \/ db # Gone /\ db' = Gone /\ Reply(i, None)
       \/ Fail(i) /\ UNCHANGED db
    /\ UNCHANGED ui

assertValidStatusTransition(from, to) == from = to \/ to \in allowedTransitions(from)

\* The shipment and the VIN are looked up in between, which Fleet tells apart.
ServeUpdate(i) ==
    /\ waiting(i) /\ calls[i].op = "update"
    /\ \/ /\ db # Gone /\ assertValidStatusTransition(db.status, calls[i].arg.draft.status)
          /\ db' = calls[i].arg.draft /\ Reply(i, db')
       \/ Fail(i) /\ UNCHANGED db
    /\ UNCHANGED ui

SomebodyElse ==
    /\ db # Gone
    /\ \/ \E t \in allowedTransitions(db.status) : db' = [db EXCEPT !.status = t]
       \/ db' = [db EXCEPT !.isActive = ~@]
       \/ db' = Gone
    /\ UNCHANGED <<ui, calls>>

-----------------------------------------------------------------------------
(* The details *)

Answered(i, page, op) == answered(i) /\ ui.page = page /\ calls[i].op = op /\ UNCHANGED db

DetailsArrive(i) ==
    /\ Answered(i, "details", "load") /\ Finish(i)
    /\ ui' = [ui EXCEPT !.isLoading = FALSE, !.error = ~calls[i].ok,
                        !.vehicle = IF calls[i].ok THEN calls[i].data ELSE @]

detailsShown == ui.page = "details" /\ ~ui.isLoading /\ ui.vehicle # None

handleDelete ==
    /\ detailsShown /\ ~ui.deleting
    /\ Call("delete", None)
    /\ ui' = [ui EXCEPT !.deleting = TRUE, !.error = FALSE]
    /\ UNCHANGED db

\* After a success the page is left, and the button stays as it is.
DeleteAnswered(i) ==
    /\ Answered(i, "details", "delete") /\ Finish(i)
    /\ ui' = IF calls[i].ok THEN ui ELSE [ui EXCEPT !.deleting = FALSE, !.error = TRUE]

\* A request that is not answered when the page is left is still served; that
\* is no different from a step of somebody else.
OpenEdit == detailsShown /\ opened(EditPage) /\ UNCHANGED db

-----------------------------------------------------------------------------
(* The page that edits *)

\* The button beside the error of either page.
TryAgain ==
    /\ ~ui.isLoading /\ ui.error /\ (ui.page = "details" => ui.vehicle = None)
    /\ Call("load", None)
    /\ ui' = [ui EXCEPT !.isLoading = TRUE, !.error = FALSE]
    /\ UNCHANGED db

\* With the vehicle the form appears, and loads the shipments.
VehicleArrives(i) ==
    LET u == [ui EXCEPT !.isLoading = FALSE]
    IN  /\ Answered(i, "edit", "load")
        /\ IF calls[i].ok
           THEN /\ Continue(i, "shipments", None)
                /\ ui' = [u EXCEPT !.vehicle = calls[i].data, !.draft = calls[i].data]
           ELSE Finish(i) /\ ui' = [u EXCEPT !.error = TRUE]

\* There may be none; an error leaves none as well, and nothing loads them again.
ShipmentsArrive(i) ==
    /\ Answered(i, "edit", "shipments") /\ Finish(i)
    /\ \E found \in {"some", "none"} :
          ui' = [ui EXCEPT !.shipments = IF calls[i].ok THEN found ELSE "none"]

formShown == ui.page = "edit" /\ ~ui.isLoading /\ ui.vehicle # None

nextVehicleStatus(s) == {vehicleWay[n + 1] : n \in {k \in 1 .. 9 : vehicleWay[k] = s}}

allowedVehicleStatuses(s) ==
    IF s \in {"DELIVERED", "CANCELLED"} THEN {s}
    ELSE {s, "CANCELLED"} \cup nextVehicleStatus(s)

Choose ==
    /\ formShown
    /\ \/ \E s \in allowedVehicleStatuses(ui.vehicle.status) : ui' = [ui EXCEPT !.draft.status = s]
       \/ ui' = [ui EXCEPT !.draft.isActive = ~@]
    /\ UNCHANGED <<db, calls>>

\* The form may be incomplete.
handleSubmit ==
    /\ formShown /\ ~ui.submitting /\ ui.shipments = "some"
    /\ \/ /\ Call("update", [draft |-> ui.draft, seen |-> ui.vehicle])
          /\ ui' = [ui EXCEPT !.submitting = TRUE, !.formError = FALSE]
       \/ ui' = [ui EXCEPT !.formError = TRUE] /\ UNCHANGED calls
    /\ UNCHANGED db

\* Until the details page is there the button is enabled again.
UpdateAnswered(i) ==
    /\ Answered(i, "edit", "update") /\ Finish(i)
    /\ ui' = [ui EXCEPT !.submitting = FALSE, !.formError = ~calls[i].ok \/ @,
                        !.leaving = calls[i].ok \/ @]

Leave ==
    /\ ui.page = "edit" /\ (~ui.isLoading \/ ui.leaving)
    /\ opened(Details) /\ UNCHANGED db

-----------------------------------------------------------------------------
Operator == handleDelete \/ OpenEdit \/ TryAgain \/ Choose \/ handleSubmit \/ Leave
Serve(i) == ServeLoad(i) \/ ServeDelete(i) \/ ServeUpdate(i)
Receive(i) ==
    \/ DetailsArrive(i) \/ DeleteAnswered(i)
    \/ VehicleArrives(i) \/ ShipmentsArrive(i) \/ UpdateAnswered(i)

Next == Operator \/ SomebodyElse \/ \E i \in Slots : Serve(i) \/ Receive(i)

-----------------------------------------------------------------------------
(* Properties *)

\* A button is disabled only while what it started is under way, or the page is
\* about to be left.
BusyWhileUnderWay ==
    /\ ui.isLoading => callsOf({"load"}) # {}
    /\ ui.page = "edit" /\ ui.submitting => callsOf({"update"}) # {}
    /\ ui.page = "edit" /\ formShown /\ ui.shipments = "loading" => callsOf({"shipments"}) # {}
    /\ ui.page = "details" /\ ui.deleting => callsOf({"delete"}) # {} \/ db = Gone

\* The status of a save is refused only if the vehicle has moved since the page
\* was opened: the select offers what the endpoint accepts.
RefusedOnlyWhenStale ==
    \A i \in callsOf({"update"}) :
        waiting(i) /\ db # Gone /\ calls[i].arg.seen.status = db.status
        => assertValidStatusTransition(db.status, calls[i].arg.draft.status)
=============================================================================
