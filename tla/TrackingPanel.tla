---------------------------- MODULE TrackingPanel ----------------------------
(***************************************************************************)
(* The tracking of one shipment on its page (components/tracking): the     *)
(* form that adds an event, the milestones and the timeline.               *)
(*                                                                         *)
(* db is the log of the shipment, the oldest entry first: an entry is the  *)
(* status the workflow moved the shipment to, or None for an event of      *)
(* another type.  Title, place, author and time of an event are left out.  *)
(***************************************************************************)
EXTENDS WebCalls, ShipmentStatuses, Sequences

CONSTANTS
    StartStatuses,  \* statuses of the shipment when the page is opened
    MaxNotes        \* bound: entries that are not a change of status

\* The types the form knows; the select offers all but the one it starts with.
EventTypes == {"STATUS_CHANGED", "NOTE_ADDED"}
Entry == ShipmentStatus \cup {None}
Form == [eventType: EventTypes, status: BOOLEAN, title: BOOLEAN]

initialFormState == [eventType |-> "STATUS_CHANGED", status |-> FALSE, title |-> FALSE]

\* mine, newest and overtaken only observe: the length of the log when the
\* operator last added to it; the load sent last, until it is answered;
\* whether an older one was answered after it.
TypeOK ==
    /\ db.status \in ShipmentStatus /\ db.log \in Seq(Entry)
    /\ ui.events \in Seq(Entry) /\ ui.form \in Form
    /\ {ui.isLoading, ui.error, ui.isSubmitting, ui.formError, ui.overtaken} \subseteq BOOLEAN
    /\ ui.mine \in Nat /\ ui.newest \in Slots \cup {None}
    /\ \A i \in underWay : calls[i].op \in {"first", "load", "create"}

Init ==
    /\ db \in [status: StartStatuses, log: {<<>>}]
    /\ ui = [events |-> <<>>, isLoading |-> TRUE, error |-> FALSE, form |-> initialFormState,
             isSubmitting |-> FALSE, formError |-> FALSE,
             mine |-> 0, newest |-> 1, overtaken |-> FALSE]
    /\ calls = placed(NoCalls, Sent("first", None))

-----------------------------------------------------------------------------
(* The API and the other operators *)

notes == Len(SelectSeq(db.log, LAMBDA e : e = None))

\* The endpoints of the workflow write a row, the generic update does not.
SomebodyElse ==
    /\ \/ \E t \in ShipmentStatus :
             /\ isShipmentTransitionAllowed(db.status, t)
             /\ db' = [status |-> t, log |-> IF t \in controlledWorkflowStatuses
                                             THEN Append(db.log, t) ELSE db.log]
       \/ notes < MaxNotes /\ db' = [db EXCEPT !.log = Append(@, None)]
    /\ UNCHANGED <<ui, calls>>

\* create refuses a change of status, it belongs to the workflow.
assertNoWorkflowMutation(form) == form.eventType # "STATUS_CHANGED"

ServeCreate(i) ==
    /\ waiting(i) /\ calls[i].op = "create"
    /\ \/ /\ assertNoWorkflowMutation(calls[i].arg) /\ notes < MaxNotes
          /\ db' = [db EXCEPT !.log = Append(@, None)]
          /\ Reply(i, Len(db.log) + 1)
       \/ Fail(i) /\ UNCHANGED db
    /\ UNCHANGED ui

ServeLoad(i) ==
    /\ waiting(i) /\ calls[i].op \in {"first", "load"}
    /\ Reply(i, db.log)
    /\ UNCHANGED <<db, ui>>

-----------------------------------------------------------------------------
(* ShipmentTrackingPanel *)

\* The answer of a load the page sent itself, or with the load of the page.
LoadArrives(i) ==
    LET c == calls[i]
        u == [ui EXCEPT !.isLoading = FALSE, !.newest = IF i = @ THEN None ELSE @,
                        !.overtaken = (i # ui.newest)]
    IN  /\ answered(i) /\ c.op \in {"first", "load"} /\ Finish(i)
        /\ ui' = IF c.ok
                 THEN [u EXCEPT !.events = c.data, !.error = @ /\ c.op = "load"]
                 ELSE [u EXCEPT !.error = TRUE]
        /\ UNCHANGED db

\* The button beside an error.
TryAgain ==
    /\ ~ui.isLoading /\ ui.error
    /\ Call("load", None)
    /\ ui' = [ui EXCEPT !.isLoading = TRUE, !.error = FALSE, !.newest = freeSlot]
    /\ UNCHANGED db

-----------------------------------------------------------------------------
(* AddTrackingEventForm *)

Edit(form) == ui' = [ui EXCEPT !.form = form] /\ UNCHANGED <<db, calls>>

handleEventTypeChange == Edit([ui.form EXCEPT !.eventType = "NOTE_ADDED", !.status = FALSE])

\* A status brings its own title, unless there is one.
handleStatusChange ==
    /\ ui.form.eventType = "STATUS_CHANGED"
    /\ \E chosen \in BOOLEAN : Edit([ui.form EXCEPT !.status = chosen, !.title = @ \/ chosen])

updateField == \E title \in BOOLEAN : Edit([ui.form EXCEPT !.title = title])

complete == ui.form.title /\ (ui.form.eventType = "STATUS_CHANGED" => ui.form.status)

maySubmit == ui.form.title /\ ~ui.isSubmitting

handleSubmit ==
    /\ maySubmit
    /\ IF complete
       THEN Call("create", ui.form) /\ ui' = [ui EXCEPT !.isSubmitting = TRUE, !.formError = FALSE]
       ELSE ui' = [ui EXCEPT !.formError = TRUE] /\ UNCHANGED calls
    /\ UNCHANGED db

\* onCreated loads the events again, and nobody waits for them.
CreateAnswered(i) ==
    /\ answered(i) /\ calls[i].op = "create"
    /\ IF calls[i].ok
       THEN /\ Continue(i, "load", None)
            /\ ui' = [ui EXCEPT !.form = initialFormState, !.isSubmitting = FALSE,
                                !.error = FALSE, !.mine = calls[i].data, !.newest = i]
       ELSE Finish(i) /\ ui' = [ui EXCEPT !.isSubmitting = FALSE, !.formError = TRUE]
    /\ UNCHANGED db

-----------------------------------------------------------------------------
(* ShipmentMilestones and TrackingTimeline *)

milestones == <<"BOOKED", "RECEIVED", "CUSTOMS_CLEARANCE", "LOADED", "IN_TRANSIT", "ARRIVED",
                "READY_FOR_DELIVERY", "DELIVERED">>

completedIndexes == {n \in DOMAIN milestones : \E k \in DOMAIN ui.events :
                        ui.events[k] = milestones[n]}

completedCount ==
    IF completedIndexes = {} THEN 0
    ELSE CHOOSE n \in completedIndexes : \A m \in completedIndexes : n >= m

\* What is shown as done.
completed == {milestones[n] : n \in DOMAIN milestones \cap (1 .. completedCount)}

\* The latest comes first.
sortedEvents == [n \in DOMAIN ui.events |-> ui.events[Len(ui.events) + 1 - n]]

-----------------------------------------------------------------------------
Operator ==
    TryAgain \/ handleEventTypeChange \/ handleStatusChange \/ updateField \/ handleSubmit

Next ==
    \/ Operator \/ SomebodyElse
    \/ \E i \in Slots : ServeCreate(i) \/ ServeLoad(i) \/ LoadArrives(i) \/ CreateAnswered(i)

-----------------------------------------------------------------------------
(* Properties *)

\* A button is disabled exactly while what it started is under way.
BusyWhileUnderWay ==
    /\ ui.isSubmitting <=> callsOf({"create"}) # {}
    /\ ui.isLoading => callsOf({"first", "load"}) # {}

\* An event the operator added is in the timeline once nothing is under way,
\* unless a load failed or answers arrived out of order.
OwnStepIsShown ==
    underWay = {} /\ ~ui.error /\ ~ui.overtaken => Len(sortedEvents) >= ui.mine

\* No milestone is shown as done that the shipment still has before it, whatever
\* is added and loaded in between.  The customs are left out: the list has them
\* before the loading and the workflow after the arrival, so they are shown as
\* done from the loading on.
MilestonesNotAhead ==
    (completed \ {"CUSTOMS_CLEARANCE"}) \cap statusesAfter(db.status) = {}
=============================================================================
