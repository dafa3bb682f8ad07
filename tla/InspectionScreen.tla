-------------------------- MODULE InspectionScreen --------------------------
(***************************************************************************)
(* The page of one inspection (dashboard/inspections/[id]) with its three  *)
(* parts (components/vehicle-inspections): the panel of the status, the    *)
(* panel of the approval, and the card with the form that edits the        *)
(* inspection and the damage reports.  The inspection is loaded once; from *)
(* then on each part puts what it was answered in its place, the card the  *)
(* inspection it had when it asked, with a report more or less.            *)
(*                                                                         *)
(* db is the inspection at the API, or Gone: its status, its approval and  *)
(* its reports.  hasVisibleDamage, the other fields, the notes and what a  *)
(* report says are left out.                                               *)
(***************************************************************************)
EXTENDS WebCalls

CONSTANTS
    StartStatuses,  \* statuses of the inspection when the page is opened
    Reports,        \* ids of damage reports
    Parts,          \* bound: the parts that are used, of "status", "approval",
                    \* "header", "form" and "reports"
    Others,         \* bound: which of these others change too ("header": delete)
    Gone            \* the inspection was deleted

service == INSTANCE InspectionStatuses

Decisions == {"APPROVE", "REJECT", "REVOKE"}
New == "NEW"  \* the form of a report that has no id yet

Inspection == [status: service!InspectionStatus, approval: service!InspectionApprovalStatus,
               reports: SUBSET Reports]

\* What the operator has selected, and what it was offered for.
SelectedStatus == [to: service!InspectionStatus, seen: service!InspectionStatus]
SelectedAction == [action: Decisions, seen: service!InspectionApprovalStatus]

\* orphans are the calls whose form or card is gone.  exact only observes: nobody
\* else has changed the inspection, no two changes of the operator overlapped,
\* and the answer to none was lost.
TypeOK ==
    /\ db \in Inspection \cup {Gone}
    /\ ui \in [inspection: Inspection \cup {None}, isLoading: BOOLEAN, error: BOOLEAN,
               selectedStatus: SelectedStatus \cup {None}, savingStatus: BOOLEAN,
               selectedAction: SelectedAction \cup {None}, savingAction: BOOLEAN,
               draft: service!InspectionStatus \cup {None}, savingForm: BOOLEAN,
               isExpanded: BOOLEAN, reportForm: Reports \cup {New, None}, savingReport: BOOLEAN,
               removing: SUBSET Reports, isDeleting: BOOLEAN, isDownloadingPdf: BOOLEAN,
               orphans: SUBSET Slots, exact: BOOLEAN]
    /\ \A i \in underWay :
          calls[i].op \in {"load", "status", "decide", "update", "report", "remove", "delete", "pdf"}

Init ==
    /\ db \in [status: StartStatuses, approval: {"PENDING"}, reports: {{}}]
    /\ ui = [inspection |-> None, isLoading |-> TRUE, error |-> FALSE,
             selectedStatus |-> None, savingStatus |-> FALSE,
             selectedAction |-> None, savingAction |-> FALSE,
             draft |-> None, savingForm |-> FALSE,
             isExpanded |-> TRUE, reportForm |-> None, savingReport |-> FALSE,
             removing |-> {}, isDeleting |-> FALSE, isDownloadingPdf |-> FALSE,
             orphans |-> {}, exact |-> TRUE]
    /\ calls = placed(NoCalls, Sent("load", None))

-----------------------------------------------------------------------------
(* The API and the other operators *)

changes == {"status", "decide", "update", "report", "remove"}

assertStatusTransition(t) == t \in service!allowedTransitions(db.status)

decided(action) ==
    CASE action = "APPROVE" -> "APPROVED" [] action = "REJECT" -> "REJECTED" [] OTHER -> "PENDING"

\* approve and reject ask for a completed inspection, and each of the three for
\* something to change.
mayDecide(action) ==
    db.approval # decided(action) /\ (action # "REVOKE" => db.status = "COMPLETED")

ChangeStatus(t) == assertStatusTransition(t) /\ db' = [db EXCEPT !.status = t]
Decide(action) == mayDecide(action) /\ db' = [db EXCEPT !.approval = decided(action)]
CreateReport(r) == r \notin db.reports /\ db' = [db EXCEPT !.reports = @ \cup {r}]
RemoveReport(r) == r \in db.reports /\ db' = [db EXCEPT !.reports = @ \ {r}]

\* update takes the status the inspection has, or one it may go to.
Update(t) == (t = db.status /\ UNCHANGED db) \/ ChangeStatus(t)

\* What was done may be answered by an error, when the answer is lost.
Serve(i) ==
    LET c == calls[i]
    IN  /\ waiting(i)
        /\ \/ /\ db # Gone
              /\ \/ c.op = "load" /\ Reply(i, db) /\ UNCHANGED db
                 \/ c.op = "status" /\ ChangeStatus(c.arg.to) /\ Reply(i, db')
                 \/ c.op = "decide" /\ Decide(c.arg.action) /\ Reply(i, db')
                 \/ c.op = "update" /\ Update(c.arg) /\ Reply(i, db')
                 \/ /\ c.op = "report"
                    /\ IF c.arg.report = New
                       THEN \E r \in Reports : CreateReport(r) /\ Reply(i, r)
                       ELSE c.arg.report \in db.reports /\ Reply(i, c.arg.report) /\ UNCHANGED db
                 \/ c.op = "remove" /\ RemoveReport(c.arg.report) /\ Reply(i, None)
                 \/ c.op = "delete" /\ db' = Gone /\ Reply(i, None)
                 \/ c.op = "pdf" /\ Reply(i, None) /\ UNCHANGED db
           \/ Fail(i) /\ UNCHANGED db
        /\ ui' = [ui EXCEPT !.exact = @ /\ (calls'[i].ok \/ db' = db)]

SomebodyElse ==
    /\ db # Gone
    /\ \/ "status" \in Others /\ \E t \in service!InspectionStatus : ChangeStatus(t)
       \/ "approval" \in Others /\ \E action \in Decisions : Decide(action)
       \/ "reports" \in Others /\ \E r \in Reports : CreateReport(r) \/ RemoveReport(r)
       \/ "header" \in Others /\ db' = Gone
    /\ ui' = [ui EXCEPT !.exact = FALSE]
    /\ UNCHANGED calls

-----------------------------------------------------------------------------
(* The page *)

Answered(i, op) == answered(i) /\ calls[i].op = op /\ Finish(i) /\ UNCHANGED db

\* setInspection, from any of the parts: the card of a report that is not
\* listed any more is gone.
setInspection(u, inspection) ==
    [u EXCEPT !.inspection = inspection,
              !.removing = @ \cap inspection.reports,
              !.orphans = @ \cup {i \in callsOf({"remove"}) :
                                     calls[i].arg.report \notin inspection.reports}]

LoadArrives(i) ==
    LET u == [ui EXCEPT !.isLoading = FALSE]
    IN  /\ Answered(i, "load")
        /\ ui' = IF calls[i].ok THEN setInspection(u, calls[i].data) ELSE [u EXCEPT !.error = TRUE]

\* Once it is there, the inspection is not loaded again.
TryAgain ==
    /\ ~ui.isLoading /\ ui.error
    /\ Call("load", None)
    /\ ui' = [ui EXCEPT !.isLoading = TRUE, !.error = FALSE]
    /\ UNCHANGED db

shown == ui.inspection # None /\ ~ui.isLoading

\* A change is sent; whether another one is under way is observed.
Changes(op, arg, u) ==
    /\ Call(op, arg)
    /\ ui' = [u EXCEPT !.exact = @ /\ callsOf(changes) = {}]
    /\ UNCHANGED db

-----------------------------------------------------------------------------
(* InspectionStatusWorkflow *)

statusTransitions(s) ==
    CASE s = "DRAFT"       -> {"IN_PROGRESS", "CANCELLED"}
      [] s = "IN_PROGRESS" -> {"COMPLETED", "DRAFT", "CANCELLED"}
      [] s = "COMPLETED"   -> {"IN_PROGRESS"}
      [] OTHER             -> {"DRAFT"}

\* What is selected stays, also when another part changes the inspection.
SelectStatus ==
    /\ "status" \in Parts /\ shown /\ ~ui.savingStatus
    /\ \/ \E t \in statusTransitions(ui.inspection.status) :
             ui' = [ui EXCEPT !.selectedStatus = [to |-> t, seen |-> ui.inspection.status]]
       \/ ui' = [ui EXCEPT !.selectedStatus = None]
    /\ UNCHANGED <<db, calls>>

handleStatusChange ==
    /\ ui.selectedStatus # None /\ ~ui.savingStatus
    /\ Changes("status", ui.selectedStatus, [ui EXCEPT !.savingStatus = TRUE])

StatusAnswered(i) ==
    LET u == [ui EXCEPT !.savingStatus = FALSE]
    IN  /\ Answered(i, "status")
        /\ ui' = IF calls[i].ok
                 THEN [setInspection(u, calls[i].data) EXCEPT !.selectedStatus = None]
                 ELSE u

-----------------------------------------------------------------------------
(* InspectionApprovalWorkflow *)

availableActions(approval) ==
    CASE approval = "APPROVED" -> {"REVOKE"}
      [] approval = "REJECTED" -> {"APPROVE"}
      [] OTHER                 -> {"APPROVE", "REJECT"}

SelectAction ==
    /\ "approval" \in Parts /\ shown /\ ~ui.savingAction
    /\ \/ \E action \in availableActions(ui.inspection.approval) :
             ui' = [ui EXCEPT !.selectedAction = [action |-> action, seen |-> ui.inspection.approval]]
       \/ ui' = [ui EXCEPT !.selectedAction = None]
    /\ UNCHANGED <<db, calls>>

handleAction ==
    /\ ui.selectedAction # None /\ ~ui.savingAction
    /\ Changes("decide", ui.selectedAction, [ui EXCEPT !.savingAction = TRUE])

ActionAnswered(i) ==
    LET u == [ui EXCEPT !.savingAction = FALSE]
    IN  /\ Answered(i, "decide")
        /\ ui' = IF calls[i].ok
                 THEN [setInspection(u, calls[i].data) EXCEPT !.selectedAction = None]
                 ELSE u

-----------------------------------------------------------------------------
(* VehicleInspectionCard: the form that edits takes the place of the card,   *)
(* and the reports can be collapsed; either takes their forms and cards      *)
(* away, with the flags they keep.                                           *)

isEditing == ui.draft # None
headerShown == "header" \in Parts /\ shown /\ ~isEditing
reportsShown == "reports" \in Parts /\ shown /\ ~isEditing /\ ui.isExpanded

reportsHidden(u) ==
    [u EXCEPT !.savingReport = FALSE, !.removing = {},
              !.orphans = @ \cup callsOf({"report", "remove"})]

ToggleExpanded ==
    /\ headerShown
    /\ ui' = [reportsHidden(ui) EXCEPT !.isExpanded = ~@]
    /\ UNCHANGED <<db, calls>>

handleDownloadPdf ==
    /\ headerShown /\ ~ui.isDownloadingPdf
    /\ Call("pdf", None)
    /\ ui' = [ui EXCEPT !.isDownloadingPdf = TRUE]
    /\ UNCHANGED db

DownloadEnds(i) == Answered(i, "pdf") /\ ui' = [ui EXCEPT !.isDownloadingPdf = FALSE]

handleDelete ==
    /\ headerShown /\ ~ui.isDeleting
    /\ Call("delete", None)
    /\ ui' = [ui EXCEPT !.isDeleting = TRUE]
    /\ UNCHANGED db

\* After a success the page is left; until then it can be used.
DeleteAnswered(i) == Answered(i, "delete") /\ ui' = [ui EXCEPT !.isDeleting = FALSE]

\* VehicleInspectionForm starts from the inspection and offers every status.
Edit ==
    /\ "form" \in Parts /\ shown /\ ~isEditing
    /\ ui' = [reportsHidden(ui) EXCEPT !.draft = ui.inspection.status]
    /\ UNCHANGED <<db, calls>>

ChooseStatus ==
    /\ isEditing
    /\ \E s \in service!InspectionStatus : ui' = [ui EXCEPT !.draft = s]
    /\ UNCHANGED <<db, calls>>

CancelEdit ==
    isEditing /\ ~ui.savingForm /\ ui' = [ui EXCEPT !.draft = None] /\ UNCHANGED <<db, calls>>

SubmitEdit ==
    /\ isEditing /\ ~ui.savingForm
    /\ Changes("update", ui.draft, [ui EXCEPT !.savingForm = TRUE])

UpdateAnswered(i) ==
    LET u == [ui EXCEPT !.savingForm = FALSE]
    IN  /\ Answered(i, "update")
        /\ ui' = IF calls[i].ok THEN [setInspection(u, calls[i].data) EXCEPT !.draft = None] ELSE u

-----------------------------------------------------------------------------
(* The damage reports *)

\* There is one form to add and one to edit.  To go from one to the other, or to
\* close it, is the end of the form; from one report to the next it stays, with
\* what it holds and whether it is saving.
withForm(u, r) ==
    IF r # None /\ u.reportForm # None /\ (r = New <=> u.reportForm = New)
    THEN [u EXCEPT !.reportForm = r]
    ELSE [u EXCEPT !.reportForm = r, !.savingReport = FALSE,
                   !.orphans = @ \cup callsOf({"report"})]

OpenReport ==
    /\ reportsShown
    /\ \E r \in ui.inspection.reports \cup {New} : ui' = withForm(ui, r)
    /\ UNCHANGED <<db, calls>>

CancelReport ==
    /\ reportsShown /\ ui.reportForm # None /\ ~ui.savingReport
    /\ ui' = withForm(ui, None) /\ UNCHANGED <<db, calls>>

SubmitReport ==
    /\ reportsShown /\ ui.reportForm # None /\ ~ui.savingReport
    /\ Changes("report", [report |-> ui.reportForm, inspection |-> ui.inspection],
               [ui EXCEPT !.savingReport = TRUE])

\* What the handler puts back is the inspection it was called with.
withReport(inspection, r) == [inspection EXCEPT !.reports = @ \cup {r}]
withoutReport(inspection, r) == [inspection EXCEPT !.reports = @ \ {r}]

ReportAnswered(i) ==
    LET c == calls[i]
        u == [ui EXCEPT !.savingReport = IF i \in ui.orphans THEN @ ELSE FALSE]
        saved == withForm(setInspection(u, withReport(c.arg.inspection, c.data)), None)
    IN  /\ Answered(i, "report")
        /\ ui' = IF c.ok THEN [saved EXCEPT !.orphans = @ \ {i}]
                         ELSE [u EXCEPT !.orphans = @ \ {i}]

handleRemove(r) ==
    /\ reportsShown /\ r \in ui.inspection.reports \ ui.removing
    /\ Changes("remove", [report |-> r, inspection |-> ui.inspection],
               [ui EXCEPT !.removing = @ \cup {r}])

RemoveAnswered(i) ==
    LET c == calls[i]
        u == [ui EXCEPT !.removing = IF i \in ui.orphans THEN @ ELSE @ \ {c.arg.report}]
        removed == setInspection(u, withoutReport(c.arg.inspection, c.arg.report))
    IN  /\ Answered(i, "remove")
        /\ ui' = IF c.ok THEN [removed EXCEPT !.orphans = @ \ {i}]
                         ELSE [u EXCEPT !.orphans = @ \ {i}]

-----------------------------------------------------------------------------
Operator ==
    \/ TryAgain \/ SelectStatus \/ handleStatusChange \/ SelectAction \/ handleAction
    \/ ToggleExpanded \/ handleDownloadPdf \/ handleDelete
    \/ Edit \/ ChooseStatus \/ CancelEdit \/ SubmitEdit
    \/ OpenReport \/ CancelReport \/ SubmitReport \/ \E r \in Reports : handleRemove(r)

Receive(i) ==
    \/ LoadArrives(i) \/ StatusAnswered(i) \/ ActionAnswered(i) \/ UpdateAnswered(i)
    \/ DownloadEnds(i) \/ DeleteAnswered(i) \/ ReportAnswered(i) \/ RemoveAnswered(i)

Next == Operator \/ SomebodyElse \/ \E i \in Slots : Serve(i) \/ Receive(i)

-----------------------------------------------------------------------------
(* Properties *)

\* A button is disabled only while what it started is under way.
BusyWhileUnderWay ==
    /\ ui.isLoading <=> callsOf({"load"}) # {}
    /\ ui.savingStatus <=> callsOf({"status"}) # {}
    /\ ui.savingAction <=> callsOf({"decide"}) # {}
    /\ ui.savingForm <=> callsOf({"update"}) # {}
    /\ ui.isDeleting <=> callsOf({"delete"}) # {}
    /\ ui.isDownloadingPdf <=> callsOf({"pdf"}) # {}
    /\ ui.savingReport => callsOf({"report"}) \ ui.orphans # {}
    /\ \A r \in ui.removing :
          \E i \in callsOf({"remove"}) \ ui.orphans : calls[i].arg.report = r

\* What the two panels send is refused only if the inspection has changed since
\* it was selected, except a return from IN_PROGRESS to DRAFT, which the service
\* does not know, and a decision on an inspection that is not completed, of
\* which the panel only warns.
RefusedOnlyWhenStale ==
    /\ \A i \in callsOf({"status"}) :
          LET arg == calls[i].arg
          IN  waiting(i) /\ db # Gone /\ arg.seen = db.status
              /\ <<db.status, arg.to>> # <<"IN_PROGRESS", "DRAFT">>
              => assertStatusTransition(arg.to)
    /\ \A i \in callsOf({"decide"}) :
          LET arg == calls[i].arg
          IN  waiting(i) /\ db # Gone /\ arg.seen = db.approval
              /\ db.status = "COMPLETED"
              => mayDecide(arg.action)

\* As long as nobody else changes the inspection, no two changes overlap and no
\* answer is lost, the page shows the inspection as the API has it whenever none
\* is under way: what a part puts back was not changed by another part since.
OwnStepIsShown ==
    ui.exact /\ shown /\ callsOf(changes \cup {"delete"}) = {} /\ db # Gone
    => ui.inspection = db
=============================================================================
