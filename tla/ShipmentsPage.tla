--------------------------- MODULE ShipmentsPage ---------------------------
(***************************************************************************)
(* The page of the shipments (dashboard/shipments/page.tsx): the list with *)
(* its filters, one form for creating and editing, and the dialog that     *)
(* asks before a shipment is deleted.                                      *)
(*                                                                         *)
(* A shipment and its number are the same value here; Preview is the       *)
(* number announced for the next one.  Other operators create and delete   *)
(* shipments all the time: a load may find any of them, whatever the       *)
(* filters, and any request may be refused.                                *)
(***************************************************************************)
EXTENDS WebCalls

CONSTANTS
    Shipments,  \* ids, and numbers
    Preview     \* the number GET /shipments/next-number answers

Form == [of: Shipments \cup {None}, no: Shipments \cup {None, Preview},
         complete: BOOLEAN]

initialForm == [of |-> None, no |-> None, complete |-> FALSE]
formOf(s) == [of |-> s, no |-> s, complete |-> TRUE]

loads == {"load", "reload", "refill"}
operations == loads \cup {"customers", "preview", "save", "delete"}

TypeOK ==
    /\ db = None
    /\ ui \in [list: SUBSET Shipments, customers: BOOLEAN, timer: BOOLEAN,
               form: Form, editing: Shipments \cup {None},
               toDelete: Shipments \cup {None}, loading: BOOLEAN,
               saving: BOOLEAN, deleting: BOOLEAN]
    /\ \A i \in underWay : calls[i].op \in operations

\* The page asks for the customers when it is mounted, and for the shipments
\* when its timer fires.
Init ==
    /\ db = None
    /\ ui = [list |-> {}, customers |-> FALSE, timer |-> TRUE,
             form |-> initialForm, editing |-> None, toDelete |-> None,
             loading |-> TRUE, saving |-> FALSE, deleting |-> FALSE]
    /\ calls = placed(NoCalls, Sent("customers", None))

Screen(f) == ui' = f /\ UNCHANGED <<db, calls>>

-----------------------------------------------------------------------------
(* The list *)

loadStarts(u) == [u EXCEPT !.loading = TRUE]

\* The answer of every load is shown, whatever was typed since; a failed one
\* leaves the list as it is.
ListShown(u) ==
    \E list \in SUBSET Shipments : ui' = [u EXCEPT !.list = list, !.loading = FALSE]

\* Typing into a filter starts the timer again.
Filter == Screen([ui EXCEPT !.timer = TRUE])

TimerFires ==
    /\ ui.timer
    /\ Call("load", None)
    /\ ui' = loadStarts([ui EXCEPT !.timer = FALSE])
    /\ UNCHANGED db

ListArrives(i) ==
    /\ returns(i, {"load"}) /\ Finish(i)
    /\ ListShown(ui)
    /\ UNCHANGED db

CustomersArrive(i) ==
    /\ returns(i, {"customers"}) /\ Finish(i)
    /\ \E any \in BOOLEAN : ui' = [ui EXCEPT !.customers = any]
    /\ UNCHANGED db

rowsShown == IF ui.loading \/ ui.toDelete # None THEN {} ELSE ui.list

-----------------------------------------------------------------------------
(* The form *)

\* Without a customer there is nothing to fill in.
formShown == ui.customers /\ ui.toDelete = None

\* Faulty: the form is emptied while the shipment stays the edited one.
emptyTheForm(u) == [u EXCEPT !.form = initialForm]

resetForm(u) == [u EXCEPT !.editing = None, !.form = initialForm]

openCreateForm ==
    /\ ui.toDelete = None
    /\ Call("preview", None)
    /\ ui' = resetForm(ui)
    /\ UNCHANGED db

\* The number arrives into the form as it is by now.
PreviewArrives(i) ==
    /\ returns(i, {"preview"}) /\ Finish(i)
    /\ \E no \in {Preview, ui.form.no} : ui' = [ui EXCEPT !.form.no = no]
    /\ UNCHANGED db

openEditForm(s) ==
    /\ s \in rowsShown
    /\ Screen([ui EXCEPT !.editing = s, !.form = formOf(s)])

updateForm ==
    /\ formShown
    /\ \E complete \in BOOLEAN : Screen([ui EXCEPT !.form.complete = complete])

cancelEditing ==
    /\ formShown /\ ui.editing # None /\ ~ui.saving
    /\ Screen(resetForm(ui))

\* The browser holds back a form with a required field empty; the button is
\* disabled while a save is under way.
maySubmit == formShown /\ ~ui.saving /\ ui.form.complete

handleSubmit ==
    /\ maySubmit
    /\ Call("save", [id |-> ui.editing, no |-> ui.form.no])
    /\ ui' = [ui EXCEPT !.saving = TRUE]
    /\ UNCHANGED db

\* Saved: the form is reset, whichever shipment it shows by now, and the list
\* is loaded before the button is released.
SaveAnswered(i) ==
    /\ returns(i, {"save"})
    /\ \/ Continue(i, "reload", None) /\ ui' = loadStarts(resetForm(ui))
       \/ Finish(i) /\ ui' = [ui EXCEPT !.saving = FALSE]
    /\ UNCHANGED db

ReloadArrives(i) ==
    /\ returns(i, {"reload"}) /\ Finish(i)
    /\ ListShown([ui EXCEPT !.saving = FALSE])
    /\ UNCHANGED db

-----------------------------------------------------------------------------
(* The dialog *)

askDelete(s) == s \in rowsShown /\ Screen([ui EXCEPT !.toDelete = s])

dialogEnabled == ui.toDelete # None /\ ~ui.deleting

dismiss == dialogEnabled /\ Screen([ui EXCEPT !.toDelete = None])

confirmDelete ==
    /\ dialogEnabled
    /\ Call("delete", ui.toDelete)
    /\ ui' = [ui EXCEPT !.deleting = TRUE]
    /\ UNCHANGED db

DeleteAnswered(i) ==
    /\ returns(i, {"delete"})
    /\ \/ Continue(i, "refill", None) /\ ui' = loadStarts([ui EXCEPT !.toDelete = None])
       \/ Finish(i) /\ ui' = [ui EXCEPT !.deleting = FALSE]
    /\ UNCHANGED db

RefillArrives(i) ==
    /\ returns(i, {"refill"}) /\ Finish(i)
    /\ ListShown([ui EXCEPT !.deleting = FALSE])
    /\ UNCHANGED db

-----------------------------------------------------------------------------
Receive(i) ==
    \/ ListArrives(i) \/ CustomersArrive(i) \/ PreviewArrives(i)
    \/ SaveAnswered(i) \/ ReloadArrives(i) \/ DeleteAnswered(i) \/ RefillArrives(i)

Operator ==
    \/ Filter \/ openCreateForm \/ updateForm \/ cancelEditing \/ handleSubmit
    \/ \E s \in Shipments : openEditForm(s) \/ askDelete(s)
    \/ dismiss \/ confirmDelete

Next ==
    \/ Operator
    \/ TimerFires
    \/ \E i \in Slots : Receive(i)

-----------------------------------------------------------------------------
(* Properties *)

\* The form holds the data of the shipment being edited, and of no other, but for
\* the number: a number announced for a new shipment that arrives late takes the
\* place of the one of the shipment being edited, never that of another.
FormFollowsEditing ==
    /\ ui.form.of = ui.editing
    /\ ui.form.no \in {ui.editing, Preview}

\* A button is disabled exactly while what it started is under way.
BusyWhileUnderWay ==
    /\ ui.saving <=> callsOf({"save", "reload"}) # {}
    /\ ui.deleting <=> callsOf({"delete", "refill"}) # {}

\* The dialog names the shipment whose deletion is under way.
DialogNamesDeleted == \A i \in callsOf({"delete"}) : ui.toDelete = calls[i].arg
=============================================================================
