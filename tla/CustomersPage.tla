--------------------------- MODULE CustomersPage ---------------------------
(***************************************************************************)
(* The page of the customers (dashboard/customers/page.tsx): a form that   *)
(* is always shown, the list with its search, and the dialog that asks     *)
(* before a customer is deleted.                                           *)
(*                                                                         *)
(* Other operators create and delete customers all the time: a load may    *)
(* find any of them, and any request may be refused (a number or an        *)
(* address in use, a customer with shipments, a row that is gone).         *)
(***************************************************************************)
EXTENDS WebCalls

CONSTANT Customers  \* ids

\* A form remembers whose data it was filled with and whether its required
\* fields are.
Form == [of: Customers \cup {None}, complete: BOOLEAN]

emptyForm == [of |-> None, complete |-> FALSE]
customerToForm(c) == [of |-> c, complete |-> TRUE]

loads == {"load", "reload", "refill"}

TypeOK ==
    /\ db = None
    /\ ui \in [list: SUBSET Customers, timers: SUBSET {"mount", "search"},
               form: Form, editing: Customers \cup {None},
               toDelete: Customers \cup {None}, loading: BOOLEAN,
               submitting: BOOLEAN, deleting: BOOLEAN]
    /\ \A i \in underWay : calls[i].op \in loads \cup {"save", "delete"}

Init ==
    /\ db = None
    /\ ui = [list |-> {}, timers |-> {"mount", "search"},
             form |-> emptyForm, editing |-> None, toDelete |-> None,
             loading |-> TRUE, submitting |-> FALSE, deleting |-> FALSE]
    /\ calls = NoCalls

Screen(f) == ui' = f /\ UNCHANGED <<db, calls>>

-----------------------------------------------------------------------------
(* The list *)

loadStarts(u) == [u EXCEPT !.loading = TRUE]

\* The answer of every load is shown, whatever was searched since; a failed
\* one leaves the list as it is.
ListShown(u) ==
    \E list \in SUBSET Customers : ui' = [u EXCEPT !.list = list, !.loading = FALSE]

\* Typing into the search field starts its timer again.
Search == Screen([ui EXCEPT !.timers = @ \cup {"search"}])

TimerFires(t) ==
    /\ t \in ui.timers
    /\ Call("load", None)
    /\ ui' = loadStarts([ui EXCEPT !.timers = @ \ {t}])
    /\ UNCHANGED db

ListArrives(i) ==
    /\ returns(i, {"load"}) /\ Finish(i)
    /\ ListShown(ui)
    /\ UNCHANGED db

\* The rows, and their buttons, are hidden behind the spinner, and the page
\* behind the dialog.
rowsShown == IF ui.loading \/ ui.toDelete # None THEN {} ELSE ui.list
formShown == ui.toDelete = None

-----------------------------------------------------------------------------
(* The form *)

formReset(u) == [u EXCEPT !.editing = None, !.form = emptyForm]

openCreateForm == formShown /\ Screen(formReset(ui))

openEditForm(c) ==
    /\ c \in rowsShown
    /\ Screen([ui EXCEPT !.editing = c, !.form = customerToForm(c)])

updateField ==
    /\ formShown
    /\ \E complete \in BOOLEAN : Screen([ui EXCEPT !.form.complete = complete])

cancelEditing ==
    /\ formShown /\ ui.editing # None /\ ~ui.submitting
    /\ Screen(formReset(ui))

\* The browser holds back a form with a required field empty; the button is
\* disabled while a save is under way.
maySubmit == formShown /\ ~ui.submitting /\ ui.form.complete

handleSubmit ==
    /\ maySubmit
    /\ Call("save", ui.editing)
    /\ ui' = [ui EXCEPT !.submitting = TRUE]
    /\ UNCHANGED db

\* Saved: the form is emptied, whichever row it shows by now, and the list is
\* loaded again before the button is released.
SaveAnswered(i) ==
    /\ returns(i, {"save"})
    /\ \/ Continue(i, "reload", None) /\ ui' = loadStarts(formReset(ui))
       \/ Finish(i) /\ ui' = [ui EXCEPT !.submitting = FALSE]
    /\ UNCHANGED db

ReloadArrives(i) ==
    /\ returns(i, {"reload"}) /\ Finish(i)
    /\ ListShown([ui EXCEPT !.submitting = FALSE])
    /\ UNCHANGED db

-----------------------------------------------------------------------------
(* The dialog *)

askDelete(c) == c \in rowsShown /\ Screen([ui EXCEPT !.toDelete = c])

dialogEnabled == ui.toDelete # None /\ ~ui.deleting

dismiss == dialogEnabled /\ Screen([ui EXCEPT !.toDelete = None])

confirmDelete ==
    /\ dialogEnabled
    /\ Call("delete", ui.toDelete)
    /\ ui' = [ui EXCEPT !.deleting = TRUE]
    /\ UNCHANGED db

DeleteAnswered(i) ==
    /\ returns(i, {"delete"})
    /\ \/ Continue(i, "refill", None) /\ ui' = loadStarts([ui EXCEPT !.toDelete = None])
       \/ Finish(i) /\ ui' = [ui EXCEPT !.deleting = FALSE]
    /\ UNCHANGED db

RefillArrives(i) ==
    /\ returns(i, {"refill"}) /\ Finish(i)
    /\ ListShown([ui EXCEPT !.deleting = FALSE])
    /\ UNCHANGED db

-----------------------------------------------------------------------------
Operator ==
    \/ Search
    \/ openCreateForm \/ updateField \/ cancelEditing \/ handleSubmit
    \/ \E c \in Customers : openEditForm(c) \/ askDelete(c)
    \/ dismiss \/ confirmDelete

Receive(i) ==
    \/ ListArrives(i) \/ SaveAnswered(i) \/ ReloadArrives(i)
    \/ DeleteAnswered(i) \/ RefillArrives(i)

Next ==
    \/ Operator
    \/ \E t \in {"mount", "search"} : TimerFires(t)
    \/ \E i \in Slots : Receive(i)

-----------------------------------------------------------------------------
(* Properties *)

\* The form holds the data of the customer being edited, and of no other.
FormFollowsEditing == ui.form.of = ui.editing

\* A button is disabled exactly while what it started is under way.
BusyWhileUnderWay ==
    /\ ui.submitting <=> callsOf({"save", "reload"}) # {}
    /\ ui.deleting <=> callsOf({"delete", "refill"}) # {}

\* The dialog names the customer whose deletion is under way.
DialogNamesDeleted == \A i \in callsOf({"delete"}) : ui.toDelete = calls[i].arg
=============================================================================
