----------------------------- MODULE UsersPage -----------------------------
(***************************************************************************)
(* The page of the user accounts (dashboard/users/page.tsx): a list, and a *)
(* dialog in which an administrator creates an account.                    *)
(*                                                                         *)
(* A form is filled well enough for the browser, and passes validateForm,  *)
(* or not; what it holds is left open, and any request may be refused.     *)
(***************************************************************************)
EXTENDS WebCalls

Filled == {"empty", "required", "valid"}

TypeOK ==
    /\ db = None
    /\ ui \in [form: Filled, mounting: BOOLEAN, loading: BOOLEAN, open: BOOLEAN,
               submitting: BOOLEAN, error: BOOLEAN, formError: BOOLEAN, success: BOOLEAN]
    /\ \A i \in underWay : calls[i].op \in {"load", "create", "reload"}

Init ==
    /\ db = None
    /\ ui = [form |-> "empty", mounting |-> TRUE, loading |-> TRUE, open |-> FALSE,
             submitting |-> FALSE, error |-> FALSE, formError |-> FALSE, success |-> FALSE]
    /\ calls = NoCalls

Screen(f) == ui' = f /\ UNCHANGED <<db, calls>>

-----------------------------------------------------------------------------
(* loadUsers *)

TimerFires ==
    /\ ui.mounting
    /\ Call("load", None)
    /\ ui' = [ui EXCEPT !.mounting = FALSE, !.error = FALSE]
    /\ UNCHANGED db

LoadEnds(i) ==
    /\ returns(i, {"load"}) /\ Finish(i)
    /\ \E ok \in BOOLEAN : ui' = [ui EXCEPT !.error = ~ok, !.loading = FALSE]
    /\ UNCHANGED db

-----------------------------------------------------------------------------
(* The dialog.  Until the first load ends the page is a spinner. *)

openCreateUser ==
    /\ ~ui.loading /\ ~ui.open
    /\ Screen([ui EXCEPT !.form = "empty", !.formError = FALSE, !.success = FALSE,
                         !.open = TRUE])

closed(u) == [u EXCEPT !.open = FALSE, !.form = "empty"]

closeCreateUser ==
    /\ ui.open /\ ~ui.submitting
    /\ Screen([closed(ui) EXCEPT !.formError = FALSE])

updateField == ui.open /\ \E form \in Filled : Screen([ui EXCEPT !.form = form])

validateForm == ui.form = "valid"

\* The browser holds back a form with a required field empty.
maySubmit == ui.open /\ ~ui.submitting /\ ui.form # "empty"

handleCreateUser ==
    /\ maySubmit
    /\ IF validateForm
       THEN /\ Call("create", None)
            /\ ui' = [ui EXCEPT !.submitting = TRUE, !.formError = FALSE, !.success = FALSE]
       ELSE ui' = [ui EXCEPT !.formError = TRUE] /\ UNCHANGED calls
    /\ UNCHANGED db

CreateAnswered(i) ==
    /\ returns(i, {"create"})
    /\ \/ Continue(i, "reload", None) /\ ui' = [ui EXCEPT !.error = FALSE]
       \/ Finish(i) /\ ui' = [ui EXCEPT !.formError = TRUE, !.submitting = FALSE]
    /\ UNCHANGED db

\* loadUsers reports its own failure: the account counts as created.
ReloadEnds(i) ==
    /\ returns(i, {"reload"}) /\ Finish(i)
    /\ \E ok \in BOOLEAN :
          ui' = [closed(ui) EXCEPT !.error = ~ok, !.success = TRUE, !.submitting = FALSE]
    /\ UNCHANGED db

-----------------------------------------------------------------------------
Operator == openCreateUser \/ closeCreateUser \/ updateField \/ handleCreateUser

Receive(i) == LoadEnds(i) \/ CreateAnswered(i) \/ ReloadEnds(i)

Next == Operator \/ TimerFires \/ \E i \in Slots : Receive(i)

-----------------------------------------------------------------------------
(* Properties *)

\* The button is disabled exactly while an account is being created, and the
\* dialog stays open as long, so that a refusal finds the form it is about.
BusyWhileUnderWay == ui.submitting <=> callsOf({"create", "reload"}) # {}
RefusalFindsItsForm == callsOf({"create"}) # {} => ui.open
=============================================================================
