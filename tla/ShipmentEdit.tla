---------------------------- MODULE ShipmentEdit ----------------------------
(***************************************************************************)
(* The page that edits a shipment (dashboard/shipments/[id]/edit).  It     *)
(* loads the row once, and a save sends every field of the form, changed   *)
(* or not.  In between others dispatch the shipment and note its arrival,  *)
(* which records the times this page edits as dates.                       *)
(*                                                                         *)
(* db is the two recorded times, the notes standing for every text, and    *)
(* whether the shipment is active.  A time is a day and whether it is      *)
(* later than midnight.                                                    *)
(***************************************************************************)
EXTENDS WebCalls

CONSTANTS
    Days,   \* days a shipment departs and arrives on
    Texts   \* what a text field can hold, or None

Moment == [day: Days, later: BOOLEAN]
Dates == {"actualDeparture", "actualArrival"}
Row == [actualDeparture: Moment \cup {None}, actualArrival: Moment \cup {None},
        notes: Texts \cup {None}, isActive: BOOLEAN]
Form == [actualDeparture: Days \cup {None}, actualArrival: Days \cup {None},
         notes: Texts \cup {None}, isActive: BOOLEAN]

initialForm == [actualDeparture |-> None, actualArrival |-> None, notes |-> None,
                isActive |-> TRUE]

TypeOK ==
    /\ db \in Row
    /\ ui \in [form: Form, loaded: BOOLEAN, isLoading: BOOLEAN, isSaving: BOOLEAN,
               error: BOOLEAN, success: BOOLEAN]
    /\ \A i \in underWay : calls[i].op \in {"load", "save"}

Init ==
    /\ db \in [actualDeparture: {None}, actualArrival: {None}, notes: {None}, isActive: BOOLEAN]
    /\ ui = [form |-> initialForm, loaded |-> FALSE, isLoading |-> TRUE, isSaving |-> FALSE,
             error |-> FALSE, success |-> FALSE]
    /\ calls = placed(NoCalls, Sent("load", None))

-----------------------------------------------------------------------------
(* The API and the other operators *)

\* A date that is sent as null keeps its value, every other field is stored.
prepareData(row, sent) ==
    [sent EXCEPT !.actualDeparture = IF @ = None THEN row.actualDeparture ELSE @,
                 !.actualArrival   = IF @ = None THEN row.actualArrival ELSE @]

ServeSave(i) ==
    /\ waiting(i) /\ calls[i].op = "save"
    /\ \/ db' = prepareData(db, calls[i].arg) /\ Reply(i, None)
       \/ Fail(i) /\ UNCHANGED db
    /\ UNCHANGED ui

ServeLoad(i) ==
    /\ waiting(i) /\ calls[i].op = "load"
    /\ Reply(i, db)
    /\ UNCHANGED <<db, ui>>

Dispatch == db.actualDeparture = None /\ \E m \in Moment : db' = [db EXCEPT !.actualDeparture = m]
Arrive ==
    /\ db.actualDeparture # None /\ db.actualArrival = None
    /\ \E m \in Moment : db' = [db EXCEPT !.actualArrival = m]

SomebodyElse == (Dispatch \/ Arrive) /\ UNCHANGED <<ui, calls>>

-----------------------------------------------------------------------------
(* The page *)

\* The input of a date has no room for a time of the day.
toDateInput(m) == IF m = None THEN None ELSE m.day
nullableDate(d) == IF d = None THEN None ELSE [day |-> d, later |-> FALSE]

LoadArrives(i) ==
    LET row == calls[i].data
        form == [actualDeparture |-> toDateInput(row.actualDeparture),
                 actualArrival |-> toDateInput(row.actualArrival),
                 notes |-> row.notes, isActive |-> row.isActive]
    IN  /\ answered(i) /\ calls[i].op = "load" /\ Finish(i)
        /\ ui' = IF calls[i].ok
                 THEN [ui EXCEPT !.form = form, !.loaded = TRUE, !.isLoading = FALSE]
                 ELSE [ui EXCEPT !.error = TRUE, !.isLoading = FALSE]
        /\ UNCHANGED db

formShown == ~ui.isLoading /\ ui.loaded

handleInputChange ==
    /\ formShown
    /\ \/ \E f \in Dates, d \in Days \cup {None} : ui' = [ui EXCEPT !.form[f] = d]
       \/ \E text \in Texts \cup {None} : ui' = [ui EXCEPT !.form.notes = text]
    /\ UNCHANGED <<db, calls>>

handleActiveChange ==
    formShown /\ ui' = [ui EXCEPT !.form.isActive = ~@] /\ UNCHANGED <<db, calls>>

\* A country may be missing.
handleSubmit ==
    /\ formShown /\ ~ui.isSaving
    /\ \/ /\ Call("save", [ui.form EXCEPT !.actualDeparture = nullableDate(@),
                                          !.actualArrival = nullableDate(@)])
          /\ ui' = [ui EXCEPT !.isSaving = TRUE, !.error = FALSE, !.success = FALSE]
       \/ ui' = [ui EXCEPT !.error = TRUE, !.success = FALSE] /\ UNCHANGED calls
    /\ UNCHANGED db

\* The page is left 700 ms later, until then another save can be sent.
SaveAnswered(i) ==
    /\ answered(i) /\ calls[i].op = "save" /\ Finish(i)
    /\ ui' = [ui EXCEPT !.isSaving = FALSE, !.success = calls[i].ok, !.error = ~calls[i].ok]
    /\ UNCHANGED db

-----------------------------------------------------------------------------
Next ==
    \/ handleInputChange \/ handleActiveChange \/ handleSubmit \/ SomebodyElse
    \/ \E i \in Slots : ServeSave(i) \/ ServeLoad(i) \/ LoadArrives(i) \/ SaveAnswered(i)

-----------------------------------------------------------------------------
(* Properties *)

\* A button is disabled exactly while what it started is under way.
BusyWhileUnderWay ==
    (ui.isSaving <=> callsOf({"save"}) # {}) /\ (ui.isLoading <=> callsOf({"load"}) # {})
=============================================================================
