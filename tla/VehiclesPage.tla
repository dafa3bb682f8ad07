---------------------------- MODULE VehiclesPage ----------------------------
(***************************************************************************)
(* The page of the vehicles (dashboard/vehicles/page.tsx): a list that     *)
(* follows a search field and a status filter, and can be refreshed.       *)
(*                                                                         *)
(* What a load answers is the list of the filter it was sent with; which   *)
(* vehicles that are is left out.                                          *)
(***************************************************************************)
EXTENDS WebCalls

CONSTANT Filters  \* what search and status can be set to

\* newest and overtaken only observe: the last load sent, until it is answered,
\* and whether an older one was answered after it.
TypeOK ==
    /\ db = None
    /\ ui \in [filter: Filters, vehicles: Filters \cup {None}, timer: BOOLEAN,
               loading: BOOLEAN, refreshing: BOOLEAN, error: BOOLEAN,
               newest: Slots \cup {None}, overtaken: BOOLEAN]
    /\ \A i \in underWay : calls[i].op = "load" /\ calls[i].arg \in Filters

Init ==
    /\ db = None
    /\ ui \in [filter: Filters, vehicles: {None}, timer: {TRUE}, loading: {TRUE},
               refreshing: {FALSE}, error: {FALSE}, newest: {None}, overtaken: {FALSE}]
    /\ calls = NoCalls

\* Any change of the two filters, by hand or by clearing them, starts the
\* timer again.
Filter ==
    \E f \in Filters \ {ui.filter} :
        ui' = [ui EXCEPT !.filter = f, !.timer = TRUE] /\ UNCHANGED <<db, calls>>

loadVehicles(u) ==
    /\ Call("load", u.filter)
    /\ ui' = [u EXCEPT !.error = FALSE, !.newest = freeSlot]
    /\ UNCHANGED db

TimerFires == ui.timer /\ loadVehicles([ui EXCEPT !.timer = FALSE, !.loading = TRUE])

\* The button of the header, or the one beside an error.
Refresh ==
    /\ ~ui.refreshing \/ (~ui.loading /\ ui.error)
    /\ loadVehicles([ui EXCEPT !.refreshing = TRUE])

LoadArrives(i) ==
    /\ returns(i, {"load"}) /\ Finish(i)
    /\ \E ok \in BOOLEAN :
          ui' = [ui EXCEPT !.vehicles = IF ok THEN calls[i].arg ELSE @,
                           !.error = ~ok \/ @,
                           !.loading = FALSE, !.refreshing = FALSE,
                           !.newest = IF i = @ THEN None ELSE @,
                           !.overtaken = (i # ui.newest)]
    /\ UNCHANGED db

Next == Filter \/ TimerFires \/ Refresh \/ \E i \in Slots : LoadArrives(i)

-----------------------------------------------------------------------------
(* Properties *)

\* The spinner and the disabled button belong to a load that is under way or
\* about to be sent.
BusyWhileUnderWay == ui.loading \/ ui.refreshing => ui.timer \/ underWay # {}

\* Once nothing is under way the list is the one of the filters, or an error
\* is shown, unless answers arrived out of order.
ShowsWhatIsAsked ==
    ~ui.timer /\ underWay = {} /\ ~ui.error /\ ~ui.overtaken => ui.vehicles = ui.filter
=============================================================================
