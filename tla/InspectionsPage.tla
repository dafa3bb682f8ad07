--------------------------- MODULE InspectionsPage ---------------------------
(***************************************************************************)
(* The dashboard of the inspections (dashboard/inspections/page.tsx): one  *)
(* page of the inspections that pass the filters, and the reports that can *)
(* be downloaded.                                                          *)
(*                                                                         *)
(* A query is a filter and the page asked for.  Which inspections an       *)
(* answer holds is left out, and so is how many pages there are: other     *)
(* operators create and delete inspections all the time.                   *)
(***************************************************************************)
EXTENDS WebCalls

CONSTANTS
    Filters,     \* what the filters, the search and the page size can be set to
    noFilter,    \* what they are reset to
    Rows,        \* the inspections whose reports are downloaded
    MaxPages     \* bound: pages of a list

Pages == 1 .. MaxPages
Query == [filter: Filters, page: Pages]

\* newest, overtaken and failed only observe: the last load sent, until it is
\* answered; whether an older one was answered after it; whether the answer
\* taken last was an error.
TypeOK ==
    /\ db = None
    /\ ui \in [query: Query, response: [query: Query \cup {None}, pages: Pages],
               loading: BOOLEAN, refreshing: BOOLEAN, downloadingId: Rows \cup {None},
               newest: Slots \cup {None}, overtaken: BOOLEAN, failed: BOOLEAN]
    /\ \A i \in underWay :
          \/ calls[i].op = "load" /\ calls[i].arg \in Query
          \/ calls[i].op = "download" /\ calls[i].arg \in Rows

EMPTY_RESPONSE == [query |-> None, pages |-> 1]

\* The first load is sent with the first render.
Init ==
    LET query == [filter |-> noFilter, page |-> 1]
    IN  /\ db = None
        /\ ui = [query |-> query, response |-> EMPTY_RESPONSE,
                 loading |-> TRUE, refreshing |-> FALSE, downloadingId |-> None,
                 newest |-> 1, overtaken |-> FALSE, failed |-> FALSE]
        /\ calls = placed(NoCalls, Sent("load", query))

-----------------------------------------------------------------------------
(* loadInspections *)

loadInspections(u) ==
    /\ Call("load", u.query)
    /\ ui' = [u EXCEPT !.newest = freeSlot]
    /\ UNCHANGED db

\* Every render with another query sends a load, the same query sends none.
asks(query) ==
    IF query = ui.query THEN UNCHANGED web
    ELSE loadInspections([ui EXCEPT !.query = query, !.loading = TRUE])

refresh == ~ui.refreshing /\ loadInspections([ui EXCEPT !.refreshing = TRUE])

LoadArrives(i) ==
    /\ returns(i, {"load"}) /\ Finish(i)
    /\ \E ok \in BOOLEAN, pages \in Pages :
          ui' = [ui EXCEPT !.response = IF ok THEN [query |-> calls[i].arg, pages |-> pages]
                                        ELSE @,
                           !.loading = FALSE, !.refreshing = FALSE, !.failed = ~ok,
                           !.newest = IF i = @ THEN None ELSE @,
                           !.overtaken = (i # ui.newest)]
    /\ UNCHANGED db

-----------------------------------------------------------------------------
(* The filters and the pages *)

Filter == \E f \in Filters : asks([filter |-> f, page |-> 1])

resetFilters == asks([filter |-> noFilter, page |-> 1])

\* The two buttons go by the answer that is shown.
pageShown == IF ui.response.query = None THEN 1 ELSE ui.response.query.page
hasPreviousPage == pageShown > 1
hasNextPage == pageShown < ui.response.pages

\* Faulty: the page shown is not the first one, so there is one before it.
unboundedBefore(page) == page - 1

\* The page asked for may be the first one already.
pageBefore(page) == IF page > 1 THEN page - 1 ELSE 1

Previous ==
    /\ hasPreviousPage /\ ~ui.loading
    /\ asks([ui.query EXCEPT !.page = pageBefore(@)])

TurnPage ==
    /\ hasNextPage /\ ~ui.loading /\ ui.query.page < MaxPages
    /\ asks([ui.query EXCEPT !.page = @ + 1])

-----------------------------------------------------------------------------
(* handleDownload *)

handleDownload(r) ==
    /\ ui.response.query # None /\ ~ui.loading /\ ui.downloadingId # r
    /\ Call("download", r)
    /\ ui' = [ui EXCEPT !.downloadingId = r]
    /\ UNCHANGED db

DownloadEnds(i) ==
    /\ returns(i, {"download"}) /\ Finish(i)
    /\ ui' = [ui EXCEPT !.downloadingId = None]
    /\ UNCHANGED db

-----------------------------------------------------------------------------
Next ==
    \/ Filter \/ resetFilters \/ refresh \/ Previous \/ TurnPage
    \/ \E r \in Rows : handleDownload(r)
    \/ \E i \in Slots : LoadArrives(i) \/ DownloadEnds(i)

-----------------------------------------------------------------------------
(* Properties *)

\* The spinner and the disabled buttons belong to a call that is under way.
BusyWhileUnderWay ==
    /\ ui.loading \/ ui.refreshing => callsOf({"load"}) # {}
    /\ ui.downloadingId # None =>
          \E i \in callsOf({"download"}) : calls[i].arg = ui.downloadingId

\* Once no load is under way the list is the one that is asked for, unless the
\* load failed or answers arrived out of order.
ShowsWhatIsAsked ==
    callsOf({"load"}) = {} /\ ~ui.failed /\ ~ui.overtaken => ui.response.query = ui.query
=============================================================================
