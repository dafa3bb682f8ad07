---------------------------- MODULE InvoicesPage ----------------------------
(***************************************************************************)
(* The list of the invoices (dashboard/invoices/page.tsx).  It is loaded   *)
(* once and filtered in the page; a row can be downloaded as a PDF while   *)
(* others are.                                                             *)
(***************************************************************************)
EXTENDS WebCalls

CONSTANT Invoices  \* ids

TypeOK ==
    /\ db = None
    /\ ui \in [invoices: SUBSET Invoices, matching: SUBSET Invoices, loading: BOOLEAN,
               error: BOOLEAN, downloadingInvoiceId: Invoices \cup {None}]
    /\ \A i \in underWay : calls[i].op \in {"load", "download"}

Init ==
    /\ db = None
    /\ ui = [invoices |-> {}, matching |-> Invoices, loading |-> TRUE, error |-> FALSE,
             downloadingInvoiceId |-> None]
    /\ calls = placed(NoCalls, Sent("load", None))

LoadArrives(i) ==
    /\ returns(i, {"load"}) /\ Finish(i)
    /\ \/ \E found \in SUBSET Invoices :
             ui' = [ui EXCEPT !.invoices = found, !.error = FALSE, !.loading = FALSE]
       \/ ui' = [ui EXCEPT !.error = TRUE, !.loading = FALSE]
    /\ UNCHANGED db

\* The search and the status choose among the invoices that were loaded.
Filter ==
    /\ ~ui.loading
    /\ \E matching \in SUBSET Invoices :
          ui' = [ui EXCEPT !.matching = matching] /\ UNCHANGED <<db, calls>>

filteredInvoices == ui.invoices \cap ui.matching

\* An error takes the place of the rows.
rowsShown == IF ui.loading \/ ui.error THEN {} ELSE filteredInvoices

handlePdfDownload(v) ==
    /\ v \in rowsShown /\ ui.downloadingInvoiceId # v
    /\ Call("download", v)
    /\ ui' = [ui EXCEPT !.downloadingInvoiceId = v, !.error = FALSE]
    /\ UNCHANGED db

\* Either way the slot is freed, whichever invoice it has come to name; a
\* failure takes the rows away for good, and with them the buttons that would
\* clear it.
DownloadEnds(i) ==
    /\ returns(i, {"download"}) /\ Finish(i)
    /\ \E ok \in BOOLEAN :
          ui' = [ui EXCEPT !.downloadingInvoiceId = None, !.error = @ \/ ~ok]
    /\ UNCHANGED db

Next ==
    \/ Filter
    \/ \E v \in Invoices : handlePdfDownload(v)
    \/ \E i \in Slots : LoadArrives(i) \/ DownloadEnds(i)

-----------------------------------------------------------------------------
(* Properties *)

\* The spinner and the disabled button belong to a call that is under way.
BusyWhileUnderWay ==
    /\ ui.loading => callsOf({"load"}) # {}
    /\ ui.downloadingInvoiceId # None =>
          \E i \in callsOf({"download"}) : calls[i].arg = ui.downloadingInvoiceId
=============================================================================
