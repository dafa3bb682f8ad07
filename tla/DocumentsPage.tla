--------------------------- MODULE DocumentsPage ---------------------------
(***************************************************************************)
(* The page of the documents (dashboard/documents/page.tsx).  It loads     *)
(* every document once and filters them itself; the rows stay usable while *)
(* a file is being downloaded or deleted, and one slot each remembers for  *)
(* which document that is.                                                 *)
(*                                                                         *)
(* Other operators upload and delete documents all the time.               *)
(***************************************************************************)
EXTENDS WebCalls

CONSTANT Documents  \* ids

TypeOK ==
    /\ db = None
    /\ ui \in [documents: SUBSET Documents, filtered: SUBSET Documents,
               loading: BOOLEAN, refreshing: BOOLEAN,
               downloadingId: Documents \cup {None}, deletingId: Documents \cup {None}]
    /\ \A i \in underWay : calls[i].op \in {"load", "download", "delete"}

Init ==
    /\ db = None
    /\ ui = [documents |-> {}, filtered |-> Documents, loading |-> TRUE,
             refreshing |-> FALSE, downloadingId |-> None, deletingId |-> None]
    /\ calls = placed(NoCalls, Sent("load", None))

Screen(f) == ui' = f /\ UNCHANGED <<db, calls>>

-----------------------------------------------------------------------------
(* loadDocuments *)

refresh ==
    /\ ~ui.refreshing
    /\ Call("load", None)
    /\ ui' = [ui EXCEPT !.refreshing = TRUE]
    /\ UNCHANGED db

\* Whichever load ends clears both flags; a failed one leaves the list.
LoadArrives(i) ==
    /\ returns(i, {"load"}) /\ Finish(i)
    /\ \E documents \in SUBSET Documents :
          ui' = [ui EXCEPT !.documents = documents, !.loading = FALSE, !.refreshing = FALSE]
    /\ UNCHANGED db

\* Typing into the search or choosing a category changes which documents match.
Filter == \E filtered \in SUBSET Documents : Screen([ui EXCEPT !.filtered = filtered])

filteredDocuments == ui.documents \cap ui.filtered

\* The rows are hidden until the first load ends.
rowsShown == IF ui.loading THEN {} ELSE filteredDocuments

-----------------------------------------------------------------------------
(* handleDownload and handleDelete *)

mayDelete(d) == d \in rowsShown /\ ui.deletingId # d
mayDownload(d) == d \in rowsShown /\ ui.downloadingId # d

handleDownload(d) ==
    /\ mayDownload(d)
    /\ Call("download", d)
    /\ ui' = [ui EXCEPT !.downloadingId = d]
    /\ UNCHANGED db

\* After the confirmation of the browser's own dialog.
handleDelete(d) ==
    /\ mayDelete(d)
    /\ Call("delete", d)
    /\ ui' = [ui EXCEPT !.deletingId = d]
    /\ UNCHANGED db

\* Both free their slot, whichever document it has come to name.
DownloadEnds(i) ==
    /\ returns(i, {"download"}) /\ Finish(i)
    /\ ui' = [ui EXCEPT !.downloadingId = None]
    /\ UNCHANGED db

\* Faulty: only a deletion that succeeds frees the slot.
DeleteEndsWell(i) ==
    /\ returns(i, {"delete"}) /\ Finish(i)
    /\ \/ ui' = [ui EXCEPT !.deletingId = None, !.documents = @ \ {calls[i].arg}]
       \/ ui' = ui
    /\ UNCHANGED db

DeleteEnds(i) ==
    /\ returns(i, {"delete"}) /\ Finish(i)
    /\ \E gone \in {{}, {calls[i].arg}} :
          ui' = [ui EXCEPT !.deletingId = None, !.documents = @ \ gone]
    /\ UNCHANGED db

-----------------------------------------------------------------------------
Operator ==
    \/ refresh \/ Filter
    \/ \E d \in Documents : handleDownload(d) \/ handleDelete(d)

Receive(i) == LoadArrives(i) \/ DownloadEnds(i) \/ DeleteEnds(i)

Next == Operator \/ \E i \in Slots : Receive(i)

-----------------------------------------------------------------------------
(* Properties *)

\* A button that is disabled belongs to a request that is under way.
BusyWhileUnderWay ==
    /\ ui.loading \/ ui.refreshing => callsOf({"load"}) # {}
    /\ ui.deletingId # None => \E i \in callsOf({"delete"}) : calls[i].arg = ui.deletingId
    /\ ui.downloadingId # None =>
          \E i \in callsOf({"download"}) : calls[i].arg = ui.downloadingId
=============================================================================
