--------------------------- MODULE DocumentsPanel ---------------------------
(***************************************************************************)
(* The documents of one shipment on its page (components/documents): the   *)
(* form that uploads one, and the list with its downloads and deletions.   *)
(*                                                                         *)
(* db is the documents of the shipment and the ids that were given out.    *)
(* A form is complete or not; what a document is called, of which kind it  *)
(* is and what it holds are left out.                                      *)
(***************************************************************************)
EXTENDS WebCalls

CONSTANT Docs  \* ids of documents

\* added, gone, clean and mixed only observe: the documents this operator was
\* told are uploaded and deleted; whether the load sent last is alone so far;
\* whether the list shown was loaded while a document was uploaded or deleted.
TypeOK ==
    /\ db \in [files: SUBSET Docs, used: SUBSET Docs] /\ db.files \subseteq db.used
    /\ ui \in [documents: SUBSET Docs, isLoading: BOOLEAN, isRefreshing: BOOLEAN,
               error: BOOLEAN, submitting: BOOLEAN, formError: BOOLEAN,
               deleting: Docs \cup {None}, downloading: Docs \cup {None},
               orphans: SUBSET Slots, added: SUBSET Docs, gone: SUBSET Docs,
               clean: BOOLEAN, mixed: BOOLEAN]
    /\ \A i \in underWay : calls[i].op \in {"first", "refresh", "upload", "delete", "download"}

Init ==
    /\ db \in {[files |-> f, used |-> f] : f \in SUBSET Docs}
    /\ ui = [documents |-> {}, isLoading |-> TRUE, isRefreshing |-> FALSE, error |-> FALSE,
             submitting |-> FALSE, formError |-> FALSE, deleting |-> None, downloading |-> None,
             orphans |-> {}, added |-> {}, gone |-> {}, clean |-> TRUE, mixed |-> FALSE]
    /\ calls = placed(NoCalls, Sent("first", None))

loads == {"first", "refresh"}
changes == {"upload", "delete"}

-----------------------------------------------------------------------------
(* The API and the other operators *)

Upload(d) == d \notin db.used /\ db' = [files |-> db.files \cup {d}, used |-> db.used \cup {d}]
Remove(d) == d \in db.files /\ db' = [db EXCEPT !.files = @ \ {d}]

\* What was done may be answered by an error, when the answer is lost.
Serve(i) ==
    /\ waiting(i)
    /\ \/ calls[i].op = "upload" /\ \E d \in Docs : Upload(d) /\ Reply(i, d)
       \/ calls[i].op = "delete" /\ Remove(calls[i].arg) /\ Reply(i, None)
       \/ calls[i].op \in loads /\ Reply(i, db.files) /\ UNCHANGED db
       \/ calls[i].op = "download" /\ calls[i].arg \in db.files /\ Reply(i, None) /\ UNCHANGED db
       \/ Fail(i) /\ UNCHANGED db
    /\ UNCHANGED ui

SomebodyElse == (\E d \in Docs : Upload(d) \/ Remove(d)) /\ UNCHANGED <<ui, calls>>

-----------------------------------------------------------------------------
(* ShipmentDocumentsPanel *)

\* An error takes the list away, the one that comes back knows nothing of the
\* requests of the old one.
hidden(u) == [u EXCEPT !.error = TRUE, !.deleting = None, !.downloading = None,
                       !.orphans = callsOf({"delete", "download"})]

FirstArrives(i) ==
    LET u == [ui EXCEPT !.isLoading = FALSE]
    IN  /\ answered(i) /\ calls[i].op = "first" /\ Finish(i)
        /\ ui' = IF calls[i].ok THEN [u EXCEPT !.documents = calls[i].data, !.error = FALSE,
                                                  !.mixed = ~ui.clean]
                                ELSE hidden(u)
        /\ UNCHANGED db

handleRefresh ==
    /\ ~ui.isLoading /\ ~ui.isRefreshing
    /\ Call("refresh", None)
    /\ ui' = [ui EXCEPT !.isRefreshing = TRUE, !.error = FALSE, !.clean = callsOf(changes) = {}]
    /\ UNCHANGED db

RefreshArrives(i) ==
    LET u == [ui EXCEPT !.isRefreshing = FALSE]
    IN  /\ answered(i) /\ calls[i].op = "refresh" /\ Finish(i)
        /\ ui' = IF calls[i].ok THEN [u EXCEPT !.documents = calls[i].data, !.mixed = ~ui.clean]
                 ELSE hidden(u)
        /\ UNCHANGED db

-----------------------------------------------------------------------------
(* DocumentUploadForm *)

\* What a load that is under way answers may be from before or after a change.
alone == ui.clean /\ callsOf(loads) = {}

handleSubmit ==
    /\ ~ui.submitting
    /\ \/ /\ Call("upload", None)
          /\ ui' = [ui EXCEPT !.submitting = TRUE, !.formError = FALSE, !.clean = alone]
       \/ ui' = [ui EXCEPT !.formError = TRUE] /\ UNCHANGED calls
    /\ UNCHANGED db

\* The panel adds the document to whatever list it has, a list that was never
\* loaded included, and takes an error of the list away.
handleUploaded(u, d) == [u EXCEPT !.documents = @ \cup {d}, !.error = FALSE]

UploadAnswered(i) ==
    LET u == [ui EXCEPT !.submitting = FALSE]
    IN  /\ answered(i) /\ calls[i].op = "upload" /\ Finish(i)
        /\ ui' = IF calls[i].ok
                 THEN [handleUploaded(u, calls[i].data) EXCEPT !.added = @ \cup {calls[i].data}]
                 ELSE [u EXCEPT !.formError = TRUE]
        /\ UNCHANGED db

-----------------------------------------------------------------------------
(* DocumentList *)

rowsShown == IF ui.isLoading \/ ui.error THEN {} ELSE ui.documents
enabled(d) == d \in rowsShown /\ d # ui.deleting /\ d # ui.downloading

handleDownload(d) ==
    /\ enabled(d)
    /\ Call("download", d)
    /\ ui' = [ui EXCEPT !.downloading = d]
    /\ UNCHANGED db

handleDelete(d) ==
    /\ enabled(d)
    /\ Call("delete", d)
    /\ ui' = [ui EXCEPT !.deleting = d, !.clean = alone]
    /\ UNCHANGED db

\* The single slot of the list is freed, whichever document it names now, but
\* not the one of a later list.
DownloadEnds(i) ==
    /\ answered(i) /\ calls[i].op = "download" /\ Finish(i)
    /\ ui' = [ui EXCEPT !.downloading = IF i \in ui.orphans THEN @ ELSE None,
                        !.orphans = @ \ {i}]
    /\ UNCHANGED db

DeleteAnswered(i) ==
    LET c == calls[i]
        u == [ui EXCEPT !.deleting = IF i \in ui.orphans THEN @ ELSE None, !.orphans = @ \ {i}]
    IN  /\ answered(i) /\ c.op = "delete" /\ Finish(i)
        /\ ui' = IF c.ok
                 THEN [u EXCEPT !.documents = @ \ {c.arg}, !.gone = @ \cup {c.arg}]
                 ELSE u
        /\ UNCHANGED db

-----------------------------------------------------------------------------
Operator ==
    handleRefresh \/ handleSubmit \/ \E d \in Docs : handleDownload(d) \/ handleDelete(d)

Receive(i) ==
    FirstArrives(i) \/ RefreshArrives(i) \/ UploadAnswered(i) \/ DownloadEnds(i) \/ DeleteAnswered(i)

Next == Operator \/ SomebodyElse \/ \E i \in Slots : Serve(i) \/ Receive(i)

-----------------------------------------------------------------------------
(* Properties *)

\* A button is disabled only while what it started is under way.
BusyWhileUnderWay ==
    /\ ui.submitting <=> callsOf({"upload"}) # {}
    /\ ui.isLoading \/ ui.isRefreshing => callsOf(loads) # {}
    /\ ui.deleting # None => \E i \in callsOf({"delete"}) : calls[i].arg = ui.deleting

\* What the operator uploaded and deleted is shown so once nothing is under way,
\* unless the list was loaded at the same time.
OwnStepIsShown ==
    underWay = {} /\ ~ui.error /\ ~ui.mixed
    => /\ ui.added \cap db.files \subseteq ui.documents
       /\ ui.gone \cap ui.documents = {}
=============================================================================
