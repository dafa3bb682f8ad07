---------------------------- MODULE InvoiceScreen ----------------------------
(***************************************************************************)
(* The page that makes an invoice (dashboard/invoices/new) and the page    *)
(* that shows one (invoices/[id]).                                         *)
(*                                                                         *)
(* db is the customer every shipment belongs to, which the generic update  *)
(* of a shipment can change, and the invoices made with this form.  Of the *)
(* items the form only counts them; their amounts are in InvoiceAmounts.   *)
(***************************************************************************)
EXTENDS WebCalls

CONSTANTS
    Customers,   \* ids
    Shipments,   \* ids
    MaxItems,    \* bound: items of a form
    MaxInvoices  \* bound: invoices that are made

NewInvoice == [page |-> "new", owner |-> None, customerId |-> None, shipmentId |-> None, items |-> 1,
               isLoading |-> TRUE, submitting |-> FALSE, error |-> FALSE, leaving |-> FALSE]
ShowInvoice == [page |-> "show", invoice |-> FALSE, isLoading |-> TRUE, downloading |-> FALSE,
                error |-> FALSE]

Owner == [Shipments -> Customers]

TypeOK ==
    /\ db.owner \in Owner /\ db.made \in 0 .. MaxInvoices
    /\ \/ /\ ui \in [page: {"new"}, owner: Owner \cup {None}, customerId: Customers \cup {None},
                     shipmentId: Shipments \cup {None}, items: 1 .. MaxItems, isLoading: BOOLEAN,
                     submitting: BOOLEAN, error: BOOLEAN, leaving: BOOLEAN]
          /\ \A i \in underWay : calls[i].op \in {"options", "create"}
       \/ /\ ui \in [page: {"show"}, invoice: BOOLEAN, isLoading: BOOLEAN, downloading: BOOLEAN,
                     error: BOOLEAN]
          /\ \A i \in underWay : calls[i].op \in {"invoice", "download"}

Init ==
    /\ db \in [owner: Owner, made: {0}]
    /\ ui = NewInvoice
    /\ calls = placed(NoCalls, Sent("options", None))

-----------------------------------------------------------------------------
(* The API and the other operators *)

ensureShipmentExists(c) == db.owner[c.shipmentId] = c.customerId

ServeCreate(i) ==
    /\ waiting(i) /\ calls[i].op = "create"
    /\ \/ /\ ensureShipmentExists(calls[i].arg.sent) /\ db.made < MaxInvoices
          /\ db' = [db EXCEPT !.made = @ + 1]
          /\ Reply(i, None)
       \/ Fail(i) /\ UNCHANGED db
    /\ UNCHANGED ui

Serve(i) ==
    /\ waiting(i) /\ calls[i].op # "create"
    /\ Reply(i, db.owner)
    /\ UNCHANGED <<db, ui>>

SomebodyElse ==
    /\ \E s \in Shipments, c \in Customers : db' = [db EXCEPT !.owner[s] = c]
    /\ UNCHANGED <<ui, calls>>

-----------------------------------------------------------------------------
(* The form *)

Answered(i, op) == answered(i) /\ calls[i].op = op /\ UNCHANGED db
Screen(u) == ui' = u /\ UNCHANGED <<db, calls>>

\* Customers and shipments, in two requests that end together.
OptionsArrive(i) ==
    /\ Answered(i, "options") /\ Finish(i)
    /\ ui' = [ui EXCEPT !.isLoading = FALSE, !.error = ~calls[i].ok,
                        !.owner = IF calls[i].ok THEN calls[i].data ELSE @]

formShown == ui.page = "new" /\ ~ui.isLoading

availableShipments ==
    IF ui.customerId = None THEN {} ELSE {s \in Shipments : ui.owner[s] = ui.customerId}

mayChoose == formShown /\ ui.owner # None /\ ~ui.submitting

chooseCustomer ==
    /\ mayChoose
    /\ \E c \in Customers \cup {None} : Screen([ui EXCEPT !.customerId = c, !.shipmentId = None])

chooseShipment ==
    mayChoose /\ \E s \in availableShipments : Screen([ui EXCEPT !.shipmentId = s])

addItem == formShown /\ ui.items < MaxItems /\ Screen([ui EXCEPT !.items = @ + 1])

\* The last item stays.
removeItem == formShown /\ Screen([ui EXCEPT !.items = IF @ = 1 THEN @ ELSE @ - 1])

\* The items and the tax rate may be incomplete as well.
handleSubmit ==
    /\ formShown /\ ~ui.submitting
    /\ \/ /\ ui.customerId # None /\ ui.shipmentId # None
          /\ Call("create", [sent |-> [customerId |-> ui.customerId, shipmentId |-> ui.shipmentId],
                             seen |-> ui.owner])
          /\ ui' = [ui EXCEPT !.submitting = TRUE, !.error = FALSE]
       \/ ui' = [ui EXCEPT !.error = TRUE] /\ UNCHANGED calls
    /\ UNCHANGED db

\* Until the next page is there the button is enabled again, and a second
\* invoice can be made.
CreateAnswered(i) ==
    /\ Answered(i, "create") /\ Finish(i)
    /\ ui' = [ui EXCEPT !.submitting = FALSE, !.error = ~calls[i].ok \/ @,
                        !.leaving = calls[i].ok \/ @]

-----------------------------------------------------------------------------
(* The invoice that was made *)

Open ==
    /\ ui.page = "new" /\ ui.leaving
    /\ ui' = ShowInvoice /\ calls' = placed(NoCalls, Sent("invoice", None))
    /\ UNCHANGED db

InvoiceArrives(i) ==
    /\ Answered(i, "invoice") /\ Finish(i)
    /\ ui' = [ui EXCEPT !.isLoading = FALSE, !.invoice = calls[i].ok, !.error = ~calls[i].ok]

invoiceShown == ui.page = "show" /\ ~ui.isLoading /\ ui.invoice /\ ~ui.error

handlePdfDownload ==
    /\ invoiceShown /\ ~ui.downloading
    /\ Call("download", None)
    /\ ui' = [ui EXCEPT !.downloading = TRUE, !.error = FALSE]
    /\ UNCHANGED db

\* A failure takes the place of the invoice, for good.
DownloadEnds(i) ==
    /\ Answered(i, "download") /\ Finish(i)
    /\ ui' = [ui EXCEPT !.downloading = FALSE, !.error = ~calls[i].ok]

-----------------------------------------------------------------------------
Operator ==
    \/ chooseCustomer \/ chooseShipment \/ addItem \/ removeItem \/ handleSubmit
    \/ Open \/ handlePdfDownload

Receive(i) == OptionsArrive(i) \/ CreateAnswered(i) \/ InvoiceArrives(i) \/ DownloadEnds(i)

Next == Operator \/ SomebodyElse \/ \E i \in Slots : ServeCreate(i) \/ Serve(i) \/ Receive(i)

-----------------------------------------------------------------------------
(* Properties *)

\* A button is disabled exactly while what it started is under way.
BusyWhileUnderWay ==
    \/ ui.page = "new" /\ (ui.submitting <=> callsOf({"create"}) # {})
    \/ ui.page = "show" /\ (ui.downloading <=> callsOf({"download"}) # {})

\* An invoice is refused for its shipment only if the shipment went to another
\* customer since the form was opened.
RefusedOnlyWhenStale ==
    \A i \in callsOf({"create"}) :
        waiting(i) /\ calls[i].arg.seen = db.owner => ensureShipmentExists(calls[i].arg.sent)
=============================================================================
