-------------------------- MODULE CustomerRecords --------------------------
(***************************************************************************)
(* Customers, and the shipments and invoices that refer to them            *)
(* (CustomersService, and create, update and remove of ShipmentsService    *)
(* and InvoicesService as far as they touch a reference).  Every handler   *)
(* reads what it depends on before it writes, and requests overlap; what   *)
(* the reads no longer guarantee is left to the constraints of the tables. *)
(*                                                                         *)
(* A customer is its number; the address, which must be unique too, is     *)
(* treated alike.  Whatever a handler refuses is an error to the caller,   *)
(* and so is a constraint.                                                 *)
(***************************************************************************)
EXTENDS FiniteSets

CONSTANTS
    Customers, Shipments, Invoices,  \* ids of rows, used once each
    Numbers,                         \* customer numbers
    Requests                         \* requests under way at one time

VARIABLES
    customers, shipments, invoices,  \* the tables: [ids -> row]
    requests,   \* [Requests -> a request under way, or Idle]
    moved       \* only observes: invoices whose shipment went to another
                \* customer since they were checked

recordVars == <<customers, shipments, invoices, requests, moved>>

\* No row yet, and no row any more.
NoRow == [state |-> "none"]
Gone == [state |-> "gone"]

Customer == [state: {"there"}, no: Numbers]
Shipment == [state: {"there"}, customer: Customers]
Invoice == [state: {"there"}, customer: Customers, shipment: Shipments]

there(row) == row.state = "there"

\* What a request may ask for.
Operations ==
    [op: {"createCustomer", "updateCustomer"}, customer: Customers, no: Numbers]
    \cup [op: {"createShipment", "updateShipment"}, shipment: Shipments, customer: Customers]
    \cup [op: {"removeCustomer"}, customer: Customers]
    \cup [op: {"removeShipment"}, shipment: Shipments]
    \cup [op: {"createInvoice"}, invoice: Invoices, customer: Customers, shipment: Shipments]

Idle == [step |-> "idle"]

RecordsTypeOK ==
    /\ customers \in [Customers -> Customer \cup {NoRow, Gone}]
    /\ shipments \in [Shipments -> Shipment \cup {NoRow, Gone}]
    /\ invoices \in [Invoices -> Invoice \cup {NoRow}]
    /\ requests \in [Requests -> [step: {"asked", "half", "checked"}, ask: Operations] \cup {Idle}]
    /\ moved \subseteq Invoices

RecordsInit ==
    /\ customers = [c \in Customers |-> NoRow]
    /\ shipments = [s \in Shipments |-> NoRow]
    /\ invoices = [v \in Invoices |-> NoRow]
    /\ requests = [r \in Requests |-> Idle]
    /\ moved = {}

-----------------------------------------------------------------------------
(* The reads *)

\* Two rows never get the same id, and no id is given out twice.
fresh(ask) ==
    CASE ask.op = "createCustomer" -> customers[ask.customer] = NoRow
      [] ask.op = "createShipment" -> shipments[ask.shipment] = NoRow
      [] ask.op = "createInvoice"  -> invoices[ask.invoice] = NoRow
      [] OTHER -> TRUE

Ask(r) ==
    /\ requests[r] = Idle
    /\ \E ask \in Operations :
          /\ fresh(ask)
          /\ requests' = [requests EXCEPT ![r] = [step |-> "asked", ask |-> ask]]
    /\ UNCHANGED <<customers, shipments, invoices, moved>>

numberFree(c, no) ==
    \A other \in Customers \ {c} : there(customers[other]) => customers[other].no # no

owns(c, s) == there(shipments[s]) /\ shipments[s].customer = c

\* Faulty: any shipment will do for an invoice.
shipmentExists(s, c) == there(shipments[s])

ensureShipmentExists(s, c) == owns(c, s)

\* What a handler reads; findOne first, where there is a row to be changed.
passes(ask, step) ==
    CASE ask.op = "createCustomer" -> numberFree(ask.customer, ask.no)
      [] ask.op = "updateCustomer" ->
            there(customers[ask.customer]) /\ numberFree(ask.customer, ask.no)
      [] ask.op = "removeCustomer" -> there(customers[ask.customer])
      [] ask.op = "createShipment" -> there(customers[ask.customer])
      [] ask.op = "updateShipment" ->
            /\ there(shipments[ask.shipment])
            /\ owns(ask.customer, ask.shipment) \/ there(customers[ask.customer])
      [] ask.op = "removeShipment" -> there(shipments[ask.shipment])
      [] ask.op = "createInvoice" ->
            IF step = "asked" THEN there(customers[ask.customer])
            ELSE ensureShipmentExists(ask.shipment, ask.customer)

\* An invoice looks for its customer and for its shipment, one after the other.
stepAfter(ask, step) == IF ask.op = "createInvoice" /\ step = "asked" THEN "half" ELSE "checked"

Check(r) ==
    /\ requests[r].step \in {"asked", "half"}
    /\ LET ask == requests[r].ask
           step == requests[r].step
       IN  requests' = [requests EXCEPT ![r] =
               IF passes(ask, step) THEN [step |-> stepAfter(ask, step), ask |-> ask] ELSE Idle]
    /\ UNCHANGED <<customers, shipments, invoices, moved>>

-----------------------------------------------------------------------------
(* The writes, with the constraints of the tables *)

Writes(r, op) == requests[r].step = "checked" /\ requests[r].ask.op = op
Ends(r) == requests' = [requests EXCEPT ![r] = Idle]

\* customerNo @unique
uniqueNumber(c, no) == numberFree(c, no)

WriteCustomer(r) ==
    LET ask == requests[r].ask
    IN  /\ \/ Writes(r, "createCustomer") /\ customers[ask.customer] = NoRow
           \/ Writes(r, "updateCustomer") /\ there(customers[ask.customer])
        /\ uniqueNumber(ask.customer, ask.no)
        /\ customers' = [customers EXCEPT ![ask.customer] = [state |-> "there", no |-> ask.no]]
        /\ Ends(r)
        /\ UNCHANGED <<shipments, invoices, moved>>

\* Faulty: only the shipments of a customer keep it from being deleted.
shipmentsRefer(c) == \E s \in Shipments : owns(c, s)

\* onDelete: Restrict, the default of a required relation.  The history of the
\* notifications refers too, and is one more reason to refuse.
refersTo(c) ==
    \/ \E s \in Shipments : owns(c, s)
    \/ \E v \in Invoices : there(invoices[v]) /\ invoices[v].customer = c

RemoveCustomer(r) ==
    LET c == requests[r].ask.customer
    IN  /\ Writes(r, "removeCustomer") /\ there(customers[c]) /\ ~refersTo(c)
        /\ customers' = [customers EXCEPT ![c] = Gone]
        /\ Ends(r)
        /\ UNCHANGED <<shipments, invoices, moved>>

\* The invoices that look at s, made and half made.
invoicesOf(s) ==
    {v \in Invoices :
        \/ there(invoices[v]) /\ invoices[v].shipment = s
        \/ \E r \in Requests :
              /\ Writes(r, "createInvoice")
              /\ requests[r].ask.invoice = v /\ requests[r].ask.shipment = s}

WriteShipment(r) ==
    LET ask == requests[r].ask
    IN  /\ \/ Writes(r, "createShipment") /\ shipments[ask.shipment] = NoRow
           \/ Writes(r, "updateShipment") /\ there(shipments[ask.shipment])
        /\ there(customers[ask.customer])
        /\ shipments' = [shipments EXCEPT ![ask.shipment] =
                             [state |-> "there", customer |-> ask.customer]]
        /\ moved' = moved \cup (IF there(shipments[ask.shipment]) /\ ~owns(ask.customer, ask.shipment)
                                THEN invoicesOf(ask.shipment) ELSE {})
        /\ Ends(r)
        /\ UNCHANGED <<customers, invoices>>

RemoveShipment(r) ==
    LET s == requests[r].ask.shipment
    IN  /\ Writes(r, "removeShipment") /\ there(shipments[s])
        /\ \A v \in Invoices : there(invoices[v]) => invoices[v].shipment # s
        /\ shipments' = [shipments EXCEPT ![s] = Gone]
        /\ Ends(r)
        /\ UNCHANGED <<customers, invoices, moved>>

WriteInvoice(r) ==
    LET ask == requests[r].ask
    IN  /\ Writes(r, "createInvoice") /\ invoices[ask.invoice] = NoRow
        /\ there(customers[ask.customer]) /\ there(shipments[ask.shipment])
        /\ invoices' = [invoices EXCEPT ![ask.invoice] =
                            [state |-> "there", customer |-> ask.customer, shipment |-> ask.shipment]]
        /\ Ends(r)
        /\ UNCHANGED <<customers, shipments, moved>>

\* A constraint, or the database, refuses the write.
Refuse(r) ==
    /\ requests[r].step = "checked" /\ Ends(r)
    /\ UNCHANGED <<customers, shipments, invoices, moved>>

-----------------------------------------------------------------------------
Write(r) ==
    \/ WriteCustomer(r) \/ RemoveCustomer(r)
    \/ WriteShipment(r) \/ RemoveShipment(r)
    \/ WriteInvoice(r) \/ Refuse(r)

RecordsNext == \E r \in Requests : Ask(r) \/ Check(r) \/ Write(r)

RecordsSpec == RecordsInit /\ [][RecordsNext]_recordVars

-----------------------------------------------------------------------------
(* Properties *)

\* No two customers share a number, although each handler looks for another
\* one before, and not while, it writes.
NumbersDiffer ==
    \A c, other \in Customers :
        c # other /\ there(customers[c]) /\ there(customers[other])
        => customers[c].no # customers[other].no

\* No shipment and no invoice refers to a row that is not there.
NothingDangles ==
    /\ \A s \in Shipments : there(shipments[s]) => there(customers[shipments[s].customer])
    /\ \A v \in Invoices : there(invoices[v]) =>
          there(customers[invoices[v].customer]) /\ there(shipments[invoices[v].shipment])

\* An invoice is made out to the customer of its shipment, as long as the
\* shipment has not gone to another one after it was checked.
InvoiceNamesOwner ==
    \A v \in Invoices \ moved : there(invoices[v]) =>
        owns(invoices[v].customer, invoices[v].shipment)
=============================================================================
