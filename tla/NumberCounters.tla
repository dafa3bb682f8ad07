--------------------------- MODULE NumberCounters ---------------------------
(***************************************************************************)
(* How the API numbers what it creates.  Shipments and vehicles draw their *)
(* number from a counter row of the year, in the transaction that inserts  *)
(* them (ShipmentsService.create, VehiclesService.allocateVehicleNumber);  *)
(* inspections and invoices count the rows of the year, and insert later   *)
(* (VehicleInspectionsService.generateInspectionNumber, InvoicesService    *)
(* .generateInvoiceNumber).  In every table the number is unique.          *)
(*                                                                         *)
(* A worker is a request that creates a row.  The counter row stays locked *)
(* from the upsert to the end of the transaction; nothing is locked after  *)
(* a count.  A row is known here by its number alone.                      *)
(***************************************************************************)
EXTENDS Naturals, FiniteSets

CONSTANTS
    Workers,     \* requests the API process may have in flight
    LastYear,    \* bound: the years are 1 .. LastYear
    Limit,       \* the greatest value of a counter (9999)
    MaxRequests  \* bound: how many requests are sent

ASSUME NumberConstants ==
    LastYear \in Nat \ {0} /\ Limit \in Nat /\ MaxRequests \in Nat

Years == 1 .. LastYear

counterSeries == {"shipment", "vehicle"}
countSeries == {"inspection", "invoice"}
Series == counterSeries \cup countSeries

VARIABLES
    year,     \* the current year
    counter,  \* [counterSeries -> [Years -> lastValue, 0 when there is no row]]
    taken,    \* [Series -> [Years -> numbers of the rows]], as committed
    issued,   \* [Series -> [Years -> numbers any row ever had]], an observer
    request,  \* [Workers -> the request being served, or NoRequest]
    sent      \* how many requests were sent

vars == <<year, counter, taken, issued, request, sent>>

NoRequest == [step |-> "idle"]
InFlight == [step:   {"arrived", "drawn", "counted", "inserting"},
             series: Series,
             year:   Years,
             number: Nat]

TypeOK ==
    /\ year \in Years
    /\ counter \in [counterSeries -> [Years -> 0 .. Limit]]
    /\ taken \in [Series -> [Years -> SUBSET (Nat \ {0})]]
    /\ issued \in [Series -> [Years -> SUBSET (Nat \ {0})]]
    /\ request \in [Workers -> InFlight \cup {NoRequest}]
    /\ sent \in Nat

Init ==
    /\ year = 1
    /\ counter = [s \in counterSeries |-> [y \in Years |-> 0]]
    /\ taken = [s \in Series |-> [y \in Years |-> {}]]
    /\ issued = [s \in Series |-> [y \in Years |-> {}]]
    /\ request = [w \in Workers |-> NoRequest]
    /\ sent = 0

-----------------------------------------------------------------------------
(* The parts the handlers share.  A definition marked faulty is a plausible  *)
(* mistake in the one after it, kept to show which property notices it; no   *)
(* action uses it.                                                           *)

Answer(w) == request' = [request EXCEPT ![w] = NoRequest]

Serving(w, step) == request[w] # NoRequest /\ request[w].step = step

\* The rows that exist when a number is taken from a count.
countedRows(s, y) == taken[s][y]

Arrive(w, s) ==
    /\ sent < MaxRequests
    /\ sent' = sent + 1
    /\ request[w] = NoRequest
    /\ request' = [request EXCEPT ![w] =
          IF s \in counterSeries
          THEN [step |-> "arrived", series |-> s, year |-> year, number |-> 0]
          ELSE [step |-> "counted", series |-> s, year |-> year,
                number |-> Cardinality(countedRows(s, year)) + 1]]
    /\ UNCHANGED <<year, counter, taken, issued>>

\* A transaction that drew a number holds the lock of the counter row.
isLocked(s, y) ==
    \E w \in Workers : /\ Serving(w, "drawn")
                       /\ request[w].series = s
                       /\ request[w].year = y

\* The number is the unique key of the new row; the insert fails when it is
\* taken.
Insert(w) ==
    LET s == request[w].series
        y == request[w].year
        n == request[w].number
    IN  /\ n \notin taken[s][y]
        /\ taken' = [taken EXCEPT ![s][y] = @ \cup {n}]
        /\ issued' = [issued EXCEPT ![s][y] = @ \cup {n}]
        /\ Answer(w)

-----------------------------------------------------------------------------
(* A number from the counter *)

\* The year a shipment is numbered in is read before its transaction, that of
\* a vehicle in it.
numberYear(w) ==
    IF request[w].series = "vehicle" THEN year ELSE request[w].year

mayDraw(n) == n <= Limit

\* The upsert waits for the lock.  A counter at its limit refuses the
\* increment and the request.
DrawNumber(w) ==
    LET s == request[w].series
        y == numberYear(w)
        n == counter[s][y] + 1
    IN  /\ Serving(w, "arrived")
        /\ ~isLocked(s, y)
        /\ IF mayDraw(n)
           THEN request' = [request EXCEPT ![w].step = "drawn",
                                           ![w].year = y, ![w].number = n]
           ELSE Answer(w)
        /\ UNCHANGED <<year, counter, taken, issued, sent>>

CommitCounter(w) ==
    /\ Serving(w, "drawn")
    /\ Insert(w)
    /\ counter' = [counter EXCEPT ![request[w].series][request[w].year] =
                                      request[w].number]
    /\ UNCHANGED <<year, sent>>

\* Faulty: the counter is not part of the transaction that is rolled back.
AbortKeepingCounter(w) ==
    /\ Serving(w, "drawn")
    /\ counter' = [counter EXCEPT ![request[w].series][request[w].year] =
                                      request[w].number]
    /\ Answer(w)
    /\ UNCHANGED <<year, taken, issued, sent>>

\* The insert fails (a VIN that exists, a shipment or customer that is gone)
\* or the process dies: the counter is rolled back with it.
AbortCounter(w) ==
    /\ Serving(w, "drawn")
    /\ Answer(w)
    /\ UNCHANGED <<year, counter, taken, issued, sent>>

-----------------------------------------------------------------------------
(* A number from a count *)

\* An invoice number is looked up before it is used.
CheckInvoiceNumber(w) ==
    /\ Serving(w, "counted")
    /\ request[w].series = "invoice"
    /\ IF request[w].number \in taken["invoice"][request[w].year]
       THEN Answer(w)
       ELSE request' = [request EXCEPT ![w].step = "inserting"]
    /\ UNCHANGED <<year, counter, taken, issued, sent>>

InsertInvoice(w) ==
    /\ Serving(w, "inserting")
    /\ Insert(w)
    /\ UNCHANGED <<year, counter, sent>>

InsertInspection(w) ==
    /\ Serving(w, "counted")
    /\ request[w].series = "inspection"
    /\ Insert(w)
    /\ UNCHANGED <<year, counter, sent>>

\* The insert fails: the number is taken, or a foreign key is not there.
FailInsert(w) ==
    /\ \/ Serving(w, "inserting")
       \/ Serving(w, "counted") /\ request[w].series = "inspection"
    /\ Answer(w)
    /\ UNCHANGED <<year, counter, taken, issued, sent>>

-----------------------------------------------------------------------------
(* The specification *)

\* Faulty: an invoice that is cancelled is deleted.
mayDeleteAny(s) == TRUE

\* Rows are deleted, but an invoice is only cancelled and stays.
mayDelete(s) == s # "invoice"

Delete(s, y, n) ==
    /\ mayDelete(s)
    /\ taken' = [taken EXCEPT ![s][y] = @ \ {n}]
    /\ UNCHANGED <<year, counter, issued, request, sent>>

NewYear ==
    /\ year < LastYear
    /\ year' = year + 1
    /\ UNCHANGED <<counter, taken, issued, request, sent>>

Serve(w) ==
    \/ DrawNumber(w)
    \/ CommitCounter(w)
    \/ AbortCounter(w)
    \/ CheckInvoiceNumber(w)
    \/ InsertInvoice(w)
    \/ InsertInspection(w)
    \/ FailInsert(w)

Next ==
    \/ \E w \in Workers, s \in Series : Arrive(w, s)
    \/ \E w \in Workers : Serve(w)
    \/ \E s \in Series, y \in Years : \E n \in taken[s][y] : Delete(s, y, n)
    \/ NewYear

Spec == Init /\ [][Next]_vars

-----------------------------------------------------------------------------

\* A number drawn from a counter was never given to another row, not even to
\* one that was deleted since, and no other request holds it: the insert of a
\* shipment or vehicle never fails because of its number.
DrawnNumberIsFresh ==
    \A w \in Workers : Serving(w, "drawn") =>
        /\ request[w].number \notin issued[request[w].series][request[w].year]
        /\ \A v \in Workers \ {w} :
               Serving(v, "drawn") =>
                   <<request[v].series, request[v].year, request[v].number>> #
                   <<request[w].series, request[w].year, request[w].number>>

\* "Please try again": whatever numbers the requests in flight hold, the next
\* invoice that is counted gets a number that is free.
NextInvoiceNumberIsFree ==
    \A y \in Years :
        Cardinality(countedRows("invoice", y)) + 1 \notin taken["invoice"][y]

\* Shipment, vehicle and invoice numbers of a year are given out as 1, 2, 3,
\* ..., each once and without a gap, although requests overlap, fail after they
\* drew or counted a number, rows are deleted and the year ends in between.
Numbered == INSTANCE NumberSeries
                WITH Series <- Series \ {"inspection"},
                     issued <- [s \in Series \ {"inspection"} |-> issued[s]]
ImplementsNumberSeries == Numbered!Spec

=============================================================================
