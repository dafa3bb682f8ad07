--------------------------- MODULE ServicesProofs ---------------------------
(***************************************************************************)
(* Theorems about the services of MCServices, for any number of customers, *)
(* shipments, invoices and their items, accounts, messages, releases and   *)
(* overlapping requests; and about the numbers they give out, for any      *)
(* limit and any number of years.                                          *)
(***************************************************************************)
EXTENDS MCServices, FiniteSetTheorems, SequenceTheorems,
        WellFoundedInduction, TLAPS

-----------------------------------------------------------------------------
(* Numbers: the invariant *)

CounterHolds(s, y) ==
    /\ issued[s][y] = 1 .. counter[s][y]
    /\ taken[s][y] \subseteq issued[s][y]

\* Invoices are never deleted: the numbers taken are all that were issued.
InvoicesHold(y) ==
    /\ taken["invoice"][y] = issued["invoice"][y]
    /\ \E n \in Nat : issued["invoice"][y] = 1 .. n

\* A number that was drawn is the next one of the locked counter; an invoice
\* number that was counted is not beyond the next one.
RequestOK(r) ==
    /\ r.step \in {"arrived", "drawn"} => r.series \in counterSeries
    /\ r.step = "inserting" => r.series = "invoice"
    /\ r.step = "counted" => r.series \in countSeries
    /\ r.step = "drawn" =>
           /\ r.number = counter[r.series][r.year] + 1
           /\ r.number \in 0 .. Limit
    /\ r.step # "arrived" => r.number # 0
    /\ r.series = "invoice" =>
           r.number - 1 \in issued["invoice"][r.year] \cup {0}

RequestsOK == \A w \in Workers : request[w] # NoRequest => RequestOK(request[w])

\* At most one transaction holds the lock of a counter row.
OneHolder ==
    \A v, w \in Workers :
        (/\ Serving(v, "drawn") /\ Serving(w, "drawn")
         /\ request[v].series = request[w].series
         /\ request[v].year = request[w].year) => v = w

Inv ==
    /\ TypeOK
    /\ \A s \in counterSeries, y \in Years : CounterHolds(s, y)
    /\ \A y \in Years : InvoicesHold(y)
    /\ \A y \in Years : IsFiniteSet(taken["inspection"][y])
    /\ RequestsOK
    /\ OneHolder

-----------------------------------------------------------------------------

\* The next number after 1 .. n.
LEMMA NextNumber ==
    ASSUME NEW n \in Nat
    PROVE  /\ Cardinality(1 .. n) = n
           /\ (1 .. n) \cup {n + 1} = 1 .. (n + 1)
           /\ n + 1 \notin 1 .. n
  <1>1. Cardinality(1 .. n) = n
    <2>1. Cardinality(1 .. n) = IF 1 > n THEN 0 ELSE n - 1 + 1
      BY FS_Interval
    <2>2. QED
      BY <2>1
  <1>2. (1 .. n) \cup {n + 1} = 1 .. (n + 1)
    OBVIOUS
  <1>3. QED
    BY <1>1, <1>2

LEMMA InitInv == Init => Inv
  <1> SUFFICES ASSUME Init PROVE Inv
    OBVIOUS
  <1> USE DEF Init, Series, counterSeries, countSeries
  <1>1. Years \subseteq Nat /\ 1 \in Years
    BY NumberConstants DEF Years
  <1>2. TypeOK
    BY <1>1, NumberConstants DEF TypeOK, NoRequest
  <1>3. 1 .. 0 = {}
    OBVIOUS
  <1>4. \A s \in counterSeries, y \in Years : CounterHolds(s, y)
    BY <1>3 DEF CounterHolds
  <1>5. \A y \in Years : InvoicesHold(y)
    BY <1>3 DEF InvoicesHold
  <1>6. RequestsOK /\ OneHolder
    BY DEF RequestsOK, OneHolder, Serving
  <1>7. \A y \in Years : IsFiniteSet(taken["inspection"][y])
    BY FS_EmptySet
  <1>8. QED
    BY <1>2, <1>4, <1>5, <1>6, <1>7 DEF Inv

\* A step that answers a request, moves it on to a step that claims no more,
\* or sends a new one, and leaves the rows and counters alone.
LEMMA RequestStep ==
    ASSUME Inv, NEW w \in Workers, NEW r,
           r \in InFlight \cup {NoRequest},
           r # NoRequest => RequestOK(r),
           (r # NoRequest /\ r.step = "drawn") =>
               \A v \in Workers \ {w} :
                   Serving(v, "drawn") =>
                       <<request[v].series, request[v].year>> #
                       <<r.series, r.year>>,
           request' = [request EXCEPT ![w] = r],
           year' = year, counter' = counter, taken' = taken,
           issued' = issued, sent' \in Nat
    PROVE  Inv'
  <1>1. TypeOK'
    BY DEF Inv, TypeOK
  <1>2. \A v \in Workers :
            request'[v] = IF v = w THEN r ELSE request[v]
    BY DEF Inv, TypeOK
  <1>3. RequestsOK'
    BY <1>2 DEF Inv, RequestsOK, RequestOK
  <1>4. OneHolder'
    BY <1>2 DEF Inv, OneHolder, Serving
  <1>5. (\A s \in counterSeries, y \in Years : CounterHolds(s, y))'
    BY DEF Inv, CounterHolds
  <1>6. (\A y \in Years : InvoicesHold(y))'
    BY DEF Inv, InvoicesHold
  <1>7. \A y \in Years : IsFiniteSet(taken'["inspection"][y])
    BY DEF Inv
  <1>8. QED
    BY <1>1, <1>3, <1>4, <1>5, <1>6, <1>7 DEF Inv

LEMMA AnswerStep ==
    ASSUME Inv, NEW w \in Workers, Answer(w),
           UNCHANGED <<year, counter, taken, issued, sent>>
    PROVE  Inv'
  BY RequestStep DEF Inv, TypeOK, Answer

LEMMA ArriveStep ==
    ASSUME Inv, NEW w \in Workers, NEW s \in Series, Arrive(w, s)
    PROVE  Inv'
  <1> USE DEF Series, counterSeries, countSeries
  <1>1. year \in Years /\ sent' \in Nat
    BY DEF Inv, TypeOK, Arrive
  <1>2. CASE s \in counterSeries
    <2> DEFINE r == [step |-> "arrived", series |-> s, year |-> year,
                     number |-> 0]
    <2>1. r \in InFlight /\ RequestOK(r) /\ r.step = "arrived"
      BY <1>1, <1>2 DEF InFlight, RequestOK
    <2>2. request' = [request EXCEPT ![w] = r]
      BY <1>2 DEF Arrive
    <2>3. QED
      BY <1>1, <2>1, <2>2, RequestStep DEF Arrive
  <1>3. CASE s \in countSeries
    <2> DEFINE n == Cardinality(taken[s][year]) + 1
               r == [step |-> "counted", series |-> s, year |-> year,
                     number |-> n]
    <2>1. /\ n \in Nat \ {0}
          /\ s = "invoice" => n - 1 \in issued["invoice"][year] \cup {0}
      <3>1. CASE s = "invoice"
        <4>1. PICK m \in Nat : issued["invoice"][year] = 1 .. m
          BY <1>1 DEF Inv, InvoicesHold
        <4>2. taken["invoice"][year] = 1 .. m
          BY <1>1, <4>1 DEF Inv, InvoicesHold
        <4>3. n = m + 1
          BY <3>1, <4>2, NextNumber
        <4>4. QED
          BY <4>1, <4>3
      <3>2. CASE s = "inspection"
        BY <1>1, <3>2, FS_CardinalityType DEF Inv
      <3>3. QED
        BY <1>3, <3>1, <3>2
    <2> HIDE DEF n
    <2>2. r \in InFlight
      BY <1>1, <1>3, <2>1 DEF InFlight
    <2>3. RequestOK(r) /\ r.step = "counted"
      BY <1>3, <2>1 DEF RequestOK
    <2>4. request' = [request EXCEPT ![w] = r]
      BY <1>3 DEF Arrive, countedRows, n
    <2>5. QED
      BY <1>1, <2>2, <2>3, <2>4, RequestStep DEF Arrive
  <1>4. QED
    BY <1>2, <1>3

LEMMA DrawStep ==
    ASSUME Inv, NEW w \in Workers, DrawNumber(w)
    PROVE  Inv'
  <1> DEFINE s == request[w].series
             y == numberYear(w)
             n == counter[s][y] + 1
             r == [request[w] EXCEPT !.step = "drawn", !.year = y,
                                     !.number = n]
  <1>1. request[w] \in InFlight /\ RequestOK(request[w])
        /\ request[w].step = "arrived"
    BY DEF Inv, TypeOK, RequestsOK, DrawNumber, Serving
  <1>2. s \in counterSeries /\ y \in Years
    BY <1>1 DEF Inv, TypeOK, RequestOK, InFlight, numberYear
  <1>3. n \in Nat
    BY <1>2, NumberConstants DEF Inv, TypeOK
  <1>4. CASE mayDraw(n)
    <2>1. request' = [request EXCEPT ![w] = r]
      BY <1>4 DEF DrawNumber
    <2>2. r \in InFlight /\ r.step = "drawn" /\ r.series = s /\ r.year = y
          /\ r.number = n
      BY <1>1, <1>2, <1>3 DEF InFlight
    <2>3. n \in 0 .. Limit /\ n # 0
      BY <1>2, <1>3, <1>4, NumberConstants DEF mayDraw, Inv, TypeOK
    <2>4. RequestOK(r)
      BY <1>2, <2>2, <2>3 DEF RequestOK, counterSeries
    <2>5. \A v \in Workers \ {w} :
              Serving(v, "drawn") =>
                  <<request[v].series, request[v].year>> # <<s, y>>
      BY DEF DrawNumber, isLocked
    <2>6. QED
      BY <2>1, <2>2, <2>4, <2>5, RequestStep DEF DrawNumber, Inv, TypeOK
  <1>5. CASE ~mayDraw(n)
    BY <1>5, AnswerStep DEF DrawNumber
  <1>6. QED
    BY <1>4, <1>5

LEMMA CheckStep ==
    ASSUME Inv, NEW w \in Workers, CheckInvoiceNumber(w)
    PROVE  Inv'
  <1> DEFINE r == [request[w] EXCEPT !.step = "inserting"]
  <1>1. request[w] \in InFlight /\ RequestOK(request[w])
        /\ request[w].step = "counted" /\ request[w].series = "invoice"
    BY DEF Inv, TypeOK, RequestsOK, CheckInvoiceNumber, Serving
  <1>2. CASE request[w].number \in taken["invoice"][request[w].year]
    BY <1>2, AnswerStep DEF CheckInvoiceNumber
  <1>3. CASE request[w].number \notin taken["invoice"][request[w].year]
    <2>1. request' = [request EXCEPT ![w] = r]
      BY <1>3 DEF CheckInvoiceNumber
    <2>2. r \in InFlight /\ r.step = "inserting" /\ r.series = "invoice"
          /\ r.number = request[w].number /\ r.year = request[w].year
      BY <1>1 DEF InFlight
    <2>3. RequestOK(r)
      BY <1>1, <2>2 DEF RequestOK
    <2>4. QED
      BY <2>1, <2>2, <2>3, RequestStep DEF CheckInvoiceNumber, Inv, TypeOK
  <1>4. QED
    BY <1>2, <1>3

-----------------------------------------------------------------------------
(* Numbers: the steps that insert *)

\* What a commit makes of the numbers of a counter series.
LEMMA CommitStep ==
    ASSUME Inv, NEW w \in Workers, CommitCounter(w)
    PROVE  Inv'
  <1> DEFINE s == request[w].series
             y == request[w].year
             n == request[w].number
  <1>1. /\ request[w] \in InFlight /\ RequestOK(request[w])
        /\ request[w].step = "drawn" /\ request[w] # NoRequest
    BY DEF Inv, TypeOK, RequestsOK, CommitCounter, Serving
  <1>2. s \in counterSeries /\ y \in Years /\ n = counter[s][y] + 1
        /\ n \in 0 .. Limit /\ n \in Nat \ {0} /\ counter[s][y] \in Nat
    BY <1>1, NumberConstants DEF RequestOK, InFlight, Inv, TypeOK
  <1>3. s \in Series /\ s # "invoice" /\ s # "inspection"
    BY <1>2 DEF Series, counterSeries
  <1>4. /\ taken' = [taken EXCEPT ![s][y] = @ \cup {n}]
        /\ issued' = [issued EXCEPT ![s][y] = @ \cup {n}]
        /\ counter' = [counter EXCEPT ![s][y] = n]
        /\ request' = [request EXCEPT ![w] = NoRequest]
        /\ year' = year /\ sent' = sent
    BY DEF CommitCounter, Insert, Answer
  <1>5. TypeOK'
    BY <1>2, <1>3, <1>4 DEF Inv, TypeOK
  <1>6. ASSUME NEW t \in counterSeries, NEW z \in Years
        PROVE  CounterHolds(t, z)'
    <2>1. CounterHolds(t, z) /\ t \in Series
      BY DEF Inv, Series
    <2>2. CASE t = s /\ z = y
      <3>1. /\ taken'[t][z] = taken[s][y] \cup {n}
            /\ issued'[t][z] = issued[s][y] \cup {n}
            /\ counter'[t][z] = n
        BY <1>2, <1>3, <1>4, <2>2 DEF Inv, TypeOK
      <3>2. issued[s][y] = 1 .. counter[s][y] /\ taken[s][y] \subseteq issued[s][y]
        BY <2>1, <2>2 DEF CounterHolds
      <3>3. (1 .. counter[s][y]) \cup {counter[s][y] + 1} =
                1 .. (counter[s][y] + 1)
        BY <1>2, NextNumber
      <3>4. QED
        BY <1>2, <3>1, <3>2, <3>3 DEF CounterHolds
    <2>3. CASE ~(t = s /\ z = y)
      BY <1>2, <1>3, <1>4, <2>1, <2>3 DEF Inv, TypeOK, CounterHolds
    <2>4. QED
      BY <2>2, <2>3
  <1>7. \A z \in Years : /\ taken'["invoice"][z] = taken["invoice"][z]
                         /\ issued'["invoice"][z] = issued["invoice"][z]
                         /\ taken'["inspection"][z] = taken["inspection"][z]
    BY <1>2, <1>3, <1>4 DEF Inv, TypeOK, Series, countSeries
  <1>8. /\ (\A z \in Years : InvoicesHold(z))'
        /\ \A z \in Years : IsFiniteSet(taken'["inspection"][z])
    BY <1>7 DEF Inv, InvoicesHold
  <1>9. \A v \in Workers :
            request'[v] = IF v = w THEN NoRequest ELSE request[v]
    BY <1>4 DEF Inv, TypeOK
  <1>10. ASSUME NEW v \in Workers, request'[v] # NoRequest
         PROVE  RequestOK(request[v])'
    <2>1. v # w /\ request'[v] = request[v] /\ request[v] \in InFlight
          /\ RequestOK(request[v])
      BY <1>9, <1>10 DEF Inv, TypeOK, RequestsOK
    <2>2. request[v].step = "drawn" =>
              <<request[v].series, request[v].year>> # <<s, y>>
      BY <1>1, <1>10, <2>1 DEF Inv, OneHolder, Serving
    <2>3. request[v].step = "drawn" =>
              counter'[request[v].series][request[v].year] =
                  counter[request[v].series][request[v].year]
      BY <1>2, <1>4, <2>1, <2>2 DEF Inv, TypeOK, RequestOK, InFlight
    <2>4. QED
      BY <1>7, <2>1, <2>3 DEF RequestOK, InFlight
  <1>11. OneHolder'
    BY <1>9 DEF Inv, OneHolder, Serving
  <1>12. RequestsOK'
    BY <1>9, <1>10 DEF RequestsOK
  <1>13. QED
    BY <1>5, <1>6, <1>8, <1>11, <1>12 DEF Inv

\* The invoice inserted has the number after the last one.
LEMMA InvoiceNumber ==
    ASSUME Inv, NEW w \in Workers, InsertInvoice(w)
    PROVE  /\ request[w].series = "invoice" /\ request[w].year \in Years
           /\ \E m \in Nat :
                  /\ issued["invoice"][request[w].year] = 1 .. m
                  /\ request[w].number = m + 1
  <1> DEFINE y == request[w].year
             n == request[w].number
  <1>1. /\ request[w] \in InFlight /\ RequestOK(request[w])
        /\ request[w].step = "inserting" /\ request[w].series = "invoice"
        /\ y \in Years /\ n \in Nat \ {0}
    BY DEF Inv, TypeOK, RequestsOK, InsertInvoice, Serving, RequestOK, InFlight
  <1>2. PICK m \in Nat : issued["invoice"][y] = 1 .. m
    BY <1>1 DEF Inv, InvoicesHold
  <1>3. n \notin 1 .. m
    BY <1>1, <1>2 DEF Inv, InvoicesHold, InsertInvoice, Insert
  <1>4. n - 1 \in (1 .. m) \cup {0}
    BY <1>1, <1>2 DEF RequestOK
  <1>5. n = m + 1
    BY <1>1, <1>3, <1>4
  <1>6. QED
    BY <1>1, <1>2, <1>5

\* A row of a series without a counter is inserted.
LEMMA InsertStep ==
    ASSUME Inv, NEW w \in Workers, InsertInvoice(w) \/ InsertInspection(w)
    PROVE  Inv'
  <1> DEFINE s == request[w].series
             y == request[w].year
             n == request[w].number
  <1>1. /\ request[w] \in InFlight /\ RequestOK(request[w])
        /\ s \in countSeries /\ request[w] # NoRequest
        /\ request[w].step # "arrived"
    BY DEF Inv, TypeOK, RequestsOK, InsertInvoice, InsertInspection, Serving,
           RequestOK, countSeries
  <1>2. s \in Series /\ y \in Years /\ n \in Nat \ {0} /\ s \notin counterSeries
    BY <1>1 DEF RequestOK, InFlight, Series, countSeries, counterSeries
  <1>3. /\ taken' = [taken EXCEPT ![s][y] = @ \cup {n}]
        /\ issued' = [issued EXCEPT ![s][y] = @ \cup {n}]
        /\ counter' = counter
        /\ request' = [request EXCEPT ![w] = NoRequest]
        /\ year' = year /\ sent' = sent
    BY DEF InsertInvoice, InsertInspection, Insert, Answer
  <1>4. TypeOK'
    BY <1>2, <1>3 DEF Inv, TypeOK
  <1>5. \A t \in Series, z \in Years :
            /\ taken'[t][z] = IF t = s /\ z = y THEN taken[t][z] \cup {n}
                                                 ELSE taken[t][z]
            /\ issued'[t][z] = IF t = s /\ z = y THEN issued[t][z] \cup {n}
                                                  ELSE issued[t][z]
    BY <1>2, <1>3 DEF Inv, TypeOK
  <1>6. ASSUME NEW t \in counterSeries, NEW z \in Years
        PROVE  CounterHolds(t, z)'
    BY <1>2, <1>3, <1>5 DEF Inv, CounterHolds, Series
  <1>7. ASSUME NEW z \in Years
        PROVE  InvoicesHold(z)'
    <2>1. InvoicesHold(z) /\ "invoice" \in Series
      BY DEF Inv, Series, countSeries
    <2>2. CASE s = "invoice" /\ z = y
      <3>1. InsertInvoice(w)
        BY <2>2 DEF InsertInspection
      <3>2. PICK m \in Nat : issued["invoice"][z] = 1 .. m /\ n = m + 1
        BY <2>2, <3>1, InvoiceNumber
      <3>3. (1 .. m) \cup {n} = 1 .. (m + 1) /\ m + 1 \in Nat
        BY <3>2, NextNumber
      <3>4. /\ issued'["invoice"][z] = issued["invoice"][z] \cup {n}
            /\ taken'["invoice"][z] = taken["invoice"][z] \cup {n}
        BY <1>5, <2>1, <2>2
      <3>5. /\ issued'["invoice"][z] = 1 .. (m + 1)
            /\ taken'["invoice"][z] = issued'["invoice"][z]
        BY <2>1, <3>2, <3>3, <3>4 DEF InvoicesHold
      <3>6. QED
        BY <3>3, <3>5 DEF InvoicesHold
    <2>3. CASE ~(s = "invoice" /\ z = y)
      BY <1>5, <2>1, <2>3 DEF InvoicesHold
    <2>4. QED
      BY <2>2, <2>3
  <1>8. ASSUME NEW z \in Years
        PROVE  IsFiniteSet(taken'["inspection"][z])
    <2>1. "inspection" \in Series /\ IsFiniteSet(taken["inspection"][z])
      BY DEF Inv, Series, countSeries
    <2>2. IsFiniteSet(taken["inspection"][z] \cup {n})
      BY <2>1, FS_AddElement
    <2>3. taken'["inspection"][z] \in
              {taken["inspection"][z], taken["inspection"][z] \cup {n}}
      BY <1>5, <2>1
    <2>4. QED
      BY <2>1, <2>2, <2>3
  <1>9. \A v \in Workers :
            request'[v] = IF v = w THEN NoRequest ELSE request[v]
    BY <1>3 DEF Inv, TypeOK
  <1>10. ASSUME NEW v \in Workers, request'[v] # NoRequest
         PROVE  RequestOK(request[v])'
    <2>1. request'[v] = request[v] /\ request[v] \in InFlight
          /\ RequestOK(request[v])
      BY <1>9, <1>10 DEF Inv, TypeOK, RequestsOK
    <2>2. "invoice" \in Series /\ request[v].year \in Years
      BY <2>1 DEF InFlight, Series, countSeries
    <2>3. issued["invoice"][request[v].year] \subseteq
              issued'["invoice"][request[v].year]
      BY <1>5, <2>2
    <2>4. QED
      BY <1>3, <2>1, <2>3 DEF RequestOK
  <1>11. OneHolder'
    BY <1>9 DEF Inv, OneHolder, Serving
  <1>12. RequestsOK'
    BY <1>9, <1>10 DEF RequestsOK
  <1>13. QED
    BY <1>4, <1>6, <1>7, <1>8, <1>11, <1>12 DEF Inv

LEMMA DeleteStep ==
    ASSUME Inv, NEW s \in Series, NEW y \in Years, NEW n \in taken[s][y],
           Delete(s, y, n)
    PROVE  Inv'
  <1>1. /\ taken' = [taken EXCEPT ![s][y] = @ \ {n}]
        /\ s # "invoice"
        /\ year' = year /\ counter' = counter /\ issued' = issued
        /\ request' = request /\ sent' = sent
    BY DEF Delete, mayDelete
  <1>2. TypeOK'
    BY <1>1 DEF Inv, TypeOK
  <1>3. \A t \in Series, z \in Years :
            taken'[t][z] = IF t = s /\ z = y THEN taken[t][z] \ {n}
                                             ELSE taken[t][z]
    BY <1>1 DEF Inv, TypeOK
  <1>4. (\A t \in counterSeries, z \in Years : CounterHolds(t, z))'
    BY <1>1, <1>3 DEF Inv, CounterHolds, Series
  <1>5. (\A z \in Years : InvoicesHold(z))'
    BY <1>1, <1>3 DEF Inv, InvoicesHold, Series, countSeries
  <1>6. ASSUME NEW z \in Years
        PROVE  IsFiniteSet(taken'["inspection"][z])
    <2>1. "inspection" \in Series /\ IsFiniteSet(taken["inspection"][z])
      BY DEF Inv, Series, countSeries
    <2>2. taken'["inspection"][z] \subseteq taken["inspection"][z]
      BY <1>3, <2>1
    <2>3. QED
      BY <2>1, <2>2, FS_Subset
  <1>7. RequestsOK' /\ OneHolder'
    BY <1>1 DEF Inv, RequestsOK, RequestOK, OneHolder, Serving
  <1>8. QED
    BY <1>2, <1>4, <1>5, <1>6, <1>7 DEF Inv

\* A step that changes nothing but the current year.
LEMMA YearStep ==
    ASSUME Inv, year' \in Years,
           UNCHANGED <<counter, taken, issued, request, sent>>
    PROVE  Inv'
  BY DEF Inv, TypeOK, RequestsOK, RequestOK, OneHolder, Serving,
         CounterHolds, InvoicesHold

LEMMA NextInv == Inv /\ [Next]_vars => Inv'
  <1> SUFFICES ASSUME Inv, [Next]_vars PROVE Inv'
    OBVIOUS
  <1>1. ASSUME NEW w \in Workers, NEW s \in Series, Arrive(w, s)
        PROVE  Inv'
    BY <1>1, ArriveStep
  <1>2. ASSUME NEW w \in Workers, Serve(w)
        PROVE  Inv'
    <2>1. CASE DrawNumber(w)
      BY <2>1, DrawStep
    <2>2. CASE CommitCounter(w)
      BY <2>2, CommitStep
    <2>3. CASE AbortCounter(w)
      BY <2>3, AnswerStep DEF AbortCounter
    <2>4. CASE CheckInvoiceNumber(w)
      BY <2>4, CheckStep
    <2>5. CASE InsertInvoice(w) \/ InsertInspection(w)
      BY <2>5, InsertStep
    <2>6. CASE FailInsert(w)
      BY <2>6, AnswerStep DEF FailInsert
    <2>7. QED
      BY <1>2, <2>1, <2>2, <2>3, <2>4, <2>5, <2>6 DEF Serve
  <1>3. ASSUME NEW s \in Series, NEW y \in Years, NEW n \in taken[s][y],
               Delete(s, y, n)
        PROVE  Inv'
    BY <1>3, DeleteStep
  <1>4. CASE NewYear
    <2>1. year' \in Years
      BY <1>4, NumberConstants DEF NewYear, Inv, TypeOK, Years
    <2>2. QED
      BY <1>4, <2>1, YearStep DEF NewYear
  <1>5. CASE UNCHANGED vars
    BY <1>5, YearStep DEF vars, Inv, TypeOK
  <1>6. QED
    BY <1>1, <1>2, <1>3, <1>4, <1>5 DEF Next

LEMMA InvAlways == Spec => []Inv
  BY InitInv, NextInv, PTL DEF Spec

-----------------------------------------------------------------------------
(* Numbers: the theorems *)

\* Numbers, counters and requests keep their types; in particular no counter
\* passes its limit.
THEOREM NumbersTyped == Spec => []TypeOK
  <1>1. Inv => TypeOK
    BY DEF Inv
  <1>2. QED
    BY <1>1, InvAlways, PTL

\* A shipment or vehicle number that a transaction drew was never given to
\* another row and is held by no other transaction: its insert cannot fail
\* because of the number.
THEOREM DrawnNumberIsFreshAlways == Spec => []DrawnNumberIsFresh
  <1>1. ASSUME Inv PROVE DrawnNumberIsFresh
    <2> SUFFICES ASSUME NEW w \in Workers, Serving(w, "drawn")
                 PROVE  /\ request[w].number \notin
                               issued[request[w].series][request[w].year]
                        /\ \A v \in Workers \ {w} :
                               Serving(v, "drawn") =>
                                   <<request[v].series, request[v].year,
                                     request[v].number>> #
                                   <<request[w].series, request[w].year,
                                     request[w].number>>
      BY DEF DrawnNumberIsFresh
    <2>1. RequestOK(request[w]) /\ request[w] \in InFlight
          /\ request[w].step = "drawn"
      BY <1>1 DEF Inv, TypeOK, RequestsOK, Serving
    <2>2. request[w].series \in counterSeries /\ request[w].year \in Years
          /\ request[w].number =
                 counter[request[w].series][request[w].year] + 1
      BY <2>1 DEF RequestOK, InFlight
    <2>3. counter[request[w].series][request[w].year] \in Nat
      BY <1>1, <2>2, NumberConstants DEF Inv, TypeOK
    <2>4. issued[request[w].series][request[w].year] =
              1 .. counter[request[w].series][request[w].year]
      BY <1>1, <2>2 DEF Inv, CounterHolds
    <2>5. QED
      BY <1>1, <2>2, <2>3, <2>4 DEF Inv, OneHolder
  <1>2. QED
    BY <1>1, InvAlways, PTL

\* Invoices are numbered from a count, yet the next count always names a
\* number that is free, whatever the requests in flight hold.
THEOREM NextInvoiceNumberIsFreeAlways == Spec => []NextInvoiceNumberIsFree
  <1>1. ASSUME Inv, NEW y \in Years
        PROVE  Cardinality(countedRows("invoice", y)) + 1 \notin
                   taken["invoice"][y]
    <2>1. PICK n \in Nat : issued["invoice"][y] = 1 .. n
      BY <1>1 DEF Inv, InvoicesHold
    <2>2. taken["invoice"][y] = 1 .. n
      BY <1>1, <2>1 DEF Inv, InvoicesHold
    <2>3. QED
      BY <2>2, NextNumber DEF countedRows
  <1>2. Inv => NextInvoiceNumberIsFree
    BY <1>1 DEF NextInvoiceNumberIsFree
  <1>3. QED
    BY <1>2, InvAlways, PTL

-----------------------------------------------------------------------------
(* Numbers: the series that are promised *)

promisedSeries == Series \ {"inspection"}
numbers == [s \in promisedSeries |-> issued[s]]

\* A row inserted into one of the promised series gets the next number.
LEMMA NextIssued ==
    ASSUME Inv, NEW s \in promisedSeries, NEW y \in Years, NEW m \in Nat,
           issued[s][y] = 1 .. m,
           issued' = [issued EXCEPT ![s][y] = @ \cup {m + 1}]
    PROVE  Numbered!Next
  <1>1. Cardinality(issued[s][y]) + 1 = m + 1
    BY NextNumber
  <1>2. [t \in promisedSeries |-> issued'[t]] =
            [numbers EXCEPT ![s][y] = @ \cup {m + 1}]
    <2>1. issued \in [Series -> [Years -> SUBSET (Nat \ {0})]]
      BY DEF Inv, TypeOK
    <2>2. \A t \in promisedSeries :
              issued'[t] = IF t = s THEN [issued[s] EXCEPT ![y] = @ \cup {m + 1}]
                                    ELSE issued[t]
      BY <2>1 DEF promisedSeries
    <2>3. QED
      BY <2>2 DEF numbers
  <1>3. numbers[s][y] = issued[s][y]
    BY DEF numbers
  <1>4. [numbers EXCEPT ![s][y] = @ \cup {m + 1}] =
            [numbers EXCEPT ![s][y] = @ \cup {Cardinality(@) + 1}]
    BY <1>1, <1>3
  <1>5. [t \in promisedSeries |-> issued'[t]] =
            [numbers EXCEPT ![s][y] = @ \cup {Cardinality(@) + 1}]
    BY <1>2, <1>4
  <1>6. Numbered!Issue(s, y)
    BY <1>5, Zenon
       DEF Numbered!Issue, numbers, promisedSeries, Cardinality,
           Numbered!Cardinality
  <1>7. QED
    BY <1>6 DEF Numbered!Next, promisedSeries

\* A step that issues no number of a promised series.
LEMMA NothingIssued ==
    ASSUME \A s \in promisedSeries : issued'[s] = issued[s]
    PROVE  [Numbered!Next]_numbers
  BY DEF numbers

\* Whatever requests overlap, fail or are late, shipment, vehicle and invoice
\* numbers are given out in order, each once and without a gap.
THEOREM NumbersInOrder == Spec => ImplementsNumberSeries
  <1>1. Init => Numbered!Init
    BY DEF Init, Numbered!Init, Series
  <1>2. ASSUME Inv, [Next]_vars
        PROVE  [Numbered!Next]_numbers
    <2>1. CASE issued' = issued
      BY <2>1, NothingIssued
    <2>2. ASSUME NEW w \in Workers, CommitCounter(w)
          PROVE  [Numbered!Next]_numbers
      <3> DEFINE s == request[w].series
                 y == request[w].year
      <3>1. /\ request[w] \in InFlight /\ RequestOK(request[w])
            /\ request[w].step = "drawn"
        BY <1>2, <2>2 DEF Inv, TypeOK, RequestsOK, CommitCounter, Serving
      <3>2. s \in counterSeries /\ y \in Years
            /\ request[w].number = counter[s][y] + 1
        BY <3>1 DEF RequestOK, InFlight
      <3>3. counter[s][y] \in Nat /\ issued[s][y] = 1 .. counter[s][y]
        BY <1>2, <3>2, NumberConstants DEF Inv, TypeOK, CounterHolds
      <3>4. issued' = [issued EXCEPT ![s][y] = @ \cup {counter[s][y] + 1}]
        BY <2>2, <3>2 DEF CommitCounter, Insert
      <3>5. s \in promisedSeries
        BY <3>2 DEF promisedSeries, Series, counterSeries
      <3>6. QED
        BY <1>2, <3>2, <3>3, <3>4, <3>5, NextIssued
    <2>3. ASSUME NEW w \in Workers, InsertInvoice(w)
          PROVE  [Numbered!Next]_numbers
      <3>1. PICK m \in Nat :
                /\ issued["invoice"][request[w].year] = 1 .. m
                /\ request[w].number = m + 1
        BY <1>2, <2>3, InvoiceNumber
      <3>2. request[w].series = "invoice" /\ request[w].year \in Years
        BY <1>2, <2>3, InvoiceNumber
      <3>3. issued' = [issued EXCEPT
                          !["invoice"][request[w].year] = @ \cup {m + 1}]
        BY <2>3, <3>1, <3>2 DEF InsertInvoice, Insert
      <3>4. "invoice" \in promisedSeries
        BY DEF promisedSeries, Series, countSeries
      <3>5. QED
        BY <1>2, <3>1, <3>2, <3>3, <3>4, NextIssued
    <2>4. ASSUME NEW w \in Workers, InsertInspection(w)
          PROVE  [Numbered!Next]_numbers
      <3>1. request[w].series = "inspection"
            /\ issued' = [issued EXCEPT ![request[w].series][request[w].year] =
                                            @ \cup {request[w].number}]
        BY <2>4 DEF InsertInspection, Insert
      <3>2. \A s \in promisedSeries : issued'[s] = issued[s]
        BY <1>2, <3>1 DEF promisedSeries, Inv, TypeOK
      <3>3. QED
        BY <3>2, NothingIssued
    <2>5. QED
      BY <1>2, <2>1, <2>2, <2>3, <2>4
      DEF Next, Serve, vars, Arrive, DrawNumber, AbortCounter,
          CheckInvoiceNumber, FailInsert, Delete, NewYear
  <1>3. QED
    BY <1>1, <1>2, InvAlways, PTL
    DEF Spec, ImplementsNumberSeries, Numbered!Spec, numbers, promisedSeries

-----------------------------------------------------------------------------
(* Customers and what refers to them: types *)

\* A request is asked something, and every operation names what it needs.
LEMMA AskTypes ==
    ASSUME RecordsTypeOK, NEW r \in Requests, requests[r] # Idle
    PROVE  LET ask == requests[r].ask
           IN  /\ requests[r].step \in {"asked", "half", "checked"}
               /\ ask \in Operations
               /\ ask.op \in {"createCustomer", "updateCustomer"} =>
                     ask.customer \in Customers /\ ask.no \in Numbers
               /\ ask.op \in {"createShipment", "updateShipment"} =>
                     ask.shipment \in Shipments /\ ask.customer \in Customers
               /\ ask.op = "removeCustomer" => ask.customer \in Customers
               /\ ask.op = "removeShipment" => ask.shipment \in Shipments
               /\ ask.op = "createInvoice" =>
                     /\ ask.invoice \in Invoices
                     /\ ask.customer \in Customers /\ ask.shipment \in Shipments
  <1>1. requests[r] \in [step: {"asked", "half", "checked"}, ask: Operations]
    BY DEF RecordsTypeOK
  <1>2. requests[r].ask \in Operations
    BY <1>1
  <1>3. QED
    BY <1>1, <1>2 DEF Operations

LEMMA WritesNotIdle ==
    ASSUME NEW r, NEW op, Writes(r, op)
    PROVE  requests[r] # Idle /\ requests[r].ask.op = op /\ requests[r].step = "checked"
  BY DEF Writes, Idle

LEMMA EndsTypes ==
    ASSUME RecordsTypeOK, NEW r \in Requests, Ends(r)
    PROVE  requests' \in [Requests -> [step: {"asked", "half", "checked"}, ask: Operations]
                                        \cup {Idle}]
  BY DEF RecordsTypeOK, Ends

LEMMA TypeInit == RecordsInit => RecordsTypeOK
  BY DEF RecordsInit, RecordsTypeOK

LEMMA TypeStep == RecordsTypeOK /\ [RecordsNext]_recordVars => RecordsTypeOK'
  <1>1. SUFFICES ASSUME RecordsTypeOK, [RecordsNext]_recordVars
                 PROVE  RecordsTypeOK'
    OBVIOUS
  <1>2. CASE UNCHANGED recordVars
    BY <1>1, <1>2 DEF RecordsTypeOK, recordVars
  <1>3. ASSUME NEW r \in Requests, Ask(r)
        PROVE  RecordsTypeOK'
    BY <1>1, <1>3 DEF RecordsTypeOK, Ask
  <1>4. ASSUME NEW r \in Requests, Check(r)
        PROVE  RecordsTypeOK'
    <2>1. requests[r] # Idle
      BY <1>4 DEF Check, Idle
    <2>2. requests[r].ask \in Operations
      BY <1>1, <2>1, AskTypes
    <2>3. stepAfter(requests[r].ask, requests[r].step) \in {"asked", "half", "checked"}
      BY DEF stepAfter
    <2>4. QED
      BY <1>1, <1>4, <2>2, <2>3 DEF RecordsTypeOK, Check
  <1>5. ASSUME NEW r \in Requests, WriteCustomer(r)
        PROVE  RecordsTypeOK'
    <2>1. /\ requests[r].ask.customer \in Customers
          /\ requests[r].ask.no \in Numbers
      BY <1>1, <1>5, AskTypes, WritesNotIdle DEF WriteCustomer
    <2>2. QED
      BY <1>1, <1>5, <2>1, EndsTypes DEF RecordsTypeOK, WriteCustomer, Customer
  <1>6. ASSUME NEW r \in Requests, RemoveCustomer(r)
        PROVE  RecordsTypeOK'
    BY <1>1, <1>6, EndsTypes DEF RecordsTypeOK, RemoveCustomer
  <1>7. ASSUME NEW r \in Requests, WriteShipment(r)
        PROVE  RecordsTypeOK'
    <2>1. /\ requests[r].ask.customer \in Customers
          /\ requests[r].ask.shipment \in Shipments
      BY <1>1, <1>7, AskTypes, WritesNotIdle DEF WriteShipment
    <2>2. moved' \subseteq Invoices
      BY <1>1, <1>7 DEF RecordsTypeOK, WriteShipment, invoicesOf
    <2>3. QED
      BY <1>1, <1>7, <2>1, <2>2, EndsTypes DEF RecordsTypeOK, WriteShipment, Shipment
  <1>8. ASSUME NEW r \in Requests, RemoveShipment(r)
        PROVE  RecordsTypeOK'
    BY <1>1, <1>8, EndsTypes DEF RecordsTypeOK, RemoveShipment
  <1>9. ASSUME NEW r \in Requests, WriteInvoice(r)
        PROVE  RecordsTypeOK'
    <2>1. /\ requests[r].ask.customer \in Customers
          /\ requests[r].ask.shipment \in Shipments
      BY <1>1, <1>9, AskTypes, WritesNotIdle DEF WriteInvoice
    <2>2. QED
      BY <1>1, <1>9, <2>1, EndsTypes DEF RecordsTypeOK, WriteInvoice, Invoice
  <1>10. ASSUME NEW r \in Requests, Refuse(r)
         PROVE  RecordsTypeOK'
    BY <1>1, <1>10, EndsTypes DEF RecordsTypeOK, Refuse
  <1>11. QED
    BY <1>1, <1>2, <1>3, <1>4, <1>5, <1>6, <1>7, <1>8, <1>9, <1>10 DEF RecordsNext, Write

\* Type correctness of the tables and of the requests under way.
THEOREM RecordsTyped == RecordsSpec => []RecordsTypeOK
  BY TypeInit, TypeStep, PTL DEF RecordsSpec

-----------------------------------------------------------------------------
(* The tables.  What a handler has read plays no part in the first two: the  *)
(* constraints look at the rows at the moment of the write.                  *)

\* The steps that write no table.
LEMMA NoWrite ==
    ASSUME NEW r \in Requests, Ask(r) \/ Check(r) \/ Refuse(r)
    PROVE  UNCHANGED <<customers, shipments, invoices, moved>>
  BY DEF Ask, Check, Refuse

LEMMA NumbersInit == RecordsInit => NumbersDiffer
  BY DEF RecordsInit, NumbersDiffer, there, NoRow

LEMMA NumbersStep == RecordsTypeOK /\ NumbersDiffer /\ [RecordsNext]_recordVars => NumbersDiffer'
  <1>1. SUFFICES ASSUME RecordsTypeOK, NumbersDiffer, [RecordsNext]_recordVars
                 PROVE  NumbersDiffer'
    OBVIOUS
  <1>2. ASSUME customers' = customers
        PROVE  NumbersDiffer'
    BY <1>1, <1>2 DEF NumbersDiffer, there
  <1>3. ASSUME NEW r \in Requests, WriteCustomer(r)
        PROVE  NumbersDiffer'
    <2> DEFINE c == requests[r].ask.customer
               no == requests[r].ask.no
    <2>1. c \in Customers
      BY <1>1, <1>3, AskTypes, WritesNotIdle DEF WriteCustomer
    <2>2. customers' = [customers EXCEPT ![c] = [state |-> "there", no |-> no]]
      BY <1>3 DEF WriteCustomer
    <2>3. \A other \in Customers \ {c} : there(customers[other]) => customers[other].no # no
      BY <1>3 DEF WriteCustomer, uniqueNumber, numberFree
    <2>4. /\ customers'[c].no = no
          /\ \A other \in Customers \ {c} : customers'[other] = customers[other]
      BY <1>1, <2>1, <2>2 DEF RecordsTypeOK
    <2>5. QED
      BY <1>1, <2>3, <2>4 DEF NumbersDiffer, there
  <1>4. ASSUME NEW r \in Requests, RemoveCustomer(r)
        PROVE  NumbersDiffer'
    <2> DEFINE c == requests[r].ask.customer
    <2>1. /\ customers' = [customers EXCEPT ![c] = Gone]
          /\ Gone.state # "there"
      BY <1>4 DEF RemoveCustomer, Gone
    <2>2. \A other \in Customers : there(customers'[other]) =>
              there(customers[other]) /\ customers'[other] = customers[other]
      BY <1>1, <2>1 DEF RecordsTypeOK, there
    <2>3. QED
      BY <1>1, <2>2 DEF NumbersDiffer, there
  <1>5. QED
    <2>1. CASE UNCHANGED recordVars
      BY <2>1, <1>2 DEF recordVars
    <2>2. ASSUME NEW r \in Requests, Ask(r) \/ Check(r) \/ Write(r)
          PROVE  NumbersDiffer'
      BY <2>2, <1>2, <1>3, <1>4, NoWrite DEF Write, WriteShipment, RemoveShipment, WriteInvoice
    <2>3. QED
      BY <1>1, <2>1, <2>2 DEF RecordsNext

\* No two customers share a number, whatever overlaps: the duplicate that a
\* handler looked for before it wrote may have come meanwhile, the unique index
\* sees it.
THEOREM NumbersDifferAlways == RecordsSpec => []NumbersDiffer
  BY TypeInit, TypeStep, NumbersInit, NumbersStep, PTL DEF RecordsSpec

-----------------------------------------------------------------------------
(* The references *)

LEMMA DanglesInit == RecordsInit => NothingDangles
  BY DEF RecordsInit, NothingDangles, there, NoRow

LEMMA DanglesStep == RecordsTypeOK /\ NothingDangles /\ [RecordsNext]_recordVars => NothingDangles'
  <1>1. SUFFICES ASSUME RecordsTypeOK, NothingDangles, [RecordsNext]_recordVars
                 PROVE  NothingDangles'
    OBVIOUS
  <1>2. ASSUME UNCHANGED <<customers, shipments, invoices>>
        PROVE  NothingDangles'
    BY <1>1, <1>2 DEF NothingDangles, there
  <1>3. ASSUME NEW r \in Requests, WriteCustomer(r)
        PROVE  NothingDangles'
    <2>1. /\ \A c \in Customers : there(customers[c]) => there(customers'[c])
          /\ shipments' = shipments /\ invoices' = invoices
      BY <1>1, <1>3 DEF WriteCustomer, RecordsTypeOK, there
    <2>2. /\ \A s \in Shipments : there(shipments[s]) => shipments[s].customer \in Customers
          /\ \A v \in Invoices : there(invoices[v]) => invoices[v].customer \in Customers
      BY <1>1 DEF RecordsTypeOK, there, Shipment, Invoice, NoRow, Gone
    <2>3. QED
      BY <1>1, <2>1, <2>2 DEF NothingDangles
  <1>4. ASSUME NEW r \in Requests, RemoveCustomer(r)
        PROVE  NothingDangles'
    <2> DEFINE c == requests[r].ask.customer
    <2>1. /\ customers' = [customers EXCEPT ![c] = Gone]
          /\ shipments' = shipments /\ invoices' = invoices /\ ~refersTo(c)
      BY <1>4 DEF RemoveCustomer
    <2>2. \A other \in Customers \ {c} : customers'[other] = customers[other]
      BY <1>1, <2>1 DEF RecordsTypeOK
    <2>3. /\ \A s \in Shipments : there(shipments[s]) => shipments[s].customer \in Customers \ {c}
          /\ \A v \in Invoices : there(invoices[v]) => invoices[v].customer \in Customers \ {c}
      BY <1>1, <2>1 DEF RecordsTypeOK, there, Shipment, Invoice, NoRow, Gone, refersTo, owns
    <2>4. QED
      BY <1>1, <2>1, <2>2, <2>3 DEF NothingDangles
  <1>5. ASSUME NEW r \in Requests, WriteShipment(r)
        PROVE  NothingDangles'
    <2> DEFINE s == requests[r].ask.shipment
               c == requests[r].ask.customer
    <2>1. s \in Shipments /\ c \in Customers /\ there(customers[c])
      BY <1>1, <1>5, AskTypes, WritesNotIdle DEF WriteShipment
    <2>2. /\ shipments' = [shipments EXCEPT ![s] = [state |-> "there", customer |-> c]]
          /\ customers' = customers /\ invoices' = invoices
      BY <1>5 DEF WriteShipment
    <2>3. /\ there(shipments'[s]) /\ shipments'[s].customer = c
          /\ \A other \in Shipments \ {s} : shipments'[other] = shipments[other]
      BY <1>1, <2>1, <2>2 DEF RecordsTypeOK, there
    <2>4. \A v \in Invoices : there(invoices[v]) => invoices[v].shipment \in Shipments
      BY <1>1 DEF RecordsTypeOK, there, Invoice, NoRow
    <2>5. QED
      BY <1>1, <2>1, <2>2, <2>3, <2>4 DEF NothingDangles
  <1>6. ASSUME NEW r \in Requests, RemoveShipment(r)
        PROVE  NothingDangles'
    <2> DEFINE s == requests[r].ask.shipment
    <2>1. /\ shipments' = [shipments EXCEPT ![s] = Gone]
          /\ customers' = customers /\ invoices' = invoices
          /\ \A v \in Invoices : there(invoices[v]) => invoices[v].shipment # s
      BY <1>6 DEF RemoveShipment
    <2>2. \A other \in Shipments : other # s => shipments'[other] = shipments[other]
      BY <1>1, <2>1 DEF RecordsTypeOK
    <2>3. s \in Shipments => ~there(shipments'[s])
      BY <1>1, <2>1 DEF RecordsTypeOK, there, Gone
    <2>4. \A v \in Invoices : there(invoices[v]) => invoices[v].shipment \in Shipments
      BY <1>1 DEF RecordsTypeOK, there, Invoice, NoRow
    <2>5. QED
      BY <1>1, <2>1, <2>2, <2>3, <2>4 DEF NothingDangles
  <1>7. ASSUME NEW r \in Requests, WriteInvoice(r)
        PROVE  NothingDangles'
    <2> DEFINE ask == requests[r].ask
    <2>1. ask.invoice \in Invoices
      BY <1>1, <1>7, AskTypes, WritesNotIdle DEF WriteInvoice
    <2>2. /\ invoices' = [invoices EXCEPT ![ask.invoice] =
                              [state |-> "there", customer |-> ask.customer, shipment |-> ask.shipment]]
          /\ customers' = customers /\ shipments' = shipments
          /\ there(customers[ask.customer]) /\ there(shipments[ask.shipment])
      BY <1>7 DEF WriteInvoice
    <2>3. /\ invoices'[ask.invoice].customer = ask.customer
          /\ invoices'[ask.invoice].shipment = ask.shipment
          /\ \A other \in Invoices \ {ask.invoice} : invoices'[other] = invoices[other]
      BY <1>1, <2>1, <2>2 DEF RecordsTypeOK
    <2>4. QED
      BY <1>1, <2>1, <2>2, <2>3 DEF NothingDangles
  <1>8. QED
    <2>1. CASE UNCHANGED recordVars
      BY <2>1, <1>2 DEF recordVars
    <2>2. ASSUME NEW r \in Requests, Ask(r) \/ Check(r) \/ Write(r)
          PROVE  NothingDangles'
      BY <2>2, <1>2, <1>3, <1>4, <1>5, <1>6, <1>7, NoWrite DEF Write
    <2>3. QED
      BY <1>1, <2>1, <2>2 DEF RecordsNext

\* No reference dangles: what a handler found may have gone since, but no row
\* that is referred to can go, and none that is gone can be referred to.
THEOREM NothingDanglesAlways == RecordsSpec => []NothingDangles
  BY TypeInit, TypeStep, DanglesInit, DanglesStep, PTL DEF RecordsSpec

-----------------------------------------------------------------------------
(* The customer of an invoice.  What was checked about its shipment holds    *)
(* until the invoice is written, or the shipment has gone or moved.          *)

Checked(r) ==
    Writes(r, "createInvoice") /\ requests[r].ask.invoice \notin moved =>
        \/ owns(requests[r].ask.customer, requests[r].ask.shipment)
        \/ shipments[requests[r].ask.shipment] = Gone

OwnersOK == InvoiceNamesOwner /\ \A r \in Requests : Checked(r)

LEMMA OwnersInit == RecordsInit => OwnersOK
  BY DEF RecordsInit, OwnersOK, InvoiceNamesOwner, Checked, Writes, Idle, there, NoRow

\* A step of one request leaves what another one has checked, unless it writes
\* a shipment.
LEMMA OthersChecked ==
    ASSUME RecordsTypeOK, OwnersOK, NEW r \in Requests, NEW q \in Requests, q # r,
           requests'[q] = requests[q], shipments' = shipments, moved' = moved
    PROVE  Checked(q)'
  BY DEF OwnersOK, Checked, Writes, owns, there

LEMMA EndedChecked ==
    ASSUME RecordsTypeOK, NEW r \in Requests, Ends(r)
    PROVE  /\ Checked(r)'
           /\ \A q \in Requests \ {r} : requests'[q] = requests[q]
  <1>1. /\ requests'[r] = Idle
        /\ \A q \in Requests \ {r} : requests'[q] = requests[q]
    BY DEF Ends, RecordsTypeOK
  <1>2. ~Writes(r, "createInvoice")'
    BY <1>1 DEF Writes, Idle
  <1>3. QED
    BY <1>1, <1>2 DEF Checked

LEMMA OwnersStep == RecordsTypeOK /\ OwnersOK /\ [RecordsNext]_recordVars => OwnersOK'
  <1>1. SUFFICES ASSUME RecordsTypeOK, OwnersOK, [RecordsNext]_recordVars
                 PROVE  OwnersOK'
    OBVIOUS
  <1>2. ASSUME UNCHANGED <<shipments, invoices, moved>>
        PROVE  InvoiceNamesOwner'
    BY <1>1, <1>2 DEF OwnersOK, InvoiceNamesOwner, owns, there
  <1>3. CASE UNCHANGED recordVars
    BY <1>1, <1>2, <1>3 DEF recordVars, OwnersOK, Checked, Writes, owns, there
  <1>4. ASSUME NEW r \in Requests, Ask(r)
        PROVE  OwnersOK'
    <2>1. /\ requests'[r].step = "asked"
          /\ \A q \in Requests \ {r} : requests'[q] = requests[q]
      BY <1>1, <1>4 DEF Ask, RecordsTypeOK
    <2>2. Checked(r)'
      BY <2>1 DEF Checked, Writes
    <2>3. QED
      BY <1>1, <1>2, <1>4, <2>1, <2>2, NoWrite, OthersChecked DEF OwnersOK
  <1>5. ASSUME NEW r \in Requests, Check(r)
        PROVE  OwnersOK'
    <2> DEFINE ask == requests[r].ask
               step == requests[r].step
    <2>1. /\ requests'[r] = IF passes(ask, step)
                            THEN [step |-> stepAfter(ask, step), ask |-> ask] ELSE Idle
          /\ \A q \in Requests \ {r} : requests'[q] = requests[q]
          /\ UNCHANGED <<customers, shipments, invoices, moved>>
      BY <1>1, <1>5 DEF Check, RecordsTypeOK
    <2>2. ASSUME Writes(r, "createInvoice")'
          PROVE  requests'[r].ask = ask /\ owns(ask.customer, ask.shipment)
      <3>1. passes(ask, step) /\ requests'[r].ask = ask
        BY <2>1, <2>2 DEF Writes, Idle
      <3>2. ask.op = "createInvoice" /\ stepAfter(ask, step) = "checked"
        BY <2>1, <2>2, <3>1 DEF Writes
      <3>3. step # "asked"
        BY <3>2 DEF stepAfter
      <3>4. QED
        BY <3>1, <3>2, <3>3 DEF passes, ensureShipmentExists
    <2>3. Checked(r)'
      BY <2>1, <2>2 DEF Checked, owns, there
    <2>4. QED
      BY <1>1, <1>2, <2>1, <2>3, OthersChecked DEF OwnersOK
  <1>6. ASSUME NEW r \in Requests, Ends(r), UNCHANGED <<shipments, invoices, moved>>
        PROVE  OwnersOK'
    BY <1>1, <1>2, <1>6, EndedChecked, OthersChecked DEF OwnersOK
  <1>7. ASSUME NEW r \in Requests, WriteShipment(r)
        PROVE  OwnersOK'
    <2> DEFINE s == requests[r].ask.shipment
               c == requests[r].ask.customer
    <2>1. s \in Shipments /\ c \in Customers
      BY <1>1, <1>7, AskTypes, WritesNotIdle DEF WriteShipment
    <2>2. /\ shipments' = [shipments EXCEPT ![s] = [state |-> "there", customer |-> c]]
          /\ moved' = moved \cup (IF there(shipments[s]) /\ ~owns(c, s) THEN invoicesOf(s) ELSE {})
          /\ invoices' = invoices /\ Ends(r)
          /\ shipments[s] = NoRow \/ there(shipments[s])
      BY <1>7 DEF WriteShipment
    <2>3. /\ shipments'[s] = [state |-> "there", customer |-> c]
          /\ \A other \in Shipments \ {s} : shipments'[other] = shipments[other]
      BY <1>1, <2>1, <2>2 DEF RecordsTypeOK
    <2>4. ASSUME NEW v \in Invoices, v \notin moved', there(invoices[v])
          PROVE  owns(invoices[v].customer, invoices[v].shipment)'
      <3>1. owns(invoices[v].customer, invoices[v].shipment)
        BY <1>1, <2>2, <2>4 DEF OwnersOK, InvoiceNamesOwner
      <3>2. invoices[v].shipment \in Shipments
        BY <1>1, <2>4 DEF RecordsTypeOK, there, Invoice, NoRow
      <3>3. CASE invoices[v].shipment # s
        BY <2>2, <2>3, <3>1, <3>2, <3>3 DEF owns, there
      <3>4. CASE invoices[v].shipment = s
        <4>1. v \in invoicesOf(s) /\ there(shipments[s])
          BY <2>4, <3>1, <3>4 DEF invoicesOf, owns
        <4>2. owns(c, s)
          BY <2>2, <2>4, <4>1
        <4>3. QED
          BY <2>2, <2>3, <3>1, <3>4, <4>2 DEF owns, there
      <3>5. QED
        BY <3>3, <3>4
    <2>5. ASSUME NEW q \in Requests, q # r,
                 Writes(q, "createInvoice"), requests[q].ask.invoice \notin moved'
          PROVE  LET row == shipments'[requests[q].ask.shipment]
                 IN  \/ there(row) /\ row.customer = requests[q].ask.customer
                     \/ row = Gone
      <3> DEFINE t == requests[q].ask.shipment
                 v == requests[q].ask.invoice
      <3>1. t \in Shipments /\ v \in Invoices
        BY <1>1, <2>5, AskTypes, WritesNotIdle
      <3>2. owns(requests[q].ask.customer, t) \/ shipments[t] = Gone
        BY <1>1, <2>2, <2>5 DEF OwnersOK, Checked
      <3>3. CASE t # s
        BY <2>3, <3>1, <3>2, <3>3 DEF owns, there
      <3>4. CASE t = s
        <4>1. there(shipments[s]) /\ shipments[s].customer = requests[q].ask.customer
          BY <2>2, <3>2, <3>4 DEF owns, there, NoRow, Gone
        <4>2. v \in invoicesOf(s)
          BY <2>5, <3>1, <3>4 DEF invoicesOf
        <4>3. owns(c, s)
          BY <2>2, <2>5, <4>1, <4>2
        <4>4. QED
          BY <2>3, <3>4, <4>1, <4>3 DEF owns, there
      <3>5. QED
        BY <3>3, <3>4
    <2>6. \A q \in Requests \ {r} : Checked(q)'
      <3>1. \A q \in Requests \ {r} : requests'[q] = requests[q]
        BY <1>1, <2>2, EndedChecked
      <3>2. QED
        BY <2>5, <3>1 DEF Checked, Writes, owns, there
    <2>7. InvoiceNamesOwner'
      BY <2>2, <2>4 DEF InvoiceNamesOwner, owns, there
    <2>8. QED
      BY <1>1, <2>2, <2>6, <2>7, EndedChecked DEF OwnersOK
  <1>8. ASSUME NEW r \in Requests, RemoveShipment(r)
        PROVE  OwnersOK'
    <2> DEFINE s == requests[r].ask.shipment
    <2>1. s \in Shipments
      BY <1>1, <1>8, AskTypes, WritesNotIdle DEF RemoveShipment
    <2>2. /\ shipments' = [shipments EXCEPT ![s] = Gone]
          /\ \A v \in Invoices : there(invoices[v]) => invoices[v].shipment # s
          /\ invoices' = invoices /\ moved' = moved /\ Ends(r)
      BY <1>8 DEF RemoveShipment
    <2>3. /\ shipments'[s] = Gone
          /\ \A other \in Shipments \ {s} : shipments'[other] = shipments[other]
      BY <1>1, <2>1, <2>2 DEF RecordsTypeOK
    <2>4. \A v \in Invoices : there(invoices[v]) => invoices[v].shipment \in Shipments
      BY <1>1 DEF RecordsTypeOK, there, Invoice, NoRow
    <2>5. InvoiceNamesOwner'
      BY <1>1, <2>2, <2>3, <2>4 DEF OwnersOK, InvoiceNamesOwner, owns, there
    <2>6. ASSUME NEW q \in Requests, q # r
          PROVE  Checked(q)'
      <3>1. requests'[q] = requests[q]
        BY <1>1, <2>2, <2>6, EndedChecked
      <3>2. Writes(q, "createInvoice") => requests[q].ask.shipment \in Shipments
        BY <1>1, AskTypes, WritesNotIdle
      <3>3. QED
        BY <1>1, <2>2, <2>3, <3>1, <3>2 DEF OwnersOK, Checked, Writes, owns, there
    <2>7. QED
      BY <1>1, <2>2, <2>5, <2>6, EndedChecked DEF OwnersOK
  <1>9. ASSUME NEW r \in Requests, WriteInvoice(r)
        PROVE  OwnersOK'
    <2> DEFINE ask == requests[r].ask
    <2>1. ask.invoice \in Invoices /\ Writes(r, "createInvoice")
      BY <1>1, <1>9, AskTypes, WritesNotIdle DEF WriteInvoice
    <2>2. /\ invoices' = [invoices EXCEPT ![ask.invoice] =
                              [state |-> "there", customer |-> ask.customer, shipment |-> ask.shipment]]
          /\ there(shipments[ask.shipment])
          /\ shipments' = shipments /\ moved' = moved /\ Ends(r)
      BY <1>9 DEF WriteInvoice
    <2>3. /\ invoices'[ask.invoice].customer = ask.customer
          /\ invoices'[ask.invoice].shipment = ask.shipment
          /\ \A other \in Invoices \ {ask.invoice} : invoices'[other] = invoices[other]
      BY <1>1, <2>1, <2>2 DEF RecordsTypeOK
    <2>4. ask.invoice \notin moved => owns(ask.customer, ask.shipment)
      BY <1>1, <2>1, <2>2 DEF OwnersOK, Checked, there, Gone
    <2>5. InvoiceNamesOwner'
      BY <1>1, <2>1, <2>2, <2>3, <2>4 DEF OwnersOK, InvoiceNamesOwner, owns, there
    <2>6. QED
      BY <1>1, <2>2, <2>5, EndedChecked, OthersChecked DEF OwnersOK
  <1>10. QED
    <2>1. ASSUME NEW r \in Requests, Write(r)
          PROVE  OwnersOK'
      BY <2>1, <1>6, <1>7, <1>8, <1>9
         DEF Write, WriteCustomer, RemoveCustomer, Refuse
    <2>2. QED
      BY <1>1, <1>3, <1>4, <1>5, <2>1 DEF RecordsNext

\* An invoice is made out to the customer of its shipment, unless the shipment
\* was given to another one since it was checked.
THEOREM InvoiceNamesOwnerAlways == RecordsSpec => []InvoiceNamesOwner
  <1>1. RecordsTypeOK /\ OwnersOK /\ [RecordsNext]_recordVars => OwnersOK'
    BY OwnersStep
  <1>2. OwnersOK => InvoiceNamesOwner
    BY DEF OwnersOK
  <1>3. QED
    BY TypeInit, TypeStep, OwnersInit, <1>1, <1>2, PTL DEF RecordsSpec

-----------------------------------------------------------------------------
(* The accounts *)

LEMMA AccountsStep ==
    ASSUME [ServicesNext]_servicesVars
    PROVE  [accounts!Next]_accountVars
  BY DEF ServicesNext, servicesVars, accountVars

\* A row has a password the account has had, and so has the row of a login
\* that was read; the account it belongs to is active.
PasswordsKnown ==
    \A e \in Emails : users[e] # None => users[e].password \in had[e]

LoginsKnown ==
    \A r \in Requests : accounts!at(r, "login", "read") =>
        LET e   == accountRequests[r].ask.email
            row == accountRequests[r].row
        IN  row.password \in had[e] /\ users[e] # None /\ users[e].isActive

AccountsInv ==
    /\ accounts!TypeOK
    /\ accounts!AdministratorStays
    /\ PasswordsKnown
    /\ LoginsKnown
    /\ accounts!TokensAreEarned

\* What a request in flight is about.
LEMMA AskedOf ==
    ASSUME accounts!TypeOK, NEW r \in Requests, accountRequests[r] # None
    PROVE  /\ accountRequests[r].ask.email \in Emails
           /\ accountRequests[r].ask.op = "create" =>
                  accountRequests[r].ask.user \in accounts!User
           /\ accountRequests[r].ask.op \in {"bootstrap", "login"} =>
                  accountRequests[r].ask.password \in Passwords
           /\ accountRequests[r].row \in accounts!User \cup {None}
           /\ accountRequests[r] \in
                  [ask: accounts!Asks, step: {"asked", "read"},
                   row: accounts!User \cup {None}]
  <1>1. accountRequests[r] \in [ask: accounts!Asks, step: {"asked", "read"},
                                row: accounts!User \cup {None}]
    BY DEF accounts!TypeOK
  <1>2. PICK ask \in accounts!Asks : ask = accountRequests[r].ask
    BY <1>1
  <1>3. /\ ask.email \in Emails
        /\ ask.op = "create" => ask.user \in accounts!User
        /\ ask.op \in {"bootstrap", "login"} => ask.password \in Passwords
    BY DEF accounts!Asks
  <1>4. QED
    BY <1>1, <1>2, <1>3

\* A step that answers a request, or writes only what the accounts have had,
\* and leaves the rows there were active.
AccountsGrow ==
    \A e \in Emails :
        /\ had[e] \subseteq had'[e]
        /\ users[e] # None /\ users[e].isActive =>
               users'[e] # None /\ users'[e].isActive

LEMMA LoginsWait ==
    ASSUME accounts!TypeOK, LoginsKnown, AccountsGrow,
           \A r \in Requests : accountRequests'[r] \in {accountRequests[r], None}
    PROVE  LoginsKnown'
  <1> SUFFICES ASSUME NEW r \in Requests, accounts!at(r, "login", "read")'
               PROVE  LET e   == accountRequests'[r].ask.email
                          row == accountRequests'[r].row
                      IN  /\ row.password \in had'[e]
                          /\ users'[e] # None /\ users'[e].isActive
    BY DEF LoginsKnown
  <1>1. /\ accountRequests'[r] = accountRequests[r]
        /\ accounts!at(r, "login", "read")
        /\ accountRequests[r] # None
    BY DEF accounts!at
  <1>2. PICK e \in Emails : e = accountRequests[r].ask.email
    BY <1>1, AskedOf
  <1>3. QED
    BY <1>1, <1>2 DEF LoginsKnown, AccountsGrow

\* One row is written: a new one, the same, or one that is active.
LEMMA RowWritten ==
    ASSUME AccountsInv, NEW r \in Requests, accounts!Ends(r),
           NEW e \in Emails, NEW row \in accounts!User,
           users' = [users EXCEPT ![e] = row], accounts!Sets(e), tokens' = tokens,
           \/ /\ users[e] = None \/ row = users[e]
              /\ promised' = promised
           \/ /\ row = [password |-> row.password, role |-> "ADMIN", isActive |-> TRUE]
              /\ promised' = [promised EXCEPT ![e] = row.password]
    PROVE  AccountsInv'
  <1>1. accounts!TypeOK
    BY DEF AccountsInv
  <1>2. /\ users'[e] = row /\ row # None
        /\ \A a \in Emails : a # e =>
               users'[a] = users[a] /\ had'[a] = had[a] /\ promised'[a] = promised[a]
    BY <1>1, ServicesConstants DEF accounts!TypeOK, accounts!Sets
  <1>3. had'[e] = had[e] \cup {row.password}
    BY <1>1, <1>2 DEF accounts!TypeOK, accounts!Sets
  <1>4. row.password \in Passwords
    BY DEF accounts!User
  <1>5. accounts!TypeOK'
    <2>1. accountRequests' \in [Requests -> [ask: accounts!Asks, step: {"asked", "read"},
                                             row: accounts!User \cup {None}] \cup {None}]
      BY <1>1 DEF accounts!TypeOK, accounts!Ends
    <2>2. /\ users' \in [Emails -> accounts!User \cup {None}]
          /\ tokens' \subseteq [email: Emails, password: Passwords]
      BY <1>1 DEF accounts!TypeOK
    <2>3. promised' \in [Emails -> Passwords \cup {None}]
      BY <1>1, <1>4 DEF accounts!TypeOK
    <2>4. had' \in [Emails -> SUBSET Passwords]
      <3>1. had' = [had EXCEPT ![e] = @ \cup {row.password}]
        BY <1>2 DEF accounts!Sets
      <3>2. had \in [Emails -> SUBSET Passwords]
        BY <1>1 DEF accounts!TypeOK
      <3>3. QED
        BY <1>4, <3>1, <3>2
    <2>5. QED
      BY <2>1, <2>2, <2>3, <2>4 DEF accounts!TypeOK
  <1>6. accounts!AdministratorStays'
    <2> SUFFICES ASSUME NEW a \in Emails, promised'[a] # None
                 PROVE  users'[a] = [password |-> promised'[a], role |-> "ADMIN",
                                     isActive |-> TRUE]
      BY DEF accounts!AdministratorStays
    <2>1. CASE a # e
      BY <1>2, <2>1 DEF AccountsInv, accounts!AdministratorStays
    <2>2. CASE a = e /\ promised' = promised
      <3>1. users[e] = [password |-> promised[e], role |-> "ADMIN", isActive |-> TRUE]
        BY <2>2 DEF AccountsInv, accounts!AdministratorStays
      <3>2. users[e] # None
        <4>1. promised[e] \in Passwords
          BY <1>1, <2>2 DEF accounts!TypeOK
        <4>2. users[e] \in accounts!User
          BY <3>1, <4>1 DEF accounts!User, accounts!Roles
        <4>3. QED
          BY <4>2, ServicesConstants
      <3>3. promised'[e] # None /\ promised[e] # None
        BY <2>2
      <3>4. CASE row = users[e]
        BY <1>2, <2>2, <3>1, <3>4
      <3>5. CASE /\ row = [password |-> row.password, role |-> "ADMIN", isActive |-> TRUE]
                 /\ promised' = [promised EXCEPT ![e] = row.password]
        BY <1>1, <1>2, <2>2, <3>5 DEF accounts!TypeOK
      <3>6. QED
        BY <3>2, <3>4, <3>5
    <2>3. CASE /\ a = e
               /\ row = [password |-> row.password, role |-> "ADMIN", isActive |-> TRUE]
               /\ promised' = [promised EXCEPT ![e] = row.password]
      BY <1>1, <1>2, <2>3 DEF accounts!TypeOK
    <2>4. QED
      BY <2>1, <2>2, <2>3
  <1>7. PasswordsKnown'
    BY <1>2, <1>3 DEF AccountsInv, PasswordsKnown
  <1>8. AccountsGrow
    BY <1>2, <1>3 DEF AccountsGrow
  <1>9. LoginsKnown'
    BY <1>1, <1>8, LoginsWait DEF AccountsInv, accounts!Ends, accounts!TypeOK
  <1>10. accounts!TokensAreEarned'
    <2> SUFFICES ASSUME NEW t \in tokens
                 PROVE  /\ users'[t.email] # None /\ users'[t.email].isActive
                        /\ t.password \in had'[t.email]
                        /\ promised'[t.email] # None => users'[t.email].role = "ADMIN"
      BY DEF accounts!TokensAreEarned, accounts!validate, accounts!canActivate
    <2>1. t.email \in Emails
      BY <1>1 DEF accounts!TypeOK
    <2>2. /\ users[t.email] # None /\ users[t.email].isActive
          /\ t.password \in had[t.email]
      BY DEF AccountsInv, accounts!TokensAreEarned, accounts!validate
    <2>3. PICK a \in Emails : a = t.email
      BY <2>1
    <2>4. promised'[a] # None => users'[a].role = "ADMIN"
      <3>1. promised'[a] # None =>
                users'[a] = [password |-> promised'[a], role |-> "ADMIN", isActive |-> TRUE]
        BY <1>6 DEF accounts!AdministratorStays
      <3>2. QED
        BY <3>1
    <2>5. users'[a] # None /\ users'[a].isActive /\ t.password \in had'[a]
      BY <1>8, <2>2, <2>3 DEF AccountsGrow
    <2>6. QED
      BY <2>3, <2>4, <2>5
  <1>11. QED
    BY <1>5, <1>6, <1>7, <1>9, <1>10 DEF AccountsInv

LEMMA InsertUserHolds ==
    ASSUME AccountsInv, NEW r \in Requests, accounts!InsertUser(r)
    PROVE  AccountsInv'
  <1>1. /\ accounts!TypeOK /\ accountRequests[r] # None
        /\ accountRequests[r].ask.op = "create"
    BY DEF AccountsInv, accounts!InsertUser, accounts!at
  <1>2. PICK e \in Emails, user \in accounts!User :
            e = accountRequests[r].ask.email /\ user = accountRequests[r].ask.user
    BY <1>1, AskedOf
  <1>3. /\ accounts!Ends(r) /\ accounts!Sets(e)
        /\ tokens' = tokens /\ promised' = promised
        /\ users' = IF users[e] = None THEN [users EXCEPT ![e] = user] ELSE users
    BY <1>2 DEF accounts!InsertUser
  <1>4. CASE users[e] = None
    BY <1>3, <1>4, RowWritten
  <1>5. CASE users[e] # None
    <2>1. users[e] \in accounts!User /\ users' = [users EXCEPT ![e] = users[e]]
      BY <1>1, <1>3, <1>5 DEF accounts!TypeOK
    <2>2. QED
      BY <1>3, <2>1, RowWritten
  <1>6. QED
    BY <1>4, <1>5

LEMMA UpsertHolds ==
    ASSUME AccountsInv, NEW r \in Requests, accounts!Upsert(r)
    PROVE  AccountsInv'
  <1>1. /\ accounts!TypeOK /\ accountRequests[r] # None
        /\ accountRequests[r].ask.op = "bootstrap"
    BY DEF AccountsInv, accounts!Upsert, accounts!at
  <1>2. PICK e \in Emails, x \in Passwords :
            e = accountRequests[r].ask.email /\ x = accountRequests[r].ask.password
    BY <1>1, AskedOf
  <1> DEFINE row == [password |-> x, role |-> "ADMIN", isActive |-> TRUE]
  <1>3. /\ accounts!Ends(r) /\ accounts!Sets(e) /\ tokens' = tokens
        /\ promised' = [promised EXCEPT ![e] = x]
        /\ users' = [users EXCEPT ![e] = row]
    BY <1>2 DEF accounts!Upsert
  <1>4. row \in accounts!User /\ row.password = x
    BY DEF accounts!User, accounts!Roles
  <1>5. QED
    BY <1>3, <1>4, RowWritten

\* The steps that write no row.
LEMMA RowsStay ==
    ASSUME AccountsInv, UNCHANGED <<users, promised, had>>,
           tokens' \subseteq [email: Emails, password: Passwords],
           accountRequests' \in [Requests -> [ask: accounts!Asks, step: {"asked", "read"},
                                              row: accounts!User \cup {None}] \cup {None}],
           LoginsKnown', accounts!TokensAreEarned'
    PROVE  AccountsInv'
  BY DEF AccountsInv, accounts!TypeOK, accounts!AdministratorStays, PasswordsKnown

\* The requests change, and a token that is good may expire.
LEMMA RequestsGoOn ==
    ASSUME AccountsInv, UNCHANGED <<users, promised, had>>, tokens' \subseteq tokens,
           accountRequests' \in [Requests -> [ask: accounts!Asks, step: {"asked", "read"},
                                              row: accounts!User \cup {None}] \cup {None}],
           LoginsKnown'
    PROVE  AccountsInv'
  <1>1. tokens' \subseteq [email: Emails, password: Passwords]
    BY DEF AccountsInv, accounts!TypeOK
  <1>2. accounts!TokensAreEarned'
    BY DEF AccountsInv, accounts!TokensAreEarned, accounts!validate, accounts!canActivate
  <1>3. QED
    BY <1>1, <1>2, RowsStay

LEMMA AccountRequestHolds ==
    ASSUME AccountsInv, NEW r \in Requests,
           accounts!Ask(r) \/ accounts!FindExisting(r) \/ accounts!FindByEmail(r)
    PROVE  AccountsInv'
  <1>1. accounts!TypeOK /\ LoginsKnown /\ UNCHANGED <<users, tokens, promised, had>>
    BY DEF AccountsInv, accounts!Ask, accounts!FindExisting, accounts!FindByEmail
  <1> DEFINE Request == [ask: accounts!Asks, step: {"asked", "read"},
                         row: accounts!User \cup {None}]
  <1>2. accountRequests \in [Requests -> Request \cup {None}]
    BY <1>1 DEF accounts!TypeOK
  <1>3. \E q \in Request \cup {None} :
            /\ accountRequests' = [accountRequests EXCEPT ![r] = q]
            /\ q # None /\ q.ask.op = "login" /\ q.step = "read" =>
                   /\ q.row.password \in had[q.ask.email]
                   /\ users[q.ask.email] # None /\ users[q.ask.email].isActive
    <2>1. ASSUME accounts!Ask(r)
          PROVE  \E ask \in accounts!Asks :
                     accountRequests' = [accountRequests EXCEPT
                         ![r] = [ask |-> ask, step |-> "asked", row |-> None]]
      BY <2>1 DEF accounts!Ask
    <2>2. ASSUME accounts!FindExisting(r)
          PROVE  /\ accountRequests[r] # None
                 /\ accountRequests[r].ask.op = "create"
                 /\ \/ accountRequests' = [accountRequests EXCEPT ![r] = None]
                    \/ accountRequests' = [accountRequests EXCEPT
                           ![r] = [accountRequests[r] EXCEPT !.step = "read"]]
      BY <1>2, <2>2 DEF accounts!FindExisting, accounts!at, accounts!Ends
    <2>3. ASSUME accounts!FindByEmail(r)
          PROVE  LET e == accountRequests[r].ask.email
                 IN  /\ accountRequests[r] # None
                     /\ \/ accountRequests' = [accountRequests EXCEPT ![r] = None]
                        \/ /\ users[e] # None /\ users[e].isActive
                           /\ accountRequests' = [accountRequests EXCEPT
                                  ![r].step = "read", ![r].row = users[e]]
      BY <2>3 DEF accounts!FindByEmail, accounts!at, accounts!Ends
    <2>4. CASE accounts!Ask(r)
      <3>1. PICK ask \in accounts!Asks :
                accountRequests' = [accountRequests EXCEPT
                    ![r] = [ask |-> ask, step |-> "asked", row |-> None]]
        BY <2>1, <2>4
      <3>2. [ask |-> ask, step |-> "asked", row |-> None] \in Request
        OBVIOUS
      <3>3. QED
        BY <3>1, <3>2
    <2>5. CASE accounts!FindExisting(r)
      <3> DEFINE q == [accountRequests[r] EXCEPT !.step = "read"]
      <3>1. q \in Request /\ q.ask.op = "create"
        BY <1>2, <2>2, <2>5
      <3>2. QED
        BY <2>2, <2>5, <3>1
    <2>6. CASE accounts!FindByEmail(r)
      <3>1. PICK e \in Emails : e = accountRequests[r].ask.email
        BY <1>1, <2>3, <2>6, AskedOf
      <3> DEFINE q == [accountRequests[r] EXCEPT !.step = "read", !.row = users[e]]
      <3>2. CASE accountRequests' = [accountRequests EXCEPT ![r] = None]
        BY <3>2
      <3>3. CASE /\ users[e] # None /\ users[e].isActive
                 /\ accountRequests' = [accountRequests EXCEPT
                        ![r].step = "read", ![r].row = users[e]]
        <4>1. accountRequests[r] \in Request /\ users[e] \in accounts!User \cup {None}
          BY <1>1, <1>2, <2>3, <2>6 DEF accounts!TypeOK
        <4>2. q \in Request /\ q.ask.email = e /\ q.row = users[e]
          BY <3>1, <4>1
        <4>3. accountRequests' = [accountRequests EXCEPT ![r] = q]
          BY <1>2, <3>1, <3>3
        <4>4. users[e].password \in had[e]
          BY <3>3 DEF AccountsInv, PasswordsKnown
        <4>5. QED
          BY <3>3, <4>2, <4>3, <4>4
      <3>4. QED
        BY <2>3, <2>6, <3>1, <3>2, <3>3
    <2>7. QED
      BY <2>4, <2>5, <2>6
  <1>4. PICK q \in Request \cup {None} :
            /\ accountRequests' = [accountRequests EXCEPT ![r] = q]
            /\ q # None /\ q.ask.op = "login" /\ q.step = "read" =>
                   /\ q.row.password \in had[q.ask.email]
                   /\ users[q.ask.email] # None /\ users[q.ask.email].isActive
    BY <1>3
  <1>5. LoginsKnown'
    <2> SUFFICES ASSUME NEW o \in Requests, accounts!at(o, "login", "read")'
                 PROVE  LET e   == accountRequests'[o].ask.email
                            row == accountRequests'[o].row
                        IN  /\ row.password \in had[e]
                            /\ users[e] # None /\ users[e].isActive
      BY <1>1 DEF LoginsKnown
    <2>1. CASE o = r
      BY <1>2, <1>4, <2>1 DEF accounts!at
    <2>2. CASE o # r
      BY <1>1, <1>2, <1>4, <2>2 DEF LoginsKnown, accounts!at
    <2>3. QED
      BY <2>1, <2>2
  <1>6. accountRequests' \in [Requests -> Request \cup {None}]
    BY <1>2, <1>4
  <1>7. QED
    BY <1>1, <1>5, <1>6, RequestsGoOn

LEMMA SignTokenHolds ==
    ASSUME AccountsInv, NEW r \in Requests, accounts!SignToken(r)
    PROVE  AccountsInv'
  <1>1. /\ accounts!TypeOK /\ accountRequests[r] # None
        /\ accounts!at(r, "login", "read")
        /\ accountRequests[r].ask.op = "login"
        /\ accounts!Ends(r) /\ UNCHANGED <<users, promised, had>>
    BY DEF AccountsInv, accounts!SignToken, accounts!at
  <1>2. PICK e \in Emails, x \in Passwords :
            e = accountRequests[r].ask.email /\ x = accountRequests[r].ask.password
    BY <1>1, AskedOf
  <1> DEFINE signed == [email |-> e, password |-> x]
  <1>3. /\ tokens' = tokens \/ tokens' = tokens \cup {signed}
        /\ tokens' # tokens => x \in had[e] /\ users[e] # None /\ users[e].isActive
    BY <1>1, <1>2 DEF accounts!SignToken, accounts!passwordMatches, AccountsInv, LoginsKnown
  <1>4. accountRequests' \in [Requests -> [ask: accounts!Asks, step: {"asked", "read"},
                                           row: accounts!User \cup {None}] \cup {None}]
    BY <1>1 DEF accounts!TypeOK, accounts!Ends
  <1>5. AccountsGrow /\ LoginsKnown'
    <2>1. AccountsGrow
      BY <1>1 DEF AccountsGrow
    <2>2. QED
      BY <1>1, <2>1, LoginsWait DEF AccountsInv, accounts!Ends, accounts!TypeOK
  <1>6. tokens' \subseteq [email: Emails, password: Passwords]
    BY <1>1, <1>3 DEF accounts!TypeOK
  <1>7. accounts!TokensAreEarned'
    <2> SUFFICES ASSUME NEW t \in tokens'
                 PROVE  /\ users[t.email] # None /\ users[t.email].isActive
                        /\ t.password \in had[t.email]
                        /\ promised[t.email] # None => users[t.email].role = "ADMIN"
      BY <1>1 DEF accounts!TokensAreEarned, accounts!validate, accounts!canActivate
    <2>1. /\ users[t.email] # None /\ users[t.email].isActive
          /\ t.password \in had[t.email] /\ t.email \in Emails
      <3>1. CASE t \in tokens
        BY <1>1, <3>1 DEF AccountsInv, accounts!TokensAreEarned, accounts!validate,
                          accounts!TypeOK
      <3>2. CASE t \notin tokens
        BY <1>3, <3>2
      <3>3. QED
        BY <3>1, <3>2
    <2>2. PICK e1 \in Emails : e1 = t.email
      BY <2>1
    <2>3. promised[e1] # None => users[e1].role = "ADMIN"
      <3>1. promised[e1] # None =>
                users[e1] = [password |-> promised[e1], role |-> "ADMIN", isActive |-> TRUE]
        BY DEF AccountsInv, accounts!AdministratorStays
      <3>2. QED
        BY <3>1
    <2>4. QED
      BY <2>1, <2>2, <2>3
  <1>8. QED
    BY <1>1, <1>4, <1>5, <1>6, <1>7, RowsStay

LEMMA AccountsInvAlways == ServicesSpec => []AccountsInv
  <1>1. ServicesInit => AccountsInv
    BY DEF ServicesInit, accounts!Init, AccountsInv, accounts!TypeOK,
           accounts!AdministratorStays, PasswordsKnown, LoginsKnown,
           accounts!TokensAreEarned, accounts!at
  <1>2. AccountsInv /\ [ServicesNext]_servicesVars => AccountsInv'
    <2> SUFFICES ASSUME AccountsInv, [accounts!Next]_accountVars PROVE AccountsInv'
      BY AccountsStep
    <2>1. CASE UNCHANGED accountVars
      BY <2>1 DEF accountVars, AccountsInv, accounts!TypeOK,
         accounts!AdministratorStays, PasswordsKnown, LoginsKnown,
         accounts!TokensAreEarned, accounts!at, accounts!validate, accounts!canActivate
    <2>2. CASE accounts!Expire
      <3>1. /\ tokens' \subseteq tokens
            /\ UNCHANGED <<users, accountRequests, promised, had>>
        BY <2>2 DEF accounts!Expire
      <3>2. LoginsKnown'
        BY <3>1 DEF AccountsInv, LoginsKnown, accounts!at
      <3>3. QED
        BY <3>1, <3>2, RequestsGoOn DEF AccountsInv, accounts!TypeOK
    <2>3. ASSUME NEW r \in Requests, accounts!Step(r)
          PROVE  AccountsInv'
      BY <2>3, AccountRequestHolds, InsertUserHolds, UpsertHolds, SignTokenHolds
         DEF accounts!Step
    <2>4. QED
      BY <2>1, <2>2, <2>3 DEF accounts!Next
  <1>3. QED
    BY <1>1, <1>2, PTL DEF ServicesSpec

\* However creations, logins and runs of the bootstrap script overlap, an
\* account that the script made an administrator is one, with the password it
\* was given last, and a token was earned with a password of its account.
THEOREM AccountsHoldAlways == ServicesSpec => []AccountsHold
  <1>1. AccountsInv => AccountsHold
    BY DEF AccountsInv, AccountsHold
  <1>2. QED
    BY <1>1, AccountsInvAlways, PTL

-----------------------------------------------------------------------------
(* The releases *)

LEMMA ReleasesStep ==
    ASSUME [ServicesNext]_servicesVars
    PROVE  [releases!Next]_releaseVars
  BY DEF ServicesNext, servicesVars, releaseVars

Scripts == [name: {"first", "upgrade", "rollback"}, step: releases!Steps,
            target: Tags, current: Tags, backup: Nat \cup {None}]

ReleaseTypes ==
    /\ head \in Tags /\ image \in Tags \cup {None} /\ running \in Tags \cup {None}
    /\ schema \in Nat /\ backups \subseteq Nat /\ healthy \subseteq Tags
    /\ recorded \in releases!Record \cup {None}
    /\ script \in Scripts \cup {releases!Idle}

\* What the script that runs has got done: there are images from Build on; an
\* upgrade has its dump from Backup on, which is of the database as it is until
\* the migrations; it has checked out and built its target, and that target was
\* healthy, on a database with its migrations, when it is put on record.
ScriptInv ==
    /\ script.step \in {"built", "migrated", "started", "verified"} => image # None
    /\ script.name = "upgrade" =>
        /\ script.step # "checked" => script.backup \in backups
        /\ script.step \in {"saved", "checkedOut", "built"} => schema \in backups
        /\ script.step \notin {"checked", "saved"} => head = script.target
        /\ script.step \notin {"checked", "saved", "checkedOut"} => image = script.target
        /\ script.step = "started" => running \in {script.target, None}
        /\ script.step = "verified" =>
               script.target \in healthy /\ schema >= script.target

ReleasesInv ==
    /\ ReleaseTypes
    /\ script # releases!Idle => ScriptInv
    /\ releases!SchemaCarriesRelease
    /\ releases!MigratedIsBackedUp
    /\ releases!RecordIsProven

\* Idle is not a script that runs.
LEMMA NotIdle ==
    /\ \A x \in Scripts : x # releases!Idle /\ x.name # None
    /\ releases!Idle.name = None
    /\ None \notin Tags /\ Tags \subseteq Nat
    /\ None \notin {"first", "upgrade", "rollback"}
  <1>1. None \notin {"first", "upgrade", "rollback"}
    BY ServicesConstants
  <1>2. None \notin Tags /\ Tags \subseteq Nat
    BY ServicesConstants
  <1>3. QED
    BY <1>1, <1>2 DEF Scripts, releases!Idle

\* The fields of a script that goes on.
LEMMA GoesOn ==
    ASSUME NEW x \in Scripts, NEW step \in releases!Steps
    PROVE  LET y == [x EXCEPT !.step = step]
           IN  /\ y \in Scripts /\ y.name = x.name /\ y.step = step
               /\ y.target = x.target /\ y.current = x.current
               /\ y.backup = x.backup
  BY DEF Scripts

LEMMA RunningScript ==
    ASSUME ReleasesInv, script.name # None
    PROVE  script \in Scripts /\ script # releases!Idle /\ ScriptInv
  BY NotIdle DEF ReleasesInv, ReleaseTypes

\* A script ends or none is running; what it has done stays done.
LEMMA ScriptEnds ==
    ASSUME ReleasesInv, releases!Ends, UNCHANGED <<head, image, recorded>>,
           running' \in Tags \cup {None}, schema' \in Nat, schema' >= schema,
           running' # None => schema' >= running',
           replaced' \subseteq backups', backups \subseteq backups', backups' \subseteq Nat,
           healthy \subseteq healthy', healthy' \subseteq Tags
    PROVE  ReleasesInv'
  <1>1. ReleaseTypes'
    BY DEF ReleasesInv, ReleaseTypes, releases!Ends
  <1>2. releases!RecordIsProven'
    <2>1. recorded # None =>
              /\ recorded.current \in healthy /\ recorded.backup \in backups
              /\ schema >= recorded.current
              /\ recorded.current \in Nat /\ schema \in Nat
      BY NotIdle DEF ReleasesInv, ReleaseTypes, releases!RecordIsProven, releases!Record
    <2>2. recorded # None =>
              /\ recorded.current \in healthy' /\ recorded.backup \in backups'
              /\ schema' >= recorded.current
      BY <2>1
    <2>3. QED
      BY <2>2 DEF releases!RecordIsProven, releases!Ends
  <1>3. QED
    BY <1>1, <1>2 DEF ReleasesInv, releases!Ends, releases!SchemaCarriesRelease,
                      releases!MigratedIsBackedUp

\* A script goes on.
LEMMA ScriptGoesOn ==
    ASSUME ReleasesInv, script' \in Scripts, ScriptInv',
           head' \in Tags, image' \in Tags \cup {None}, UNCHANGED recorded,
           running' \in Tags \cup {None}, schema' \in Nat, schema' >= schema,
           running' # None => schema' >= running',
           replaced' \subseteq backups', backups \subseteq backups', backups' \subseteq Nat,
           healthy \subseteq healthy', healthy' \subseteq Tags
    PROVE  ReleasesInv'
  <1>1. ReleaseTypes'
    BY DEF ReleasesInv, ReleaseTypes
  <1>2. releases!RecordIsProven'
    <2>1. recorded # None =>
              /\ recorded.current \in healthy /\ recorded.backup \in backups
              /\ schema >= recorded.current
              /\ recorded.current \in Nat /\ schema \in Nat
      BY NotIdle DEF ReleasesInv, ReleaseTypes, releases!RecordIsProven, releases!Record
    <2>2. recorded # None =>
              /\ recorded.current \in healthy' /\ recorded.backup \in backups'
              /\ schema' >= recorded.current
      BY <2>1
    <2>3. QED
      BY <2>2 DEF releases!RecordIsProven, releases!Ends
  <1>3. QED
    BY <1>1, <1>2 DEF ReleasesInv, releases!SchemaCarriesRelease,
                      releases!MigratedIsBackedUp

LEMMA Beginnings ==
    ASSUME ReleasesInv, releases!FirstDeploy \/ releases!Upgrade \/ releases!Rollback
    PROVE  ReleasesInv'
  <1>1. /\ UNCHANGED <<head, image, running, schema, backups, recorded, replaced, healthy>>
        /\ \E name \in {"first", "upgrade", "rollback"}, step \in releases!Steps,
              target \in Tags :
              /\ script' = [name |-> name, step |-> step, target |-> target,
                            current |-> head, backup |-> None]
              /\ step \in {"checked", "saved", "checkedOut"}
              /\ name = "upgrade" => step = "checked"
    BY DEF ReleasesInv, ReleaseTypes, releases!FirstDeploy, releases!Upgrade,
           releases!Rollback, releases!Started, releases!Steps
  <1>2. script' \in Scripts /\ ScriptInv'
    BY <1>1 DEF Scripts, ScriptInv, ReleasesInv, ReleaseTypes
  <1>3. QED
    BY <1>1, <1>2, ScriptGoesOn
       DEF ReleasesInv, ReleaseTypes, releases!SchemaCarriesRelease,
           releases!MigratedIsBackedUp

LEMMA BackupHolds ==
    ASSUME ReleasesInv, releases!Backup
    PROVE  ReleasesInv'
  <1>1. /\ script.name = "upgrade" /\ script \in Scripts
        /\ backups' = backups \cup {schema}
        /\ script' = [script EXCEPT !.step = "saved", !.backup = schema]
        /\ UNCHANGED <<head, image, running, schema, recorded, replaced, healthy>>
    BY RunningScript, NotIdle DEF releases!Backup, releases!at
  <1>2. /\ script' \in Scripts /\ script'.name = "upgrade" /\ script'.step = "saved"
        /\ script'.backup = schema
    BY <1>1 DEF Scripts, releases!Steps, ReleasesInv, ReleaseTypes
  <1>3. ScriptInv'
    BY <1>1, <1>2 DEF ScriptInv
  <1>4. QED
    BY <1>1, <1>2, <1>3, ScriptGoesOn
       DEF ReleasesInv, ReleaseTypes, releases!SchemaCarriesRelease,
           releases!MigratedIsBackedUp

LEMMA CheckoutHolds ==
    ASSUME ReleasesInv, releases!Checkout
    PROVE  ReleasesInv'
  <1>1. /\ script \in Scripts /\ ScriptInv /\ script.step = "saved"
        /\ head' = script.target
        /\ script' = [script EXCEPT !.step = "checkedOut"]
        /\ UNCHANGED <<image, running, schema, backups, recorded, replaced, healthy>>
    BY RunningScript DEF releases!Checkout, releases!Goes
  <1>2. /\ script' \in Scripts /\ script'.step = "checkedOut"
        /\ script'.name = script.name /\ script'.target = script.target
        /\ script'.backup = script.backup
    BY <1>1, GoesOn DEF releases!Steps
  <1>3. ScriptInv'
    BY <1>1, <1>2 DEF ScriptInv
  <1>4. head' \in Tags
    BY <1>1 DEF Scripts
  <1>5. QED
    BY <1>1, <1>2, <1>3, <1>4, ScriptGoesOn
       DEF ReleasesInv, ReleaseTypes, releases!SchemaCarriesRelease,
           releases!MigratedIsBackedUp

LEMMA BuildHolds ==
    ASSUME ReleasesInv, releases!Build
    PROVE  ReleasesInv'
  <1>1. /\ script \in Scripts /\ ScriptInv /\ script.step = "checkedOut"
        /\ image' = IF script.name = "first" /\ image # None THEN image ELSE head
        /\ script' = [script EXCEPT !.step = "built"]
        /\ UNCHANGED <<head, running, schema, backups, recorded, replaced, healthy>>
    BY RunningScript DEF releases!Build, releases!Goes
  <1>2. /\ script' \in Scripts /\ script'.step = "built"
        /\ script'.name = script.name /\ script'.target = script.target
        /\ script'.backup = script.backup
    BY <1>1, GoesOn DEF releases!Steps
  <1>3. image' \in Tags /\ image' # None
    BY <1>1, NotIdle DEF ReleasesInv, ReleaseTypes
  <1>4. ScriptInv'
    BY <1>1, <1>2, <1>3 DEF ScriptInv
  <1>5. QED
    BY <1>1, <1>2, <1>3, <1>4, ScriptGoesOn
       DEF ReleasesInv, ReleaseTypes, releases!SchemaCarriesRelease,
           releases!MigratedIsBackedUp

\* Migrations only go up, and reach the release when all are applied.
LEMMA MigratedUp ==
    ASSUME NEW x \in Nat, schema \in Nat
    PROVE  /\ releases!migrated(x) \in Nat
           /\ releases!migrated(x) >= schema /\ releases!migrated(x) >= x
  BY DEF releases!migrated

LEMMA MigrateHolds ==
    ASSUME ReleasesInv, releases!Migrate
    PROVE  ReleasesInv'
  <1>1. /\ script \in Scripts /\ ScriptInv /\ script.step = "built"
        /\ \/ schema' = releases!migrated(image)
              /\ script' = [script EXCEPT !.step = "migrated"]
           \/ schema' \in schema .. releases!migrated(image) /\ releases!Ends
        /\ replaced' = IF script.name = "upgrade" THEN replaced \cup {schema} ELSE replaced
        /\ UNCHANGED <<head, image, running, backups, recorded, healthy>>
    BY RunningScript, NotIdle DEF releases!Migrate, releases!Goes
  <1>2. image \in Nat /\ schema \in Nat /\ image # None
    BY <1>1, NotIdle DEF ReleasesInv, ReleaseTypes, ScriptInv
  <1>3. schema' \in Nat /\ schema' >= schema
    BY <1>1, <1>2, MigratedUp
  <1>4. replaced' \subseteq backups'
    BY <1>1 DEF ScriptInv, ReleasesInv, releases!MigratedIsBackedUp
  <1>5. running' \in Tags \cup {None} /\ (running' # None => schema' >= running')
    BY <1>1, <1>2, <1>3, NotIdle DEF ReleasesInv, ReleaseTypes, releases!SchemaCarriesRelease
  <1>6. CASE releases!Ends
    BY <1>1, <1>3, <1>4, <1>5, <1>6, ScriptEnds DEF ReleasesInv, ReleaseTypes
  <1>7. CASE script' = [script EXCEPT !.step = "migrated"]
    <2>1. /\ script' \in Scripts /\ script'.step = "migrated"
          /\ script'.name = script.name /\ script'.target = script.target
          /\ script'.backup = script.backup
      BY <1>1, <1>7, GoesOn DEF releases!Steps
    <2>2. ScriptInv'
      BY <1>1, <2>1 DEF ScriptInv
    <2>3. QED
      BY <1>1, <1>3, <1>4, <1>5, <2>1, <2>2, ScriptGoesOn DEF ReleasesInv, ReleaseTypes
  <1>8. QED
    BY <1>1, <1>6, <1>7

LEMMA StartHolds ==
    ASSUME ReleasesInv, releases!Start
    PROVE  ReleasesInv'
  <1>1. /\ script \in Scripts /\ ScriptInv
        /\ script.step \in {"built", "migrated"}
        /\ script.name = "upgrade" => script.step = "migrated"
        /\ \/ running' = image /\ schema' = releases!migrated(image)
           \/ running' = None /\ schema' \in schema .. releases!migrated(image)
        /\ script' = [script EXCEPT !.step = "started"]
        /\ UNCHANGED <<head, image, backups, recorded, replaced, healthy>>
    BY RunningScript DEF releases!Start, releases!Goes, releases!migratedAtStart
  <1>2. image \in Nat /\ image \in Tags /\ schema \in Nat
    BY <1>1, NotIdle DEF ReleasesInv, ReleaseTypes, ScriptInv
  <1>3. /\ schema' \in Nat /\ schema' >= schema
        /\ running' \in Tags \cup {None} /\ (running' # None => schema' >= running')
    BY <1>1, <1>2, MigratedUp
  <1>4. /\ script' \in Scripts /\ script'.step = "started"
        /\ script'.name = script.name /\ script'.target = script.target
        /\ script'.backup = script.backup
    BY <1>1, GoesOn DEF releases!Steps
  <1>5. ScriptInv'
    BY <1>1, <1>4 DEF ScriptInv
  <1>6. QED
    BY <1>1, <1>3, <1>4, <1>5, ScriptGoesOn
       DEF ReleasesInv, ReleaseTypes, releases!MigratedIsBackedUp

LEMMA HealthCheckHolds ==
    ASSUME ReleasesInv, releases!HealthCheck
    PROVE  ReleasesInv'
  <1>1. /\ script \in Scripts /\ ScriptInv /\ script.step = "started"
        /\ running # None
        /\ healthy' = healthy \cup {running}
        /\ IF script.name = "upgrade" THEN script' = [script EXCEPT !.step = "verified"]
                                      ELSE releases!Ends
        /\ UNCHANGED <<head, image, running, schema, backups, recorded, replaced>>
    BY RunningScript DEF releases!HealthCheck, releases!Goes
  <1>2. /\ schema \in Nat /\ running \in Tags \cup {None} /\ schema >= running
        /\ replaced \subseteq backups
    BY <1>1 DEF ReleasesInv, ReleaseTypes, releases!SchemaCarriesRelease,
                releases!MigratedIsBackedUp
  <1>3. CASE script.name # "upgrade"
    BY <1>1, <1>2, <1>3, NotIdle, ScriptEnds DEF ReleasesInv, ReleaseTypes
  <1>4. CASE script.name = "upgrade"
    <2>0. script' = [script EXCEPT !.step = "verified"] /\ "verified" \in releases!Steps
      BY <1>1, <1>4 DEF releases!Steps
    <2>1. /\ script' \in Scripts /\ script'.step = "verified"
          /\ script'.name = script.name /\ script'.target = script.target
          /\ script'.backup = script.backup
      BY <1>1, <2>0, GoesOn
    <2>2. running = script.target
      BY <1>1, <1>4 DEF ScriptInv
    <2>3. ScriptInv'
      BY <1>1, <1>2, <1>4, <2>1, <2>2 DEF ScriptInv
    <2>4. QED
      BY <1>1, <1>2, <2>1, <2>3, NotIdle, ScriptGoesOn DEF ReleasesInv, ReleaseTypes
  <1>5. QED
    BY <1>3, <1>4

LEMMA SaveActiveReleaseHolds ==
    ASSUME ReleasesInv, releases!SaveActiveRelease
    PROVE  ReleasesInv'
  <1>1. /\ script \in Scripts /\ ScriptInv /\ script.name = "upgrade"
        /\ script.step = "verified"
        /\ recorded' = [current |-> script.target, previous |-> script.current,
                        backup |-> script.backup]
        /\ releases!Ends
        /\ UNCHANGED <<head, image, running, schema, backups, replaced, healthy>>
    BY RunningScript, NotIdle DEF releases!SaveActiveRelease, releases!at
  <1>2. /\ recorded'.current = script.target /\ recorded'.backup = script.backup
        /\ script.target \in Tags /\ script.current \in Tags
    BY <1>1 DEF Scripts
  <1>3. /\ script.target \in healthy /\ schema >= script.target
        /\ script.backup \in backups
    BY <1>1 DEF ScriptInv
  <1>4. releases!RecordIsProven'
    BY <1>1, <1>2, <1>3 DEF releases!RecordIsProven
  <1>5. ReleaseTypes'
    <2>1. script.backup \in Nat
      BY <1>3 DEF ReleasesInv, ReleaseTypes
    <2>2. recorded' \in releases!Record
      BY <1>1, <1>2, <2>1 DEF releases!Record
    <2>3. QED
      BY <1>1, <2>2 DEF ReleasesInv, ReleaseTypes, releases!Ends
  <1>6. QED
    BY <1>1, <1>4, <1>5 DEF ReleasesInv, releases!Ends,
       releases!SchemaCarriesRelease, releases!MigratedIsBackedUp

LEMMA StopHolds ==
    ASSUME ReleasesInv, releases!Stop
    PROVE  ReleasesInv'
  <1>1. /\ releases!Ends /\ schema \in Nat
        /\ UNCHANGED <<head, image, running, schema, backups, recorded, replaced, healthy>>
    BY DEF releases!Stop, ReleasesInv, ReleaseTypes
  <1>2. QED
    BY <1>1, ScriptEnds DEF ReleasesInv, ReleaseTypes,
       releases!SchemaCarriesRelease, releases!MigratedIsBackedUp

LEMMA ReleasesInvAlways == ServicesSpec => []ReleasesInv
  <1>1. ServicesInit => ReleasesInv
    BY DEF ServicesInit, releases!Init, ReleasesInv, ReleaseTypes,
           releases!SchemaCarriesRelease, releases!MigratedIsBackedUp,
           releases!RecordIsProven
  <1>2. ReleasesInv /\ [ServicesNext]_servicesVars => ReleasesInv'
    <2> SUFFICES ASSUME ReleasesInv, [releases!Next]_releaseVars PROVE ReleasesInv'
      BY ReleasesStep
    <2>1. CASE UNCHANGED releaseVars
      BY <2>1 DEF releaseVars, ReleasesInv, ReleaseTypes, ScriptInv,
         releases!SchemaCarriesRelease, releases!MigratedIsBackedUp,
         releases!RecordIsProven
    <2>2. QED
      BY <2>1, Beginnings, BackupHolds, CheckoutHolds, BuildHolds, MigrateHolds,
         StartHolds, HealthCheckHolds, SaveActiveReleaseHolds, StopHolds
         DEF releases!Next
  <1>3. QED
    BY <1>1, <1>2, PTL DEF ServicesSpec

\* Wherever the scripts stop, and in whatever order they are run and run again,
\* the server that runs has a database with its migrations.
THEOREM SchemaCarriesReleaseAlways == ServicesSpec => []SchemaCarriesRelease
  <1>1. ReleasesInv => SchemaCarriesRelease
    BY DEF ReleasesInv, SchemaCarriesRelease
  <1>2. QED
    BY <1>1, ReleasesInvAlways, PTL

\* Wherever the scripts stop, there is a dump of every database an upgrade has
\* migrated, and the release on record was healthy with the dump beside it.
THEOREM WayBackExistsAlways == ServicesSpec => []WayBackExists
  <1>1. ReleasesInv => WayBackExists
    BY DEF ReleasesInv, WayBackExists
  <1>2. QED
    BY <1>1, ReleasesInvAlways, PTL

-----------------------------------------------------------------------------
(* The messages: the way of a shipment *)

\* The place of a status on the way; a cancelled shipment has left it.
place(s) ==
    CASE s = "DRAFT" -> 1 [] s = "QUOTED" -> 2 [] s = "BOOKED" -> 3
      [] s = "RECEIVED" -> 4 [] s = "LOADED" -> 5 [] s = "IN_TRANSIT" -> 6
      [] s = "ARRIVED" -> 7 [] s = "CUSTOMS_CLEARANCE" -> 8
      [] s = "READY_FOR_DELIVERY" -> 9 [] s = "DELIVERED" -> 10
      [] OTHER -> 0

LEMMA PlacesOnWay ==
    /\ DOMAIN messages!shipmentWay = 1 .. 10
    /\ \A k \in 1 .. 10 : place(messages!shipmentWay[k]) = k
    /\ \A s : place(s) \in 0 .. 10
    /\ \A s : place(s) # 0 => messages!shipmentWay[place(s)] = s
  BY DEF place, messages!shipmentWay

\* What lies ahead of a status is what has a later place.
LEMMA AheadIsLater ==
    ASSUME NEW s, NEW x
    PROVE  x \in messages!statusesAfter(s) <=> place(s) # 0 /\ place(x) > place(s)
  <1>1. x \in messages!statusesAfter(s) <=>
            \E k \in 1 .. 10 : \E j \in 1 .. (k - 1) :
                x = messages!shipmentWay[k] /\ s = messages!shipmentWay[j]
    BY PlacesOnWay DEF messages!statusesAfter
  <1>2. ASSUME NEW k \in 1 .. 10, NEW j \in 1 .. (k - 1),
               x = messages!shipmentWay[k], s = messages!shipmentWay[j]
        PROVE  place(s) # 0 /\ place(x) > place(s)
    BY <1>2, PlacesOnWay
  <1>3. ASSUME place(s) # 0, place(x) > place(s)
        PROVE  \E k \in 1 .. 10 : \E j \in 1 .. (k - 1) :
                   x = messages!shipmentWay[k] /\ s = messages!shipmentWay[j]
    <2>1. /\ place(x) \in 1 .. 10 /\ place(s) \in 1 .. (place(x) - 1)
          /\ x = messages!shipmentWay[place(x)] /\ s = messages!shipmentWay[place(s)]
      BY <1>3, PlacesOnWay
    <2>2. QED
      BY <2>1
  <1>4. QED
    BY <1>1, <1>2, <1>3

\* Where a shipment may be once it has reached status t.
reachable(t) == messages!statusesAfter(t) \cup {t, "CANCELLED"}

LEMMA TransitionsGoOn ==
    ASSUME NEW t \in messages!ShipmentStatus, NEW s \in reachable(t), NEW x,
           messages!isShipmentTransitionAllowed(s, x)
    PROVE  x \in reachable(t)
  <1>1. \/ x = "CANCELLED"
        \/ place(s) # 0 /\ place(x) = place(s) + 1
    BY DEF messages!isShipmentTransitionAllowed,
           messages!SHIPMENT_WORKFLOW_TRANSITIONS, place
  <1>2. s = "CANCELLED" => x = "CANCELLED"
    BY DEF messages!isShipmentTransitionAllowed,
           messages!SHIPMENT_WORKFLOW_TRANSITIONS
  <1>3. CASE x = "CANCELLED"
    BY <1>3 DEF reachable
  <1>4. CASE x # "CANCELLED"
    <2>1. s = t \/ (place(t) # 0 /\ place(s) > place(t))
      BY <1>2, <1>4, AheadIsLater DEF reachable
    <2>2. place(t) # 0 /\ place(x) > place(t)
      BY <1>1, <1>4, <2>1, PlacesOnWay
    <2>3. QED
      BY <2>2, AheadIsLater DEF reachable
  <1>5. QED
    BY <1>3, <1>4

LEMMA MilestonePlaces ==
    /\ Len(messages!emailMilestones) = 9
    /\ DOMAIN messages!emailMilestones = 1 .. 9
    /\ \A k \in 1 .. 9 : place(messages!emailMilestones[k]) = IF k = 1 THEN 1 ELSE k + 1
  BY DEF messages!emailMilestones, place

LEMMA WhatsAppPlaces ==
    /\ Len(messages!whatsappMilestones) = 8
    /\ DOMAIN messages!whatsappMilestones = 1 .. 8
    /\ \A k \in 1 .. 8 : place(messages!whatsappMilestones[k]) = k + 2
  <1> DEFINE e == messages!emailMilestones
  <1>1. \A k \in 2 .. 9 : e[k] \in messages!ShipmentStatus
    BY DEF messages!emailMilestones, messages!ShipmentStatus
  <1> HIDE DEF e
  <1>2. /\ SubSeq(e, 2, 9) \in Seq(messages!ShipmentStatus)
        /\ Len(SubSeq(e, 2, 9)) = 8
        /\ \A k \in 1 .. 8 : SubSeq(e, 2, 9)[k] = e[k + 1]
    <2>1. /\ SubSeq(e, 2, 9) \in Seq(messages!ShipmentStatus)
          /\ Len(SubSeq(e, 2, 9)) = IF 2 <= 9 THEN 9 - 2 + 1 ELSE 0
          /\ \A k \in 1 .. 9 - 2 + 1 : SubSeq(e, 2, 9)[k] = e[2 + k - 1]
      BY <1>1, SubSeqProperties
    <2>2. QED
      BY <2>1
  <1>3. messages!whatsappMilestones = SubSeq(e, 2, 9)
    BY DEF e, messages!whatsappMilestones
  <1>4. \A k \in 1 .. 8 : messages!whatsappMilestones[k] = messages!emailMilestones[k + 1]
    BY <1>2, <1>3 DEF e
  <1>5. QED
    BY <1>2, <1>3, <1>4, MilestonePlaces

\* The index of a status, where it has one, is where the list has it.
LEMMA IndexOf ==
    ASSUME NEW list, NEW n \in Nat, Len(list) = n,
           \A j, k \in 1 .. n : list[j] = list[k] => j = k,
           NEW s
    PROVE  LET i == messages!getMilestoneIndex(list, s)
           IN  i = 0 \/ (i \in 1 .. n /\ list[i] = s)
  <1> DEFINE I == {i \in 1 .. n : list[i] = s}
  <1>1. messages!getMilestoneIndex(list, s) = IF I # {} THEN messages!Min(I) ELSE 0
    BY DEF messages!getMilestoneIndex, messages!SelectInSeq
  <1>2. ASSUME NEW i \in I PROVE messages!Min(I) = i
    <2>1. I = {i}
      OBVIOUS
    <2>2. QED
      BY <2>1 DEF messages!Min
  <1>3. QED
    BY <1>1, <1>2

\* Of a list that follows the way, what comes before a status is not ahead of it.
LEMMA TickedIsBehind ==
    ASSUME NEW list, NEW n \in Nat, Len(list) = n,
           \A i, j \in 1 .. n : i < j => place(list[i]) < place(list[j]),
           NEW s, NEW k \in 1 .. n, k < messages!getMilestoneIndex(list, s)
    PROVE  list[k] \notin messages!statusesAfter(s)
  <1>1. \A i, j \in 1 .. n : list[i] = list[j] => i = j
    BY PlacesOnWay
  <1> DEFINE i == messages!getMilestoneIndex(list, s)
  <1>2. i \in 1 .. n /\ list[i] = s
    BY <1>1, IndexOf
  <1> HIDE DEF i
  <1>3. place(list[k]) < place(s)
    BY <1>2 DEF i
  <1>4. place(list[k]) \in 0 .. 10 /\ place(s) \in 0 .. 10
    BY PlacesOnWay
  <1>5. ~(place(list[k]) > place(s))
    BY <1>3, <1>4
  <1>6. QED
    BY <1>5, AheadIsLater

\* What a message ticks off is never ahead of the status it tells.
LEMMA TicksFollowWay ==
    ASSUME NEW s
    PROVE  /\ messages!tickedInEmail(s) \cap messages!statusesAfter(s) = {}
           /\ messages!tickedInWhatsApp(s) \cap messages!statusesAfter(s) = {}
  <1>1. ASSUME NEW k \in 1 .. 9,
               s = "DELIVERED" \/ k < messages!getMilestoneIndex(messages!emailMilestones, s)
        PROVE  messages!emailMilestones[k] \notin messages!statusesAfter(s)
    <2>1. CASE s = "DELIVERED"
      <3>1. place(s) = 10
        BY <2>1 DEF place
      <3>2. QED
        BY <3>1, AheadIsLater, PlacesOnWay
    <2>2. CASE k < messages!getMilestoneIndex(messages!emailMilestones, s)
      <3>1. \A i, j \in 1 .. 9 : i < j =>
                place(messages!emailMilestones[i]) < place(messages!emailMilestones[j])
        BY MilestonePlaces
      <3>2. QED
        BY <2>2, <3>1, MilestonePlaces, TickedIsBehind
    <2>3. QED
      BY <1>1, <2>1, <2>2
  <1>2. ASSUME NEW k \in 1 .. 8,
               k < messages!getMilestoneIndex(messages!whatsappMilestones, s)
        PROVE  messages!whatsappMilestones[k] \notin messages!statusesAfter(s)
    <2>1. \A i, j \in 1 .. 8 : i < j =>
              place(messages!whatsappMilestones[i]) < place(messages!whatsappMilestones[j])
      BY WhatsAppPlaces
    <2>2. QED
      BY <1>2, <2>1, WhatsAppPlaces, TickedIsBehind
  <1>3. messages!tickedInEmail(s) \cap messages!statusesAfter(s) = {}
    BY <1>1, MilestonePlaces DEF messages!tickedInEmail
  <1>4. messages!tickedInWhatsApp(s) \cap messages!statusesAfter(s) = {}
    BY <1>2, WhatsAppPlaces DEF messages!tickedInWhatsApp
  <1>5. QED
    BY <1>3, <1>4

-----------------------------------------------------------------------------
(* The messages: what is on its way and what has arrived *)

LEMMA MessagesStep ==
    ASSUME [ServicesNext]_servicesVars
    PROVE  [messages!Next]_messageVars
  BY DEF ServicesNext, servicesVars, messageVars

SendRecord == [step: messages!SendSteps, issued: 0 .. MaxTime \cup {None},
               life: Lives \cup {None}]
RequestRecord == [step: {"idle", "checked", "committed", "sending", "answered", "over"},
                  kind: messages!Kinds \cup {"update", None},
                  seen: messages!ShipmentStatus \cup {None},
                  to:   messages!ShipmentStatus \cup {None},
                  told: messages!ShipmentStatus \cup {None}]
message(r, ch) == [request |-> r, channel |-> ch, told |-> sendRequests[r].told]
underWay == {"sending", "answered"}

\* Nothing was told for a request that has not got further.
untold == {"idle", "checked"}

\* What a checked request writes follows from what it has read; until it is told,
\* the shipment is where a transition took it or further, and so is what is told,
\* unless a write decided on an outdated row came in between.
RequestInv(r) ==
    LET served == sendRequests[r]
    IN  /\ served.step = "checked" =>
               /\ served.seen \in messages!ShipmentStatus /\ served.to \in messages!ShipmentStatus
               /\ \/ served.kind = "update" /\ served.to = served.seen
                  \/ messages!isShipmentTransitionAllowed(served.seen, served.to)
        /\ served.step = "committed" =>
               /\ served.kind = "transition" /\ served.to \in messages!ShipmentStatus
               /\ r \notin overtaken => status \in reachable(served.to)
        /\ served.step \in underWay =>
               /\ served.told \in messages!ShipmentStatus /\ served.kind \in messages!Kinds
               /\ served.kind = "transition" /\ r \notin overtaken =>
                      served.told \in reachable(served.to)

\* A message is on its way only while its request is, only on the request's
\* channels, and the provider has told the customer when it says so.
SendInv(r, ch) ==
    LET served == sendRequests[r] send == sends[r][ch]
    IN  /\ served.step \notin underWay => send.step = "none"
        /\ served.step \in underWay /\ ch \notin messages!channelsOf(served.kind) =>
               send.step = "ok"
        /\ served.step = "answered" => send.step \in messages!ended
        /\ send.step \in {"told", "ok"} /\ ch \in messages!channelsOf(served.kind) =>
               message(r, ch) \in delivered
        /\ send.step = "granted" => send.issued \in 0 .. now /\ send.life \in Lives

\* The cached token expires at the margin before its life ends, counted from its
\* arrival.
TokenInv ==
    token # None => token.until = token.issued + token.late + messages!keptFor(token.life)

MessagesInv ==
    /\ messages!TypeOK
    /\ \A r \in Requests : RequestInv(r)
    /\ \A r \in Requests : \A ch \in messages!Channels : SendInv(r, ch)
    /\ \A m \in delivered : sendRequests[m.request].step \notin untold
    /\ messages!AnnouncementIsUpToDate
    /\ messages!SentRowsDelivered
    /\ TokenInv

\* What a step of one message keeps: it has begun and not ended, it goes on, and
\* what it says is told has arrived.
LEMMA MessageMoves ==
    ASSUME MessagesInv, NEW r \in Requests, NEW ch \in messages!Channels,
           NEW send \in SendRecord, messages!Moves(r, ch, send),
           sends[r][ch].step \notin {"none"} \cup messages!ended,
           send.step # "none",
           delivered' \in {delivered, delivered \cup {message(r, ch)}},
           send.step \in {"told", "ok"} => message(r, ch) \in delivered',
           send.step = "granted" => send.issued \in 0 .. now /\ send.life \in Lives,
           token' = token \/
               /\ token' \in [issued: 0 .. MaxTime, life: Lives, until: Nat \ {0}, late: Nat]
               /\ TokenInv',
           UNCHANGED <<status, sendRequests, overtaken, history, now>>
    PROVE  MessagesInv'
  <1>1. sends \in [Requests -> [messages!Channels -> SendRecord]]
    BY DEF MessagesInv, messages!TypeOK, SendRecord
  <1>2. /\ sends' \in [Requests -> [messages!Channels -> SendRecord]]
        /\ sends'[r][ch] = send
        /\ \A q \in Requests : \A c \in messages!Channels :
               q # r \/ c # ch => sends'[q][c] = sends[q][c]
    BY <1>1 DEF messages!Moves
  <1>3. /\ sendRequests[r].step = "sending"
        /\ ch \in messages!channelsOf(sendRequests[r].kind)
    BY DEF MessagesInv, SendInv, underWay, messages!ended
  <1>4. /\ sendRequests[r].told \in messages!ShipmentStatus
        /\ sendRequests[r].kind = "transition" /\ r \notin overtaken =>
               sendRequests[r].told \in reachable(sendRequests[r].to)
    BY <1>3 DEF MessagesInv, RequestInv, underWay
  <1>5. messages!TypeOK'
    BY <1>2, <1>4 DEF MessagesInv, messages!TypeOK, SendRecord, message
  <1>6. \A q \in Requests : RequestInv(q)'
    BY DEF MessagesInv, RequestInv
  <1>7. ASSUME NEW q \in Requests, NEW c \in messages!Channels PROVE SendInv(q, c)'
    <2>1. message(q, c)' = message(q, c)
      BY DEF message
    <2>2. CASE q # r \/ c # ch
      BY <1>2, <2>1, <2>2 DEF MessagesInv, SendInv
    <2>3. CASE q = r /\ c = ch
      BY <1>2, <1>3, <2>1, <2>3 DEF SendInv, underWay
    <2>4. QED
      BY <2>2, <2>3
  <1>8. ASSUME NEW m \in delivered'
        PROVE  /\ sendRequests'[m.request].step \notin untold
               /\ sendRequests'[m.request].kind = "transition" /\ m.request \notin overtaken' =>
                      m.told \in reachable(sendRequests'[m.request].to)
    BY <1>3, <1>4, <1>8 DEF MessagesInv, messages!AnnouncementIsUpToDate, message, reachable,
           untold
  <1>9. /\ messages!AnnouncementIsUpToDate'
        /\ \A m \in delivered' : sendRequests'[m.request].step \notin untold
    BY <1>8 DEF messages!AnnouncementIsUpToDate, reachable
  <1>10. messages!SentRowsDelivered'
    BY DEF MessagesInv, messages!SentRowsDelivered
  <1>11. TokenInv'
    BY DEF MessagesInv, TokenInv
  <1>12. QED
    BY <1>5, <1>6, <1>7, <1>9, <1>10, <1>11 DEF MessagesInv

LEMMA getAccessTokenKeeps ==
    ASSUME MessagesInv, NEW r \in Requests, messages!getAccessToken(r)
    PROVE  MessagesInv'
  <1> DEFINE send == IF token # None /\ now < token.until
                     THEN [step |-> "provider", issued |-> token.issued, life |-> token.life]
                     ELSE messages!Send("asked")
  <1>1. send \in SendRecord /\ send.step \in {"provider", "asked"}
    BY DEF MessagesInv, messages!TypeOK, SendRecord, messages!Send, messages!SendSteps
  <1> HIDE DEF send
  <1>2. messages!Moves(r, "email", send)
    BY DEF messages!getAccessToken, send
  <1>3. QED
    BY <1>1, <1>2, MessageMoves
       DEF messages!getAccessToken, messages!Channels, messages!ended

LEMMA TokenIssuedKeeps ==
    ASSUME MessagesInv, NEW r \in Requests, messages!TokenIssued(r)
    PROVE  MessagesInv'
  <1>1. now \in 0 .. MaxTime /\ 0 .. MaxTime \subseteq Nat
    BY DEF MessagesInv, messages!TypeOK
  <1>2. PICK send \in {messages!Send("no")} \cup
                      {[step |-> "granted", issued |-> now, life |-> life] : life \in Lives} :
                 messages!Moves(r, "email", send)
    BY DEF messages!TokenIssued
  <1>3. /\ send \in SendRecord /\ send.step \in {"no", "granted"}
        /\ send.step = "granted" => send.issued \in 0 .. now /\ send.life \in Lives
    BY <1>1, <1>2 DEF SendRecord, messages!Send, messages!SendSteps, messages!ended
  <1>4. QED
    BY <1>2, <1>3, MessageMoves
       DEF messages!TokenIssued, messages!Channels, messages!ended

LEMMA TokenArrivesKeeps ==
    ASSUME MessagesInv, NEW r \in Requests, messages!TokenArrives(r)
    PROVE  MessagesInv'
  <1> DEFINE send == sends[r]["email"]
             goesOn == [send EXCEPT !.step = "provider"]
  <1>1. /\ send \in SendRecord /\ send.step = "granted"
        /\ send.issued \in 0 .. now /\ send.life \in Lives
        /\ now \in 0 .. MaxTime /\ MaxTime \in Nat /\ Lives \subseteq Nat \ {0}
    BY ServicesConstants
       DEF MessagesInv, SendInv, messages!TypeOK, SendRecord, messages!Channels,
           messages!TokenArrives
  <1>2. /\ messages!keptFor(send.life) \in Nat \ {0}
        /\ token' = [issued |-> send.issued, life |-> send.life,
                     until |-> now + messages!keptFor(send.life), late |-> now - send.issued]
        /\ messages!Moves(r, "email", goesOn)
    BY <1>1 DEF messages!keptFor, messages!Margin, messages!TokenArrives
  <1> HIDE DEF send
  <1>3. /\ goesOn \in SendRecord /\ goesOn.step = "provider"
    BY <1>1 DEF SendRecord, messages!SendSteps
  <1> HIDE DEF goesOn
  <1>4. /\ token' \in [issued: 0 .. MaxTime, life: Lives, until: Nat \ {0}, late: Nat]
        /\ TokenInv'
    BY <1>1, <1>2 DEF TokenInv
  <1>5. /\ UNCHANGED <<status, sendRequests, overtaken, delivered, history, now>>
        /\ sends[r]["email"].step = "granted"
    BY DEF messages!TokenArrives
  <1>6. QED
    BY <1>2, <1>3, <1>4, <1>5, MessageMoves DEF messages!Channels, messages!ended

LEMMA DeliverKeeps ==
    ASSUME MessagesInv, NEW r \in Requests, NEW ch \in messages!Channels,
           messages!Deliver(r, ch)
    PROVE  MessagesInv'
  <1>1. /\ messages!Send("told") \in SendRecord /\ messages!Send("told").step = "told"
        /\ messages!Send("no") \in SendRecord /\ messages!Send("no").step = "no"
    BY DEF SendRecord, messages!Send, messages!SendSteps, messages!ended
  <1>2. \/ /\ messages!Moves(r, ch, messages!Send("told"))
           /\ delivered' = delivered \cup {message(r, ch)}
        \/ messages!Moves(r, ch, messages!Send("no")) /\ delivered' = delivered
    BY DEF messages!Deliver, message
  <1>3. /\ UNCHANGED <<status, sendRequests, overtaken, history, now, token>>
        /\ sends[r][ch].step = "provider"
    BY DEF messages!Deliver
  <1>4. CASE messages!Moves(r, ch, messages!Send("told"))
             /\ delivered' = delivered \cup {message(r, ch)}
    BY <1>1, <1>3, <1>4, MessageMoves DEF messages!ended
  <1>5. CASE messages!Moves(r, ch, messages!Send("no")) /\ delivered' = delivered
    BY <1>1, <1>3, <1>5, MessageMoves DEF messages!ended
  <1>6. QED
    BY <1>2, <1>4, <1>5

LEMMA AnsweredKeeps ==
    ASSUME MessagesInv, NEW r \in Requests, NEW ch \in messages!Channels,
           messages!Answered(r, ch)
    PROVE  MessagesInv'
  <1>1. PICK step \in messages!ended : messages!Moves(r, ch, messages!Send(step))
    BY DEF messages!Answered
  <1>2. messages!Send(step) \in SendRecord /\ messages!Send(step).step \in {"ok", "no"}
    BY <1>1 DEF SendRecord, messages!Send, messages!SendSteps, messages!ended
  <1>3. /\ UNCHANGED <<status, sendRequests, overtaken, history, now, token, delivered>>
        /\ sends[r][ch].step = "told"
    BY DEF messages!Answered
  <1>4. /\ ch \in messages!channelsOf(sendRequests[r].kind)
        /\ message(r, ch) \in delivered
    BY <1>3 DEF MessagesInv, SendInv, underWay, messages!ended
  <1>5. QED
    BY <1>1, <1>2, <1>3, <1>4, MessageMoves DEF messages!ended

\* Time goes on: a token that was on its way still is.
LEMMA TickKeeps ==
    ASSUME MessagesInv, messages!Tick
    PROVE  MessagesInv'
  <1>1. messages!TypeOK'
    BY ServicesConstants DEF MessagesInv, messages!TypeOK, messages!Tick
  <1>2. ASSUME NEW r \in Requests PROVE RequestInv(r)'
    BY DEF MessagesInv, messages!Tick, RequestInv
  <1>3. ASSUME NEW r \in Requests, NEW ch \in messages!Channels PROVE SendInv(r, ch)'
    <2>1. SendInv(r, ch) /\ message(r, ch)' = message(r, ch)
      BY DEF MessagesInv, messages!Tick, message
    <2>2. now \in Nat /\ now' = now + 1
      BY ServicesConstants DEF MessagesInv, messages!TypeOK, messages!Tick
    <2>3. 0 .. now \subseteq 0 .. now'
      BY <2>2
    <2>4. QED
      BY <2>1, <2>3 DEF SendInv, messages!Tick
  <1>4. QED
    BY <1>1, <1>2, <1>3
       DEF MessagesInv, messages!Tick, messages!AnnouncementIsUpToDate,
           messages!SentRowsDelivered, TokenInv

\* What a step of one request keeps: the request goes on, and what it does not
\* change is as it was.
LEMMA RequestMoves ==
    ASSUME MessagesInv, NEW r \in Requests, NEW served \in RequestRecord,
           messages!Goes(r, served),
           sendRequests[r].step \in {"idle", "checked", "committed", "sending"},
           sendRequests[r].step \notin untold =>
               /\ served.step \notin untold
               /\ served.kind = sendRequests[r].kind /\ served.to = sendRequests[r].to,
           overtaken \subseteq overtaken', overtaken' \subseteq Requests,
           status' \in messages!ShipmentStatus,
           \A q \in Requests : q # r => RequestInv(q)',
           RequestInv(r)',
           \A ch \in messages!Channels : SendInv(r, ch)',
           sends' \in [Requests -> [messages!Channels -> SendRecord]],
           \A q \in Requests : q # r => sends'[q] = sends[q],
           history' \subseteq [request: Requests, channel: messages!Channels,
                               told: messages!ShipmentStatus, sent: BOOLEAN],
           messages!SentRowsDelivered',
           UNCHANGED <<delivered, token, now>>
    PROVE  MessagesInv'
  <1>1. /\ sendRequests \in [Requests -> RequestRecord]
        /\ sends \in [Requests -> [messages!Channels -> SendRecord]]
    BY DEF MessagesInv, messages!TypeOK, RequestRecord, SendRecord
  <1>2. /\ sendRequests' \in [Requests -> RequestRecord]
        /\ sendRequests'[r] = served
        /\ \A q \in Requests : q # r => sendRequests'[q] = sendRequests[q]
    BY <1>1 DEF messages!Goes
  <1>3. messages!TypeOK'
    BY <1>2 DEF MessagesInv, messages!TypeOK, RequestRecord, SendRecord
  <1>4. \A q \in Requests : RequestInv(q)'
    OBVIOUS
  <1>5. ASSUME NEW q \in Requests, NEW ch \in messages!Channels PROVE SendInv(q, ch)'
    <2>1. CASE q # r
      <3>1. message(q, ch)' = message(q, ch) /\ SendInv(q, ch)
        BY <1>2, <2>1 DEF message, MessagesInv
      <3>2. QED
        BY <1>2, <2>1, <3>1 DEF SendInv
    <2>2. QED
      BY <2>1
  <1>6. ASSUME NEW m \in delivered
        PROVE  /\ sendRequests'[m.request].step \notin untold
               /\ sendRequests'[m.request].kind = "transition" /\ m.request \notin overtaken' =>
                      m.told \in reachable(sendRequests'[m.request].to)
    <2>1. /\ m.request \in Requests /\ sendRequests[m.request].step \notin untold
          /\ sendRequests[m.request].kind = "transition" /\ m.request \notin overtaken =>
                 m.told \in reachable(sendRequests[m.request].to)
      BY DEF MessagesInv, messages!TypeOK, messages!AnnouncementIsUpToDate, reachable
    <2>2. QED
      BY <1>2, <2>1
  <1>7. /\ messages!AnnouncementIsUpToDate'
        /\ \A m \in delivered' : sendRequests'[m.request].step \notin untold
    BY <1>6 DEF messages!AnnouncementIsUpToDate, reachable
  <1>8. TokenInv'
    BY DEF MessagesInv, TokenInv
  <1>9. QED
    BY <1>3, <1>4, <1>5, <1>7, <1>8 DEF MessagesInv

\* A request that has read the row, or that ends before it has written: nothing
\* else changes.
LEMMA NothingWritten ==
    ASSUME MessagesInv, NEW r \in Requests, NEW served \in RequestRecord,
           messages!Goes(r, served), sendRequests[r].step \in untold,
           \/ served.step = "over"
           \/ /\ served.step = "checked"
              /\ served.seen = status /\ served.to \in messages!ShipmentStatus
              /\ \/ served.kind = "update" /\ served.to = status
                 \/ messages!isShipmentTransitionAllowed(status, served.to),
           UNCHANGED <<status, overtaken, sends, delivered, history, token, now>>
    PROVE  MessagesInv'
  <1>1. /\ sendRequests \in [Requests -> RequestRecord]
        /\ sends \in [Requests -> [messages!Channels -> SendRecord]]
        /\ status \in messages!ShipmentStatus /\ overtaken \subseteq Requests
    BY DEF MessagesInv, messages!TypeOK, RequestRecord, SendRecord
  <1>2. /\ sendRequests'[r] = served
        /\ \A q \in Requests : q # r => sendRequests'[q] = sendRequests[q]
    BY <1>1 DEF messages!Goes
  <1>3. ASSUME NEW q \in Requests PROVE RequestInv(q)'
    <2>1. CASE q = r
      BY <1>1, <1>2, <2>1 DEF RequestInv, underWay
    <2>2. CASE q # r
      BY <1>2, <2>2 DEF MessagesInv, RequestInv
    <2>3. QED
      BY <2>1, <2>2
  <1>4. ASSUME NEW ch \in messages!Channels PROVE SendInv(r, ch)'
    <2>1. sends[r][ch].step = "none"
      BY DEF MessagesInv, SendInv, underWay, untold
    <2>2. QED
      BY <1>2, <2>1 DEF SendInv, underWay
  <1>5. messages!SentRowsDelivered' /\ history' \subseteq
            [request: Requests, channel: messages!Channels,
             told: messages!ShipmentStatus, sent: BOOLEAN]
    BY DEF MessagesInv, messages!TypeOK, messages!SentRowsDelivered
  <1>6. QED
    BY <1>1, <1>3, <1>4, <1>5, RequestMoves DEF untold

LEMMA ChecksKeep ==
    ASSUME MessagesInv, NEW r \in Requests,
           messages!CheckTransition(r) \/ messages!CheckUpdate(r)
    PROVE  MessagesInv'
  <1>1. PICK kind \in {"transition", "update"}, t \in messages!ShipmentStatus :
            /\ \/ kind = "update" /\ t = status
               \/ messages!isShipmentTransitionAllowed(status, t)
            /\ messages!Goes(r, [messages!Idle EXCEPT !.step = "checked", !.kind = kind,
                                                      !.seen = status, !.to = t])
    BY DEF messages!CheckTransition, messages!CheckUpdate,
           messages!controlledWorkflowStatuses, messages!ShipmentStatus
  <1> DEFINE served == [messages!Idle EXCEPT !.step = "checked", !.kind = kind,
                                             !.seen = status, !.to = t]
  <1>2. /\ served \in RequestRecord /\ served.step = "checked" /\ served.kind = kind
        /\ served.seen = status /\ served.to = t
    BY DEF messages!Idle, RequestRecord, messages!Kinds, MessagesInv, messages!TypeOK
  <1>3. messages!Goes(r, served)
    BY <1>1
  <1> HIDE DEF served
  <1>4. /\ sendRequests[r].step = "idle"
        /\ UNCHANGED <<status, overtaken, sends, delivered, history, token, now>>
    BY DEF messages!CheckTransition, messages!CheckUpdate, messages!at
  <1>5. QED
    BY <1>1, <1>2, <1>3, <1>4, NothingWritten DEF untold

LEMMA RefuseKeeps ==
    ASSUME MessagesInv, NEW r \in Requests, messages!Refuse(r)
    PROVE  MessagesInv'
  <1>1. messages!Over \in RequestRecord /\ messages!Over.step = "over"
    BY DEF messages!Over, messages!Idle, RequestRecord
  <1>2. QED
    BY <1>1, NothingWritten DEF messages!Refuse, messages!at, untold

\* A write takes the shipment on along the table, or overtakes every transition
\* that has not been told.
LEMMA WriteGoesOn ==
    ASSUME MessagesInv, NEW r \in Requests, messages!Write(r),
           NEW q \in Requests, sendRequests[q].step = "committed", q \notin overtaken'
    PROVE  status' \in reachable(sendRequests[q].to)
  <1>1. /\ status' = sendRequests[r].to /\ sendRequests[r].step = "checked"
        /\ sendRequests[r].seen = status /\ q \notin overtaken
    BY DEF messages!Write, messages!at
  <1>2. /\ status \in reachable(sendRequests[q].to)
        /\ sendRequests[q].to \in messages!ShipmentStatus
    BY <1>1 DEF MessagesInv, RequestInv
  <1>3. \/ status' = status
        \/ messages!isShipmentTransitionAllowed(status, status')
    BY <1>1 DEF MessagesInv, RequestInv
  <1>4. QED
    BY <1>2, <1>3, TransitionsGoOn

LEMMA WritesKeep ==
    ASSUME MessagesInv, NEW r \in Requests,
           messages!CommitTransition(r) \/ messages!CommitUpdate(r)
    PROVE  MessagesInv'
  <1>1. /\ sendRequests \in [Requests -> RequestRecord]
        /\ sends \in [Requests -> [messages!Channels -> SendRecord]]
        /\ status \in messages!ShipmentStatus /\ overtaken \subseteq Requests
    BY DEF MessagesInv, messages!TypeOK, RequestRecord, SendRecord
  <1>2. /\ messages!Write(r) /\ sendRequests[r].step = "checked"
        /\ UNCHANGED <<sends, delivered, history, token, now>>
        /\ status' = sendRequests[r].to /\ status' \in messages!ShipmentStatus
        /\ overtaken \subseteq overtaken' /\ overtaken' \subseteq Requests
    BY <1>1 DEF messages!CommitTransition, messages!CommitUpdate, messages!Write, messages!at,
                MessagesInv, RequestInv
  <1>3. PICK served \in RequestRecord :
            /\ messages!Goes(r, served)
            /\ \/ served.step = "over"
               \/ /\ served.step = "committed" /\ served.kind = "transition"
                  /\ served.to = status'
    <2>1. CASE messages!CommitUpdate(r)
      <3>1. messages!Over \in RequestRecord /\ messages!Over.step = "over"
        BY DEF messages!Over, messages!Idle, RequestRecord
      <3>2. QED
        BY <2>1, <3>1 DEF messages!CommitUpdate
    <2>2. CASE messages!CommitTransition(r)
      <3> DEFINE served == [sendRequests[r] EXCEPT !.step = "committed"]
      <3>1. /\ served \in RequestRecord /\ served.step = "committed"
            /\ served.kind = "transition" /\ served.to = status'
        BY <1>1, <1>2, <2>2 DEF messages!CommitTransition, RequestRecord
      <3>2. messages!Goes(r, served)
        BY <2>2 DEF messages!CommitTransition
      <3>3. QED
        BY <3>1, <3>2
    <2>3. QED
      BY <2>1, <2>2
  <1>4. /\ sendRequests'[r] = served
        /\ \A q \in Requests : q # r => sendRequests'[q] = sendRequests[q]
    BY <1>1, <1>3 DEF messages!Goes
  <1>5. ASSUME NEW q \in Requests PROVE RequestInv(q)'
    <2>1. CASE q = r
      BY <1>2, <1>3, <1>4, <2>1 DEF RequestInv, reachable, underWay
    <2>2. CASE q # r
      <3>1. sendRequests'[q] = sendRequests[q] /\ RequestInv(q)
        BY <1>4, <2>2 DEF MessagesInv
      <3>2. QED
        BY <1>2, <3>1, WriteGoesOn DEF RequestInv, underWay
    <2>3. QED
      BY <2>1, <2>2
  <1>6. ASSUME NEW ch \in messages!Channels PROVE SendInv(r, ch)'
    <2>1. sends[r][ch].step = "none"
      BY <1>2 DEF MessagesInv, SendInv, underWay
    <2>2. QED
      BY <1>2, <1>3, <1>4, <2>1 DEF SendInv, underWay
  <1>7. messages!SentRowsDelivered' /\ history' \subseteq
            [request: Requests, channel: messages!Channels,
             told: messages!ShipmentStatus, sent: BOOLEAN]
    BY <1>2 DEF MessagesInv, messages!TypeOK, messages!SentRowsDelivered
  <1>8. QED
    BY <1>1, <1>2, <1>3, <1>5, <1>6, <1>7, RequestMoves DEF untold

\* A request that begins to send has a message to send on each of its channels.
LEMMA BeginsToSend ==
    ASSUME MessagesInv, NEW r \in Requests, NEW served \in RequestRecord,
           messages!Goes(r, served), messages!Started(r, served.kind),
           served.step = "sending", served.kind \in messages!Kinds, served.told = status,
           sendRequests[r].step \in {"idle", "committed"},
           served.kind = "transition" => sendRequests[r].step = "committed",
           sendRequests[r].step # "idle" =>
               served.kind = sendRequests[r].kind /\ served.to = sendRequests[r].to,
           UNCHANGED <<status, overtaken, delivered, history, token, now>>
    PROVE  MessagesInv'
  <1>1. /\ sendRequests \in [Requests -> RequestRecord]
        /\ sends \in [Requests -> [messages!Channels -> SendRecord]]
        /\ status \in messages!ShipmentStatus /\ overtaken \subseteq Requests
    BY DEF MessagesInv, messages!TypeOK, RequestRecord, SendRecord
  <1>2. /\ sendRequests'[r] = served
        /\ \A q \in Requests : q # r => sendRequests'[q] = sendRequests[q]
    BY <1>1 DEF messages!Goes
  <1> DEFINE first(ch) == IF ch \notin messages!channelsOf(served.kind) THEN messages!Send("ok")
                          ELSE messages!Send(IF ch = "email" THEN "token" ELSE "provider")
  <1>3. \A ch \in messages!Channels : first(ch) \in SendRecord
    BY DEF SendRecord, messages!Send, messages!SendSteps, messages!ended
  <1>4. /\ sends' \in [Requests -> [messages!Channels -> SendRecord]]
        /\ \A ch \in messages!Channels : sends'[r][ch] = first(ch)
        /\ \A q \in Requests : q # r => sends'[q] = sends[q]
    BY <1>1, <1>3 DEF messages!Started
  <1>5. ASSUME NEW q \in Requests PROVE RequestInv(q)'
    <2>1. RequestInv(q)
      BY DEF MessagesInv
    <2>2. CASE q = r
      BY <1>1, <1>2, <2>1, <2>2 DEF RequestInv, underWay
    <2>3. CASE q # r
      BY <1>2, <2>1, <2>3 DEF RequestInv
    <2>4. QED
      BY <2>2, <2>3
  <1>6. ASSUME NEW ch \in messages!Channels PROVE SendInv(r, ch)'
    <2>1. /\ ch \notin messages!channelsOf(served.kind) => first(ch).step = "ok"
          /\ ch \in messages!channelsOf(served.kind) => first(ch).step \in {"token", "provider"}
      BY DEF messages!Send
    <2> HIDE DEF first
    <2>2. sendRequests'[r] = served /\ sends'[r][ch] = first(ch)
      BY <1>2, <1>4
    <2>3. QED
      BY <2>1, <2>2 DEF SendInv, underWay
  <1>7. messages!SentRowsDelivered'
    BY DEF MessagesInv, messages!SentRowsDelivered
  <1>8. history' \subseteq [request: Requests, channel: messages!Channels,
                            told: messages!ShipmentStatus, sent: BOOLEAN]
    BY DEF MessagesInv, messages!TypeOK
  <1>9. QED
    BY <1>1, <1>4, <1>5, <1>6, <1>7, <1>8, RequestMoves DEF untold

LEMMA NotifyKeeps ==
    ASSUME MessagesInv, NEW r \in Requests, messages!notifyShipmentStatusChange(r)
    PROVE  MessagesInv'
  <1>1. /\ sendRequests \in [Requests -> RequestRecord]
        /\ sends \in [Requests -> [messages!Channels -> SendRecord]]
        /\ status \in messages!ShipmentStatus /\ overtaken \subseteq Requests
    BY DEF MessagesInv, messages!TypeOK, RequestRecord, SendRecord
  <1>2. /\ sendRequests[r].step = "committed" /\ sendRequests[r].kind = "transition"
        /\ UNCHANGED <<status, overtaken, delivered, history, token, now>>
    BY DEF messages!notifyShipmentStatusChange, messages!at, MessagesInv, RequestInv
  <1> DEFINE told == [sendRequests[r] EXCEPT !.step = "sending", !.told = status]
             lost == [sendRequests[r] EXCEPT !.step = "over"]
  <1>3. /\ told \in RequestRecord /\ told.step = "sending" /\ told.told = status
        /\ told.kind = sendRequests[r].kind /\ told.to = sendRequests[r].to
        /\ lost \in RequestRecord /\ lost.step = "over"
        /\ lost.kind = sendRequests[r].kind /\ lost.to = sendRequests[r].to
    BY <1>1 DEF RequestRecord
  <1>4. \/ messages!Goes(r, told) /\ messages!Started(r, "transition")
        \/ messages!Goes(r, lost) /\ UNCHANGED sends
    BY DEF messages!notifyShipmentStatusChange
  <1> HIDE DEF told, lost
  <1>5. CASE messages!Goes(r, told) /\ messages!Started(r, "transition")
    BY <1>2, <1>3, <1>5, BeginsToSend DEF messages!Kinds
  <1>6. CASE messages!Goes(r, lost) /\ UNCHANGED sends
    <2>1. /\ sendRequests'[r] = lost
          /\ \A q \in Requests : q # r => sendRequests'[q] = sendRequests[q]
      BY <1>1, <1>6 DEF messages!Goes
    <2>2. ASSUME NEW q \in Requests PROVE RequestInv(q)'
      <3>1. RequestInv(q)
        BY DEF MessagesInv
      <3>2. QED
        BY <1>2, <1>3, <2>1, <3>1 DEF RequestInv, underWay
    <2>3. ASSUME NEW ch \in messages!Channels PROVE SendInv(r, ch)'
      <3>1. sends[r][ch].step = "none"
        BY <1>2 DEF MessagesInv, SendInv, underWay
      <3>2. QED
        BY <1>3, <1>6, <2>1, <3>1 DEF SendInv, underWay
    <2>4. messages!SentRowsDelivered' /\ history' \subseteq
              [request: Requests, channel: messages!Channels,
               told: messages!ShipmentStatus, sent: BOOLEAN]
      BY <1>2 DEF MessagesInv, messages!TypeOK, messages!SentRowsDelivered
    <2>5. /\ status' \in messages!ShipmentStatus
          /\ sends' \in [Requests -> [messages!Channels -> SendRecord]] /\ sends' = sends
      BY <1>1, <1>2, <1>6
    <2>6. QED
      BY <1>1, <1>2, <1>3, <1>6, <2>2, <2>3, <2>4, <2>5, RequestMoves DEF untold
  <1>7. QED
    BY <1>4, <1>5, <1>6

LEMMA SendTrackingKeeps ==
    ASSUME MessagesInv, NEW r \in Requests, NEW kind \in messages!Channels,
           messages!sendTracking(r, kind)
    PROVE  MessagesInv'
  <1> DEFINE served == [messages!Idle EXCEPT !.step = "sending", !.kind = kind, !.told = status]
  <1>1. status \in messages!ShipmentStatus
    BY DEF MessagesInv, messages!TypeOK
  <1>2. /\ served \in RequestRecord /\ served.step = "sending"
        /\ served.kind = kind /\ served.told = status
    BY <1>1 DEF messages!Idle, RequestRecord, messages!Kinds
  <1>3. /\ messages!Goes(r, served) /\ messages!Started(r, kind)
        /\ sendRequests[r].step = "idle"
        /\ UNCHANGED <<status, overtaken, delivered, history, token, now>>
    BY DEF messages!sendTracking, messages!at
  <1> HIDE DEF served
  <1>4. kind \in messages!Kinds /\ kind # "transition"
    BY DEF messages!Kinds, messages!Channels
  <1>5. QED
    BY <1>2, <1>3, <1>4, BeginsToSend

\* A request that has sent what it had to send is answered, with a row that is
\* true of its message or with none.
LEMMA BothEnd ==
    ASSUME MessagesInv, NEW r \in Requests,
           messages!Goes(r, [sendRequests[r] EXCEPT !.step = "answered"]),
           sendRequests[r].step = "sending",
           \A ch \in messages!Channels : sends[r][ch].step \in messages!ended,
           history' \subseteq [request: Requests, channel: messages!Channels,
                               told: messages!ShipmentStatus, sent: BOOLEAN],
           messages!SentRowsDelivered',
           UNCHANGED <<status, overtaken, sends, delivered, token, now>>
    PROVE  MessagesInv'
  <1> DEFINE served == [sendRequests[r] EXCEPT !.step = "answered"]
  <1>1. /\ sendRequests \in [Requests -> RequestRecord]
        /\ sends \in [Requests -> [messages!Channels -> SendRecord]]
        /\ status \in messages!ShipmentStatus /\ overtaken \subseteq Requests
    BY DEF MessagesInv, messages!TypeOK, RequestRecord, SendRecord
  <1>2. /\ served \in RequestRecord /\ served.step = "answered"
        /\ served.kind = sendRequests[r].kind /\ served.to = sendRequests[r].to
        /\ served.told = sendRequests[r].told
    BY <1>1 DEF RequestRecord
  <1>3. messages!Goes(r, served)
    OBVIOUS
  <1> HIDE DEF served
  <1>4. /\ sendRequests'[r] = served
        /\ \A q \in Requests : q # r => sendRequests'[q] = sendRequests[q]
    BY <1>1, <1>3 DEF messages!Goes
  <1>5. ASSUME NEW q \in Requests PROVE RequestInv(q)'
    <2>1. RequestInv(q)
      BY DEF MessagesInv
    <2>2. CASE q = r
      BY <1>2, <1>4, <2>1, <2>2 DEF RequestInv, underWay
    <2>3. CASE q # r
      BY <1>4, <2>1, <2>3 DEF RequestInv
    <2>4. QED
      BY <2>2, <2>3
  <1>6. ASSUME NEW ch \in messages!Channels PROVE SendInv(r, ch)'
    <2>1. SendInv(r, ch) /\ message(r, ch)' = message(r, ch)
      BY <1>2, <1>4 DEF MessagesInv, message
    <2>2. QED
      BY <1>2, <1>4, <2>1 DEF SendInv, underWay, messages!ended
  <1>7. QED
    BY <1>1, <1>2, <1>3, <1>5, <1>6, RequestMoves DEF untold

LEMMA SendUpdateKeeps ==
    ASSUME MessagesInv, NEW r \in Requests, messages!sendShipmentTrackingUpdate(r)
    PROVE  MessagesInv'
  <1>1. messages!SentRowsDelivered' /\ history' \subseteq
            [request: Requests, channel: messages!Channels,
             told: messages!ShipmentStatus, sent: BOOLEAN]
    BY DEF MessagesInv, messages!TypeOK, messages!SentRowsDelivered,
           messages!sendShipmentTrackingUpdate
  <1>2. QED
    BY <1>1, BothEnd DEF messages!sendShipmentTrackingUpdate, messages!at

LEMMA RecordHistoryKeeps ==
    ASSUME MessagesInv, NEW r \in Requests, messages!RecordHistory(r)
    PROVE  MessagesInv'
  <1> DEFINE ch == sendRequests[r].kind
  <1>1. /\ sendRequests[r].step = "sending" /\ ch \in messages!Channels
        /\ sends[r][ch].step \in messages!ended
        /\ messages!Goes(r, [sendRequests[r] EXCEPT !.step = "answered"])
        /\ history' \in {history, history \cup {messages!row(r, ch)}}
        /\ UNCHANGED <<status, overtaken, sends, delivered, token, now>>
    BY DEF messages!RecordHistory, messages!at
  <1>2. /\ messages!channelsOf(ch) = {ch}
        /\ sendRequests[r].told \in messages!ShipmentStatus
    BY <1>1 DEF messages!channelsOf, messages!Channels, MessagesInv, RequestInv, underWay
  <1>3. ASSUME NEW c \in messages!Channels PROVE sends[r][c].step \in messages!ended
    <2>1. CASE c = ch
      BY <1>1, <2>1
    <2>2. CASE c # ch
      BY <1>1, <1>2, <2>2 DEF MessagesInv, SendInv, underWay, messages!ended
    <2>3. QED
      BY <2>1, <2>2
  <1>4. /\ messages!row(r, ch) \in
              [request: Requests, channel: messages!Channels,
               told: messages!ShipmentStatus, sent: BOOLEAN]
        /\ messages!row(r, ch).request = r /\ messages!row(r, ch).channel = ch
        /\ messages!row(r, ch).told = sendRequests[r].told
        /\ messages!row(r, ch).sent <=> sends[r][ch].step = "ok"
    BY <1>1, <1>2 DEF messages!row
  <1>5. sends[r][ch].step = "ok" => message(r, ch) \in delivered
    BY <1>1, <1>2 DEF MessagesInv, SendInv
  <1> HIDE DEF ch
  <1>6. ASSUME NEW h \in history', h.sent
        PROVE  [request |-> h.request, channel |-> h.channel, told |-> h.told] \in delivered
    <2>1. CASE h \in history
      BY <1>6, <2>1 DEF MessagesInv, messages!SentRowsDelivered
    <2>2. CASE h = messages!row(r, ch)
      BY <1>4, <1>5, <1>6, <2>2 DEF message
    <2>3. QED
      BY <1>1, <2>1, <2>2
  <1>7. messages!SentRowsDelivered'
    BY <1>1, <1>6 DEF messages!SentRowsDelivered
  <1>8. history' \subseteq [request: Requests, channel: messages!Channels,
                            told: messages!ShipmentStatus, sent: BOOLEAN]
    BY <1>1, <1>4 DEF MessagesInv, messages!TypeOK
  <1>9. QED
    BY <1>1, <1>3, <1>7, <1>8, BothEnd

\* A crash loses what is under way, and nothing of what has arrived.
LEMMA CrashKeeps ==
    ASSUME MessagesInv, messages!Crash
    PROVE  MessagesInv'
  <1>1. /\ sendRequests \in [Requests -> RequestRecord]
        /\ sends \in [Requests -> [messages!Channels -> SendRecord]]
    BY DEF MessagesInv, messages!TypeOK, RequestRecord, SendRecord
  <1>2. /\ UNCHANGED <<status, overtaken, delivered, history, now>> /\ token' = None
    BY DEF messages!Crash
  <1>3. ASSUME NEW q \in Requests
        PROVE  /\ sendRequests'[q] \in RequestRecord
               /\ sendRequests'[q].kind = sendRequests[q].kind
               /\ sendRequests'[q].to = sendRequests[q].to
               /\ sendRequests'[q].told = sendRequests[q].told
               /\ \/ /\ sendRequests[q].step \in {"idle", "answered"}
                     /\ sendRequests'[q].step = sendRequests[q].step
                  \/ /\ sendRequests[q].step \notin {"idle", "answered"}
                     /\ sendRequests'[q].step = "over"
    BY <1>1 DEF messages!Crash, RequestRecord
  <1>4. ASSUME NEW q \in Requests
        PROVE  sends'[q] = IF sendRequests[q].step = "answered" THEN sends[q]
                           ELSE messages!Unsent
    BY DEF messages!Crash, messages!at
  <1>5. messages!Unsent \in [messages!Channels -> SendRecord]
        /\ \A ch \in messages!Channels : messages!Unsent[ch].step = "none"
    BY DEF messages!Unsent, messages!Send, SendRecord, messages!SendSteps
  <1>6. messages!TypeOK'
    <2>1. sendRequests' \in [Requests -> RequestRecord]
      BY <1>1, <1>3 DEF messages!Crash
    <2>2. sends' \in [Requests -> [messages!Channels -> SendRecord]]
      BY <1>1, <1>4, <1>5 DEF messages!Crash
    <2>3. QED
      BY <1>2, <2>1, <2>2 DEF MessagesInv, messages!TypeOK, RequestRecord, SendRecord
  <1>7. ASSUME NEW q \in Requests PROVE RequestInv(q)'
    <2>1. RequestInv(q)
      BY DEF MessagesInv
    <2>2. QED
      BY <1>2, <1>3, <2>1 DEF RequestInv, underWay
  <1>8. ASSUME NEW q \in Requests, NEW ch \in messages!Channels PROVE SendInv(q, ch)'
    <2>1. SendInv(q, ch) /\ message(q, ch)' = message(q, ch)
      BY <1>3 DEF MessagesInv, message
    <2>2. CASE sendRequests[q].step = "answered"
      BY <1>2, <1>3, <1>4, <2>1, <2>2 DEF SendInv
    <2>3. CASE sendRequests[q].step # "answered"
      <3>1. sends'[q][ch].step = "none" /\ sendRequests'[q].step \notin underWay
        BY <1>3, <1>4, <1>5, <2>3 DEF underWay
      <3>2. QED
        BY <3>1 DEF SendInv, underWay
    <2>4. QED
      BY <2>2, <2>3
  <1>9. ASSUME NEW m \in delivered
        PROVE  /\ sendRequests'[m.request].step \notin untold
               /\ sendRequests'[m.request].kind = "transition" /\ m.request \notin overtaken =>
                      m.told \in reachable(sendRequests'[m.request].to)
    <2>1. /\ m.request \in Requests /\ sendRequests[m.request].step \notin untold
          /\ sendRequests[m.request].kind = "transition" /\ m.request \notin overtaken =>
                 m.told \in reachable(sendRequests[m.request].to)
      BY DEF MessagesInv, messages!TypeOK, messages!AnnouncementIsUpToDate, reachable
    <2>2. QED
      BY <1>3, <2>1 DEF untold
  <1>10. /\ messages!AnnouncementIsUpToDate'
         /\ \A m \in delivered' : sendRequests'[m.request].step \notin untold
    BY <1>2, <1>9 DEF messages!AnnouncementIsUpToDate, reachable
  <1>11. messages!SentRowsDelivered' /\ TokenInv'
    BY <1>2 DEF MessagesInv, messages!SentRowsDelivered, TokenInv
  <1>12. QED
    BY <1>6, <1>7, <1>8, <1>10, <1>11 DEF MessagesInv

LEMMA MessagesInvAlways == ServicesSpec => []MessagesInv
  <1>1. ASSUME ServicesInit PROVE MessagesInv
    <2>1. messages!Init
      BY <1>1 DEF ServicesInit
    <2>2. messages!TypeOK
      BY <2>1, ServicesConstants
         DEF messages!Init, messages!TypeOK, messages!Idle, messages!Unsent, messages!Send,
             messages!SendSteps
    <2>3. \A r \in Requests : RequestInv(r)
      BY <2>1, ServicesConstants DEF messages!Init, RequestInv, underWay, messages!Idle, messages!Kinds
    <2>4. \A r \in Requests : \A ch \in messages!Channels : SendInv(r, ch)
      BY <2>1 DEF messages!Init, SendInv, underWay, messages!Idle, messages!Unsent, messages!Send
    <2>5. QED
      BY <2>1, <2>2, <2>3, <2>4
         DEF MessagesInv, messages!Init, messages!AnnouncementIsUpToDate,
             messages!SentRowsDelivered, TokenInv
  <1>2. MessagesInv /\ [ServicesNext]_servicesVars => MessagesInv'
    <2> SUFFICES ASSUME MessagesInv, [messages!Next]_messageVars PROVE MessagesInv'
      BY MessagesStep
    <2>1. CASE UNCHANGED messageVars
      BY <2>1 DEF messageVars, MessagesInv, messages!TypeOK, RequestInv, SendInv, message,
         reachable, messages!AnnouncementIsUpToDate, messages!SentRowsDelivered, TokenInv
    <2>2. CASE messages!Tick
      BY <2>2, TickKeeps
    <2>3. CASE messages!Crash
      BY <2>3, CrashKeeps
    <2>4. ASSUME NEW r \in Requests, messages!Handler(r) PROVE MessagesInv'
      BY <2>4, ChecksKeep, RefuseKeeps, WritesKeep, NotifyKeeps, SendUpdateKeeps, SendTrackingKeeps,
         RecordHistoryKeeps, getAccessTokenKeeps, TokenIssuedKeeps, TokenArrivesKeeps,
         DeliverKeeps, AnsweredKeeps
         DEF messages!Handler
    <2>5. QED
      BY <2>1, <2>2, <2>3, <2>4 DEF messages!Next
  <1>3. QED
    BY <1>1, <1>2, PTL DEF ServicesSpec

\* A row of the history that says SENT is about a message the customer has; what a
\* message ticks off is not ahead of the status it tells; and a transition's
\* message tells no status before the one it reached, unless a write decided on
\* an outdated row came between its commit and the reading of the status.  All
\* of it whatever crashes, fails or overlaps.
THEOREM MessagesAreTrueAlways == ServicesSpec => []MessagesAreTrue
  <1>1. MessagesInv => MessagesAreTrue
    BY TicksFollowWay DEF MessagesInv, MessagesAreTrue, messages!MilestonesFollowWay
  <1>2. QED
    BY <1>1, MessagesInvAlways, PTL

\* A message goes from its token to the provider only with the token in the cache.
LEMMA OnlyCachedTokens ==
    ASSUME MessagesInv, [messages!Next]_messageVars, NEW r \in Requests,
           sends[r]["email"].step = "token", sends'[r]["email"].step = "provider"
    PROVE  /\ token # None /\ now < token.until
           /\ sends'[r]["email"].issued = token.issued
           /\ sends'[r]["email"].life = token.life
  <1>1. /\ sends \in [Requests -> [messages!Channels -> SendRecord]]
        /\ "email" \in messages!Channels
    BY DEF MessagesInv, messages!TypeOK, SendRecord, messages!Channels
  <1>2. sends' # sends
    BY <1>1
  <1>3. PICK q \in Requests : messages!Handler(q)
    <2>1. CASE messages!Crash
      BY <1>1, <2>1 DEF messages!Crash, messages!Unsent, messages!Send
    <2>2. QED
      BY <1>2, <2>1 DEF messages!Next, messageVars, messages!Tick
  <1>4. ASSUME NEW c \in messages!Channels, NEW send, messages!Moves(q, c, send)
        PROVE  q = r /\ c = "email" /\ sends'[r]["email"] = send
    BY <1>1, <1>4 DEF messages!Moves
  <1>5. ASSUME NEW kind, messages!Started(q, kind) PROVE FALSE
    <2>1. /\ sends'[q]["email"].step \in {"ok", "token"}
          /\ q # r => sends'[r] = sends[r]
      BY <1>1, <1>5 DEF messages!Started, messages!Send
    <2>2. QED
      BY <2>1
  <1>6. CASE messages!getAccessToken(q)
    <2>1. \/ /\ token # None /\ now < token.until
             /\ messages!Moves(q, "email", [step |-> "provider", issued |-> token.issued,
                                            life |-> token.life])
          \/ messages!Moves(q, "email", messages!Send("asked"))
      BY <1>6 DEF messages!getAccessToken
    <2>2. QED
      BY <1>1, <1>4, <2>1 DEF messages!Send
  <1>7. ~ (messages!TokenIssued(q) \/ messages!TokenArrives(q))
    BY <1>1, <1>4 DEF messages!TokenIssued, messages!TokenArrives
  <1>8. ASSUME NEW c \in messages!Channels PROVE ~ (messages!Deliver(q, c) \/ messages!Answered(q, c))
    BY <1>4 DEF messages!Deliver, messages!Answered
  <1>9. ASSUME NEW kind \in messages!Channels PROVE ~ messages!sendTracking(q, kind)
    BY <1>5 DEF messages!sendTracking
  <1>10. ~ (\/ messages!CheckTransition(q) \/ messages!CheckUpdate(q) \/ messages!Refuse(q)
            \/ messages!CommitTransition(q) \/ messages!CommitUpdate(q)
            \/ messages!notifyShipmentStatusChange(q)
            \/ messages!sendShipmentTrackingUpdate(q) \/ messages!RecordHistory(q))
    BY <1>2, <1>5 DEF messages!CheckTransition, messages!CheckUpdate, messages!Refuse,
       messages!CommitTransition, messages!CommitUpdate, messages!Write, messages!notifyShipmentStatusChange,
       messages!sendShipmentTrackingUpdate, messages!RecordHistory
  <1>11. QED
    BY <1>3, <1>6, <1>7, <1>8, <1>9, <1>10 DEF messages!Handler

\* No mail goes out with a cached token that has expired, where the token was not
\* longer on its way than the margin allows.
THEOREM TokenStillGoodAlways == ServicesSpec => TokenStillGood
  <1> DEFINE A == \A r \in Requests :
                     LET send == sends'[r]["email"]
                     IN  /\ sends[r]["email"].step = "token" /\ send.step = "provider"
                         /\ token.late <= messages!Margin /\ token.late + messages!Margin <= token.life
                         => now < send.issued + send.life
  <1>1. ASSUME MessagesInv, [messages!Next]_messageVars PROVE A
    <2> SUFFICES ASSUME NEW r \in Requests,
                        sends[r]["email"].step = "token", sends'[r]["email"].step = "provider",
                        token.late <= messages!Margin,
                        token.late + messages!Margin <= token.life
                 PROVE  now < sends'[r]["email"].issued + sends'[r]["email"].life
      OBVIOUS
    <2>1. /\ token # None /\ now < token.until
          /\ sends'[r]["email"].issued = token.issued
          /\ sends'[r]["email"].life = token.life
      BY <1>1, OnlyCachedTokens
    <2>2. /\ token \in [issued: 0 .. MaxTime, life: Lives, until: Nat \ {0}, late: Nat]
          /\ now \in 0 .. MaxTime /\ MaxTime \in Nat /\ Lives \subseteq Nat \ {0}
      BY <1>1, <2>1, ServicesConstants DEF MessagesInv, messages!TypeOK
    <2>3. /\ token.issued \in Nat /\ token.life \in Nat \ {0} /\ token.late \in Nat
          /\ now \in Nat
      <3>1. token.issued \in 0 .. MaxTime /\ token.life \in Lives /\ token.late \in Nat
        BY <2>2
      <3>2. token.life \in Nat \ {0}
        BY <2>2, <3>1
      <3>3. token.issued \in Nat
        BY <2>2, <3>1
      <3>4. now \in Nat
        BY <2>2
      <3>5. QED
        BY <3>1, <3>2, <3>3, <3>4
    <2>4. token.until = token.issued + token.late + messages!keptFor(token.life)
      BY <1>1, <2>1 DEF MessagesInv, TokenInv
    <2>5. QED
      BY <2>1, <2>3, <2>4 DEF messages!keptFor, messages!Margin
  <1>2. ASSUME MessagesInv, [ServicesNext]_servicesVars PROVE [A]_(messages!vars)
    BY <1>1, <1>2, MessagesStep DEF messageVars, messages!vars
  <1>3. ServicesSpec => [][A]_(messages!vars)
    <2> HIDE DEF A
    <2>1. QED
      BY <1>2, MessagesInvAlways, PTL DEF ServicesSpec
  <1>4. QED
    BY <1>3 DEF TokenStillGood, messages!TokenStillGood

-----------------------------------------------------------------------------
(* The amounts of an invoice: sums, whatever the number of items *)

\* Every set of naturals has a least one.
LEMMA LeastNatural ==
    ASSUME NEW S, S \subseteq Nat, S # {}
    PROVE  \E n \in S : \A m \in S : n <= m
  <1> DEFINE R == OpToRel(<, Nat)
  <1>1. IsWellFoundedOn(R, Nat)
    BY NatLessThanWellFounded, Zenon
  <1>2. \A x, y \in Nat : <<y, x>> \in R <=> y < x
    BY DEF OpToRel
  <1> HIDE DEF R
  <1>3. PICK n \in S : \A m \in S : ~ (<<m, n>> \in R)
    BY <1>1, WFMin
  <1>4. ASSUME NEW m \in S PROVE n <= m
    <2>1. n \in Nat /\ m \in Nat /\ ~ (m < n)
      BY <1>2, <1>3
    <2>2. QED
      BY <2>1
  <1>5. QED
    BY <1>4

\* The sums of the first amounts, of none, one, two and so on.
AreSums(g, a, n) == g = [k \in 0 .. n |-> IF k = 0 THEN 0 ELSE g[k - 1] + a[k]]

LEMMA SumsExist ==
    ASSUME NEW a, NEW n \in Nat
    PROVE  \E g : AreSums(g, a, n)
  <1> DEFINE S == {m \in Nat : ~ \E g : AreSums(g, a, m)}
  <1>1. SUFFICES ASSUME S # {} PROVE FALSE
    OBVIOUS
  <1>2. PICK m \in S : \A k \in S : m <= k
    BY <1>1, LeastNatural
  <1>3. m # 0
    <2>1. AreSums([k \in 0 .. 0 |-> 0], a, 0)
      BY DEF AreSums
    <2>2. QED
      BY <2>1
  <1>4. PICK g : AreSums(g, a, m - 1)
    <2>1. m - 1 \in Nat /\ m - 1 \notin S
      BY <1>2, <1>3
    <2>2. QED
      BY <2>1
  <1> DEFINE h == [k \in 0 .. m |-> IF k = m THEN g[m - 1] + a[m] ELSE g[k]]
  <1>5. AreSums(h, a, m)
    <2>1. \A k \in 0 .. m - 1 : h[k] = g[k]
      OBVIOUS
    <2>2. ASSUME NEW k \in 0 .. m PROVE h[k] = IF k = 0 THEN 0 ELSE h[k - 1] + a[k]
      <3>1. CASE k = m
        BY <1>3, <2>1, <3>1
      <3>2. CASE k # m
        <4>1. k \in 0 .. m - 1 /\ (k # 0 => k - 1 \in 0 .. m - 1)
          BY <3>2
        <4>2. g[k] = IF k = 0 THEN 0 ELSE g[k - 1] + a[k]
          BY <1>4, <4>1 DEF AreSums
        <4>3. QED
          BY <2>1, <4>1, <4>2
      <3>3. QED
        BY <3>1, <3>2
    <2>3. QED
      BY <2>2 DEF AreSums
  <1>6. QED
    BY <1>5

\* What is added up is the last of the sums.
LEMMA AddedIsASum ==
    ASSUME NEW a, NEW n \in Nat, Len(a) = n
    PROVE  \E g : AreSums(g, a, n) /\ amounts!added(a) = g[n]
  BY SumsExist DEF AreSums, amounts!added

LEMMA SumsNatural ==
    ASSUME NEW a, NEW n \in Nat, \A k \in 1 .. n : a[k] \in Nat,
           NEW g, AreSums(g, a, n), NEW k \in 0 .. n
    PROVE  g[k] \in Nat
  <1> DEFINE S == {m \in 0 .. n : g[m] \notin Nat}
  <1>1. SUFFICES ASSUME S # {} PROVE FALSE
    OBVIOUS
  <1>2. PICK m \in S : \A j \in S : m <= j
    <2>1. S \subseteq Nat
      OBVIOUS
    <2>2. QED
      BY <1>1, <2>1, LeastNatural
  <1>3. g[m] = IF m = 0 THEN 0 ELSE g[m - 1] + a[m]
    BY DEF AreSums
  <1>4. m # 0
    BY <1>3
  <1>5. g[m - 1] \in Nat
    BY <1>2, <1>4
  <1>6. QED
    BY <1>3, <1>4, <1>5

\* An amount stored in cents is at most half a cent off, however fine the unit it
\* was computed in.
LEMMA StoredInCents ==
    ASSUME NEW x \in Nat
    PROVE  /\ amounts!stored(x, 4) \in Nat
           /\ 4 * amounts!stored(x, 4) - x <= 2 /\ x - 4 * amounts!stored(x, 4) <= 2
  BY DEF amounts!stored

LEMMA StoredFromHundredths ==
    ASSUME NEW x \in Nat
    PROVE  /\ amounts!stored(x, 400000) \in Nat
           /\ 400000 * amounts!stored(x, 400000) - x <= 200000
           /\ x - 400000 * amounts!stored(x, 400000) <= 200000
  BY DEF amounts!stored

\* A rate stored in hundredths of a percent is at most half of one off.
LEMMA StoredRate ==
    ASSUME NEW x \in Nat
    PROVE  /\ amounts!stored(x, 10) \in Nat
           /\ 10 * amounts!stored(x, 10) - x <= 5 /\ x - 10 * amounts!stored(x, 10) <= 5
  BY DEF amounts!stored

\* The sum of stored amounts is at most half a cent off for each of them.
LEMMA SumsOfStored ==
    ASSUME NEW a, NEW b, NEW n \in Nat,
           \A k \in 1 .. n : a[k] \in Nat /\ b[k] = amounts!stored(a[k], 4),
           NEW g, AreSums(g, a, n), NEW h, AreSums(h, b, n), NEW k \in 0 .. n
    PROVE  4 * h[k] - g[k] <= 2 * k /\ g[k] - 4 * h[k] <= 2 * k
  <1> DEFINE S == {m \in 0 .. n : ~ (4 * h[m] - g[m] <= 2 * m /\ g[m] - 4 * h[m] <= 2 * m)}
  <1>1. SUFFICES ASSUME S # {} PROVE FALSE
    OBVIOUS
  <1>2. PICK m \in S : \A j \in S : m <= j
    <2>1. S \subseteq Nat
      OBVIOUS
    <2>2. QED
      BY <1>1, <2>1, LeastNatural
  <1>3. /\ g[m] = IF m = 0 THEN 0 ELSE g[m - 1] + a[m]
        /\ h[m] = IF m = 0 THEN 0 ELSE h[m - 1] + b[m]
    BY DEF AreSums
  <1>4. m # 0
    BY <1>3
  <1>5. m - 1 \in 0 .. n /\ m - 1 \notin S /\ m \in 1 .. n
    BY <1>2, <1>4
  <1>6. \A j \in 1 .. n : b[j] \in Nat
    BY StoredInCents
  <1>7. g[m - 1] \in Nat /\ h[m - 1] \in Nat
    BY <1>5, <1>6, SumsNatural
  <1>8. /\ a[m] \in Nat /\ b[m] \in Nat
        /\ 4 * b[m] - a[m] <= 2 /\ a[m] - 4 * b[m] <= 2
    BY <1>5, StoredInCents
  <1>9. 4 * h[m - 1] - g[m - 1] <= 2 * (m - 1) /\ g[m - 1] - 4 * h[m - 1] <= 2 * (m - 1)
    BY <1>5
  <1>10. 4 * h[m] - g[m] <= 2 * m /\ g[m] - 4 * h[m] <= 2 * m
    BY <1>3, <1>4, <1>5, <1>7, <1>8, <1>9
  <1>11. QED
    BY <1>10

\* What the product of a stored subtotal and a stored rate is off.
LEMMA OffByRate ==
    ASSUME NEW s \in Nat, NEW t \in Nat, NEW rate \in Nat, NEW kept \in Nat,
           4 * t - s <= 2, s - 4 * t <= 2, 10 * kept - rate <= 5, rate - 10 * kept <= 5
    PROVE  /\ 40 * (t * kept) - s * rate <= 20 * t + 2 * rate
           /\ s * rate - 40 * (t * kept) <= 20 * t + 2 * rate
  <1> DEFINE off == 4 * t - s
             over == 10 * kept - rate
  <1>1. off \in -2 .. 2 /\ over \in -5 .. 5
    OBVIOUS
  <1>2. s = 4 * t - off /\ 10 * kept = rate + over
    OBVIOUS
  <1> HIDE DEF off, over
  <1>3. 40 * (t * kept) = 4 * (t * rate) + 4 * (t * over)
    <2>1. 40 * (t * kept) = 4 * (t * (10 * kept))
      OBVIOUS
    <2>2. t * (rate + over) = t * rate + t * over
      BY <1>1
    <2>3. QED
      BY <1>1, <1>2, <2>1, <2>2
  <1>4. s * rate = 4 * (t * rate) - off * rate
    BY <1>1, <1>2
  <1>5. t * over <= 5 * t /\ 0 - t * over <= 5 * t
    BY <1>1
  <1>6. off * rate <= 2 * rate /\ 0 - off * rate <= 2 * rate
    BY <1>1
  <1> DEFINE p == t * rate
             q == t * over
             u == off * rate
  <1>7. p \in Int /\ q \in Int /\ u \in Int
    BY <1>1
  <1>8. /\ 40 * (t * kept) = 4 * p + 4 * q /\ s * rate = 4 * p - u
        /\ q <= 5 * t /\ 0 - q <= 5 * t /\ u <= 2 * rate /\ 0 - u <= 2 * rate
    BY <1>3, <1>4, <1>5, <1>6
  <1> HIDE DEF p, q, u
  <1>9. QED
    BY <1>7, <1>8

LEMMA AmountsStep ==
    ASSUME [ServicesNext]_servicesVars
    PROVE  [amounts!Next]_amountVars
  BY DEF ServicesNext, servicesVars, amountVars

AmountsInv == amounts!TypeOK /\ AmountsAgree

\* Of a new invoice.  Its items have amounts, in quarters of a cent, that add up
\* to the sum of which the subtotal, the tax and the total are stored.
LEMMA CreateHolds ==
    ASSUME NEW items \in Seq(amounts!Item), NEW rate \in Rates, AmountsInv,
           amounts!create(items, rate)
    PROVE  AmountsInv'
  <1> DEFINE n == Len(items)
             a == [k \in DOMAIN items |-> amounts!amount(items[k])]
             b == [k \in DOMAIN items |-> amounts!stored(amounts!amount(items[k]), 4)]
             s == amounts!sum(items)
             subtotal == amounts!stored(s, 4)
             kept == amounts!stored(rate, 10)
             taxAmount == amounts!stored(s * rate, 400000)
             total == amounts!stored(100000 * s + s * rate, 400000)
  <1>1. n \in Nat /\ DOMAIN items = 1 .. n /\ rate \in Nat
    BY ServicesConstants
  <1>2. \A k \in 1 .. n : /\ amounts!amount(items[k]) \in Nat
                          /\ a[k] = amounts!amount(items[k])
                          /\ b[k] = amounts!stored(a[k], 4)
    <2>1. ASSUME NEW k \in 1 .. n PROVE amounts!amount(items[k]) \in Nat
      <3>1. items[k] \in amounts!Item
        BY <1>1
      <3>2. items[k].quantity \in Nat /\ items[k].unitPrice \in Nat
        BY <3>1, ServicesConstants DEF amounts!Item
      <3>3. QED
        BY <3>2 DEF amounts!amount
    <2>2. QED
      BY <1>1, <2>1
  <1>3. /\ b \in Seq(Nat) /\ Len(a) = n /\ Len(b) = n
        /\ \A k \in 1 .. n : a[k] \in Nat /\ b[k] \in Nat
    <2>1. \A k \in 1 .. n : a[k] \in Nat /\ b[k] \in Nat
      BY <1>2, StoredInCents
    <2>2. b \in [1 .. n -> Nat] /\ DOMAIN a = 1 .. n
      BY <1>1, <2>1
    <2>3. a \in [1 .. n -> Nat]
      BY <1>1, <2>1
    <2> HIDE DEF a, b, n
    <2>4. a \in Seq(Nat) /\ b \in Seq(Nat) /\ Len(a) = n /\ Len(b) = n
      BY <1>1, <2>2, <2>3
    <2>5. QED
      BY <2>1, <2>4
  <1>4. /\ invoice' = [items |-> b, rate |-> kept, subtotal |-> subtotal,
                       taxAmount |-> taxAmount, total |-> total,
                       status |-> "DRAFT", isActive |-> TRUE]
        /\ UNCHANGED repriced
    <2>1. 4 * amounts!whole = 400000
      BY DEF amounts!whole
    <2>2. QED
      BY <2>1 DEF amounts!create, amounts!tax, amounts!gross, amounts!whole
  <1>5. s = amounts!added(a)
    BY DEF amounts!sum
  <1> HIDE DEF n, a, b
  <1>6. PICK g : AreSums(g, a, n) /\ s = g[n]
    BY <1>1, <1>3, <1>5, AddedIsASum
  <1>7. PICK h : AreSums(h, b, n) /\ amounts!added(b) = h[n]
    BY <1>1, <1>3, AddedIsASum
  <1> DEFINE itemsTotal == amounts!added(b)
  <1>8. /\ s \in Nat /\ itemsTotal \in Nat
        /\ 4 * itemsTotal - s <= 2 * n /\ s - 4 * itemsTotal <= 2 * n
    <2>1. n \in 0 .. n /\ \A k \in 1 .. n : a[k] \in Nat /\ b[k] = amounts!stored(a[k], 4)
      BY <1>1, <1>2
    <2>2. g[n] \in Nat
      BY <1>1, <1>6, <2>1, SumsNatural
    <2>3. h[n] \in Nat
      BY <1>1, <1>3, <1>7, <2>1, SumsNatural
    <2>4. 4 * h[n] - g[n] <= 2 * n /\ g[n] - 4 * h[n] <= 2 * n
      BY <1>1, <1>6, <1>7, <2>1, SumsOfStored
    <2>5. QED
      BY <1>6, <1>7, <2>2, <2>3, <2>4
  <1>9. s * rate \in Nat /\ 100000 * s + s * rate \in Nat
    BY <1>1, <1>8
  <1> HIDE DEF s, itemsTotal
  <1>10. /\ subtotal \in Nat /\ taxAmount \in Nat /\ total \in Nat /\ kept \in Nat
         /\ 4 * subtotal - s <= 2 /\ s - 4 * subtotal <= 2
         /\ 10 * kept - rate <= 5 /\ rate - 10 * kept <= 5
         /\ 400000 * taxAmount - s * rate <= 200000 /\ s * rate - 400000 * taxAmount <= 200000
         /\ 400000 * total - (100000 * s + s * rate) <= 200000
         /\ (100000 * s + s * rate) - 400000 * total <= 200000
    <2>1. subtotal \in Nat /\ 4 * subtotal - s <= 2 /\ s - 4 * subtotal <= 2
      BY <1>8, StoredInCents
    <2>2. kept \in Nat /\ 10 * kept - rate <= 5 /\ rate - 10 * kept <= 5
      BY <1>1, StoredRate
    <2>3. /\ taxAmount \in Nat
          /\ 400000 * taxAmount - s * rate <= 200000 /\ s * rate - 400000 * taxAmount <= 200000
      BY <1>9, StoredFromHundredths
    <2>4. /\ total \in Nat
          /\ 400000 * total - (100000 * s + s * rate) <= 200000
          /\ (100000 * s + s * rate) - 400000 * total <= 200000
      BY <1>9, StoredFromHundredths
    <2>5. QED
      BY <2>1, <2>2, <2>3, <2>4
  <1> HIDE DEF subtotal, taxAmount, total, kept
  <1>11. /\ 40 * (subtotal * kept) - s * rate <= 20 * subtotal + 2 * rate
         /\ s * rate - 40 * (subtotal * kept) <= 20 * subtotal + 2 * rate
         /\ subtotal * kept \in Nat
    BY <1>1, <1>8, <1>10, OffByRate
  <1>12. amounts!TypeOK'
    BY <1>3, <1>4, <1>10 DEF AmountsInv, amounts!TypeOK, amounts!InvoiceStatus
  <1>13. amounts!distance(total, subtotal + taxAmount) <= 1
    <2> DEFINE p == s * rate
    <2>1. p \in Nat
      BY <1>9
    <2> HIDE DEF p
    <2>2. QED
      BY <1>8, <1>10, <2>1 DEF amounts!distance, p
  <1>14. 2 * amounts!distance(subtotal, itemsTotal) <= n + 1
    BY <1>1, <1>8, <1>10 DEF amounts!distance
  <1>15. 2 * amounts!distance(10000 * taxAmount, subtotal * kept) <= 10000 + subtotal + kept
    <2> DEFINE p == s * rate
               q == subtotal * kept
    <2>1. p \in Nat /\ q \in Nat
      BY <1>9, <1>11
    <2>2. /\ 400000 * taxAmount - p <= 200000 /\ p - 400000 * taxAmount <= 200000
          /\ 40 * q - p <= 20 * subtotal + 2 * rate /\ p - 40 * q <= 20 * subtotal + 2 * rate
          /\ rate <= 10 * kept + 5
      BY <1>1, <1>10, <1>11
    <2> HIDE DEF p, q
    <2>3. 2 * amounts!distance(10000 * taxAmount, q) <= 10000 + subtotal + kept
      BY <1>1, <1>10, <2>1, <2>2 DEF amounts!distance
    <2>4. QED
      BY <2>3 DEF q
  <1>16. /\ invoice'.total = total /\ invoice'.subtotal = subtotal
         /\ invoice'.taxAmount = taxAmount /\ invoice'.rate = kept /\ invoice'.items = b
    BY <1>4
  <1>17. amounts!itemsTotal' = itemsTotal
    BY <1>16 DEF amounts!itemsTotal, itemsTotal
  <1>18. AmountsAgree'
    BY <1>3, <1>13, <1>14, <1>15, <1>16, <1>17
       DEF AmountsAgree, amounts!AmountsAddUp, amounts!TaxFollowsRate
  <1>19. QED
    BY <1>12, <1>18 DEF AmountsInv

\* The amounts stay as they are, whatever becomes of the rate and the status.
LEMMA AmountsStay ==
    ASSUME AmountsInv, amounts!update \/ amounts!remove
    PROVE  AmountsInv'
  <1>1. /\ invoice # None
        /\ invoice \in [items: Seq(Nat), rate: Nat, subtotal: Nat, taxAmount: Nat, total: Nat,
                        status: amounts!InvoiceStatus, isActive: BOOLEAN]
        /\ repriced \in BOOLEAN
    BY DEF AmountsInv, amounts!TypeOK, amounts!update, amounts!remove
  <1>2. /\ invoice' \in [items: Seq(Nat), rate: Nat, subtotal: Nat, taxAmount: Nat, total: Nat,
                         status: amounts!InvoiceStatus, isActive: BOOLEAN]
        /\ invoice'.items = invoice.items /\ invoice'.subtotal = invoice.subtotal
        /\ invoice'.taxAmount = invoice.taxAmount /\ invoice'.total = invoice.total
        /\ repriced' = TRUE \/ (repriced' = repriced /\ invoice'.rate = invoice.rate)
    <2>1. CASE amounts!remove
      BY <1>1, <2>1 DEF amounts!remove, amounts!InvoiceStatus
    <2>2. CASE amounts!update
      <3>1. \A rate \in Rates : amounts!stored(rate, 10) \in Nat
        BY StoredRate, ServicesConstants
      <3>2. QED
        BY <1>1, <2>2, <3>1 DEF amounts!update
    <2>3. QED
      BY <2>1, <2>2
  <1>3. amounts!itemsTotal' = amounts!itemsTotal
    BY <1>2 DEF amounts!itemsTotal
  <1>4. amounts!TypeOK'
    BY <1>1, <1>2 DEF amounts!TypeOK
  <1>5. AmountsAgree'
    BY <1>1, <1>2, <1>3
       DEF AmountsInv, AmountsAgree, amounts!AmountsAddUp, amounts!TaxFollowsRate
  <1>6. QED
    BY <1>4, <1>5 DEF AmountsInv

LEMMA AmountsInvAlways == ServicesSpec => []AmountsInv
  <1>1. ServicesInit => AmountsInv
    <2>1. ServicesInit => invoice = None /\ repriced = FALSE
      BY DEF ServicesInit, amounts!Init
    <2>2. invoice = None /\ repriced = FALSE => amounts!TypeOK
      BY DEF amounts!TypeOK
    <2>3. invoice = None => AmountsAgree
      BY DEF AmountsAgree, amounts!AmountsAddUp, amounts!TaxFollowsRate
    <2>4. QED
      BY <2>1, <2>2, <2>3 DEF AmountsInv
  <1>2. AmountsInv /\ [ServicesNext]_servicesVars => AmountsInv'
    <2> SUFFICES ASSUME AmountsInv, [amounts!Next]_amountVars PROVE AmountsInv'
      BY AmountsStep
    <2>1. CASE UNCHANGED amountVars
      BY <2>1 DEF amountVars, AmountsInv, amounts!TypeOK, AmountsAgree, amounts!AmountsAddUp,
         amounts!TaxFollowsRate, amounts!itemsTotal
    <2>2. ASSUME NEW items \in amounts!BoundedSeq(amounts!Item, MaxItems), NEW rate \in Rates,
                 amounts!create(items, rate)
          PROVE  AmountsInv'
      <3>1. items \in Seq(amounts!Item)
        BY ServicesConstants DEF amounts!BoundedSeq, amounts!SeqOf
      <3>2. QED
        BY <2>2, <3>1, CreateHolds
    <2>3. QED
      BY <2>1, <2>2, AmountsStay DEF amounts!Next
  <1>3. QED
    BY <1>1, <1>2, PTL DEF ServicesSpec

\* However many items an invoice has and whatever rate was sent, what is printed of
\* it adds up as far as rounding lets it: the total is at most a cent off, the items
\* half a cent each and one for their sum; and until the rate is changed the tax is
\* the one of the subtotal and the rate beside it, but for what rounding these three
\* takes away.
THEOREM AmountsAgreeAlways == ServicesSpec => []AmountsAgree
  <1>1. AmountsInv => AmountsAgree
    BY DEF AmountsInv
  <1>2. QED
    BY <1>1, AmountsInvAlways, PTL

-----------------------------------------------------------------------------
(* All of them *)

\* The services keep values of the types their tables and their caches have,
\* whichever of them is in use and however its requests overlap.
THEOREM ServicesTyped == ServicesSpec => []ServicesTypeOK
  <1>1. ServicesSpec => []TypeOK
    <2>1. ServicesInit => Init
      BY DEF ServicesInit
    <2>2. [ServicesNext]_servicesVars => [Next]_vars
      BY DEF ServicesNext, servicesVars, vars
    <2>3. ServicesSpec => Spec
      BY <2>1, <2>2, PTL DEF ServicesSpec, Spec
    <2>4. QED
      BY <2>3, NumbersTyped, PTL
  <1>2. ServicesSpec => []RecordsTypeOK
    <2>1. ServicesInit => RecordsInit
      BY DEF ServicesInit
    <2>2. [ServicesNext]_servicesVars => [RecordsNext]_recordVars
      BY DEF ServicesNext, servicesVars, recordVars
    <2>3. ServicesSpec => RecordsSpec
      BY <2>1, <2>2, PTL DEF ServicesSpec, RecordsSpec
    <2>4. QED
      BY <2>3, RecordsTyped, PTL
  <1>3. MessagesInv => messages!TypeOK
    BY DEF MessagesInv
  <1>4. AmountsInv => amounts!TypeOK
    BY DEF AmountsInv
  <1>5. AccountsInv => accounts!TypeOK
    BY DEF AccountsInv
  <1>6. ReleasesInv => releases!TypeOK
    <2>1. releases!MigratedIsBackedUp /\ backups \subseteq Nat => replaced \subseteq Nat
      BY DEF releases!MigratedIsBackedUp
    <2>2. QED
      BY <2>1 DEF ReleasesInv, ReleaseTypes, Scripts, releases!TypeOK
  <1>7. TypeOK /\ RecordsTypeOK /\ MessagesInv /\ AmountsInv /\ AccountsInv /\ ReleasesInv
            => ServicesTypeOK
    BY <1>3, <1>4, <1>5, <1>6 DEF ServicesTypeOK
  <1>8. QED
    BY <1>1, <1>2, <1>7, MessagesInvAlways, AmountsInvAlways, AccountsInvAlways,
       ReleasesInvAlways, PTL

=============================================================================
