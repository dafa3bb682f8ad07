---------------------- MODULE VehicleInspectionsProofs ----------------------
(***************************************************************************)
(* Theorems about VehicleInspections with any number of overlapping        *)
(* requests: what a handler wrote down as the value before was, at some    *)
(* time, the value; so every value an inspection has is accounted for.     *)
(***************************************************************************)
EXTENDS VehicleInspections, FiniteSetTheorems, TLAPS

-----------------------------------------------------------------------------
(* What a history says *)

\* History h knows status x, or approval d, within its first n entries.
Known(h, x) == \E k \in 1 .. Len(h) : h[k].toStatus = x
Reached(h, d, n) == d = "PENDING" \/ \E j \in 1 .. n : h[j].toStatus = d

\* Status x is accounted for by history h.
StatusOK(h, x) ==
    /\ Len(h) > 0 /\ h[1].fromStatus = Null
    /\ \A k \in 2 .. Len(h) :
           /\ h[k].toStatus \in allowedTransitions(h[k].fromStatus)
           /\ \E j \in 1 .. k - 1 : h[j].toStatus = h[k].fromStatus
    /\ Known(h, x)

ApprovalOK(h, d) ==
    /\ Reached(h, d, Len(h))
    /\ \A k \in 1 .. Len(h) :
           /\ h[k].fromStatus # h[k].toStatus
           /\ Reached(h, h[k].fromStatus, k - 1)

Deciders == {"approve", "reject", "revokeApproval"}
Writers  == {"update", "changeStatus"}

\* What is known of a request in flight: the row it read was accounted for,
\* and the checks of that row have passed.
RequestOK(q) ==
    LET i == q.inspection
    IN  /\ inspection[i] # Absent
        /\ Exists(i) =>
               /\ Known(statusHistory[i], q.seen.status)
               /\ Reached(approvalHistory[i], q.seen.approvalStatus,
                          Len(approvalHistory[i]))
        /\ q.handler \in Writers /\ statusChanged(q.seen, q.sent) =>
               q.sent.status \in allowedTransitions(q.seen.status)
        /\ q.handler \in Deciders =>
               q.seen.approvalStatus # decision(q.handler)
        /\ q.step = "flagging" => q.report \in Reports

RequestsOK == \A w \in Workers : request[w] # NoRequest => RequestOK(request[w])

\* A report belongs to an inspection that exists (a foreign key).
ReportsOK == \A r \in Reports : report[r] \in Inspections => Exists(report[r])

HistoryOK(i) ==
    Exists(i) => /\ StatusOK(statusHistory[i], inspection[i].status)
                 /\ ApprovalOK(approvalHistory[i], inspection[i].approvalStatus)

\* An inspection that is not there yet has no approvals.
AbsentOK(i) == inspection[i] = Absent => approvalHistory[i] = <<>>

Inv ==
    /\ TypeOK
    /\ ReportsOK
    /\ RequestsOK
    /\ \A i \in Inspections : HistoryOK(i) /\ AbsentOK(i)

-----------------------------------------------------------------------------
(* Histories as sequences *)

\* What appending an entry does to a history.
LEMMA AppendEntry ==
    ASSUME NEW S, NEW h \in Seq(S), NEW e \in S
    PROVE  /\ Append(h, e) \in Seq(S)
           /\ Len(Append(h, e)) = Len(h) + 1
           /\ Append(h, e)[Len(h) + 1] = e
           /\ \A k \in 1 .. Len(h) : Append(h, e)[k] = h[k]
           /\ Len(h) \in Nat
  OBVIOUS

\* What a history knows is not forgotten.
LEMMA NothingForgotten ==
    ASSUME NEW S, NEW h \in Seq(S), NEW e \in S, NEW x
    PROVE  /\ Known(h, x) => Known(Append(h, e), x)
           /\ Reached(h, x, Len(h)) =>
                  Reached(Append(h, e), x, Len(Append(h, e)))
  BY AppendEntry DEF Known, Reached

\* A recorded change from a known status accounts for the status after it.
LEMMA StatusRecorded ==
    ASSUME NEW h \in Seq(StatusEntry), NEW x, NEW y \in InspectionStatus,
           NEW t \in InspectionStatus,
           StatusOK(h, x), Known(h, y), t \in allowedTransitions(y)
    PROVE  /\ Append(h, Entry(y, t)) \in Seq(StatusEntry)
           /\ StatusOK(Append(h, Entry(y, t)), t)
  <1> DEFINE e == Entry(y, t)
             g == Append(h, e)
  <1>1. e \in StatusEntry /\ e.fromStatus = y /\ e.toStatus = t
    BY DEF Entry, StatusEntry
  <1>2. /\ g \in Seq(StatusEntry)
        /\ Len(g) = Len(h) + 1 /\ g[Len(h) + 1] = e
        /\ \A k \in 1 .. Len(h) : g[k] = h[k]
        /\ Len(h) \in Nat
    BY <1>1, AppendEntry
  <1>3. g[1].fromStatus = Null
    BY <1>2 DEF StatusOK
  <1>4. ASSUME NEW k \in 2 .. Len(g)
        PROVE  /\ g[k].toStatus \in allowedTransitions(g[k].fromStatus)
               /\ \E j \in 1 .. k - 1 : g[j].toStatus = g[k].fromStatus
    <2>1. CASE k = Len(h) + 1
      <3>1. PICK j \in 1 .. Len(h) : h[j].toStatus = y
        BY DEF Known
      <3>2. QED
        BY <1>1, <1>2, <2>1, <3>1
    <2>2. CASE k \in 2 .. Len(h)
      <3>1. PICK j \in 1 .. k - 1 : h[j].toStatus = h[k].fromStatus
        BY <2>2 DEF StatusOK
      <3>2. j \in 1 .. Len(h) /\ k \in 1 .. Len(h)
        BY <1>2, <2>2
      <3>3. h[k].toStatus \in allowedTransitions(h[k].fromStatus)
        BY <2>2 DEF StatusOK
      <3>4. QED
        BY <1>2, <3>1, <3>2, <3>3
    <2>3. QED
      BY <1>2, <2>1, <2>2
  <1>5. Known(g, t)
    BY <1>1, <1>2 DEF Known
  <1>6. QED
    BY <1>2, <1>3, <1>4, <1>5 DEF StatusOK

\* So does a recorded decision for the approval.
LEMMA DecisionRecorded ==
    ASSUME NEW h \in Seq(ApprovalEntry), NEW x,
           NEW y \in InspectionApprovalStatus,
           NEW d \in InspectionApprovalStatus,
           ApprovalOK(h, x), Reached(h, y, Len(h)), y # d
    PROVE  /\ Append(h, Entry(y, d)) \in Seq(ApprovalEntry)
           /\ ApprovalOK(Append(h, Entry(y, d)), d)
  <1> DEFINE e == Entry(y, d)
             g == Append(h, e)
  <1>1. e \in ApprovalEntry /\ e.fromStatus = y /\ e.toStatus = d
    BY DEF Entry, ApprovalEntry
  <1>2. /\ g \in Seq(ApprovalEntry)
        /\ Len(g) = Len(h) + 1 /\ g[Len(h) + 1] = e
        /\ \A k \in 1 .. Len(h) : g[k] = h[k]
        /\ Len(h) \in Nat
    BY <1>1, AppendEntry
  <1>3. ASSUME NEW z, NEW n \in 0 .. Len(h), Reached(h, z, n)
        PROVE  Reached(g, z, n)
    BY <1>2, <1>3 DEF Reached
  <1>4. ASSUME NEW k \in 1 .. Len(g)
        PROVE  /\ g[k].fromStatus # g[k].toStatus
               /\ Reached(g, g[k].fromStatus, k - 1)
    <2>1. CASE k = Len(h) + 1
      <3>1. Reached(g, y, Len(h))
        BY <1>2, <1>3
      <3>2. QED
        BY <1>1, <1>2, <2>1, <3>1
    <2>2. CASE k \in 1 .. Len(h)
      <3>1. /\ h[k].fromStatus # h[k].toStatus
            /\ Reached(h, h[k].fromStatus, k - 1)
        BY <2>2 DEF ApprovalOK
      <3>2. k - 1 \in 0 .. Len(h)
        BY <1>2, <2>2
      <3>3. QED
        BY <1>2, <1>3, <2>2, <3>1, <3>2
    <2>3. QED
      BY <1>2, <2>1, <2>2
  <1>5. Reached(g, d, Len(g))
    BY <1>1, <1>2 DEF Reached
  <1>6. QED
    BY <1>2, <1>4, <1>5 DEF ApprovalOK

-----------------------------------------------------------------------------
(* Rows and requests *)

LEMMA RowOfExisting ==
    ASSUME TypeOK, NEW i \in Inspections
    PROVE  /\ Exists(i) => inspection[i] \in Row
           /\ inspection[i] \in Row => Exists(i)
           /\ ~Exists(i) => inspection[i] \in {Absent, Gone}
  BY DEF TypeOK, Exists, Row, Absent, Gone, InspectionStatus, NotCreated,
         Deleted

\* The value request[w] has before and after a step changes at w only.
LEMMA ServedRequest ==
    ASSUME TypeOK, NEW w \in Workers, request[w] # NoRequest
    PROVE  /\ request[w] \in InFlight
           /\ request[w].inspection \in Inspections
           /\ request[w].handler \in Handlers
           /\ request[w].seen \in Row
           /\ request[w].sent \in Dto
           /\ request[w].report \in Reports \cup {Null}
  <1>1. request[w] \in InFlight
    BY DEF TypeOK
  <1>2. QED
    BY <1>1 DEF InFlight

\* What a step may do to the histories: nothing is forgotten of an inspection
\* that was there before and still is.
HistoriesGrow ==
    \A i \in Inspections : inspection[i] # Absent =>
        /\ inspection'[i] # Absent
        /\ Exists(i)' =>
               /\ Exists(i)
               /\ \A x : Known(statusHistory[i], x) =>
                             Known(statusHistory'[i], x)
               /\ \A d : Reached(approvalHistory[i], d,
                                 Len(approvalHistory[i])) =>
                             Reached(approvalHistory'[i], d,
                                     Len(approvalHistory'[i]))

\* A request that waits is not disturbed by what others write.
LEMMA WaitingRequest ==
    ASSUME TypeOK, HistoriesGrow, NEW q \in InFlight, RequestOK(q)
    PROVE  RequestOK(q)'
  <1>1. q.inspection \in Inspections
    BY DEF InFlight
  <1>2. PICK i \in Inspections : i = q.inspection
    BY <1>1
  <1>3. inspection[i] # Absent /\ inspection'[i] # Absent
    BY <1>2 DEF RequestOK, HistoriesGrow
  <1>4. Exists(i)' => /\ Known(statusHistory'[i], q.seen.status)
                      /\ Reached(approvalHistory'[i], q.seen.approvalStatus,
                                 Len(approvalHistory'[i]))
    BY <1>2, <1>3 DEF RequestOK, HistoriesGrow
  <1>5. QED
    BY <1>2, <1>3, <1>4 DEF RequestOK, Exists

\* Answering one request leaves the others as they are.
LEMMA AnswerKeepsRequests ==
    ASSUME TypeOK, RequestsOK, HistoriesGrow, NEW w \in Workers, Answer(w)
    PROVE  /\ request' \in [Workers -> InFlight \cup {NoRequest}]
           /\ RequestsOK'
  <1>1. /\ request \in [Workers -> InFlight \cup {NoRequest}]
        /\ request' = [request EXCEPT ![w] = NoRequest]
    BY DEF TypeOK, Answer
  <1>2. \A u \in Workers : request'[u] \in {request[u], NoRequest}
    BY <1>1
  <1>3. ASSUME NEW u \in Workers, request'[u] # NoRequest
        PROVE  RequestOK(request[u])' /\ request'[u] = request[u]
    <2>1. request'[u] = request[u]
      BY <1>2, <1>3
    <2>2. PICK q \in InFlight : q = request[u]
      BY <1>1, <1>3, <2>1
    <2>3. RequestOK(q)
      BY <1>3, <2>1, <2>2 DEF RequestsOK
    <2>4. RequestOK(q)'
      BY <2>3, WaitingRequest
    <2>5. QED
      BY <2>1, <2>2, <2>4 DEF RequestOK, Exists
  <1>4. QED
    BY <1>1, <1>3 DEF RequestsOK

\* A step that changes the row and the histories of inspection i alone, for the
\* better, keeps the invariant.
LEMMA OneInspection ==
    ASSUME Inv, NEW w \in Workers, NEW i \in Inspections, Answer(w),
           Exists(i),
           NEW row \in Row, NEW sh \in Seq(StatusEntry),
           NEW ah \in Seq(ApprovalEntry),
           inspection' = [inspection EXCEPT ![i] = row],
           statusHistory' = [statusHistory EXCEPT ![i] = sh],
           approvalHistory' = [approvalHistory EXCEPT ![i] = ah],
           StatusOK(sh, row.status), ApprovalOK(ah, row.approvalStatus),
           \A x : Known(statusHistory[i], x) => Known(sh, x),
           \A d : Reached(approvalHistory[i], d, Len(approvalHistory[i])) =>
                      Reached(ah, d, Len(ah)),
           report' = report, UNCHANGED <<unflagged, moves>>,
           vehicleStatus' \in [Vehicles -> VehicleStatus]
    PROVE  Inv'
  <1>1. TypeOK /\ ReportsOK /\ RequestsOK
    BY DEF Inv
  <1>2. /\ inspection \in [Inspections -> Row \cup {Absent, Gone}]
        /\ statusHistory \in [Inspections -> Seq(StatusEntry)]
        /\ approvalHistory \in [Inspections -> Seq(ApprovalEntry)]
    BY <1>1 DEF TypeOK
  <1>3. /\ inspection'[i] = row /\ row # Absent /\ Exists(i)'
        /\ statusHistory'[i] = sh /\ approvalHistory'[i] = ah
    BY <1>2 DEF Row, Absent, Exists, InspectionStatus, NotCreated
  <1>4. \A j \in Inspections : j # i =>
            /\ inspection'[j] = inspection[j]
            /\ statusHistory'[j] = statusHistory[j]
            /\ approvalHistory'[j] = approvalHistory[j]
    BY <1>2
  <1>5. HistoriesGrow
    <2>1. ASSUME NEW j \in Inspections, inspection[j] # Absent
          PROVE  /\ inspection'[j] # Absent
                 /\ Exists(j)' =>
                      /\ Exists(j)
                      /\ \A x : Known(statusHistory[j], x) =>
                                    Known(statusHistory'[j], x)
                      /\ \A d : Reached(approvalHistory[j], d,
                                        Len(approvalHistory[j])) =>
                                    Reached(approvalHistory'[j], d,
                                            Len(approvalHistory'[j]))
      <3>1. CASE j = i
        BY <1>3, <3>1
      <3>2. CASE j # i
        BY <1>4, <2>1, <3>2 DEF Exists
      <3>3. QED
        BY <3>1, <3>2
    <2>2. QED
      BY <2>1 DEF HistoriesGrow
  <1>6. /\ request' \in [Workers -> InFlight \cup {NoRequest}]
        /\ RequestsOK'
    BY <1>1, <1>5, AnswerKeepsRequests
  <1>7. TypeOK'
    BY <1>1, <1>2, <1>6 DEF TypeOK
  <1>8. ReportsOK'
    BY <1>1, <1>3, <1>4 DEF ReportsOK, Exists
  <1>9. ASSUME NEW j \in Inspections
        PROVE  HistoryOK(j)' /\ AbsentOK(j)'
    <2>1. CASE j = i
      BY <1>3, <2>1 DEF HistoryOK, AbsentOK
    <2>2. CASE j # i
      BY <1>4, <2>2 DEF Inv, HistoryOK, AbsentOK, Exists
    <2>3. QED
      BY <2>1, <2>2
  <1>10. QED
    BY <1>6, <1>7, <1>8, <1>9 DEF Inv

-----------------------------------------------------------------------------
(* The steps that write *)

LEMMA WriteRowInv ==
    ASSUME Inv, NEW w \in Workers, request[w] # NoRequest,
           request[w].handler \in Writers, WriteRow(w)
    PROVE  Inv'
  <1>1. /\ TypeOK
        /\ request[w] \in InFlight /\ request[w].inspection \in Inspections
        /\ request[w].seen \in Row /\ request[w].sent \in Dto
        /\ RequestOK(request[w])
    BY ServedRequest DEF Inv, RequestsOK
  <1>2. PICK i \in Inspections, seen \in Row, sent \in Dto :
            /\ i = request[w].inspection
            /\ seen = request[w].seen
            /\ sent = request[w].sent
    BY <1>1
  <1>3. /\ Exists(i)
        /\ statusHistory' = [statusHistory EXCEPT
                                ![i] = recorded(@, seen, sent)]
        /\ inspection' = [inspection EXCEPT ![i] = written(@, sent)]
        /\ Answer(w)
        /\ UNCHANGED <<approvalHistory, report, vehicleStatus, unflagged,
                       moves>>
    BY <1>2 DEF WriteRow
  <1> DEFINE now == inspection[i]
             h   == statusHistory[i]
             row == written(now, sent)
             sh  == recorded(h, seen, sent)
  <1>4. /\ now \in Row /\ h \in Seq(StatusEntry)
        /\ approvalHistory[i] \in Seq(ApprovalEntry)
        /\ vehicleStatus \in [Vehicles -> VehicleStatus]
        /\ approvalHistory \in [Inspections -> Seq(ApprovalEntry)]
    BY <1>1, <1>3, RowOfExisting DEF TypeOK
  <1>5. /\ StatusOK(h, now.status)
        /\ ApprovalOK(approvalHistory[i], now.approvalStatus)
    BY <1>3 DEF Inv, HistoryOK
  <1>6. /\ Known(h, seen.status)
        /\ statusChanged(seen, sent) =>
               sent.status \in allowedTransitions(seen.status)
    BY <1>1, <1>2, <1>3 DEF RequestOK
  <1>7. /\ row \in Row
        /\ row.status = sentOrKept(sent.status, now.status)
        /\ row.approvalStatus = now.approvalStatus
    <2>1. /\ sentOrKept(sent.vehicleId, now.vehicleId) \in Vehicles
          /\ sentOrKept(sent.type, now.type) \in Types
          /\ sentOrKept(sent.status, now.status) \in InspectionStatus
          /\ sentOrKept(sent.hasVisibleDamage, now.hasVisibleDamage) \in YesNo
      BY <1>4, InspectionConstants DEF sentOrKept, Row, Dto
    <2>2. QED
      BY <1>4, <2>1 DEF written, Row
  <1>8. /\ sh \in Seq(StatusEntry) /\ StatusOK(sh, row.status)
        /\ \A x : Known(h, x) => Known(sh, x)
    <2>1. CASE statusChanged(seen, sent)
      <3>1. /\ sent.status \in InspectionStatus
            /\ seen.status \in InspectionStatus
            /\ row.status = sent.status
        BY <1>7, <2>1 DEF statusChanged, Dto, Row, sentOrKept
      <3>2. sh = Append(h, Entry(seen.status, sent.status))
        BY <2>1 DEF recorded
      <3>3. Entry(seen.status, sent.status) \in StatusEntry
        BY <3>1 DEF Entry, StatusEntry
      <3>4. sh \in Seq(StatusEntry) /\ StatusOK(sh, sent.status)
        BY <1>4, <1>5, <1>6, <2>1, <3>1, <3>2, StatusRecorded
      <3>5. QED
        BY <1>4, <3>1, <3>2, <3>3, <3>4, NothingForgotten
    <2>2. CASE ~statusChanged(seen, sent)
      <3>1. sh = h /\ row.status \in {now.status, seen.status}
        BY <1>7, <2>2 DEF recorded, statusChanged, sentOrKept
      <3>2. QED
        BY <1>4, <1>5, <1>6, <3>1 DEF StatusOK
    <2>3. QED
      BY <2>1, <2>2
  <1>9. /\ inspection' = [inspection EXCEPT ![i] = row]
        /\ statusHistory' = [statusHistory EXCEPT ![i] = sh]
        /\ approvalHistory' =
               [approvalHistory EXCEPT ![i] = approvalHistory[i]]
    BY <1>3, <1>4
  <1>10. QED
    BY <1>3, <1>4, <1>5, <1>7, <1>8, <1>9, OneInspection

LEMMA RecordDecisionInv ==
    ASSUME Inv, NEW w \in Workers, request[w] # NoRequest,
           request[w].handler \in Deciders, RecordDecision(w),
           vehicleStatus' \in [Vehicles -> VehicleStatus]
    PROVE  Inv'
  <1>1. /\ TypeOK
        /\ request[w] \in InFlight /\ request[w].inspection \in Inspections
        /\ request[w].seen \in Row
        /\ RequestOK(request[w])
    BY ServedRequest DEF Inv, RequestsOK
  <1>2. PICK i \in Inspections, seen \in Row,
             d \in InspectionApprovalStatus :
            /\ i = request[w].inspection
            /\ seen = request[w].seen
            /\ d = decision(request[w].handler)
    BY <1>1 DEF decision, InspectionApprovalStatus
  <1> DEFINE now == inspection[i]
             h   == approvalHistory[i]
             e   == Entry(seen.approvalStatus, d)
             ah  == Append(h, e)
             row == [now EXCEPT !.approvalStatus = d]
  <1>3. /\ Exists(i)
        /\ approvalHistory' = [approvalHistory EXCEPT ![i] = ah]
        /\ inspection' = [inspection EXCEPT ![i].approvalStatus = d]
        /\ Answer(w)
        /\ UNCHANGED <<statusHistory, report, unflagged, moves>>
    BY <1>1, <1>2 DEF RecordDecision, TypeOK
  <1>4. /\ now \in Row /\ h \in Seq(ApprovalEntry)
        /\ statusHistory[i] \in Seq(StatusEntry)
        /\ statusHistory \in [Inspections -> Seq(StatusEntry)]
        /\ inspection \in [Inspections -> Row \cup {Absent, Gone}]
    BY <1>1, <1>3, RowOfExisting DEF TypeOK
  <1>5. /\ StatusOK(statusHistory[i], now.status)
        /\ ApprovalOK(h, now.approvalStatus)
    BY <1>3 DEF Inv, HistoryOK
  <1>6. /\ Reached(h, seen.approvalStatus, Len(h))
        /\ seen.approvalStatus # d
        /\ seen.approvalStatus \in InspectionApprovalStatus
    BY <1>1, <1>2, <1>3 DEF RequestOK, Row
  <1>7. row \in Row /\ row.status = now.status /\ row.approvalStatus = d
    BY <1>4 DEF Row
  <1>8. /\ ah \in Seq(ApprovalEntry) /\ ApprovalOK(ah, row.approvalStatus)
        /\ e \in ApprovalEntry
    BY <1>4, <1>5, <1>6, <1>7, DecisionRecorded DEF Entry, ApprovalEntry
  <1>9. \A x : Reached(h, x, Len(h)) => Reached(ah, x, Len(ah))
    BY <1>4, <1>8, NothingForgotten
  <1>10. /\ inspection' = [inspection EXCEPT ![i] = row]
         /\ statusHistory' = [statusHistory EXCEPT ![i] = statusHistory[i]]
    BY <1>3, <1>4
  <1>11. QED
    BY ZenonT(30), <1>3, <1>4, <1>5, <1>7, <1>8, <1>9, <1>10, OneInspection

LEMMA SetFlagInv ==
    ASSUME Inv, NEW w \in Workers, request[w] # NoRequest,
           NEW flag \in YesNo, SetFlag(w, flag)
    PROVE  Inv'
  <1>1. TypeOK /\ request[w].inspection \in Inspections
    BY ServedRequest DEF Inv
  <1>2. PICK i \in Inspections : i = request[w].inspection
    BY <1>1
  <1> DEFINE row == [inspection[i] EXCEPT !.hasVisibleDamage = flag]
  <1>3. /\ Exists(i)
        /\ inspection' = [inspection EXCEPT ![i].hasVisibleDamage = flag]
        /\ Answer(w)
        /\ UNCHANGED <<statusHistory, approvalHistory, report, vehicleStatus,
                       unflagged, moves>>
    BY <1>2 DEF SetFlag, histories
  <1>4. /\ inspection[i] \in Row
        /\ statusHistory[i] \in Seq(StatusEntry)
        /\ approvalHistory[i] \in Seq(ApprovalEntry)
        /\ statusHistory \in [Inspections -> Seq(StatusEntry)]
        /\ approvalHistory \in [Inspections -> Seq(ApprovalEntry)]
        /\ inspection \in [Inspections -> Row \cup {Absent, Gone}]
        /\ vehicleStatus \in [Vehicles -> VehicleStatus]
    BY <1>1, <1>3, RowOfExisting DEF TypeOK
  <1>5. /\ row \in Row /\ row.status = inspection[i].status
        /\ row.approvalStatus = inspection[i].approvalStatus
    BY <1>4 DEF Row
  <1>6. /\ StatusOK(statusHistory[i], row.status)
        /\ ApprovalOK(approvalHistory[i], row.approvalStatus)
    BY <1>3, <1>5 DEF Inv, HistoryOK
  <1>7. /\ inspection' = [inspection EXCEPT ![i] = row]
        /\ statusHistory' = [statusHistory EXCEPT ![i] = statusHistory[i]]
        /\ approvalHistory' =
               [approvalHistory EXCEPT ![i] = approvalHistory[i]]
    BY <1>3, <1>4
  <1>8. /\ \A x : Known(statusHistory[i], x) => Known(statusHistory[i], x)
        /\ \A d : Reached(approvalHistory[i], d, Len(approvalHistory[i])) =>
                      Reached(approvalHistory[i], d, Len(approvalHistory[i]))
        /\ vehicleStatus' \in [Vehicles -> VehicleStatus]
        /\ report' = report /\ UNCHANGED <<unflagged, moves>>
        /\ Exists(i) /\ Answer(w)
    BY <1>3, <1>4
  <1>9. QED
    BY <1>4, <1>5, <1>6, <1>7, <1>8, OneInspection

LEMMA CommitRemoveInv ==
    ASSUME Inv, NEW w \in Workers, CommitRemove(w)
    PROVE  Inv'
  <1>1. /\ TypeOK /\ ReportsOK /\ RequestsOK
        /\ request[w] # NoRequest /\ request[w].inspection \in Inspections
    BY ServedRequest DEF Inv, CommitRemove, Serving
  <1>2. PICK i \in Inspections : i = request[w].inspection
    BY <1>1
  <1>3. /\ inspection' = [inspection EXCEPT ![i] = Gone]
        /\ statusHistory' = [statusHistory EXCEPT ![i] = <<>>]
        /\ approvalHistory' = [approvalHistory EXCEPT ![i] = <<>>]
        /\ report' = [r \in Reports |->
                         IF report[r] = i THEN Deleted ELSE report[r]]
        /\ Answer(w)
        /\ UNCHANGED <<vehicleStatus, unflagged, moves>>
    BY <1>2 DEF CommitRemove
  <1>4. /\ inspection \in [Inspections -> Row \cup {Absent, Gone}]
        /\ statusHistory \in [Inspections -> Seq(StatusEntry)]
        /\ approvalHistory \in [Inspections -> Seq(ApprovalEntry)]
        /\ report \in [Reports -> Inspections \cup {NotCreated, Deleted}]
    BY <1>1 DEF TypeOK
  <1>5. /\ inspection'[i] = Gone /\ Gone # Absent /\ ~Exists(i)'
    BY <1>3, <1>4 DEF Gone, Absent, Exists, InspectionStatus, Deleted,
                      NotCreated
  <1>6. \A j \in Inspections : j # i =>
            /\ inspection'[j] = inspection[j]
            /\ statusHistory'[j] = statusHistory[j]
            /\ approvalHistory'[j] = approvalHistory[j]
    BY <1>3, <1>4
  <1>7. HistoriesGrow
    BY <1>5, <1>6 DEF HistoriesGrow, Exists
  <1>8. /\ request' \in [Workers -> InFlight \cup {NoRequest}]
        /\ RequestsOK'
    BY <1>1, <1>3, <1>7, AnswerKeepsRequests
  <1>9. TypeOK'
    <2>1. /\ <<>> \in Seq(StatusEntry) /\ <<>> \in Seq(ApprovalEntry)
      OBVIOUS
    <2>2. QED
      BY <1>1, <1>3, <1>4, <1>8, <2>1 DEF TypeOK
  <1>10. ReportsOK'
    <2>1. ASSUME NEW r \in Reports, report'[r] \in Inspections
          PROVE  Exists(report[r])'
      <3>1. report'[r] = IF report[r] = i THEN Deleted ELSE report[r]
        BY <1>3
      <3>2. report[r] # i
        BY <2>1, <3>1, InspectionConstants
      <3>3. QED
        BY <1>1, <1>6, <2>1, <3>1, <3>2 DEF ReportsOK, Exists
    <2>2. QED
      BY <2>1 DEF ReportsOK, Exists
  <1>11. ASSUME NEW j \in Inspections
         PROVE  HistoryOK(j)' /\ AbsentOK(j)'
    <2>1. CASE j = i
      BY <1>5, <2>1 DEF HistoryOK, AbsentOK, Exists
    <2>2. CASE j # i
      BY <1>6, <2>2 DEF Inv, HistoryOK, AbsentOK, Exists
    <2>3. QED
      BY <2>1, <2>2
  <1>12. QED
    BY <1>8, <1>9, <1>10, <1>11 DEF Inv

LEMMA CreateInv ==
    ASSUME Inv, NEW i \in Inspections, Create(i)
    PROVE  Inv'
  <1>1. TypeOK /\ ReportsOK /\ RequestsOK /\ inspection[i] = Absent
    BY DEF Inv, Create
  <1>2. PICK v \in Vehicles, y \in Types, t \in InspectionStatus,
             f \in Flags \cup {"NO"} :
            /\ inspection' = [inspection EXCEPT ![i] =
                  [vehicleId |-> v, type |-> y, status |-> t,
                   approvalStatus |-> "PENDING", hasVisibleDamage |-> f]]
            /\ statusHistory' =
                  [statusHistory EXCEPT ![i] = <<Entry(Null, t)>>]
    BY DEF Create
  <1> DEFINE row == [vehicleId |-> v, type |-> y, status |-> t,
                     approvalStatus |-> "PENDING", hasVisibleDamage |-> f]
             e == Entry(Null, t)
  <1>3. UNCHANGED <<approvalHistory, report, vehicleStatus, request,
                    unflagged, moves>>
    BY DEF Create
  <1>4. /\ inspection \in [Inspections -> Row \cup {Absent, Gone}]
        /\ statusHistory \in [Inspections -> Seq(StatusEntry)]
        /\ approvalHistory \in [Inspections -> Seq(ApprovalEntry)]
    BY <1>1 DEF TypeOK
  <1>5. /\ row \in Row /\ row.status = t /\ row.approvalStatus = "PENDING"
        /\ row # Absent
    BY InspectionConstants DEF Row, YesNo, InspectionApprovalStatus, Absent,
                               InspectionStatus, NotCreated
  <1>6. /\ e \in StatusEntry /\ e.fromStatus = Null /\ e.toStatus = t
        /\ <<e>> \in Seq(StatusEntry) /\ Len(<<e>>) = 1 /\ <<e>>[1] = e
    BY DEF Entry, StatusEntry
  <1>7. StatusOK(<<e>>, t)
    BY <1>6 DEF StatusOK, Known
  <1>8. approvalHistory[i] = <<>> /\ ApprovalOK(approvalHistory[i], "PENDING")
    <2>1. approvalHistory[i] = <<>>
      BY <1>1 DEF Inv, AbsentOK
    <2>2. QED
      BY <2>1 DEF ApprovalOK, Reached
  <1>9. /\ inspection'[i] = row /\ Exists(i)' /\ statusHistory'[i] = <<e>>
    BY <1>2, <1>4, <1>5 DEF Exists
  <1>10. \A j \in Inspections : j # i =>
            /\ inspection'[j] = inspection[j]
            /\ statusHistory'[j] = statusHistory[j]
    BY <1>2, <1>4
  <1>11. HistoriesGrow
    BY <1>1, <1>3, <1>10 DEF HistoriesGrow, Exists
  <1>12. TypeOK'
    BY <1>1, <1>2, <1>3, <1>4, <1>5, <1>6 DEF TypeOK
  <1>13. ReportsOK'
    BY <1>1, <1>3, <1>9, <1>10 DEF ReportsOK, Exists
  <1>14. RequestsOK'
    <2>1. ASSUME NEW w \in Workers, request[w] # NoRequest
          PROVE  RequestOK(request[w])'
      <3>1. PICK q \in InFlight : q = request[w] /\ q = request'[w]
        BY <1>1, <1>3, <2>1 DEF TypeOK
      <3>2. RequestOK(q)'
        BY <1>1, <1>11, <2>1, <3>1, WaitingRequest DEF RequestsOK
      <3>3. QED
        BY <3>1, <3>2 DEF RequestOK, Exists
    <2>2. QED
      BY <1>3, <2>1 DEF RequestsOK
  <1>15. ASSUME NEW j \in Inspections
         PROVE  HistoryOK(j)' /\ AbsentOK(j)'
    <2>1. CASE j = i
      BY <1>3, <1>5, <1>7, <1>8, <1>9, <2>1 DEF HistoryOK, AbsentOK
    <2>2. CASE j # i
      BY <1>3, <1>10, <2>2 DEF Inv, HistoryOK, AbsentOK, Exists
    <2>3. QED
      BY <2>1, <2>2
  <1>16. QED
    BY <1>12, <1>13, <1>14, <1>15 DEF Inv

-----------------------------------------------------------------------------
(* The steps that leave the inspections and their histories alone *)

LEMMA RowsKept ==
    ASSUME Inv, UNCHANGED <<inspection, histories>>
    PROVE  /\ HistoriesGrow
           /\ \A i \in Inspections : HistoryOK(i)' /\ AbsentOK(i)'
  BY DEF Inv, HistoriesGrow, HistoryOK, AbsentOK, Exists, histories

\* One request starts or goes on with what is known of it, the rest wait.
LEMMA OneRequest ==
    ASSUME Inv, UNCHANGED <<inspection, histories>>,
           NEW w \in Workers, NEW q \in InFlight, RequestOK(q),
           request' = [request EXCEPT ![w] = q]
    PROVE  /\ request' \in [Workers -> InFlight \cup {NoRequest}]
           /\ RequestsOK'
  <1>1. /\ TypeOK /\ RequestsOK /\ HistoriesGrow
        /\ request \in [Workers -> InFlight \cup {NoRequest}]
    BY RowsKept DEF Inv, TypeOK
  <1>2. request' \in [Workers -> InFlight \cup {NoRequest}]
    BY <1>1
  <1>3. ASSUME NEW u \in Workers, request'[u] # NoRequest
        PROVE  RequestOK(request[u])'
    <2>1. PICK p \in InFlight : p = request'[u]
      BY <1>2, <1>3
    <2>2. RequestOK(p)
      BY <1>1, <1>3, <2>1 DEF RequestsOK
    <2>3. RequestOK(p)'
      BY <1>1, <2>2, WaitingRequest
    <2>4. QED
      BY <2>1, <2>3 DEF RequestOK, Exists
  <1>4. QED
    BY <1>2, <1>3 DEF RequestsOK

LEMMA BeginInv ==
    ASSUME Inv, NEW w \in Workers, NEW i \in Inspections,
           NEW h \in Handlers, NEW sent \in Dto, Begin(w, h, i, sent),
           h \in Writers /\ statusChanged(inspection[i], sent) =>
               sent.status \in allowedTransitions(inspection[i].status),
           h \in Deciders => mayDecide(h, inspection[i])
    PROVE  Inv'
  <1> DEFINE q == [step |-> "writing", handler |-> h, inspection |-> i,
                   seen |-> inspection[i], sent |-> sent, report |-> Null]
  <1>1. /\ Exists(i) /\ inspection[i] \in Row
        /\ request' = [request EXCEPT ![w] = q]
        /\ UNCHANGED <<inspection, histories, report, vehicleStatus,
                       unflagged, moves>>
    BY RowOfExisting DEF Begin, database, Inv
  <1>2. q \in InFlight
    BY <1>1 DEF InFlight
  <1>3. /\ inspection[i] # Absent
        /\ Known(statusHistory[i], inspection[i].status)
        /\ Reached(approvalHistory[i], inspection[i].approvalStatus,
                   Len(approvalHistory[i]))
    <2>1. inspection[i] # Absent
      BY <1>1 DEF Exists, Absent, InspectionStatus, NotCreated
    <2>2. HistoryOK(i)
      BY DEF Inv
    <2>3. QED
      BY <1>1, <2>1, <2>2 DEF HistoryOK, StatusOK, ApprovalOK
  <1>4. RequestOK(q)
    BY <1>3 DEF RequestOK, mayDecide
  <1>5. /\ request' \in [Workers -> InFlight \cup {NoRequest}]
        /\ RequestsOK'
    BY <1>1, <1>2, <1>4, OneRequest
  <1>6. \A j \in Inspections : HistoryOK(j)' /\ AbsentOK(j)'
    BY <1>1, RowsKept
  <1>7. TypeOK' /\ ReportsOK'
    BY <1>1, <1>5 DEF Inv, TypeOK, ReportsOK, Exists, histories
  <1>8. QED
    BY <1>5, <1>6, <1>7 DEF Inv

\* The requests about damage reports and the answers that write nothing.
LEMMA ReportStepInv ==
    ASSUME Inv, UNCHANGED <<inspection, histories, vehicleStatus, moves>>,
           unflagged' \subseteq Reports,
           report' \in [Reports -> Inspections \cup {NotCreated, Deleted}],
           ReportsOK',
           request' \in [Workers -> InFlight \cup {NoRequest}],
           RequestsOK'
    PROVE  Inv'
  <1>1. \A j \in Inspections : HistoryOK(j)' /\ AbsentOK(j)'
    BY RowsKept
  <1>2. TypeOK'
    BY DEF Inv, TypeOK, histories
  <1>3. QED
    BY <1>1, <1>2 DEF Inv

\* Going on to the next step changes nothing that is known of a request.
LEMMA ProceedRequests ==
    ASSUME Inv, UNCHANGED <<inspection, histories>>, NEW w \in Workers,
           request[w] # NoRequest,
           NEW step \in {"counting", "clearing"}, Proceed(w, step)
    PROVE  /\ request' \in [Workers -> InFlight \cup {NoRequest}]
           /\ RequestsOK'
  <1>1. request[w] \in InFlight /\ RequestOK(request[w])
    BY ServedRequest DEF Inv, RequestsOK
  <1> DEFINE q == [request[w] EXCEPT !.step = step]
  <1>2. /\ q \in InFlight
        /\ q.inspection = request[w].inspection /\ q.seen = request[w].seen
        /\ q.sent = request[w].sent /\ q.handler = request[w].handler
    BY <1>1 DEF InFlight
  <1>3. RequestOK(q)
    BY <1>1, <1>2 DEF RequestOK
  <1>4. request' = [request EXCEPT ![w] = q]
    BY DEF Proceed, Inv, TypeOK
  <1>5. QED
    BY <1>2, <1>3, <1>4, OneRequest

LEMMA AnswerRequests ==
    ASSUME Inv, UNCHANGED <<inspection, histories>>, NEW w \in Workers,
           Answer(w)
    PROVE  /\ request' \in [Workers -> InFlight \cup {NoRequest}]
           /\ RequestsOK'
  BY RowsKept, AnswerKeepsRequests DEF Inv

LEMMA InsertDamageReportInv ==
    ASSUME Inv, NEW w \in Workers, NEW r \in Reports, InsertDamageReport(w, r)
    PROVE  Inv'
  <1>1. /\ request[w] \in InFlight /\ RequestOK(request[w])
        /\ request[w].inspection \in Inspections
        /\ Exists(request[w].inspection)
        /\ report' = [report EXCEPT ![r] = request[w].inspection]
        /\ UNCHANGED <<inspection, histories, vehicleStatus, unflagged, moves>>
    BY ServedRequest DEF Inv, InsertDamageReport, Serving, RequestsOK
  <1> DEFINE q == [request[w] EXCEPT !.step = "flagging", !.report = r]
  <1>2. /\ q \in InFlight
        /\ q.inspection = request[w].inspection /\ q.seen = request[w].seen
        /\ q.sent = request[w].sent /\ q.handler = request[w].handler
        /\ q.report = r
    BY <1>1 DEF InFlight
  <1>3. RequestOK(q)
    BY <1>1, <1>2 DEF RequestOK
  <1>4. request' = [request EXCEPT ![w] = q]
    BY DEF InsertDamageReport, Inv, TypeOK
  <1>5. /\ report' \in [Reports -> Inspections \cup {NotCreated, Deleted}]
        /\ ReportsOK' /\ unflagged' \subseteq Reports
    BY <1>1 DEF Inv, TypeOK, ReportsOK, Exists
  <1>6. QED
    BY <1>1, <1>2, <1>3, <1>4, <1>5, OneRequest, ReportStepInv

LEMMA DeleteDamageReportInv ==
    ASSUME Inv, NEW w \in Workers, DeleteDamageReport(w)
    PROVE  Inv'
  <1>1. /\ request[w] # NoRequest
        /\ report' = [report EXCEPT ![request[w].report] = Deleted]
        /\ Proceed(w, "counting")
        /\ UNCHANGED <<inspection, histories, vehicleStatus, unflagged, moves>>
    BY DEF DeleteDamageReport, Serving
  <1>2. /\ report' \in [Reports -> Inspections \cup {NotCreated, Deleted}]
        /\ ReportsOK' /\ unflagged' \subseteq Reports
    BY <1>1, InspectionConstants DEF Inv, TypeOK, ReportsOK, Exists
  <1>3. QED
    BY <1>1, <1>2, ProceedRequests, ReportStepInv

LEMMA CountRemainingReportsInv ==
    ASSUME Inv, NEW w \in Workers, CountRemainingReports(w)
    PROVE  Inv'
  <1>1. /\ request[w] # NoRequest
        /\ Proceed(w, "clearing") \/ Answer(w)
        /\ UNCHANGED <<inspection, histories, report, vehicleStatus,
                       unflagged, moves>>
    BY DEF CountRemainingReports, Serving, database
  <1>2. /\ report' \in [Reports -> Inspections \cup {NotCreated, Deleted}]
        /\ ReportsOK' /\ unflagged' \subseteq Reports
    BY <1>1 DEF Inv, TypeOK, ReportsOK, Exists
  <1>3. QED
    BY <1>1, <1>2, ProceedRequests, AnswerRequests, ReportStepInv

LEMMA FailInv ==
    ASSUME Inv, NEW w \in Workers, Fail(w)
    PROVE  Inv'
  <1>1. /\ Answer(w) /\ request[w] # NoRequest
        /\ UNCHANGED <<inspection, histories, report, vehicleStatus, moves>>
    BY DEF Fail, database
  <1>2. RequestOK(request[w])
    BY <1>1 DEF Inv, RequestsOK
  <1>3. unflagged' \subseteq Reports
    BY <1>2 DEF Inv, TypeOK, Fail, Serving, RequestOK
  <1>4. /\ report' \in [Reports -> Inspections \cup {NotCreated, Deleted}]
        /\ ReportsOK'
    BY <1>1 DEF Inv, TypeOK, ReportsOK, Exists
  <1>5. QED
    BY <1>1, <1>3, <1>4, AnswerRequests, ReportStepInv

LEMMA BeginRemoveDamageReportInv ==
    ASSUME Inv, NEW w \in Workers, NEW r \in Reports,
           BeginRemoveDamageReport(w, r)
    PROVE  Inv'
  <1>1. PICK i \in Inspections : i = report[r]
    BY DEF BeginRemoveDamageReport
  <1> DEFINE q == [step |-> "writing", handler |-> "removeDamageReport",
                   inspection |-> i, seen |-> inspection[i],
                   sent |-> NothingSent, report |-> r]
  <1>2. /\ request' = [request EXCEPT ![w] = q]
        /\ UNCHANGED <<inspection, histories, report, vehicleStatus,
                       unflagged, moves>>
        /\ Exists(i) /\ inspection[i] \in Row /\ inspection[i] # Absent
    <2>1. Exists(i)
      BY <1>1 DEF Inv, ReportsOK
    <2>2. inspection[i] \in Row /\ inspection[i] # Absent
      BY <2>1, RowOfExisting
         DEF Inv, Exists, Absent, InspectionStatus, NotCreated
    <2>3. QED
      BY <1>1, <2>1, <2>2 DEF BeginRemoveDamageReport, database
  <1>3. q \in InFlight
    BY <1>2 DEF InFlight, Handlers, NothingSent, Dto
  <1>4. RequestOK(q)
    <2>1. HistoryOK(i)
      BY DEF Inv
    <2>2. QED
      BY <1>2, <2>1 DEF RequestOK, HistoryOK, StatusOK, ApprovalOK, Writers,
                        Deciders
  <1>5. /\ report' \in [Reports -> Inspections \cup {NotCreated, Deleted}]
        /\ ReportsOK' /\ unflagged' \subseteq Reports
    BY <1>2 DEF Inv, TypeOK, ReportsOK, Exists
  <1>6. QED
    BY <1>2, <1>3, <1>4, <1>5, OneRequest, ReportStepInv

LEMMA MoveVehicleInv ==
    ASSUME Inv, NEW v \in Vehicles, NEW to \in VehicleStatus,
           MoveVehicle(v, to)
    PROVE  Inv'
  <1>1. /\ vehicleStatus' = [vehicleStatus EXCEPT ![v] = to]
        /\ moves' = moves + 1
        /\ UNCHANGED <<inspection, histories, report, request, unflagged>>
    BY DEF MoveVehicle
  <1>2. TypeOK' /\ ReportsOK' /\ RequestsOK'
    BY <1>1 DEF Inv, TypeOK, histories, ReportsOK, RequestsOK, RequestOK,
                Exists
  <1>3. \A j \in Inspections : HistoryOK(j)' /\ AbsentOK(j)'
    BY <1>1, RowsKept
  <1>4. QED
    BY <1>2, <1>3 DEF Inv

-----------------------------------------------------------------------------
(* The invariant *)

LEMMA ArriveInv ==
    ASSUME Inv, NEW w \in Workers, NEW i \in Inspections, Arrive(w, i)
    PROVE  Inv'
  <1>1. ASSUME NEW sent \in Dto, BeginUpdate(w, i, sent)
        PROVE  Inv'
    BY <1>1, BeginInv DEF BeginUpdate, Handlers, Deciders
  <1>2. ASSUME NEW t \in InspectionStatus, BeginChangeStatus(w, i, t)
        PROVE  Inv'
    <2> DEFINE sent == [NothingSent EXCEPT !.status = t]
    <2>1. sent \in Dto /\ sent.status = t
      BY DEF NothingSent, Dto
    <2>2. QED
      BY <1>2, <2>1, BeginInv DEF BeginChangeStatus, Handlers, Deciders
  <1>3. NothingSent \in Dto
    BY DEF NothingSent, Dto
  <1>4. ASSUME NEW h \in Deciders, BeginDecision(w, h, i)
        PROVE  Inv'
    BY <1>3, <1>4, BeginInv DEF BeginDecision, Handlers, Deciders, Writers
  <1>5. ASSUME NEW h \in {"remove", "createDamageReport"},
               Begin(w, h, i, NothingSent)
        PROVE  Inv'
    BY <1>3, <1>5, BeginInv DEF Handlers, Deciders, Writers
  <1>6. QED
    BY <1>1, <1>2, <1>4, <1>5
       DEF Arrive, BeginRemove, BeginCreateDamageReport, Deciders

LEMMA ServeInv ==
    ASSUME Inv, NEW w \in Workers, Serve(w)
    PROVE  Inv'
  <1>1. CASE CommitUpdate(w) \/ CommitChangeStatus(w)
    BY <1>1, WriteRowInv
       DEF CommitUpdate, CommitChangeStatus, Serving, Writers
  <1>2. CASE CommitApprove(w)
    <2>1. vehicleStatus' \in [Vehicles -> VehicleStatus]
      <3>1. \A y, s : s \in VehicleStatus => advanced(y, s) \in VehicleStatus
        BY DEF advanced, VehicleStatus
      <3>2. QED
        BY <1>2, <3>1 DEF CommitApprove, Inv, TypeOK
    <2>2. QED
      BY <1>2, <2>1, RecordDecisionInv DEF CommitApprove, Serving, Deciders
  <1>3. CASE CommitReject(w) \/ CommitRevokeApproval(w)
    BY <1>3, RecordDecisionInv
       DEF CommitReject, CommitRevokeApproval, Serving, Deciders, Inv, TypeOK
  <1>4. CASE CommitRemove(w)
    BY <1>4, CommitRemoveInv
  <1>5. CASE \E r \in Reports : InsertDamageReport(w, r)
    BY <1>5, InsertDamageReportInv
  <1>6. CASE FlagDamage(w) \/ ClearFlag(w)
    BY <1>6, SetFlagInv DEF FlagDamage, ClearFlag, Serving, YesNo
  <1>7. CASE DeleteDamageReport(w) \/ CountRemainingReports(w) \/ Fail(w)
    BY <1>7, DeleteDamageReportInv, CountRemainingReportsInv, FailInv
  <1>8. QED
    BY <1>1, <1>2, <1>3, <1>4, <1>5, <1>6, <1>7 DEF Serve

LEMMA InitInv == Init => Inv
  <1> SUFFICES ASSUME Init PROVE Inv
    OBVIOUS
  <1>1. \A i \in Inspections : ~Exists(i)
    BY DEF Init, Exists, Absent, InspectionStatus, NotCreated
  <1>2. <<>> \in Seq(StatusEntry) /\ <<>> \in Seq(ApprovalEntry)
    OBVIOUS
  <1>3. TypeOK
    BY <1>2 DEF Init, TypeOK, VehicleStatus
  <1>4. QED
    BY <1>1, <1>3, InspectionConstants
       DEF Init, Inv, ReportsOK, RequestsOK, HistoryOK, AbsentOK

LEMMA NextInv == Inv /\ [Next]_vars => Inv'
  <1> SUFFICES ASSUME Inv, [Next]_vars PROVE Inv'
    OBVIOUS
  <1>1. CASE UNCHANGED vars
    <2>1. UNCHANGED <<inspection, statusHistory, approvalHistory, report,
                      vehicleStatus, request, unflagged, moves>>
      BY <1>1 DEF vars, database, histories
    <2>2. TypeOK' /\ ReportsOK' /\ RequestsOK'
      BY <2>1 DEF Inv, TypeOK, ReportsOK, RequestsOK, RequestOK, Exists
    <2>3. \A j \in Inspections : HistoryOK(j)' /\ AbsentOK(j)'
      BY <2>1, RowsKept DEF histories
    <2>4. QED
      BY <2>2, <2>3 DEF Inv
  <1>2. CASE Next
    BY <1>2, CreateInv, ArriveInv, BeginRemoveDamageReportInv, ServeInv,
       MoveVehicleInv DEF Next
  <1>3. QED
    BY <1>1, <1>2

\* Type correctness of the inspections, for any number of inspections,
\* vehicles, reports and overlapping requests.
THEOREM InspectionsTyped == Spec => []TypeOK
  <1>1. Inv => TypeOK
    BY DEF Inv
  <1>2. QED
    BY <1>1, InitInv, NextInv, PTL DEF Spec

\* However many requests overlap, an inspection is in a status that its
\* history accounts for.
THEOREM StatusAccountedForAlways == Spec => []StatusAccountedFor
  <1>1. Inv => StatusAccountedFor
    BY DEF Inv, HistoryOK, StatusOK, Known, StatusAccountedFor
  <1>2. QED
    BY <1>1, InitInv, NextInv, PTL DEF Spec

\* However many requests overlap, no inspection is approved or rejected
\* without an entry of its approval history.
THEOREM ApprovalAccountedForAlways == Spec => []ApprovalAccountedFor
  <1>1. Inv => ApprovalAccountedFor
    BY DEF Inv, HistoryOK, ApprovalOK, Reached, ApprovalAccountedFor
  <1>2. QED
    BY <1>1, InitInv, NextInv, PTL DEF Spec

-----------------------------------------------------------------------------
(* Every stage a vehicle came forward is paid for *)

NoneGone == \A i \in Inspections : inspection[i] # Gone

\* The recorded approvals are counted, so there are finitely many of them.
Paid == IsFiniteSet(approvals) /\ NoFreeAdvance

LEMMA InApprovals ==
    ASSUME NEW x
    PROVE  x \in approvals <=>
               \E i \in Inspections : \E k \in 1 .. Len(approvalHistory[i]) :
                   /\ x = <<i, k>>
                   /\ approvalHistory[i][k].toStatus = "APPROVED"
  <1> DEFINE K(i) == {k \in 1 .. Len(approvalHistory[i]) :
                         approvalHistory[i][k].toStatus = "APPROVED"}
  <1>1. approvals = UNION {{i} \X K(i) : i \in Inspections}
    BY DEF approvals
  <1>2. x \in approvals <=> \E i \in Inspections : x \in {i} \X K(i)
    BY <1>1
  <1>3. \A i : x \in {i} \X K(i) <=> \E k \in K(i) : x = <<i, k>>
    OBVIOUS
  <1>4. QED
    BY <1>2, <1>3

LEMMA StagesFinite ==
    IsFiniteSet(stagesReached) /\ IsFiniteSet(stagesReached')
  <1>1. IsFiniteSet(Vehicles \X (1 .. 3))
    <2>1. IsFiniteSet(1 .. 3)
      <3>1. /\ 1 .. 3 \in SUBSET Nat
            /\ \A n \in 1 .. 3 : n <= 3
        OBVIOUS
      <3>2. \A S \in SUBSET Nat : (\A n \in S : n <= 3) => IsFiniteSet(S)
        BY FS_BoundedSetOfNaturals
      <3>3. QED
        BY <3>1, <3>2, Zenon
    <2>2. IsFiniteSet(Vehicles)
      BY InspectionConstants
    <2> DEFINE stages == 1 .. 3
    <2> HIDE DEF stages
    <2>3. IsFiniteSet(Vehicles \X stages)
      BY <2>1, <2>2, FS_Product DEF stages
    <2>4. QED
      BY <2>3 DEF stages
  <1>2. /\ stagesReached \subseteq Vehicles \X (1 .. 3)
        /\ stagesReached' \subseteq Vehicles \X (1 .. 3)
    BY DEF stagesReached
  <1>3. QED
    BY <1>1, <1>2, FS_Subset

\* A vehicle that moves one stage on at most adds one stage at most.
LEMMA OneStage ==
    ASSUME TypeOK, NEW v \in Vehicles, NEW to \in VehicleStatus,
           stage(to) <= stage(vehicleStatus[v]) + 1,
           vehicleStatus' = [vehicleStatus EXCEPT ![v] = to]
    PROVE  Cardinality(stagesReached') <= Cardinality(stagesReached) + 1
  <1> DEFINE n   == stage(vehicleStatus[v]) + 1
             S   == stagesReached \cup {<<v, n>>}
  <1>1. \A x \in VehicleStatus : stage(x) \in 0 .. 3
    BY DEF VehicleStatus, stage
  <1>2. vehicleStatus \in [Vehicles -> VehicleStatus] /\ n \in Nat
    BY <1>1 DEF TypeOK
  <1>3. stagesReached' \subseteq S
    <2>1. ASSUME NEW p \in stagesReached', p \notin stagesReached
          PROVE  p = <<v, n>>
      <3>1. PICK u \in Vehicles, m \in 1 .. 3 : p = <<u, m>>
        BY DEF stagesReached
      <3>2. m <= stage(vehicleStatus'[u]) /\ ~(m <= stage(vehicleStatus[u]))
        BY <2>1, <3>1 DEF stagesReached
      <3>3. u = v
        BY <1>2, <3>2
      <3>4. m = n
        BY <1>1, <1>2, <3>2, <3>3
      <3>5. QED
        BY <3>1, <3>3, <3>4
    <2>2. QED
      BY <2>1
  <1>4. /\ IsFiniteSet(S)
        /\ Cardinality(S) <= Cardinality(stagesReached) + 1
        /\ Cardinality(stagesReached) \in Nat
    <2>1. IsFiniteSet(stagesReached) /\ Cardinality(stagesReached) \in Nat
      BY StagesFinite, FS_CardinalityType
    <2>2. /\ IsFiniteSet(S)
          /\ \/ Cardinality(S) = Cardinality(stagesReached)
             \/ Cardinality(S) = Cardinality(stagesReached) + 1
      BY <2>1, FS_AddElement
    <2>3. QED
      BY <2>1, <2>2
  <1>5. Cardinality(stagesReached') <= Cardinality(S)
    BY <1>3, <1>4, FS_Subset
  <1>6. /\ Cardinality(S) \in Nat /\ Cardinality(stagesReached') \in Nat
    BY <1>4, StagesFinite, FS_CardinalityType
  <1>7. QED
    BY <1>4, <1>5, <1>6

\* A decision adds an approval when it is one.
LEMMA OneApproval ==
    ASSUME TypeOK, IsFiniteSet(approvals),
           NEW i \in Inspections, NEW e \in ApprovalEntry,
           approvalHistory' =
               [approvalHistory EXCEPT ![i] = Append(approvalHistory[i], e)]
    PROVE  /\ IsFiniteSet(approvals')
           /\ Cardinality(approvals') =
                  IF e.toStatus = "APPROVED" THEN Cardinality(approvals) + 1
                                             ELSE Cardinality(approvals)
  <1> DEFINE h == approvalHistory[i]
             n == Len(h) + 1
  <1>1. h \in Seq(ApprovalEntry)
    BY DEF TypeOK
  <1>2. /\ Len(Append(h, e)) = n /\ Append(h, e)[n] = e
        /\ \A k \in 1 .. Len(h) : Append(h, e)[k] = h[k]
        /\ Len(h) \in Nat
    BY <1>1, AppendEntry
  <1>3. /\ approvalHistory'[i] = Append(h, e)
        /\ \A j \in Inspections : j # i =>
               approvalHistory'[j] = approvalHistory[j]
    BY DEF TypeOK
  <1>4. \A j \in Inspections : \A k :
            (/\ k \in 1 .. Len(approvalHistory'[j])
             /\ approvalHistory'[j][k].toStatus = "APPROVED")
            <=> \/ /\ k \in 1 .. Len(approvalHistory[j])
                   /\ approvalHistory[j][k].toStatus = "APPROVED"
                \/ j = i /\ k = n /\ e.toStatus = "APPROVED"
    <2> SUFFICES ASSUME NEW j \in Inspections, NEW k
                 PROVE  (/\ k \in 1 .. Len(approvalHistory'[j])
                         /\ approvalHistory'[j][k].toStatus = "APPROVED")
                        <=> \/ /\ k \in 1 .. Len(approvalHistory[j])
                               /\ approvalHistory[j][k].toStatus = "APPROVED"
                            \/ j = i /\ k = n /\ e.toStatus = "APPROVED"
      OBVIOUS
    <2>1. CASE j = i
      BY <1>2, <1>3, <2>1
    <2>2. CASE j # i
      BY <1>3, <2>2
    <2>3. QED
      BY <2>1, <2>2
  <1>5. approvals' = approvals \cup
            (IF e.toStatus = "APPROVED" THEN {<<i, n>>} ELSE {})
    <2>1. ASSUME NEW x
          PROVE  x \in approvals' <=>
                     \E j \in Inspections :
                         \E k \in 1 .. Len(approvalHistory'[j]) :
                             /\ x = <<j, k>>
                             /\ approvalHistory'[j][k].toStatus = "APPROVED"
      <3> DEFINE K(j) == {k \in 1 .. Len(approvalHistory'[j]) :
                             approvalHistory'[j][k].toStatus = "APPROVED"}
      <3>1. approvals' = UNION {{j} \X K(j) : j \in Inspections}
        BY DEF approvals
      <3>2. x \in approvals' <=> \E j \in Inspections : x \in {j} \X K(j)
        BY <3>1
      <3>3. \A j : x \in {j} \X K(j) <=> \E k \in K(j) : x = <<j, k>>
        OBVIOUS
      <3>4. QED
        BY <3>2, <3>3
    <2>2. ASSUME NEW x
          PROVE  x \in approvals' <=>
                     \/ x \in approvals
                     \/ x = <<i, n>> /\ e.toStatus = "APPROVED"
      BY <1>4, <2>1, InApprovals
    <2>3. QED
      BY <2>2
  <1>6. <<i, n>> \notin approvals
    <2>1. SUFFICES ASSUME <<i, n>> \in approvals PROVE FALSE
      OBVIOUS
    <2>2. PICK j \in Inspections :
              \E k \in 1 .. Len(approvalHistory[j]) : <<i, n>> = <<j, k>>
      BY <2>1, InApprovals
    <2>3. n \in 1 .. Len(h)
      BY <2>2
    <2>4. QED
      BY <1>2, <2>3
  <1>7. CASE e.toStatus = "APPROVED"
    BY <1>5, <1>6, <1>7, FS_AddElement
  <1>8. CASE e.toStatus # "APPROVED"
    BY <1>5, <1>8
  <1>9. QED
    BY <1>7, <1>8

\* Only an inspection that exists is written, so a deleted one stays deleted.
LEMMA GoneStays ==
    ASSUME TypeOK, [Next]_vars, NoneGone'
    PROVE  NoneGone
  <1> SUFFICES ASSUME NEW i \in Inspections, inspection[i] = Gone
               PROVE  inspection'[i] = Gone
    BY DEF NoneGone
  <1> USE DEF TypeOK
  <1>1. ~Exists(i) /\ Gone # Absent
    BY DEF Exists, Gone, Absent, InspectionStatus, Deleted, NotCreated
  <1>2. ASSUME NEW j \in Inspections, Create(j)
        PROVE  inspection'[i] = Gone
    BY <1>1, <1>2 DEF Create
  <1>3. ASSUME NEW w \in Workers, Serve(w)
        PROVE  inspection'[i] = Gone
    <2>1. request[w] # NoRequest
      BY <1>3 DEF Serve, CommitUpdate, CommitChangeStatus, CommitApprove,
         CommitReject, CommitRevokeApproval, CommitRemove, InsertDamageReport,
         FlagDamage, DeleteDamageReport, CountRemainingReports, ClearFlag,
         Fail, Serving
    <2>2. PICK j \in Inspections : j = request[w].inspection
      BY <2>1, ServedRequest
    <2>3. \/ UNCHANGED inspection
          \/ /\ Exists(j)
             /\ \E row : inspection' = [inspection EXCEPT ![j] = row]
      BY <1>3, <2>2 DEF Serve, CommitUpdate, CommitChangeStatus,
         CommitApprove, CommitReject, CommitRevokeApproval, CommitRemove,
         InsertDamageReport, FlagDamage, DeleteDamageReport,
         CountRemainingReports, ClearFlag, Fail, WriteRow, RecordDecision,
         SetFlag, database
    <2>4. QED
      BY <1>1, <2>3
  <1>4. ASSUME NEW w \in Workers, NEW j \in Inspections, Arrive(w, j)
        PROVE  UNCHANGED inspection
    BY <1>4 DEF Arrive, BeginUpdate, BeginChangeStatus, BeginDecision,
                BeginRemove, BeginCreateDamageReport, Begin, database
  <1>5. ASSUME NEW w \in Workers, NEW r \in Reports,
               BeginRemoveDamageReport(w, r)
        PROVE  UNCHANGED inspection
    BY <1>5 DEF BeginRemoveDamageReport, database
  <1>6. ASSUME NEW v \in Vehicles, NEW to \in VehicleStatus, MoveVehicle(v, to)
        PROVE  UNCHANGED inspection
    BY <1>6 DEF MoveVehicle
  <1>7. UNCHANGED vars => UNCHANGED inspection
    BY DEF vars, database
  <1>8. QED
    BY <1>2, <1>3, <1>4, <1>5, <1>6, <1>7 DEF Next

LEMMA PaidKept ==
    ASSUME Paid, UNCHANGED <<approvalHistory, vehicleStatus, moves>>,
           NoneGone' => NoneGone
    PROVE  Paid'
  <1>1. approvals' = approvals /\ stagesReached' = stagesReached
    BY DEF approvals, stagesReached
  <1>2. QED
    BY <1>1 DEF Paid, NoFreeAdvance, NoneGone

\* A decision: approving pays for the stage it gives.
LEMMA DecisionPays ==
    ASSUME Inv, Paid, NoneGone' => NoneGone, NEW w \in Workers,
           CommitApprove(w) \/ CommitReject(w) \/ CommitRevokeApproval(w)
    PROVE  Paid'
  <1>1. /\ TypeOK /\ request[w] # NoRequest
        /\ request[w].handler \in Deciders
        /\ RecordDecision(w)
    BY DEF Inv, CommitApprove, CommitReject, CommitRevokeApproval, Serving,
           Deciders
  <1>2. PICK i \in Inspections, seen \in Row, d \in InspectionApprovalStatus :
            /\ i = request[w].inspection
            /\ seen = request[w].seen
            /\ d = decision(request[w].handler)
    BY <1>1, ServedRequest DEF decision, InspectionApprovalStatus
  <1> DEFINE e == Entry(seen.approvalStatus, d)
  <1>3. /\ e \in ApprovalEntry /\ e.toStatus = d
        /\ approvalHistory' =
               [approvalHistory EXCEPT ![i] = Append(approvalHistory[i], e)]
        /\ moves' = moves
    BY <1>1, <1>2 DEF Entry, ApprovalEntry, Row, RecordDecision, TypeOK
  <1>4. /\ IsFiniteSet(approvals) /\ IsFiniteSet(approvals')
        /\ Cardinality(approvals') =
               IF d = "APPROVED" THEN Cardinality(approvals) + 1
                                 ELSE Cardinality(approvals)
    BY <1>1, <1>3, OneApproval DEF Paid
  <1>5. /\ Cardinality(approvals) \in Nat /\ Cardinality(approvals') \in Nat
        /\ Cardinality(stagesReached) \in Nat
        /\ Cardinality(stagesReached') \in Nat
        /\ moves \in Nat
    BY <1>1, <1>4, StagesFinite, FS_CardinalityType DEF TypeOK
  <1>6. Cardinality(stagesReached') <=
            IF d = "APPROVED" THEN Cardinality(stagesReached) + 1
                              ELSE Cardinality(stagesReached)
    <2>1. CASE CommitApprove(w)
      <3>1. d = "APPROVED"
        BY <1>2, <2>1 DEF CommitApprove, Serving, decision
      <3>2. PICK v \in Vehicles : v = seen.vehicleId
        BY DEF Row
      <3> DEFINE to == advanced(seen.type, vehicleStatus[v])
      <3>3. vehicleStatus[v] \in VehicleStatus
        BY <1>1 DEF TypeOK
      <3>4. to \in VehicleStatus /\ stage(to) <= stage(vehicleStatus[v]) + 1
        BY <3>3 DEF advanced, VehicleStatus, stage
      <3>5. vehicleStatus' = [vehicleStatus EXCEPT ![v] = to]
        BY <1>1, <1>2, <2>1, <3>2 DEF CommitApprove, TypeOK
      <3>6. QED
        BY <1>1, <3>1, <3>4, <3>5, OneStage
    <2>2. CASE CommitReject(w) \/ CommitRevokeApproval(w)
      <3>1. stagesReached' = stagesReached
        BY <2>2 DEF CommitReject, CommitRevokeApproval, stagesReached
      <3>2. QED
        BY <1>5, <3>1
    <2>3. QED
      BY <2>1, <2>2
  <1>7. NoneGone => Cardinality(stagesReached) <= Cardinality(approvals) + moves
    BY DEF Paid, NoFreeAdvance, NoneGone
  <1>8. NoneGone' => Cardinality(stagesReached') <= Cardinality(approvals') + moves'
    BY <1>3, <1>4, <1>5, <1>6, <1>7
  <1>9. QED
    BY <1>4, <1>8 DEF Paid, NoFreeAdvance, NoneGone

\* A move of the other endpoints is counted.
LEMMA MovePays ==
    ASSUME Inv, Paid, NoneGone' => NoneGone, NEW v \in Vehicles,
           NEW to \in VehicleStatus, MoveVehicle(v, to)
    PROVE  Paid'
  <1>1. /\ TypeOK /\ moves' = moves + 1 /\ moves \in Nat
        /\ stage(to) <= stage(vehicleStatus[v]) + 1
        /\ vehicleStatus' = [vehicleStatus EXCEPT ![v] = to]
        /\ UNCHANGED approvalHistory
    BY DEF Inv, MoveVehicle, TypeOK, histories
  <1>2. approvals' = approvals
    BY <1>1 DEF approvals
  <1>3. Cardinality(stagesReached') <= Cardinality(stagesReached) + 1
    BY <1>1, OneStage
  <1>4. /\ Cardinality(approvals) \in Nat
        /\ Cardinality(stagesReached) \in Nat
        /\ Cardinality(stagesReached') \in Nat
    BY StagesFinite, FS_CardinalityType DEF Paid
  <1>5. NoneGone => Cardinality(stagesReached) <= Cardinality(approvals) + moves
    BY DEF Paid, NoFreeAdvance, NoneGone
  <1>6. NoneGone' => Cardinality(stagesReached') <= Cardinality(approvals') + moves'
    BY <1>1, <1>2, <1>3, <1>4, <1>5
  <1>7. QED
    BY <1>2, <1>6 DEF Paid, NoFreeAdvance, NoneGone

\* Deleting an inspection deletes its approvals, which ends the account.
LEMMA RemovePays ==
    ASSUME Inv, Paid, NEW w \in Workers, CommitRemove(w)
    PROVE  Paid'
  <1>1. TypeOK /\ request[w] # NoRequest
    BY DEF Inv, CommitRemove, Serving
  <1>2. PICK i \in Inspections : i = request[w].inspection
    BY <1>1, ServedRequest
  <1>3. /\ inspection'[i] = Gone
        /\ approvalHistory' = [approvalHistory EXCEPT ![i] = <<>>]
    BY <1>1, <1>2 DEF CommitRemove, TypeOK
  <1>4. /\ approvalHistory'[i] = <<>>
        /\ \A j \in Inspections : j # i =>
               approvalHistory'[j] = approvalHistory[j]
    BY <1>1, <1>3 DEF TypeOK
  <1>5. approvals' \subseteq approvals
    <2> SUFFICES ASSUME NEW x \in approvals' PROVE x \in approvals
      OBVIOUS
    <2> DEFINE K(j) == {k \in 1 .. Len(approvalHistory'[j]) :
                           approvalHistory'[j][k].toStatus = "APPROVED"}
    <2>1. approvals' = UNION {{j} \X K(j) : j \in Inspections}
      BY DEF approvals
    <2>2. PICK j \in Inspections : x \in {j} \X K(j)
      BY <2>1
    <2>3. PICK k \in K(j) : x = <<j, k>>
      BY <2>2
    <2>4. j # i
      BY <1>4
    <2>5. QED
      BY <1>4, <2>3, <2>4, InApprovals
  <1>6. IsFiniteSet(approvals')
    BY <1>5, FS_Subset DEF Paid
  <1>7. ~NoneGone'
    BY <1>3 DEF NoneGone
  <1>8. QED
    BY <1>6, <1>7 DEF Paid, NoFreeAdvance, NoneGone

LEMMA PaidStep ==
    ASSUME Inv, Paid, [Next]_vars
    PROVE  Paid'
  <1>1. NoneGone' => NoneGone
    BY GoneStays DEF Inv
  <1>2. ASSUME UNCHANGED <<approvalHistory, vehicleStatus, moves>>
        PROVE  Paid'
    BY <1>1, <1>2, PaidKept
  <1>3. ASSUME NEW w \in Workers, NEW i \in Inspections, Arrive(w, i)
        PROVE  Paid'
    BY <1>2, <1>3 DEF Arrive, BeginUpdate, BeginChangeStatus, BeginDecision,
       BeginRemove, BeginCreateDamageReport, Begin, database, histories
  <1>4. ASSUME NEW w \in Workers, Serve(w)
        PROVE  Paid'
    <2>1. CASE \/ CommitApprove(w) \/ CommitReject(w)
               \/ CommitRevokeApproval(w)
      BY <1>1, <2>1, DecisionPays
    <2>2. CASE CommitRemove(w)
      BY <2>2, RemovePays
    <2>3. CASE \/ CommitUpdate(w) \/ CommitChangeStatus(w)
               \/ \E r \in Reports : InsertDamageReport(w, r)
               \/ FlagDamage(w) \/ DeleteDamageReport(w)
               \/ CountRemainingReports(w) \/ ClearFlag(w) \/ Fail(w)
      BY <1>2, <2>3 DEF CommitUpdate, CommitChangeStatus, WriteRow,
         InsertDamageReport, FlagDamage, DeleteDamageReport,
         CountRemainingReports, ClearFlag, SetFlag, Fail, database, histories
    <2>4. QED
      BY <1>4, <2>1, <2>2, <2>3 DEF Serve
  <1>5. ASSUME NEW w \in Workers, NEW r \in Reports,
               BeginRemoveDamageReport(w, r)
        PROVE  Paid'
    BY <1>2, <1>5 DEF BeginRemoveDamageReport, database, histories
  <1>6. ASSUME NEW v \in Vehicles, NEW to \in VehicleStatus, MoveVehicle(v, to)
        PROVE  Paid'
    BY <1>1, <1>6, MovePays
  <1>7. ASSUME NEW i \in Inspections, Create(i)
        PROVE  Paid'
    BY <1>2, <1>7 DEF Create
  <1>8. CASE UNCHANGED vars
    BY <1>2, <1>8 DEF vars, database, histories
  <1>9. QED
    BY <1>3, <1>4, <1>5, <1>6, <1>7, <1>8 DEF Next

\* However many approvals overlap, and whatever type and vehicle each of them
\* had read, the vehicles have not come further together than the approvals on
\* record and the other endpoints took them.
THEOREM NoFreeAdvanceAlways == Spec => []NoFreeAdvance
  <1>1. Init => Paid
    <2> SUFFICES ASSUME Init PROVE Paid
      OBVIOUS
    <2>1. approvals = {}
      <3>1. ASSUME NEW x \in approvals PROVE FALSE
        BY <3>1, InApprovals DEF Init
      <3>2. QED
        BY <3>1
    <2>2. stagesReached = {}
      BY DEF Init, stagesReached, stage
    <2>3. QED
      BY <2>1, <2>2, FS_EmptySet DEF Paid, NoFreeAdvance, Init
  <1>2. Inv /\ Paid /\ [Next]_vars => Paid'
    BY PaidStep
  <1>3. Paid => NoFreeAdvance
    BY DEF Paid
  <1>4. QED
    BY <1>1, <1>2, <1>3, InitInv, NextInv, PTL DEF Spec

-----------------------------------------------------------------------------
(* Requests one after the other: what was read is still so *)

\* The API process has one request in flight at most.
OneAtATime == \A v, w \in Workers : v = w

\* The row a handler decided on is the row it is about to write, and it would
\* decide the same now.
SeenIsCurrent(q) ==
    q.handler \in Writers \cup Deciders =>
        /\ Exists(q.inspection)
        /\ q.seen = inspection[q.inspection]
        /\ q.handler \in Deciders => mayDecide(q.handler, q.seen)

Current == \A w \in Workers : request[w] # NoRequest => SeenIsCurrent(request[w])

LEMMA CurrentStep ==
    ASSUME OneAtATime, Inv, Current, [Next]_vars
    PROVE  Current'
  <1>1. TypeOK /\ request \in [Workers -> InFlight \cup {NoRequest}]
    BY DEF Inv, TypeOK
  <1>2. ASSUME NEW w \in Workers, Answer(w)
        PROVE  Current'
    BY <1>1, <1>2 DEF OneAtATime, Current, Answer
  <1>3. ASSUME NEW w \in Workers, NEW q \in InFlight, SeenIsCurrent(q)',
               request' = [request EXCEPT ![w] = q]
        PROVE  Current'
    <2>1. \A u \in Workers : request'[u] = q
      BY <1>1, <1>3 DEF OneAtATime
    <2>2. QED
      BY <1>3, <2>1 DEF Current, SeenIsCurrent, Exists
  <1>4. ASSUME NEW w \in Workers, NEW i \in Inspections, NEW h \in Handlers,
               NEW sent \in Dto, Begin(w, h, i, sent),
               h \in Deciders => mayDecide(h, inspection[i])
        PROVE  Current'
    <2> DEFINE q == [step |-> "writing", handler |-> h, inspection |-> i,
                     seen |-> inspection[i], sent |-> sent, report |-> Null]
    <2>1. /\ Exists(i) /\ inspection[i] \in Row
          /\ request' = [request EXCEPT ![w] = q]
          /\ inspection' = inspection
      BY <1>1, <1>4, RowOfExisting DEF Begin, database
    <2>2. q \in InFlight
      BY <2>1 DEF InFlight
    <2>3. SeenIsCurrent(q)'
      BY <1>4, <2>1 DEF SeenIsCurrent, Exists
    <2>4. QED
      BY <1>3, <2>1, <2>2, <2>3
  <1>5. NothingSent \in Dto /\ Deciders \subseteq Handlers
    BY DEF NothingSent, Dto, Deciders, Handlers
  <1>6. ASSUME NEW w \in Workers, NEW i \in Inspections, Arrive(w, i)
        PROVE  Current'
    <2>1. ASSUME NEW sent \in Dto, BeginUpdate(w, i, sent)
          PROVE  Current'
      BY <1>4, <2>1 DEF BeginUpdate, Handlers, Deciders
    <2>2. ASSUME NEW t \in InspectionStatus, BeginChangeStatus(w, i, t)
          PROVE  Current'
      <3>1. [NothingSent EXCEPT !.status = t] \in Dto
        BY DEF NothingSent, Dto
      <3>2. QED
        BY <1>4, <2>2, <3>1 DEF BeginChangeStatus, Handlers, Deciders
    <2>3. ASSUME NEW h \in Deciders, BeginDecision(w, h, i)
          PROVE  Current'
      BY <1>4, <1>5, <2>3 DEF BeginDecision
    <2>4. ASSUME NEW h \in {"remove", "createDamageReport"},
                 Begin(w, h, i, NothingSent)
          PROVE  Current'
      BY <1>4, <1>5, <2>4 DEF Handlers, Deciders
    <2>5. QED
      BY <1>6, <2>1, <2>2, <2>3, <2>4
         DEF Arrive, BeginRemove, BeginCreateDamageReport, Deciders
  <1>7. ASSUME NEW w \in Workers, NEW r \in Reports,
               BeginRemoveDamageReport(w, r)
        PROVE  Current'
    <2>1. PICK i \in Inspections : i = report[r]
      BY <1>7 DEF BeginRemoveDamageReport
    <2>2. Exists(i) /\ inspection[i] \in Row
      BY <1>1, <2>1, RowOfExisting DEF Inv, ReportsOK
    <2>3. PICK q \in InFlight :
              q = [step |-> "writing", handler |-> "removeDamageReport",
                   inspection |-> i, seen |-> inspection[i],
                   sent |-> NothingSent, report |-> r]
      BY <1>5, <2>2 DEF InFlight, Handlers
    <2>4. SeenIsCurrent(q)'
      BY <2>3 DEF SeenIsCurrent, Writers, Deciders
    <2>5. QED
      BY <1>3, <1>7, <2>1, <2>3, <2>4 DEF BeginRemoveDamageReport
  <1>8. ASSUME NEW w \in Workers, Serve(w)
        PROVE  Current'
    <2>1. CASE Answer(w)
      BY <1>2, <2>1
    <2>2. ASSUME NEW q, request' = [request EXCEPT ![w] = q], q \in InFlight,
                 q.handler \notin Writers \cup Deciders
          PROVE  Current'
      BY <1>3, <2>2 DEF SeenIsCurrent
    <2>3. CASE \/ \E r \in Reports : InsertDamageReport(w, r)
               \/ DeleteDamageReport(w) \/ CountRemainingReports(w)
      <3>1. /\ request[w] # NoRequest /\ request[w] \in InFlight
            /\ request[w].handler \notin Writers \cup Deciders
        BY <1>1, <2>3 DEF InsertDamageReport, DeleteDamageReport,
           CountRemainingReports, Serving, Writers, Deciders
      <3>2. ASSUME NEW r \in Reports, InsertDamageReport(w, r)
            PROVE  Current'
        <4> DEFINE q == [request[w] EXCEPT !.step = "flagging", !.report = r]
        <4>1. q \in InFlight /\ q.handler = request[w].handler
          BY <3>1 DEF InFlight
        <4>2. request' = [request EXCEPT ![w] = q]
          BY <1>1, <3>2 DEF InsertDamageReport
        <4>3. QED
          BY <2>2, <3>1, <4>1, <4>2
      <3>3. ASSUME NEW step \in {"counting", "clearing"}, Proceed(w, step)
            PROVE  Current'
        <4> DEFINE q == [request[w] EXCEPT !.step = step]
        <4>1. q \in InFlight /\ q.handler = request[w].handler
          BY <3>1 DEF InFlight
        <4>2. request' = [request EXCEPT ![w] = q]
          BY <1>1, <3>3 DEF Proceed
        <4>3. QED
          BY <2>2, <3>1, <4>1, <4>2
      <3>4. QED
        BY <2>1, <2>3, <3>2, <3>3 DEF DeleteDamageReport, CountRemainingReports
    <2>4. CASE \/ CommitUpdate(w) \/ CommitChangeStatus(w) \/ CommitApprove(w)
               \/ CommitReject(w) \/ CommitRevokeApproval(w)
               \/ CommitRemove(w) \/ FlagDamage(w) \/ ClearFlag(w) \/ Fail(w)
      BY <2>1, <2>4 DEF CommitUpdate, CommitChangeStatus, WriteRow,
         CommitApprove, CommitReject, CommitRevokeApproval, RecordDecision,
         CommitRemove, FlagDamage, ClearFlag, SetFlag, Fail
    <2>5. QED
      BY <1>8, <2>3, <2>4 DEF Serve
  <1>9. ASSUME NEW i \in Inspections, Create(i)
        PROVE  Current'
    <2>1. /\ inspection[i] = Absent /\ ~Exists(i)
          /\ request' = request
          /\ \A j \in Inspections : j # i => inspection'[j] = inspection[j]
      BY <1>1, <1>9 DEF Create, TypeOK, Exists, Absent, InspectionStatus,
                        NotCreated
    <2>2. ASSUME NEW w \in Workers, request[w] # NoRequest
          PROVE  SeenIsCurrent(request[w])'
      <3>1. SeenIsCurrent(request[w]) /\ request[w].inspection \in Inspections
        BY <1>1, <2>2, ServedRequest DEF Current
      <3>2. CASE request[w].inspection = i
        BY <2>1, <3>1, <3>2 DEF SeenIsCurrent
      <3>3. CASE request[w].inspection # i
        BY <2>1, <3>1, <3>3 DEF SeenIsCurrent, Exists
      <3>4. QED
        BY <3>2, <3>3
    <2>3. QED
      BY <2>1, <2>2 DEF Current
  <1>10. ASSUME UNCHANGED <<inspection, request>>
         PROVE  Current'
    BY <1>10 DEF Current, SeenIsCurrent, Exists
  <1>11. ASSUME NEW v \in Vehicles, NEW to \in VehicleStatus, MoveVehicle(v, to)
         PROVE  Current'
    BY <1>10, <1>11 DEF MoveVehicle
  <1>12. QED
    BY <1>6, <1>7, <1>8, <1>9, <1>10, <1>11 DEF Next, vars, database

LEMMA SerialAlways ==
    ASSUME OneAtATime
    PROVE  Spec => [](Inv /\ Current)
  <1>1. Init => Current
    BY DEF Init, Current
  <1>2. Inv /\ Current /\ [Next]_vars => Current'
    BY CurrentStep
  <1>3. QED
    BY <1>1, <1>2, InitInv, NextInv, PTL DEF Spec

-----------------------------------------------------------------------------
(* The refinement *)

\* The columns of an inspection that the record shows.
shownStatus == [i \in Inspections |-> inspection[i].status]
shownApproval ==
    [i \in Inspections |->
        IF Exists(i) THEN inspection[i].approvalStatus ELSE "PENDING"]
shown == <<shownStatus, shownApproval, statusHistory, approvalHistory>>

\* Both modules read the same enumerations and the same transition table.
LEMMA SameTables ==
    /\ Record!InspectionStatus = InspectionStatus
    /\ Record!InspectionApprovalStatus = InspectionApprovalStatus
    /\ Record!NotCreated = NotCreated
    /\ Record!Deleted = Deleted
    /\ Record!Null = Null
    /\ \A x : Record!allowedTransitions(x) = allowedTransitions(x)
    /\ \A x, y : Record!Entry(x, y) = Entry(x, y)
  BY DEF Record!InspectionStatus, Record!InspectionApprovalStatus,
         Record!NotCreated, Record!Deleted, Record!Null,
         Record!allowedTransitions, Record!Entry, InspectionStatus,
         InspectionApprovalStatus, NotCreated, Deleted, Null,
         allowedTransitions, Entry

\* The steps of the record, on the columns it shows.
LEMMA RecordSteps ==
    ASSUME NEW i \in Inspections
    PROVE  /\ \A t : Record!Open(i, t) <=>
                  /\ shownStatus[i] = NotCreated
                  /\ shownStatus' = [shownStatus EXCEPT ![i] = t]
                  /\ statusHistory' =
                         [statusHistory EXCEPT ![i] = <<Entry(Null, t)>>]
                  /\ UNCHANGED <<shownApproval, approvalHistory>>
           /\ \A t : Record!Advance(i, t) <=>
                  /\ shownStatus[i] \in InspectionStatus
                  /\ t \in allowedTransitions(shownStatus[i])
                  /\ shownStatus' = [shownStatus EXCEPT ![i] = t]
                  /\ statusHistory' =
                         [statusHistory EXCEPT
                             ![i] = Append(@, Entry(shownStatus[i], t))]
                  /\ UNCHANGED <<shownApproval, approvalHistory>>
           /\ \A d : Record!Decide(i, d) <=>
                  /\ shownStatus[i] \in (IF d = "PENDING"
                                         THEN InspectionStatus
                                         ELSE {"COMPLETED"})
                  /\ shownApproval[i] # d
                  /\ shownApproval' = [shownApproval EXCEPT ![i] = d]
                  /\ approvalHistory' =
                         [approvalHistory EXCEPT
                             ![i] = Append(@, Entry(shownApproval[i], d))]
                  /\ UNCHANGED <<shownStatus, statusHistory>>
           /\ Record!Discard(i) <=>
                  /\ shownStatus[i] \in InspectionStatus
                  /\ shownStatus' = [shownStatus EXCEPT ![i] = Deleted]
                  /\ shownApproval' = [shownApproval EXCEPT ![i] = "PENDING"]
                  /\ statusHistory' = [statusHistory EXCEPT ![i] = <<>>]
                  /\ approvalHistory' = [approvalHistory EXCEPT ![i] = <<>>]
  BY Zenon DEF Record!Open, Record!Advance, Record!Decide, Record!Discard,
         shownStatus, shownApproval, Exists,
         Record!InspectionStatus, Record!NotCreated, Record!Deleted,
         Record!Null, Record!allowedTransitions, Record!Entry,
         InspectionStatus, NotCreated, Deleted, Null, allowedTransitions, Entry

LEMMA RecordNext ==
    /\ Record!Next <=>
           \E i \in Inspections :
               \/ \E t \in InspectionStatus :
                      Record!Open(i, t) \/ Record!Advance(i, t)
               \/ \E d \in InspectionApprovalStatus : Record!Decide(i, d)
               \/ Record!Discard(i)
    /\ Record!record = shown /\ (Record!record)' = shown'
  BY Zenon DEF Record!Next, Record!record, shown, shownStatus, shownApproval,
         Exists, Record!InspectionStatus, Record!InspectionApprovalStatus,
         InspectionStatus, InspectionApprovalStatus

\* What the record shows when one row is written.
LEMMA ShownRow ==
    ASSUME TypeOK, NEW i \in Inspections, NEW row \in Row \cup {Absent, Gone},
           inspection' = [inspection EXCEPT ![i] = row]
    PROVE  /\ shownStatus[i] = inspection[i].status
           /\ Exists(i) => shownApproval[i] = inspection[i].approvalStatus
           /\ ~Exists(i) => shownApproval[i] = "PENDING"
           /\ shownStatus' = [shownStatus EXCEPT ![i] = row.status]
           /\ shownApproval' =
                  [shownApproval EXCEPT
                      ![i] = IF row.status \in InspectionStatus
                             THEN row.approvalStatus ELSE "PENDING"]
           /\ shownStatus = [shownStatus EXCEPT ![i] = shownStatus[i]]
           /\ shownApproval = [shownApproval EXCEPT ![i] = shownApproval[i]]
  <1>1. inspection \in [Inspections -> Row \cup {Absent, Gone}]
    BY DEF TypeOK
  <1>2. \A j \in Inspections :
            inspection'[j] = IF j = i THEN row ELSE inspection[j]
    BY <1>1
  <1>3. QED
    BY <1>1, <1>2 DEF shownStatus, shownApproval, Exists

LEMMA NothingShown ==
    ASSUME UNCHANGED <<inspection, histories>>
    PROVE  shown' = shown
  BY DEF shown, shownStatus, shownApproval, Exists, histories

LEMMA WriteRowRefines ==
    ASSUME Inv, Current, NEW w \in Workers, request[w] # NoRequest,
           request[w].handler \in Writers, WriteRow(w)
    PROVE  Record!Next \/ shown' = shown
  <1>1. /\ TypeOK
        /\ request[w] \in InFlight /\ request[w].inspection \in Inspections
        /\ request[w].sent \in Dto
        /\ RequestOK(request[w]) /\ SeenIsCurrent(request[w])
    BY ServedRequest DEF Inv, RequestsOK, Current
  <1>2. PICK i \in Inspections, sent \in Dto :
            /\ i = request[w].inspection
            /\ sent = request[w].sent
    BY <1>1
  <1>3. /\ Exists(i) /\ request[w].seen = inspection[i]
        /\ statusChanged(inspection[i], sent) =>
               sent.status \in allowedTransitions(inspection[i].status)
    BY <1>1, <1>2 DEF RequestOK, SeenIsCurrent
  <1> DEFINE row == written(inspection[i], sent)
  <1>4. /\ statusHistory' = [statusHistory EXCEPT
                                ![i] = recorded(@, inspection[i], sent)]
        /\ inspection' = [inspection EXCEPT ![i] = row]
        /\ approvalHistory' = approvalHistory
        /\ inspection[i] \in Row
        /\ statusHistory \in [Inspections -> Seq(StatusEntry)]
    BY <1>1, <1>2, <1>3, RowOfExisting DEF WriteRow, TypeOK
  <1>5. /\ row \in Row
        /\ row.status = sentOrKept(sent.status, inspection[i].status)
        /\ row.approvalStatus = inspection[i].approvalStatus
    <2>1. /\ sentOrKept(sent.vehicleId, inspection[i].vehicleId) \in Vehicles
          /\ sentOrKept(sent.type, inspection[i].type) \in Types
          /\ sentOrKept(sent.status, inspection[i].status) \in InspectionStatus
          /\ sentOrKept(sent.hasVisibleDamage, inspection[i].hasVisibleDamage)
                 \in YesNo
      BY <1>4, InspectionConstants DEF sentOrKept, Row, Dto
    <2>2. QED
      BY <1>4, <2>1 DEF written, Row
  <1>6. /\ shownStatus[i] = inspection[i].status
        /\ shownStatus' = [shownStatus EXCEPT ![i] = row.status]
        /\ shownApproval' = shownApproval
        /\ shownStatus = [shownStatus EXCEPT ![i] = shownStatus[i]]
    <2>1. row.status \in InspectionStatus
      BY <1>5 DEF Row
    <2> HIDE DEF row
    <2>2. /\ shownStatus[i] = inspection[i].status
          /\ shownApproval[i] = inspection[i].approvalStatus
          /\ shownStatus' = [shownStatus EXCEPT ![i] = row.status]
          /\ shownApproval' = [shownApproval EXCEPT ![i] = row.approvalStatus]
          /\ shownApproval = [shownApproval EXCEPT ![i] = shownApproval[i]]
          /\ shownStatus = [shownStatus EXCEPT ![i] = shownStatus[i]]
      BY <1>1, <1>3, <1>4, <1>5, <2>1, ShownRow
    <2>3. QED
      BY <1>5, <2>2
  <1>7. CASE statusChanged(inspection[i], sent)
    <2>1. row.status = sent.status /\ sent.status \in InspectionStatus
      BY <1>5, <1>7 DEF statusChanged, sentOrKept, Dto
    <2>2. Record!Advance(i, sent.status)
      BY <1>3, <1>4, <1>6, <1>7, <2>1, RecordSteps DEF recorded, Exists
    <2>3. QED
      BY <2>1, <2>2, RecordNext
  <1>8. CASE ~statusChanged(inspection[i], sent)
    <2>1. row.status = inspection[i].status /\ statusHistory' = statusHistory
      BY <1>4, <1>5, <1>8 DEF statusChanged, sentOrKept, recorded
    <2>2. QED
      BY <1>4, <1>6, <2>1 DEF shown
  <1>9. QED
    BY <1>7, <1>8

LEMMA RecordDecisionRefines ==
    ASSUME Inv, Current, NEW w \in Workers, request[w] # NoRequest,
           request[w].handler \in Deciders, RecordDecision(w)
    PROVE  Record!Next
  <1>1. /\ TypeOK
        /\ request[w] \in InFlight /\ request[w].inspection \in Inspections
        /\ SeenIsCurrent(request[w])
    BY ServedRequest DEF Inv, Current
  <1>2. PICK i \in Inspections, h \in Deciders :
            i = request[w].inspection /\ h = request[w].handler
    BY <1>1
  <1> DEFINE d   == decision(h)
             row == [inspection[i] EXCEPT !.approvalStatus = d]
  <1>3. d \in InspectionApprovalStatus
    BY DEF decision, InspectionApprovalStatus
  <1>4. /\ Exists(i) /\ request[w].seen = inspection[i]
        /\ mayDecide(h, inspection[i])
    BY <1>1, <1>2 DEF SeenIsCurrent
  <1>5. /\ inspection[i] \in Row /\ row \in Row
        /\ row.status = inspection[i].status /\ row.approvalStatus = d
    BY <1>1, <1>3, <1>4, RowOfExisting DEF Row
  <1>6. /\ inspection' = [inspection EXCEPT ![i] = row]
        /\ approvalHistory' =
               [approvalHistory EXCEPT
                   ![i] = Append(@, Entry(inspection[i].approvalStatus, d))]
        /\ statusHistory' = statusHistory
    BY <1>1, <1>2, <1>4 DEF RecordDecision, TypeOK
  <1>7. /\ shownStatus[i] = inspection[i].status
        /\ shownApproval[i] = inspection[i].approvalStatus
        /\ shownStatus' = shownStatus
        /\ shownApproval' = [shownApproval EXCEPT ![i] = d]
    <2>1. row.status \in InspectionStatus
      BY <1>5 DEF Row
    <2> HIDE DEF row, d
    <2>2. /\ shownStatus[i] = inspection[i].status
          /\ shownApproval[i] = inspection[i].approvalStatus
          /\ shownStatus' = [shownStatus EXCEPT ![i] = row.status]
          /\ shownApproval' = [shownApproval EXCEPT ![i] = row.approvalStatus]
          /\ shownStatus = [shownStatus EXCEPT ![i] = shownStatus[i]]
      BY <1>1, <1>4, <1>5, <1>6, <2>1, ShownRow
    <2>3. QED
      BY <1>5, <2>2
  <1>8. /\ shownStatus[i] \in (IF d = "PENDING" THEN InspectionStatus
                                                ELSE {"COMPLETED"})
        /\ shownApproval[i] # d
    BY <1>4, <1>7 DEF mayDecide, decision, Deciders, Exists
  <1>9. Record!Decide(i, d)
    BY <1>6, <1>7, <1>8, RecordSteps
  <1>10. QED
    BY <1>3, <1>9, RecordNext

LEMMA CommitRemoveRefines ==
    ASSUME Inv, NEW w \in Workers, CommitRemove(w)
    PROVE  Record!Next
  <1>1. TypeOK /\ request[w] # NoRequest /\ request[w].inspection \in Inspections
    BY ServedRequest DEF Inv, CommitRemove, Serving
  <1>2. PICK i \in Inspections : i = request[w].inspection
    BY <1>1
  <1>3. /\ Exists(i)
        /\ inspection' = [inspection EXCEPT ![i] = Gone]
        /\ statusHistory' = [statusHistory EXCEPT ![i] = <<>>]
        /\ approvalHistory' = [approvalHistory EXCEPT ![i] = <<>>]
    BY <1>2 DEF CommitRemove
  <1>4. Gone.status = Deleted /\ Deleted \notin InspectionStatus
    BY DEF Gone, Deleted, InspectionStatus
  <1>5. /\ shownStatus[i] = inspection[i].status
        /\ shownStatus' = [shownStatus EXCEPT ![i] = Deleted]
        /\ shownApproval' = [shownApproval EXCEPT ![i] = "PENDING"]
    BY <1>1, <1>3, <1>4, ShownRow
  <1>6. Record!Discard(i)
    BY <1>3, <1>5, RecordSteps DEF Exists
  <1>7. QED
    BY <1>6, RecordNext

LEMMA CreateRefines ==
    ASSUME Inv, NEW i \in Inspections, Create(i)
    PROVE  Record!Next
  <1>1. TypeOK /\ inspection[i] = Absent /\ approvalHistory' = approvalHistory
    BY DEF Inv, Create
  <1>2. PICK v \in Vehicles, y \in Types, t \in InspectionStatus,
             f \in Flags \cup {"NO"} :
            /\ inspection' = [inspection EXCEPT ![i] =
                  [vehicleId |-> v, type |-> y, status |-> t,
                   approvalStatus |-> "PENDING", hasVisibleDamage |-> f]]
            /\ statusHistory' =
                  [statusHistory EXCEPT ![i] = <<Entry(Null, t)>>]
    BY DEF Create
  <1> DEFINE row == [vehicleId |-> v, type |-> y, status |-> t,
                     approvalStatus |-> "PENDING", hasVisibleDamage |-> f]
  <1>3. /\ row \in Row /\ row.status = t /\ row.approvalStatus = "PENDING"
    BY InspectionConstants DEF Row, YesNo, InspectionApprovalStatus
  <1>0. ~Exists(i) /\ inspection[i].status = NotCreated
    BY <1>1 DEF Absent, Exists, InspectionStatus, NotCreated
  <1>4. /\ shownStatus[i] = NotCreated
        /\ shownStatus' = [shownStatus EXCEPT ![i] = t]
        /\ shownApproval' = shownApproval
    <2>1. /\ inspection' = [inspection EXCEPT ![i] = row]
          /\ row.status \in InspectionStatus
      BY <1>2, <1>3
    <2> HIDE DEF row
    <2>2. /\ shownStatus[i] = inspection[i].status
          /\ shownApproval[i] = "PENDING"
          /\ shownStatus' = [shownStatus EXCEPT ![i] = row.status]
          /\ shownApproval' = [shownApproval EXCEPT ![i] = row.approvalStatus]
          /\ shownApproval = [shownApproval EXCEPT ![i] = shownApproval[i]]
      BY <1>1, <1>3, <1>0, <2>1, ShownRow
    <2>3. QED
      BY <1>3, <1>0, <2>2
  <1>5. Record!Open(i, t)
    BY <1>1, <1>2, <1>4, RecordSteps
  <1>6. QED
    BY <1>5, RecordNext

LEMMA SetFlagRefines ==
    ASSUME Inv, NEW w \in Workers, request[w] # NoRequest,
           NEW flag \in YesNo, SetFlag(w, flag)
    PROVE  shown' = shown
  <1>1. TypeOK /\ request[w].inspection \in Inspections
    BY ServedRequest DEF Inv
  <1>2. PICK i \in Inspections : i = request[w].inspection
    BY <1>1
  <1> DEFINE row == [inspection[i] EXCEPT !.hasVisibleDamage = flag]
  <1>3. /\ Exists(i) /\ UNCHANGED histories
        /\ inspection' = [inspection EXCEPT ![i] = row]
    BY <1>1, <1>2 DEF SetFlag, TypeOK
  <1>4. /\ row \in Row /\ row.status = inspection[i].status
        /\ row.approvalStatus = inspection[i].approvalStatus
    BY <1>1, <1>3, RowOfExisting DEF Row
  <1>5. shownStatus' = shownStatus /\ shownApproval' = shownApproval
    <2>1. row.status \in InspectionStatus
      BY <1>4 DEF Row
    <2> HIDE DEF row
    <2>2. /\ shownStatus[i] = inspection[i].status
          /\ shownApproval[i] = inspection[i].approvalStatus
          /\ shownStatus' = [shownStatus EXCEPT ![i] = row.status]
          /\ shownApproval' = [shownApproval EXCEPT ![i] = row.approvalStatus]
          /\ shownStatus = [shownStatus EXCEPT ![i] = shownStatus[i]]
          /\ shownApproval = [shownApproval EXCEPT ![i] = shownApproval[i]]
      BY <1>1, <1>3, <1>4, <2>1, ShownRow
    <2>3. QED
      BY <1>4, <2>2
  <1>6. QED
    BY <1>3, <1>5 DEF shown, histories

LEMMA StepRefines ==
    ASSUME Inv, Current, [Next]_vars
    PROVE  Record!Next \/ shown' = shown
  <1>1. ASSUME NEW w \in Workers, NEW i \in Inspections, Arrive(w, i)
        PROVE  shown' = shown
    BY <1>1, NothingShown DEF Arrive, BeginUpdate, BeginChangeStatus,
       BeginDecision, BeginRemove, BeginCreateDamageReport, Begin, database
  <1>2. ASSUME NEW w \in Workers, NEW r \in Reports,
               BeginRemoveDamageReport(w, r)
        PROVE  shown' = shown
    BY <1>2, NothingShown DEF BeginRemoveDamageReport, database
  <1>3. ASSUME NEW w \in Workers, Serve(w)
        PROVE  Record!Next \/ shown' = shown
    <2>1. CASE CommitUpdate(w) \/ CommitChangeStatus(w)
      BY <2>1, WriteRowRefines
         DEF CommitUpdate, CommitChangeStatus, Serving, Writers
    <2>2. CASE CommitApprove(w) \/ CommitReject(w) \/ CommitRevokeApproval(w)
      BY <2>2, RecordDecisionRefines DEF CommitApprove, CommitReject,
         CommitRevokeApproval, Serving, Deciders
    <2>3. CASE CommitRemove(w)
      BY <2>3, CommitRemoveRefines
    <2>4. CASE FlagDamage(w) \/ ClearFlag(w)
      BY <2>4, SetFlagRefines DEF FlagDamage, ClearFlag, Serving, YesNo
    <2>5. CASE \/ \E r \in Reports : InsertDamageReport(w, r)
               \/ DeleteDamageReport(w) \/ CountRemainingReports(w) \/ Fail(w)
      BY <2>5, NothingShown DEF InsertDamageReport, DeleteDamageReport,
         CountRemainingReports, Fail, database
    <2>6. QED
      BY <1>3, <2>1, <2>2, <2>3, <2>4, <2>5 DEF Serve
  <1>4. ASSUME NEW v \in Vehicles, NEW to \in VehicleStatus, MoveVehicle(v, to)
        PROVE  shown' = shown
    BY <1>4, NothingShown DEF MoveVehicle
  <1>5. CASE UNCHANGED vars
    BY <1>5, NothingShown DEF vars, database
  <1>6. QED
    BY <1>1, <1>2, <1>3, <1>4, <1>5, CreateRefines DEF Next

\* Served one at a time, the handlers implement the record of an inspection:
\* reading the row, deciding and the transaction behave as one step along the
\* transition table, or one decision, told by the histories in the same moment.
THEOREM SerialImplementsInspectionRecord ==
    ASSUME OneAtATime
    PROVE  Spec => ImplementsInspectionRecord
  <1>1. Init => Record!Init
    BY DEF Init, Record!Init, Exists, Absent, InspectionStatus, NotCreated,
           Record!NotCreated
  <1>2. Inv /\ Current /\ [Next]_vars => [Record!Next]_(Record!record)
    <2> SUFFICES ASSUME Inv, Current, [Next]_vars
                 PROVE  Record!Next \/ Record!record' = Record!record
      OBVIOUS
    <2>1. QED
      BY StepRefines, RecordNext
  <1>3. QED
    BY <1>1, <1>2, SerialAlways, PTL
       DEF Spec, ImplementsInspectionRecord, Record!Spec

\* The theorems about the record are theorems about these histories.
Histories == INSTANCE InspectionRecordProofs
                 WITH status   <- [i \in Inspections |-> inspection[i].status],
                      approval <- [i \in Inspections |->
                                      IF Exists(i)
                                      THEN inspection[i].approvalStatus
                                      ELSE "PENDING"]

\* They speak of the same steps and of the same histories.
LEMMA RecordHasHistories ==
    /\ Record!Init => Histories!Init
    /\ [Record!Next]_(Record!record) => [Histories!Next]_(Histories!record)
    /\ Histories!HistoriesArePaths => Record!HistoriesArePaths
  <1>1. Record!Init => Histories!Init
    BY Zenon DEF Record!Init, Histories!Init, Record!NotCreated, Histories!NotCreated
  <1>2. /\ Record!record = Histories!record
        /\ Record!record' = Histories!record'
    BY Zenon DEF Record!record, Histories!record
  <1>3. ASSUME NEW i \in Inspections
        PROVE  /\ \A t \in InspectionStatus :
                      /\ Record!Open(i, t) => Histories!Open(i, t)
                      /\ Record!Advance(i, t) => Histories!Advance(i, t)
               /\ \A d \in InspectionApprovalStatus : Record!Decide(i, d) => Histories!Decide(i, d)
               /\ Record!Discard(i) => Histories!Discard(i)
    <2>1. \A t : Record!Open(i, t) => Histories!Open(i, t)
      BY Zenon DEF Record!Open, Histories!Open, Record!NotCreated, Histories!NotCreated,
         Record!Entry, Histories!Entry, Record!Null, Histories!Null
    <2>2. \A t : Record!Advance(i, t) => Histories!Advance(i, t)
      BY Zenon DEF Record!Advance, Histories!Advance, Record!InspectionStatus,
         Histories!InspectionStatus, Record!allowedTransitions, Histories!allowedTransitions,
         Record!Entry, Histories!Entry
    <2>3. \A d : Record!Decide(i, d) => Histories!Decide(i, d)
      BY Zenon DEF Record!Decide, Histories!Decide, Record!InspectionStatus,
         Histories!InspectionStatus, Record!Entry, Histories!Entry
    <2>4. Record!Discard(i) => Histories!Discard(i)
      BY Zenon DEF Record!Discard, Histories!Discard, Record!InspectionStatus,
         Histories!InspectionStatus, Record!Deleted, Histories!Deleted
    <2>5. QED
      BY <2>1, <2>2, <2>3, <2>4
  <1>4. Record!Next => Histories!Next
    BY <1>3, Zenon DEF Record!Next, Histories!Next, InspectionStatus,
       InspectionApprovalStatus, Record!InspectionStatus, Histories!InspectionStatus, Record!InspectionApprovalStatus,
       Histories!InspectionApprovalStatus
  <1>5. Histories!HistoriesArePaths => Record!HistoriesArePaths
    BY Zenon DEF Histories!HistoriesArePaths, Record!HistoriesArePaths,
       Histories!StatusHistoryIsPath, Record!StatusHistoryIsPath,
       Histories!ApprovalHistoryIsPath, Record!ApprovalHistoryIsPath,
       Histories!isChain, Record!isChain, Histories!InspectionStatus, Record!InspectionStatus,
       Histories!allowedTransitions, Record!allowedTransitions, Histories!Null, Record!Null
  <1>6. QED
    BY <1>1, <1>2, <1>4, <1>5, Zenon

\* Served one at a time, the API keeps histories that tell how an inspection came
\* to what it is: each entry starts where the one before it ended, follows the
\* table, and the last one says what the inspection is now.
THEOREM SerialHistoriesArePaths ==
    ASSUME OneAtATime
    PROVE  Spec => []Record!HistoriesArePaths
  <1>1. Record!Spec => Histories!Spec
    BY RecordHasHistories, PTL DEF Record!Spec, Histories!Spec
  <1>2. []Histories!HistoriesArePaths => []Record!HistoriesArePaths
    BY RecordHasHistories, PTL
  <1>3. QED
    BY <1>1, <1>2, SerialImplementsInspectionRecord, Histories!HistoriesArePathsAlways, PTL
    DEF ImplementsInspectionRecord

-----------------------------------------------------------------------------
(* Requests one after the other: damage is shown *)

\* Report r was inserted and the flag of its inspection is still to be set.
Flagging(r) ==
    \E w \in Workers : /\ Serving(w, "flagging", "createDamageReport")
                       /\ request[w].report = r
                       /\ request[w].inspection = report[r]

Clearing(w) == Serving(w, "clearing", "removeDamageReport")

\* The inspection of a report has the flag or is about to get it, unless the
\* request of the report failed in between; and the flag is cleared only where
\* no report is left.
DamageInv ==
    /\ \A r \in Reports \ unflagged : report[r] \in Inspections =>
           \/ inspection[report[r]].hasVisibleDamage = "YES"
           \/ Flagging(r)
    /\ \A w \in Workers : Clearing(w) =>
           \A r \in Reports : report[r] # request[w].inspection

\* A step that inserts no report, takes no flag back and starts no clearing.
LEMMA DamageKept ==
    ASSUME DamageInv, unflagged \subseteq unflagged',
           \A r \in Reports : report'[r] \in Inspections =>
               /\ report'[r] = report[r]
               /\ inspection[report[r]].hasVisibleDamage = "YES" =>
                      inspection'[report[r]].hasVisibleDamage = "YES",
           \A r \in Reports \ unflagged' :
               report[r] \in Inspections /\ Flagging(r) => Flagging(r)',
           \A w \in Workers : Clearing(w)' =>
               /\ Clearing(w)
               /\ request'[w].inspection = request[w].inspection
               /\ request[w].inspection \in Inspections
    PROVE  DamageInv'
  <1>1. ASSUME NEW r \in Reports \ unflagged', report'[r] \in Inspections
        PROVE  \/ inspection'[report'[r]].hasVisibleDamage = "YES"
               \/ Flagging(r)'
    <2>1. report'[r] = report[r] /\ r \in Reports \ unflagged
      BY <1>1
    <2>2. CASE Flagging(r)
      BY <1>1, <2>1, <2>2
    <2>3. CASE inspection[report[r]].hasVisibleDamage = "YES"
      BY <1>1, <2>1, <2>3
    <2>4. QED
      BY <1>1, <2>1, <2>2, <2>3 DEF DamageInv
  <1>2. ASSUME NEW w \in Workers, Clearing(w)', NEW r \in Reports
        PROVE  report'[r] # request'[w].inspection
    BY <1>2 DEF DamageInv
  <1>3. QED
    BY <1>1, <1>2 DEF DamageInv

\* What holds of the requests when the one of w is answered and no other is in
\* flight, and when it goes on or one begins.
LEMMA OnlyRequest ==
    ASSUME OneAtATime, Inv, NEW w \in Workers, NEW q \in InFlight \cup {NoRequest},
           request' = [request EXCEPT ![w] = q]
    PROVE  \A u \in Workers : request'[u] = q /\ request[u] = request[w] /\ u = w
  BY DEF OneAtATime, Inv, TypeOK

LEMMA AnswerDamage ==
    ASSUME OneAtATime, Inv, DamageInv, NEW w \in Workers, request[w] # NoRequest,
           request[w].step # "flagging", Answer(w), unflagged' = unflagged,
           \A r \in Reports : report'[r] \in Inspections =>
               /\ report'[r] = report[r]
               /\ inspection[report[r]].hasVisibleDamage = "YES" =>
                      inspection'[report[r]].hasVisibleDamage = "YES"
    PROVE  DamageInv'
  <1>1. \A u \in Workers : request'[u] = NoRequest /\ u = w
    BY ZenonT(30), OnlyRequest DEF Answer
  <1>2. \A r \in Reports : ~Flagging(r)
    BY <1>1 DEF Flagging, Serving
  <1>3. \A u \in Workers : ~Clearing(u)'
    BY <1>1 DEF Clearing, Serving
  <1>4. QED
    BY <1>2, <1>3, DamageKept

LEMMA BeginDamage ==
    ASSUME OneAtATime, Inv, DamageInv, NEW w \in Workers,
           request[w] = NoRequest, UNCHANGED <<inspection, report, unflagged>>,
           NEW q \in InFlight, q.step = "writing",
           request' = [request EXCEPT ![w] = q]
    PROVE  DamageInv'
  <1>1. \A u \in Workers : request'[u] = q /\ u = w
    BY OnlyRequest
  <1>2. \A r \in Reports : ~Flagging(r)
    BY <1>1 DEF Flagging, Serving
  <1>3. \A u \in Workers : ~Clearing(u)'
    BY <1>1 DEF Clearing, Serving
  <1>4. QED
    BY <1>2, <1>3, DamageKept

LEMMA ArriveDamage ==
    ASSUME OneAtATime, Inv, DamageInv, NEW w \in Workers,
           \/ \E i \in Inspections : Arrive(w, i)
           \/ \E r \in Reports : BeginRemoveDamageReport(w, r)
    PROVE  DamageInv'
  <1>1. /\ request[w] = NoRequest
        /\ UNCHANGED <<inspection, report, unflagged>>
        /\ \E q : q.step = "writing" /\ request' = [request EXCEPT ![w] = q]
    <2>1. ASSUME NEW i, NEW h, NEW sent, Begin(w, h, i, sent)
          PROVE  /\ request[w] = NoRequest
                 /\ UNCHANGED <<inspection, report, unflagged>>
                 /\ \E q : /\ q.step = "writing"
                           /\ request' = [request EXCEPT ![w] = q]
      BY <2>1 DEF Begin, database
    <2>2. ASSUME NEW i \in Inspections, Arrive(w, i)
          PROVE  \E h, sent : Begin(w, h, i, sent)
      BY <2>2 DEF Arrive, BeginUpdate, BeginChangeStatus, BeginDecision,
                  BeginRemove, BeginCreateDamageReport
    <2>3. ASSUME NEW r \in Reports, BeginRemoveDamageReport(w, r)
          PROVE  /\ request[w] = NoRequest
                 /\ UNCHANGED <<inspection, report, unflagged>>
                 /\ \E q : /\ q.step = "writing"
                           /\ request' = [request EXCEPT ![w] = q]
      BY <2>3 DEF BeginRemoveDamageReport, database
    <2>4. QED
      BY <2>1, <2>2, <2>3
  <1>2. PICK q : q.step = "writing" /\ request' = [request EXCEPT ![w] = q]
    BY <1>1
  <1>3. request' \in [Workers -> InFlight \cup {NoRequest}] /\ request'[w] = q
    <2>1. Inv'
      BY ArriveInv, BeginRemoveDamageReportInv
    <2>2. QED
      BY <1>2, <2>1 DEF Inv, TypeOK
  <1>4. q \in InFlight
    BY <1>2, <1>3 DEF NoRequest
  <1>5. QED
    BY <1>1, <1>2, <1>4, BeginDamage

LEMMA WriteRowDamage ==
    ASSUME OneAtATime, "NO" \notin Flags, Inv, DamageInv, NEW w \in Workers,
           request[w] # NoRequest, request[w].step = "writing", WriteRow(w)
    PROVE  DamageInv'
  <1>1. TypeOK /\ request[w].inspection \in Inspections /\ request[w].sent \in Dto
    BY ServedRequest DEF Inv
  <1>2. PICK i \in Inspections, sent \in Dto :
            i = request[w].inspection /\ sent = request[w].sent
    BY <1>1
  <1>3. /\ Exists(i) /\ inspection[i] \in Row
        /\ inspection' = [inspection EXCEPT ![i] = written(inspection[i], sent)]
        /\ inspection \in [Inspections -> Row \cup {Absent, Gone}]
        /\ Answer(w) /\ UNCHANGED <<report, unflagged>>
    BY <1>1, <1>2, RowOfExisting DEF WriteRow, TypeOK
  <1>4. written(inspection[i], sent).hasVisibleDamage =
            sentOrKept(sent.hasVisibleDamage, inspection[i].hasVisibleDamage)
    BY <1>3 DEF written, Row
  <1>5. sent.hasVisibleDamage \in {Unset, "YES"}
    BY InspectionConstants DEF Dto, YesNo
  <1>6. inspection[i].hasVisibleDamage = "YES" =>
            inspection'[i].hasVisibleDamage = "YES"
    BY <1>3, <1>4, <1>5 DEF sentOrKept
  <1>7. \A j \in Inspections : j # i => inspection'[j] = inspection[j]
    BY <1>3
  <1>8. QED
    BY <1>3, <1>6, <1>7, AnswerDamage

LEMMA RecordDecisionDamage ==
    ASSUME OneAtATime, Inv, DamageInv, NEW w \in Workers,
           request[w] # NoRequest, request[w].step = "writing", RecordDecision(w)
    PROVE  DamageInv'
  <1>1. TypeOK /\ request[w].inspection \in Inspections
    BY ServedRequest DEF Inv
  <1>2. PICK i, d :
            /\ i \in Inspections /\ i = request[w].inspection
            /\ d = decision(request[w].handler)
    BY <1>1
  <1>3. /\ Exists(i) /\ inspection[i] \in Row
        /\ inspection' = [inspection EXCEPT
                             ![i] = [inspection[i] EXCEPT !.approvalStatus = d]]
        /\ inspection \in [Inspections -> Row \cup {Absent, Gone}]
        /\ Answer(w) /\ UNCHANGED <<report, unflagged>>
    BY <1>1, <1>2, RowOfExisting DEF RecordDecision, TypeOK
  <1>4. [inspection[i] EXCEPT !.approvalStatus = d].hasVisibleDamage
            = inspection[i].hasVisibleDamage
    BY <1>3 DEF Row
  <1>5. \A j \in Inspections :
            inspection'[j].hasVisibleDamage = inspection[j].hasVisibleDamage
    BY <1>3, <1>4
  <1>6. QED
    BY <1>3, <1>5, AnswerDamage

LEMMA CommitRemoveDamage ==
    ASSUME OneAtATime, Inv, DamageInv, NEW w \in Workers, CommitRemove(w)
    PROVE  DamageInv'
  <1>1. /\ TypeOK /\ request[w] # NoRequest /\ request[w].step = "writing"
        /\ request[w].inspection \in Inspections
    BY ServedRequest DEF Inv, CommitRemove, Serving
  <1>2. PICK i \in Inspections : i = request[w].inspection
    BY <1>1
  <1>3. /\ inspection' = [inspection EXCEPT ![i] = Gone]
        /\ report' = [r \in Reports |->
                         IF report[r] = i THEN Deleted ELSE report[r]]
        /\ Answer(w) /\ unflagged' = unflagged
        /\ inspection \in [Inspections -> Row \cup {Absent, Gone}]
    BY <1>1, <1>2 DEF CommitRemove, TypeOK
  <1>4. ASSUME NEW r \in Reports, report'[r] \in Inspections
        PROVE  /\ report'[r] = report[r]
               /\ inspection'[report[r]] = inspection[report[r]]
    BY <1>3, <1>4, InspectionConstants
  <1>5. QED
    BY <1>1, <1>3, <1>4, AnswerDamage

LEMMA InsertDamage ==
    ASSUME OneAtATime, Inv, DamageInv, NEW w \in Workers, NEW r \in Reports,
           InsertDamageReport(w, r)
    PROVE  DamageInv'
  <1>1. /\ TypeOK /\ request[w] \in InFlight /\ request[w].step = "writing"
        /\ request[w].handler = "createDamageReport"
        /\ request[w].inspection \in Inspections
        /\ report' = [report EXCEPT ![r] = request[w].inspection]
        /\ request' = [request EXCEPT ![w].step = "flagging", ![w].report = r]
        /\ UNCHANGED <<inspection, unflagged>>
    BY ServedRequest DEF Inv, InsertDamageReport, Serving
  <1>2. PICK i, q :
            /\ i \in Inspections /\ i = request[w].inspection
            /\ q = [request[w] EXCEPT !.step = "flagging", !.report = r]
    BY <1>1
  <1>3. /\ q \in InFlight /\ q.step = "flagging" /\ q.inspection = i
        /\ q.handler = "createDamageReport" /\ q.report = r /\ q # NoRequest
    <2>1. /\ q \in InFlight /\ q.step = "flagging" /\ q.inspection = i
          /\ q.handler = "createDamageReport" /\ q.report = r
      BY <1>1, <1>2 DEF InFlight
    <2>2. QED
      BY <2>1 DEF NoRequest
  <1>4. request' = [request EXCEPT ![w] = q]
    BY <1>1, <1>2 DEF TypeOK
  <1>5. \A u \in Workers : request'[u] = q /\ u = w
    BY <1>3, <1>4, OnlyRequest
  <1>6. \A s \in Reports : ~Flagging(s)
    BY <1>1, <1>5 DEF Flagging, Serving
  <1>7. report'[r] = i /\ Flagging(r)'
    <2>1. report'[r] = i
      BY <1>1, <1>2 DEF TypeOK
    <2>2. QED
      BY <1>3, <1>5, <2>1 DEF Flagging, Serving
  <1>8. \A u \in Workers : ~Clearing(u)'
    BY <1>3, <1>5 DEF Clearing, Serving
  <1>9. ASSUME NEW s \in Reports \ unflagged', report'[s] \in Inspections
        PROVE  \/ inspection'[report'[s]].hasVisibleDamage = "YES"
               \/ Flagging(s)'
    <2>1. CASE s = r
      BY <1>7, <2>1
    <2>2. CASE s # r
      <3>1. report'[s] = report[s] /\ s \in Reports \ unflagged
        BY <1>1, <1>9, <2>2 DEF TypeOK
      <3>2. QED
        BY <1>1, <1>6, <1>9, <3>1 DEF DamageInv
    <2>3. QED
      BY <2>1, <2>2
  <1>10. QED
    BY <1>8, <1>9 DEF DamageInv

LEMMA CountDamage ==
    ASSUME OneAtATime, Inv, DamageInv, NEW w \in Workers,
           CountRemainingReports(w)
    PROVE  DamageInv'
  <1>1. /\ TypeOK /\ request[w] \in InFlight /\ request[w] # NoRequest
        /\ request[w].step = "counting"
        /\ request[w].handler = "removeDamageReport"
        /\ UNCHANGED <<inspection, report, unflagged>>
    BY ServedRequest DEF Inv, CountRemainingReports, Serving, database
  <1>2. CASE Answer(w)
    BY <1>1, <1>2, AnswerDamage
  <1>3. CASE /\ clearsFlag(reportsOf(request[w].inspection))
             /\ Proceed(w, "clearing")
    <2>1. PICK i, q :
              /\ i \in Inspections /\ i = request[w].inspection
              /\ q = [request[w] EXCEPT !.step = "clearing"]
      BY <1>1 DEF InFlight
    <2>2. /\ q \in InFlight /\ q.step = "clearing" /\ q.inspection = i
          /\ q.handler = "removeDamageReport"
      BY <1>1, <2>1 DEF InFlight
    <2>3. request' = [request EXCEPT ![w] = q]
      BY <1>1, <1>3, <2>1 DEF Proceed, TypeOK
    <2>4. \A u \in Workers : request'[u] = q /\ u = w
      BY <2>2, <2>3, OnlyRequest
    <2>5. \A r \in Reports : report[r] # i
      <3>1. IsFiniteSet(reportsOf(i)) /\ Cardinality(reportsOf(i)) = 0
        <4>1. reportsOf(i) \subseteq Reports
          BY DEF reportsOf
        <4>2. IsFiniteSet(reportsOf(i))
          BY <4>1, InspectionConstants, FS_Subset
        <4>3. QED
          BY <1>3, <2>1, <4>2 DEF clearsFlag
      <3>2. reportsOf(i) = {}
        BY <3>1, FS_EmptySet
      <3>3. QED
        BY <3>2 DEF reportsOf
    <2>6. \A r \in Reports : ~Flagging(r)
      BY <1>1, <2>4 DEF Flagging, Serving
    <2>7. \A r \in Reports \ unflagged' : report'[r] \in Inspections =>
              inspection'[report'[r]].hasVisibleDamage = "YES"
      BY <1>1, <2>6 DEF DamageInv
    <2>8. \A u \in Workers : \A r \in Reports :
              report'[r] # request'[u].inspection
      BY <1>1, <2>2, <2>4, <2>5
    <2>9. QED
      BY <2>7, <2>8 DEF DamageInv
  <1>4. QED
    BY <1>2, <1>3 DEF CountRemainingReports

LEMMA DeleteDamage ==
    ASSUME OneAtATime, Inv, DamageInv, NEW w \in Workers, DeleteDamageReport(w)
    PROVE  DamageInv'
  <1>1. /\ TypeOK /\ request[w] \in InFlight /\ request[w].step = "writing"
        /\ request[w].handler = "removeDamageReport"
        /\ report' = [report EXCEPT ![request[w].report] = Deleted]
        /\ request' = [request EXCEPT ![w].step = "counting"]
        /\ UNCHANGED <<inspection, unflagged>>
    BY ServedRequest DEF Inv, DeleteDamageReport, Serving, Proceed
  <1>2. PICK q : q = [request[w] EXCEPT !.step = "counting"]
    OBVIOUS
  <1>3. q \in InFlight /\ q.step = "counting"
    BY <1>1, <1>2 DEF InFlight
  <1>4. request' = [request EXCEPT ![w] = q]
    BY <1>1, <1>2 DEF TypeOK
  <1>5. \A u \in Workers : request'[u] = q /\ u = w
    BY <1>3, <1>4, OnlyRequest
  <1>6. \A r \in Reports : ~Flagging(r)
    BY <1>1, <1>5 DEF Flagging, Serving
  <1>7. \A u \in Workers : ~Clearing(u)'
    BY <1>3, <1>5 DEF Clearing, Serving
  <1>8. \A r \in Reports : report'[r] \in Inspections => report'[r] = report[r]
    BY <1>1, InspectionConstants DEF TypeOK
  <1>9. QED
    BY <1>1, <1>6, <1>7, <1>8, DamageKept

LEMMA SetFlagDamage ==
    ASSUME OneAtATime, Inv, DamageInv, NEW w \in Workers,
           FlagDamage(w) \/ ClearFlag(w)
    PROVE  DamageInv'
  <1>1. PICK flag \in YesNo :
            /\ TypeOK /\ request[w] # NoRequest
            /\ request[w].inspection \in Inspections
            /\ SetFlag(w, flag)
            /\ \/ flag = "YES"
               \/ request[w].step # "flagging" /\ Clearing(w)
    BY ServedRequest DEF Inv, FlagDamage, ClearFlag, Clearing, Serving, YesNo
  <1>2. PICK i \in Inspections : i = request[w].inspection
    BY <1>1
  <1>3. /\ Exists(i) /\ inspection[i] \in Row
        /\ inspection' = [inspection EXCEPT ![i].hasVisibleDamage = flag]
        /\ inspection \in [Inspections -> Row \cup {Absent, Gone}]
        /\ request' = [request EXCEPT ![w] = NoRequest]
        /\ UNCHANGED <<report, unflagged>>
    BY <1>1, <1>2, RowOfExisting DEF SetFlag, Answer, TypeOK
  <1>4. /\ inspection'[i].hasVisibleDamage = flag
        /\ \A j \in Inspections : j # i => inspection'[j] = inspection[j]
    BY <1>3 DEF Row
  <1>5. \A u \in Workers : request'[u] = NoRequest /\ u = w
    BY <1>3, OnlyRequest
  <1>6. ASSUME NEW r \in Reports \ unflagged, report[r] \in Inspections
        PROVE  inspection'[report[r]].hasVisibleDamage = "YES"
    <2>1. CASE report[r] = i
      BY <1>1, <1>2, <1>4, <2>1 DEF DamageInv
    <2>2. CASE report[r] # i
      <3>1. ~Flagging(r)
        BY <1>2, <1>5, <2>2 DEF Flagging
      <3>2. QED
        BY <1>4, <1>6, <2>2, <3>1 DEF DamageInv
    <2>3. QED
      BY <2>1, <2>2
  <1>7. \A u \in Workers : ~Clearing(u)'
    BY <1>5 DEF Clearing, Serving
  <1>8. QED
    BY <1>3, <1>6, <1>7 DEF DamageInv

\* A request that fails after its report was inserted leaves the report among
\* the unflagged ones.
LEMMA FailDamage ==
    ASSUME OneAtATime, Inv, DamageInv, NEW w \in Workers, Fail(w)
    PROVE  DamageInv'
  <1>1. /\ request[w] # NoRequest /\ Answer(w)
        /\ UNCHANGED <<inspection, report>>
        /\ unflagged \subseteq unflagged'
        /\ Serving(w, "flagging", "createDamageReport") =>
               request[w].report \in unflagged'
    BY DEF Fail, database
  <1>2. \A u \in Workers : request'[u] = NoRequest /\ u = w
    BY <1>1, OnlyRequest DEF Answer
  <1>3. \A r \in Reports \ unflagged' : ~Flagging(r)
    BY <1>1, <1>2 DEF Flagging
  <1>4. \A u \in Workers : ~Clearing(u)'
    BY <1>2 DEF Clearing, Serving
  <1>5. QED
    BY <1>1, <1>3, <1>4, DamageKept

\* An inspection that is created has no reports yet.
LEMMA CreateDamage ==
    ASSUME Inv, DamageInv, NEW i \in Inspections, Create(i)
    PROVE  DamageInv'
  <1>1. /\ TypeOK /\ ~Exists(i) /\ UNCHANGED <<report, request, unflagged>>
        /\ \A j \in Inspections : j # i => inspection'[j] = inspection[j]
    BY DEF Inv, Create, TypeOK, Exists, Absent, InspectionStatus, NotCreated
  <1>2. \A r \in Reports : report[r] # i
    BY <1>1 DEF Inv, ReportsOK
  <1>3. /\ \A r \in Reports : Flagging(r) => Flagging(r)'
        /\ \A w \in Workers : Clearing(w)' =>
               Clearing(w) /\ request[w].inspection \in Inspections
    BY <1>1, ServedRequest DEF Flagging, Clearing, Serving
  <1>4. QED
    BY <1>1, <1>2, <1>3, DamageKept

LEMMA DamageStep ==
    ASSUME OneAtATime, "NO" \notin Flags, Inv, DamageInv, [Next]_vars
    PROVE  DamageInv'
  <1>1. ASSUME NEW w \in Workers, Serve(w)
        PROVE  DamageInv'
    <2>1. CASE CommitUpdate(w) \/ CommitChangeStatus(w)
      BY <2>1, WriteRowDamage DEF CommitUpdate, CommitChangeStatus, Serving
    <2>2. CASE CommitApprove(w) \/ CommitReject(w) \/ CommitRevokeApproval(w)
      BY <2>2, RecordDecisionDamage DEF CommitApprove, CommitReject,
         CommitRevokeApproval, Serving
    <2>3. QED
      BY <1>1, <2>1, <2>2, CommitRemoveDamage, InsertDamage, SetFlagDamage,
         DeleteDamage, CountDamage, FailDamage DEF Serve
  <1>2. ASSUME UNCHANGED <<inspection, report, request, unflagged>>
        PROVE  DamageInv'
    BY <1>2 DEF DamageInv, Flagging, Clearing, Serving
  <1>3. CASE \/ UNCHANGED vars
             \/ \E v \in Vehicles, to \in VehicleStatus : MoveVehicle(v, to)
    BY <1>2, <1>3 DEF vars, database, MoveVehicle
  <1>4. QED
    BY <1>1, <1>3, ArriveDamage, CreateDamage DEF Next

\* Served one at a time, and as long as no caller says that there is no damage,
\* inserting a report and setting the flag, and deleting the last report and
\* clearing it, leave no inspection with reports and without the flag, whichever
\* query of them fails: but for a report whose own request failed between its
\* insert and the flag.
THEOREM DamageShownAlways ==
    ASSUME OneAtATime, "NO" \notin Flags
    PROVE  Spec => []DamageShown
  <1>1. Init => DamageInv
    BY InspectionConstants DEF Init, DamageInv, Clearing, Serving
  <1>2. Inv /\ DamageInv /\ [Next]_vars => DamageInv'
    BY DamageStep
  <1>3. Inv /\ DamageInv => DamageShown
    <2> SUFFICES ASSUME DamageInv, NEW i \in Inspections, 
                        NEW r \in Reports \ unflagged, report[r] = i,
                        \A w \in Workers : request[w] = NoRequest
                 PROVE  inspection[i].hasVisibleDamage = "YES"
      BY DEF DamageShown, reportsOf
    <2>1. ~Flagging(r)
      BY DEF Flagging, Serving
    <2>2. QED
      BY <2>1 DEF DamageInv
  <1>4. QED
    BY <1>1, <1>2, <1>3, InitInv, NextInv, PTL DEF Spec

=============================================================================
