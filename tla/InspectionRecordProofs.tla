----------------------- MODULE InspectionRecordProofs -----------------------
(***************************************************************************)
(* Theorems about InspectionRecord: both histories of an inspection are    *)
(* paths that end in the values the inspection has.                        *)
(***************************************************************************)
EXTENDS InspectionRecord, TLAPS

\* What the theorems say of one inspection with the given values.
StatusPath(history, x) ==
    x \in InspectionStatus =>
        /\ Len(history) > 0
        /\ history[1].fromStatus = Null
        /\ history[Len(history)].toStatus = x
        /\ isChain(history)
        /\ \A k \in 2 .. Len(history) :
               history[k].toStatus \in allowedTransitions(history[k].fromStatus)

ApprovalPath(history, d) ==
    /\ isChain(history)
    /\ \A k \in 1 .. Len(history) :
           history[k].fromStatus # history[k].toStatus
    /\ IF history = <<>>
       THEN d = "PENDING"
       ELSE /\ history[1].fromStatus = "PENDING"
            /\ history[Len(history)].toStatus = d

RecordInv ==
    /\ RecordTypeOK
    /\ \A i \in Inspections : StatusPath(statusHistory[i], status[i])
    /\ \A i \in Inspections : ApprovalPath(approvalHistory[i], approval[i])
    /\ \A i \in Inspections : status[i] = NotCreated =>
           approval[i] = "PENDING" /\ approvalHistory[i] = <<>>

-----------------------------------------------------------------------------
(* Histories as sequences *)

\* What appending an entry does to a history.
LEMMA AppendEntry ==
    ASSUME NEW S, NEW h \in Seq(S), NEW e \in S
    PROVE  /\ Append(h, e) \in Seq(S)
           /\ Len(Append(h, e)) = Len(h) + 1
           /\ Append(h, e)[Len(h) + 1] = e
           /\ \A k \in 1 .. Len(h) : Append(h, e)[k] = h[k]
           /\ Len(h) \in Nat
           /\ Append(h, e) # <<>>
           /\ h = <<>> <=> Len(h) = 0
  OBVIOUS

\* A chain stays one when the new entry starts where it ends.
LEMMA ChainGrows ==
    ASSUME NEW S, NEW h \in Seq(S), NEW e \in S, isChain(h),
           Len(h) > 0 => e.fromStatus = h[Len(h)].toStatus
    PROVE  isChain(Append(h, e))
  <1> DEFINE g == Append(h, e)
  <1>1. /\ Len(g) = Len(h) + 1 /\ g[Len(h) + 1] = e
        /\ \A k \in 1 .. Len(h) : g[k] = h[k]
        /\ Len(h) \in Nat
    BY AppendEntry
  <1>2. SUFFICES ASSUME NEW k \in 1 .. Len(h)
                 PROVE  g[k + 1].fromStatus = g[k].toStatus
    BY <1>1 DEF isChain
  <1>3. CASE k = Len(h)
    BY <1>1, <1>3
  <1>4. CASE k < Len(h)
    <2>1. k \in 1 .. Len(h) - 1 /\ k + 1 \in 1 .. Len(h)
      BY <1>1, <1>4
    <2>2. h[k + 1].fromStatus = h[k].toStatus
      BY <2>1 DEF isChain
    <2>3. QED
      BY <1>1, <2>1, <2>2
  <1>5. QED
    BY <1>1, <1>3, <1>4

LEMMA StatusPathGrows ==
    ASSUME NEW h \in Seq(StatusEntry), NEW x \in InspectionStatus,
           NEW t \in InspectionStatus, StatusPath(h, x),
           t \in allowedTransitions(x)
    PROVE  /\ Append(h, Entry(x, t)) \in Seq(StatusEntry)
           /\ StatusPath(Append(h, Entry(x, t)), t)
  <1> DEFINE e == Entry(x, t)
             g == Append(h, e)
  <1>1. e \in StatusEntry /\ e.fromStatus = x /\ e.toStatus = t
    BY DEF Entry, StatusEntry
  <1>2. /\ g \in Seq(StatusEntry)
        /\ Len(g) = Len(h) + 1 /\ g[Len(h) + 1] = e
        /\ \A k \in 1 .. Len(h) : g[k] = h[k]
        /\ Len(h) \in Nat
    BY <1>1, AppendEntry
  <1>3. /\ Len(h) > 0 /\ h[1].fromStatus = Null
        /\ h[Len(h)].toStatus = x /\ isChain(h)
        /\ \A k \in 2 .. Len(h) :
               h[k].toStatus \in allowedTransitions(h[k].fromStatus)
    BY DEF StatusPath
  <1>4. isChain(g)
    BY <1>1, <1>3, ChainGrows
  <1>5. ASSUME NEW k \in 2 .. Len(g)
        PROVE  g[k].toStatus \in allowedTransitions(g[k].fromStatus)
    <2>1. CASE k = Len(h) + 1
      BY <1>1, <1>2, <2>1
    <2>2. CASE k \in 2 .. Len(h)
      BY <1>2, <1>3, <2>2
    <2>3. QED
      BY <1>2, <2>1, <2>2
  <1>6. g[1].fromStatus = Null /\ g[Len(g)].toStatus = t
    BY <1>1, <1>2, <1>3
  <1>7. QED
    BY <1>2, <1>4, <1>5, <1>6 DEF StatusPath

LEMMA ApprovalPathGrows ==
    ASSUME NEW h \in Seq(ApprovalEntry), NEW x \in InspectionApprovalStatus,
           NEW d \in InspectionApprovalStatus, ApprovalPath(h, x), x # d
    PROVE  /\ Append(h, Entry(x, d)) \in Seq(ApprovalEntry)
           /\ ApprovalPath(Append(h, Entry(x, d)), d)
  <1> DEFINE e == Entry(x, d)
             g == Append(h, e)
  <1>1. e \in ApprovalEntry /\ e.fromStatus = x /\ e.toStatus = d
    BY DEF Entry, ApprovalEntry
  <1>2. /\ g \in Seq(ApprovalEntry) /\ g # <<>>
        /\ Len(g) = Len(h) + 1 /\ g[Len(h) + 1] = e
        /\ \A k \in 1 .. Len(h) : g[k] = h[k]
        /\ Len(h) \in Nat
        /\ h = <<>> <=> Len(h) = 0
    BY <1>1, AppendEntry
  <1>3. Len(h) > 0 => h[Len(h)].toStatus = x /\ h[1].fromStatus = "PENDING"
    BY <1>2 DEF ApprovalPath
  <1>4. isChain(g)
    BY <1>1, <1>3, ChainGrows DEF ApprovalPath
  <1>5. ASSUME NEW k \in 1 .. Len(g)
        PROVE  g[k].fromStatus # g[k].toStatus
    <2>1. CASE k = Len(h) + 1
      BY <1>1, <1>2, <2>1
    <2>2. CASE k \in 1 .. Len(h)
      BY <1>2, <2>2 DEF ApprovalPath
    <2>3. QED
      BY <1>2, <2>1, <2>2
  <1>6. g[1].fromStatus = "PENDING"
    <2>1. CASE Len(h) = 0
      BY <1>1, <1>2, <2>1 DEF ApprovalPath
    <2>2. CASE Len(h) > 0
      BY <1>2, <1>3, <2>2
    <2>3. QED
      BY <1>2, <2>1, <2>2
  <1>7. g[Len(g)].toStatus = d
    BY <1>1, <1>2
  <1>8. QED
    BY <1>2, <1>4, <1>5, <1>6, <1>7 DEF ApprovalPath

-----------------------------------------------------------------------------
(* One lemma per action *)

LEMMA OpenInv ==
    ASSUME RecordInv, NEW i \in Inspections, NEW t \in InspectionStatus,
           Open(i, t)
    PROVE  RecordInv'
  <1> DEFINE e == Entry(Null, t)
  <1>1. e \in StatusEntry /\ e.fromStatus = Null /\ e.toStatus = t
    BY DEF Entry, StatusEntry
  <1>2. /\ <<e>> \in Seq(StatusEntry) /\ Len(<<e>>) = 1 /\ <<e>>[1] = e
    BY <1>1
  <1>3. StatusPath(<<e>>, t)
    BY <1>1, <1>2 DEF StatusPath, isChain
  <1>4. /\ RecordTypeOK
        /\ status' = [status EXCEPT ![i] = t]
        /\ statusHistory' = [statusHistory EXCEPT ![i] = <<e>>]
        /\ UNCHANGED <<approval, approvalHistory>>
    BY DEF Open, RecordInv
  <1>5. RecordTypeOK'
    BY <1>2, <1>4 DEF RecordTypeOK
  <1>6. ASSUME NEW j \in Inspections
        PROVE  /\ StatusPath(statusHistory[j], status[j])'
               /\ ApprovalPath(approvalHistory[j], approval[j])'
               /\ status'[j] = NotCreated =>
                      approval'[j] = "PENDING" /\ approvalHistory'[j] = <<>>
    <2>1. CASE j = i
      BY <1>3, <1>4, <2>1
         DEF RecordInv, RecordTypeOK, InspectionStatus, NotCreated
    <2>2. CASE j # i
      BY <1>4, <2>2 DEF RecordInv, RecordTypeOK
    <2>3. QED
      BY <2>1, <2>2
  <1>7. QED
    BY <1>5, <1>6 DEF RecordInv

LEMMA AdvanceInv ==
    ASSUME RecordInv, NEW i \in Inspections, NEW t \in InspectionStatus,
           Advance(i, t)
    PROVE  RecordInv'
  <1> DEFINE g == Append(statusHistory[i], Entry(status[i], t))
  <1>1. /\ RecordTypeOK
        /\ status[i] \in InspectionStatus
        /\ t \in allowedTransitions(status[i])
        /\ status' = [status EXCEPT ![i] = t]
        /\ statusHistory' = [statusHistory EXCEPT ![i] = g]
        /\ UNCHANGED <<approval, approvalHistory>>
    BY DEF Advance, RecordInv
  <1>2. g \in Seq(StatusEntry) /\ StatusPath(g, t)
    BY <1>1, StatusPathGrows DEF RecordInv, RecordTypeOK
  <1>3. RecordTypeOK'
    BY <1>1, <1>2 DEF RecordTypeOK
  <1>4. ASSUME NEW j \in Inspections
        PROVE  /\ StatusPath(statusHistory[j], status[j])'
               /\ ApprovalPath(approvalHistory[j], approval[j])'
               /\ status'[j] = NotCreated =>
                      approval'[j] = "PENDING" /\ approvalHistory'[j] = <<>>
    <2>1. CASE j = i
      BY <1>1, <1>2, <2>1
         DEF RecordInv, RecordTypeOK, InspectionStatus, NotCreated
    <2>2. CASE j # i
      BY <1>1, <2>2 DEF RecordInv, RecordTypeOK
    <2>3. QED
      BY <2>1, <2>2
  <1>5. QED
    BY <1>3, <1>4 DEF RecordInv

LEMMA DecideInv ==
    ASSUME RecordInv, NEW i \in Inspections,
           NEW d \in InspectionApprovalStatus, Decide(i, d)
    PROVE  RecordInv'
  <1> DEFINE g == Append(approvalHistory[i], Entry(approval[i], d))
  <1>1. /\ RecordTypeOK
        /\ status[i] # NotCreated
        /\ approval[i] # d
        /\ approval' = [approval EXCEPT ![i] = d]
        /\ approvalHistory' = [approvalHistory EXCEPT ![i] = g]
        /\ UNCHANGED <<status, statusHistory>>
    BY DEF Decide, RecordInv, InspectionStatus, NotCreated
  <1>2. g \in Seq(ApprovalEntry) /\ ApprovalPath(g, d)
    BY <1>1, ApprovalPathGrows DEF RecordInv, RecordTypeOK
  <1>3. RecordTypeOK'
    BY <1>1, <1>2 DEF RecordTypeOK
  <1>4. ASSUME NEW j \in Inspections
        PROVE  /\ StatusPath(statusHistory[j], status[j])'
               /\ ApprovalPath(approvalHistory[j], approval[j])'
               /\ status'[j] = NotCreated =>
                      approval'[j] = "PENDING" /\ approvalHistory'[j] = <<>>
    <2>1. CASE j = i
      BY <1>1, <1>2, <2>1 DEF RecordInv, RecordTypeOK
    <2>2. CASE j # i
      BY <1>1, <2>2 DEF RecordInv, RecordTypeOK
    <2>3. QED
      BY <2>1, <2>2
  <1>5. QED
    BY <1>3, <1>4 DEF RecordInv

LEMMA DiscardInv ==
    ASSUME RecordInv, NEW i \in Inspections, Discard(i)
    PROVE  RecordInv'
  <1>1. /\ <<>> \in Seq(StatusEntry) /\ <<>> \in Seq(ApprovalEntry)
        /\ Len(<<>>) = 0
    OBVIOUS
  <1>2. ApprovalPath(<<>>, "PENDING")
    BY <1>1 DEF ApprovalPath, isChain
  <1>3. RecordTypeOK'
    BY <1>1 DEF RecordInv, RecordTypeOK, Discard, InspectionApprovalStatus
  <1>4. ASSUME NEW j \in Inspections
        PROVE  /\ StatusPath(statusHistory[j], status[j])'
               /\ ApprovalPath(approvalHistory[j], approval[j])'
               /\ status'[j] = NotCreated =>
                      approval'[j] = "PENDING" /\ approvalHistory'[j] = <<>>
    <2>1. CASE j = i
      BY <1>2, <2>1 DEF RecordInv, RecordTypeOK, Discard, StatusPath,
                        InspectionStatus, NotCreated, Deleted
    <2>2. CASE j # i
      BY <2>2 DEF RecordInv, RecordTypeOK, Discard
    <2>3. QED
      BY <2>1, <2>2
  <1>5. QED
    BY <1>3, <1>4 DEF RecordInv

-----------------------------------------------------------------------------

\* The histories of an inspection are paths that end in the values it has,
\* for any number of inspections and requests of any order.
THEOREM HistoriesArePathsAlways == Spec => []HistoriesArePaths
  <1>1. Init => RecordInv
    <2>1. /\ <<>> \in Seq(StatusEntry) /\ <<>> \in Seq(ApprovalEntry)
          /\ Len(<<>>) = 0
      OBVIOUS
    <2>2. ApprovalPath(<<>>, "PENDING")
      BY <2>1 DEF ApprovalPath, isChain
    <2>3. QED
      BY <2>1, <2>2 DEF Init, RecordInv, RecordTypeOK, StatusPath,
                        InspectionStatus, InspectionApprovalStatus, NotCreated
  <1>2. RecordInv /\ [Next]_record => RecordInv'
    <2> SUFFICES ASSUME RecordInv, [Next]_record PROVE RecordInv'
      OBVIOUS
    <2>1. CASE UNCHANGED record
      BY <2>1 DEF record, RecordInv, RecordTypeOK, StatusPath, ApprovalPath,
                  isChain
    <2>2. CASE Next
      BY <2>2, OpenInv, AdvanceInv, DecideInv, DiscardInv DEF Next
    <2>3. QED
      BY <2>1, <2>2
  <1>3. RecordInv => HistoriesArePaths
    BY DEF RecordInv, HistoriesArePaths,
           StatusHistoryIsPath, ApprovalHistoryIsPath, StatusPath,
           ApprovalPath
  <1>4. QED
    BY <1>1, <1>2, <1>3, PTL DEF Spec

=============================================================================
