------------------------------ MODULE WebProofs ------------------------------
(***************************************************************************)
(* Theorems about the pages of MCWeb: after the lists and the pages of     *)
(* WebPagesProofs the panels of a shipment and of a vehicle, the page of   *)
(* one inspection, and one invariant for all of them from which every      *)
(* safety property of the pages follows.                                   *)
(***************************************************************************)
EXTENDS WebPagesProofs

-----------------------------------------------------------------------------
(* The tracking of one shipment *)

\* The calls of the page are those of WebCalls.
LEMMA TrackingCalls ==
    /\ trackingPanel!underWay = underWay /\ trackingPanel!underWay' = underWay'
    /\ trackingPanel!Slots = Slots
    /\ \A ops : /\ trackingPanel!callsOf(ops) = callsOf(ops)
                /\ trackingPanel!callsOf(ops)' = callsOf(ops)'
    /\ \A op, arg : trackingPanel!Sent(op, arg) = Sent(op, arg)
    /\ \A op, arg : trackingPanel!Call(op, arg) <=> Call(op, arg)
    /\ \A i : trackingPanel!Finish(i) <=> Finish(i)
    /\ \A i, op, arg : trackingPanel!Continue(i, op, arg) <=> Continue(i, op, arg)
    /\ \A c : trackingPanel!placed(trackingPanel!NoCalls, c) = placed(NoCalls, c)
    /\ \A i : trackingPanel!answered(i) <=> answered(i)
    /\ \A i : trackingPanel!waiting(i) <=> waiting(i)
    /\ \A i, data : trackingPanel!Reply(i, data) <=> Succeed(i, data) \/ Fail(i)
    /\ \A i : trackingPanel!Fail(i) <=> Fail(i)
    /\ trackingPanel!freeSlot = freeSlot
  <1> USE DEF trackingPanel!NoCall, NoCall
  <1>1. trackingPanel!Slots = Slots /\ trackingPanel!underWay = underWay
    BY DEF trackingPanel!underWay, trackingPanel!Slots, underWay, Slots
  <1>2. trackingPanel!underWay' = underWay'
    BY DEF trackingPanel!underWay, trackingPanel!Slots, underWay, Slots
  <1>3. \A ops : /\ trackingPanel!callsOf(ops) = callsOf(ops)
                 /\ trackingPanel!callsOf(ops)' = callsOf(ops)'
    BY <1>1, <1>2 DEF trackingPanel!callsOf, callsOf
  <1>4. \A op, arg : trackingPanel!Sent(op, arg) = Sent(op, arg)
    BY DEF trackingPanel!Sent, Sent
  <1>5. \A op, arg : trackingPanel!Call(op, arg) <=> Call(op, arg)
    BY <1>1, <1>4 DEF trackingPanel!Call, Call, trackingPanel!mayCall, mayCall,
                      trackingPanel!placed, placed, trackingPanel!firstFree, firstFree
  <1>6. \A i : trackingPanel!Finish(i) <=> Finish(i)
    BY DEF trackingPanel!Finish, Finish
  <1>7. \A i, op, arg : trackingPanel!Continue(i, op, arg) <=> Continue(i, op, arg)
    BY <1>4 DEF trackingPanel!Continue, Continue
  <1>8. \A c : trackingPanel!placed(trackingPanel!NoCalls, c) = placed(NoCalls, c)
    BY <1>1
    DEF trackingPanel!placed, placed, trackingPanel!firstFree, firstFree, trackingPanel!NoCalls,
        NoCalls
  <1>9. \A i : trackingPanel!answered(i) <=> answered(i)
    BY <1>1 DEF trackingPanel!answered, answered
  <1>10. \A i : trackingPanel!waiting(i) <=> waiting(i)
    BY <1>1 DEF trackingPanel!waiting, waiting
  <1>11. \A i, data : trackingPanel!Reply(i, data) <=> Succeed(i, data) \/ Fail(i)
    BY DEF trackingPanel!Reply, trackingPanel!Succeed, Succeed, trackingPanel!Fail, Fail,
       trackingPanel!Answer, Answer
  <1>12. \A i : trackingPanel!Fail(i) <=> Fail(i)
    BY DEF trackingPanel!Fail, Fail, trackingPanel!Answer, Answer
  <1>13. trackingPanel!freeSlot = freeSlot
    BY <1>1 DEF trackingPanel!freeSlot, freeSlot, trackingPanel!firstFree, firstFree
  <1>14. QED
    BY <1>1, <1>2, <1>3, <1>4, <1>5, <1>6, <1>7, <1>8, <1>9, <1>10, <1>11, <1>12, <1>13

TrackingEntry == trackingPanel!Entry

TrackingUi ==
    [events: Seq(TrackingEntry), isLoading: BOOLEAN, error: BOOLEAN, form: trackingPanel!Form,
     isSubmitting: BOOLEAN, formError: BOOLEAN,
     mine: Nat, newest: Slots \cup {None}, overtaken: BOOLEAN]

TrackingLoads == {"first", "load"}

\* An entry of the log shows no milestone as done that lies ahead of status s.
passed(e, s) ==
    \A n \in 1 .. 8 : \A m \in 1 .. n :
        /\ trackingPanel!milestones[n] = e
        /\ trackingPanel!milestones[m] # "CUSTOMS_CLEARANCE"
        => trackingPanel!milestones[m] \notin shipmentScreen!statusesAfter(s)

\* The entries of a log are of the past of status s.
past(log, s) == log \in Seq(TrackingEntry) /\ \A k \in 1 .. Len(log) : passed(log[k], s)

TrackingBusy ==
    /\ ui.isSubmitting <=> callsOf({"create"}) # {}
    /\ \A i, j \in callsOf({"create"}) : i = j
    /\ ui.isLoading => callsOf(TrackingLoads) # {}

\* The log is never shorter than the operator was told, and so is what the load
\* finds that was sent last.
TrackingTruth ==
    /\ past(db.log, db.status) /\ past(ui.events, db.status) /\ ui.mine <= Len(db.log)
    /\ \A i \in callsOf({"create"}) :
           calls[i].step = "answered" /\ calls[i].ok =>
               calls[i].data \in Nat /\ calls[i].data <= Len(db.log)
    /\ ui.newest \in callsOf(TrackingLoads) \cup {None}
    /\ \A i \in callsOf(TrackingLoads) :
           calls[i].step = "answered" /\ calls[i].ok =>
               /\ past(calls[i].data, db.status)
               /\ i = ui.newest => ui.mine <= Len(calls[i].data)
    /\ ui.newest = None /\ ~ui.error /\ ~ui.overtaken => ui.mine <= Len(ui.events)

TrackingInv ==
    /\ CallsOK /\ ui \in TrackingUi /\ db \in [status: ScreenStatus, log: Seq(TrackingEntry)]
    /\ \A i \in underWay : calls[i].op \in {"first", "load", "create"}
    /\ TrackingBusy /\ TrackingTruth

\* The milestones come in the order of the way, but for the customs.
LEMMA MilestonesInOrder ==
    ASSUME NEW n \in 1 .. 8, NEW m \in 1 .. n,
           trackingPanel!milestones[m] # "CUSTOMS_CLEARANCE"
    PROVE  place(trackingPanel!milestones[m]) <= place(trackingPanel!milestones[n])
  <1> DEFINE at == <<3, 4, 8, 5, 6, 7, 9, 10>>
  <1>1. \A k \in 1 .. 8 : place(trackingPanel!milestones[k]) = at[k]
    BY DEF trackingPanel!milestones, place
  <1>2. m # 3
    BY DEF trackingPanel!milestones
  <1>3. m \in 1 .. 8
    OBVIOUS
  <1>4. at[m] <= at[n]
    BY <1>2, <1>3
  <1>5. QED
    BY <1>1, <1>3, <1>4

\* What a transition writes into the log is of the past at once, and what was of
\* the past stays so.
LEMMA PastStays ==
    ASSUME NEW s, NEW t, shipmentScreen!isShipmentTransitionAllowed(s, t)
    PROVE  /\ passed(t, t)
           /\ \A log : past(log, s) => past(log, t)
  <1>1. \A x : x \in shipmentScreen!statusesAfter(t) => x \in shipmentScreen!statusesAfter(s)
    <2>1. ASSUME NEW x, x \in shipmentScreen!statusesAfter(t)
          PROVE  x \in shipmentScreen!statusesAfter(s)
      <3>1. place(t) # 0 /\ place(x) > place(t)
        BY <2>1, AheadIsLater
      <3>2. t # "CANCELLED"
        BY <3>1 DEF place
      <3>3. place(s) # 0 /\ place(t) = place(s) + 1
        BY <3>2, TransitionsGoOn
      <3>4. place(x) > place(s)
        BY <3>1, <3>3, PlacesOnWay
      <3>5. QED
        BY <3>3, <3>4, AheadIsLater
    <2>2. QED
      BY <2>1
  <1>2. passed(t, t)
    <2>1. SUFFICES ASSUME NEW n \in 1 .. 8, NEW m \in 1 .. n,
                          trackingPanel!milestones[n] = t,
                          trackingPanel!milestones[m] # "CUSTOMS_CLEARANCE"
                   PROVE  trackingPanel!milestones[m] \notin shipmentScreen!statusesAfter(t)
      BY DEF passed
    <2>2. place(trackingPanel!milestones[m]) <= place(t)
      BY <2>1, MilestonesInOrder
    <2>3. QED
      BY <2>2, AheadIsLater, PlacesOnWay
  <1>3. QED
    BY <1>1, <1>2 DEF past, passed

\* An event that is no change of status shows nothing as done.
LEMMA NotesAreNoMilestones ==
    ASSUME PagesConstants, NEW s
    PROVE  passed(None, s)
  <1>1. \A n \in 1 .. 8 : trackingPanel!milestones[n] # None
    BY DEF PagesConstants, trackingPanel!milestones, shipmentScreen!ShipmentStatus
  <1>2. QED
    BY <1>1 DEF passed

LEMMA PastGrows ==
    ASSUME NEW log, NEW s, NEW e \in TrackingEntry, past(log, s), passed(e, s)
    PROVE  past(Append(log, e), s) /\ Len(Append(log, e)) = Len(log) + 1
  BY DEF past

\* The shipment moves on, and its log grows.
LEMMA TrackingMoves ==
    ASSUME TrackingInv, db' \in [status: ScreenStatus, log: Seq(TrackingEntry)],
           past(db'.log, db'.status), Len(db'.log) >= Len(db.log),
           \A log : past(log, db.status) => past(log, db'.status),
           ui' = ui, calls' = calls
    PROVE  TrackingInv'
  <1>1. underWay' = underWay /\ \A ops : callsOf(ops)' = callsOf(ops)
    BY CallsStay
  <1>2. Len(db.log) \in Nat /\ Len(db'.log) \in Nat /\ ui.mine \in Nat
    BY DEF TrackingInv, TrackingUi
  <1>3. TrackingTruth'
    BY <1>1, <1>2 DEF TrackingInv, TrackingTruth, TrackingLoads
  <1>4. TrackingBusy'
    BY <1>1 DEF TrackingInv, TrackingBusy, TrackingLoads
  <1>5. QED
    BY <1>1, <1>3, <1>4 DEF TrackingInv, CallsOK

LEMMA TrackingSomebodyElse ==
    ASSUME PagesConstants, TrackingInv, trackingPanel!SomebodyElse
    PROVE  TrackingInv'
  <1>1. /\ db \in [status: ScreenStatus, log: Seq(TrackingEntry)] /\ past(db.log, db.status)
        /\ ui' = ui /\ calls' = calls
    BY DEF TrackingInv, TrackingTruth, trackingPanel!SomebodyElse
  <1>2. Len(db.log) \in Nat
    BY <1>1
  <1>3. ASSUME NEW t \in trackingPanel!ShipmentStatus,
               trackingPanel!isShipmentTransitionAllowed(db.status, t),
               db' = [status |-> t, log |-> IF t \in trackingPanel!controlledWorkflowStatuses
                                            THEN Append(db.log, t) ELSE db.log]
        PROVE  TrackingInv'
    <2>1. /\ shipmentScreen!isShipmentTransitionAllowed(db.status, t)
          /\ t \in ScreenStatus /\ t \in TrackingEntry
      BY <1>3
      DEF trackingPanel!isShipmentTransitionAllowed, trackingPanel!SHIPMENT_WORKFLOW_TRANSITIONS,
         shipmentScreen!isShipmentTransitionAllowed, shipmentScreen!SHIPMENT_WORKFLOW_TRANSITIONS,
         TrackingEntry, trackingPanel!Entry, ScreenStatus, shipmentScreen!ShipmentStatus,
         trackingPanel!ShipmentStatus
    <2>2. passed(t, t) /\ \A log : past(log, db.status) => past(log, t)
      BY <2>1, PastStays
    <2>3. past(Append(db.log, t), t) /\ Len(Append(db.log, t)) = Len(db.log) + 1
      BY <1>1, <2>1, <2>2, PastGrows
    <2>4. past(db'.log, t) /\ Len(db'.log) >= Len(db.log) /\ db'.status = t
      BY <1>1, <1>2, <1>3, <2>2, <2>3
    <2>5. db' \in [status: ScreenStatus, log: Seq(TrackingEntry)]
      BY <1>1, <1>3, <2>1
    <2>6. QED
      BY <1>1, <2>2, <2>4, <2>5, TrackingMoves
  <1>4. CASE db' = [db EXCEPT !.log = Append(@, None)]
    <2>1. None \in TrackingEntry /\ passed(None, db.status)
      BY NotesAreNoMilestones DEF TrackingEntry, trackingPanel!Entry
    <2>2. past(Append(db.log, None), db.status) /\ Len(Append(db.log, None)) = Len(db.log) + 1
      BY <1>1, <2>1, PastGrows
    <2>3. db'.log = Append(db.log, None) /\ db'.status = db.status
      BY <1>1, <1>4
    <2>4. db' \in [status: ScreenStatus, log: Seq(TrackingEntry)]
      <3>1. Append(db.log, None) \in Seq(TrackingEntry)
        BY <1>1, <2>1
      <3>2. QED
        BY <1>1, <1>4, <3>1
    <2>5. QED
      BY <1>1, <1>2, <2>2, <2>3, <2>4, TrackingMoves
  <1>5. QED
    BY <1>3, <1>4 DEF trackingPanel!SomebodyElse

LEMMA TrackingServed ==
    ASSUME PagesConstants, TrackingInv, NEW i \in Slots,
           trackingPanel!ServeCreate(i) \/ trackingPanel!ServeLoad(i)
    PROVE  TrackingInv'
  <1>1. /\ i \in underWay /\ calls[i].step = "sent" /\ ui' = ui /\ CallsOK /\ ui \in TrackingUi
        /\ db \in [status: ScreenStatus, log: Seq(TrackingEntry)] /\ past(db.log, db.status)
    BY TrackingCalls DEF TrackingInv, TrackingTruth, trackingPanel!ServeCreate,
       trackingPanel!ServeLoad, waiting
  <1>2. Len(db.log) \in Nat /\ ui.mine \in Nat
    BY <1>1 DEF TrackingUi
  <1>3. ASSUME NEW ok, NEW data,
               \/ ok = TRUE /\ Succeed(i, data)
               \/ ok = FALSE /\ data = None /\ Fail(i),
               db' \in [status: ScreenStatus, log: Seq(TrackingEntry)], db'.status = db.status,
               past(db'.log, db.status), Len(db'.log) >= Len(db.log),
               ok /\ calls[i].op = "create" => data \in Nat /\ data <= Len(db'.log),
               ok /\ calls[i].op \in TrackingLoads => data = db.log
        PROVE  TrackingInv'
    <2>1. /\ calls'[i].op = calls[i].op /\ calls'[i].ok = ok /\ calls'[i].data = data
          /\ CallsOK' /\ underWay' = underWay
          /\ \A j \in underWay : j # i => calls'[j] = calls[j]
          /\ \A ops : callsOf(ops)' = callsOf(ops)
      BY <1>1, <1>3, CallServed
    <2>2. /\ callsOf({"create"})' = callsOf({"create"})
          /\ callsOf(TrackingLoads)' = callsOf(TrackingLoads)
      BY <2>1 DEF TrackingLoads
    <2>3. Len(db'.log) \in Nat
      BY <1>3
    <2>4. \A j \in callsOf({"create"}) :
              calls'[j].step = "answered" /\ calls'[j].ok =>
                  calls'[j].data \in Nat /\ calls'[j].data <= Len(db'.log)
      BY <1>2, <1>3, <2>1, <2>3 DEF TrackingInv, TrackingTruth, callsOf
    <2>5. \A j \in callsOf(TrackingLoads) :
              calls'[j].step = "answered" /\ calls'[j].ok =>
                  /\ past(calls'[j].data, db.status)
                  /\ j = ui.newest => ui.mine <= Len(calls'[j].data)
      <3>1. ASSUME NEW j \in callsOf(TrackingLoads), j # i
            PROVE  calls'[j] = calls[j]
        BY <2>1, <3>1 DEF callsOf
      <3>2. i \in callsOf(TrackingLoads) /\ ok => data = db.log
        BY <1>3 DEF callsOf
      <3>3. ui.mine <= Len(db.log)
        BY DEF TrackingInv, TrackingTruth
      <3>4. QED
        BY <1>1, <2>1, <3>1, <3>2, <3>3 DEF TrackingInv, TrackingTruth
    <2>6. TrackingTruth'
      BY <1>1, <1>2, <1>3, <2>2, <2>3, <2>4, <2>5 DEF TrackingInv, TrackingTruth
    <2>7. TrackingBusy'
      BY <1>1, <2>2 DEF TrackingInv, TrackingBusy
    <2>8. \A j \in underWay' : calls'[j].op \in {"first", "load", "create"}
      BY <2>1 DEF TrackingInv
    <2>9. QED
      BY <1>1, <1>3, <2>1, <2>6, <2>7, <2>8 DEF TrackingInv
  <1>4. CASE trackingPanel!ServeCreate(i)
    <2>1. calls[i].op = "create" /\ calls[i].op \notin TrackingLoads
      BY <1>4 DEF trackingPanel!ServeCreate, TrackingLoads
    <2>2. CASE /\ db' = [db EXCEPT !.log = Append(@, None)]
               /\ Succeed(i, Len(db.log) + 1) \/ Fail(i)
      <3>1. None \in TrackingEntry /\ passed(None, db.status)
        BY NotesAreNoMilestones DEF TrackingEntry, trackingPanel!Entry
      <3>2. past(Append(db.log, None), db.status) /\ Len(Append(db.log, None)) = Len(db.log) + 1
        BY <1>1, <3>1, PastGrows
      <3>3. db'.log = Append(db.log, None) /\ db'.status = db.status
        BY <1>1, <2>2
      <3>4. db' \in [status: ScreenStatus, log: Seq(TrackingEntry)]
        <4>1. Append(db.log, None) \in Seq(TrackingEntry)
          BY <1>1, <3>1
        <4>2. QED
          BY <1>1, <2>2, <4>1
      <3>5. /\ past(db'.log, db.status) /\ Len(db'.log) >= Len(db.log)
            /\ Len(db.log) + 1 \in Nat /\ Len(db.log) + 1 <= Len(db'.log)
        BY <1>2, <3>2, <3>3
      <3>6. CASE Succeed(i, Len(db.log) + 1)
        BY <1>3, <2>1, <3>3, <3>4, <3>5, <3>6
      <3>7. CASE Fail(i)
        BY <1>3, <2>1, <3>3, <3>4, <3>5, <3>7
      <3>8. QED
        BY <2>2, <3>6, <3>7
    <2>3. CASE Fail(i) /\ db' = db
      <3>1. /\ db' \in [status: ScreenStatus, log: Seq(TrackingEntry)] /\ db'.status = db.status
            /\ past(db'.log, db.status) /\ Len(db'.log) >= Len(db.log)
        BY <1>1, <1>2, <2>3
      <3>2. QED
        BY <1>3, <2>3, <3>1
    <2>4. QED
      BY <1>4, <2>2, <2>3, TrackingCalls DEF trackingPanel!ServeCreate
  <1>5. CASE trackingPanel!ServeLoad(i)
    <2>1. /\ calls[i].op \in TrackingLoads /\ calls[i].op # "create" /\ db' = db
          /\ Succeed(i, db.log) \/ Fail(i)
      BY <1>5, TrackingCalls DEF trackingPanel!ServeLoad, TrackingLoads
    <2>2. /\ db' \in [status: ScreenStatus, log: Seq(TrackingEntry)] /\ db'.status = db.status
          /\ past(db'.log, db.status) /\ Len(db'.log) >= Len(db.log)
      BY <1>1, <1>2, <2>1
    <2>3. CASE Succeed(i, db.log)
      BY <1>3, <2>1, <2>2, <2>3
    <2>4. CASE Fail(i)
      BY <1>3, <2>1, <2>2, <2>4
    <2>5. QED
      BY <2>1, <2>3, <2>4
  <1>6. QED
    BY <1>4, <1>5

\* A step of the form that sends nothing.
LEMMA TrackingForms ==
    ASSUME TrackingInv, ui' \in TrackingUi, db' = db, calls' = calls,
           ui'.events = ui.events, ui'.isLoading = ui.isLoading, ui'.error = ui.error,
           ui'.isSubmitting = ui.isSubmitting, ui'.mine = ui.mine, ui'.newest = ui.newest,
           ui'.overtaken = ui.overtaken
    PROVE  TrackingInv'
  <1>1. underWay' = underWay /\ \A ops : callsOf(ops)' = callsOf(ops)
    BY CallsStay
  <1>2. TrackingTruth'
    BY <1>1 DEF TrackingInv, TrackingTruth, TrackingLoads
  <1>3. TrackingBusy'
    BY <1>1 DEF TrackingInv, TrackingBusy, TrackingLoads
  <1>4. QED
    BY <1>1, <1>2, <1>3 DEF TrackingInv, CallsOK

LEMMA TrackingOperator ==
    ASSUME WebConstants, TrackingInv, trackingPanel!Operator
    PROVE  TrackingInv'
  <1>1. /\ ui \in TrackingUi /\ CallsOK /\ TrackingBusy /\ TrackingTruth
        /\ ui.form \in trackingPanel!Form
        /\ \A i \in underWay : calls[i].op \in {"first", "load", "create"}
        /\ db \in [status: ScreenStatus, log: Seq(TrackingEntry)]
    BY DEF TrackingInv, TrackingUi
  <1>2. callsOf(TrackingLoads) \subseteq underWay /\ callsOf({"create"}) \subseteq underWay
    BY DEF callsOf
  <1>3. CASE trackingPanel!TryAgain
    <2>1. /\ Call("load", None) /\ db' = db
          /\ ui' = [ui EXCEPT !.isLoading = TRUE, !.error = FALSE, !.newest = freeSlot]
      BY <1>3, TrackingCalls DEF trackingPanel!TryAgain
    <2>2. PICK k \in Slots :
            /\ k = freeSlot /\ k \notin underWay /\ underWay' = underWay \cup {k}
            /\ CallsOK' /\ calls'[k].step = "sent" /\ calls'[k].op = "load"
            /\ \A i \in underWay : i # k /\ calls'[i] = calls[i]
            /\ \A ops : callsOf(ops)' = IF "load" \in ops THEN callsOf(ops) \cup {k} ELSE callsOf(ops)
      BY <1>1, <2>1, CallSent
    <2> /\ callsOf(TrackingLoads)' = callsOf(TrackingLoads) \cup {k}
        /\ callsOf({"create"})' = callsOf({"create"})
      BY <2>2 DEF TrackingLoads
    <2>3. /\ ui' \in TrackingUi /\ ui'.newest = k /\ ui'.isSubmitting = ui.isSubmitting
          /\ ui'.events = ui.events /\ ui'.mine = ui.mine
      BY <1>1, <2>1, <2>2 DEF TrackingUi
    <2>4. TrackingBusy'
      BY <1>1, <2>2, <2>3 DEF TrackingBusy
    <2>5. TrackingTruth'
      BY <1>1, <1>2, <2>1, <2>2, <2>3, NullIsNoSlot DEF TrackingTruth
    <2>6. QED
      BY <1>1, <2>1, <2>2, <2>3, <2>4, <2>5 DEF TrackingInv
  <1>4. ASSUME NEW form \in trackingPanel!Form, trackingPanel!Edit(form)
        PROVE  TrackingInv'
    BY <1>1, <1>4, TrackingForms DEF trackingPanel!Edit, TrackingUi
  <1>5. CASE trackingPanel!handleEventTypeChange
    BY <1>1, <1>4, <1>5
    DEF trackingPanel!handleEventTypeChange, trackingPanel!Form, trackingPanel!EventTypes
  <1>6. CASE trackingPanel!handleStatusChange
    <2>1. PICK chosen \in BOOLEAN :
              trackingPanel!Edit([ui.form EXCEPT !.status = chosen, !.title = @ \/ chosen])
      BY <1>6 DEF trackingPanel!handleStatusChange
    <2> DEFINE t == ui.form.title \/ chosen
    <2>2. t \in BOOLEAN /\ trackingPanel!Edit([ui.form EXCEPT !.status = chosen, !.title = t])
      BY <2>1
    <2> HIDE DEF t
    <2>3. [ui.form EXCEPT !.status = chosen, !.title = t] \in trackingPanel!Form
      BY <1>1, <2>2 DEF trackingPanel!Form
    <2>4. QED
      BY <1>4, <2>2, <2>3
  <1>7. CASE trackingPanel!updateField
    BY <1>1, <1>4, <1>7 DEF trackingPanel!updateField, trackingPanel!Form
  <1>8. CASE trackingPanel!handleSubmit
    <2>1. CASE Call("create", ui.form) /\ db' = db /\ ui.isSubmitting = FALSE
               /\ ui' = [ui EXCEPT !.isSubmitting = TRUE, !.formError = FALSE]
      <3>1. PICK k \in Slots :
              /\ k \notin underWay /\ underWay' = underWay \cup {k}
              /\ CallsOK' /\ calls'[k].step = "sent" /\ calls'[k].op = "create"
              /\ \A i \in underWay : i # k /\ calls'[i] = calls[i]
              /\ callsOf(TrackingLoads)' = callsOf(TrackingLoads)
              /\ callsOf({"create"})' = callsOf({"create"}) \cup {k}
        BY <1>1, <2>1, CallSent DEF TrackingLoads
      <3>2. /\ ui' \in TrackingUi /\ ui'.newest = ui.newest /\ ui'.isSubmitting
            /\ ui'.events = ui.events /\ ui'.mine = ui.mine /\ ui'.isLoading = ui.isLoading
            /\ ui'.error = ui.error /\ ui'.overtaken = ui.overtaken
        BY <1>1, <2>1 DEF TrackingUi
      <3>3. callsOf({"create"}) = {}
        BY <1>1, <2>1 DEF TrackingBusy
      <3>4. TrackingBusy'
        BY <1>1, <3>1, <3>2, <3>3 DEF TrackingBusy
      <3>5. TrackingTruth'
        BY <1>1, <1>2, <2>1, <3>1, <3>2, <3>3 DEF TrackingTruth
      <3>6. QED
        BY <1>1, <2>1, <3>1, <3>2, <3>4, <3>5 DEF TrackingInv
    <2>2. CASE ui' = [ui EXCEPT !.formError = TRUE] /\ calls' = calls /\ db' = db
      BY <1>1, <2>2, TrackingForms DEF TrackingUi
    <2>3. ui.isSubmitting \in BOOLEAN
      BY <1>1 DEF TrackingUi
    <2>4. QED
      BY <1>8, <2>1, <2>2, <2>3, TrackingCalls
      DEF trackingPanel!handleSubmit, trackingPanel!maySubmit
  <1>9. QED
    BY <1>3, <1>5, <1>6, <1>7, <1>8 DEF trackingPanel!Operator

LEMMA TrackingLoadArrives ==
    ASSUME WebConstants, TrackingInv, NEW i \in Slots, trackingPanel!LoadArrives(i)
    PROVE  TrackingInv'
  <1> DEFINE c == calls[i]
             n == IF i = ui.newest THEN None ELSE ui.newest
             o == i # ui.newest
             e == ui.error /\ c.op = "load"
             u == [ui EXCEPT !.isLoading = FALSE, !.newest = n, !.overtaken = o]
  <1>1. /\ i \in underWay /\ c.step = "answered" /\ c.op \in TrackingLoads /\ Finish(i) /\ db' = db
        /\ ui' = IF c.ok THEN [u EXCEPT !.events = c.data, !.error = e]
                 ELSE [u EXCEPT !.error = TRUE]
    BY TrackingCalls DEF trackingPanel!LoadArrives, answered, TrackingLoads
  <1>2. /\ ui \in TrackingUi /\ CallsOK /\ TrackingBusy /\ TrackingTruth
        /\ \A j \in underWay : calls[j].op \in {"first", "load", "create"}
        /\ db \in [status: ScreenStatus, log: Seq(TrackingEntry)]
    BY DEF TrackingInv
  <1>3. i \in callsOf(TrackingLoads) /\ i \notin callsOf({"create"})
    BY <1>1 DEF callsOf, TrackingLoads
  <1>4. /\ CallsOK' /\ underWay' = underWay \ {i}
        /\ \A j \in underWay' : calls'[j] = calls[j]
        /\ \A ops : callsOf(ops)' = callsOf(ops) \ {i}
    BY <1>1, <1>2, CallTaken
  <1> /\ callsOf(TrackingLoads)' = callsOf(TrackingLoads) \ {i}
      /\ callsOf({"create"})' = callsOf({"create"})
    BY <1>3, <1>4 DEF TrackingLoads
  <1>5. /\ n \in Slots \cup {None} /\ o \in BOOLEAN /\ e \in BOOLEAN
        /\ c.ok => past(c.data, db.status) /\ c.data \in Seq(TrackingEntry)
    BY <1>1, <1>2, <1>3 DEF TrackingUi, TrackingTruth, past
  <1>6. i = ui.newest /\ c.ok => ui.mine <= Len(c.data)
    BY <1>1, <1>2, <1>3 DEF TrackingTruth
  <1>7. i = ui.newest => n = None
    OBVIOUS
  <1>8. i # ui.newest => n = ui.newest /\ o = TRUE
    OBVIOUS
  <1> HIDE DEF n, o, e
  <1>9. /\ u \in TrackingUi /\ u.isLoading = FALSE /\ u.newest = n /\ u.overtaken = o
        /\ u.mine = ui.mine /\ u.events = ui.events /\ u.isSubmitting = ui.isSubmitting
    BY <1>2, <1>5 DEF TrackingUi
  <1> HIDE DEF u, c
  <1>10. /\ ui' \in TrackingUi /\ ui'.isLoading = FALSE /\ ui'.newest = n /\ ui'.overtaken = o
         /\ ui'.mine = ui.mine /\ ui'.isSubmitting = ui.isSubmitting
         /\ c.ok => ui'.events = c.data
         /\ ~c.ok => ui'.events = ui.events /\ ui'.error = TRUE
    BY <1>1, <1>5, <1>9 DEF TrackingUi
  <1>11. TrackingBusy'
    BY <1>2, <1>4, <1>10 DEF TrackingBusy
  <1>12. callsOf(TrackingLoads) \subseteq underWay /\ callsOf({"create"}) \subseteq underWay
    BY DEF callsOf
  <1>13. past(ui'.events, db.status)
    BY <1>2, <1>5, <1>10 DEF TrackingTruth
  <1>14. \A j \in callsOf({"create"})' : calls'[j] = calls[j]
    BY <1>1, <1>3, <1>4, <1>12
  <1>15. \A j \in callsOf(TrackingLoads)' : calls'[j] = calls[j] /\ j # i
    BY <1>1, <1>4, <1>12
  <1>16. TrackingTruth'
    <2>1. CASE i = ui.newest
      <3>1. ui'.newest = None /\ \A j \in callsOf(TrackingLoads)' : j # ui'.newest
        BY <1>7, <1>10, <1>12, <1>4, <2>1, NullIsNoSlot
      <3>2. c.ok => ui'.mine <= Len(ui'.events)
        BY <1>6, <1>10, <2>1
      <3>3. QED
        BY <1>1, <1>2, <1>10, <1>13, <1>14, <1>15, <3>1, <3>2 DEF TrackingTruth
    <2>2. CASE i # ui.newest
      BY <1>1, <1>2, <1>4, <1>8, <1>10, <1>13, <1>14, <1>15, <2>2 DEF TrackingTruth
    <2>3. QED
      BY <2>1, <2>2
  <1>17. QED
    BY <1>1, <1>2, <1>4, <1>10, <1>11, <1>16 DEF TrackingInv

LEMMA TrackingCreateAnswered ==
    ASSUME WebConstants, TrackingInv, NEW i \in Slots, trackingPanel!CreateAnswered(i)
    PROVE  TrackingInv'
  <1>1. i \in underWay /\ calls[i].step = "answered" /\ calls[i].op = "create" /\ db' = db
    BY TrackingCalls DEF trackingPanel!CreateAnswered, answered
  <1>2. /\ ui \in TrackingUi /\ CallsOK /\ TrackingBusy /\ TrackingTruth
        /\ \A j \in underWay : calls[j].op \in {"first", "load", "create"}
        /\ db \in [status: ScreenStatus, log: Seq(TrackingEntry)]
    BY DEF TrackingInv
  <1>3. i \in callsOf({"create"}) /\ i \notin callsOf(TrackingLoads)
    BY <1>1 DEF callsOf, TrackingLoads
  <1>4. callsOf(TrackingLoads) \subseteq underWay /\ callsOf({"create"}) \ {i} = {}
    BY <1>2, <1>3 DEF callsOf, TrackingBusy
  <1>5. CASE calls[i].ok
    <2>1. /\ Continue(i, "load", None)
          /\ ui' = [ui EXCEPT !.form = trackingPanel!initialFormState, !.isSubmitting = FALSE,
                              !.error = FALSE, !.mine = calls[i].data, !.newest = i]
      BY <1>5, TrackingCalls DEF trackingPanel!CreateAnswered
    <2>2. /\ CallsOK' /\ underWay' = underWay /\ calls'[i].step = "sent" /\ calls'[i].op = "load"
          /\ \A j \in underWay : j # i => calls'[j] = calls[j]
          /\ callsOf(TrackingLoads)' = callsOf(TrackingLoads) \cup {i}
          /\ callsOf({"create"})' = callsOf({"create"}) \ {i}
      BY <1>1, <1>2, <2>1, CallGoesOn DEF TrackingLoads
    <2>3. calls[i].data \in Nat /\ calls[i].data <= Len(db.log)
      BY <1>1, <1>2, <1>3, <1>5 DEF TrackingTruth
    <2>4. trackingPanel!initialFormState \in trackingPanel!Form
      BY DEF trackingPanel!initialFormState, trackingPanel!Form, trackingPanel!EventTypes
    <2>5. /\ ui' \in TrackingUi /\ ui'.isSubmitting = FALSE /\ ui'.mine = calls[i].data
          /\ ui'.newest = i /\ ui'.events = ui.events /\ ui'.isLoading = ui.isLoading
      BY <1>1, <1>2, <2>1, <2>3, <2>4 DEF TrackingUi
    <2>6. TrackingBusy'
      BY <1>2, <1>4, <2>2, <2>5 DEF TrackingBusy
    <2>7. TrackingTruth'
      BY <1>1, <1>2, <1>3, <1>4, <2>2, <2>3, <2>5, NullIsNoSlot DEF TrackingTruth
    <2>8. QED
      BY <1>1, <1>2, <2>2, <2>5, <2>6, <2>7 DEF TrackingInv
  <1>6. CASE ~calls[i].ok
    <2>1. Finish(i) /\ ui' = [ui EXCEPT !.isSubmitting = FALSE, !.formError = TRUE]
      BY <1>6, TrackingCalls DEF trackingPanel!CreateAnswered
    <2>2. /\ CallsOK' /\ underWay' = underWay \ {i}
          /\ \A j \in underWay' : calls'[j] = calls[j]
          /\ \A ops : callsOf(ops)' = callsOf(ops) \ {i}
      BY <1>1, <1>2, <2>1, CallTaken
    <2> /\ callsOf(TrackingLoads)' = callsOf(TrackingLoads)
        /\ callsOf({"create"})' = callsOf({"create"}) \ {i}
      BY <1>3, <2>2 DEF TrackingLoads
    <2>3. /\ ui' \in TrackingUi /\ ui'.isSubmitting = FALSE /\ ui'.mine = ui.mine
          /\ ui'.newest = ui.newest /\ ui'.events = ui.events /\ ui'.isLoading = ui.isLoading
          /\ ui'.error = ui.error /\ ui'.overtaken = ui.overtaken
      BY <1>2, <2>1 DEF TrackingUi
    <2>4. TrackingBusy'
      BY <1>2, <1>4, <2>2, <2>3 DEF TrackingBusy
    <2>5. \A j \in callsOf(TrackingLoads) : calls'[j] = calls[j]
      BY <1>3, <1>4, <2>2
    <2>6. TrackingTruth'
      BY <1>1, <1>2, <1>4, <2>2, <2>3, <2>5 DEF TrackingTruth
    <2>7. QED
      BY <1>1, <1>2, <2>2, <2>3, <2>4, <2>6 DEF TrackingInv
  <1>7. QED
    BY <1>5, <1>6

LEMMA TrackingNext ==
    ASSUME WebConstants, PagesConstants, TrackingInv, trackingPanel!Next
    PROVE  TrackingInv'
  BY TrackingOperator, TrackingSomebodyElse, TrackingServed, TrackingLoadArrives,
     TrackingCreateAnswered, TrackingCalls DEF trackingPanel!Next

LEMMA TrackingInit ==
    ASSUME WebConstants, PagesConstants, trackingPanel!Init
    PROVE  TrackingInv
  <1>1. /\ db \in [status: ShipmentStatuses, log: {<<>>}] /\ calls = placed(NoCalls, Sent("first", None))
        /\ ui = [events |-> <<>>, isLoading |-> TRUE, error |-> FALSE,
                 form |-> trackingPanel!initialFormState, isSubmitting |-> FALSE, formError |-> FALSE,
                 mine |-> 0, newest |-> 1, overtaken |-> FALSE]
    BY TrackingCalls DEF trackingPanel!Init
  <1>2. /\ CallsOK /\ underWay = {1} /\ 1 \in Slots /\ calls[1].op = "first" /\ calls[1].step = "sent"
        /\ callsOf({"create"}) = {} /\ callsOf(TrackingLoads) = {1}
    BY <1>1, OpenedWith, CallIsSome DEF TrackingLoads
  <1>3. trackingPanel!initialFormState \in trackingPanel!Form
    BY DEF trackingPanel!initialFormState, trackingPanel!Form, trackingPanel!EventTypes
  <1>4. <<>> \in Seq(TrackingEntry) /\ Len(<<>>) = 0 /\ \A s : past(<<>>, s)
    BY DEF past
  <1>5. ui \in TrackingUi
    BY <1>1, <1>2, <1>3, <1>4 DEF TrackingUi
  <1>6. db \in [status: ScreenStatus, log: Seq(TrackingEntry)] /\ db.log = <<>>
    BY <1>1, <1>4 DEF PagesConstants, ScreenStatus
  <1>7. TrackingBusy /\ TrackingTruth
    BY <1>1, <1>2, <1>4, <1>6, NullIsNoSlot DEF TrackingBusy, TrackingTruth
  <1>8. QED
    BY <1>2, <1>5, <1>6, <1>7 DEF TrackingInv

\* A set of milestones has a last one.
LEMMA LastMilestone ==
    ASSUME NEW S, S \subseteq 1 .. 8, S # {}
    PROVE  \E x \in S : \A y \in S : x >= y
  <1> DEFINE up(n) == \A y \in S : y <= n
  <1>1. ASSUME NEW n \in 1 .. 8, up(n), n \notin S
        PROVE  n > 1 /\ up(n - 1)
    <2>1. \A y \in S : y \in 1 .. 8 /\ y <= n /\ y # n
      BY <1>1
    <2>2. PICK y \in S : y \in 1 .. 8 /\ y <= n /\ y # n
      BY <2>1
    <2>3. \A z \in S : z <= n - 1
      BY <2>1
    <2>4. QED
      BY <2>2, <2>3
  <1>2. up(8)
    OBVIOUS
  <1> HIDE DEF up
  <1>3. \E n \in 1 .. 8 : n \in S /\ up(n)
    BY <1>1, <1>2
  <1>4. QED
    BY <1>3 DEF up

LEMMA TrackingHolds ==
    ASSUME WebConstants, PagesConstants, TrackingInv
    PROVE  /\ trackingPanel!TypeOK /\ trackingPanel!BusyWhileUnderWay
           /\ trackingPanel!OwnStepIsShown /\ trackingPanel!MilestonesNotAhead
  <1>1. /\ ui \in TrackingUi /\ TrackingBusy /\ TrackingTruth /\ past(ui.events, db.status)
        /\ db \in [status: ScreenStatus, log: Seq(TrackingEntry)]
    BY DEF TrackingInv, TrackingTruth
  <1>2. trackingPanel!TypeOK
    BY <1>1, TrackingCalls DEF TrackingInv, TrackingUi, trackingPanel!TypeOK, TrackingEntry,
       ScreenStatus, shipmentScreen!ShipmentStatus, trackingPanel!ShipmentStatus
  <1>3. trackingPanel!BusyWhileUnderWay
    BY <1>1, TrackingCalls DEF TrackingBusy, TrackingLoads, trackingPanel!BusyWhileUnderWay
  <1>4. trackingPanel!OwnStepIsShown
    <2>1. underWay = {} => ui.newest = None
      BY <1>1 DEF TrackingTruth, callsOf
    <2>2. Len(trackingPanel!sortedEvents) = Len(ui.events)
      BY <1>1 DEF trackingPanel!sortedEvents, TrackingUi
    <2>3. Len(ui.events) \in Nat /\ ui.mine \in Nat
      BY <1>1 DEF TrackingUi
    <2>4. QED
      BY <1>1, <2>1, <2>2, <2>3, TrackingCalls DEF TrackingTruth, trackingPanel!OwnStepIsShown
  <1>5. trackingPanel!MilestonesNotAhead
    <2> DEFINE done == trackingPanel!completedIndexes
    <2>1. SUFFICES ASSUME NEW x \in trackingPanel!completed, x # "CUSTOMS_CLEARANCE"
                   PROVE  x \notin shipmentScreen!statusesAfter(db.status)
      BY DEF trackingPanel!MilestonesNotAhead, trackingPanel!statusesAfter,
         trackingPanel!shipmentWay,
         shipmentScreen!statusesAfter, shipmentScreen!shipmentWay
    <2>2. DOMAIN trackingPanel!milestones = 1 .. 8
      BY DEF trackingPanel!milestones
    <2>3. PICK m \in 1 .. 8 :
              x = trackingPanel!milestones[m] /\ m \in 1 .. trackingPanel!completedCount
      BY <2>2 DEF trackingPanel!completed
    <2>4. done # {} /\ done \subseteq 1 .. 8
      BY <2>2, <2>3 DEF trackingPanel!completedCount, trackingPanel!completedIndexes
    <2>5. PICK n \in done : n = trackingPanel!completedCount
      BY <2>4, LastMilestone DEF trackingPanel!completedCount
    <2>6. PICK k \in DOMAIN ui.events : ui.events[k] = trackingPanel!milestones[n]
      BY <2>5 DEF trackingPanel!completedIndexes
    <2>7. k \in 1 .. Len(ui.events)
      BY <1>1 DEF TrackingUi
    <2>8. passed(ui.events[k], db.status)
      BY <1>1, <2>7 DEF past
    <2>9. n \in 1 .. 8 /\ m \in 1 .. n
      BY <2>3, <2>4, <2>5
    <2>10. QED
      BY <2>1, <2>3, <2>6, <2>8, <2>9 DEF passed
  <1>6. QED
    BY <1>2, <1>3, <1>4, <1>5

-----------------------------------------------------------------------------
(* The messages of one shipment *)

\* The calls of the page are those of WebCalls.
LEMMA MessagesCalls ==
    /\ messagesPanel!underWay = underWay /\ messagesPanel!underWay' = underWay'
    /\ messagesPanel!Slots = Slots
    /\ \A ops : /\ messagesPanel!callsOf(ops) = callsOf(ops)
                /\ messagesPanel!callsOf(ops)' = callsOf(ops)'
    /\ \A op, arg : messagesPanel!Sent(op, arg) = Sent(op, arg)
    /\ \A op, arg : messagesPanel!Call(op, arg) <=> Call(op, arg)
    /\ \A i : messagesPanel!Finish(i) <=> Finish(i)
    /\ \A i : messagesPanel!answered(i) <=> answered(i)
    /\ \A i : messagesPanel!waiting(i) <=> waiting(i)
    /\ \A i, data : messagesPanel!Reply(i, data) <=> Succeed(i, data) \/ Fail(i)
    /\ \A i : messagesPanel!Fail(i) <=> Fail(i)
    /\ messagesPanel!freeSlot = freeSlot
    /\ messagesPanel!NoCalls = NoCalls
  <1> USE DEF messagesPanel!NoCall, NoCall
  <1>1. messagesPanel!Slots = Slots /\ messagesPanel!underWay = underWay
    BY DEF messagesPanel!underWay, messagesPanel!Slots, underWay, Slots
  <1>2. messagesPanel!underWay' = underWay'
    BY DEF messagesPanel!underWay, messagesPanel!Slots, underWay, Slots
  <1>3. \A ops : /\ messagesPanel!callsOf(ops) = callsOf(ops)
                 /\ messagesPanel!callsOf(ops)' = callsOf(ops)'
    BY <1>1, <1>2 DEF messagesPanel!callsOf, callsOf
  <1>4. \A op, arg : messagesPanel!Sent(op, arg) = Sent(op, arg)
    BY DEF messagesPanel!Sent, Sent
  <1>5. \A op, arg : messagesPanel!Call(op, arg) <=> Call(op, arg)
    BY <1>1, <1>4 DEF messagesPanel!Call, Call, messagesPanel!mayCall, mayCall,
                      messagesPanel!placed, placed, messagesPanel!firstFree, firstFree
  <1>6. \A i : messagesPanel!Finish(i) <=> Finish(i)
    BY DEF messagesPanel!Finish, Finish
  <1>7. \A i : messagesPanel!answered(i) <=> answered(i)
    BY <1>1 DEF messagesPanel!answered, answered
  <1>8. \A i : messagesPanel!waiting(i) <=> waiting(i)
    BY <1>1 DEF messagesPanel!waiting, waiting
  <1>9. \A i, data : messagesPanel!Reply(i, data) <=> Succeed(i, data) \/ Fail(i)
    BY DEF messagesPanel!Reply, messagesPanel!Succeed, Succeed, messagesPanel!Fail, Fail,
       messagesPanel!Answer, Answer
  <1>10. \A i : messagesPanel!Fail(i) <=> Fail(i)
    BY DEF messagesPanel!Fail, Fail, messagesPanel!Answer, Answer
  <1>11. messagesPanel!freeSlot = freeSlot
    BY <1>1 DEF messagesPanel!freeSlot, freeSlot, messagesPanel!firstFree, firstFree
  <1>12. messagesPanel!NoCalls = NoCalls
    BY <1>1 DEF messagesPanel!NoCalls, NoCalls
  <1>13. QED
    BY <1>1, <1>2, <1>3, <1>4, <1>5, <1>6, <1>7, <1>8, <1>9, <1>10, <1>11, <1>12

MessageChannels == messagesPanel!Channels

MessagesUi ==
    [items: 0 .. MaxRows, isLoading: BOOLEAN, timer: BOOLEAN, error: BOOLEAN,
     sending: SUBSET MessageChannels, sendError: SUBSET MessageChannels, mine: 0 .. MaxRows,
     newest: Slots \cup {None}, overtaken: BOOLEAN]

MessagesBusy ==
    /\ \A ch \in MessageChannels :
          /\ ch \in ui.sending <=> callsOf({ch}) # {}
          /\ \A i, j \in callsOf({ch}) : i = j
    /\ ui.isLoading => ui.timer \/ callsOf({"history"}) # {}

\* The history is never shorter than the operator was told; unless a load is about
\* to be sent, the one sent last was sent after that.
MessagesTruth ==
    /\ ui.mine <= db
    /\ \A i \in callsOf(MessageChannels) :
           calls[i].step = "answered" /\ calls[i].ok => calls[i].data \in 0 .. db
    /\ ui.newest \in callsOf({"history"}) \cup {None}
    /\ \A i \in callsOf({"history"}) :
           calls[i].step = "answered" /\ calls[i].ok =>
               /\ calls[i].data \in 0 .. MaxRows
               /\ i = ui.newest /\ ~ui.timer => ui.mine <= calls[i].data
    /\ ui.newest = None /\ ~ui.timer /\ ~ui.error /\ ~ui.overtaken => ui.mine <= ui.items

MessagesInv ==
    /\ CallsOK /\ ui \in MessagesUi /\ db \in 0 .. MaxRows
    /\ \A i \in underWay : calls[i].op \in {"history"} \cup MessageChannels
    /\ MessagesBusy /\ MessagesTruth

LEMMA MessagesNames ==
    /\ MessageChannels = {"email", "whatsapp"} /\ "history" \notin MessageChannels
    /\ \A ops : callsOf(ops) \subseteq underWay
  BY DEF MessageChannels, messagesPanel!Channels, callsOf

LEMMA MessagesServed ==
    ASSUME PagesConstants, MessagesInv, NEW i \in Slots,
           messagesPanel!ServeSend(i) \/ messagesPanel!ServeHistory(i)
    PROVE  MessagesInv'
  <1>1. /\ i \in underWay /\ calls[i].step = "sent" /\ ui' = ui /\ CallsOK /\ ui \in MessagesUi
        /\ db \in 0 .. MaxRows /\ MaxRows \in Nat /\ MessagesBusy /\ MessagesTruth
        /\ ui.mine \in Nat
    BY MessagesCalls DEF MessagesInv, messagesPanel!ServeSend, MessagesUi,
       messagesPanel!ServeHistory, waiting, PagesConstants
  <1>2. ASSUME NEW ok \in BOOLEAN, NEW data,
               \/ ok = TRUE /\ Succeed(i, data)
               \/ ok = FALSE /\ data = None /\ Fail(i),
               db' \in 0 .. MaxRows, db <= db',
               ok /\ calls[i].op \in MessageChannels => data \in 0 .. db',
               ok /\ calls[i].op = "history" => data = db
        PROVE  MessagesInv'
    <2>1. /\ calls'[i].op = calls[i].op /\ calls'[i].ok = ok /\ calls'[i].data = data
          /\ CallsOK' /\ underWay' = underWay
          /\ \A j \in underWay : j # i => calls'[j] = calls[j]
          /\ \A ops : callsOf(ops)' = callsOf(ops)
      BY <1>1, <1>2, CallServed
    <2>2. \A j \in callsOf(MessageChannels) :
              calls'[j].step = "answered" /\ calls'[j].ok => calls'[j].data \in 0 .. db'
      BY <1>1, <1>2, <2>1 DEF MessagesTruth, callsOf
    <2>3. \A j \in callsOf({"history"}) :
              calls'[j].step = "answered" /\ calls'[j].ok =>
                  /\ calls'[j].data \in 0 .. MaxRows
                  /\ j = ui.newest /\ ~ui.timer => ui.mine <= calls'[j].data
      <3>1. ASSUME NEW j \in callsOf({"history"}), j # i
            PROVE  calls'[j] = calls[j]
        BY <2>1, <3>1 DEF callsOf
      <3>2. i \in callsOf({"history"}) /\ ok => data = db
        BY <1>2 DEF callsOf
      <3>3. QED
        BY <1>1, <2>1, <3>1, <3>2 DEF MessagesTruth
    <2>4. MessagesTruth'
      BY <1>1, <1>2, <2>1, <2>2, <2>3 DEF MessagesTruth, MessageChannels
    <2>5. MessagesBusy'
      BY <1>1, <2>1 DEF MessagesBusy
    <2>6. \A j \in underWay' : calls'[j].op \in {"history"} \cup MessageChannels
      BY <2>1 DEF MessagesInv
    <2>7. QED
      BY <1>1, <1>2, <2>1, <2>4, <2>5, <2>6 DEF MessagesInv
  <1>3. CASE messagesPanel!ServeSend(i)
    <2>1. calls[i].op \in MessageChannels /\ calls[i].op # "history"
      BY <1>3, MessagesNames DEF messagesPanel!ServeSend, MessageChannels
    <2>2. CASE db < MaxRows /\ db' = db + 1 /\ (Succeed(i, db + 1) \/ Fail(i))
      <3>1. db' \in 0 .. MaxRows /\ db <= db' /\ db + 1 \in 0 .. db'
        BY <1>1, <2>2
      <3>2. CASE Succeed(i, db + 1)
        BY <1>2, <2>1, <3>1, <3>2
      <3>3. CASE Fail(i)
        BY <1>2, <2>1, <3>1, <3>3
      <3>4. QED
        BY <2>2, <3>2, <3>3
    <2>3. CASE Fail(i) /\ db' = db
      <3>1. db' \in 0 .. MaxRows /\ db <= db'
        BY <1>1, <2>3
      <3>2. QED
        BY <1>2, <2>1, <2>3, <3>1
    <2>4. QED
      BY <1>3, <2>2, <2>3, MessagesCalls DEF messagesPanel!ServeSend
  <1>4. CASE messagesPanel!ServeHistory(i)
    <2>1. /\ calls[i].op = "history" /\ calls[i].op \notin MessageChannels /\ db' = db
          /\ Succeed(i, db) \/ Fail(i)
      BY <1>4, MessagesCalls, MessagesNames DEF messagesPanel!ServeHistory
    <2>2. db' \in 0 .. MaxRows /\ db <= db'
      BY <1>1, <2>1
    <2>3. CASE Succeed(i, db)
      BY <1>2, <2>1, <2>2, <2>3
    <2>4. CASE Fail(i)
      BY <1>2, <2>1, <2>2, <2>4
    <2>5. QED
      BY <2>1, <2>3, <2>4
  <1>5. QED
    BY <1>3, <1>4

\* A load is sent.
LEMMA MessagesLoad ==
    ASSUME WebConstants, MessagesInv, NEW u \in MessagesUi, messagesPanel!loadHistory(u),
           u.sending = ui.sending, u.mine = ui.mine
    PROVE  MessagesInv'
  <1>1. /\ Call("history", None) /\ db' = db /\ CallsOK /\ MessagesBusy /\ MessagesTruth
        /\ ui' = [u EXCEPT !.isLoading = TRUE, !.error = FALSE, !.newest = freeSlot]
        /\ \A i \in underWay : calls[i].op \in {"history"} \cup MessageChannels
    BY MessagesCalls DEF messagesPanel!loadHistory, MessagesInv
  <1>2. PICK k \in Slots :
          /\ k = freeSlot /\ k \notin underWay /\ underWay' = underWay \cup {k}
          /\ CallsOK' /\ calls'[k].step = "sent" /\ calls'[k].op = "history"
          /\ \A i \in underWay : i # k /\ calls'[i] = calls[i]
          /\ \A ops : callsOf(ops)' = IF "history" \in ops THEN callsOf(ops) \cup {k} ELSE callsOf(ops)
    BY <1>1, CallSent
  <1>3. /\ callsOf({"history"})' = callsOf({"history"}) \cup {k}
        /\ callsOf(MessageChannels)' = callsOf(MessageChannels)
        /\ \A ch \in MessageChannels : callsOf({ch})' = callsOf({ch})
    BY <1>2, MessagesNames
  <1>4. /\ ui' \in MessagesUi /\ ui'.sending = ui.sending /\ ui'.newest = k /\ ui'.mine = ui.mine
    BY <1>1, <1>2 DEF MessagesUi
  <1>5. MessagesBusy'
    BY <1>1, <1>3, <1>4 DEF MessagesBusy
  <1>6. MessagesTruth'
    BY <1>1, <1>2, <1>3, <1>4, MessagesNames, NullIsNoSlot DEF MessagesTruth, MessageChannels
  <1>7. QED
    BY <1>1, <1>2, <1>4, <1>5, <1>6 DEF MessagesInv

LEMMA MessagesSend ==
    ASSUME WebConstants, MessagesInv, NEW ch \in MessageChannels, messagesPanel!Send(ch)
    PROVE  MessagesInv'
  <1>1. /\ db' = db /\ CallsOK /\ MessagesBusy /\ MessagesTruth /\ ui \in MessagesUi
        /\ \A i \in underWay : calls[i].op \in {"history"} \cup MessageChannels
    BY MessagesCalls DEF messagesPanel!Send, MessagesInv
  <1>2. CASE /\ ch \notin ui.sending /\ Call(ch, None)
             /\ ui' = [ui EXCEPT !.sending = @ \cup {ch}, !.sendError = @ \ {ch}]
    <2>1. PICK k \in Slots :
            /\ k \notin underWay /\ underWay' = underWay \cup {k}
            /\ CallsOK' /\ calls'[k].step = "sent" /\ calls'[k].op = ch
            /\ \A i \in underWay : i # k /\ calls'[i] = calls[i]
            /\ \A ops : callsOf(ops)' = IF ch \in ops THEN callsOf(ops) \cup {k} ELSE callsOf(ops)
      BY <1>1, <1>2, CallSent
    <2>2. /\ callsOf({"history"})' = callsOf({"history"})
          /\ callsOf(MessageChannels)' = callsOf(MessageChannels) \cup {k}
          /\ callsOf({ch})' = callsOf({ch}) \cup {k}
          /\ \A x \in MessageChannels : x # ch => callsOf({x})' = callsOf({x})
      BY <2>1, MessagesNames
    <2>3. callsOf({ch}) = {}
      BY <1>1, <1>2 DEF MessagesBusy
    <2>4. /\ ui' \in MessagesUi /\ ui'.sending = ui.sending \cup {ch} /\ ui'.mine = ui.mine
          /\ ui'.newest = ui.newest /\ ui'.timer = ui.timer /\ ui'.error = ui.error
          /\ ui'.overtaken = ui.overtaken /\ ui'.items = ui.items /\ ui'.isLoading = ui.isLoading
      BY <1>1, <1>2 DEF MessagesUi
    <2>5. MessagesBusy'
      <3>1. /\ ch \in ui'.sending <=> callsOf({ch})' # {}
            /\ \A i, j \in callsOf({ch})' : i = j
        BY <2>2, <2>3, <2>4
      <3>2. ASSUME NEW x \in MessageChannels, x # ch
            PROVE  /\ x \in ui'.sending <=> callsOf({x})' # {}
                   /\ \A i, j \in callsOf({x})' : i = j
        BY <1>1, <2>2, <2>4, <3>2 DEF MessagesBusy
      <3>3. ui'.isLoading => ui'.timer \/ callsOf({"history"})' # {}
        BY <1>1, <2>2, <2>4 DEF MessagesBusy
      <3>4. QED
        BY <3>1, <3>2, <3>3 DEF MessagesBusy, MessageChannels
    <2>6. MessagesTruth'
      BY <1>1, <2>1, <2>2, <2>4, MessagesNames DEF MessagesTruth, MessageChannels
    <2>7. QED
      BY <1>1, <2>1, <2>4, <2>5, <2>6 DEF MessagesInv
  <1>3. CASE ch = "email" /\ calls' = calls /\ ui' = [ui EXCEPT !.sendError = @ \cup {ch}]
    <2>1. underWay' = underWay /\ \A ops : callsOf(ops)' = callsOf(ops)
      BY <1>3, CallsStay
    <2>2. /\ ui' \in MessagesUi /\ ui'.sending = ui.sending /\ ui'.mine = ui.mine
          /\ ui'.newest = ui.newest /\ ui'.timer = ui.timer /\ ui'.error = ui.error
          /\ ui'.overtaken = ui.overtaken /\ ui'.items = ui.items /\ ui'.isLoading = ui.isLoading
      BY <1>1, <1>3 DEF MessagesUi
    <2>3. MessagesBusy' /\ MessagesTruth'
      BY <1>1, <1>3, <2>1, <2>2 DEF MessagesBusy, MessagesTruth, MessageChannels
    <2>4. QED
      BY <1>1, <1>3, <2>1, <2>2, <2>3 DEF MessagesInv, CallsOK
  <1>4. QED
    BY <1>2, <1>3, MessagesCalls DEF messagesPanel!Send

LEMMA MessagesSendAnswered ==
    ASSUME WebConstants, PagesConstants, MessagesInv, NEW i \in Slots, messagesPanel!SendAnswered(i)
    PROVE  MessagesInv'
  <1>a. PICK ch \in MessageChannels : calls[i].op = ch
    BY DEF messagesPanel!SendAnswered, MessageChannels
  <1> DEFINE u == [ui EXCEPT !.sending = @ \ {ch}]
  <1>1. /\ i \in underWay /\ calls[i].step = "answered"
        /\ Finish(i) /\ db' = db
        /\ ui' = IF calls[i].ok THEN [u EXCEPT !.timer = TRUE, !.mine = calls[i].data]
                 ELSE [u EXCEPT !.sendError = @ \cup {ch}]
    BY <1>a, MessagesCalls DEF messagesPanel!SendAnswered, answered, MessageChannels
  <1>2. /\ CallsOK /\ MessagesBusy /\ MessagesTruth /\ ui \in MessagesUi /\ db \in 0 .. MaxRows
        /\ \A j \in underWay : calls[j].op \in {"history"} \cup MessageChannels
    BY DEF MessagesInv
  <1>3. /\ CallsOK' /\ underWay' = underWay \ {i}
        /\ \A j \in underWay' : calls'[j] = calls[j]
        /\ \A ops : callsOf(ops)' = callsOf(ops) \ {i}
    BY <1>1, <1>2, CallTaken
  <1>4. i \in callsOf({ch}) /\ i \in callsOf(MessageChannels) /\ i \notin callsOf({"history"})
        /\ \A x \in MessageChannels : x # ch => i \notin callsOf({x})
    BY <1>a, <1>1, MessagesNames DEF callsOf
  <1>5. calls[i].ok => calls[i].data \in 0 .. MaxRows /\ calls[i].data <= db
    BY <1>1, <1>2, <1>4 DEF MessagesTruth, PagesConstants
  <1>6. /\ ui' \in MessagesUi /\ ui'.sending = ui.sending \ {ch} /\ ui'.newest = ui.newest
        /\ ui'.error = ui.error /\ ui'.overtaken = ui.overtaken /\ ui'.items = ui.items
        /\ ui'.isLoading = ui.isLoading
        /\ calls[i].ok => ui'.timer /\ ui'.mine = calls[i].data
        /\ ~calls[i].ok => ui'.timer = ui.timer /\ ui'.mine = ui.mine
    BY <1>1, <1>2, <1>5 DEF MessagesUi
  <1>7. callsOf({ch})' = {} /\ callsOf({"history"})' = callsOf({"history"})
        /\ \A x \in MessageChannels : x # ch => callsOf({x})' = callsOf({x})
    <2>1. \A j, k \in callsOf({ch}) : j = k
      BY <1>1, <1>2 DEF MessagesBusy
    <2>2. callsOf({ch})' = callsOf({ch}) \ {i}
      BY <1>3
    <2>3. callsOf({"history"})' = callsOf({"history"}) \ {i}
      BY <1>3
    <2>4. \A x \in MessageChannels : callsOf({x})' = callsOf({x}) \ {i}
      BY <1>3
    <2>5. callsOf({ch})' = {}
      BY <1>4, <2>1, <2>2
    <2>6. callsOf({"history"})' = callsOf({"history"})
      BY <1>4, <2>3
    <2>7. ASSUME NEW x \in MessageChannels, x # ch
          PROVE  callsOf({x})' = callsOf({x})
      BY <1>4, <2>4, <2>7
    <2>8. QED
      BY <2>5, <2>6, <2>7
  <1>8. MessagesBusy'
    <2>1. ch \notin ui'.sending /\ callsOf({ch})' = {}
      BY <1>6, <1>7
    <2>2. ASSUME NEW x \in MessageChannels, x # ch
          PROVE  /\ x \in ui'.sending <=> callsOf({x})' # {}
                 /\ \A k, j \in callsOf({x})' : k = j
      BY <1>2, <1>6, <1>7, <2>2 DEF MessagesBusy
    <2>3. ui'.isLoading => ui'.timer \/ callsOf({"history"})' # {}
      BY <1>2, <1>6, <1>7 DEF MessagesBusy
    <2>4. QED
      BY <2>1, <2>2, <2>3 DEF MessagesBusy, MessageChannels
  <1>9. /\ \A j \in callsOf(MessageChannels)' : j \in callsOf(MessageChannels) /\ calls'[j] = calls[j]
        /\ \A j \in callsOf({"history"}) : calls'[j] = calls[j]
    BY <1>3, <1>4, MessagesNames DEF MessageChannels
  <1>10. MessagesTruth'
    BY <1>1, <1>2, <1>5, <1>6, <1>7, <1>9 DEF MessagesTruth, MessageChannels
  <1>11. QED
    BY <1>1, <1>2, <1>3, <1>6, <1>8, <1>10 DEF MessagesInv

LEMMA MessagesHistoryArrives ==
    ASSUME WebConstants, MessagesInv, NEW i \in Slots, messagesPanel!HistoryArrives(i)
    PROVE  MessagesInv'
  <1> DEFINE n == IF i = ui.newest THEN None ELSE ui.newest
             o == i # ui.newest
             u == [ui EXCEPT !.isLoading = FALSE, !.newest = n, !.overtaken = o]
  <1>1. /\ i \in underWay /\ calls[i].step = "answered" /\ calls[i].op = "history"
        /\ Finish(i) /\ db' = db
        /\ ui' = IF calls[i].ok THEN [u EXCEPT !.items = calls[i].data]
                 ELSE [u EXCEPT !.error = TRUE]
    BY MessagesCalls DEF messagesPanel!HistoryArrives, answered
  <1>2. /\ CallsOK /\ MessagesBusy /\ MessagesTruth /\ ui \in MessagesUi /\ db \in 0 .. MaxRows
        /\ \A j \in underWay : calls[j].op \in {"history"} \cup MessageChannels
    BY DEF MessagesInv
  <1>3. /\ CallsOK' /\ underWay' = underWay \ {i}
        /\ \A j \in underWay' : calls'[j] = calls[j]
        /\ \A ops : callsOf(ops)' = callsOf(ops) \ {i}
    BY <1>1, <1>2, CallTaken
  <1>4. i \in callsOf({"history"}) /\ \A x \in MessageChannels : i \notin callsOf({x})
    BY <1>1, MessagesNames DEF callsOf
  <1>5. n \in Slots \cup {None} /\ o \in BOOLEAN /\ (i = ui.newest => n = None)
        /\ (i # ui.newest => n = ui.newest /\ o = TRUE)
    BY <1>2 DEF MessagesUi
  <1> HIDE DEF n, o
  <1>6. calls[i].ok => /\ calls[i].data \in 0 .. MaxRows
                       /\ i = ui.newest /\ ~ui.timer => ui.mine <= calls[i].data
    BY <1>1, <1>2, <1>4 DEF MessagesTruth
  <1>7. /\ ui' \in MessagesUi /\ ui'.isLoading = FALSE /\ ui'.newest = n /\ ui'.overtaken = o
        /\ ui'.sending = ui.sending /\ ui'.timer = ui.timer /\ ui'.mine = ui.mine
        /\ calls[i].ok => ui'.items = calls[i].data
        /\ ~calls[i].ok => ui'.error = TRUE
    BY <1>1, <1>2, <1>5, <1>6 DEF MessagesUi
  <1>8. \A x \in MessageChannels : callsOf({x})' = callsOf({x})
    BY <1>3, <1>4
  <1>9. MessagesBusy'
    BY <1>2, <1>7, <1>8 DEF MessagesBusy, MessageChannels
  <1>10. /\ \A j \in callsOf(MessageChannels)' : j \in callsOf(MessageChannels) /\ calls'[j] = calls[j]
         /\ callsOf({"history"})' = callsOf({"history"}) \ {i}
         /\ \A j \in callsOf({"history"})' : calls'[j] = calls[j]
    BY <1>3, MessagesNames DEF MessageChannels
  <1>11. MessagesTruth'
    <2>1. CASE i = ui.newest
      <3>1. ui'.newest = None /\ \A j \in callsOf({"history"})' : j # None
        BY <1>3, <1>5, <1>7, <2>1, MessagesNames, NullIsNoSlot
      <3>2. QED
        BY <1>1, <1>2, <1>6, <1>7, <1>10, <2>1, <3>1 DEF MessagesTruth, MessageChannels
    <2>2. CASE i # ui.newest
      BY <1>1, <1>2, <1>5, <1>7, <1>10, <2>2 DEF MessagesTruth, MessageChannels
    <2>3. QED
      BY <2>1, <2>2
  <1>12. QED
    BY <1>1, <1>2, <1>3, <1>7, <1>9, <1>11 DEF MessagesInv

LEMMA MessagesNext ==
    ASSUME WebConstants, PagesConstants, MessagesInv, messagesPanel!Next
    PROVE  MessagesInv'
  <1>1. CASE messagesPanel!TimerFires \/ messagesPanel!Refresh
    <2> DEFINE u == [ui EXCEPT !.timer = FALSE]
    <2>1. ui \in MessagesUi
      BY DEF MessagesInv
    <2>2. u \in MessagesUi /\ u.sending = ui.sending /\ u.mine = ui.mine
      BY <2>1 DEF MessagesUi
    <2> HIDE DEF u
    <2>3. messagesPanel!loadHistory(ui) \/ messagesPanel!loadHistory(u)
      BY <1>1 DEF messagesPanel!TimerFires, messagesPanel!Refresh, u
    <2>4. QED
      BY <2>1, <2>2, <2>3, MessagesLoad
  <1>2. CASE messagesPanel!SomebodyElse
    <2>1. /\ CallsOK /\ MessagesBusy /\ MessagesTruth /\ ui \in MessagesUi /\ db \in 0 .. MaxRows
          /\ \A j \in underWay : calls[j].op \in {"history"} \cup MessageChannels
          /\ ui' = ui /\ calls' = calls /\ db < MaxRows /\ db' = db + 1 /\ MaxRows \in Nat
      BY <1>2 DEF MessagesInv, messagesPanel!SomebodyElse, PagesConstants
    <2>2. underWay' = underWay /\ \A ops : callsOf(ops)' = callsOf(ops)
      BY <2>1, CallsStay
    <2>3. MessagesBusy'
      BY <2>1, <2>2 DEF MessagesBusy, MessageChannels
    <2>4. MessagesTruth'
      BY <2>1, <2>2 DEF MessagesTruth, MessageChannels, MessagesUi
    <2>5. QED
      BY <2>1, <2>2, <2>3, <2>4 DEF MessagesInv, CallsOK
  <1>3. QED
    BY <1>1, <1>2, MessagesServed, MessagesSend, MessagesSendAnswered, MessagesHistoryArrives,
       MessagesCalls DEF messagesPanel!Next, MessageChannels

LEMMA MessagesInit ==
    ASSUME WebConstants, PagesConstants, messagesPanel!Init
    PROVE  MessagesInv
  <1>1. /\ calls = NoCalls /\ db \in 0 .. 1
        /\ ui = [items |-> 0, isLoading |-> TRUE, timer |-> TRUE, error |-> FALSE, sending |-> {},
                 sendError |-> {}, mine |-> 0, newest |-> None, overtaken |-> FALSE]
    BY MessagesCalls DEF messagesPanel!Init
  <1>2. CallsOK /\ underWay = {} /\ \A ops : callsOf(ops) = {}
    BY <1>1, OpenedWithout
  <1>3. ui \in MessagesUi /\ db \in 0 .. MaxRows
    BY <1>1 DEF MessagesUi, PagesConstants
  <1>4. MessagesBusy /\ MessagesTruth
    BY <1>1, <1>2, <1>3 DEF MessagesBusy, MessagesTruth
  <1>5. QED
    BY <1>2, <1>3, <1>4 DEF MessagesInv

LEMMA MessagesHold ==
    ASSUME MessagesInv
    PROVE  /\ messagesPanel!TypeOK /\ messagesPanel!BusyWhileUnderWay
           /\ messagesPanel!OwnStepIsShown
  <1>1. messagesPanel!TypeOK /\ messagesPanel!BusyWhileUnderWay
    BY MessagesCalls DEF MessagesInv, MessagesUi, MessageChannels, MessagesBusy,
       messagesPanel!TypeOK, messagesPanel!BusyWhileUnderWay
  <1>2. underWay = {} => ui.newest = None
    BY DEF MessagesInv, MessagesTruth, callsOf
  <1>3. ui.items \in Int /\ ui.mine \in Int
    BY DEF MessagesInv, MessagesUi
  <1>4. messagesPanel!OwnStepIsShown
    BY <1>2, <1>3, MessagesCalls DEF MessagesInv, MessagesTruth, messagesPanel!OwnStepIsShown
  <1>5. QED
    BY <1>1, <1>4

-----------------------------------------------------------------------------
(* The documents of one shipment *)

\* The calls of the page are those of WebCalls.
LEMMA PapersCalls ==
    /\ documentsPanel!underWay = underWay /\ documentsPanel!underWay' = underWay'
    /\ documentsPanel!Slots = Slots
    /\ \A ops : /\ documentsPanel!callsOf(ops) = callsOf(ops)
                /\ documentsPanel!callsOf(ops)' = callsOf(ops)'
    /\ \A op, arg : documentsPanel!Sent(op, arg) = Sent(op, arg)
    /\ \A op, arg : documentsPanel!Call(op, arg) <=> Call(op, arg)
    /\ \A i : documentsPanel!Finish(i) <=> Finish(i)
    /\ \A c : documentsPanel!placed(documentsPanel!NoCalls, c) = placed(NoCalls, c)
    /\ \A i : documentsPanel!answered(i) <=> answered(i)
    /\ \A i : documentsPanel!waiting(i) <=> waiting(i)
    /\ \A i, data : documentsPanel!Reply(i, data) <=> Succeed(i, data) \/ Fail(i)
    /\ \A i : documentsPanel!Fail(i) <=> Fail(i)
    /\ documentsPanel!freeSlot = freeSlot
  <1> USE DEF documentsPanel!NoCall, NoCall
  <1>1. documentsPanel!Slots = Slots /\ documentsPanel!underWay = underWay
    BY DEF documentsPanel!underWay, documentsPanel!Slots, underWay, Slots
  <1>2. documentsPanel!underWay' = underWay'
    BY DEF documentsPanel!underWay, documentsPanel!Slots, underWay, Slots
  <1>3. \A ops : /\ documentsPanel!callsOf(ops) = callsOf(ops)
                 /\ documentsPanel!callsOf(ops)' = callsOf(ops)'
    BY <1>1, <1>2 DEF documentsPanel!callsOf, callsOf
  <1>4. \A op, arg : documentsPanel!Sent(op, arg) = Sent(op, arg)
    BY DEF documentsPanel!Sent, Sent
  <1>5. \A op, arg : documentsPanel!Call(op, arg) <=> Call(op, arg)
    BY <1>1, <1>4 DEF documentsPanel!Call, Call, documentsPanel!mayCall, mayCall,
                      documentsPanel!placed, placed, documentsPanel!firstFree, firstFree
  <1>6. \A i : documentsPanel!Finish(i) <=> Finish(i)
    BY DEF documentsPanel!Finish, Finish
  <1>7. \A c : documentsPanel!placed(documentsPanel!NoCalls, c) = placed(NoCalls, c)
    BY <1>1
    DEF documentsPanel!placed, placed, documentsPanel!firstFree, firstFree,
        documentsPanel!NoCalls, NoCalls
  <1>8. \A i : documentsPanel!answered(i) <=> answered(i)
    BY <1>1 DEF documentsPanel!answered, answered
  <1>9. \A i : documentsPanel!waiting(i) <=> waiting(i)
    BY <1>1 DEF documentsPanel!waiting, waiting
  <1>10. \A i, data : documentsPanel!Reply(i, data) <=> Succeed(i, data) \/ Fail(i)
    BY DEF documentsPanel!Reply, documentsPanel!Succeed, Succeed, documentsPanel!Fail, Fail,
       documentsPanel!Answer, Answer
  <1>11. \A i : documentsPanel!Fail(i) <=> Fail(i)
    BY DEF documentsPanel!Fail, Fail, documentsPanel!Answer, Answer
  <1>12. documentsPanel!freeSlot = freeSlot
    BY <1>1 DEF documentsPanel!freeSlot, freeSlot, documentsPanel!firstFree, firstFree
  <1>13. QED
    BY <1>1, <1>2, <1>3, <1>4, <1>5, <1>6, <1>7, <1>8, <1>9, <1>10, <1>11, <1>12

PapersDb == [files: SUBSET Documents, used: SUBSET Documents]

PapersUi ==
    [documents: SUBSET Documents, isLoading: BOOLEAN, isRefreshing: BOOLEAN, error: BOOLEAN,
     submitting: BOOLEAN, formError: BOOLEAN, deleting: Documents \cup {None},
     downloading: Documents \cup {None}, orphans: SUBSET Slots, added: SUBSET Documents,
     gone: SUBSET Documents, clean: BOOLEAN, mixed: BOOLEAN]

PapersOps == {"first", "refresh", "upload", "delete", "download"}

\* One load at a time, and one upload.
PapersOne ==
    /\ ui.isLoading <=> callsTo("first") # {}
    /\ ui.isRefreshing <=> callsTo("refresh") # {}
    /\ ~ui.isLoading \/ ~ui.isRefreshing
    /\ ui.submitting <=> callsTo("upload") # {}
    /\ \A i, j \in callsTo("first") : i = j
    /\ \A i, j \in callsTo("refresh") : i = j
    /\ \A i, j \in callsTo("upload") : i = j

\* A deletion of the list that is shown is under way for the document whose
\* button is disabled.
PapersDeleting ==
    /\ ui.orphans \subseteq callsTo("delete") \cup callsTo("download")
    /\ ui.deleting # None =>
           \E i \in callsTo("delete") : i \notin ui.orphans /\ calls[i].arg = ui.deleting

\* An id is given out once, so what is deleted never comes back.
PapersUsed ==
    /\ db.files \cup ui.documents \cup ui.added \cup ui.gone \subseteq db.used
    /\ ui.gone \cap db.files = {}

PapersAnswers ==
    /\ \A i \in callsTo("delete") :
           /\ calls[i].arg \in db.used
           /\ calls[i].step = "answered" /\ calls[i].ok => calls[i].arg \notin db.files
    /\ \A i \in callsTo("upload") :
           calls[i].step = "answered" /\ calls[i].ok => calls[i].data \in db.used
    /\ \A i \in callsTo("first") \cup callsTo("refresh") :
           calls[i].step = "answered" /\ calls[i].ok => calls[i].data \subseteq db.used

\* A load that is alone answers with what the operator did ...
PapersLoads ==
    ui.clean =>
        /\ \/ callsTo("first") \cup callsTo("refresh") = {}
           \/ callsTo("upload") \cup callsTo("delete") = {}
        /\ \A i \in callsTo("first") \cup callsTo("refresh") :
               calls[i].step = "answered" /\ calls[i].ok =>
                   /\ ui.added \cap db.files \subseteq calls[i].data
                   /\ ui.gone \cap calls[i].data = {}

\* ... and so the list shows it; the document of an upload that is about to be
\* answered is not in the list yet.
PapersShown ==
    ~ui.mixed =>
        /\ ui.added \cap db.files \subseteq ui.documents /\ ui.gone \cap ui.documents = {}
        /\ \A i \in callsTo("upload") :
               calls[i].step = "answered" /\ calls[i].ok =>
                   /\ calls[i].data \notin ui.documents \cup ui.gone
                   /\ \A j \in callsTo("delete") : calls[j].arg # calls[i].data

PapersInv ==
    /\ CallsOK /\ ui \in PapersUi /\ db \in PapersDb
    /\ \A i \in underWay : calls[i].op \in PapersOps
    /\ PapersOne /\ PapersDeleting /\ PapersUsed /\ PapersAnswers /\ PapersLoads /\ PapersShown

LEMMA PapersNames ==
    /\ callsOf(documentsPanel!loads) = callsTo("first") \cup callsTo("refresh")
    /\ callsOf(documentsPanel!changes) = callsTo("upload") \cup callsTo("delete")
    /\ callsOf({"delete", "download"}) = callsTo("delete") \cup callsTo("download")
  BY DEF callsOf, callsTo, documentsPanel!loads, documentsPanel!changes

\* What the API does to its rows: an id that was used is not used again.
PapersRows ==
    /\ db' \in PapersDb /\ db.used \subseteq db'.used /\ db'.files \subseteq db'.used
    /\ db'.files \cap db.used \subseteq db.files

LEMMA PapersServed ==
    ASSUME PapersInv, NEW i \in Slots, documentsPanel!Serve(i)
    PROVE  PapersInv'
  <1>1. /\ i \in underWay /\ calls[i].step = "sent" /\ ui' = ui /\ CallsOK /\ ui \in PapersUi
        /\ db \in PapersDb /\ PapersOne /\ PapersDeleting /\ PapersUsed /\ PapersAnswers
        /\ PapersLoads /\ PapersShown
    BY PapersCalls DEF PapersInv, documentsPanel!Serve, waiting
  <1>2. ASSUME NEW ok \in BOOLEAN, NEW data,
               \/ ok = TRUE /\ Succeed(i, data)
               \/ ok = FALSE /\ data = None /\ Fail(i),
               PapersRows,
               ok /\ calls[i].op = "upload" => data \in db'.used /\ data \notin db.used,
               ok /\ calls[i].op = "delete" => calls[i].arg \notin db'.files,
               ok /\ calls[i].op \in {"first", "refresh"} => data = db.files /\ db' = db
        PROVE  PapersInv'
    <2>1. /\ calls'[i].op = calls[i].op /\ calls'[i].arg = calls[i].arg
          /\ calls'[i].ok = ok /\ calls'[i].data = data
          /\ CallsOK' /\ underWay' = underWay
          /\ \A j \in underWay : calls'[j].op = calls[j].op /\ calls'[j].arg = calls[j].arg
          /\ \A j \in underWay : j # i => calls'[j] = calls[j]
          /\ \A x : callsTo(x)' = callsTo(x)
      BY <1>1, <1>2, ServedTo
    <2>2. \A x : \A j \in callsTo(x) : j \in underWay /\ calls[j].op = x
      BY CallsTo
    <2>3. PapersOne'
      BY <1>1, <2>1 DEF PapersOne
    <2>4. PapersDeleting'
      BY <1>1, <2>1, <2>2 DEF PapersDeleting
    <2>5. PapersUsed'
      BY <1>1, <1>2 DEF PapersUsed, PapersRows
    <2>6. PapersAnswers'
      <3>1. \A j \in callsTo("delete") :
               /\ calls'[j].arg \in db'.used
               /\ calls'[j].step = "answered" /\ calls'[j].ok => calls'[j].arg \notin db'.files
        BY <1>1, <1>2, <2>1, <2>2 DEF PapersAnswers, PapersRows
      <3>2. \A j \in callsTo("upload") :
               calls'[j].step = "answered" /\ calls'[j].ok => calls'[j].data \in db'.used
        BY <1>1, <1>2, <2>1, <2>2 DEF PapersAnswers, PapersRows
      <3>3. \A j \in callsTo("first") \cup callsTo("refresh") :
               calls'[j].step = "answered" /\ calls'[j].ok => calls'[j].data \subseteq db'.used
        BY <1>1, <1>2, <2>1, <2>2 DEF PapersAnswers, PapersRows, PapersUsed
      <3>4. QED
        BY <2>1, <3>1, <3>2, <3>3 DEF PapersAnswers
    <2>7. PapersLoads'
      <3>1. ASSUME ui.clean, NEW j \in callsTo("first") \cup callsTo("refresh"),
                   calls'[j].step = "answered", calls'[j].ok
            PROVE  ui.added \cap db'.files \subseteq calls'[j].data /\ ui.gone \cap calls'[j].data = {}
        <4>1. CASE j = i
          BY <1>1, <1>2, <2>1, <2>2, <3>1, <4>1 DEF PapersUsed
        <4>2. CASE j # i
          BY <1>1, <1>2, <2>1, <2>2, <3>1, <4>2 DEF PapersLoads, PapersRows, PapersUsed
        <4>3. QED
          BY <4>1, <4>2
      <3>2. QED
        BY <1>1, <2>1, <3>1 DEF PapersLoads
    <2>8. PapersShown'
      <3>1. ~ui.mixed => ui.added \cap db'.files \subseteq ui.documents
        BY <1>1, <1>2 DEF PapersShown, PapersRows, PapersUsed
      <3>2. ASSUME ~ui.mixed, NEW j \in callsTo("upload"), calls'[j].step = "answered", calls'[j].ok
            PROVE  /\ calls'[j].data \notin ui.documents \cup ui.gone
                   /\ \A l \in callsTo("delete") : calls'[l].arg # calls'[j].data
        <4>1. CASE j = i
          BY <1>1, <1>2, <2>1, <2>2, <3>2, <4>1 DEF PapersUsed, PapersAnswers
        <4>2. CASE j # i
          BY <1>1, <2>1, <2>2, <3>2, <4>2 DEF PapersShown
        <4>3. QED
          BY <4>1, <4>2
      <3>3. QED
        BY <1>1, <2>1, <3>1, <3>2 DEF PapersShown
    <2>9. \A j \in underWay' : calls'[j].op \in PapersOps
      BY <2>1 DEF PapersInv
    <2>10. QED
      BY <1>1, <1>2, <2>1, <2>3, <2>4, <2>5, <2>6, <2>7, <2>8, <2>9 DEF PapersInv, PapersRows
  <1>3. ASSUME NEW data, Succeed(i, data) \/ Fail(i), PapersRows,
               calls[i].op = "upload" => data \in db'.used /\ data \notin db.used,
               calls[i].op = "delete" => calls[i].arg \notin db'.files,
               calls[i].op \in {"first", "refresh"} => data = db.files /\ db' = db
        PROVE  PapersInv'
    <2>1. CASE Succeed(i, data)
      BY <1>2, <1>3, <2>1
    <2>2. CASE Fail(i)
      BY <1>2, <1>3, <2>2
    <2>3. QED
      BY <1>3, <2>1, <2>2
  <1>4. db' = db => PapersRows
    BY <1>1 DEF PapersUsed, PapersRows
  <1>5. CASE /\ calls[i].op = "upload"
             /\ \E d \in Documents : documentsPanel!Upload(d) /\ documentsPanel!Reply(i, d)
    <2>1. PICK d \in Documents : documentsPanel!Upload(d) /\ documentsPanel!Reply(i, d)
      BY <1>5
    <2>2. Succeed(i, d) \/ Fail(i)
      BY <2>1, PapersCalls
    <2>3. PapersRows /\ d \in db'.used /\ d \notin db.used
      BY <1>1, <2>1 DEF documentsPanel!Upload, PapersDb, PapersUsed, PapersRows
    <2>4. QED
      BY <1>3, <1>5, <2>2, <2>3
  <1>6. CASE /\ calls[i].op = "delete"
             /\ documentsPanel!Remove(calls[i].arg) /\ documentsPanel!Reply(i, None)
    <2>1. Succeed(i, None) \/ Fail(i)
      BY <1>6, PapersCalls
    <2>2. PapersRows /\ calls[i].arg \notin db'.files
      BY <1>1, <1>6 DEF documentsPanel!Remove, PapersDb, PapersUsed, PapersRows
    <2>3. QED
      BY <1>3, <1>6, <2>1, <2>2
  <1>7. CASE calls[i].op \in documentsPanel!loads /\ documentsPanel!Reply(i, db.files) /\ db' = db
    BY <1>3, <1>4, <1>7, PapersCalls DEF documentsPanel!loads
  <1>8. CASE calls[i].op = "download" /\ documentsPanel!Reply(i, None) /\ db' = db
    BY <1>3, <1>4, <1>8, PapersCalls
  <1>9. CASE Fail(i) /\ db' = db
    BY <1>2, <1>4, <1>9
  <1>10. QED
    BY <1>5, <1>6, <1>7, <1>8, <1>9, PapersCalls DEF documentsPanel!Serve

LEMMA PapersSomebody ==
    ASSUME PapersInv, documentsPanel!SomebodyElse
    PROVE  PapersInv'
  <1>1. /\ ui' = ui /\ calls' = calls /\ CallsOK /\ ui \in PapersUi /\ db \in PapersDb
        /\ PapersOne /\ PapersDeleting /\ PapersUsed /\ PapersAnswers /\ PapersLoads /\ PapersShown
        /\ \A i \in underWay : calls[i].op \in PapersOps
    BY DEF PapersInv, documentsPanel!SomebodyElse
  <1>2. PapersRows
    BY <1>1
    DEF documentsPanel!SomebodyElse, documentsPanel!Remove, documentsPanel!Upload, PapersDb,
       PapersUsed, PapersRows
  <1>3. underWay' = underWay /\ CallsOK' /\ \A x : callsTo(x)' = callsTo(x)
    BY <1>1, StayTo
  <1>4. PapersOne' /\ PapersDeleting'
    BY <1>1, <1>3 DEF PapersOne, PapersDeleting
  <1>5. PapersUsed' /\ PapersAnswers'
    BY <1>1, <1>2, <1>3 DEF PapersUsed, PapersAnswers, PapersRows
  <1>6. PapersLoads'
    BY <1>1, <1>2, <1>3 DEF PapersLoads, PapersUsed, PapersRows
  <1>7. PapersShown'
    BY <1>1, <1>2, <1>3 DEF PapersShown, PapersUsed, PapersRows
  <1>8. QED
    BY <1>1, <1>2, <1>3, <1>4, <1>5, <1>6, <1>7 DEF PapersInv, PapersRows

\* A button that sends a call.
LEMMA PapersSent ==
    ASSUME PapersInv, NEW op \in {"refresh", "upload", "delete", "download"}, NEW arg,
           Call(op, arg), db' = db, ui' \in PapersUi,
           ui'.documents = ui.documents, ui'.added = ui.added, ui'.gone = ui.gone,
           ui'.mixed = ui.mixed, ui'.orphans = ui.orphans, ui'.isLoading = ui.isLoading,
           ui'.isRefreshing <=> ui.isRefreshing \/ op = "refresh",
           ui'.submitting <=> ui.submitting \/ op = "upload",
           op = "refresh" =>
               /\ ~ui.isLoading /\ ~ui.isRefreshing
               /\ ui'.clean => callsTo("upload") \cup callsTo("delete") = {},
           op = "upload" => ~ui.submitting,
           op \in {"upload", "delete"} =>
               (ui'.clean => ui.clean /\ callsTo("first") \cup callsTo("refresh") = {}),
           op = "download" => ui'.clean = ui.clean,
           op = "delete" => arg \in ui.documents /\ ui'.deleting = arg,
           op # "delete" => ui'.deleting = ui.deleting
    PROVE  PapersInv'
  <1>1. /\ CallsOK /\ ui \in PapersUi /\ db \in PapersDb /\ PapersOne /\ PapersDeleting
        /\ PapersUsed /\ PapersAnswers /\ PapersLoads /\ PapersShown
        /\ \A i \in underWay : calls[i].op \in PapersOps
    BY DEF PapersInv
  <1>2. PICK k \in Slots :
             /\ k \notin underWay /\ underWay' = underWay \cup {k}
             /\ CallsOK' /\ calls'[k].step = "sent" /\ calls'[k].op = op /\ calls'[k].arg = arg
             /\ \A i \in underWay : i # k /\ calls'[i] = calls[i]
             /\ callsTo(op)' = callsTo(op) \cup {k} /\ k \notin callsTo(op)
             /\ \A x : x # op => callsTo(x)' = callsTo(x)
    BY <1>1, SentTo
  <1>3. \A x : callsTo(x) \subseteq underWay
    BY CallsTo
  <1>4. PapersOne'
    BY <1>1, <1>2 DEF PapersOne
  <1>5. PapersDeleting'
    <2>1. k \notin ui.orphans
      BY <1>1, <1>2, <1>3 DEF PapersDeleting
    <2>2. CASE op = "delete"
      BY <1>1, <1>2, <2>1, <2>2 DEF PapersDeleting
    <2>3. CASE op # "delete"
      BY <1>1, <1>2, <1>3, <2>3 DEF PapersDeleting
    <2>4. QED
      BY <2>2, <2>3
  <1>6. PapersUsed'
    BY <1>1 DEF PapersUsed
  <1>7. PapersAnswers'
    <2>1. ASSUME NEW x, NEW i \in callsTo(x)'
          PROVE  \/ i = k /\ x = op
                 \/ i \in callsTo(x) /\ calls'[i] = calls[i]
      <3>1. i \in callsTo(x) \/ (i = k /\ x = op)
        BY <1>2
      <3>2. QED
        BY <1>2, <1>3, <3>1
    <2>2. QED
      BY <1>1, <1>2, <2>1 DEF PapersAnswers, PapersUsed
  <1>8. PapersLoads'
    <2>1. CASE op = "refresh"
      <3>1. callsTo("first") = {} /\ callsTo("refresh") = {}
        BY <1>1, <2>1 DEF PapersOne
      <3>2. QED
        BY <1>1, <1>2, <2>1, <3>1 DEF PapersLoads
    <2>2. CASE op \in {"upload", "delete"}
      BY <1>1, <1>2, <2>2 DEF PapersLoads
    <2>3. CASE op = "download"
      <3>1. /\ callsTo("first")' = callsTo("first") /\ callsTo("refresh")' = callsTo("refresh")
            /\ callsTo("upload")' = callsTo("upload") /\ callsTo("delete")' = callsTo("delete")
            /\ ui'.clean = ui.clean
        BY <1>2, <2>3
      <3>2. \A i \in callsTo("first") \cup callsTo("refresh") : calls'[i] = calls[i]
        BY <1>2, <1>3
      <3>3. QED
        BY <1>1, <3>1, <3>2 DEF PapersLoads
    <2>4. QED
      BY <2>1, <2>2, <2>3
  <1>9. PapersShown'
    <2>1. CASE op = "upload"
      <3>1. callsTo("upload") = {}
        BY <1>1, <2>1 DEF PapersOne
      <3>2. QED
        BY <1>1, <1>2, <2>1, <3>1 DEF PapersShown
    <2>2. CASE op = "delete"
      BY <1>1, <1>2, <1>3, <2>2 DEF PapersShown
    <2>3. CASE op \in {"refresh", "download"}
      BY <1>1, <1>2, <1>3, <2>3 DEF PapersShown
    <2>4. QED
      BY <2>1, <2>2, <2>3
  <1>10. QED
    BY <1>1, <1>2, <1>4, <1>5, <1>6, <1>7, <1>8, <1>9 DEF PapersInv, PapersOps

LEMMA PapersOperator ==
    ASSUME WebConstants, PapersInv, documentsPanel!Operator
    PROVE  PapersInv'
  <1>1. ui \in PapersUi
    BY DEF PapersInv
  <1> DEFINE c == ui.clean /\ callsTo("first") \cup callsTo("refresh") = {}
             n == callsTo("upload") \cup callsTo("delete") = {}
  <1>2. /\ c \in BOOLEAN /\ n \in BOOLEAN
        /\ c => ui.clean /\ callsTo("first") \cup callsTo("refresh") = {}
        /\ n => callsTo("upload") \cup callsTo("delete") = {}
    BY <1>1 DEF PapersUi
  <1>3. c <=> documentsPanel!alone
    BY PapersCalls, PapersNames DEF documentsPanel!alone
  <1>4. n <=> documentsPanel!callsOf(documentsPanel!changes) = {}
    BY PapersCalls, PapersNames
  <1>5. CASE documentsPanel!handleRefresh
    <2>1. /\ ~ui.isLoading /\ ~ui.isRefreshing /\ Call("refresh", None) /\ db' = db
          /\ ui' = [ui EXCEPT !.isRefreshing = TRUE, !.error = FALSE, !.clean = n]
      BY <1>4, <1>5, PapersCalls DEF documentsPanel!handleRefresh
    <2> HIDE DEF n
    <2>2. /\ ui' \in PapersUi /\ ui'.isRefreshing = TRUE /\ ui'.clean = n
          /\ ui'.isLoading = ui.isLoading /\ ui'.submitting = ui.submitting
          /\ ui'.deleting = ui.deleting /\ ui'.orphans = ui.orphans
          /\ ui'.documents = ui.documents /\ ui'.added = ui.added
          /\ ui'.gone = ui.gone /\ ui'.mixed = ui.mixed
      BY <1>1, <1>2, <2>1 DEF PapersUi
    <2>3. QED
      BY <1>2, <2>1, <2>2, PapersSent
  <1>6. CASE documentsPanel!handleSubmit
    <2>1. CASE ui' = [ui EXCEPT !.formError = TRUE] /\ calls' = calls /\ db' = db
      <3>1. /\ ui' \in PapersUi /\ ui'.isRefreshing = ui.isRefreshing /\ ui'.clean = ui.clean
            /\ ui'.isLoading = ui.isLoading /\ ui'.submitting = ui.submitting
            /\ ui'.deleting = ui.deleting /\ ui'.orphans = ui.orphans
            /\ ui'.documents = ui.documents /\ ui'.added = ui.added
            /\ ui'.gone = ui.gone /\ ui'.mixed = ui.mixed
        BY <1>1, <2>1 DEF PapersUi
      <3>2. underWay' = underWay /\ (CallsOK => CallsOK') /\ \A x : callsTo(x)' = callsTo(x)
        BY <2>1, StayTo
      <3>3. PapersOne' /\ PapersDeleting'
        BY <2>1, <3>1, <3>2 DEF PapersInv, PapersOne, PapersDeleting
      <3>4. PapersUsed' /\ PapersAnswers'
        BY <2>1, <3>1, <3>2 DEF PapersInv, PapersUsed, PapersAnswers
      <3>5. PapersLoads' /\ PapersShown'
        BY <2>1, <3>1, <3>2 DEF PapersInv, PapersLoads, PapersShown
      <3>6. QED
        BY <2>1, <3>1, <3>2, <3>3, <3>4, <3>5 DEF PapersInv
    <2>2. CASE /\ Call("upload", None) /\ db' = db /\ ~ui.submitting
               /\ ui' = [ui EXCEPT !.submitting = TRUE, !.formError = FALSE, !.clean = c]
      <3> HIDE DEF c
      <3>1. /\ ui' \in PapersUi /\ ui'.isRefreshing = ui.isRefreshing /\ ui'.clean = c
            /\ ui'.isLoading = ui.isLoading /\ ui'.submitting = TRUE
            /\ ui'.deleting = ui.deleting /\ ui'.orphans = ui.orphans
            /\ ui'.documents = ui.documents /\ ui'.added = ui.added
            /\ ui'.gone = ui.gone /\ ui'.mixed = ui.mixed
        BY <1>1, <1>2, <2>2 DEF PapersUi
      <3>2. QED
        BY <1>2, <2>2, <3>1, PapersSent
    <2>3. QED
      BY <1>3, <1>6, <2>1, <2>2, PapersCalls DEF documentsPanel!handleSubmit
  <1>7. ASSUME NEW d \in Documents, documentsPanel!handleDownload(d) \/ documentsPanel!handleDelete(d)
        PROVE  PapersInv'
    <2>1. d \in ui.documents /\ db' = db
      BY <1>7 DEF documentsPanel!handleDownload, documentsPanel!handleDelete,
         documentsPanel!enabled, documentsPanel!rowsShown
    <2>2. CASE Call("download", d) /\ ui' = [ui EXCEPT !.downloading = d]
      <3>1. /\ ui' \in PapersUi /\ ui'.isRefreshing = ui.isRefreshing /\ ui'.clean = ui.clean
            /\ ui'.isLoading = ui.isLoading /\ ui'.submitting = ui.submitting
            /\ ui'.deleting = ui.deleting /\ ui'.orphans = ui.orphans
            /\ ui'.documents = ui.documents /\ ui'.added = ui.added
            /\ ui'.gone = ui.gone /\ ui'.mixed = ui.mixed
        BY <1>1, <2>2 DEF PapersUi
      <3>2. QED
        BY <2>1, <2>2, <3>1, PapersSent
    <2>3. CASE Call("delete", d) /\ ui' = [ui EXCEPT !.deleting = d, !.clean = c]
      <3> HIDE DEF c
      <3>1. /\ ui' \in PapersUi /\ ui'.isRefreshing = ui.isRefreshing /\ ui'.clean = c
            /\ ui'.isLoading = ui.isLoading /\ ui'.submitting = ui.submitting
            /\ ui'.deleting = d /\ ui'.orphans = ui.orphans
            /\ ui'.documents = ui.documents /\ ui'.added = ui.added
            /\ ui'.gone = ui.gone /\ ui'.mixed = ui.mixed
        BY <1>1, <1>2, <2>3 DEF PapersUi
      <3>2. QED
        BY <1>2, <2>1, <2>3, <3>1, PapersSent
    <2>4. CASE documentsPanel!handleDownload(d)
      BY <2>2, <2>4, PapersCalls DEF documentsPanel!handleDownload
    <2>5. CASE documentsPanel!handleDelete(d)
      <3>1. Call("delete", d) /\ ui' = [ui EXCEPT !.deleting = d, !.clean = documentsPanel!alone]
        BY <2>5, PapersCalls DEF documentsPanel!handleDelete
      <3>2. c = documentsPanel!alone
        BY <1>2, <1>3 DEF documentsPanel!alone
      <3>3. QED
        BY <2>3, <3>1, <3>2
    <2>6. QED
      BY <1>7, <2>4, <2>5
  <1>8. QED
    BY <1>5, <1>6, <1>7 DEF documentsPanel!Operator

\* An answer that is taken.
LEMMA PapersTaken ==
    ASSUME PapersInv, NEW i \in underWay, NEW op, calls[i].op = op, calls[i].step = "answered",
           Finish(i), db' = db, ui' \in PapersUi, ui'.clean = ui.clean,
           ui'.isLoading <=> ui.isLoading /\ op # "first",
           ui'.isRefreshing <=> ui.isRefreshing /\ op # "refresh",
           ui'.submitting <=> ui.submitting /\ op # "upload",
           i \notin ui'.orphans,
           \/ ui'.orphans \subseteq callsTo("delete") \cup callsTo("download") /\ ui'.deleting = None
           \/ /\ ui'.orphans \subseteq ui.orphans
              /\ \/ ui'.deleting = None
                 \/ ui'.deleting = ui.deleting /\ (op = "delete" => i \in ui.orphans),
           \/ /\ ui'.documents = ui.documents /\ ui'.added = ui.added
              /\ ui'.gone = ui.gone /\ ui'.mixed = ui.mixed
           \/ /\ op \in {"first", "refresh"} /\ calls[i].ok /\ ui'.documents = calls[i].data
              /\ ui'.added = ui.added /\ ui'.gone = ui.gone /\ ui'.mixed = ~ui.clean
           \/ /\ op = "upload" /\ calls[i].ok
              /\ ui'.documents = ui.documents \cup {calls[i].data}
              /\ ui'.added = ui.added \cup {calls[i].data}
              /\ ui'.gone = ui.gone /\ ui'.mixed = ui.mixed
           \/ /\ op = "delete" /\ calls[i].ok
              /\ ui'.documents = ui.documents \ {calls[i].arg}
              /\ ui'.gone = ui.gone \cup {calls[i].arg}
              /\ ui'.added = ui.added /\ ui'.mixed = ui.mixed
    PROVE  PapersInv'
  <1>1. /\ CallsOK /\ ui \in PapersUi /\ db \in PapersDb /\ PapersOne /\ PapersDeleting
        /\ PapersUsed /\ PapersAnswers /\ PapersLoads /\ PapersShown
        /\ \A j \in underWay : calls[j].op \in PapersOps
    BY DEF PapersInv
  <1>2. /\ CallsOK' /\ underWay' = underWay \ {i}
        /\ \A j \in underWay' : calls'[j] = calls[j]
        /\ callsTo(op)' = callsTo(op) \ {i} /\ i \in callsTo(op)
        /\ \A x : x # op => callsTo(x)' = callsTo(x) /\ i \notin callsTo(x)
    BY <1>1, TakenFrom
  <1>3. /\ \A x : callsTo(x)' \subseteq callsTo(x) \ {i}
        /\ \A x : \A j \in callsTo(x)' : calls'[j] = calls[j]
    BY <1>2, CallsTo
  <1>4. PapersOne'
    BY <1>1, <1>2 DEF PapersOne
  <1>5. PapersDeleting'
    <2>1. \A x : \A j \in callsTo(x) : j = i \/ j \in callsTo(x)'
      BY <1>2
    <2>2. ui'.orphans \subseteq callsTo("delete")' \cup callsTo("download")'
      BY <1>1, <2>1 DEF PapersDeleting
    <2>3. CASE ui'.deleting # None
      <3>1. PICK j \in callsTo("delete") : j \notin ui.orphans /\ calls[j].arg = ui.deleting
        BY <1>1, <2>3 DEF PapersDeleting
      <3>2. j # i
        BY <1>2, <2>3, <3>1
      <3>3. j \in callsTo("delete")' /\ j \notin ui'.orphans /\ calls'[j].arg = ui'.deleting
        BY <1>3, <2>1, <2>3, <3>1, <3>2
      <3>4. QED
        BY <2>2, <3>3 DEF PapersDeleting
    <2>4. QED
      BY <2>2, <2>3 DEF PapersDeleting
  <1>6. PapersUsed'
    BY <1>1, <1>2 DEF PapersUsed, PapersAnswers
  <1>7. PapersAnswers'
    BY <1>1, <1>3 DEF PapersAnswers
  <1>8. PapersLoads'
    <2>1. CASE callsTo("first") \cup callsTo("refresh") = {}
      BY <1>3, <2>1 DEF PapersLoads
    <2>2. CASE ui.clean /\ callsTo("first") \cup callsTo("refresh") # {}
      <3>1. op \notin {"upload", "delete"} /\ callsTo("upload") \cup callsTo("delete") = {}
        BY <1>1, <1>2, <2>2 DEF PapersLoads
      <3>2. ui'.added = ui.added /\ ui'.gone = ui.gone
        BY <3>1
      <3>3. QED
        BY <1>1, <1>3, <3>1, <3>2 DEF PapersLoads
    <2>3. CASE ~ui.clean
      BY <2>3 DEF PapersLoads
    <2>4. QED
      BY <2>1, <2>2, <2>3
  <1>9. PapersShown'
    <2>1. CASE /\ ui'.documents = ui.documents /\ ui'.added = ui.added
               /\ ui'.gone = ui.gone /\ ui'.mixed = ui.mixed
      BY <1>1, <1>3, <2>1 DEF PapersShown
    <2>2. CASE /\ op \in {"first", "refresh"} /\ calls[i].ok /\ ui'.documents = calls[i].data
               /\ ui'.added = ui.added /\ ui'.gone = ui.gone /\ ui'.mixed = ~ui.clean
      <3>1. ui.clean => /\ ui.added \cap db.files \subseteq calls[i].data
                        /\ ui.gone \cap calls[i].data = {} /\ callsTo("upload") = {}
        BY <1>1, <1>2, <2>2 DEF PapersLoads
      <3>2. QED
        BY <1>1, <1>3, <2>2, <3>1 DEF PapersShown, PapersUi
    <2>3. CASE /\ op = "upload" /\ calls[i].ok
               /\ ui'.documents = ui.documents \cup {calls[i].data}
               /\ ui'.added = ui.added \cup {calls[i].data}
               /\ ui'.gone = ui.gone /\ ui'.mixed = ui.mixed
      <3>1. callsTo("upload")' = {} /\ i \in callsTo("upload")
        BY <1>1, <1>2, <2>3 DEF PapersOne
      <3>2. QED
        BY <1>1, <2>3, <3>1 DEF PapersShown
    <2>4. CASE /\ op = "delete" /\ calls[i].ok
               /\ ui'.documents = ui.documents \ {calls[i].arg}
               /\ ui'.gone = ui.gone \cup {calls[i].arg}
               /\ ui'.added = ui.added /\ ui'.mixed = ui.mixed
      <3>1. calls[i].arg \notin db.files /\ i \in callsTo("delete")
        BY <1>1, <1>2, <2>4 DEF PapersAnswers
      <3>2. ~ui.mixed => /\ ui'.added \cap db.files \subseteq ui'.documents
                         /\ ui'.gone \cap ui'.documents = {}
        BY <1>1, <2>4, <3>1 DEF PapersShown
      <3>3. ASSUME ~ui.mixed, NEW j \in callsTo("upload")', calls[j].step = "answered", calls[j].ok
            PROVE  /\ calls[j].data \notin ui'.documents \cup ui'.gone
                   /\ \A l \in callsTo("delete")' : calls[l].arg # calls[j].data
        BY <1>1, <1>3, <2>4, <3>1, <3>3 DEF PapersShown
      <3>4. QED
        BY <1>3, <2>4, <3>2, <3>3 DEF PapersShown
    <2>5. QED
      BY <2>1, <2>2, <2>3, <2>4
  <1>10. QED
    BY <1>1, <1>2, <1>4, <1>5, <1>6, <1>7, <1>8, <1>9 DEF PapersInv

LEMMA PapersReceive ==
    ASSUME WebConstants, PapersInv, NEW i \in Slots, documentsPanel!Receive(i)
    PROVE  PapersInv'
  <1>1. i \in underWay /\ calls[i].step = "answered" /\ Finish(i) /\ db' = db /\ ui \in PapersUi
    BY PapersCalls DEF PapersInv, documentsPanel!Receive, documentsPanel!FirstArrives,
       documentsPanel!RefreshArrives, documentsPanel!UploadAnswered, documentsPanel!DownloadEnds,
       documentsPanel!DeleteAnswered, answered
  <1> DEFINE o == callsTo("delete") \cup callsTo("download")
             m == ~ui.clean
             d == IF i \in ui.orphans THEN ui.deleting ELSE None
             w == IF i \in ui.orphans THEN ui.downloading ELSE None
  <1>2. /\ o \in SUBSET Slots /\ m \in BOOLEAN /\ m = ~ui.clean
        /\ d \in Documents \cup {None} /\ (i \in ui.orphans => d = ui.deleting)
        /\ (i \notin ui.orphans => d = None) /\ w \in Documents \cup {None}
        /\ o = documentsPanel!callsOf({"delete", "download"})
        /\ (calls[i].op \notin {"delete", "download"} => i \notin o /\ i \notin ui.orphans)
        /\ o = callsTo("delete") \cup callsTo("download")
    BY <1>1, PapersCalls, PapersNames, CallsTo DEF PapersUi, underWay, PapersInv, PapersDeleting
  <1>3. /\ PapersUsed /\ PapersAnswers /\ db \in PapersDb
    BY DEF PapersInv
  <1>4. CASE documentsPanel!FirstArrives(i)
    <2>1. calls[i].op = "first" /\ i \in callsTo("first")
      BY <1>1, <1>4, CallsTo DEF documentsPanel!FirstArrives
    <2>2. CASE calls[i].ok /\ ui' = [ui EXCEPT !.isLoading = FALSE, !.documents = calls[i].data,
                                               !.error = FALSE, !.mixed = m]
      <3> HIDE DEF m
      <3>1. calls[i].data \subseteq Documents
        BY <1>1, <1>3, <2>1, <2>2 DEF PapersAnswers, PapersDb
      <3>2. /\ ui' \in PapersUi /\ ui'.isRefreshing = ui.isRefreshing /\ ui'.clean = ui.clean
            /\ ui'.isLoading = FALSE /\ ui'.submitting = ui.submitting
            /\ ui'.deleting = ui.deleting /\ ui'.orphans = ui.orphans
            /\ ui'.documents = calls[i].data /\ ui'.added = ui.added
            /\ ui'.gone = ui.gone /\ ui'.mixed = m
        BY <1>1, <1>2, <2>2, <3>1 DEF PapersUi
      <3>3. QED
        BY <1>1, <1>2, <2>1, <2>2, <3>2, PapersTaken
    <2>3. CASE ui' = [ui EXCEPT !.isLoading = FALSE, !.error = TRUE, !.deleting = None,
                                !.downloading = None, !.orphans = o]
      <3> HIDE DEF o
      <3>1. /\ ui' \in PapersUi /\ ui'.isRefreshing = ui.isRefreshing /\ ui'.clean = ui.clean
            /\ ui'.isLoading = FALSE /\ ui'.submitting = ui.submitting
            /\ ui'.deleting = None /\ ui'.orphans = o
            /\ ui'.documents = ui.documents /\ ui'.added = ui.added
            /\ ui'.gone = ui.gone /\ ui'.mixed = ui.mixed
        BY <1>1, <1>2, <2>3 DEF PapersUi
      <3>2. QED
        BY <1>1, <1>2, <2>1, <3>1, PapersTaken
    <2>4. QED
      BY <1>2, <1>4, <2>2, <2>3 DEF documentsPanel!FirstArrives, documentsPanel!hidden
  <1>5. CASE documentsPanel!RefreshArrives(i)
    <2>1. calls[i].op = "refresh" /\ i \in callsTo("refresh")
      BY <1>1, <1>5, CallsTo DEF documentsPanel!RefreshArrives
    <2>2. CASE calls[i].ok /\ ui' = [ui EXCEPT !.isRefreshing = FALSE, !.documents = calls[i].data,
                                               !.mixed = m]
      <3> HIDE DEF m
      <3>1. calls[i].data \subseteq Documents
        BY <1>1, <1>3, <2>1, <2>2 DEF PapersAnswers, PapersDb
      <3>2. /\ ui' \in PapersUi /\ ui'.isRefreshing = FALSE /\ ui'.clean = ui.clean
            /\ ui'.isLoading = ui.isLoading /\ ui'.submitting = ui.submitting
            /\ ui'.deleting = ui.deleting /\ ui'.orphans = ui.orphans
            /\ ui'.documents = calls[i].data /\ ui'.added = ui.added
            /\ ui'.gone = ui.gone /\ ui'.mixed = m
        BY <1>1, <1>2, <2>2, <3>1 DEF PapersUi
      <3>3. QED
        BY <1>1, <1>2, <2>1, <2>2, <3>2, PapersTaken
    <2>3. CASE ui' = [ui EXCEPT !.isRefreshing = FALSE, !.error = TRUE, !.deleting = None,
                                !.downloading = None, !.orphans = o]
      <3> HIDE DEF o
      <3>1. /\ ui' \in PapersUi /\ ui'.isRefreshing = FALSE /\ ui'.clean = ui.clean
            /\ ui'.isLoading = ui.isLoading /\ ui'.submitting = ui.submitting
            /\ ui'.deleting = None /\ ui'.orphans = o
            /\ ui'.documents = ui.documents /\ ui'.added = ui.added
            /\ ui'.gone = ui.gone /\ ui'.mixed = ui.mixed
        BY <1>1, <1>2, <2>3 DEF PapersUi
      <3>2. QED
        BY <1>1, <1>2, <2>1, <3>1, PapersTaken
    <2>4. QED
      BY <1>2, <1>5, <2>2, <2>3 DEF documentsPanel!RefreshArrives, documentsPanel!hidden
  <1>6. CASE documentsPanel!UploadAnswered(i)
    <2>1. calls[i].op = "upload" /\ i \in callsTo("upload")
      BY <1>1, <1>6, CallsTo DEF documentsPanel!UploadAnswered
    <2>2. CASE calls[i].ok /\ ui' = [ui EXCEPT !.submitting = FALSE, !.error = FALSE,
                                               !.documents = ui.documents \cup {calls[i].data},
                                               !.added = ui.added \cup {calls[i].data}]
      <3>1. calls[i].data \in Documents
        BY <1>1, <1>3, <2>1, <2>2 DEF PapersAnswers, PapersDb
      <3>2. /\ ui' \in PapersUi /\ ui'.isRefreshing = ui.isRefreshing /\ ui'.clean = ui.clean
            /\ ui'.isLoading = ui.isLoading /\ ui'.submitting = FALSE
            /\ ui'.deleting = ui.deleting /\ ui'.orphans = ui.orphans
            /\ ui'.documents = ui.documents \cup {calls[i].data}
            /\ ui'.added = ui.added \cup {calls[i].data}
            /\ ui'.gone = ui.gone /\ ui'.mixed = ui.mixed
        BY <1>1, <2>2, <3>1 DEF PapersUi
      <3>3. QED
        BY <1>1, <1>2, <2>1, <2>2, <3>2, PapersTaken
    <2>3. CASE ui' = [ui EXCEPT !.submitting = FALSE, !.formError = TRUE]
      <3>1. /\ ui' \in PapersUi /\ ui'.isRefreshing = ui.isRefreshing /\ ui'.clean = ui.clean
            /\ ui'.isLoading = ui.isLoading /\ ui'.submitting = FALSE
            /\ ui'.deleting = ui.deleting /\ ui'.orphans = ui.orphans
            /\ ui'.documents = ui.documents /\ ui'.added = ui.added
            /\ ui'.gone = ui.gone /\ ui'.mixed = ui.mixed
        BY <1>1, <2>3 DEF PapersUi
      <3>2. QED
        BY <1>1, <1>2, <2>1, <3>1, PapersTaken
    <2>4. QED
      BY <1>6, <2>2, <2>3 DEF documentsPanel!UploadAnswered, documentsPanel!handleUploaded
  <1>7. CASE documentsPanel!DownloadEnds(i)
    <2>1. calls[i].op = "download" /\ i \in callsTo("download")
      BY <1>1, <1>7, CallsTo DEF documentsPanel!DownloadEnds
    <2>2. ui' = [ui EXCEPT !.downloading = w, !.orphans = ui.orphans \ {i}]
      BY <1>7 DEF documentsPanel!DownloadEnds
    <2> HIDE DEF w
    <2>3. /\ ui' \in PapersUi /\ ui'.isRefreshing = ui.isRefreshing /\ ui'.clean = ui.clean
          /\ ui'.isLoading = ui.isLoading /\ ui'.submitting = ui.submitting
          /\ ui'.deleting = ui.deleting /\ ui'.orphans = ui.orphans \ {i}
          /\ ui'.documents = ui.documents /\ ui'.added = ui.added
          /\ ui'.gone = ui.gone /\ ui'.mixed = ui.mixed
      BY <1>1, <1>2, <2>2 DEF PapersUi
    <2>4. QED
      BY <1>1, <1>2, <2>1, <2>3, PapersTaken
  <1>8. CASE documentsPanel!DeleteAnswered(i)
    <2>1. calls[i].op = "delete" /\ i \in callsTo("delete")
      BY <1>1, <1>8, CallsTo DEF documentsPanel!DeleteAnswered
    <2>2. calls[i].arg \in Documents
      BY <1>1, <1>3, <2>1 DEF PapersAnswers, PapersDb
    <2>3. CASE calls[i].ok /\ ui' = [ui EXCEPT !.deleting = d, !.orphans = ui.orphans \ {i},
                                               !.documents = ui.documents \ {calls[i].arg},
                                               !.gone = ui.gone \cup {calls[i].arg}]
      <3> HIDE DEF d
      <3>1. /\ ui' \in PapersUi /\ ui'.isRefreshing = ui.isRefreshing /\ ui'.clean = ui.clean
            /\ ui'.isLoading = ui.isLoading /\ ui'.submitting = ui.submitting
            /\ ui'.deleting = d /\ ui'.orphans = ui.orphans \ {i}
            /\ ui'.documents = ui.documents \ {calls[i].arg} /\ ui'.added = ui.added
            /\ ui'.gone = ui.gone \cup {calls[i].arg} /\ ui'.mixed = ui.mixed
        BY <1>1, <1>2, <2>2, <2>3 DEF PapersUi
      <3>2. QED
        BY <1>1, <1>2, <2>1, <2>3, <3>1, PapersTaken
    <2>4. CASE ui' = [ui EXCEPT !.deleting = d, !.orphans = ui.orphans \ {i}]
      <3> HIDE DEF d
      <3>1. /\ ui' \in PapersUi /\ ui'.isRefreshing = ui.isRefreshing /\ ui'.clean = ui.clean
            /\ ui'.isLoading = ui.isLoading /\ ui'.submitting = ui.submitting
            /\ ui'.deleting = d /\ ui'.orphans = ui.orphans \ {i}
            /\ ui'.documents = ui.documents /\ ui'.added = ui.added
            /\ ui'.gone = ui.gone /\ ui'.mixed = ui.mixed
        BY <1>1, <1>2, <2>4 DEF PapersUi
      <3>2. QED
        BY <1>1, <1>2, <2>1, <3>1, PapersTaken
    <2>5. QED
      BY <1>8, <2>3, <2>4 DEF documentsPanel!DeleteAnswered
  <1>9. QED
    BY <1>4, <1>5, <1>6, <1>7, <1>8 DEF documentsPanel!Receive

LEMMA PapersNext ==
    ASSUME WebConstants, PapersInv, documentsPanel!Next
    PROVE  PapersInv'
  BY PapersOperator, PapersSomebody, PapersServed, PapersReceive, PapersCalls
  DEF documentsPanel!Next

LEMMA PapersInit ==
    ASSUME WebConstants, documentsPanel!Init
    PROVE  PapersInv
  <1>1. calls = placed(NoCalls, Sent("first", None))
    BY PapersCalls DEF documentsPanel!Init
  <1>2. Sent("first", None) # NoCall /\ Sent("first", None).op = "first" /\ Sent("first", None).step = "sent"
    BY CallIsSome
  <1>3. /\ CallsOK /\ underWay = {1} /\ 1 \in Slots /\ calls[1] = Sent("first", None)
        /\ callsTo("first") = {1} /\ \A x : x # "first" => callsTo(x) = {}
    BY <1>1, <1>2, OpenedTo
  <1>4. /\ ui \in PapersUi /\ db \in PapersDb /\ db.files = db.used
        /\ ui.isLoading /\ ~ui.isRefreshing /\ ~ui.submitting /\ ui.orphans = {} /\ ui.deleting = None
        /\ ui.documents = {} /\ ui.added = {} /\ ui.gone = {}
    BY DEF documentsPanel!Init, PapersUi, PapersDb
  <1>5. PapersOne /\ PapersDeleting
    BY <1>3, <1>4 DEF PapersOne, PapersDeleting
  <1>6. PapersUsed /\ PapersAnswers
    BY <1>2, <1>3, <1>4 DEF PapersUsed, PapersAnswers
  <1>7. PapersLoads /\ PapersShown
    BY <1>2, <1>3, <1>4 DEF PapersLoads, PapersShown
  <1>8. QED
    BY <1>2, <1>3, <1>4, <1>5, <1>6, <1>7 DEF PapersInv, PapersOps

LEMMA PapersHold ==
    ASSUME PapersInv
    PROVE  /\ documentsPanel!TypeOK /\ documentsPanel!BusyWhileUnderWay
           /\ documentsPanel!OwnStepIsShown
  <1>1. documentsPanel!TypeOK
    BY PapersCalls DEF PapersInv, PapersUi, PapersDb, PapersOps, PapersUsed, documentsPanel!TypeOK
  <1>2. /\ documentsPanel!callsOf({"upload"}) = callsTo("upload")
        /\ documentsPanel!callsOf({"delete"}) = callsTo("delete")
        /\ documentsPanel!callsOf(documentsPanel!loads) = callsTo("first") \cup callsTo("refresh")
    BY PapersCalls, PapersNames, CallsTo
  <1>3. documentsPanel!BusyWhileUnderWay
    BY <1>2 DEF PapersInv, PapersOne, PapersDeleting, documentsPanel!BusyWhileUnderWay
  <1>4. documentsPanel!OwnStepIsShown
    BY DEF PapersInv, PapersShown, documentsPanel!OwnStepIsShown
  <1>5. QED
    BY <1>1, <1>3, <1>4

-----------------------------------------------------------------------------
(* The photos of one vehicle *)

\* The calls of the page are those of WebCalls.
LEMMA PhotosCalls ==
    /\ photosPanel!underWay = underWay /\ photosPanel!underWay' = underWay'
    /\ photosPanel!Slots = Slots
    /\ \A ops : /\ photosPanel!callsOf(ops) = callsOf(ops)
                /\ photosPanel!callsOf(ops)' = callsOf(ops)'
    /\ \A op, arg : photosPanel!Sent(op, arg) = Sent(op, arg)
    /\ \A op, arg : photosPanel!Call(op, arg) <=> Call(op, arg)
    /\ \A i : photosPanel!Finish(i) <=> Finish(i)
    /\ \A c : photosPanel!placed(photosPanel!NoCalls, c) = placed(NoCalls, c)
    /\ \A i : photosPanel!answered(i) <=> answered(i)
    /\ \A i : photosPanel!waiting(i) <=> waiting(i)
    /\ \A i, data : photosPanel!Reply(i, data) <=> Succeed(i, data) \/ Fail(i)
    /\ \A i : photosPanel!Fail(i) <=> Fail(i)
    /\ photosPanel!freeSlot = freeSlot
  <1> USE DEF photosPanel!NoCall, NoCall
  <1>1. photosPanel!Slots = Slots /\ photosPanel!underWay = underWay
    BY DEF photosPanel!underWay, photosPanel!Slots, underWay, Slots
  <1>2. photosPanel!underWay' = underWay'
    BY DEF photosPanel!underWay, photosPanel!Slots, underWay, Slots
  <1>3. \A ops : /\ photosPanel!callsOf(ops) = callsOf(ops)
                 /\ photosPanel!callsOf(ops)' = callsOf(ops)'
    BY <1>1, <1>2 DEF photosPanel!callsOf, callsOf
  <1>4. \A op, arg : photosPanel!Sent(op, arg) = Sent(op, arg)
    BY DEF photosPanel!Sent, Sent
  <1>5. \A op, arg : photosPanel!Call(op, arg) <=> Call(op, arg)
    BY <1>1, <1>4 DEF photosPanel!Call, Call, photosPanel!mayCall, mayCall,
                      photosPanel!placed, placed, photosPanel!firstFree, firstFree
  <1>6. \A i : photosPanel!Finish(i) <=> Finish(i)
    BY DEF photosPanel!Finish, Finish
  <1>7. \A c : photosPanel!placed(photosPanel!NoCalls, c) = placed(NoCalls, c)
    BY <1>1
    DEF photosPanel!placed, placed, photosPanel!firstFree, firstFree, photosPanel!NoCalls, NoCalls
  <1>8. \A i : photosPanel!answered(i) <=> answered(i)
    BY <1>1 DEF photosPanel!answered, answered
  <1>9. \A i : photosPanel!waiting(i) <=> waiting(i)
    BY <1>1 DEF photosPanel!waiting, waiting
  <1>10. \A i, data : photosPanel!Reply(i, data) <=> Succeed(i, data) \/ Fail(i)
    BY DEF photosPanel!Reply, photosPanel!Succeed, Succeed, photosPanel!Fail, Fail,
       photosPanel!Answer, Answer
  <1>11. \A i : photosPanel!Fail(i) <=> Fail(i)
    BY DEF photosPanel!Fail, Fail, photosPanel!Answer, Answer
  <1>12. photosPanel!freeSlot = freeSlot
    BY <1>1 DEF photosPanel!freeSlot, freeSlot, photosPanel!firstFree, firstFree
  <1>13. QED
    BY <1>1, <1>2, <1>3, <1>4, <1>5, <1>6, <1>7, <1>8, <1>9, <1>10, <1>11, <1>12

PhotosDb == [photos: SUBSET Documents, primary: Documents \cup {None}, used: SUBSET Documents]

PhotosUi ==
    [photos: SUBSET Documents, primary: Documents \cup {None},
     isLoading: BOOLEAN, isRefreshing: BOOLEAN, uploading: BOOLEAN,
     busy: Documents \cup {None}, editing: Documents \cup {None}, saving: BOOLEAN,
     orphans: SUBSET Slots, exact: BOOLEAN, alone: BOOLEAN]

PhotosSeen ==
    {seen \in [photo: Documents, isPrimary: BOOLEAN, photos: SUBSET Documents,
               primary: Documents \cup {None}] :
        seen.photo \in seen.photos /\ seen.primary \in seen.photos \cup {None}}

GalleryOps == {"primary", "delete", "download"}
PhotosLoads == {"first", "refresh"}
PhotosChanges == {"upload", "primary", "delete", "save"}
PhotosOps == PhotosLoads \cup PhotosChanges \cup GalleryOps

\* The primary photo is one of the photos, and a handler remembers a list of which
\* this holds.
PhotosTyped ==
    /\ db \in PhotosDb /\ db.photos \subseteq db.used /\ db.primary \in db.photos \cup {None}
    /\ ui \in PhotosUi /\ ui.primary \in ui.photos \cup {None}
    /\ \A i \in underWay :
           /\ calls[i].op \in PhotosOps
           /\ calls[i].op \in {"primary", "delete", "save"} => calls[i].arg \in PhotosSeen
           /\ calls[i].op = "delete" => calls[i].arg.isPrimary = FALSE
           /\ calls[i].op = "upload" => calls[i].arg \in BOOLEAN
           /\ calls[i].op = "upload" /\ calls[i].step = "answered" /\ calls[i].ok =>
                  calls[i].data \in Documents
           /\ calls[i].op \in PhotosLoads /\ calls[i].step = "answered" /\ calls[i].ok =>
                  calls[i].data \in PhotosDb /\ calls[i].data.primary \in calls[i].data.photos \cup {None}

PhotosBusy ==
    /\ ui.isLoading \/ ui.isRefreshing => callsOf(PhotosLoads) # {}
    /\ ui.uploading <=> callsOf({"upload"}) # {}
    /\ \A i, j \in callsOf({"upload"}) : i = j
    /\ ui.busy # None => \E i \in callsOf(GalleryOps) : calls[i].arg.photo = ui.busy
    /\ ui.orphans \subseteq callsOf({"save"})
    /\ ui.saving => \E i \in callsOf({"save"}) : i \notin ui.orphans

SameRows(rows, others) == rows.photos = others.photos /\ rows.primary = others.primary

\* What the API has made of the one change that is under way, or will make of it.
PhotosChange(i) ==
    IF calls[i].step = "answered" /\ calls[i].ok
    THEN IF calls[i].op = "upload"
         THEN /\ db.photos = ui.photos \cup {calls[i].data}
              /\ db.primary = photosPanel!primaryAfter(ui, calls[i].data, calls[i].arg)
         ELSE SameRows(photosPanel!changed(calls[i].op, calls[i].arg), db)
    ELSE /\ SameRows(ui, db)
         /\ calls[i].op # "upload" /\ calls[i].step = "sent" => SameRows(calls[i].arg, db)

\* A load that is alone, or that finds the list exact, answers with what the API
\* has when it is taken.
PhotosLoaded ==
    /\ ui.alone => callsOf(PhotosChanges) = {}
    /\ ui.exact => callsOf(PhotosLoads) = {} \/ callsOf(PhotosChanges) = {}
    /\ ui.exact \/ ui.alone =>
           \A i \in callsOf(PhotosLoads) :
               calls[i].step = "answered" /\ calls[i].ok => SameRows(calls[i].data, db)

PhotosExact ==
    ui.exact =>
        /\ \A i, j \in callsOf(PhotosChanges) : i = j
        /\ \A i \in callsOf(PhotosChanges) : PhotosChange(i)
        /\ callsOf(PhotosChanges) = {} => SameRows(ui, db)

PhotosInv == CallsOK /\ PhotosTyped /\ PhotosBusy /\ PhotosLoaded /\ PhotosExact

LEMMA PhotosNames ==
    /\ photosPanel!loads = PhotosLoads /\ photosPanel!changes = PhotosChanges
    /\ photosPanel!changes \cup photosPanel!loads = PhotosChanges \cup PhotosLoads
    /\ callsOf(PhotosChanges \cup PhotosLoads) = callsOf(PhotosChanges) \cup callsOf(PhotosLoads)
    /\ \A ops, i : i \in callsOf(ops) <=> i \in underWay /\ calls[i].op \in ops
    /\ \A op : op \in PhotosLoads => op \notin PhotosChanges /\ op \notin GalleryOps
  BY DEF photosPanel!loads, photosPanel!changes, PhotosLoads, PhotosChanges, GalleryOps, callsOf

LEMMA PhotosServed ==
    ASSUME PhotosInv, NEW i \in Slots, photosPanel!Serve(i)
    PROVE  PhotosInv'
  <1> DEFINE x == ui.exact /\ (calls'[i].ok \/ db' = db)
  <1>1. /\ i \in underWay /\ calls[i].step = "sent" /\ ui' = [ui EXCEPT !.exact = x]
        /\ CallsOK /\ PhotosTyped /\ PhotosBusy /\ PhotosLoaded /\ PhotosExact
    BY PhotosCalls DEF PhotosInv, photosPanel!Serve, waiting
  <1>2. /\ x \in BOOLEAN /\ (x <=> ui.exact /\ (calls'[i].ok \/ db' = db))
    OBVIOUS
  <1> HIDE DEF x
  <1>3. /\ ui' \in PhotosUi /\ ui'.exact = x /\ ui'.photos = ui.photos /\ ui'.primary = ui.primary
        /\ ui'.isLoading = ui.isLoading /\ ui'.isRefreshing = ui.isRefreshing
        /\ ui'.uploading = ui.uploading /\ ui'.busy = ui.busy /\ ui'.saving = ui.saving
        /\ ui'.orphans = ui.orphans /\ ui'.alone = ui.alone
    BY <1>1, <1>2 DEF PhotosTyped, PhotosUi
  <1>4. ASSUME NEW ok \in BOOLEAN, NEW data,
               \/ ok = TRUE /\ Succeed(i, data)
               \/ ok = FALSE /\ data = None /\ Fail(i),
               db' \in PhotosDb, db'.photos \subseteq db'.used, db'.primary \in db'.photos \cup {None},
               db' = db \/ calls[i].op \in PhotosChanges,
               ok /\ calls[i].op = "upload" =>
                   /\ data \in Documents /\ db'.photos = db.photos \cup {data}
                   /\ db'.primary = photosPanel!primaryAfter(db, data, calls[i].arg),
               ok /\ calls[i].op \in {"primary", "save"} =>
                   /\ db'.photos = db.photos
                   /\ db'.primary = photosPanel!primaryAfter(db, calls[i].arg.photo, calls[i].arg.isPrimary),
               ok /\ calls[i].op = "delete" =>
                   /\ db'.photos = db.photos \ {calls[i].arg.photo}
                   /\ db'.primary = photosPanel!primaryAfter(db, calls[i].arg.photo, FALSE),
               ok /\ calls[i].op \in PhotosLoads => data = db
        PROVE  PhotosInv'
    <2>1. /\ CallsOK' /\ underWay' = underWay
          /\ calls'[i].step = "answered" /\ calls'[i].op = calls[i].op
          /\ calls'[i].arg = calls[i].arg /\ calls'[i].ok = ok /\ calls'[i].data = data
          /\ \A j \in underWay : calls'[j].op = calls[j].op /\ calls'[j].arg = calls[j].arg
          /\ \A j \in underWay : j # i => calls'[j] = calls[j]
          /\ \A ops : callsOf(ops)' = callsOf(ops)
      BY <1>1, <1>4, CallServed, ServedTo
    <2>2. x => ui.exact /\ (ok \/ db' = db)
      BY <1>2, <2>1
    <2>3. PhotosTyped'
      <3>1. /\ db' \in PhotosDb /\ db'.photos \subseteq db'.used /\ db'.primary \in db'.photos \cup {None}
            /\ ui' \in PhotosUi /\ ui'.primary \in ui'.photos \cup {None}
        BY <1>1, <1>3, <1>4 DEF PhotosTyped
      <3>2. /\ calls[i].op = "upload" /\ ok => data \in Documents
            /\ calls[i].op \in PhotosLoads /\ ok =>
                   data \in PhotosDb /\ data.primary \in data.photos \cup {None}
        BY <1>1, <1>4 DEF PhotosTyped
      <3>3. \A j \in underWay :
           /\ calls'[j].op \in PhotosOps
           /\ calls'[j].op \in {"primary", "delete", "save"} => calls'[j].arg \in PhotosSeen
           /\ calls'[j].op = "delete" => calls'[j].arg.isPrimary = FALSE
           /\ calls'[j].op = "upload" => calls'[j].arg \in BOOLEAN
        BY <1>1, <2>1 DEF PhotosTyped
      <3>4. \A j \in underWay :
           /\ calls'[j].op = "upload" /\ calls'[j].step = "answered" /\ calls'[j].ok =>
                  calls'[j].data \in Documents
           /\ calls'[j].op \in PhotosLoads /\ calls'[j].step = "answered" /\ calls'[j].ok =>
                  calls'[j].data \in PhotosDb /\ calls'[j].data.primary \in calls'[j].data.photos \cup {None}
        BY <1>1, <2>1, <3>2 DEF PhotosTyped
      <3>5. QED
        BY <2>1, <3>1, <3>3, <3>4 DEF PhotosTyped
    <2>4. PhotosBusy'
      <3>1. ui.busy # None => \E j \in callsOf(GalleryOps) : calls'[j].arg.photo = ui.busy
        BY <1>1, <2>1, PhotosNames DEF PhotosBusy
      <3>2. QED
        BY <1>1, <1>3, <2>1, <3>1 DEF PhotosBusy, PhotosLoads, GalleryOps
    <2>5. PhotosLoaded'
      <3>1. /\ ui'.alone => callsOf(PhotosChanges) = {}
            /\ ui'.exact => callsOf(PhotosLoads) = {} \/ callsOf(PhotosChanges) = {}
        BY <1>1, <1>3, <2>2 DEF PhotosLoaded
      <3>2. ASSUME ui'.exact \/ ui'.alone, NEW j \in callsOf(PhotosLoads),
                   calls'[j].step = "answered", calls'[j].ok
            PROVE  SameRows(calls'[j].data, db')
        <4>1. ui.exact \/ ui.alone
          BY <1>3, <2>2, <3>2
        <4>2. callsOf(PhotosChanges) = {}
          BY <3>1, <3>2
        <4>3. db' = db
          BY <1>1, <1>4, <4>2, PhotosNames
        <4>4. CASE j = i
          BY <1>4, <2>1, <3>2, <4>3, <4>4, PhotosNames DEF SameRows
        <4>5. CASE j # i
          BY <1>1, <2>1, <3>2, <4>1, <4>3, <4>5, PhotosNames DEF PhotosLoaded, SameRows
        <4>6. QED
          BY <4>4, <4>5
      <3>3. QED
        BY <2>1, <3>1, <3>2 DEF PhotosLoaded, PhotosLoads, PhotosChanges
    <2>6. PhotosExact'
      <3>1. SUFFICES ASSUME ui'.exact PROVE PhotosExact'
        BY DEF PhotosExact
      <3>2. ui.exact /\ (ok \/ db' = db)
        BY <1>3, <2>2, <3>1
      <3>3. CASE i \in callsOf(PhotosChanges)
        <4>1. \A j \in callsOf(PhotosChanges) : j = i
          BY <1>1, <3>2, <3>3 DEF PhotosExact
        <4>2. /\ SameRows(ui, db) /\ calls[i].op \in PhotosChanges
              /\ calls[i].op # "upload" => SameRows(calls[i].arg, db) /\ calls[i].arg \in PhotosSeen
              /\ calls[i].op = "delete" => calls[i].arg.isPrimary = FALSE
          BY <1>1, <3>2, <3>3, PhotosNames
          DEF PhotosExact, PhotosChange, PhotosTyped, PhotosChanges
        <4>3. CASE ok = FALSE
          BY <1>3, <2>1, <3>2, <3>3, <4>1, <4>2, <4>3
          DEF PhotosExact, PhotosChange, SameRows, PhotosChanges
        <4>4. CASE ok /\ calls[i].op = "upload"
          <5>1. PhotosChange(i)'
            BY <1>3, <1>4, <2>1, <4>2, <4>4 DEF PhotosChange, SameRows, photosPanel!primaryAfter
          <5>2. QED
            BY <2>1, <3>3, <4>1, <5>1 DEF PhotosExact, PhotosChanges
        <4>5. CASE ok /\ calls[i].op # "upload"
          <5>1. SameRows(photosPanel!changed(calls[i].op, calls[i].arg), db')
            BY <1>4, <4>2, <4>5, <2>1
            DEF SameRows, photosPanel!primaryAfter, photosPanel!changed, PhotosChanges
          <5>2. PhotosChange(i)'
            BY <2>1, <4>5, <5>1 DEF PhotosChange, SameRows
          <5>3. QED
            BY <2>1, <3>3, <4>1, <5>2 DEF PhotosExact, PhotosChanges
        <4>6. QED
          BY <4>3, <4>4, <4>5
      <3>4. CASE i \notin callsOf(PhotosChanges)
        <4>1. db' = db /\ \A j \in callsOf(PhotosChanges) : calls'[j] = calls[j]
          BY <1>1, <1>4, <2>1, <3>4, PhotosNames
        <4>2. \A j \in callsOf(PhotosChanges) : PhotosChange(j)'
          BY <1>1, <1>3, <3>2, <4>1
          DEF PhotosExact, PhotosChange, SameRows, photosPanel!primaryAfter
        <4>3. QED
          BY <1>1, <1>3, <2>1, <3>2, <4>1, <4>2 DEF PhotosExact, SameRows, PhotosChanges
      <3>5. QED
        BY <3>3, <3>4
    <2>7. QED
      BY <2>1, <2>3, <2>4, <2>5, <2>6 DEF PhotosInv
  <1>5. db \in PhotosDb /\ db.photos \subseteq db.used /\ db.primary \in db.photos \cup {None}
    BY <1>1 DEF PhotosTyped
  <1>6. CASE calls[i].op = "upload" /\ \E p \in Documents : photosPanel!Upload(p, calls[i].arg) /\ photosPanel!Reply(i, p)
    <2>1. PICK p \in Documents : photosPanel!Upload(p, calls[i].arg) /\ photosPanel!Reply(i, p)
      BY <1>6
    <2>2. calls[i].arg \in BOOLEAN /\ calls[i].op \in PhotosChanges /\ calls[i].op \notin PhotosLoads
      BY <1>1, <1>6 DEF PhotosTyped, PhotosChanges, PhotosLoads
    <2>3. /\ db' \in PhotosDb /\ db'.photos \subseteq db'.used /\ db'.primary \in db'.photos \cup {None}
          /\ db'.photos = db.photos \cup {p}
          /\ db'.primary = photosPanel!primaryAfter(db, p, calls[i].arg)
      BY <1>5, <2>1, <2>2 DEF photosPanel!Upload, PhotosDb, photosPanel!primaryAfter
    <2>4. CASE Succeed(i, p)
      BY <1>4, <1>6, <2>2, <2>3, <2>4
    <2>5. CASE Fail(i)
      BY <1>4, <1>6, <2>2, <2>3, <2>5
    <2>6. QED
      BY <2>1, <2>4, <2>5, PhotosCalls
  <1>7. CASE /\ calls[i].op \in {"primary", "save"} /\ photosPanel!Reply(i, None)
             /\ photosPanel!Update(calls[i].arg.photo, calls[i].arg.isPrimary)
    <2>1. calls[i].op \in PhotosChanges /\ calls[i].op \notin PhotosLoads /\ calls[i].arg \in PhotosSeen
      BY <1>1, <1>7 DEF PhotosTyped, PhotosChanges, PhotosLoads
    <2>2. /\ db' \in PhotosDb /\ db'.photos \subseteq db'.used /\ db'.primary \in db'.photos \cup {None}
          /\ db'.photos = db.photos
          /\ db'.primary = photosPanel!primaryAfter(db, calls[i].arg.photo, calls[i].arg.isPrimary)
      BY <1>5, <1>7, <2>1 DEF photosPanel!Update, PhotosDb, photosPanel!primaryAfter, PhotosSeen
    <2>3. CASE Succeed(i, None)
      BY <1>4, <1>7, <2>1, <2>2, <2>3
    <2>4. CASE Fail(i)
      BY <1>4, <1>7, <2>1, <2>2, <2>4
    <2>5. QED
      BY <1>7, <2>3, <2>4, PhotosCalls
  <1>8. CASE calls[i].op = "delete" /\ photosPanel!Remove(calls[i].arg.photo) /\ photosPanel!Reply(i, None)
    <2>1. calls[i].op \in PhotosChanges /\ calls[i].op \notin PhotosLoads /\ calls[i].arg \in PhotosSeen
      BY <1>1, <1>8 DEF PhotosTyped, PhotosChanges, PhotosLoads
    <2>2. /\ db' \in PhotosDb /\ db'.photos \subseteq db'.used /\ db'.primary \in db'.photos \cup {None}
          /\ db'.photos = db.photos \ {calls[i].arg.photo}
          /\ db'.primary = photosPanel!primaryAfter(db, calls[i].arg.photo, FALSE)
      BY <1>5, <1>8, <2>1 DEF photosPanel!Remove, PhotosDb, photosPanel!primaryAfter, PhotosSeen
    <2>3. CASE Succeed(i, None)
      BY <1>4, <1>8, <2>1, <2>2, <2>3
    <2>4. CASE Fail(i)
      BY <1>4, <1>8, <2>1, <2>2, <2>4
    <2>5. QED
      BY <1>8, <2>3, <2>4, PhotosCalls
  <1>9. CASE /\ db' = db /\ calls[i].op \in PhotosLoads \cup {"download"}
             /\ Succeed(i, db) \/ Succeed(i, None)
             /\ calls[i].op \in PhotosLoads => Succeed(i, db)
    <2>1. PICK data : Succeed(i, data) /\ (calls[i].op \in PhotosLoads => data = db)
      BY <1>9
    <2>2. calls[i].op \notin {"upload", "primary", "save", "delete"}
      BY <1>9 DEF PhotosLoads
    <2>3. QED
      BY <1>4, <1>5, <1>9, <2>1, <2>2
  <1>10. CASE db' = db /\ Fail(i)
    BY <1>4, <1>5, <1>10
  <1>11. \/ db' = db /\ Fail(i)
         \/ /\ db' = db /\ calls[i].op \in PhotosLoads \cup {"download"}
            /\ Succeed(i, db) \/ Succeed(i, None)
            /\ calls[i].op \in PhotosLoads => Succeed(i, db)
         \/ calls[i].op = "delete" /\ photosPanel!Remove(calls[i].arg.photo) /\ photosPanel!Reply(i, None)
         \/ /\ calls[i].op \in {"primary", "save"} /\ photosPanel!Reply(i, None)
            /\ photosPanel!Update(calls[i].arg.photo, calls[i].arg.isPrimary)
         \/ /\ calls[i].op = "upload"
            /\ \E p \in Documents : photosPanel!Upload(p, calls[i].arg) /\ photosPanel!Reply(i, p)
    BY PhotosCalls DEF photosPanel!Serve, photosPanel!loads, PhotosLoads
  <1>12. QED
    BY <1>6, <1>7, <1>8, <1>9, <1>10, <1>11

LEMMA PhotosSomebody ==
    ASSUME PhotosInv, photosPanel!SomebodyElse
    PROVE  PhotosInv'
  <1>1. /\ ui' = [ui EXCEPT !.exact = FALSE, !.alone = FALSE] /\ calls' = calls
        /\ CallsOK /\ PhotosTyped /\ PhotosBusy
    BY DEF PhotosInv, photosPanel!SomebodyElse
  <1>2. /\ db' \in PhotosDb /\ db'.photos \subseteq db'.used /\ db'.primary \in db'.photos \cup {None}
    <2>1. PICK p \in Documents, isPrimary \in BOOLEAN :
              photosPanel!Remove(p) \/ photosPanel!Upload(p, isPrimary) \/ photosPanel!Update(p, isPrimary)
      BY DEF photosPanel!SomebodyElse
    <2>2. db \in PhotosDb /\ db.photos \subseteq db.used /\ db.primary \in db.photos \cup {None}
      BY <1>1 DEF PhotosTyped
    <2>3. CASE photosPanel!Remove(p)
      BY <2>2, <2>3 DEF photosPanel!Remove, photosPanel!primaryAfter, PhotosDb
    <2>4. CASE photosPanel!Upload(p, isPrimary)
      BY <2>2, <2>4 DEF photosPanel!Upload, photosPanel!primaryAfter, PhotosDb
    <2>5. CASE photosPanel!Update(p, isPrimary)
      BY <2>2, <2>5 DEF photosPanel!Update, photosPanel!primaryAfter, PhotosDb
    <2>6. QED
      BY <2>1, <2>3, <2>4, <2>5
  <1>3. /\ ui' \in PhotosUi /\ ui'.exact = FALSE /\ ui'.photos = ui.photos /\ ui'.primary = ui.primary
        /\ ui'.isLoading = ui.isLoading /\ ui'.isRefreshing = ui.isRefreshing
        /\ ui'.uploading = ui.uploading /\ ui'.busy = ui.busy /\ ui'.saving = ui.saving
        /\ ui'.orphans = ui.orphans /\ ui'.alone = FALSE
    BY <1>1 DEF PhotosTyped, PhotosUi
  <1>4. underWay' = underWay /\ CallsOK' /\ \A ops : callsOf(ops)' = callsOf(ops)
    BY <1>1, StayTo, CallsStay
  <1>5. PhotosTyped'
    BY <1>1, <1>2, <1>3, <1>4 DEF PhotosTyped
  <1>6. PhotosBusy'
    BY <1>1, <1>3, <1>4 DEF PhotosBusy, PhotosLoads, GalleryOps
  <1>7. PhotosLoaded' /\ PhotosExact'
    BY <1>3 DEF PhotosLoaded, PhotosExact
  <1>8. QED
    BY <1>4, <1>5, <1>6, <1>7 DEF PhotosInv

\* A button that sends a call.
LEMMA PhotosSent ==
    ASSUME PhotosInv, NEW op \in {"refresh", "upload", "primary", "delete", "download", "save"},
           NEW arg, Call(op, arg), db' = db, ui' \in PhotosUi,
           ui'.photos = ui.photos, ui'.primary = ui.primary, ui'.orphans = ui.orphans,
           ui'.isLoading = ui.isLoading,
           ui'.isRefreshing => ui.isRefreshing \/ op = "refresh",
           ui'.uploading <=> ui.uploading \/ op = "upload",
           op = "upload" => ~ui.uploading /\ arg \in BOOLEAN,
           ui'.busy = IF op \in GalleryOps THEN arg.photo ELSE ui.busy,
           ui'.saving => ui.saving \/ op = "save",
           op \in {"primary", "delete", "save"} => arg \in PhotosSeen /\ SameRows(arg, ui),
           op = "delete" => arg.isPrimary = FALSE,
           op \in PhotosChanges =>
               /\ ui'.alone = FALSE
               /\ ui'.exact => ui.exact /\ callsOf(PhotosChanges) \cup callsOf(PhotosLoads) = {},
           op = "refresh" =>
               /\ ui'.exact => ui.exact /\ callsOf(PhotosChanges) = {}
               /\ ui'.alone => callsOf(PhotosChanges) \cup callsOf(PhotosLoads) = {},
           op = "download" => ui'.alone = ui.alone /\ ui'.exact = ui.exact
    PROVE  PhotosInv'
  <1>1. CallsOK /\ PhotosTyped /\ PhotosBusy /\ PhotosLoaded /\ PhotosExact
    BY DEF PhotosInv
  <1>2. PICK k \in Slots :
             /\ k \notin underWay /\ underWay' = underWay \cup {k}
             /\ CallsOK' /\ calls'[k].step = "sent" /\ calls'[k].op = op /\ calls'[k].arg = arg
             /\ \A i \in underWay : i # k /\ calls'[i] = calls[i]
             /\ \A ops : callsOf(ops)' = IF op \in ops THEN callsOf(ops) \cup {k} ELSE callsOf(ops)
    BY <1>1, CallSent
  <1>3. /\ callsOf(PhotosLoads)' = IF op \in PhotosLoads THEN callsOf(PhotosLoads) \cup {k}
                                  ELSE callsOf(PhotosLoads)
        /\ callsOf(PhotosChanges)' = IF op \in PhotosChanges THEN callsOf(PhotosChanges) \cup {k}
                                    ELSE callsOf(PhotosChanges)
        /\ callsOf(GalleryOps)' = IF op \in GalleryOps THEN callsOf(GalleryOps) \cup {k}
                                 ELSE callsOf(GalleryOps)
        /\ callsOf({"upload"})' = IF op = "upload" THEN callsOf({"upload"}) \cup {k}
                                 ELSE callsOf({"upload"})
        /\ callsOf({"save"})' = IF op = "save" THEN callsOf({"save"}) \cup {k}
                               ELSE callsOf({"save"})
    BY <1>2 DEF PhotosLoads, PhotosChanges, GalleryOps
  <1>4. \A ops : \A i \in callsOf(ops) : i \in underWay /\ i # k /\ calls'[i] = calls[i]
    BY <1>2, PhotosNames
  <1>5. PhotosTyped'
    BY <1>1, <1>2 DEF PhotosTyped, PhotosOps, PhotosLoads, PhotosChanges, GalleryOps
  <1>6. PhotosBusy'
    <2>1. k \notin ui.orphans
      BY <1>1, <1>4 DEF PhotosBusy
    <2>2. ui'.isLoading \/ ui'.isRefreshing => callsOf(PhotosLoads)' # {}
      BY <1>1, <1>3 DEF PhotosBusy, PhotosLoads
    <2>3. /\ ui'.uploading <=> callsOf({"upload"})' # {}
          /\ \A i, j \in callsOf({"upload"})' : i = j
      BY <1>1, <1>3 DEF PhotosBusy
    <2>4. ui'.busy # None => \E i \in callsOf(GalleryOps)' : calls'[i].arg.photo = ui'.busy
      <3>1. CASE op \in GalleryOps
        BY <1>2, <1>3, <3>1
      <3>2. CASE op \notin GalleryOps
        BY <1>1, <1>3, <1>4, <3>2 DEF PhotosBusy
      <3>3. QED
        BY <3>1, <3>2
    <2>5. /\ ui'.orphans \subseteq callsOf({"save"})'
          /\ ui'.saving => \E i \in callsOf({"save"})' : i \notin ui'.orphans
      BY <1>1, <1>3, <2>1 DEF PhotosBusy
    <2>6. QED
      BY <2>2, <2>3, <2>4, <2>5 DEF PhotosBusy, PhotosLoads, GalleryOps
  <1>7. \A i \in callsOf(PhotosLoads)' :
            calls'[i].step = "answered" => i \in callsOf(PhotosLoads) /\ calls'[i] = calls[i]
    BY <1>2, <1>3, <1>4
  <1>8. PhotosLoaded'
    <2>1. CASE op \in PhotosChanges
      <3>1. op \notin PhotosLoads
        BY <2>1, PhotosNames
      <3>2. ui'.exact => callsOf(PhotosLoads)' = {}
        BY <1>3, <2>1, <3>1
      <3>3. QED
        BY <2>1, <3>2 DEF PhotosLoaded, PhotosLoads, PhotosChanges
    <2>2. CASE op = "refresh"
      <3>1. op \in PhotosLoads /\ op \notin PhotosChanges
        BY <2>2 DEF PhotosLoads, PhotosChanges
      <3>2. ui'.exact \/ ui'.alone => callsOf(PhotosChanges)' = {}
        BY <1>3, <2>2, <3>1
      <3>3. ASSUME ui'.exact \/ ui'.alone, NEW i \in callsOf(PhotosLoads)',
                   calls'[i].step = "answered", calls'[i].ok
            PROVE  SameRows(calls'[i].data, db')
        BY <1>1, <1>7, <2>2, <3>3 DEF PhotosLoaded
      <3>4. QED
        BY <3>2, <3>3 DEF PhotosLoaded, PhotosLoads, PhotosChanges
    <2>3. CASE op = "download"
      <3>1. op \notin PhotosLoads /\ op \notin PhotosChanges
        BY <2>3 DEF PhotosLoads, PhotosChanges
      <3>2. callsOf(PhotosLoads)' = callsOf(PhotosLoads) /\ callsOf(PhotosChanges)' = callsOf(PhotosChanges)
        BY <1>3, <3>1
      <3>3. ui'.alone = ui.alone /\ ui'.exact = ui.exact
        BY <2>3
      <3>4. ASSUME ui'.exact \/ ui'.alone, NEW i \in callsOf(PhotosLoads)',
                   calls'[i].step = "answered", calls'[i].ok
            PROVE  SameRows(calls'[i].data, db')
        BY <1>1, <1>7, <3>3, <3>4 DEF PhotosLoaded
      <3>5. QED
        BY <1>1, <3>2, <3>3, <3>4 DEF PhotosLoaded, PhotosLoads, PhotosChanges
    <2>4. QED
      BY <2>1, <2>2, <2>3 DEF PhotosChanges
  <1>9. PhotosExact'
    <2>1. SUFFICES ASSUME ui'.exact PROVE PhotosExact'
      BY DEF PhotosExact
    <2>2. CASE op \in PhotosChanges
      <3>1. callsOf(PhotosChanges)' = {k} /\ ui.exact /\ SameRows(ui, db)
        BY <1>1, <1>3, <2>1, <2>2 DEF PhotosExact
      <3>2. op # "upload" => SameRows(arg, ui)
        BY <2>2 DEF PhotosChanges
      <3>3. PhotosChange(k)'
        BY <1>2, <3>1, <3>2 DEF PhotosChange, SameRows
      <3>4. QED
        BY <3>1, <3>3 DEF PhotosExact, PhotosChanges
    <2>3. CASE op \in {"refresh", "download"}
      <3>1. ui.exact /\ op \notin PhotosChanges
        BY <2>1, <2>3 DEF PhotosChanges
      <3>2. callsOf(PhotosChanges)' = callsOf(PhotosChanges)
        BY <1>3, <3>1
      <3>3. \A i \in callsOf(PhotosChanges) : PhotosChange(i)'
        BY <1>1, <1>4, <3>1 DEF PhotosExact, PhotosChange, SameRows, photosPanel!primaryAfter
      <3>4. QED
        BY <1>1, <3>1, <3>2, <3>3 DEF PhotosExact, SameRows, PhotosChanges
    <2>4. QED
      BY <2>2, <2>3 DEF PhotosChanges
  <1>10. QED
    BY <1>2, <1>5, <1>6, <1>8, <1>9 DEF PhotosInv

\* An answer that is taken.
LEMMA PhotosTaken ==
    ASSUME PhotosInv, NEW i \in underWay, NEW op, calls[i].op = op, calls[i].step = "answered",
           Finish(i), db' = db, ui' \in PhotosUi, ui'.primary \in ui'.photos \cup {None},
           ui'.alone = ui.alone,
           ui'.isLoading \/ ui'.isRefreshing => (ui.isLoading \/ ui.isRefreshing) /\ op \notin PhotosLoads,
           ui'.uploading <=> ui.uploading /\ op # "upload",
           \/ ui'.busy = None
           \/ ui'.busy = ui.busy /\ op \notin GalleryOps,
           ui'.orphans \subseteq (callsOf({"save"}) \cup ui.orphans) \ {i},
           ui'.saving => /\ ui.saving /\ ui'.orphans \subseteq ui.orphans
                         /\ op = "save" => i \in ui.orphans,
           \/ /\ SameRows(ui', ui) /\ ui'.exact = ui.exact
              /\ op \in PhotosChanges => ~calls[i].ok
           \/ /\ op \in PhotosLoads /\ calls[i].ok /\ SameRows(ui', calls[i].data)
              /\ ui'.exact => ui.exact \/ ui.alone
           \/ /\ op = "upload" /\ calls[i].ok /\ ui'.exact = ui.exact
              /\ ui'.photos = ui.photos \cup {calls[i].data}
              /\ ui'.primary = photosPanel!primaryAfter(ui, calls[i].data, calls[i].arg)
           \/ /\ op \in PhotosChanges \ {"upload"} /\ calls[i].ok /\ ui'.exact = ui.exact
              /\ SameRows(ui', photosPanel!changed(op, calls[i].arg))
    PROVE  PhotosInv'
  <1>1. CallsOK /\ PhotosTyped /\ PhotosBusy /\ PhotosLoaded /\ PhotosExact
    BY DEF PhotosInv
  <1>2. /\ CallsOK' /\ underWay' = underWay \ {i}
        /\ \A j \in underWay' : calls'[j] = calls[j]
        /\ \A ops : callsOf(ops)' = callsOf(ops) \ {i}
    BY <1>1, CallTaken
  <1>3. /\ callsOf(PhotosLoads)' = callsOf(PhotosLoads) \ {i}
        /\ callsOf(PhotosChanges)' = callsOf(PhotosChanges) \ {i}
        /\ callsOf(GalleryOps)' = callsOf(GalleryOps) \ {i}
        /\ callsOf({"upload"})' = callsOf({"upload"}) \ {i}
        /\ callsOf({"save"})' = callsOf({"save"}) \ {i}
    BY <1>2 DEF PhotosLoads, PhotosChanges, GalleryOps
  <1>4. /\ i \in callsOf(PhotosLoads) <=> op \in PhotosLoads
        /\ i \in callsOf(PhotosChanges) <=> op \in PhotosChanges
        /\ i \in callsOf(GalleryOps) <=> op \in GalleryOps
        /\ i \in callsOf({"upload"}) <=> op = "upload"
        /\ i \in callsOf({"save"}) <=> op = "save"
    BY PhotosNames
  <1>5. \A ops : \A j \in callsOf(ops) : j = i \/ calls'[j] = calls[j]
    BY <1>2, PhotosNames
  <1>6. PhotosTyped'
    BY <1>1, <1>2 DEF PhotosTyped
  <1>7. PhotosBusy'
    <2>1. ui'.isLoading \/ ui'.isRefreshing => callsOf(PhotosLoads)' # {}
      BY <1>1, <1>3, <1>4 DEF PhotosBusy
    <2>2. /\ ui'.uploading <=> callsOf({"upload"})' # {}
          /\ \A j, k \in callsOf({"upload"})' : j = k
      BY <1>1, <1>3, <1>4 DEF PhotosBusy
    <2>3. ui'.busy # None => \E j \in callsOf(GalleryOps)' : calls'[j].arg.photo = ui'.busy
      BY <1>1, <1>3, <1>4, <1>5 DEF PhotosBusy
    <2>4. ui'.orphans \subseteq callsOf({"save"})'
      BY <1>1, <1>3 DEF PhotosBusy
    <2>5. ui'.saving => \E j \in callsOf({"save"})' : j \notin ui'.orphans
      BY <1>1, <1>3, <1>4 DEF PhotosBusy
    <2>6. QED
      BY <2>1, <2>2, <2>3, <2>4, <2>5 DEF PhotosBusy, PhotosLoads, GalleryOps
  <1>8. PhotosLoaded'
    <2>1. ui.alone => callsOf(PhotosChanges) = {}
      BY <1>1 DEF PhotosLoaded
    <2>2. ui'.exact \/ ui'.alone => ui.exact \/ ui.alone
      OBVIOUS
    <2>3. ui'.exact => callsOf(PhotosLoads)' = {} \/ callsOf(PhotosChanges)' = {}
      BY <1>1, <1>3, <2>1, <2>2 DEF PhotosLoaded
    <2>4. ASSUME ui'.exact \/ ui'.alone, NEW j \in callsOf(PhotosLoads)',
                 calls'[j].step = "answered", calls'[j].ok
          PROVE  SameRows(calls'[j].data, db')
      BY <1>1, <1>3, <1>5, <2>2, <2>4 DEF PhotosLoaded
    <2>5. QED
      BY <1>3, <2>1, <2>3, <2>4 DEF PhotosLoaded, PhotosLoads, PhotosChanges
  <1>9. PhotosExact'
    <2>1. SUFFICES ASSUME ui'.exact PROVE PhotosExact'
      BY DEF PhotosExact
    <2>2. CASE op \in PhotosChanges
      <3>1. ui.exact /\ op \notin PhotosLoads
        BY <2>1, <2>2, PhotosNames
      <3>2. callsOf(PhotosChanges)' = {} /\ PhotosChange(i)
        BY <1>1, <1>3, <1>4, <2>2, <3>1 DEF PhotosExact
      <3>3. SameRows(ui', db')
        <4>1. CASE SameRows(ui', ui) /\ ~calls[i].ok
          BY <3>2, <4>1 DEF PhotosChange, SameRows
        <4>2. CASE /\ op = "upload" /\ calls[i].ok
                   /\ ui'.photos = ui.photos \cup {calls[i].data}
                   /\ ui'.primary = photosPanel!primaryAfter(ui, calls[i].data, calls[i].arg)
          BY <3>2, <4>2 DEF PhotosChange, SameRows
        <4>3. CASE /\ op # "upload" /\ calls[i].ok
                   /\ SameRows(ui', photosPanel!changed(op, calls[i].arg))
          BY <3>2, <4>3 DEF PhotosChange, SameRows
        <4>4. QED
          BY <2>2, <3>1, <4>1, <4>2, <4>3
      <3>4. QED
        BY <3>2, <3>3 DEF PhotosExact, PhotosChanges
    <2>3. CASE op \in PhotosLoads
      <3>1. callsOf(PhotosChanges) = {} /\ callsOf(PhotosChanges)' = {}
        BY <1>1, <1>3, <1>4, <2>1, <2>3 DEF PhotosLoaded
      <3>2. SameRows(ui', db')
        <4>1. CASE SameRows(ui', ui) /\ ui'.exact = ui.exact
          BY <1>1, <2>1, <3>1, <4>1 DEF PhotosExact, SameRows
        <4>2. CASE calls[i].ok /\ SameRows(ui', calls[i].data) /\ (ui.exact \/ ui.alone)
          BY <1>1, <1>4, <2>3, <4>2 DEF PhotosLoaded, SameRows
        <4>3. QED
          BY <2>1, <2>3, <4>1, <4>2, PhotosNames DEF PhotosChanges, PhotosLoads
      <3>3. QED
        BY <3>1, <3>2 DEF PhotosExact, PhotosChanges
    <2>4. CASE op \notin PhotosLoads \cup PhotosChanges
      <3>1. SameRows(ui', ui) /\ ui.exact
        BY <2>1, <2>4 DEF PhotosChanges
      <3>2. callsOf(PhotosChanges)' = callsOf(PhotosChanges)
        BY <1>3, <1>4, <2>4
      <3>3. \A j \in callsOf(PhotosChanges) : calls'[j] = calls[j]
        BY <1>4, <1>5, <2>4
      <3>4. \A j \in callsOf(PhotosChanges) : PhotosChange(j)'
        BY <1>1, <3>1, <3>3 DEF PhotosExact, PhotosChange, SameRows, photosPanel!primaryAfter
      <3>5. QED
        BY <1>1, <3>1, <3>2, <3>4 DEF PhotosExact, SameRows, PhotosChanges
    <2>5. QED
      BY <2>2, <2>3, <2>4
  <1>10. QED
    BY <1>2, <1>6, <1>7, <1>8, <1>9 DEF PhotosInv

\* What setPhotos and the end of an editor leave as it is.
SameButList(v, u) ==
    /\ v.isLoading = u.isLoading /\ v.isRefreshing = u.isRefreshing /\ v.uploading = u.uploading
    /\ v.busy = u.busy /\ v.exact = u.exact /\ v.alone = u.alone /\ v.editing = u.editing

LEMMA PhotosSet ==
    ASSUME NEW u \in PhotosUi
    PROVE  /\ photosPanel!editorGone(u) \in PhotosUi
           /\ SameButList(photosPanel!editorGone(u), u) /\ SameRows(photosPanel!editorGone(u), u)
           /\ photosPanel!editorGone(u).saving = FALSE
           /\ photosPanel!editorGone(u).orphans = u.orphans \cup callsOf({"save"})
           /\ \A rows :
                rows.photos \in SUBSET Documents /\ rows.primary \in Documents \cup {None} =>
                  LET v == photosPanel!setPhotos(u, rows)
                  IN  /\ v \in PhotosUi /\ SameButList(v, u) /\ SameRows(v, rows)
                      /\ \/ v.saving = FALSE /\ v.orphans = u.orphans \cup callsOf({"save"})
                         \/ v.saving = u.saving /\ v.orphans = u.orphans
  <1> DEFINE o(v) == v.orphans \cup callsOf({"save"})
  <1>1. callsOf({"save"}) \in SUBSET Slots /\ photosPanel!callsOf({"save"}) = callsOf({"save"})
    BY PhotosCalls, PhotosNames DEF underWay
  <1>2. ASSUME NEW v \in PhotosUi
        PROVE  /\ photosPanel!editorGone(v) = [v EXCEPT !.saving = FALSE, !.orphans = o(v)]
               /\ o(v) \in SUBSET Slots
    BY <1>1 DEF photosPanel!editorGone, PhotosUi
  <1> HIDE DEF o
  <1>3. ASSUME NEW v \in PhotosUi
        PROVE  /\ photosPanel!editorGone(v) \in PhotosUi
               /\ SameButList(photosPanel!editorGone(v), v) /\ SameRows(photosPanel!editorGone(v), v)
               /\ photosPanel!editorGone(v).saving = FALSE
               /\ photosPanel!editorGone(v).orphans = o(v)
    BY <1>2 DEF PhotosUi, SameButList, SameRows
  <1>4. ASSUME NEW rows, rows.photos \in SUBSET Documents, rows.primary \in Documents \cup {None}
        PROVE  LET v == photosPanel!setPhotos(u, rows)
               IN  /\ v \in PhotosUi /\ SameButList(v, u) /\ SameRows(v, rows)
                   /\ \/ v.saving = FALSE /\ v.orphans = u.orphans \cup callsOf({"save"})
                      \/ v.saving = u.saving /\ v.orphans = u.orphans
    <2> DEFINE ps == rows.photos
               pr == rows.primary
               v == [u EXCEPT !.photos = ps, !.primary = pr]
    <2>1. ps \in SUBSET Documents /\ pr \in Documents \cup {None}
      BY <1>4
    <2> HIDE DEF ps, pr
    <2>2. /\ v \in PhotosUi /\ SameButList(v, u) /\ v.photos = ps /\ v.primary = pr
          /\ v.saving = u.saving /\ v.orphans = u.orphans
      BY <2>1 DEF PhotosUi, SameButList
    <2> HIDE DEF v
    <2>3. photosPanel!setPhotos(u, rows) \in {v, photosPanel!editorGone(v)}
      BY DEF photosPanel!setPhotos, v, ps, pr
    <2>4. CASE photosPanel!setPhotos(u, rows) = v
      BY <2>2, <2>4 DEF SameRows, ps, pr
    <2>5. CASE photosPanel!setPhotos(u, rows) = photosPanel!editorGone(v)
      <3>1. o(v) = u.orphans \cup callsOf({"save"})
        BY <2>2 DEF o
      <3>2. /\ photosPanel!editorGone(v) \in PhotosUi
            /\ SameButList(photosPanel!editorGone(v), v) /\ SameRows(photosPanel!editorGone(v), v)
            /\ photosPanel!editorGone(v).saving = FALSE
            /\ photosPanel!editorGone(v).orphans = o(v)
        BY <1>3, <2>2
      <3> HIDE DEF o
      <3>3. /\ SameButList(photosPanel!editorGone(v), u)
            /\ SameRows(photosPanel!editorGone(v), rows)
        BY <2>2, <3>2 DEF SameRows, SameButList, ps, pr
      <3>4. QED
        BY <2>5, <3>1, <3>2, <3>3
    <2>6. QED
      BY <2>3, <2>4, <2>5
  <1>5. QED
    BY <1>3, <1>4 DEF o

LEMMA PhotosOperator ==
    ASSUME WebConstants, PhotosInv, photosPanel!Operator
    PROVE  PhotosInv'
  <1>1. CallsOK /\ PhotosTyped /\ PhotosBusy /\ PhotosLoaded /\ PhotosExact /\ ui \in PhotosUi
    BY DEF PhotosInv, PhotosTyped
  <1> DEFINE c == ui.exact /\ callsOf(PhotosChanges) = {}
             a == callsOf(PhotosChanges \cup PhotosLoads) = {}
             x == ui.exact /\ a
  <1>2. /\ c \in BOOLEAN /\ a \in BOOLEAN /\ x \in BOOLEAN
        /\ c => ui.exact /\ callsOf(PhotosChanges) = {}
        /\ a => callsOf(PhotosChanges) \cup callsOf(PhotosLoads) = {}
        /\ x => ui.exact /\ callsOf(PhotosChanges) \cup callsOf(PhotosLoads) = {}
    BY PhotosNames
  <1> HIDE DEF c, a, x
  <1>3. CASE photosPanel!Refresh
    <2>1. /\ Call("refresh", None) /\ db' = db
          /\ ui' = [ui EXCEPT !.isRefreshing = TRUE, !.exact = c, !.alone = a]
      BY <1>3, PhotosCalls, PhotosNames DEF photosPanel!Refresh, c, a
    <2>2. /\ ui' \in PhotosUi /\ ui'.photos = ui.photos /\ ui'.primary = ui.primary
          /\ ui'.orphans = ui.orphans /\ ui'.isLoading = ui.isLoading /\ ui'.isRefreshing = TRUE
          /\ ui'.uploading = ui.uploading /\ ui'.busy = ui.busy /\ ui'.saving = ui.saving
          /\ ui'.exact = c /\ ui'.alone = a
      BY <1>1, <1>2, <2>1 DEF PhotosUi
    <2>3. "refresh" \notin GalleryOps /\ "refresh" \notin PhotosChanges
      BY DEF GalleryOps, PhotosChanges
    <2>4. QED
      BY <1>2, <2>1, <2>2, <2>3, PhotosSent
  <1>4. ASSUME NEW op \in PhotosChanges, NEW arg, NEW u \in PhotosUi, photosPanel!Changes(op, arg, u),
               u.photos = ui.photos, u.primary = ui.primary, u.orphans = ui.orphans,
               u.isLoading = ui.isLoading, u.isRefreshing = ui.isRefreshing, u.exact = ui.exact,
               u.uploading <=> ui.uploading \/ op = "upload",
               op = "upload" => ~ui.uploading /\ arg \in BOOLEAN,
               u.busy = IF op \in GalleryOps THEN arg.photo ELSE ui.busy,
               u.saving => ui.saving \/ op = "save",
               op \in {"primary", "delete", "save"} => arg \in PhotosSeen /\ SameRows(arg, ui),
               op = "delete" => arg.isPrimary = FALSE
        PROVE  PhotosInv'
    <2>1. /\ Call(op, arg) /\ db' = db /\ ui' = [u EXCEPT !.exact = x, !.alone = FALSE]
      BY <1>4, PhotosCalls, PhotosNames DEF photosPanel!Changes, x, a
    <2>2. /\ ui' \in PhotosUi /\ ui'.photos = ui.photos /\ ui'.primary = ui.primary
          /\ ui'.orphans = ui.orphans /\ ui'.isLoading = ui.isLoading
          /\ ui'.isRefreshing = ui.isRefreshing /\ ui'.uploading = u.uploading
          /\ ui'.busy = u.busy /\ ui'.saving = u.saving /\ ui'.exact = x /\ ui'.alone = FALSE
      BY <1>2, <1>4, <2>1 DEF PhotosUi
    <2>3. /\ op \in {"refresh", "upload", "primary", "delete", "download", "save"}
          /\ op # "refresh" /\ op # "download"
      BY DEF PhotosChanges
    <2>4. /\ ui'.uploading <=> ui.uploading \/ op = "upload"
          /\ ui'.busy = IF op \in GalleryOps THEN arg.photo ELSE ui.busy
          /\ ui'.saving => ui.saving \/ op = "save"
          /\ ui'.exact => ui.exact /\ callsOf(PhotosChanges) \cup callsOf(PhotosLoads) = {}
      BY <1>2, <1>4, <2>2
    <2>5. QED
      BY <1>4, <2>1, <2>2, <2>3, <2>4, PhotosSent
  <1>5. ASSUME NEW p \in ui.photos, NEW isPrimary \in BOOLEAN
        PROVE  /\ photosPanel!Seen(p, isPrimary) \in PhotosSeen
               /\ SameRows(photosPanel!Seen(p, isPrimary), ui)
               /\ photosPanel!Seen(p, isPrimary).photo = p
               /\ photosPanel!Seen(p, isPrimary).isPrimary = isPrimary
    BY <1>1 DEF photosPanel!Seen, PhotosSeen, SameRows, PhotosTyped, PhotosUi
  <1>6. CASE photosPanel!UploadPhoto
    <2> DEFINE u == [ui EXCEPT !.uploading = TRUE]
    <2>1. PICK isPrimary \in BOOLEAN : photosPanel!Changes("upload", isPrimary, u) /\ ~ui.uploading
      BY <1>6 DEF photosPanel!UploadPhoto
    <2>2. /\ u \in PhotosUi /\ u.photos = ui.photos /\ u.primary = ui.primary /\ u.orphans = ui.orphans
          /\ u.isLoading = ui.isLoading /\ u.isRefreshing = ui.isRefreshing /\ u.exact = ui.exact
          /\ u.uploading = TRUE /\ u.busy = ui.busy /\ u.saving = ui.saving
      BY <1>1 DEF PhotosUi
    <2> HIDE DEF u
    <2>3. "upload" \in PhotosChanges /\ "upload" \notin GalleryOps
      BY DEF GalleryOps, PhotosChanges
    <2>4. QED
      BY <1>4, <2>1, <2>2, <2>3
  <1>7. ASSUME NEW p \in Documents, photosPanel!handlePrimary(p) \/ photosPanel!handleDelete(p)
        PROVE  PhotosInv'
    <2> DEFINE u == [ui EXCEPT !.busy = p]
    <2>1. /\ p \in ui.photos
          /\ \/ photosPanel!Changes("primary", photosPanel!Seen(p, TRUE), u)
             \/ photosPanel!Changes("delete", photosPanel!Seen(p, FALSE), u)
      BY <1>7 DEF photosPanel!handlePrimary, photosPanel!handleDelete, photosPanel!enabled,
         photosPanel!galleryPhotos
    <2>2. /\ u \in PhotosUi /\ u.photos = ui.photos /\ u.primary = ui.primary /\ u.orphans = ui.orphans
          /\ u.isLoading = ui.isLoading /\ u.isRefreshing = ui.isRefreshing /\ u.exact = ui.exact
          /\ u.uploading = ui.uploading /\ u.busy = p /\ u.saving = ui.saving
      BY <1>1 DEF PhotosUi
    <2> HIDE DEF u
    <2>3. {"primary", "delete"} \subseteq PhotosChanges \cap GalleryOps
      BY DEF GalleryOps, PhotosChanges
    <2>4. CASE photosPanel!Changes("primary", photosPanel!Seen(p, TRUE), u)
      BY <1>4, <1>5, <2>1, <2>2, <2>3, <2>4
    <2>5. CASE photosPanel!Changes("delete", photosPanel!Seen(p, FALSE), u)
      BY <1>4, <1>5, <2>1, <2>2, <2>3, <2>5
    <2>6. QED
      BY <2>1, <2>4, <2>5
  <1>8. ASSUME NEW p \in Documents, photosPanel!handleDownload(p)
        PROVE  PhotosInv'
    <2>1. Call("download", [photo |-> p]) /\ ui' = [ui EXCEPT !.busy = p] /\ db' = db
      BY <1>8, PhotosCalls DEF photosPanel!handleDownload
    <2>2. /\ ui' \in PhotosUi /\ ui'.photos = ui.photos /\ ui'.primary = ui.primary
          /\ ui'.orphans = ui.orphans /\ ui'.isLoading = ui.isLoading
          /\ ui'.isRefreshing = ui.isRefreshing /\ ui'.uploading = ui.uploading /\ ui'.busy = p
          /\ ui'.saving = ui.saving /\ ui'.exact = ui.exact /\ ui'.alone = ui.alone
      BY <1>1, <2>1 DEF PhotosUi
    <2>3. "download" \in GalleryOps /\ "download" \notin PhotosChanges /\ [photo |-> p].photo = p
      BY DEF GalleryOps, PhotosChanges
    <2>4. QED
      BY <2>1, <2>2, <2>3, PhotosSent
  <1>9. CASE photosPanel!SubmitEdit
    <2> DEFINE u == [ui EXCEPT !.saving = TRUE]
    <2>1. PICK isPrimary \in BOOLEAN :
              photosPanel!Changes("save", photosPanel!Seen(ui.editing, isPrimary), u)
      BY <1>9 DEF photosPanel!SubmitEdit
    <2>2. ui.editing \in ui.photos
      BY <1>9 DEF photosPanel!SubmitEdit, photosPanel!editorShown, photosPanel!galleryPhotos
    <2>3. /\ u \in PhotosUi /\ u.photos = ui.photos /\ u.primary = ui.primary /\ u.orphans = ui.orphans
          /\ u.isLoading = ui.isLoading /\ u.isRefreshing = ui.isRefreshing /\ u.exact = ui.exact
          /\ u.uploading = ui.uploading /\ u.busy = ui.busy /\ u.saving = TRUE
      BY <1>1 DEF PhotosUi
    <2> HIDE DEF u
    <2>4. "save" \in PhotosChanges /\ "save" \notin GalleryOps
      BY DEF GalleryOps, PhotosChanges
    <2>5. QED
      BY <1>4, <1>5, <2>1, <2>2, <2>3, <2>4
  <1>10. ASSUME calls' = calls, db' = db, ui' \in PhotosUi, SameRows(ui', ui),
                ui'.isLoading = ui.isLoading, ui'.isRefreshing = ui.isRefreshing,
                ui'.uploading = ui.uploading, ui'.busy = ui.busy, ui'.exact = ui.exact,
                ui'.alone = ui.alone,
                \/ ui'.saving = ui.saving /\ ui'.orphans = ui.orphans
                \/ ui'.saving = FALSE /\ ui'.orphans = ui.orphans \cup callsOf({"save"})
         PROVE  PhotosInv'
    <2>1. underWay' = underWay /\ CallsOK' /\ \A ops : callsOf(ops)' = callsOf(ops)
      BY <1>1, <1>10, StayTo, CallsStay
    <2>2. PhotosTyped'
      BY <1>1, <1>10, <2>1 DEF PhotosTyped, SameRows
    <2>3. PhotosBusy'
      BY <1>1, <1>10, <2>1 DEF PhotosBusy, PhotosLoads, GalleryOps
    <2>4. PhotosLoaded'
      BY <1>1, <1>10, <2>1 DEF PhotosLoaded, PhotosLoads, PhotosChanges
    <2>5. \A i \in callsOf(PhotosChanges) : PhotosChange(i) => PhotosChange(i)'
      BY <1>10 DEF PhotosChange, SameRows, photosPanel!primaryAfter
    <2>6. PhotosExact'
      BY <1>1, <1>10, <2>1, <2>5 DEF PhotosExact, SameRows, PhotosChanges
    <2>7. QED
      BY <2>1, <2>2, <2>3, <2>4, <2>6 DEF PhotosInv
  <1>11. ASSUME NEW p \in Documents \cup {None}, calls' = calls, db' = db,
                ui' = [photosPanel!editorGone(ui) EXCEPT !.editing = p]
         PROVE  PhotosInv'
    <2> DEFINE u == photosPanel!editorGone(ui)
    <2>1. /\ u \in PhotosUi /\ SameButList(u, ui) /\ SameRows(u, ui)
          /\ u.saving = FALSE /\ u.orphans = ui.orphans \cup callsOf({"save"})
      BY <1>1, PhotosSet
    <2> HIDE DEF u
    <2>2. ui' = [u EXCEPT !.editing = p]
      BY <1>11 DEF u
    <2>3. /\ ui' \in PhotosUi /\ SameRows(ui', ui) /\ ui'.isLoading = ui.isLoading
          /\ ui'.isRefreshing = ui.isRefreshing /\ ui'.uploading = ui.uploading
          /\ ui'.busy = ui.busy /\ ui'.exact = ui.exact /\ ui'.alone = ui.alone
          /\ ui'.saving = FALSE /\ ui'.orphans = ui.orphans \cup callsOf({"save"})
      BY <2>1, <2>2 DEF PhotosUi, SameRows, SameButList
    <2>4. QED
      BY <1>10, <1>11, <2>3
  <1>12. ASSUME NEW p \in Documents, photosPanel!Edit(p)
         PROVE  PhotosInv'
    <2>1. CASE ui' = ui
      BY <1>1, <1>10, <1>12, <2>1 DEF photosPanel!Edit, SameRows
    <2>2. CASE ui' # ui
      BY <1>11, <1>12, <2>2 DEF photosPanel!Edit
    <2>3. QED
      BY <2>1, <2>2
  <1>13. CASE photosPanel!CancelEdit
    BY <1>11, <1>13 DEF photosPanel!CancelEdit
  <1>14. QED
    BY <1>3, <1>6, <1>7, <1>8, <1>9, <1>12, <1>13 DEF photosPanel!Operator

LEMMA PhotosReceive ==
    ASSUME PhotosInv, NEW i \in Slots, photosPanel!Receive(i)
    PROVE  PhotosInv'
  <1>1. /\ i \in underWay /\ calls[i].step = "answered" /\ Finish(i) /\ db' = db
    BY PhotosCalls DEF photosPanel!Receive, photosPanel!LoadArrives, photosPanel!UploadAnswered,
       photosPanel!GalleryAnswered, photosPanel!SaveAnswered, answered
  <1>2. PhotosTyped /\ PhotosBusy /\ ui \in PhotosUi /\ ui.primary \in ui.photos \cup {None}
    BY DEF PhotosInv, PhotosTyped
  <1>3. /\ i \in callsOf({"save"}) <=> calls[i].op = "save"
        /\ i \in ui.orphans => calls[i].op = "save"
    BY <1>1, <1>2, PhotosNames DEF PhotosBusy
  <1>4. ASSUME NEW op \in {"primary", "delete", "save"}, calls[i].op = op
        PROVE  LET rows == photosPanel!changed(op, calls[i].arg)
               IN  /\ rows.photos \in SUBSET Documents /\ rows.primary \in Documents \cup {None}
                   /\ rows.primary \in rows.photos \cup {None}
    <2>1. calls[i].arg \in PhotosSeen /\ (op = "delete" => calls[i].arg.isPrimary = FALSE)
      BY <1>1, <1>2, <1>4 DEF PhotosTyped
    <2>2. QED
      BY <2>1 DEF PhotosSeen, photosPanel!changed, photosPanel!primaryAfter
  <1>5. CASE photosPanel!LoadArrives(i)
    <2> DEFINE u == [ui EXCEPT !.isLoading = FALSE, !.isRefreshing = FALSE]
               x == ui.exact \/ ui.alone
    <2>1. PICK op \in PhotosLoads : calls[i].op = op
      BY <1>5 DEF photosPanel!LoadArrives, photosPanel!loads, PhotosLoads
    <2>2. op \notin GalleryOps /\ op \notin PhotosChanges /\ op # "upload" /\ op # "save" /\ i \notin ui.orphans
      BY <1>3, <2>1 DEF GalleryOps, PhotosChanges, PhotosLoads
    <2>3. /\ u \in PhotosUi /\ SameRows(u, ui) /\ u.isLoading = FALSE /\ u.isRefreshing = FALSE
          /\ u.uploading = ui.uploading /\ u.busy = ui.busy /\ u.exact = ui.exact
          /\ u.alone = ui.alone /\ u.orphans = ui.orphans /\ u.saving = ui.saving /\ x \in BOOLEAN
      BY <1>2 DEF PhotosUi, SameRows
    <2>4. CASE ui' = u
      BY <1>1, <1>2, <2>1, <2>2, <2>3, <2>4, PhotosTaken DEF SameRows
    <2>5. CASE calls[i].ok /\ ui' = [photosPanel!setPhotos(u, calls[i].data) EXCEPT !.exact = x]
      <3> DEFINE v == photosPanel!setPhotos(u, calls[i].data)
      <3>1. /\ calls[i].data.photos \in SUBSET Documents /\ calls[i].data.primary \in Documents \cup {None}
            /\ calls[i].data.primary \in calls[i].data.photos \cup {None}
        BY <1>1, <1>2, <2>1, <2>5 DEF PhotosTyped, PhotosDb
      <3>2. /\ v \in PhotosUi /\ SameButList(v, u) /\ SameRows(v, calls[i].data)
            /\ \/ v.saving = FALSE /\ v.orphans = u.orphans \cup callsOf({"save"})
               \/ v.saving = u.saving /\ v.orphans = u.orphans
        BY <2>3, <3>1, PhotosSet
      <3>3. ui' = [v EXCEPT !.exact = x]
        BY <2>5
      <3>4. x => ui.exact \/ ui.alone
        OBVIOUS
      <3> HIDE DEF v, u, x
      <3>5. /\ ui' \in PhotosUi /\ SameRows(ui', calls[i].data) /\ ui'.isLoading = FALSE
            /\ ui'.isRefreshing = FALSE /\ ui'.uploading = ui.uploading /\ ui'.busy = ui.busy
            /\ ui'.exact = x /\ ui'.alone = ui.alone
            /\ \/ ui'.saving = FALSE /\ ui'.orphans = ui.orphans \cup callsOf({"save"})
               \/ ui'.saving = ui.saving /\ ui'.orphans = ui.orphans
        BY <2>3, <3>2, <3>3 DEF PhotosUi, SameRows, SameButList
      <3>6. ui'.primary \in ui'.photos \cup {None} /\ i \notin ui'.orphans
        BY <1>3, <2>1, <2>2, <3>1, <3>5 DEF SameRows
      <3>7. QED
        BY <1>1, <2>1, <2>2, <2>5, <3>4, <3>5, <3>6, PhotosTaken
    <2>6. QED
      <3>1. calls[i].ok => ui' = [photosPanel!setPhotos(u, calls[i].data) EXCEPT !.exact = @ \/ ui.alone]
        BY <1>5 DEF photosPanel!LoadArrives
      <3>2. calls[i].ok => photosPanel!setPhotos(u, calls[i].data).exact = ui.exact
        <4>1. ASSUME calls[i].ok
              PROVE  calls[i].data.photos \in SUBSET Documents /\ calls[i].data.primary \in Documents \cup {None}
          BY <1>1, <1>2, <2>1, <4>1 DEF PhotosTyped, PhotosDb
        <4>2. ASSUME calls[i].ok
              PROVE  SameButList(photosPanel!setPhotos(u, calls[i].data), u)
          BY <2>3, <4>1, <4>2, PhotosSet
        <4>3. QED
          BY <2>3, <4>2 DEF SameButList
      <3>3. calls[i].ok => ui' = [photosPanel!setPhotos(u, calls[i].data) EXCEPT !.exact = x]
        BY <3>1, <3>2, Zenon
      <3>4. ~calls[i].ok => ui' = u
        BY <1>5 DEF photosPanel!LoadArrives
      <3>5. QED
        BY <2>4, <2>5, <3>3, <3>4
  <1>6. CASE photosPanel!UploadAnswered(i)
    <2> DEFINE u == [ui EXCEPT !.uploading = FALSE]
    <2>1. calls[i].op = "upload" /\ i \notin ui.orphans /\ i \notin callsOf({"save"})
      BY <1>3, <1>6 DEF photosPanel!UploadAnswered
    <2>2. "upload" \notin GalleryOps /\ "upload" \in PhotosChanges /\ "upload" \notin PhotosLoads
      BY DEF GalleryOps, PhotosChanges, PhotosLoads
    <2>3. /\ u \in PhotosUi /\ SameRows(u, ui) /\ u.isLoading = ui.isLoading
          /\ u.isRefreshing = ui.isRefreshing /\ u.uploading = FALSE /\ u.busy = ui.busy
          /\ u.exact = ui.exact /\ u.alone = ui.alone /\ u.orphans = ui.orphans /\ u.saving = ui.saving
      BY <1>2 DEF PhotosUi, SameRows
    <2>4. CASE ui' = u /\ ~calls[i].ok
      BY <1>1, <1>2, <2>1, <2>2, <2>3, <2>4, PhotosTaken DEF SameRows
    <2>5. CASE calls[i].ok /\ ui' = photosPanel!handleUploaded(u, calls[i].data, calls[i].arg)
      <3> DEFINE rows == [photos |-> u.photos \cup {calls[i].data},
                          primary |-> photosPanel!primaryAfter(u, calls[i].data, calls[i].arg)]
      <3>1. calls[i].data \in Documents /\ calls[i].arg \in BOOLEAN
        BY <1>1, <1>2, <2>1, <2>5 DEF PhotosTyped
      <3>2. /\ rows.photos = ui.photos \cup {calls[i].data}
            /\ rows.primary = photosPanel!primaryAfter(ui, calls[i].data, calls[i].arg)
        BY <2>3 DEF SameRows, photosPanel!primaryAfter
      <3>3. /\ rows.photos \in SUBSET Documents /\ rows.primary \in Documents \cup {None}
            /\ rows.primary \in rows.photos \cup {None}
        BY <1>2, <3>1, <3>2 DEF photosPanel!primaryAfter, PhotosUi
      <3>4. ui' = photosPanel!setPhotos(u, rows)
        BY <2>5 DEF photosPanel!handleUploaded
      <3> HIDE DEF rows, u
      <3>5. /\ ui' \in PhotosUi /\ SameButList(ui', u) /\ SameRows(ui', rows)
            /\ \/ ui'.saving = FALSE /\ ui'.orphans = u.orphans \cup callsOf({"save"})
               \/ ui'.saving = u.saving /\ ui'.orphans = u.orphans
        BY <2>3, <3>3, <3>4, PhotosSet
      <3>6. QED
        BY <1>1, <2>1, <2>2, <2>3, <2>5, <3>2, <3>3, <3>5, PhotosTaken DEF SameRows, SameButList
    <2>6. QED
      BY <1>6, <2>4, <2>5 DEF photosPanel!UploadAnswered
  <1>7. CASE photosPanel!GalleryAnswered(i)
    <2> DEFINE u == [ui EXCEPT !.busy = None]
    <2>1. PICK op \in {"primary", "delete", "download"} : calls[i].op = op
      BY <1>7 DEF photosPanel!GalleryAnswered
    <2>2. /\ op \in GalleryOps /\ op \notin PhotosLoads /\ op # "upload" /\ op # "save"
          /\ op \in PhotosChanges <=> op # "download"
          /\ i \notin ui.orphans /\ i \notin callsOf({"save"})
      BY <1>3, <2>1 DEF GalleryOps, PhotosChanges, PhotosLoads
    <2>3. /\ u \in PhotosUi /\ SameRows(u, ui) /\ u.isLoading = ui.isLoading
          /\ u.isRefreshing = ui.isRefreshing /\ u.uploading = ui.uploading /\ u.busy = None
          /\ u.exact = ui.exact /\ u.alone = ui.alone /\ u.orphans = ui.orphans /\ u.saving = ui.saving
      BY <1>2 DEF PhotosUi, SameRows
    <2>4. CASE ui' = u /\ (op = "download" \/ ~calls[i].ok)
      BY <1>1, <1>2, <2>1, <2>2, <2>3, <2>4, PhotosTaken DEF SameRows
    <2>5. CASE /\ calls[i].ok /\ op # "download"
               /\ ui' = photosPanel!setPhotos(u, photosPanel!changed(op, calls[i].arg))
      <3> DEFINE rows == photosPanel!changed(op, calls[i].arg)
      <3>1. /\ rows.photos \in SUBSET Documents /\ rows.primary \in Documents \cup {None}
            /\ rows.primary \in rows.photos \cup {None}
        BY <1>4, <2>1, <2>5
      <3> HIDE DEF u
      <3>2. /\ ui' \in PhotosUi /\ SameButList(ui', u) /\ SameRows(ui', rows)
            /\ \/ ui'.saving = FALSE /\ ui'.orphans = u.orphans \cup callsOf({"save"})
               \/ ui'.saving = u.saving /\ ui'.orphans = u.orphans
        BY <2>3, <2>5, <3>1, PhotosSet
      <3>3. ui'.primary \in ui'.photos \cup {None}
        BY <3>1, <3>2 DEF SameRows
      <3>4. QED
        BY <1>1, <2>1, <2>2, <2>3, <2>5, <3>2, <3>3, PhotosTaken DEF SameButList
    <2>6. QED
      BY <1>7, <2>1, <2>4, <2>5 DEF photosPanel!GalleryAnswered
  <1>8. CASE photosPanel!SaveAnswered(i)
    <2> DEFINE s == IF i \in ui.orphans THEN ui.saving ELSE FALSE
               u == [ui EXCEPT !.saving = s]
               rows == photosPanel!changed("save", calls[i].arg)
    <2>1. calls[i].op = "save"
      BY <1>8 DEF photosPanel!SaveAnswered
    <2>2. /\ "save" \notin GalleryOps /\ "save" \notin PhotosLoads
          /\ "save" \in PhotosChanges /\ "save" # "upload"
      BY DEF GalleryOps, PhotosChanges, PhotosLoads
    <2>3. s \in BOOLEAN /\ (s => ui.saving /\ i \in ui.orphans)
      BY <1>2 DEF PhotosUi
    <2> HIDE DEF s
    <2>4. /\ u \in PhotosUi /\ SameRows(u, ui) /\ u.isLoading = ui.isLoading
          /\ u.isRefreshing = ui.isRefreshing /\ u.uploading = ui.uploading /\ u.busy = ui.busy
          /\ u.exact = ui.exact /\ u.alone = ui.alone /\ u.orphans = ui.orphans /\ u.saving = s
      BY <1>2, <2>3 DEF PhotosUi, SameRows
    <2>5. u = [ui EXCEPT !.saving = IF i \in ui.orphans THEN @ ELSE FALSE]
      BY DEF s
    <2> HIDE DEF u
    <2>6. CASE ui' = [u EXCEPT !.orphans = u.orphans \ {i}] /\ ~calls[i].ok
      <3>1. /\ ui' \in PhotosUi /\ SameRows(ui', ui) /\ ui'.isLoading = ui.isLoading
            /\ ui'.isRefreshing = ui.isRefreshing /\ ui'.uploading = ui.uploading /\ ui'.busy = ui.busy
            /\ ui'.exact = ui.exact /\ ui'.alone = ui.alone /\ ui'.orphans = ui.orphans \ {i}
            /\ ui'.saving = s
        BY <2>4, <2>6 DEF PhotosUi, SameRows
      <3>2. ui'.primary \in ui'.photos \cup {None}
        BY <1>2, <3>1 DEF SameRows
      <3>3. QED
        BY <1>1, <2>1, <2>2, <2>3, <2>6, <3>1, <3>2, PhotosTaken
    <2> DEFINE v == photosPanel!editorGone(photosPanel!setPhotos(u, rows))
    <2>7. CASE calls[i].ok /\ ui' = [v EXCEPT !.editing = None, !.orphans = v.orphans \ {i}]
      <3>1. /\ rows.photos \in SUBSET Documents /\ rows.primary \in Documents \cup {None}
            /\ rows.primary \in rows.photos \cup {None}
        BY <1>4, <2>1
      <3> HIDE DEF rows
      <3>2. LET w == photosPanel!setPhotos(u, rows)
            IN  /\ w \in PhotosUi /\ SameButList(w, u) /\ SameRows(w, rows)
                /\ \/ w.saving = FALSE /\ w.orphans = u.orphans \cup callsOf({"save"})
                   \/ w.saving = u.saving /\ w.orphans = u.orphans
        BY <2>4, <3>1, PhotosSet
      <3>3. LET w == photosPanel!setPhotos(u, rows)
            IN  /\ v \in PhotosUi /\ SameButList(v, w) /\ SameRows(v, w)
                /\ v.saving = FALSE /\ v.orphans = w.orphans \cup callsOf({"save"})
        BY <3>2, PhotosSet
      <3>4. /\ v \in PhotosUi /\ SameButList(v, u) /\ SameRows(v, rows)
            /\ v.saving = FALSE /\ v.orphans = u.orphans \cup callsOf({"save"})
        BY <3>2, <3>3 DEF SameButList, SameRows
      <3> HIDE DEF v
      <3>5. /\ ui' \in PhotosUi /\ SameRows(ui', rows) /\ ui'.isLoading = ui.isLoading
            /\ ui'.isRefreshing = ui.isRefreshing /\ ui'.uploading = ui.uploading /\ ui'.busy = ui.busy
            /\ ui'.exact = ui.exact /\ ui'.alone = ui.alone /\ ui'.saving = FALSE
            /\ ui'.orphans = (ui.orphans \cup callsOf({"save"})) \ {i}
        BY <2>4, <2>7, <3>4 DEF PhotosUi, SameRows, SameButList
      <3>6. ui'.primary \in ui'.photos \cup {None}
        BY <3>1, <3>5 DEF SameRows
      <3>7. QED
        BY <1>1, <2>1, <2>2, <2>7, <3>5, <3>6, PhotosTaken DEF rows
    <2>8. QED
      BY <1>8, <2>5, <2>6, <2>7 DEF photosPanel!SaveAnswered
  <1>9. QED
    BY <1>5, <1>6, <1>7, <1>8 DEF photosPanel!Receive

LEMMA PhotosNext ==
    ASSUME WebConstants, PhotosInv, photosPanel!Next
    PROVE  PhotosInv'
  BY PhotosOperator, PhotosSomebody, PhotosServed, PhotosReceive, PhotosCalls DEF photosPanel!Next

LEMMA PhotosInit ==
    ASSUME WebConstants, photosPanel!Init
    PROVE  PhotosInv
  <1>1. calls = placed(NoCalls, Sent("first", None))
    BY PhotosCalls DEF photosPanel!Init
  <1>2. Sent("first", None) # NoCall /\ Sent("first", None).op = "first" /\ Sent("first", None).step = "sent"
    BY CallIsSome
  <1>3. /\ CallsOK /\ underWay = {1} /\ 1 \in Slots /\ calls[1] = Sent("first", None)
        /\ \A ops : callsOf(ops) = IF "first" \in ops THEN {1} ELSE {}
    BY <1>1, <1>2, OpenedWith
  <1>4. /\ callsOf(PhotosLoads) = {1} /\ callsOf(PhotosChanges) = {} /\ callsOf({"upload"}) = {}
        /\ callsOf({"save"}) = {}
    BY <1>3 DEF PhotosLoads, PhotosChanges
  <1>5. /\ ui \in PhotosUi /\ db \in PhotosDb /\ db.photos = db.used /\ db.primary = None
        /\ ~ui.exact /\ ~ui.isRefreshing /\ ~ui.uploading /\ ui.orphans = {} /\ ui.busy = None
        /\ ui.photos = {} /\ ui.primary = None /\ ~ui.saving
    BY DEF photosPanel!Init, PhotosUi, PhotosDb
  <1>6. PhotosTyped
    BY <1>2, <1>3, <1>5 DEF PhotosTyped, PhotosOps, PhotosLoads
  <1>7. PhotosBusy /\ PhotosLoaded /\ PhotosExact
    BY <1>2, <1>3, <1>4, <1>5 DEF PhotosBusy, PhotosLoaded, PhotosExact
  <1>8. QED
    BY <1>3, <1>6, <1>7 DEF PhotosInv

LEMMA PhotosHold ==
    ASSUME PhotosInv
    PROVE  /\ photosPanel!TypeOK /\ photosPanel!BusyWhileUnderWay
           /\ photosPanel!OwnStepIsShown
  <1>1. photosPanel!TypeOK
    BY PhotosCalls DEF PhotosInv, PhotosTyped, PhotosUi, PhotosDb, PhotosOps, PhotosLoads,
       PhotosChanges, GalleryOps, photosPanel!TypeOK
  <1>2. photosPanel!BusyWhileUnderWay
    BY PhotosCalls, PhotosNames
    DEF PhotosInv, PhotosBusy, GalleryOps, photosPanel!BusyWhileUnderWay
  <1>3. photosPanel!OwnStepIsShown
    BY PhotosCalls, PhotosNames DEF PhotosInv, PhotosExact, SameRows, photosPanel!OwnStepIsShown
  <1>4. QED
    BY <1>1, <1>2, <1>3

-----------------------------------------------------------------------------
(* The page of one inspection, with each choice of its parts: it is the one  *)
(* InspectionScreenProofs speaks of.                                         *)

reviewPage == INSTANCE InspectionScreenProofs
              WITH StartStatuses <- {"IN_PROGRESS"}, Reports <- {},
                   Parts <- {"status", "approval"}, Others <- {"status", "approval"}

formPage == INSTANCE InspectionScreenProofs
              WITH StartStatuses <- {"IN_PROGRESS"}, Reports <- {},
                   Parts <- {"status", "form"}, Others <- {"status"}

damagePage == INSTANCE InspectionScreenProofs
              WITH StartStatuses <- {"IN_PROGRESS"}, Reports <- Documents,
                   Parts <- {"reports"}, Others <- {"reports"}

cardPage == INSTANCE InspectionScreenProofs
              WITH StartStatuses <- {"IN_PROGRESS"}, Reports <- {CHOOSE d \in Documents : TRUE},
                   Parts <- {"header", "reports"}, Others <- {"header", "reports"}

LEMMA ReviewedCalls ==
    /\ \A op, arg : inspectionReview!Call(op, arg) <=> reviewPage!Call(op, arg)
    /\ \A cs, c : inspectionReview!placed(cs, c) = reviewPage!placed(cs, c)
  <1>1. inspectionReview!Slots = reviewPage!Slots /\ inspectionReview!NoCall = reviewPage!NoCall
    BY Zenon
    DEF inspectionReview!Slots, reviewPage!Slots, inspectionReview!NoCall, reviewPage!NoCall
  <1>2. \A cs : inspectionReview!firstFree(cs) = reviewPage!firstFree(cs)
    BY <1>1, Zenon DEF inspectionReview!firstFree, reviewPage!firstFree
  <1>3. \A cs, c : inspectionReview!placed(cs, c) = reviewPage!placed(cs, c)
    BY <1>2, Zenon DEF inspectionReview!placed, reviewPage!placed
  <1>4. \A op, arg : inspectionReview!Call(op, arg) <=> reviewPage!Call(op, arg)
    BY <1>1, <1>3, Zenon
    DEF inspectionReview!Call, reviewPage!Call, inspectionReview!mayCall, reviewPage!mayCall,
       inspectionReview!underWay, reviewPage!underWay, inspectionReview!Sent, reviewPage!Sent
  <1>5. QED
    BY <1>3, <1>4

\* A step of the page is one of the page of which InspectionScreenProofs speaks.
LEMMA ReviewedSteps ==
    /\ inspectionReview!Init => reviewPage!Init
    /\ inspectionReview!Next => reviewPage!Next
    /\ reviewPage!TypeOK => inspectionReview!TypeOK
    /\ reviewPage!BusyWhileUnderWay => inspectionReview!BusyWhileUnderWay
    /\ reviewPage!OwnStepIsShown => inspectionReview!OwnStepIsShown
    /\ reviewPage!RefusedOnlyWhenStale => inspectionReview!RefusedOnlyWhenStale
  <1> USE ReviewedCalls
  <1> USE DEF
     inspectionReview!Slots, reviewPage!Slots, inspectionReview!Sent, reviewPage!Sent,
     inspectionReview!Answer, reviewPage!Answer, inspectionReview!NoCall, reviewPage!NoCall,
     inspectionReview!underWay, reviewPage!underWay, inspectionReview!waiting,
     reviewPage!waiting, inspectionReview!answered, reviewPage!answered,
     inspectionReview!NoCalls, reviewPage!NoCalls, inspectionReview!callsOf, reviewPage!callsOf,
     inspectionReview!Succeed, reviewPage!Succeed, inspectionReview!Fail, reviewPage!Fail,
     inspectionReview!Reply, reviewPage!Reply, inspectionReview!returns, reviewPage!returns,
     inspectionReview!Finish, reviewPage!Finish, inspectionReview!Continue, reviewPage!Continue,
     inspectionReview!Decisions, reviewPage!Decisions, inspectionReview!New, reviewPage!New,
     inspectionReview!Inspection, reviewPage!Inspection, inspectionReview!SelectedStatus,
     reviewPage!SelectedStatus, inspectionReview!SelectedAction, reviewPage!SelectedAction,
     inspectionReview!changes, reviewPage!changes, inspectionReview!assertStatusTransition,
     reviewPage!assertStatusTransition, inspectionReview!decided, reviewPage!decided,
     inspectionReview!mayDecide, reviewPage!mayDecide, inspectionReview!ChangeStatus,
     reviewPage!ChangeStatus, inspectionReview!Decide, reviewPage!Decide,
     inspectionReview!CreateReport, reviewPage!CreateReport, inspectionReview!RemoveReport,
     reviewPage!RemoveReport, inspectionReview!Update, reviewPage!Update,
     inspectionReview!Answered, reviewPage!Answered, inspectionReview!setInspection,
     reviewPage!setInspection, inspectionReview!shown, reviewPage!shown,
     inspectionReview!Changes, reviewPage!Changes, inspectionReview!statusTransitions,
     reviewPage!statusTransitions, inspectionReview!availableActions,
     reviewPage!availableActions, inspectionReview!isEditing, reviewPage!isEditing,
     inspectionReview!headerShown, reviewPage!headerShown, inspectionReview!reportsShown,
     reviewPage!reportsShown, inspectionReview!reportsHidden, reviewPage!reportsHidden,
     inspectionReview!withForm, reviewPage!withForm, inspectionReview!withReport,
     reviewPage!withReport, inspectionReview!withoutReport, reviewPage!withoutReport,
     inspectionReview!service!InspectionStatus, reviewPage!service!InspectionStatus,
     inspectionReview!service!InspectionApprovalStatus,
     reviewPage!service!InspectionApprovalStatus, inspectionReview!service!NotCreated,
     reviewPage!service!NotCreated, inspectionReview!service!Null, reviewPage!service!Null,
     inspectionReview!service!allowedTransitions, reviewPage!service!allowedTransitions,
     inspectionReview!service!Entry, reviewPage!service!Entry,
     inspectionReview!service!StatusEntry, reviewPage!service!StatusEntry,
     inspectionReview!service!ApprovalEntry, reviewPage!service!ApprovalEntry
  <1>1. inspectionReview!TryAgain => reviewPage!TryAgain
    BY Zenon DEF inspectionReview!TryAgain, reviewPage!TryAgain
  <1>2. inspectionReview!SelectStatus => reviewPage!SelectStatus
    BY Zenon DEF inspectionReview!SelectStatus, reviewPage!SelectStatus
  <1>3. inspectionReview!handleStatusChange => reviewPage!handleStatusChange
    BY Zenon DEF inspectionReview!handleStatusChange, reviewPage!handleStatusChange
  <1>4. inspectionReview!SelectAction => reviewPage!SelectAction
    BY Zenon DEF inspectionReview!SelectAction, reviewPage!SelectAction
  <1>5. inspectionReview!handleAction => reviewPage!handleAction
    BY Zenon DEF inspectionReview!handleAction, reviewPage!handleAction
  <1>6. inspectionReview!ToggleExpanded => reviewPage!ToggleExpanded
    BY Zenon DEF inspectionReview!ToggleExpanded, reviewPage!ToggleExpanded
  <1>7. inspectionReview!handleDownloadPdf => reviewPage!handleDownloadPdf
    BY Zenon DEF inspectionReview!handleDownloadPdf, reviewPage!handleDownloadPdf
  <1>8. inspectionReview!handleDelete => reviewPage!handleDelete
    BY Zenon DEF inspectionReview!handleDelete, reviewPage!handleDelete
  <1>9. inspectionReview!Edit => reviewPage!Edit
    BY Zenon DEF inspectionReview!Edit, reviewPage!Edit
  <1>10. inspectionReview!ChooseStatus => reviewPage!ChooseStatus
    BY Zenon DEF inspectionReview!ChooseStatus, reviewPage!ChooseStatus
  <1>11. inspectionReview!CancelEdit => reviewPage!CancelEdit
    BY Zenon DEF inspectionReview!CancelEdit, reviewPage!CancelEdit
  <1>12. inspectionReview!SubmitEdit => reviewPage!SubmitEdit
    BY Zenon DEF inspectionReview!SubmitEdit, reviewPage!SubmitEdit
  <1>13. inspectionReview!OpenReport => reviewPage!OpenReport
    BY Zenon DEF inspectionReview!OpenReport, reviewPage!OpenReport
  <1>14. inspectionReview!CancelReport => reviewPage!CancelReport
    BY Zenon DEF inspectionReview!CancelReport, reviewPage!CancelReport
  <1>15. inspectionReview!SubmitReport => reviewPage!SubmitReport
    BY Zenon DEF inspectionReview!SubmitReport, reviewPage!SubmitReport
  <1>16. inspectionReview!SomebodyElse => reviewPage!SomebodyElse
    BY Zenon DEF inspectionReview!SomebodyElse, reviewPage!SomebodyElse
  <1>17. \A i : inspectionReview!LoadArrives(i) => reviewPage!LoadArrives(i)
    BY Zenon DEF inspectionReview!LoadArrives, reviewPage!LoadArrives
  <1>18. \A i : inspectionReview!StatusAnswered(i) => reviewPage!StatusAnswered(i)
    BY Zenon DEF inspectionReview!StatusAnswered, reviewPage!StatusAnswered
  <1>19. \A i : inspectionReview!ActionAnswered(i) => reviewPage!ActionAnswered(i)
    BY Zenon DEF inspectionReview!ActionAnswered, reviewPage!ActionAnswered
  <1>20. \A i : inspectionReview!UpdateAnswered(i) => reviewPage!UpdateAnswered(i)
    BY Zenon DEF inspectionReview!UpdateAnswered, reviewPage!UpdateAnswered
  <1>21. \A i : inspectionReview!DownloadEnds(i) => reviewPage!DownloadEnds(i)
    BY Zenon DEF inspectionReview!DownloadEnds, reviewPage!DownloadEnds
  <1>22. \A i : inspectionReview!DeleteAnswered(i) => reviewPage!DeleteAnswered(i)
    BY Zenon DEF inspectionReview!DeleteAnswered, reviewPage!DeleteAnswered
  <1>23. \A i : inspectionReview!ReportAnswered(i) => reviewPage!ReportAnswered(i)
    BY Zenon DEF inspectionReview!ReportAnswered, reviewPage!ReportAnswered
  <1>24. \A i : inspectionReview!RemoveAnswered(i) => reviewPage!RemoveAnswered(i)
    BY Zenon DEF inspectionReview!RemoveAnswered, reviewPage!RemoveAnswered
  <1>25. \A i : inspectionReview!Serve(i) => reviewPage!Serve(i)
    BY Zenon DEF inspectionReview!Serve, reviewPage!Serve
  <1>26. \A i : inspectionReview!handleRemove(i) => reviewPage!handleRemove(i)
    BY Zenon DEF inspectionReview!handleRemove, reviewPage!handleRemove
  <1>27. inspectionReview!Init => reviewPage!Init
    BY Zenon DEF inspectionReview!Init, reviewPage!Init
  <1>28. reviewPage!TypeOK => inspectionReview!TypeOK
    BY Zenon DEF inspectionReview!TypeOK, reviewPage!TypeOK
  <1>29. reviewPage!BusyWhileUnderWay => inspectionReview!BusyWhileUnderWay
    BY Zenon DEF inspectionReview!BusyWhileUnderWay, reviewPage!BusyWhileUnderWay
  <1>30. reviewPage!OwnStepIsShown => inspectionReview!OwnStepIsShown
    BY Zenon DEF inspectionReview!OwnStepIsShown, reviewPage!OwnStepIsShown
  <1>31. reviewPage!RefusedOnlyWhenStale => inspectionReview!RefusedOnlyWhenStale
    BY Zenon DEF inspectionReview!RefusedOnlyWhenStale, reviewPage!RefusedOnlyWhenStale
  <1> HIDE DEF
     inspectionReview!Slots, reviewPage!Slots, inspectionReview!Sent, reviewPage!Sent,
     inspectionReview!Answer, reviewPage!Answer, inspectionReview!NoCall, reviewPage!NoCall,
     inspectionReview!underWay, reviewPage!underWay, inspectionReview!waiting,
     reviewPage!waiting, inspectionReview!answered, reviewPage!answered,
     inspectionReview!NoCalls, reviewPage!NoCalls, inspectionReview!callsOf, reviewPage!callsOf,
     inspectionReview!Succeed, reviewPage!Succeed, inspectionReview!Fail, reviewPage!Fail,
     inspectionReview!Reply, reviewPage!Reply, inspectionReview!returns, reviewPage!returns,
     inspectionReview!Finish, reviewPage!Finish, inspectionReview!Continue, reviewPage!Continue,
     inspectionReview!Decisions, reviewPage!Decisions, inspectionReview!New, reviewPage!New,
     inspectionReview!Inspection, reviewPage!Inspection, inspectionReview!SelectedStatus,
     reviewPage!SelectedStatus, inspectionReview!SelectedAction, reviewPage!SelectedAction,
     inspectionReview!changes, reviewPage!changes, inspectionReview!assertStatusTransition,
     reviewPage!assertStatusTransition, inspectionReview!decided, reviewPage!decided,
     inspectionReview!mayDecide, reviewPage!mayDecide, inspectionReview!ChangeStatus,
     reviewPage!ChangeStatus, inspectionReview!Decide, reviewPage!Decide,
     inspectionReview!CreateReport, reviewPage!CreateReport, inspectionReview!RemoveReport,
     reviewPage!RemoveReport, inspectionReview!Update, reviewPage!Update,
     inspectionReview!Answered, reviewPage!Answered, inspectionReview!setInspection,
     reviewPage!setInspection, inspectionReview!shown, reviewPage!shown,
     inspectionReview!Changes, reviewPage!Changes, inspectionReview!statusTransitions,
     reviewPage!statusTransitions, inspectionReview!availableActions,
     reviewPage!availableActions, inspectionReview!isEditing, reviewPage!isEditing,
     inspectionReview!headerShown, reviewPage!headerShown, inspectionReview!reportsShown,
     reviewPage!reportsShown, inspectionReview!reportsHidden, reviewPage!reportsHidden,
     inspectionReview!withForm, reviewPage!withForm, inspectionReview!withReport,
     reviewPage!withReport, inspectionReview!withoutReport, reviewPage!withoutReport,
     inspectionReview!service!InspectionStatus, reviewPage!service!InspectionStatus,
     inspectionReview!service!InspectionApprovalStatus,
     reviewPage!service!InspectionApprovalStatus, inspectionReview!service!NotCreated,
     reviewPage!service!NotCreated, inspectionReview!service!Null, reviewPage!service!Null,
     inspectionReview!service!allowedTransitions, reviewPage!service!allowedTransitions,
     inspectionReview!service!Entry, reviewPage!service!Entry,
     inspectionReview!service!StatusEntry, reviewPage!service!StatusEntry,
     inspectionReview!service!ApprovalEntry, reviewPage!service!ApprovalEntry
  <1>32. inspectionReview!Operator => reviewPage!Operator
    BY <1>1, <1>2, <1>3, <1>4, <1>5, <1>6, <1>7, <1>8, <1>9, <1>10, <1>11, <1>12, <1>13, <1>14,
       <1>15, <1>26
    DEF inspectionReview!Operator, reviewPage!Operator
  <1>33. \A i : inspectionReview!Receive(i) => reviewPage!Receive(i)
    BY <1>17, <1>18, <1>19, <1>20, <1>21, <1>22, <1>23, <1>24
    DEF inspectionReview!Receive, reviewPage!Receive
  <1>34. inspectionReview!Next => reviewPage!Next
    BY <1>32, <1>33, <1>16, <1>25
    DEF inspectionReview!Next, reviewPage!Next, inspectionReview!Slots, reviewPage!Slots
  <1>35. QED
    BY <1>27, <1>28, <1>29, <1>30, <1>31, <1>34

LEMMA ReviewedPage ==
    /\ inspectionReview!Init => reviewPage!ScreenInv
    /\ reviewPage!ScreenInv /\ inspectionReview!Next => reviewPage!ScreenInv'
    /\ reviewPage!ScreenInv /\ UNCHANGED <<db, ui, calls>> => reviewPage!ScreenInv'
    /\ reviewPage!ScreenInv => /\ inspectionReview!TypeOK /\ inspectionReview!BusyWhileUnderWay
                       /\ inspectionReview!OwnStepIsShown /\ inspectionReview!RefusedOnlyWhenStale
  <1>1. reviewPage!WebConstants
    BY WebConstants DEF reviewPage!WebConstants
  <1>2. {"IN_PROGRESS"} \subseteq reviewPage!service!InspectionStatus
    BY DEF reviewPage!service!InspectionStatus
  <1>3. QED
    BY <1>1, <1>2, ReviewedSteps, reviewPage!ScreenInit, reviewPage!ScreenNext,
       reviewPage!ScreenStays, reviewPage!ScreenHolds

LEMMA FormOfCalls ==
    /\ \A op, arg : inspectionForm!Call(op, arg) <=> formPage!Call(op, arg)
    /\ \A cs, c : inspectionForm!placed(cs, c) = formPage!placed(cs, c)
  <1>1. inspectionForm!Slots = formPage!Slots /\ inspectionForm!NoCall = formPage!NoCall
    BY Zenon DEF inspectionForm!Slots, formPage!Slots, inspectionForm!NoCall, formPage!NoCall
  <1>2. \A cs : inspectionForm!firstFree(cs) = formPage!firstFree(cs)
    BY <1>1, Zenon DEF inspectionForm!firstFree, formPage!firstFree
  <1>3. \A cs, c : inspectionForm!placed(cs, c) = formPage!placed(cs, c)
    BY <1>2, Zenon DEF inspectionForm!placed, formPage!placed
  <1>4. \A op, arg : inspectionForm!Call(op, arg) <=> formPage!Call(op, arg)
    BY <1>1, <1>3, Zenon
    DEF inspectionForm!Call, formPage!Call, inspectionForm!mayCall, formPage!mayCall,
       inspectionForm!underWay, formPage!underWay, inspectionForm!Sent, formPage!Sent
  <1>5. QED
    BY <1>3, <1>4

\* A step of the page is one of the page of which InspectionScreenProofs speaks.
LEMMA FormOfSteps ==
    /\ inspectionForm!Init => formPage!Init
    /\ inspectionForm!Next => formPage!Next
    /\ formPage!TypeOK => inspectionForm!TypeOK
    /\ formPage!BusyWhileUnderWay => inspectionForm!BusyWhileUnderWay
    /\ formPage!OwnStepIsShown => inspectionForm!OwnStepIsShown
    /\ formPage!RefusedOnlyWhenStale => inspectionForm!RefusedOnlyWhenStale
  <1> USE FormOfCalls
  <1> USE DEF
     inspectionForm!Slots, formPage!Slots, inspectionForm!Sent, formPage!Sent,
     inspectionForm!Answer, formPage!Answer, inspectionForm!NoCall, formPage!NoCall,
     inspectionForm!underWay, formPage!underWay, inspectionForm!waiting, formPage!waiting,
     inspectionForm!answered, formPage!answered, inspectionForm!NoCalls, formPage!NoCalls,
     inspectionForm!callsOf, formPage!callsOf, inspectionForm!Succeed, formPage!Succeed,
     inspectionForm!Fail, formPage!Fail, inspectionForm!Reply, formPage!Reply,
     inspectionForm!returns, formPage!returns, inspectionForm!Finish, formPage!Finish,
     inspectionForm!Continue, formPage!Continue, inspectionForm!Decisions, formPage!Decisions,
     inspectionForm!New, formPage!New, inspectionForm!Inspection, formPage!Inspection,
     inspectionForm!SelectedStatus, formPage!SelectedStatus, inspectionForm!SelectedAction,
     formPage!SelectedAction, inspectionForm!changes, formPage!changes,
     inspectionForm!assertStatusTransition, formPage!assertStatusTransition,
     inspectionForm!decided, formPage!decided, inspectionForm!mayDecide, formPage!mayDecide,
     inspectionForm!ChangeStatus, formPage!ChangeStatus, inspectionForm!Decide, formPage!Decide,
     inspectionForm!CreateReport, formPage!CreateReport, inspectionForm!RemoveReport,
     formPage!RemoveReport, inspectionForm!Update, formPage!Update, inspectionForm!Answered,
     formPage!Answered, inspectionForm!setInspection, formPage!setInspection,
     inspectionForm!shown, formPage!shown, inspectionForm!Changes, formPage!Changes,
     inspectionForm!statusTransitions, formPage!statusTransitions,
     inspectionForm!availableActions, formPage!availableActions, inspectionForm!isEditing,
     formPage!isEditing, inspectionForm!headerShown, formPage!headerShown,
     inspectionForm!reportsShown, formPage!reportsShown, inspectionForm!reportsHidden,
     formPage!reportsHidden, inspectionForm!withForm, formPage!withForm,
     inspectionForm!withReport, formPage!withReport, inspectionForm!withoutReport,
     formPage!withoutReport, inspectionForm!service!InspectionStatus,
     formPage!service!InspectionStatus, inspectionForm!service!InspectionApprovalStatus,
     formPage!service!InspectionApprovalStatus, inspectionForm!service!NotCreated,
     formPage!service!NotCreated, inspectionForm!service!Null, formPage!service!Null,
     inspectionForm!service!allowedTransitions, formPage!service!allowedTransitions,
     inspectionForm!service!Entry, formPage!service!Entry, inspectionForm!service!StatusEntry,
     formPage!service!StatusEntry, inspectionForm!service!ApprovalEntry,
     formPage!service!ApprovalEntry
  <1>1. inspectionForm!TryAgain => formPage!TryAgain
    BY Zenon DEF inspectionForm!TryAgain, formPage!TryAgain
  <1>2. inspectionForm!SelectStatus => formPage!SelectStatus
    BY Zenon DEF inspectionForm!SelectStatus, formPage!SelectStatus
  <1>3. inspectionForm!handleStatusChange => formPage!handleStatusChange
    BY Zenon DEF inspectionForm!handleStatusChange, formPage!handleStatusChange
  <1>4. inspectionForm!SelectAction => formPage!SelectAction
    BY Zenon DEF inspectionForm!SelectAction, formPage!SelectAction
  <1>5. inspectionForm!handleAction => formPage!handleAction
    BY Zenon DEF inspectionForm!handleAction, formPage!handleAction
  <1>6. inspectionForm!ToggleExpanded => formPage!ToggleExpanded
    BY Zenon DEF inspectionForm!ToggleExpanded, formPage!ToggleExpanded
  <1>7. inspectionForm!handleDownloadPdf => formPage!handleDownloadPdf
    BY Zenon DEF inspectionForm!handleDownloadPdf, formPage!handleDownloadPdf
  <1>8. inspectionForm!handleDelete => formPage!handleDelete
    BY Zenon DEF inspectionForm!handleDelete, formPage!handleDelete
  <1>9. inspectionForm!Edit => formPage!Edit
    BY Zenon DEF inspectionForm!Edit, formPage!Edit
  <1>10. inspectionForm!ChooseStatus => formPage!ChooseStatus
    BY Zenon DEF inspectionForm!ChooseStatus, formPage!ChooseStatus
  <1>11. inspectionForm!CancelEdit => formPage!CancelEdit
    BY Zenon DEF inspectionForm!CancelEdit, formPage!CancelEdit
  <1>12. inspectionForm!SubmitEdit => formPage!SubmitEdit
    BY Zenon DEF inspectionForm!SubmitEdit, formPage!SubmitEdit
  <1>13. inspectionForm!OpenReport => formPage!OpenReport
    BY Zenon DEF inspectionForm!OpenReport, formPage!OpenReport
  <1>14. inspectionForm!CancelReport => formPage!CancelReport
    BY Zenon DEF inspectionForm!CancelReport, formPage!CancelReport
  <1>15. inspectionForm!SubmitReport => formPage!SubmitReport
    BY Zenon DEF inspectionForm!SubmitReport, formPage!SubmitReport
  <1>16. inspectionForm!SomebodyElse => formPage!SomebodyElse
    BY Zenon DEF inspectionForm!SomebodyElse, formPage!SomebodyElse
  <1>17. \A i : inspectionForm!LoadArrives(i) => formPage!LoadArrives(i)
    BY Zenon DEF inspectionForm!LoadArrives, formPage!LoadArrives
  <1>18. \A i : inspectionForm!StatusAnswered(i) => formPage!StatusAnswered(i)
    BY Zenon DEF inspectionForm!StatusAnswered, formPage!StatusAnswered
  <1>19. \A i : inspectionForm!ActionAnswered(i) => formPage!ActionAnswered(i)
    BY Zenon DEF inspectionForm!ActionAnswered, formPage!ActionAnswered
  <1>20. \A i : inspectionForm!UpdateAnswered(i) => formPage!UpdateAnswered(i)
    BY Zenon DEF inspectionForm!UpdateAnswered, formPage!UpdateAnswered
  <1>21. \A i : inspectionForm!DownloadEnds(i) => formPage!DownloadEnds(i)
    BY Zenon DEF inspectionForm!DownloadEnds, formPage!DownloadEnds
  <1>22. \A i : inspectionForm!DeleteAnswered(i) => formPage!DeleteAnswered(i)
    BY Zenon DEF inspectionForm!DeleteAnswered, formPage!DeleteAnswered
  <1>23. \A i : inspectionForm!ReportAnswered(i) => formPage!ReportAnswered(i)
    BY Zenon DEF inspectionForm!ReportAnswered, formPage!ReportAnswered
  <1>24. \A i : inspectionForm!RemoveAnswered(i) => formPage!RemoveAnswered(i)
    BY Zenon DEF inspectionForm!RemoveAnswered, formPage!RemoveAnswered
  <1>25. \A i : inspectionForm!Serve(i) => formPage!Serve(i)
    BY Zenon DEF inspectionForm!Serve, formPage!Serve
  <1>26. \A i : inspectionForm!handleRemove(i) => formPage!handleRemove(i)
    BY Zenon DEF inspectionForm!handleRemove, formPage!handleRemove
  <1>27. inspectionForm!Init => formPage!Init
    BY Zenon DEF inspectionForm!Init, formPage!Init
  <1>28. formPage!TypeOK => inspectionForm!TypeOK
    BY Zenon DEF inspectionForm!TypeOK, formPage!TypeOK
  <1>29. formPage!BusyWhileUnderWay => inspectionForm!BusyWhileUnderWay
    BY Zenon DEF inspectionForm!BusyWhileUnderWay, formPage!BusyWhileUnderWay
  <1>30. formPage!OwnStepIsShown => inspectionForm!OwnStepIsShown
    BY Zenon DEF inspectionForm!OwnStepIsShown, formPage!OwnStepIsShown
  <1>31. formPage!RefusedOnlyWhenStale => inspectionForm!RefusedOnlyWhenStale
    BY Zenon DEF inspectionForm!RefusedOnlyWhenStale, formPage!RefusedOnlyWhenStale
  <1> HIDE DEF
     inspectionForm!Slots, formPage!Slots, inspectionForm!Sent, formPage!Sent,
     inspectionForm!Answer, formPage!Answer, inspectionForm!NoCall, formPage!NoCall,
     inspectionForm!underWay, formPage!underWay, inspectionForm!waiting, formPage!waiting,
     inspectionForm!answered, formPage!answered, inspectionForm!NoCalls, formPage!NoCalls,
     inspectionForm!callsOf, formPage!callsOf, inspectionForm!Succeed, formPage!Succeed,
     inspectionForm!Fail, formPage!Fail, inspectionForm!Reply, formPage!Reply,
     inspectionForm!returns, formPage!returns, inspectionForm!Finish, formPage!Finish,
     inspectionForm!Continue, formPage!Continue, inspectionForm!Decisions, formPage!Decisions,
     inspectionForm!New, formPage!New, inspectionForm!Inspection, formPage!Inspection,
     inspectionForm!SelectedStatus, formPage!SelectedStatus, inspectionForm!SelectedAction,
     formPage!SelectedAction, inspectionForm!changes, formPage!changes,
     inspectionForm!assertStatusTransition, formPage!assertStatusTransition,
     inspectionForm!decided, formPage!decided, inspectionForm!mayDecide, formPage!mayDecide,
     inspectionForm!ChangeStatus, formPage!ChangeStatus, inspectionForm!Decide, formPage!Decide,
     inspectionForm!CreateReport, formPage!CreateReport, inspectionForm!RemoveReport,
     formPage!RemoveReport, inspectionForm!Update, formPage!Update, inspectionForm!Answered,
     formPage!Answered, inspectionForm!setInspection, formPage!setInspection,
     inspectionForm!shown, formPage!shown, inspectionForm!Changes, formPage!Changes,
     inspectionForm!statusTransitions, formPage!statusTransitions,
     inspectionForm!availableActions, formPage!availableActions, inspectionForm!isEditing,
     formPage!isEditing, inspectionForm!headerShown, formPage!headerShown,
     inspectionForm!reportsShown, formPage!reportsShown, inspectionForm!reportsHidden,
     formPage!reportsHidden, inspectionForm!withForm, formPage!withForm,
     inspectionForm!withReport, formPage!withReport, inspectionForm!withoutReport,
     formPage!withoutReport, inspectionForm!service!InspectionStatus,
     formPage!service!InspectionStatus, inspectionForm!service!InspectionApprovalStatus,
     formPage!service!InspectionApprovalStatus, inspectionForm!service!NotCreated,
     formPage!service!NotCreated, inspectionForm!service!Null, formPage!service!Null,
     inspectionForm!service!allowedTransitions, formPage!service!allowedTransitions,
     inspectionForm!service!Entry, formPage!service!Entry, inspectionForm!service!StatusEntry,
     formPage!service!StatusEntry, inspectionForm!service!ApprovalEntry,
     formPage!service!ApprovalEntry
  <1>32. inspectionForm!Operator => formPage!Operator
    BY <1>1, <1>2, <1>3, <1>4, <1>5, <1>6, <1>7, <1>8, <1>9, <1>10, <1>11, <1>12, <1>13, <1>14,
       <1>15, <1>26
    DEF inspectionForm!Operator, formPage!Operator
  <1>33. \A i : inspectionForm!Receive(i) => formPage!Receive(i)
    BY <1>17, <1>18, <1>19, <1>20, <1>21, <1>22, <1>23, <1>24
    DEF inspectionForm!Receive, formPage!Receive
  <1>34. inspectionForm!Next => formPage!Next
    BY <1>32, <1>33, <1>16, <1>25
    DEF inspectionForm!Next, formPage!Next, inspectionForm!Slots, formPage!Slots
  <1>35. QED
    BY <1>27, <1>28, <1>29, <1>30, <1>31, <1>34

LEMMA FormOfPage ==
    /\ inspectionForm!Init => formPage!ScreenInv
    /\ formPage!ScreenInv /\ inspectionForm!Next => formPage!ScreenInv'
    /\ formPage!ScreenInv /\ UNCHANGED <<db, ui, calls>> => formPage!ScreenInv'
    /\ formPage!ScreenInv => /\ inspectionForm!TypeOK /\ inspectionForm!BusyWhileUnderWay
                       /\ inspectionForm!OwnStepIsShown /\ inspectionForm!RefusedOnlyWhenStale
  <1>1. formPage!WebConstants
    BY WebConstants DEF formPage!WebConstants
  <1>2. {"IN_PROGRESS"} \subseteq formPage!service!InspectionStatus
    BY DEF formPage!service!InspectionStatus
  <1>3. QED
    BY <1>1, <1>2, FormOfSteps, formPage!ScreenInit, formPage!ScreenNext, formPage!ScreenStays,
       formPage!ScreenHolds

LEMMA DamagedCalls ==
    /\ \A op, arg : damageReports!Call(op, arg) <=> damagePage!Call(op, arg)
    /\ \A cs, c : damageReports!placed(cs, c) = damagePage!placed(cs, c)
  <1>1. damageReports!Slots = damagePage!Slots /\ damageReports!NoCall = damagePage!NoCall
    BY Zenon DEF damageReports!Slots, damagePage!Slots, damageReports!NoCall, damagePage!NoCall
  <1>2. \A cs : damageReports!firstFree(cs) = damagePage!firstFree(cs)
    BY <1>1, Zenon DEF damageReports!firstFree, damagePage!firstFree
  <1>3. \A cs, c : damageReports!placed(cs, c) = damagePage!placed(cs, c)
    BY <1>2, Zenon DEF damageReports!placed, damagePage!placed
  <1>4. \A op, arg : damageReports!Call(op, arg) <=> damagePage!Call(op, arg)
    BY <1>1, <1>3, Zenon
    DEF damageReports!Call, damagePage!Call, damageReports!mayCall, damagePage!mayCall,
       damageReports!underWay, damagePage!underWay, damageReports!Sent, damagePage!Sent
  <1>5. QED
    BY <1>3, <1>4

\* A step of the page is one of the page of which InspectionScreenProofs speaks.
LEMMA DamagedSteps ==
    /\ damageReports!Init => damagePage!Init
    /\ damageReports!Next => damagePage!Next
    /\ damagePage!TypeOK => damageReports!TypeOK
    /\ damagePage!BusyWhileUnderWay => damageReports!BusyWhileUnderWay
    /\ damagePage!OwnStepIsShown => damageReports!OwnStepIsShown
    /\ damagePage!RefusedOnlyWhenStale => damageReports!RefusedOnlyWhenStale
  <1> USE DamagedCalls
  <1> USE DEF
     damageReports!Slots, damagePage!Slots, damageReports!Sent, damagePage!Sent,
     damageReports!Answer, damagePage!Answer, damageReports!NoCall, damagePage!NoCall,
     damageReports!underWay, damagePage!underWay, damageReports!waiting, damagePage!waiting,
     damageReports!answered, damagePage!answered, damageReports!NoCalls, damagePage!NoCalls,
     damageReports!callsOf, damagePage!callsOf, damageReports!Succeed, damagePage!Succeed,
     damageReports!Fail, damagePage!Fail, damageReports!Reply, damagePage!Reply,
     damageReports!returns, damagePage!returns, damageReports!Finish, damagePage!Finish,
     damageReports!Continue, damagePage!Continue, damageReports!Decisions, damagePage!Decisions,
     damageReports!New, damagePage!New, damageReports!Inspection, damagePage!Inspection,
     damageReports!SelectedStatus, damagePage!SelectedStatus, damageReports!SelectedAction,
     damagePage!SelectedAction, damageReports!changes, damagePage!changes,
     damageReports!assertStatusTransition, damagePage!assertStatusTransition,
     damageReports!decided, damagePage!decided, damageReports!mayDecide, damagePage!mayDecide,
     damageReports!ChangeStatus, damagePage!ChangeStatus, damageReports!Decide,
     damagePage!Decide, damageReports!CreateReport, damagePage!CreateReport,
     damageReports!RemoveReport, damagePage!RemoveReport, damageReports!Update,
     damagePage!Update, damageReports!Answered, damagePage!Answered,
     damageReports!setInspection, damagePage!setInspection, damageReports!shown,
     damagePage!shown, damageReports!Changes, damagePage!Changes,
     damageReports!statusTransitions, damagePage!statusTransitions,
     damageReports!availableActions, damagePage!availableActions, damageReports!isEditing,
     damagePage!isEditing, damageReports!headerShown, damagePage!headerShown,
     damageReports!reportsShown, damagePage!reportsShown, damageReports!reportsHidden,
     damagePage!reportsHidden, damageReports!withForm, damagePage!withForm,
     damageReports!withReport, damagePage!withReport, damageReports!withoutReport,
     damagePage!withoutReport, damageReports!service!InspectionStatus,
     damagePage!service!InspectionStatus, damageReports!service!InspectionApprovalStatus,
     damagePage!service!InspectionApprovalStatus, damageReports!service!NotCreated,
     damagePage!service!NotCreated, damageReports!service!Null, damagePage!service!Null,
     damageReports!service!allowedTransitions, damagePage!service!allowedTransitions,
     damageReports!service!Entry, damagePage!service!Entry, damageReports!service!StatusEntry,
     damagePage!service!StatusEntry, damageReports!service!ApprovalEntry,
     damagePage!service!ApprovalEntry
  <1>1. damageReports!TryAgain => damagePage!TryAgain
    BY Zenon DEF damageReports!TryAgain, damagePage!TryAgain
  <1>2. damageReports!SelectStatus => damagePage!SelectStatus
    BY Zenon DEF damageReports!SelectStatus, damagePage!SelectStatus
  <1>3. damageReports!handleStatusChange => damagePage!handleStatusChange
    BY Zenon DEF damageReports!handleStatusChange, damagePage!handleStatusChange
  <1>4. damageReports!SelectAction => damagePage!SelectAction
    BY Zenon DEF damageReports!SelectAction, damagePage!SelectAction
  <1>5. damageReports!handleAction => damagePage!handleAction
    BY Zenon DEF damageReports!handleAction, damagePage!handleAction
  <1>6. damageReports!ToggleExpanded => damagePage!ToggleExpanded
    BY Zenon DEF damageReports!ToggleExpanded, damagePage!ToggleExpanded
  <1>7. damageReports!handleDownloadPdf => damagePage!handleDownloadPdf
    BY Zenon DEF damageReports!handleDownloadPdf, damagePage!handleDownloadPdf
  <1>8. damageReports!handleDelete => damagePage!handleDelete
    BY Zenon DEF damageReports!handleDelete, damagePage!handleDelete
  <1>9. damageReports!Edit => damagePage!Edit
    BY Zenon DEF damageReports!Edit, damagePage!Edit
  <1>10. damageReports!ChooseStatus => damagePage!ChooseStatus
    BY Zenon DEF damageReports!ChooseStatus, damagePage!ChooseStatus
  <1>11. damageReports!CancelEdit => damagePage!CancelEdit
    BY Zenon DEF damageReports!CancelEdit, damagePage!CancelEdit
  <1>12. damageReports!SubmitEdit => damagePage!SubmitEdit
    BY Zenon DEF damageReports!SubmitEdit, damagePage!SubmitEdit
  <1>13. damageReports!OpenReport => damagePage!OpenReport
    BY Zenon DEF damageReports!OpenReport, damagePage!OpenReport
  <1>14. damageReports!CancelReport => damagePage!CancelReport
    BY Zenon DEF damageReports!CancelReport, damagePage!CancelReport
  <1>15. damageReports!SubmitReport => damagePage!SubmitReport
    BY Zenon DEF damageReports!SubmitReport, damagePage!SubmitReport
  <1>16. damageReports!SomebodyElse => damagePage!SomebodyElse
    BY Zenon DEF damageReports!SomebodyElse, damagePage!SomebodyElse
  <1>17. \A i : damageReports!LoadArrives(i) => damagePage!LoadArrives(i)
    BY Zenon DEF damageReports!LoadArrives, damagePage!LoadArrives
  <1>18. \A i : damageReports!StatusAnswered(i) => damagePage!StatusAnswered(i)
    BY Zenon DEF damageReports!StatusAnswered, damagePage!StatusAnswered
  <1>19. \A i : damageReports!ActionAnswered(i) => damagePage!ActionAnswered(i)
    BY Zenon DEF damageReports!ActionAnswered, damagePage!ActionAnswered
  <1>20. \A i : damageReports!UpdateAnswered(i) => damagePage!UpdateAnswered(i)
    BY Zenon DEF damageReports!UpdateAnswered, damagePage!UpdateAnswered
  <1>21. \A i : damageReports!DownloadEnds(i) => damagePage!DownloadEnds(i)
    BY Zenon DEF damageReports!DownloadEnds, damagePage!DownloadEnds
  <1>22. \A i : damageReports!DeleteAnswered(i) => damagePage!DeleteAnswered(i)
    BY Zenon DEF damageReports!DeleteAnswered, damagePage!DeleteAnswered
  <1>23. \A i : damageReports!ReportAnswered(i) => damagePage!ReportAnswered(i)
    BY Zenon DEF damageReports!ReportAnswered, damagePage!ReportAnswered
  <1>24. \A i : damageReports!RemoveAnswered(i) => damagePage!RemoveAnswered(i)
    BY Zenon DEF damageReports!RemoveAnswered, damagePage!RemoveAnswered
  <1>25. \A i : damageReports!Serve(i) => damagePage!Serve(i)
    BY Zenon DEF damageReports!Serve, damagePage!Serve
  <1>26. \A i : damageReports!handleRemove(i) => damagePage!handleRemove(i)
    BY Zenon DEF damageReports!handleRemove, damagePage!handleRemove
  <1>27. damageReports!Init => damagePage!Init
    BY Zenon DEF damageReports!Init, damagePage!Init
  <1>28. damagePage!TypeOK => damageReports!TypeOK
    BY Zenon DEF damageReports!TypeOK, damagePage!TypeOK
  <1>29. damagePage!BusyWhileUnderWay => damageReports!BusyWhileUnderWay
    BY Zenon DEF damageReports!BusyWhileUnderWay, damagePage!BusyWhileUnderWay
  <1>30. damagePage!OwnStepIsShown => damageReports!OwnStepIsShown
    BY Zenon DEF damageReports!OwnStepIsShown, damagePage!OwnStepIsShown
  <1>31. damagePage!RefusedOnlyWhenStale => damageReports!RefusedOnlyWhenStale
    BY Zenon DEF damageReports!RefusedOnlyWhenStale, damagePage!RefusedOnlyWhenStale
  <1> HIDE DEF
     damageReports!Slots, damagePage!Slots, damageReports!Sent, damagePage!Sent,
     damageReports!Answer, damagePage!Answer, damageReports!NoCall, damagePage!NoCall,
     damageReports!underWay, damagePage!underWay, damageReports!waiting, damagePage!waiting,
     damageReports!answered, damagePage!answered, damageReports!NoCalls, damagePage!NoCalls,
     damageReports!callsOf, damagePage!callsOf, damageReports!Succeed, damagePage!Succeed,
     damageReports!Fail, damagePage!Fail, damageReports!Reply, damagePage!Reply,
     damageReports!returns, damagePage!returns, damageReports!Finish, damagePage!Finish,
     damageReports!Continue, damagePage!Continue, damageReports!Decisions, damagePage!Decisions,
     damageReports!New, damagePage!New, damageReports!Inspection, damagePage!Inspection,
     damageReports!SelectedStatus, damagePage!SelectedStatus, damageReports!SelectedAction,
     damagePage!SelectedAction, damageReports!changes, damagePage!changes,
     damageReports!assertStatusTransition, damagePage!assertStatusTransition,
     damageReports!decided, damagePage!decided, damageReports!mayDecide, damagePage!mayDecide,
     damageReports!ChangeStatus, damagePage!ChangeStatus, damageReports!Decide,
     damagePage!Decide, damageReports!CreateReport, damagePage!CreateReport,
     damageReports!RemoveReport, damagePage!RemoveReport, damageReports!Update,
     damagePage!Update, damageReports!Answered, damagePage!Answered,
     damageReports!setInspection, damagePage!setInspection, damageReports!shown,
     damagePage!shown, damageReports!Changes, damagePage!Changes,
     damageReports!statusTransitions, damagePage!statusTransitions,
     damageReports!availableActions, damagePage!availableActions, damageReports!isEditing,
     damagePage!isEditing, damageReports!headerShown, damagePage!headerShown,
     damageReports!reportsShown, damagePage!reportsShown, damageReports!reportsHidden,
     damagePage!reportsHidden, damageReports!withForm, damagePage!withForm,
     damageReports!withReport, damagePage!withReport, damageReports!withoutReport,
     damagePage!withoutReport, damageReports!service!InspectionStatus,
     damagePage!service!InspectionStatus, damageReports!service!InspectionApprovalStatus,
     damagePage!service!InspectionApprovalStatus, damageReports!service!NotCreated,
     damagePage!service!NotCreated, damageReports!service!Null, damagePage!service!Null,
     damageReports!service!allowedTransitions, damagePage!service!allowedTransitions,
     damageReports!service!Entry, damagePage!service!Entry, damageReports!service!StatusEntry,
     damagePage!service!StatusEntry, damageReports!service!ApprovalEntry,
     damagePage!service!ApprovalEntry
  <1>32. damageReports!Operator => damagePage!Operator
    BY <1>1, <1>2, <1>3, <1>4, <1>5, <1>6, <1>7, <1>8, <1>9, <1>10, <1>11, <1>12, <1>13, <1>14,
       <1>15, <1>26
    DEF damageReports!Operator, damagePage!Operator
  <1>33. \A i : damageReports!Receive(i) => damagePage!Receive(i)
    BY <1>17, <1>18, <1>19, <1>20, <1>21, <1>22, <1>23, <1>24
    DEF damageReports!Receive, damagePage!Receive
  <1>34. damageReports!Next => damagePage!Next
    BY <1>32, <1>33, <1>16, <1>25
    DEF damageReports!Next, damagePage!Next, damageReports!Slots, damagePage!Slots
  <1>35. QED
    BY <1>27, <1>28, <1>29, <1>30, <1>31, <1>34

LEMMA DamagedPage ==
    /\ damageReports!Init => damagePage!ScreenInv
    /\ damagePage!ScreenInv /\ damageReports!Next => damagePage!ScreenInv'
    /\ damagePage!ScreenInv /\ UNCHANGED <<db, ui, calls>> => damagePage!ScreenInv'
    /\ damagePage!ScreenInv => /\ damageReports!TypeOK /\ damageReports!BusyWhileUnderWay
                       /\ damageReports!OwnStepIsShown /\ damageReports!RefusedOnlyWhenStale
  <1>1. damagePage!WebConstants
    BY WebConstants DEF damagePage!WebConstants
  <1>2. {"IN_PROGRESS"} \subseteq damagePage!service!InspectionStatus
    BY DEF damagePage!service!InspectionStatus
  <1>3. QED
    BY <1>1, <1>2, DamagedSteps, damagePage!ScreenInit, damagePage!ScreenNext,
       damagePage!ScreenStays, damagePage!ScreenHolds

LEMMA CardedCalls ==
    /\ \A op, arg : damageCard!Call(op, arg) <=> cardPage!Call(op, arg)
    /\ \A cs, c : damageCard!placed(cs, c) = cardPage!placed(cs, c)
  <1>1. damageCard!Slots = cardPage!Slots /\ damageCard!NoCall = cardPage!NoCall
    BY Zenon DEF damageCard!Slots, cardPage!Slots, damageCard!NoCall, cardPage!NoCall
  <1>2. \A cs : damageCard!firstFree(cs) = cardPage!firstFree(cs)
    BY <1>1, Zenon DEF damageCard!firstFree, cardPage!firstFree
  <1>3. \A cs, c : damageCard!placed(cs, c) = cardPage!placed(cs, c)
    BY <1>2, Zenon DEF damageCard!placed, cardPage!placed
  <1>4. \A op, arg : damageCard!Call(op, arg) <=> cardPage!Call(op, arg)
    BY <1>1, <1>3, Zenon DEF damageCard!Call, cardPage!Call, damageCard!mayCall, cardPage!mayCall,
       damageCard!underWay, cardPage!underWay, damageCard!Sent, cardPage!Sent
  <1>5. QED
    BY <1>3, <1>4

\* A step of the page is one of the page of which InspectionScreenProofs speaks.
LEMMA CardedSteps ==
    /\ damageCard!Init => cardPage!Init
    /\ damageCard!Next => cardPage!Next
    /\ cardPage!TypeOK => damageCard!TypeOK
    /\ cardPage!BusyWhileUnderWay => damageCard!BusyWhileUnderWay
    /\ cardPage!OwnStepIsShown => damageCard!OwnStepIsShown
    /\ cardPage!RefusedOnlyWhenStale => damageCard!RefusedOnlyWhenStale
  <1> USE CardedCalls
  <1> USE DEF
     damageCard!Slots, cardPage!Slots, damageCard!Sent, cardPage!Sent, damageCard!Answer,
     cardPage!Answer, damageCard!NoCall, cardPage!NoCall, damageCard!underWay,
     cardPage!underWay, damageCard!waiting, cardPage!waiting, damageCard!answered,
     cardPage!answered, damageCard!NoCalls, cardPage!NoCalls, damageCard!callsOf,
     cardPage!callsOf, damageCard!Succeed, cardPage!Succeed, damageCard!Fail, cardPage!Fail,
     damageCard!Reply, cardPage!Reply, damageCard!returns, cardPage!returns, damageCard!Finish,
     cardPage!Finish, damageCard!Continue, cardPage!Continue, damageCard!Decisions,
     cardPage!Decisions, damageCard!New, cardPage!New, damageCard!Inspection,
     cardPage!Inspection, damageCard!SelectedStatus, cardPage!SelectedStatus,
     damageCard!SelectedAction, cardPage!SelectedAction, damageCard!changes, cardPage!changes,
     damageCard!assertStatusTransition, cardPage!assertStatusTransition, damageCard!decided,
     cardPage!decided, damageCard!mayDecide, cardPage!mayDecide, damageCard!ChangeStatus,
     cardPage!ChangeStatus, damageCard!Decide, cardPage!Decide, damageCard!CreateReport,
     cardPage!CreateReport, damageCard!RemoveReport, cardPage!RemoveReport, damageCard!Update,
     cardPage!Update, damageCard!Answered, cardPage!Answered, damageCard!setInspection,
     cardPage!setInspection, damageCard!shown, cardPage!shown, damageCard!Changes,
     cardPage!Changes, damageCard!statusTransitions, cardPage!statusTransitions,
     damageCard!availableActions, cardPage!availableActions, damageCard!isEditing,
     cardPage!isEditing, damageCard!headerShown, cardPage!headerShown, damageCard!reportsShown,
     cardPage!reportsShown, damageCard!reportsHidden, cardPage!reportsHidden,
     damageCard!withForm, cardPage!withForm, damageCard!withReport, cardPage!withReport,
     damageCard!withoutReport, cardPage!withoutReport, damageCard!service!InspectionStatus,
     cardPage!service!InspectionStatus, damageCard!service!InspectionApprovalStatus,
     cardPage!service!InspectionApprovalStatus, damageCard!service!NotCreated,
     cardPage!service!NotCreated, damageCard!service!Null, cardPage!service!Null,
     damageCard!service!allowedTransitions, cardPage!service!allowedTransitions,
     damageCard!service!Entry, cardPage!service!Entry, damageCard!service!StatusEntry,
     cardPage!service!StatusEntry, damageCard!service!ApprovalEntry,
     cardPage!service!ApprovalEntry
  <1>1. damageCard!TryAgain => cardPage!TryAgain
    BY Zenon DEF damageCard!TryAgain, cardPage!TryAgain
  <1>2. damageCard!SelectStatus => cardPage!SelectStatus
    BY Zenon DEF damageCard!SelectStatus, cardPage!SelectStatus
  <1>3. damageCard!handleStatusChange => cardPage!handleStatusChange
    BY Zenon DEF damageCard!handleStatusChange, cardPage!handleStatusChange
  <1>4. damageCard!SelectAction => cardPage!SelectAction
    BY Zenon DEF damageCard!SelectAction, cardPage!SelectAction
  <1>5. damageCard!handleAction => cardPage!handleAction
    BY Zenon DEF damageCard!handleAction, cardPage!handleAction
  <1>6. damageCard!ToggleExpanded => cardPage!ToggleExpanded
    BY Zenon DEF damageCard!ToggleExpanded, cardPage!ToggleExpanded
  <1>7. damageCard!handleDownloadPdf => cardPage!handleDownloadPdf
    BY Zenon DEF damageCard!handleDownloadPdf, cardPage!handleDownloadPdf
  <1>8. damageCard!handleDelete => cardPage!handleDelete
    BY Zenon DEF damageCard!handleDelete, cardPage!handleDelete
  <1>9. damageCard!Edit => cardPage!Edit
    BY Zenon DEF damageCard!Edit, cardPage!Edit
  <1>10. damageCard!ChooseStatus => cardPage!ChooseStatus
    BY Zenon DEF damageCard!ChooseStatus, cardPage!ChooseStatus
  <1>11. damageCard!CancelEdit => cardPage!CancelEdit
    BY Zenon DEF damageCard!CancelEdit, cardPage!CancelEdit
  <1>12. damageCard!SubmitEdit => cardPage!SubmitEdit
    BY Zenon DEF damageCard!SubmitEdit, cardPage!SubmitEdit
  <1>13. damageCard!OpenReport => cardPage!OpenReport
    BY Zenon DEF damageCard!OpenReport, cardPage!OpenReport
  <1>14. damageCard!CancelReport => cardPage!CancelReport
    BY Zenon DEF damageCard!CancelReport, cardPage!CancelReport
  <1>15. damageCard!SubmitReport => cardPage!SubmitReport
    BY Zenon DEF damageCard!SubmitReport, cardPage!SubmitReport
  <1>16. damageCard!SomebodyElse => cardPage!SomebodyElse
    BY Zenon DEF damageCard!SomebodyElse, cardPage!SomebodyElse
  <1>17. \A i : damageCard!LoadArrives(i) => cardPage!LoadArrives(i)
    BY Zenon DEF damageCard!LoadArrives, cardPage!LoadArrives
  <1>18. \A i : damageCard!StatusAnswered(i) => cardPage!StatusAnswered(i)
    BY Zenon DEF damageCard!StatusAnswered, cardPage!StatusAnswered
  <1>19. \A i : damageCard!ActionAnswered(i) => cardPage!ActionAnswered(i)
    BY Zenon DEF damageCard!ActionAnswered, cardPage!ActionAnswered
  <1>20. \A i : damageCard!UpdateAnswered(i) => cardPage!UpdateAnswered(i)
    BY Zenon DEF damageCard!UpdateAnswered, cardPage!UpdateAnswered
  <1>21. \A i : damageCard!DownloadEnds(i) => cardPage!DownloadEnds(i)
    BY Zenon DEF damageCard!DownloadEnds, cardPage!DownloadEnds
  <1>22. \A i : damageCard!DeleteAnswered(i) => cardPage!DeleteAnswered(i)
    BY Zenon DEF damageCard!DeleteAnswered, cardPage!DeleteAnswered
  <1>23. \A i : damageCard!ReportAnswered(i) => cardPage!ReportAnswered(i)
    BY Zenon DEF damageCard!ReportAnswered, cardPage!ReportAnswered
  <1>24. \A i : damageCard!RemoveAnswered(i) => cardPage!RemoveAnswered(i)
    BY Zenon DEF damageCard!RemoveAnswered, cardPage!RemoveAnswered
  <1>25. \A i : damageCard!Serve(i) => cardPage!Serve(i)
    BY Zenon DEF damageCard!Serve, cardPage!Serve
  <1>26. \A i : damageCard!handleRemove(i) => cardPage!handleRemove(i)
    BY Zenon DEF damageCard!handleRemove, cardPage!handleRemove
  <1>27. damageCard!Init => cardPage!Init
    BY Zenon DEF damageCard!Init, cardPage!Init
  <1>28. cardPage!TypeOK => damageCard!TypeOK
    BY Zenon DEF damageCard!TypeOK, cardPage!TypeOK
  <1>29. cardPage!BusyWhileUnderWay => damageCard!BusyWhileUnderWay
    BY Zenon DEF damageCard!BusyWhileUnderWay, cardPage!BusyWhileUnderWay
  <1>30. cardPage!OwnStepIsShown => damageCard!OwnStepIsShown
    BY Zenon DEF damageCard!OwnStepIsShown, cardPage!OwnStepIsShown
  <1>31. cardPage!RefusedOnlyWhenStale => damageCard!RefusedOnlyWhenStale
    BY Zenon DEF damageCard!RefusedOnlyWhenStale, cardPage!RefusedOnlyWhenStale
  <1> HIDE DEF
     damageCard!Slots, cardPage!Slots, damageCard!Sent, cardPage!Sent, damageCard!Answer,
     cardPage!Answer, damageCard!NoCall, cardPage!NoCall, damageCard!underWay,
     cardPage!underWay, damageCard!waiting, cardPage!waiting, damageCard!answered,
     cardPage!answered, damageCard!NoCalls, cardPage!NoCalls, damageCard!callsOf,
     cardPage!callsOf, damageCard!Succeed, cardPage!Succeed, damageCard!Fail, cardPage!Fail,
     damageCard!Reply, cardPage!Reply, damageCard!returns, cardPage!returns, damageCard!Finish,
     cardPage!Finish, damageCard!Continue, cardPage!Continue, damageCard!Decisions,
     cardPage!Decisions, damageCard!New, cardPage!New, damageCard!Inspection,
     cardPage!Inspection, damageCard!SelectedStatus, cardPage!SelectedStatus,
     damageCard!SelectedAction, cardPage!SelectedAction, damageCard!changes, cardPage!changes,
     damageCard!assertStatusTransition, cardPage!assertStatusTransition, damageCard!decided,
     cardPage!decided, damageCard!mayDecide, cardPage!mayDecide, damageCard!ChangeStatus,
     cardPage!ChangeStatus, damageCard!Decide, cardPage!Decide, damageCard!CreateReport,
     cardPage!CreateReport, damageCard!RemoveReport, cardPage!RemoveReport, damageCard!Update,
     cardPage!Update, damageCard!Answered, cardPage!Answered, damageCard!setInspection,
     cardPage!setInspection, damageCard!shown, cardPage!shown, damageCard!Changes,
     cardPage!Changes, damageCard!statusTransitions, cardPage!statusTransitions,
     damageCard!availableActions, cardPage!availableActions, damageCard!isEditing,
     cardPage!isEditing, damageCard!headerShown, cardPage!headerShown, damageCard!reportsShown,
     cardPage!reportsShown, damageCard!reportsHidden, cardPage!reportsHidden,
     damageCard!withForm, cardPage!withForm, damageCard!withReport, cardPage!withReport,
     damageCard!withoutReport, cardPage!withoutReport, damageCard!service!InspectionStatus,
     cardPage!service!InspectionStatus, damageCard!service!InspectionApprovalStatus,
     cardPage!service!InspectionApprovalStatus, damageCard!service!NotCreated,
     cardPage!service!NotCreated, damageCard!service!Null, cardPage!service!Null,
     damageCard!service!allowedTransitions, cardPage!service!allowedTransitions,
     damageCard!service!Entry, cardPage!service!Entry, damageCard!service!StatusEntry,
     cardPage!service!StatusEntry, damageCard!service!ApprovalEntry,
     cardPage!service!ApprovalEntry
  <1>32. damageCard!Operator => cardPage!Operator
    BY <1>1, <1>2, <1>3, <1>4, <1>5, <1>6, <1>7, <1>8, <1>9, <1>10, <1>11, <1>12, <1>13, <1>14,
       <1>15, <1>26
    DEF damageCard!Operator, cardPage!Operator
  <1>33. \A i : damageCard!Receive(i) => cardPage!Receive(i)
    BY <1>17, <1>18, <1>19, <1>20, <1>21, <1>22, <1>23, <1>24
    DEF damageCard!Receive, cardPage!Receive
  <1>34. damageCard!Next => cardPage!Next
    BY <1>32, <1>33, <1>16, <1>25
    DEF damageCard!Next, cardPage!Next, damageCard!Slots, cardPage!Slots
  <1>35. QED
    BY <1>27, <1>28, <1>29, <1>30, <1>31, <1>34

LEMMA CardedPage ==
    /\ damageCard!Init => cardPage!ScreenInv
    /\ cardPage!ScreenInv /\ damageCard!Next => cardPage!ScreenInv'
    /\ cardPage!ScreenInv /\ UNCHANGED <<db, ui, calls>> => cardPage!ScreenInv'
    /\ cardPage!ScreenInv => /\ damageCard!TypeOK /\ damageCard!BusyWhileUnderWay
                       /\ damageCard!OwnStepIsShown /\ damageCard!RefusedOnlyWhenStale
  <1>1. cardPage!WebConstants
    BY WebConstants DEF cardPage!WebConstants
  <1>2. {"IN_PROGRESS"} \subseteq cardPage!service!InspectionStatus
    BY DEF cardPage!service!InspectionStatus
  <1>3. QED
    BY <1>1, <1>2, CardedSteps, cardPage!ScreenInit, cardPage!ScreenNext, cardPage!ScreenStays,
       cardPage!ScreenHolds

-----------------------------------------------------------------------------
(* All the pages: one invariant, and what it says of the page that is mounted *)

PagesInv ==
    /\ mounted \in Pages
    /\ mounted = "customers" => CustomersInv
    /\ mounted = "shipments" => ShipmentsInv
    /\ mounted = "documents" => DocumentsInv
    /\ mounted = "users" => UsersInv
    /\ mounted = "vehicles" => VehiclesInv
    /\ mounted = "inspections" => InspectionsInv
    /\ mounted = "invoices" => InvoicesInv
    /\ mounted = "shipment" => ScreenShows
    /\ mounted = "tracking" => TrackingInv
    /\ mounted = "papers" => PapersInv
    /\ mounted = "messages" => MessagesInv
    /\ mounted = "vehicle" => VehicleInv /\ VehicleWaits
    /\ mounted = "edit" => EditorInv
    /\ mounted = "invoice" => InvoiceInv /\ InvoiceWaits
    /\ mounted = "review" => reviewPage!ScreenInv
    /\ mounted = "inspection" => formPage!ScreenInv
    /\ mounted = "damage" => damagePage!ScreenInv
    /\ mounted = "card" => cardPage!ScreenInv
    /\ mounted = "photos" => PhotosInv

\* The invariant of a page speaks of its rows, its state and its calls.
LEMMA ListsStay ==
    ASSUME UNCHANGED <<db, ui, calls>>
    PROVE  /\ CustomersInv => CustomersInv'
           /\ ShipmentsInv => ShipmentsInv'
           /\ DocumentsInv => DocumentsInv'
           /\ UsersInv => UsersInv'
           /\ VehiclesInv => VehiclesInv'
           /\ InspectionsInv => InspectionsInv'
           /\ InvoicesInv => InvoicesInv'
  <1>1. underWay' = underWay /\ \A ops : callsOf(ops)' = callsOf(ops)
    BY CallsStay
  <1>2. \A x : callsTo(x)' = callsTo(x)
    BY StayTo
  <1>3. CustomersInv => CustomersInv'
    BY CustomersScreen
    DEF CustomersInv, customersPage!TypeOK, customersPage!FormFollowsEditing
  <1>4. ShipmentsInv => ShipmentsInv'
    BY ShipmentsScreen
    DEF ShipmentsInv, shipmentsPage!TypeOK, shipmentsPage!FormFollowsEditing
  <1>5. DocumentsInv => DocumentsInv'
    BY <1>1, <1>2, StayTo DEF DocumentsInv, DocumentsUi
  <1>6. UsersInv => UsersInv'
    BY UsersScreen DEF UsersInv, usersPage!TypeOK
  <1>7. VehiclesInv => VehiclesInv'
    BY <1>1 DEF VehiclesInv, VehiclesUi, VehiclesSettle, CallsOK
  <1>8. InspectionsInv => InspectionsInv'
    BY <1>1 DEF InspectionsInv, InspectionsUi, InspectionsSettle, CallsOK
  <1>9. InvoicesInv => InvoicesInv'
    BY <1>1, <1>2, StayTo DEF InvoicesInv, InvoicesUi
  <1>10. QED
    BY <1>3, <1>4, <1>5, <1>6, <1>7, <1>8, <1>9

LEMMA PanelsStay ==
    ASSUME UNCHANGED <<db, ui, calls>>
    PROVE  /\ ScreenShows => ScreenShows'
           /\ TrackingInv => TrackingInv'
           /\ PapersInv => PapersInv'
           /\ MessagesInv => MessagesInv'
           /\ PhotosInv => PhotosInv'
           /\ VehicleInv /\ VehicleWaits => (VehicleInv /\ VehicleWaits)'
           /\ EditorInv => EditorInv'
           /\ InvoiceInv /\ InvoiceWaits => (InvoiceInv /\ InvoiceWaits)'
  <1>1. underWay' = underWay /\ \A ops : callsOf(ops)' = callsOf(ops)
    BY CallsStay
  <1>2. \A x : callsTo(x)' = callsTo(x)
    BY StayTo
  <1>3. CallsOK => CallsOK'
    BY <1>1 DEF CallsOK
  <1>4. ScreenShows => ScreenShows'
    <2>1. ScreenInv => ScreenInv'
      BY ScreenTyped, ScreenAlone
    <2>2. ScreenBusy /\ ScreenTruth => (ScreenBusy /\ ScreenTruth)'
      BY <1>1 DEF ScreenBusy, ScreenTruth
    <2>3. QED
      BY <2>1, <2>2 DEF ScreenShows
  <1>5. TrackingInv => TrackingInv'
    BY <1>1, <1>3 DEF TrackingInv, TrackingUi, TrackingBusy, TrackingTruth
  <1>6. PapersInv => PapersInv'
    BY <1>1, <1>2, <1>3 DEF PapersInv, PapersUi, PapersDb, PapersOne, PapersDeleting, PapersUsed,
       PapersAnswers, PapersLoads, PapersShown
  <1>7. MessagesInv => MessagesInv'
    BY <1>1, <1>3 DEF MessagesInv, MessagesUi, MessagesBusy, MessagesTruth
  <1>8. PhotosInv => PhotosInv'
    <2>1. PhotosTyped /\ PhotosBusy /\ PhotosLoaded => (PhotosTyped /\ PhotosBusy /\ PhotosLoaded)'
      BY <1>1 DEF PhotosTyped, PhotosUi, PhotosBusy, PhotosLoaded, SameRows
    <2>2. PhotosExact => PhotosExact'
      BY <1>1 DEF PhotosExact, PhotosChange, SameRows
    <2>3. QED
      BY <1>3, <2>1, <2>2 DEF PhotosInv
  <1>9. VehicleInv /\ VehicleWaits => (VehicleInv /\ VehicleWaits)'
    BY <1>1, VehicleAlone DEF VehicleInv, VehicleWaits
  <1>10. EditorInv => EditorInv'
    BY <1>1, <1>3 DEF EditorInv, Alone
  <1>11. InvoiceInv /\ InvoiceWaits => (InvoiceInv /\ InvoiceWaits)'
    <2>1. OneLoad => OneLoad'
      BY <1>1 DEF OneLoad
    <2>2. InvoiceInv => InvoiceInv'
      BY <1>1, <1>3, <2>1 DEF InvoiceInv
    <2>3. InvoiceWaits => InvoiceWaits'
      BY <1>1 DEF InvoiceWaits, Alone
    <2>4. QED
      BY <2>2, <2>3
  <1>12. QED
    BY <1>4, <1>5, <1>6, <1>7, <1>8, <1>9, <1>10, <1>11

LEMMA PagesAtFirst ==
    ASSUME WebConstants, PagesConstants, Init
    PROVE  PagesInv
  <1>1. /\ mounted \in Pages
        /\ mounted = "customers" => customersPage!Init
        /\ mounted = "shipments" => shipmentsPage!Init
        /\ mounted = "documents" => documentsPage!Init
        /\ mounted = "users" => usersPage!Init
        /\ mounted = "vehicles" => vehiclesPage!Init
        /\ mounted = "inspections" => inspectionsPage!Init
        /\ mounted = "invoices" => invoicesPage!Init
        /\ mounted = "shipment" => shipmentScreen!Init
        /\ mounted = "tracking" => trackingPanel!Init
        /\ mounted = "papers" => documentsPanel!Init
        /\ mounted = "messages" => messagesPanel!Init
        /\ mounted = "vehicle" => vehicleScreen!Init
        /\ mounted = "edit" => shipmentEdit!Init
        /\ mounted = "invoice" => invoiceScreen!Init
        /\ mounted = "review" => inspectionReview!Init
        /\ mounted = "inspection" => inspectionForm!Init
        /\ mounted = "damage" => damageReports!Init
        /\ mounted = "card" => damageCard!Init
        /\ mounted = "photos" => photosPanel!Init
    BY DEF Init, Pages, PagesConstants
  <1>2. InvoiceBounds /\ ShipmentStatuses \subseteq ScreenStatus
    BY DEF InvoiceBounds, PagesConstants, ScreenStatus
  <1>3. /\ mounted = "customers" => CustomersInv
        /\ mounted = "shipments" => ShipmentsInv
        /\ mounted = "documents" => DocumentsInv
        /\ mounted = "users" => UsersInv
        /\ mounted = "vehicles" => VehiclesInv
        /\ mounted = "inspections" => InspectionsInv
        /\ mounted = "invoices" => InvoicesInv
    BY <1>1, CustomersInit, ShipmentsInit, DocumentsInit, UsersInit, VehiclesInit,
       InspectionsInit, InvoicesInit
  <1>4. /\ mounted = "shipment" => ScreenShows
        /\ mounted = "tracking" => TrackingInv
        /\ mounted = "papers" => PapersInv
        /\ mounted = "messages" => MessagesInv
        /\ mounted = "photos" => PhotosInv
    BY <1>1, <1>2, ScreenShowsInit, TrackingInit, PapersInit, MessagesInit, PhotosInit
  <1>5. /\ mounted = "vehicle" => VehicleInv /\ VehicleWaits
        /\ mounted = "edit" => EditorInv
        /\ mounted = "invoice" => InvoiceInv /\ InvoiceWaits
    BY <1>1, <1>2, VehicleInit, VehicleWaitsInit, EditorInit, InvoiceInit, InvoiceWaitsInit
  <1>6. /\ mounted = "review" => reviewPage!ScreenInv
        /\ mounted = "inspection" => formPage!ScreenInv
        /\ mounted = "damage" => damagePage!ScreenInv
        /\ mounted = "card" => cardPage!ScreenInv
    BY <1>1, ReviewedPage, FormOfPage, DamagedPage, CardedPage
  <1>7. QED
    BY <1>1, <1>3, <1>4, <1>5, <1>6 DEF PagesInv

LEMMA PagesKept ==
    ASSUME WebConstants, PagesConstants, PagesInv, [Next]_<<web, mounted>>
    PROVE  PagesInv'
  <1>1. InvoiceBounds
    BY DEF InvoiceBounds, PagesConstants
  <1>2. CASE UNCHANGED <<web, mounted>>
    <2>1. UNCHANGED <<db, ui, calls>> /\ mounted' = mounted
      BY <1>2 DEF web
    <2>2. QED
      BY <2>1, ListsStay, PanelsStay, ReviewedPage, FormOfPage, DamagedPage, CardedPage
      DEF PagesInv
  <1>3. CASE Next
    <2>1. mounted' = mounted
      BY <1>3 DEF Next
    <2>2. /\ mounted = "customers" => CustomersInv'
          /\ mounted = "shipments" => ShipmentsInv'
          /\ mounted = "documents" => DocumentsInv'
          /\ mounted = "users" => UsersInv'
          /\ mounted = "vehicles" => VehiclesInv'
          /\ mounted = "inspections" => InspectionsInv'
          /\ mounted = "invoices" => InvoicesInv'
      <3>1. /\ mounted = "customers" => customersPage!Next
            /\ mounted = "shipments" => shipmentsPage!Next
            /\ mounted = "documents" => documentsPage!Next
            /\ mounted = "users" => usersPage!Next
            /\ mounted = "vehicles" => vehiclesPage!Next
            /\ mounted = "inspections" => inspectionsPage!Next
            /\ mounted = "invoices" => invoicesPage!Next
        BY <1>3 DEF Next
      <3>2. QED
        BY <3>1, CustomersNext, ShipmentsNext, DocumentsNext, UsersNext, VehiclesNext,
           InspectionsNext, InvoicesNext DEF PagesInv
    <2>3. /\ mounted = "shipment" => ScreenShows'
          /\ mounted = "tracking" => TrackingInv'
          /\ mounted = "papers" => PapersInv'
          /\ mounted = "messages" => MessagesInv'
          /\ mounted = "photos" => PhotosInv'
      <3>1. /\ mounted = "shipment" => shipmentScreen!Next
            /\ mounted = "tracking" => trackingPanel!Next
            /\ mounted = "papers" => documentsPanel!Next
            /\ mounted = "messages" => messagesPanel!Next
            /\ mounted = "photos" => photosPanel!Next
        BY <1>3 DEF Next
      <3>2. QED
        BY <3>1, ScreenShowsNext, TrackingNext, PapersNext, MessagesNext, PhotosNext DEF PagesInv
    <2>4. /\ mounted = "vehicle" => (VehicleInv /\ VehicleWaits)'
          /\ mounted = "edit" => EditorInv'
          /\ mounted = "invoice" => (InvoiceInv /\ InvoiceWaits)'
      <3>1. /\ mounted = "vehicle" => vehicleScreen!Next
            /\ mounted = "edit" => shipmentEdit!Next
            /\ mounted = "invoice" => invoiceScreen!Next
        BY <1>3 DEF Next
      <3>2. QED
        BY <1>1, <3>1, VehicleNext, VehicleWaitsNext, EditorNext, InvoiceNext, InvoiceWaitsNext
        DEF PagesInv
    <2>5. /\ mounted = "review" => reviewPage!ScreenInv'
          /\ mounted = "inspection" => formPage!ScreenInv'
          /\ mounted = "damage" => damagePage!ScreenInv'
          /\ mounted = "card" => cardPage!ScreenInv'
      <3>1. /\ mounted = "review" => inspectionReview!Next
            /\ mounted = "inspection" => inspectionForm!Next
            /\ mounted = "damage" => damageReports!Next
            /\ mounted = "card" => damageCard!Next
        BY <1>3 DEF Next
      <3>2. QED
        BY <3>1, ReviewedPage, FormOfPage, DamagedPage, CardedPage DEF PagesInv
    <2>6. QED
      BY <2>1, <2>2, <2>3, <2>4, <2>5 DEF PagesInv
  <1>4. QED
    BY <1>2, <1>3

LEMMA PagesTell ==
    ASSUME WebConstants, PagesConstants, PagesInv
    PROVE  TypeOK /\ BusyWhileUnderWay /\ FormsKeepTheirRow /\ RefusedOnlyWhenStale
           /\ PagesTellTheTruth
  <1>1. /\ mounted = "customers" => customersPage!TypeOK /\ customersPage!BusyWhileUnderWay
        /\ mounted = "shipments" => shipmentsPage!TypeOK /\ shipmentsPage!BusyWhileUnderWay
        /\ mounted = "documents" => documentsPage!TypeOK /\ documentsPage!BusyWhileUnderWay
        /\ mounted = "users" => usersPage!TypeOK /\ usersPage!BusyWhileUnderWay
    BY CustomersHold, ShipmentsHold, DocumentsHold, UsersHold DEF PagesInv
  <1>2. /\ mounted = "vehicles" => vehiclesPage!TypeOK /\ vehiclesPage!BusyWhileUnderWay
        /\ mounted = "inspections" => inspectionsPage!TypeOK /\ inspectionsPage!BusyWhileUnderWay
        /\ mounted = "invoices" => invoicesPage!TypeOK /\ invoicesPage!BusyWhileUnderWay
    BY VehiclesHold, InspectionsHold, InvoicesHold DEF PagesInv
  <1>3. /\ mounted = "shipment" => shipmentScreen!TypeOK /\ shipmentScreen!BusyWhileUnderWay
        /\ mounted = "tracking" => trackingPanel!TypeOK /\ trackingPanel!BusyWhileUnderWay
        /\ mounted = "papers" => documentsPanel!TypeOK /\ documentsPanel!BusyWhileUnderWay
        /\ mounted = "messages" => messagesPanel!TypeOK /\ messagesPanel!BusyWhileUnderWay
    BY ScreenHolds, TrackingHolds, PapersHold, MessagesHold DEF PagesInv
  <1>4. /\ mounted = "vehicle" => vehicleScreen!TypeOK /\ vehicleScreen!BusyWhileUnderWay
        /\ mounted = "edit" => shipmentEdit!TypeOK /\ shipmentEdit!BusyWhileUnderWay
        /\ mounted = "invoice" => invoiceScreen!TypeOK /\ invoiceScreen!BusyWhileUnderWay
        /\ mounted = "photos" => photosPanel!TypeOK /\ photosPanel!BusyWhileUnderWay
    BY VehicleHolds, EditorHold, InvoiceHolds, PhotosHold DEF PagesInv
  <1>5. /\ mounted = "review" => inspectionReview!TypeOK /\ inspectionReview!BusyWhileUnderWay
        /\ mounted = "inspection" => inspectionForm!TypeOK /\ inspectionForm!BusyWhileUnderWay
        /\ mounted = "damage" => damageReports!TypeOK /\ damageReports!BusyWhileUnderWay
        /\ mounted = "card" => damageCard!TypeOK /\ damageCard!BusyWhileUnderWay
    BY ReviewedPage, FormOfPage, DamagedPage, CardedPage DEF PagesInv
  <1>6. mounted \in Pages
    BY DEF PagesInv
  <1>7. TypeOK
    <2>1. CASE mounted = "customers"
      BY <1>1, <2>1 DEF TypeOK
    <2>2. CASE mounted = "shipments"
      BY <1>1, <2>2 DEF TypeOK
    <2>3. CASE mounted = "documents"
      BY <1>1, <2>3 DEF TypeOK
    <2>4. CASE mounted = "users"
      BY <1>1, <2>4 DEF TypeOK
    <2>5. CASE mounted = "vehicles"
      BY <1>2, <2>5 DEF TypeOK
    <2>6. CASE mounted = "inspections"
      BY <1>2, <2>6 DEF TypeOK
    <2>7. CASE mounted = "invoices"
      BY <1>2, <2>7 DEF TypeOK
    <2>8. CASE mounted = "shipment"
      BY <1>3, <2>8 DEF TypeOK
    <2>9. CASE mounted = "tracking"
      BY <1>3, <2>9 DEF TypeOK
    <2>10. CASE mounted = "papers"
      BY <1>3, <2>10 DEF TypeOK
    <2>11. CASE mounted = "messages"
      BY <1>3, <2>11 DEF TypeOK
    <2>12. CASE mounted = "vehicle"
      BY <1>4, <2>12 DEF TypeOK
    <2>13. CASE mounted = "edit"
      BY <1>4, <2>13 DEF TypeOK
    <2>14. CASE mounted = "invoice"
      BY <1>4, <2>14 DEF TypeOK
    <2>15. CASE mounted = "photos"
      BY <1>4, <2>15 DEF TypeOK
    <2>16. CASE mounted = "review"
      BY <1>5, <2>16 DEF TypeOK
    <2>17. CASE mounted = "inspection"
      BY <1>5, <2>17 DEF TypeOK
    <2>18. CASE mounted = "damage"
      BY <1>5, <2>18 DEF TypeOK
    <2>19. CASE mounted = "card"
      BY <1>5, <2>19 DEF TypeOK
    <2>20. QED
      BY <1>6, <2>1, <2>2, <2>3, <2>4, <2>5, <2>6, <2>7, <2>8, <2>9, <2>10,
         <2>11, <2>12, <2>13, <2>14, <2>15, <2>16, <2>17, <2>18, <2>19 DEF Pages
  <1>8. BusyWhileUnderWay
    <2>1. CASE mounted = "customers"
      BY <1>1, <2>1 DEF BusyWhileUnderWay
    <2>2. CASE mounted = "shipments"
      BY <1>1, <2>2 DEF BusyWhileUnderWay
    <2>3. CASE mounted = "documents"
      BY <1>1, <2>3 DEF BusyWhileUnderWay
    <2>4. CASE mounted = "users"
      BY <1>1, <2>4 DEF BusyWhileUnderWay
    <2>5. CASE mounted = "vehicles"
      BY <1>2, <2>5 DEF BusyWhileUnderWay
    <2>6. CASE mounted = "inspections"
      BY <1>2, <2>6 DEF BusyWhileUnderWay
    <2>7. CASE mounted = "invoices"
      BY <1>2, <2>7 DEF BusyWhileUnderWay
    <2>8. CASE mounted = "shipment"
      BY <1>3, <2>8 DEF BusyWhileUnderWay
    <2>9. CASE mounted = "tracking"
      BY <1>3, <2>9 DEF BusyWhileUnderWay
    <2>10. CASE mounted = "papers"
      BY <1>3, <2>10 DEF BusyWhileUnderWay
    <2>11. CASE mounted = "messages"
      BY <1>3, <2>11 DEF BusyWhileUnderWay
    <2>12. CASE mounted = "vehicle"
      BY <1>4, <2>12 DEF BusyWhileUnderWay
    <2>13. CASE mounted = "edit"
      BY <1>4, <2>13 DEF BusyWhileUnderWay
    <2>14. CASE mounted = "invoice"
      BY <1>4, <2>14 DEF BusyWhileUnderWay
    <2>15. CASE mounted = "photos"
      BY <1>4, <2>15 DEF BusyWhileUnderWay
    <2>16. CASE mounted = "review"
      BY <1>5, <2>16 DEF BusyWhileUnderWay
    <2>17. CASE mounted = "inspection"
      BY <1>5, <2>17 DEF BusyWhileUnderWay
    <2>18. CASE mounted = "damage"
      BY <1>5, <2>18 DEF BusyWhileUnderWay
    <2>19. CASE mounted = "card"
      BY <1>5, <2>19 DEF BusyWhileUnderWay
    <2>20. QED
      BY <1>6, <2>1, <2>2, <2>3, <2>4, <2>5, <2>6, <2>7, <2>8, <2>9, <2>10,
         <2>11, <2>12, <2>13, <2>14, <2>15, <2>16, <2>17, <2>18, <2>19 DEF Pages
  <1>9. FormsKeepTheirRow
    BY CustomersHold, ShipmentsHold, UsersHold DEF PagesInv, FormsKeepTheirRow
  <1>10. RefusedOnlyWhenStale
    BY ScreenRefusal, VehicleRefusal, InvoiceRefusal, ReviewedPage, FormOfPage
    DEF PagesInv, ScreenShows, RefusedOnlyWhenStale
  <1>11. PagesTellTheTruth
    BY VehiclesHold, InspectionsHold, ScreenHolds, TrackingHolds, PapersHold, MessagesHold,
       ReviewedPage, FormOfPage, DamagedPage, CardedPage, PhotosHold
    DEF PagesInv, PagesTellTheTruth
  <1>12. QED
    BY <1>7, <1>8, <1>9, <1>10, <1>11

LEMMA PagesAlways == Spec => []PagesInv
  <1>1. Init => PagesInv
    BY PagesAtFirst, WebConstants, PagesConstants
  <1>2. PagesInv /\ [Next]_<<web, mounted>> => PagesInv'
    BY PagesKept, WebConstants, PagesConstants
  <1>3. QED
    BY <1>1, <1>2, PTL DEF Spec

\* The state of every page stays what its components declare, and what the API
\* keeps for it what the services store, whatever the page has under way.
THEOREM PagesTypedAlways == Spec => []TypeOK
  <1>1. PagesInv => TypeOK
    BY PagesTell, WebConstants, PagesConstants
  <1>2. QED
    BY <1>1, PagesAlways, PTL

\* A spinner or a disabled button of a page waits for a call that is under way: no
\* order of answers, no failure and no panel that is closed in between leaves one
\* behind that nothing will ever clear.
THEOREM BusyWhileUnderWayAlways == Spec => []BusyWhileUnderWay
  <1>1. PagesInv => BusyWhileUnderWay
    BY PagesTell, WebConstants, PagesConstants
  <1>2. QED
    BY <1>1, PagesAlways, PTL

\* The form of the customers and that of the shipments hold the row that is being
\* edited, the latter but for a number announced for a new shipment that arrives
\* late and takes the place of the edited one's; the dialog that asks before a
\* deletion names the row that is being deleted, and a refused account is reported
\* in the dialog it was entered in, whatever the operator does while saves,
\* deletions and reloads are under way.
THEOREM FormsKeepTheirRowAlways == Spec => []FormsKeepTheirRow
  <1>1. PagesInv => FormsKeepTheirRow
    BY PagesTell, WebConstants, PagesConstants
  <1>2. QED
    BY <1>1, PagesAlways, PTL

\* A status, a decision, a vehicle or a booking that a page offers is refused by
\* the API only when somebody else has changed the record since it was loaded, or
\* for one of the reasons the property of the page names: nothing the operator
\* does while calls are under way makes a page send what it did not offer.
THEOREM RefusedOnlyWhenStaleAlways == Spec => []RefusedOnlyWhenStale
  <1>1. PagesInv => RefusedOnlyWhenStale
    BY PagesTell, WebConstants, PagesConstants
  <1>2. QED
    BY <1>1, PagesAlways, PTL

\* A list that has settled shows what its filters ask for, and a page shows what its
\* operator did once everything is answered, unless the last load failed, answers
\* came in another order than they were asked for or, where the property of the page
\* says so, other changes overlapped; and no milestone but that of the customs is
\* shown as reached that the shipment still has before it.
THEOREM PagesTellTheTruthAlways == Spec => []PagesTellTheTruth
  <1>1. PagesInv => PagesTellTheTruth
    BY PagesTell, WebConstants, PagesConstants
  <1>2. QED
    BY <1>1, PagesAlways, PTL

=============================================================================
