----------------------- MODULE InspectionScreenProofs -----------------------
(***************************************************************************)
(* Theorems about the page of one inspection, for every choice of the      *)
(* parts that are used, of the parts others change and of the reports.     *)
(***************************************************************************)
EXTENDS InspectionScreen, Sequences, WellFoundedInduction, TLAPS

-----------------------------------------------------------------------------
(* Calls *)

\* Every slot has a call or none.
CallsOK == calls = [i \in Slots |-> calls[i]]

\* One slot gets the call c, and the others keep theirs.
Puts(k, c) ==
    /\ k \in Slots /\ CallsOK'
    /\ calls'[k] = c
    /\ \A i \in Slots : i # k => calls'[i] = calls[i]

\* A set of slots has a first one.
LEMMA FirstSlot ==
    ASSUME NEW S, S \subseteq Slots, S # {}
    PROVE  \E n \in S : \A m \in S : n <= m
  <1> DEFINE R == OpToRel(<, Nat)
  <1>1. IsWellFoundedOn(R, Nat)
    BY NatLessThanWellFounded, Zenon
  <1>2. \A x, y \in Nat : <<y, x>> \in R <=> y < x
    BY DEF OpToRel
  <1> HIDE DEF R
  <1>3. S \subseteq Nat
    BY DEF Slots
  <1>4. PICK n \in S : \A m \in S : ~ (<<m, n>> \in R)
    BY <1>1, <1>3, WFMin
  <1>5. \A m \in S : n <= m
    <2>1. SUFFICES ASSUME NEW m \in S PROVE n <= m
      OBVIOUS
    <2>2. n \in Nat /\ m \in Nat /\ ~ (m < n)
      BY <1>2, <1>3, <1>4
    <2>3. QED
      BY <2>2
  <1>6. QED
    BY <1>5

LEMMA FirstFree ==
    ASSUME NEW cs, \E i \in Slots : cs[i] = NoCall
    PROVE  /\ firstFree(cs) \in Slots /\ cs[firstFree(cs)] = NoCall
           /\ \A j \in Slots : cs[j] = NoCall => firstFree(cs) <= j
  <1> DEFINE free == {i \in Slots : cs[i] = NoCall}
  <1>1. PICK n \in free : \A m \in free : n <= m
    BY FirstSlot
  <1>2. QED
    BY <1>1 DEF firstFree

\* apiFetch finds a slot in which nothing is under way.
LEMMA CallIsPlaced ==
    ASSUME CallsOK, NEW op, NEW arg, Call(op, arg)
    PROVE  \E k \in Slots : calls[k] = NoCall /\ k = freeSlot /\ Puts(k, Sent(op, arg))
  <1>1. \E i \in Slots : calls[i] = NoCall
    BY DEF Call, mayCall, underWay
  <1>2. PICK k \in Slots : k = firstFree(calls) /\ calls[k] = NoCall
    BY <1>1, FirstFree
  <1>3. calls' = [calls EXCEPT ![k] = Sent(op, arg)]
    BY <1>2 DEF Call, placed
  <1>4. Puts(k, Sent(op, arg))
    BY <1>2, <1>3 DEF Puts, CallsOK
  <1>5. QED
    BY <1>2, <1>4 DEF freeSlot

\* A page that is opened with a call has no other under way.
LEMMA FirstCall ==
    ASSUME WebConstants, NEW c
    PROVE  1 \in Slots /\ placed(NoCalls, c) = [i \in Slots |-> IF i = 1 THEN c ELSE NoCall]
  <1>1. 1 \in Slots /\ \A i \in Slots : NoCalls[i] = NoCall
    BY DEF WebConstants, Slots, NoCalls
  <1>2. firstFree(NoCalls) \in Slots /\ firstFree(NoCalls) <= 1
    BY <1>1, FirstFree
  <1>3. firstFree(NoCalls) = 1
    BY <1>2 DEF Slots
  <1>4. QED
    BY <1>1, <1>3 DEF placed, NoCalls

LEMMA AnswerIsTaken ==
    ASSUME CallsOK, NEW i \in Slots
    PROVE  /\ Finish(i) => Puts(i, NoCall)
           /\ \A op, arg : Continue(i, op, arg) => Puts(i, Sent(op, arg))
           /\ \A data : Succeed(i, data) => Puts(i, Answer(calls[i], TRUE, data))
           /\ Fail(i) => Puts(i, Answer(calls[i], FALSE, None))
  BY DEF Finish, Continue, Succeed, Fail, Puts, CallsOK

\* What is under way after a step that changes one slot.
LEMMA CallsAfter ==
    ASSUME NEW k, NEW c, Puts(k, c)
    PROVE  /\ underWay' = (underWay \ {k}) \cup (IF c = NoCall THEN {} ELSE {k})
           /\ \A ops : callsOf(ops)' = (callsOf(ops) \ {k})
                                       \cup (IF c # NoCall /\ c.op \in ops THEN {k} ELSE {})
           /\ \A i : i # k => /\ i \in underWay' <=> i \in underWay
                              /\ i \in underWay => calls'[i] = calls[i]
  BY DEF Puts, underWay, callsOf

\* A call is something else than none, before and after it is served.
LEMMA CallIsSome ==
    /\ \A op, arg : /\ Sent(op, arg) # NoCall /\ Sent(op, arg).step = "sent"
                    /\ Sent(op, arg).op = op /\ Sent(op, arg).arg = arg
    /\ \A c, ok, data : /\ Answer(c, ok, data) # NoCall /\ Answer(c, ok, data).step = "answered"
                        /\ Answer(c, ok, data).op = c.op /\ Answer(c, ok, data).arg = c.arg
                        /\ Answer(c, ok, data).ok = ok /\ Answer(c, ok, data).data = data
  <1>1. \A op, arg : Sent(op, arg).step = "sent"
    BY DEF Sent
  <1>2. \A c, ok, data : Answer(c, ok, data).step = "answered"
    BY DEF Answer
  <1>3. NoCall.step = "none"
    BY DEF NoCall
  <1>4. QED
    BY <1>1, <1>2, <1>3 DEF Sent, Answer

\* A step that leaves the calls as they are.
LEMMA CallsStay ==
    ASSUME calls' = calls
    PROVE  underWay' = underWay /\ \A ops : callsOf(ops)' = callsOf(ops)
  BY DEF underWay, callsOf

\* What is under way when a page is opened.
LEMMA OpenedWith ==
    ASSUME WebConstants, NEW c, c # NoCall
    PROVE  /\ calls = placed(NoCalls, c) =>
                  /\ CallsOK /\ underWay = {1} /\ 1 \in Slots /\ calls[1] = c
                  /\ \A ops : callsOf(ops) = IF c.op \in ops THEN {1} ELSE {}
           /\ calls' = placed(NoCalls, c) =>
                  /\ CallsOK' /\ underWay' = {1} /\ 1 \in Slots /\ calls'[1] = c
                  /\ \A ops : callsOf(ops)' = IF c.op \in ops THEN {1} ELSE {}
  BY FirstCall DEF CallsOK, underWay, callsOf

\* The four things that happen to a call: it is sent, it is served, its answer is
\* taken, or the handler that takes the answer goes on with another call.
LEMMA CallSent ==
    ASSUME CallsOK, NEW op, NEW arg, Call(op, arg)
    PROVE  \E k \in Slots :
             /\ k = freeSlot /\ k \notin underWay /\ underWay' = underWay \cup {k}
             /\ CallsOK' /\ calls'[k] = Sent(op, arg)
             /\ calls'[k].step = "sent" /\ calls'[k].op = op /\ calls'[k].arg = arg
             /\ \A i \in underWay : i # k /\ calls'[i] = calls[i]
             /\ \A ops : callsOf(ops)' = IF op \in ops THEN callsOf(ops) \cup {k} ELSE callsOf(ops)
  <1>1. PICK k \in Slots : calls[k] = NoCall /\ k = freeSlot /\ Puts(k, Sent(op, arg))
    BY CallIsPlaced
  <1>2. k \notin underWay
    BY <1>1 DEF underWay
  <1>3. underWay' = underWay \cup {k}
    BY <1>1, CallsAfter, CallIsSome
  <1>4. \A i \in underWay : i # k /\ calls'[i] = calls[i]
    BY <1>1, <1>2, CallsAfter
  <1>5. /\ CallsOK' /\ calls'[k] = Sent(op, arg)
        /\ calls'[k].step = "sent" /\ calls'[k].op = op /\ calls'[k].arg = arg
    BY <1>1, CallIsSome DEF Puts
  <1>6. ASSUME NEW ops
        PROVE  callsOf(ops)' = IF op \in ops THEN callsOf(ops) \cup {k} ELSE callsOf(ops)
    BY <1>2, <1>3, <1>4, <1>5 DEF callsOf
  <1>7. QED
    BY <1>1, <1>2, <1>3, <1>4, <1>5, <1>6

LEMMA CallTaken ==
    ASSUME CallsOK, NEW i \in underWay, Finish(i)
    PROVE  /\ CallsOK' /\ underWay' = underWay \ {i}
           /\ \A j \in underWay' : calls'[j] = calls[j]
           /\ \A ops : callsOf(ops)' = callsOf(ops) \ {i}
  <1>1. i \in Slots /\ Puts(i, NoCall)
    BY AnswerIsTaken DEF underWay
  <1>2. QED
    BY <1>1, CallsAfter DEF Puts

LEMMA CallServed ==
    ASSUME CallsOK, NEW i \in underWay, NEW ok, NEW data,
           \/ ok = TRUE /\ Succeed(i, data)
           \/ ok = FALSE /\ data = None /\ Fail(i)
    PROVE  /\ CallsOK' /\ underWay' = underWay
           /\ calls'[i].step = "answered" /\ calls'[i].op = calls[i].op
           /\ calls'[i].arg = calls[i].arg /\ calls'[i].ok = ok /\ calls'[i].data = data
           /\ \A j \in underWay : j # i => calls'[j] = calls[j]
           /\ \A ops : callsOf(ops)' = callsOf(ops)
  <1>1. i \in Slots /\ Puts(i, Answer(calls[i], ok, data))
    BY AnswerIsTaken DEF underWay
  <1>2. underWay' = underWay
    <2>1. Answer(calls[i], ok, data) # NoCall
      BY CallIsSome
    <2>2. QED
      BY <1>1, <2>1 DEF Puts, underWay
  <1>3. /\ CallsOK' /\ calls'[i].step = "answered" /\ calls'[i].op = calls[i].op
        /\ calls'[i].arg = calls[i].arg /\ calls'[i].ok = ok /\ calls'[i].data = data
    BY <1>1, CallIsSome DEF Puts
  <1>4. \A j \in underWay : j # i => calls'[j] = calls[j]
    BY <1>1, CallsAfter
  <1>5. \A ops : callsOf(ops)' = callsOf(ops)
    BY <1>2, <1>3, <1>4 DEF callsOf
  <1>6. QED
    BY <1>2, <1>3, <1>4, <1>5

\* The calls to one operation, and what the four steps do to them.
callsTo(op) == {i \in underWay : calls[i].op = op}

LEMMA CallsTo ==
    /\ \A op : callsOf({op}) = callsTo(op)
    /\ \A op, i : i \in callsTo(op) <=> i \in underWay /\ calls[i].op = op
    /\ \A op, i : i \in callsTo(op)' <=> i \in underWay' /\ calls'[i].op = op
  BY DEF callsOf, callsTo

LEMMA SentTo ==
    ASSUME CallsOK, NEW op, NEW arg, Call(op, arg)
    PROVE  \E k \in Slots :
             /\ k \notin underWay /\ underWay' = underWay \cup {k}
             /\ CallsOK' /\ calls'[k].step = "sent" /\ calls'[k].op = op /\ calls'[k].arg = arg
             /\ \A i \in underWay : i # k /\ calls'[i] = calls[i]
             /\ callsTo(op)' = callsTo(op) \cup {k} /\ k \notin callsTo(op)
             /\ \A x : x # op => callsTo(x)' = callsTo(x)
             /\ calls'[k] = Sent(op, arg)
             /\ \A ops : callsOf(ops)' = IF op \in ops THEN callsOf(ops) \cup {k} ELSE callsOf(ops)
  <1>1. PICK k \in Slots :
             /\ k \notin underWay /\ underWay' = underWay \cup {k}
             /\ CallsOK' /\ calls'[k] = Sent(op, arg)
             /\ calls'[k].step = "sent" /\ calls'[k].op = op /\ calls'[k].arg = arg
             /\ \A i \in underWay : i # k /\ calls'[i] = calls[i]
             /\ \A ops : callsOf(ops)' = IF op \in ops THEN callsOf(ops) \cup {k} ELSE callsOf(ops)
    BY CallSent
  <1>2. callsTo(op)' = callsTo(op) \cup {k} /\ k \notin callsTo(op)
    BY <1>1 DEF callsTo
  <1>3. ASSUME NEW x, x # op PROVE callsTo(x)' = callsTo(x)
    BY <1>1, <1>3 DEF callsTo
  <1>4. QED
    BY <1>1, <1>2, <1>3

LEMMA TakenFrom ==
    ASSUME CallsOK, NEW i \in underWay, Finish(i), NEW op, calls[i].op = op
    PROVE  /\ CallsOK' /\ underWay' = underWay \ {i}
           /\ \A j \in underWay' : calls'[j] = calls[j]
           /\ callsTo(op)' = callsTo(op) \ {i} /\ i \in callsTo(op)
           /\ \A x : x # op => callsTo(x)' = callsTo(x) /\ i \notin callsTo(x)
  <1>1. /\ CallsOK' /\ underWay' = underWay \ {i}
        /\ \A j \in underWay' : calls'[j] = calls[j]
    BY CallTaken
  <1>2. callsTo(op)' = callsTo(op) \ {i} /\ i \in callsTo(op)
    BY <1>1 DEF callsTo
  <1>3. ASSUME NEW x, x # op PROVE callsTo(x)' = callsTo(x) /\ i \notin callsTo(x)
    BY <1>1, <1>3 DEF callsTo
  <1>4. QED
    BY <1>1, <1>2, <1>3

LEMMA ServedTo ==
    ASSUME CallsOK, NEW i \in underWay, NEW ok, NEW data,
           \/ ok = TRUE /\ Succeed(i, data)
           \/ ok = FALSE /\ data = None /\ Fail(i)
    PROVE  /\ CallsOK' /\ underWay' = underWay
           /\ calls'[i].step = "answered" /\ calls'[i].op = calls[i].op
           /\ calls'[i].arg = calls[i].arg /\ calls'[i].ok = ok /\ calls'[i].data = data
           /\ \A j \in underWay : calls'[j].op = calls[j].op /\ calls'[j].arg = calls[j].arg
           /\ \A j \in underWay : j # i => calls'[j] = calls[j]
           /\ \A x : callsTo(x)' = callsTo(x)
  <1>1. /\ CallsOK' /\ underWay' = underWay
        /\ calls'[i].step = "answered" /\ calls'[i].op = calls[i].op
        /\ calls'[i].arg = calls[i].arg /\ calls'[i].ok = ok /\ calls'[i].data = data
        /\ \A j \in underWay : j # i => calls'[j] = calls[j]
    BY CallServed
  <1>2. \A j \in underWay : calls'[j].op = calls[j].op /\ calls'[j].arg = calls[j].arg
    BY <1>1
  <1>3. ASSUME NEW x PROVE callsTo(x)' = callsTo(x)
    BY <1>1, <1>2 DEF callsTo
  <1>4. QED
    BY <1>1, <1>2, <1>3

LEMMA StayTo ==
    ASSUME calls' = calls
    PROVE  /\ underWay' = underWay /\ (CallsOK => CallsOK')
           /\ \A x : callsTo(x)' = callsTo(x)
  BY DEF underWay, callsTo, CallsOK

LEMMA OpenedTo ==
    ASSUME WebConstants, NEW c, c # NoCall, calls = placed(NoCalls, c)
    PROVE  /\ CallsOK /\ underWay = {1} /\ 1 \in Slots /\ calls[1] = c
           /\ callsTo(c.op) = {1} /\ \A x : x # c.op => callsTo(x) = {}
  <1>1. CallsOK /\ underWay = {1} /\ 1 \in Slots /\ calls[1] = c
    BY OpenedWith
  <1>2. QED
    BY <1>1 DEF callsTo

-----------------------------------------------------------------------------
(* What holds in every state of the page *)

Ui == [inspection: Inspection \cup {None}, isLoading: BOOLEAN, error: BOOLEAN,
       selectedStatus: SelectedStatus \cup {None}, savingStatus: BOOLEAN,
       selectedAction: SelectedAction \cup {None}, savingAction: BOOLEAN,
       draft: service!InspectionStatus \cup {None}, savingForm: BOOLEAN,
       isExpanded: BOOLEAN, reportForm: Reports \cup {New, None}, savingReport: BOOLEAN,
       removing: SUBSET Reports, isDeleting: BOOLEAN, isDownloadingPdf: BOOLEAN,
       orphans: SUBSET Slots, exact: BOOLEAN]

Ops == {"load", "status", "decide", "update", "report", "remove", "delete", "pdf"}

\* What is sent with a call, and what comes back.
CallTyped(c) ==
    /\ c.op \in Ops
    /\ c.op = "status" => c.arg \in SelectedStatus
    /\ c.op = "decide" => c.arg \in SelectedAction
    /\ c.op = "update" => c.arg \in service!InspectionStatus
    /\ c.op = "report" => c.arg \in [report: Reports \cup {New}, inspection: Inspection]
    /\ c.op = "remove" => c.arg \in [report: Reports, inspection: Inspection]
    /\ c.op \in {"load", "status", "decide", "update"} /\ c.step = "answered" /\ c.ok =>
           c.data \in Inspection
    /\ c.op = "report" /\ c.step = "answered" /\ c.ok => c.data \in Reports

Typed ==
    /\ db \in Inspection \cup {Gone} /\ ui \in Ui
    /\ \A i \in underWay : CallTyped(calls[i])

\* The six buttons that are disabled while their own call is under way.
Buttons(u) ==
    [load |-> u.isLoading, status |-> u.savingStatus, decide |-> u.savingAction,
     update |-> u.savingForm, delete |-> u.isDeleting, pdf |-> u.isDownloadingPdf]
ButtonOps == {"load", "status", "decide", "update", "delete", "pdf"}

OneEach ==
    \A op \in ButtonOps :
        /\ Buttons(ui)[op] <=> callsTo(op) # {}
        /\ \A i, j \in callsTo(op) : i = j

\* The call that belongs to the form of a report, or to a card, is no orphan.
OwnCalls ==
    /\ ui.orphans \subseteq callsTo("report") \cup callsTo("remove")
    /\ ui.savingReport => \E i \in callsTo("report") : i \notin ui.orphans
    /\ \A r \in ui.removing :
          \E i \in callsTo("remove") : i \notin ui.orphans /\ calls[i].arg.report = r

\* Until the inspection is there, nothing but to load it can be done.
Quiet ==
    ui.isLoading \/ ui.error =>
        /\ ~ui.isLoading \/ ~ui.error
        /\ ui.inspection = None /\ ui.selectedStatus = None /\ ui.selectedAction = None
        /\ ui.draft = None /\ ui.reportForm = None
        /\ \A i \in underWay : calls[i].op = "load"

\* What the API has made of the one change that is under way, or will make of it.
Outcome(i) ==
    LET c == calls[i]
    IN  IF c.step = "answered" /\ c.ok
        THEN /\ c.op \in {"status", "decide", "update"} => c.data = db
             /\ c.op = "report" => withReport(c.arg.inspection, c.data) = db
             /\ c.op = "remove" => withoutReport(c.arg.inspection, c.arg.report) = db
        ELSE /\ ui.inspection = db
             /\ c.op \in {"report", "remove"} /\ c.step = "sent" => c.arg.inspection = db

Own ==
    ui.exact /\ db # Gone =>
        /\ \A i, j \in callsOf(changes) : i = j
        /\ \A i \in callsOf(changes) : Outcome(i)
        /\ callsOf(changes) = {} /\ ~ui.isLoading /\ ~ui.error => ui.inspection = db
        /\ \A i \in callsTo("load") : calls[i].step = "answered" /\ calls[i].ok => calls[i].data = db

PageInv == CallsOK /\ Typed /\ OneEach /\ OwnCalls /\ Quiet /\ Own

LEMMA PageNames ==
    /\ \A i, op : i \in callsTo(op) <=> i \in underWay /\ calls[i].op = op
    /\ \A i : i \in callsOf(changes) <=> i \in underWay /\ calls[i].op \in changes
    /\ changes = {"status", "decide", "update", "report", "remove"}
    /\ \A op \in changes : op # "load"
  BY DEF callsTo, callsOf, changes

\* A step of the page that sends nothing and takes no answer.
LEMMA PageKeeps ==
    ASSUME PageInv, calls' = calls, db' = db, ui' \in Ui, Buttons(ui') = Buttons(ui),
           ui'.isLoading = ui.isLoading, ui'.error = ui.error, ~ui.isLoading, ~ui.error,
           ui'.inspection = ui.inspection, ui'.exact = ui.exact,
           ui'.orphans \subseteq callsTo("report") \cup callsTo("remove"),
           ui'.savingReport => ui.savingReport /\ ui'.orphans \cap callsTo("report") \subseteq ui.orphans,
           ui'.removing # {} =>
               ui'.removing \subseteq ui.removing /\ ui'.orphans \cap callsTo("remove") \subseteq ui.orphans
    PROVE  PageInv'
  <1>1. CallsOK /\ Typed /\ OneEach /\ OwnCalls /\ Quiet /\ Own
    BY DEF PageInv
  <1>2. /\ underWay' = underWay /\ CallsOK' /\ \A x : callsTo(x)' = callsTo(x)
        /\ \A ops : callsOf(ops)' = callsOf(ops)
    BY <1>1, StayTo, CallsStay
  <1>3. Typed'
    BY <1>1, <1>2 DEF Typed, CallTyped
  <1>4. OneEach'
    BY <1>1, <1>2 DEF OneEach
  <1>5. OwnCalls'
    <2>1. ui'.savingReport => \E i \in callsTo("report") : i \notin ui'.orphans
      BY <1>1 DEF OwnCalls
    <2>2. \A r \in ui'.removing :
             \E i \in callsTo("remove") : i \notin ui'.orphans /\ calls'[i].arg.report = r
      BY <1>1 DEF OwnCalls
    <2>3. QED
      BY <1>2, <2>1, <2>2 DEF OwnCalls
  <1>6. Quiet'
    BY DEF Quiet
  <1>7. Own'
    <2>1. \A i : Outcome(i) => Outcome(i)'
      BY DEF Outcome
    <2>2. QED
      BY <1>1, <1>2, <2>1 DEF Own, changes
  <1>8. QED
    BY <1>2, <1>3, <1>4, <1>5, <1>6, <1>7 DEF PageInv

\* A button that sends a call.
LEMMA PageSends ==
    ASSUME PageInv, NEW op \in Ops, NEW arg, Call(op, arg), db' = db, ui' \in Ui,
           \A x \in ButtonOps : Buttons(ui')[x] <=> Buttons(ui)[x] \/ x = op,
           op \in ButtonOps => ~Buttons(ui)[op],
           CallTyped(Sent(op, arg)),
           ui'.inspection = ui.inspection, ui'.orphans = ui.orphans,
           ui'.isLoading <=> ui.isLoading \/ op = "load",
           ui'.savingReport => ui.savingReport \/ op = "report",
           \A r \in ui'.removing : r \in ui.removing \/ (op = "remove" /\ arg.report = r),
           op \in changes => (ui'.exact => ui.exact /\ callsOf(changes) = {}),
           op \notin changes => ui'.exact = ui.exact,
           op \in {"report", "remove"} => arg.inspection = ui.inspection,
           op # "load" => ~ui.isLoading /\ ~ui.error /\ ~ui'.error,
           op = "load" =>
               /\ ui.error /\ ~ui'.error
               /\ ui'.selectedStatus = ui.selectedStatus /\ ui'.selectedAction = ui.selectedAction
               /\ ui'.draft = ui.draft /\ ui'.reportForm = ui.reportForm
    PROVE  PageInv'
  <1>1. CallsOK /\ Typed /\ OneEach /\ OwnCalls /\ Quiet /\ Own
    BY DEF PageInv
  <1>2. PICK k \in Slots :
             /\ k \notin underWay /\ underWay' = underWay \cup {k}
             /\ CallsOK' /\ calls'[k] = Sent(op, arg)
             /\ calls'[k].step = "sent" /\ calls'[k].op = op /\ calls'[k].arg = arg
             /\ \A i \in underWay : i # k /\ calls'[i] = calls[i]
             /\ callsTo(op)' = callsTo(op) \cup {k} /\ k \notin callsTo(op)
             /\ \A x : x # op => callsTo(x)' = callsTo(x)
             /\ \A ops : callsOf(ops)' = IF op \in ops THEN callsOf(ops) \cup {k} ELSE callsOf(ops)
    BY <1>1, SentTo
  <1>3. /\ \A x : \A i \in callsTo(x) : i # k /\ calls'[i] = calls[i]
        /\ \A i \in callsOf(changes) : i # k /\ calls'[i] = calls[i]
    BY <1>2, PageNames
  <1>4. Typed'
    BY <1>1, <1>2 DEF Typed
  <1>5. OneEach'
    <2>1. ASSUME NEW x \in ButtonOps
          PROVE  /\ Buttons(ui')[x] <=> callsTo(x)' # {}
                 /\ \A i, j \in callsTo(x)' : i = j
      <3>1. CASE x = op
        BY <1>1, <1>2, <3>1 DEF OneEach
      <3>2. CASE x # op
        BY <1>1, <1>2, <3>2 DEF OneEach
      <3>3. QED
        BY <3>1, <3>2
    <2>2. QED
      BY <2>1 DEF OneEach, ButtonOps
  <1>6. OwnCalls'
    <2>1. k \notin ui.orphans
      BY <1>1, <1>2, PageNames DEF OwnCalls
    <2>2. ui'.orphans \subseteq callsTo("report")' \cup callsTo("remove")'
      BY <1>1, <1>2 DEF OwnCalls
    <2>3. ui'.savingReport => \E i \in callsTo("report")' : i \notin ui'.orphans
      BY <1>1, <1>2, <2>1 DEF OwnCalls
    <2>4. ASSUME NEW r \in ui'.removing
          PROVE  \E i \in callsTo("remove")' : i \notin ui'.orphans /\ calls'[i].arg.report = r
      <3>1. CASE r \in ui.removing
        BY <1>1, <1>2, <1>3, <3>1 DEF OwnCalls
      <3>2. CASE op = "remove" /\ arg.report = r
        BY <1>2, <2>1, <3>2
      <3>3. QED
        BY <3>1, <3>2
    <2>5. QED
      BY <2>2, <2>3, <2>4 DEF OwnCalls
  <1>7. Quiet'
    BY <1>1, <1>2 DEF Quiet
  <1>8. Own'
    <2>1. SUFFICES ASSUME ui'.exact, db # Gone PROVE Own'
      BY DEF Own
    <2>2. ui.exact
      BY <2>1
    <2>3. CASE op \in changes
      <3>1. callsOf(changes)' = {k} /\ callsTo("load")' = callsTo("load") /\ ui.inspection = db
        BY <1>1, <1>2, <2>1, <2>2, <2>3, PageNames DEF Own
      <3>2. Outcome(k)'
        BY <1>2, <2>3, <3>1 DEF Outcome
      <3>3. QED
        BY <1>1, <1>3, <2>1, <2>2, <3>1, <3>2 DEF Own, changes
    <2>4. CASE op \notin changes
      <3>1. callsOf(changes)' = callsOf(changes)
        BY <1>2, <2>4
      <3>2. \A i \in callsOf(changes) : Outcome(i)'
        BY <1>1, <1>3, <2>1, <2>2 DEF Own, Outcome
      <3>3. callsOf(changes) = {} /\ ~ui'.isLoading /\ ~ui'.error => ui'.inspection = db
        BY <1>1, <2>1, <2>2 DEF Own
      <3>4. \A i \in callsTo("load")' :
               calls'[i].step = "answered" /\ calls'[i].ok => calls'[i].data = db
        <4>1. \A i \in callsTo("load")' : i = k \/ i \in callsTo("load")
          BY <1>2
        <4>2. QED
          BY <1>1, <1>2, <1>3, <2>1, <2>2, <4>1 DEF Own
      <3>5. QED
        BY <1>1, <2>1, <2>2, <3>1, <3>2, <3>3, <3>4 DEF Own, changes
    <2>5. QED
      BY <2>3, <2>4
  <1>9. QED
    BY <1>2, <1>4, <1>5, <1>6, <1>7, <1>8 DEF PageInv

\* An answer that the page takes.
LEMMA PageTakes ==
    ASSUME PageInv, NEW i \in underWay, NEW op \in Ops, calls[i].op = op,
           calls[i].step = "answered", Finish(i), db' = db, ui' \in Ui,
           \A x \in ButtonOps : Buttons(ui')[x] <=> Buttons(ui)[x] /\ x # op,
           ui'.exact = ui.exact,
           ui'.orphans \subseteq (callsTo("report") \cup callsTo("remove")) \ {i},
           ui'.savingReport =>
               /\ ui.savingReport /\ ui'.orphans \cap callsTo("report") \subseteq ui.orphans
               /\ op = "report" => i \in ui.orphans,
           \A r \in ui'.removing :
               /\ r \in ui.removing
               /\ \A j \in callsTo("remove") :
                     calls[j].arg.report = r /\ j \in ui'.orphans => j \in ui.orphans
               /\ op = "remove" /\ i \notin ui.orphans => calls[i].arg.report # r,
           op = "load" /\ ~calls[i].ok =>
               /\ ui'.error
               /\ ui'.selectedStatus = ui.selectedStatus /\ ui'.selectedAction = ui.selectedAction
               /\ ui'.draft = ui.draft /\ ui'.reportForm = ui.reportForm,
           op # "load" \/ calls[i].ok => ui'.error = ui.error,
           calls[i].ok /\ op \in {"load", "status", "decide", "update"} =>
               ui'.inspection = calls[i].data,
           calls[i].ok /\ op = "report" =>
               ui'.inspection = withReport(calls[i].arg.inspection, calls[i].data),
           calls[i].ok /\ op = "remove" =>
               ui'.inspection = withoutReport(calls[i].arg.inspection, calls[i].arg.report),
           ~calls[i].ok \/ op \in {"delete", "pdf"} => ui'.inspection = ui.inspection
    PROVE  PageInv'
  <1>1. CallsOK /\ Typed /\ OneEach /\ OwnCalls /\ Quiet /\ Own
    BY DEF PageInv
  <1>2. /\ CallsOK' /\ underWay' = underWay \ {i}
        /\ \A j \in underWay' : calls'[j] = calls[j]
        /\ callsTo(op)' = callsTo(op) \ {i} /\ i \in callsTo(op)
        /\ \A x : x # op => callsTo(x)' = callsTo(x) /\ i \notin callsTo(x)
    BY <1>1, TakenFrom
  <1>3. \A x : \A j \in callsTo(x)' : j \in callsTo(x) /\ calls'[j] = calls[j]
    BY <1>2 DEF callsTo
  <1>4. /\ op # "load" => ~ui.isLoading /\ ~ui.error
        /\ op = "load" => /\ ui.isLoading /\ ~ui.error /\ underWay' = {}
    <2>1. op # "load" => ~ui.isLoading /\ ~ui.error
      BY <1>1 DEF Quiet
    <2>2. ASSUME op = "load" PROVE ui.isLoading /\ ~ui.error /\ underWay' = {}
      <3>1. ui.isLoading /\ \A j \in callsTo("load") : j = i
        <4>1. "load" \in ButtonOps /\ Buttons(ui)["load"] = ui.isLoading
          BY DEF ButtonOps, Buttons
        <4>2. QED
          BY <1>1, <1>2, <2>2, <4>1 DEF OneEach
      <3>2. \A j \in underWay : j \in callsTo("load")
        BY <1>1, <3>1, PageNames DEF Quiet
      <3>3. QED
        BY <1>1, <1>2, <3>1, <3>2 DEF Quiet
    <2>3. QED
      BY <2>1, <2>2
  <1>5. ~ui'.isLoading
    <2>1. "load" \in ButtonOps /\ Buttons(ui')["load"] = ui'.isLoading /\ Buttons(ui)["load"] = ui.isLoading
      BY DEF ButtonOps, Buttons
    <2>2. QED
      BY <1>4, <2>1
  <1>6. Typed'
    BY <1>1, <1>2 DEF Typed, CallTyped
  <1>7. OneEach'
    <2>1. ASSUME NEW x \in ButtonOps
          PROVE  /\ Buttons(ui')[x] <=> callsTo(x)' # {}
                 /\ \A j, k \in callsTo(x)' : j = k
      <3>1. CASE x = op
        <4>1. callsTo(x) = {i}
          BY <1>1, <1>2, <3>1 DEF OneEach
        <4>2. QED
          BY <1>2, <3>1, <4>1
      <3>2. CASE x # op
        BY <1>1, <1>2, <3>2 DEF OneEach
      <3>3. QED
        BY <3>1, <3>2
    <2>2. QED
      BY <2>1 DEF OneEach, ButtonOps
  <1>8. OwnCalls'
    <2>1. ui'.orphans \subseteq callsTo("report")' \cup callsTo("remove")'
      BY <1>2
    <2>2. ui'.savingReport => \E j \in callsTo("report")' : j \notin ui'.orphans
      BY <1>1, <1>2 DEF OwnCalls
    <2>3. ASSUME NEW r \in ui'.removing
          PROVE  \E j \in callsTo("remove")' : j \notin ui'.orphans /\ calls'[j].arg.report = r
      <3>1. PICK j \in callsTo("remove") : j \notin ui.orphans /\ calls[j].arg.report = r
        BY <1>1 DEF OwnCalls
      <3>2. j # i /\ j \notin ui'.orphans
        BY <1>2, <3>1
      <3>3. j \in callsTo("remove")'
        BY <1>2, <3>1, <3>2
      <3>4. QED
        BY <1>3, <3>1, <3>2, <3>3
    <2>4. QED
      BY <2>1, <2>2, <2>3 DEF OwnCalls
  <1>9. Quiet'
    <2>1. CASE op = "load" /\ ~calls[i].ok
      <3>1. ui'.inspection = ui.inspection
        BY <2>1
      <3>2. QED
        BY <1>1, <1>4, <1>5, <2>1, <3>1 DEF Quiet
    <2>2. CASE op # "load" \/ calls[i].ok
      BY <1>4, <1>5, <2>2 DEF Quiet
    <2>3. QED
      BY <2>1, <2>2
  <1>10. Own'
    <2>1. SUFFICES ASSUME ui.exact, db # Gone PROVE Own'
      BY DEF Own
    <2>2. callsTo("load")' = {}
      <3>1. op # "load" => callsTo("load") = {}
        <4>1. "load" \in ButtonOps /\ Buttons(ui)["load"] = ui.isLoading
          BY DEF ButtonOps, Buttons
        <4>2. QED
          BY <1>1, <1>4, <4>1 DEF OneEach
      <3>2. op = "load" => callsTo("load")' = {}
        BY <1>2, <1>4 DEF callsTo
      <3>3. QED
        BY <1>2, <3>1, <3>2
    <2>3. CASE op \in changes
      <3>1. i \in callsOf(changes) /\ Outcome(i) /\ \A j \in callsOf(changes) : j = i
        BY <1>1, <2>1, <2>3, PageNames DEF Own
      <3>2. callsOf(changes)' = {}
        BY <1>2, <3>1 DEF callsOf, changes
      <3>3. ui'.inspection = db
        BY <2>3, <3>1 DEF Outcome, changes
      <3>4. QED
        BY <2>2, <3>2, <3>3 DEF Own, changes
    <2>4. CASE op = "load"
      <3>1. underWay' = {}
        BY <1>4, <2>4
      <3>2. callsOf(changes)' = {}
        BY <3>1 DEF callsOf, changes
      <3>3. ~ui'.error => ui'.inspection = db
        BY <1>1, <1>2, <2>1, <2>4 DEF Own
      <3>4. QED
        BY <2>2, <3>2, <3>3 DEF Own, changes
    <2>5. CASE op \in {"delete", "pdf"}
      <3>1. callsOf(changes)' = callsOf(changes)
        BY <1>2, <2>5 DEF callsOf, changes
      <3>2. \A j \in callsOf(changes) : Outcome(j)'
        <4>1. \A j \in callsOf(changes) : calls'[j] = calls[j]
          BY <1>2, <3>1 DEF callsOf, changes
        <4>2. QED
          BY <1>1, <2>1, <2>5, <4>1 DEF Own, Outcome
      <3>3. ~ui'.isLoading /\ ~ui'.error /\ callsOf(changes) = {} => ui'.inspection = db
        BY <1>1, <1>4, <2>1, <2>5 DEF Own
      <3>4. QED
        BY <1>1, <2>1, <2>2, <3>1, <3>2, <3>3 DEF Own, changes
    <2>6. QED
      BY <2>3, <2>4, <2>5 DEF Ops, changes
  <1>11. QED
    BY <1>2, <1>6, <1>7, <1>8, <1>9, <1>10 DEF PageInv

\* A call that the API serves.
LEMMA PageServed ==
    ASSUME PageInv, NEW i \in underWay, calls[i].step = "sent", NEW ok \in BOOLEAN, NEW data,
           \/ ok = TRUE /\ Succeed(i, data)
           \/ ok = FALSE /\ data = None /\ Fail(i),
           ui' = [ui EXCEPT !.exact = @ /\ (ok \/ db' = db)],
           ~ok => db' = db \/ db' \in Inspection \cup {Gone},
           ok => CASE calls[i].op \in {"status", "decide", "update"} ->
                        db' \in Inspection /\ data = db'
                   [] calls[i].op = "report" ->
                        data \in Reports /\ db \in Inspection /\ db' = withReport(db, data)
                   [] calls[i].op = "remove" ->
                        db \in Inspection /\ db' = withoutReport(db, calls[i].arg.report)
                   [] calls[i].op = "load" -> db \in Inspection /\ db' = db /\ data = db
                   [] calls[i].op = "delete" -> db' = Gone
                   [] OTHER -> db' = db,
           db = Gone => db' = Gone
    PROVE  PageInv'
  <1> DEFINE op == calls[i].op
  <1>1. CallsOK /\ Typed /\ OneEach /\ OwnCalls /\ Quiet /\ Own
    BY DEF PageInv
  <1>2. PICK c : c = calls[i]
    OBVIOUS
  <1>3. /\ CallsOK' /\ underWay' = underWay
        /\ calls'[i].step = "answered" /\ calls'[i].op = c.op
        /\ calls'[i].arg = c.arg /\ calls'[i].ok = ok /\ calls'[i].data = data
        /\ \A j \in underWay : calls'[j].op = calls[j].op /\ calls'[j].arg = calls[j].arg
        /\ \A j \in underWay : j # i => calls'[j] = calls[j]
        /\ \A x : callsTo(x)' = callsTo(x)
    BY <1>1, <1>2, ServedTo
  <1>4. c.op \in Ops /\ CallTyped(c) /\ c.step = "sent"
    BY <1>1, <1>2 DEF Typed, CallTyped
  <1>5. /\ ui' \in Ui /\ Buttons(ui') = Buttons(ui) /\ ui'.isLoading = ui.isLoading
        /\ ui'.error = ui.error /\ ui'.inspection = ui.inspection
        /\ ui'.selectedStatus = ui.selectedStatus /\ ui'.selectedAction = ui.selectedAction
        /\ ui'.draft = ui.draft /\ ui'.reportForm = ui.reportForm
        /\ ui'.orphans = ui.orphans /\ ui'.savingReport = ui.savingReport /\ ui'.removing = ui.removing
        /\ ui'.exact <=> ui.exact /\ (ok \/ db' = db)
    <2>1. PICK x \in BOOLEAN : x <=> ui.exact /\ (ok \/ db' = db)
      OBVIOUS
    <2>2. ui.exact \in BOOLEAN
      BY <1>1 DEF Typed, Ui
    <2>3. ui' = [ui EXCEPT !.exact = x]
      BY <2>1, <2>2
    <2>4. QED
      BY <1>1, <2>1, <2>3 DEF Typed, Ui, Buttons
  <1>6. Typed'
    <2>1. db' \in Inspection \cup {Gone}
      BY <1>1, <1>2, <1>4 DEF Typed, CallTyped, Ops, withReport, withoutReport, Inspection
    <2>2. CallTyped(calls[i])'
      BY <1>1, <1>2, <1>3, <1>4 DEF CallTyped, Ops
    <2>3. \A j \in underWay : j # i => CallTyped(calls[j])'
      BY <1>1, <1>3 DEF Typed, CallTyped
    <2>4. QED
      BY <1>3, <1>5, <2>1, <2>2, <2>3 DEF Typed
  <1>7. OneEach'
    BY <1>1, <1>3, <1>5 DEF OneEach
  <1>8. OwnCalls'
    BY <1>1, <1>3, <1>5, PageNames DEF OwnCalls
  <1>9. Quiet'
    BY <1>1, <1>3, <1>5 DEF Quiet
  <1>10. Own'
    <2>1. SUFFICES ASSUME ui.exact, ok \/ db' = db, db # Gone, db' # Gone PROVE Own'
      BY <1>5 DEF Own
    <2>2. callsOf(changes)' = callsOf(changes)
      BY <1>3 DEF callsOf, changes
    <2>3. CASE c.op \in changes
      <3>1. i \in callsOf(changes) /\ Outcome(i) /\ \A j \in callsOf(changes) : j = i
        BY <1>1, <1>2, <2>1, <2>3, PageNames DEF Own
      <3>2. Outcome(i)'
        <4>1. CASE ok
          <5>1. ui.inspection = db /\ (c.op \in {"report", "remove"} => c.arg.inspection = db)
            BY <1>2, <1>4, <3>1 DEF Outcome
          <5>2. QED
            BY <1>2, <1>3, <2>3, <4>1, <5>1 DEF Outcome, changes
        <4>2. CASE ~ok
          <5>1. ui'.inspection = db' /\ db' = db
            BY <1>2, <1>4, <1>5, <2>1, <3>1, <4>2 DEF Outcome
          <5>2. QED
            BY <1>3, <4>2, <5>1 DEF Outcome
        <4>3. QED
          BY <4>1, <4>2
      <3>3. callsTo("load") = {}
        <4>1. "load" \in ButtonOps /\ Buttons(ui)["load"] = ui.isLoading
          BY DEF ButtonOps, Buttons
        <4>2. ~ui.isLoading
          BY <1>1, <1>2, <2>3 DEF Quiet, changes
        <4>3. QED
          BY <1>1, <4>1, <4>2 DEF OneEach
      <3>4. QED
        BY <1>3, <2>2, <3>1, <3>2, <3>3 DEF Own, changes
    <2>4. CASE c.op \notin changes
      <3>1. db' = db
        BY <1>2, <1>4, <2>1, <2>4 DEF Ops, changes
      <3>2. \A j \in callsOf(changes) : j # i /\ calls'[j] = calls[j]
        BY <1>2, <1>3, <2>4, PageNames
      <3>3. \A j \in callsOf(changes) : Outcome(j)'
        BY <1>1, <1>5, <2>1, <3>1, <3>2 DEF Own, Outcome
      <3>4. \A j \in callsTo("load") :
               calls'[j].step = "answered" /\ calls'[j].ok => calls'[j].data = db
        <4>1. ASSUME NEW j \in callsTo("load"), calls'[j].step = "answered", calls'[j].ok
              PROVE  calls'[j].data = db
          <5>1. CASE j = i
            BY <1>2, <1>3, <3>1, <4>1, <5>1, PageNames
          <5>2. CASE j # i
            BY <1>1, <1>3, <2>1, <4>1, <5>2, PageNames DEF Own
          <5>3. QED
            BY <5>1, <5>2
        <4>2. QED
          BY <4>1
      <3>5. callsOf(changes) = {} /\ ~ui'.isLoading /\ ~ui'.error => ui'.inspection = db
        BY <1>1, <1>5, <2>1 DEF Own
      <3>6. QED
        BY <1>1, <1>3, <2>1, <2>2, <3>1, <3>3, <3>4, <3>5 DEF Own, changes
    <2>5. QED
      BY <2>3, <2>4
  <1>11. QED
    BY <1>3, <1>6, <1>7, <1>8, <1>9, <1>10 DEF PageInv

\* The three tables of the service stay among its values.
LEMMA ServiceTables ==
    /\ \A t : db \in Inspection /\ t \in service!InspectionStatus => [db EXCEPT !.status = t] \in Inspection
    /\ \A s : service!allowedTransitions(s) \subseteq service!InspectionStatus
    /\ \A action : decided(action) \in service!InspectionApprovalStatus
  <1>1. \A t : db \in Inspection /\ t \in service!InspectionStatus => [db EXCEPT !.status = t] \in Inspection
    BY DEF Inspection
  <1>2. \A s : service!allowedTransitions(s) \subseteq service!InspectionStatus
    BY DEF service!allowedTransitions, service!InspectionStatus
  <1>3. \A action : decided(action) \in service!InspectionApprovalStatus
    BY DEF decided, service!InspectionApprovalStatus
  <1>4. QED
    BY <1>1, <1>2, <1>3

\* What the API does to the inspection leaves it an inspection.
LEMMA RowChanges ==
    ASSUME db \in Inspection
    PROVE  /\ \A t : ChangeStatus(t) => db' \in Inspection
           /\ \A action : Decide(action) => db' \in Inspection
           /\ \A r \in Reports : CreateReport(r) => db' \in Inspection /\ db' = withReport(db, r)
           /\ \A r \in Reports : RemoveReport(r) => db' \in Inspection /\ db' = withoutReport(db, r)
           /\ \A t : Update(t) => db' \in Inspection
  <1>1. \A t : ChangeStatus(t) => db' \in Inspection
    BY ServiceTables DEF ChangeStatus, assertStatusTransition
  <1>2. \A action : Decide(action) => db' \in Inspection
    BY ServiceTables DEF Decide, Inspection
  <1>3. \A r \in Reports : CreateReport(r) => db' \in Inspection /\ db' = withReport(db, r)
    BY DEF CreateReport, withReport, Inspection
  <1>4. \A r \in Reports : RemoveReport(r) => db' \in Inspection /\ db' = withoutReport(db, r)
    BY DEF RemoveReport, withoutReport, Inspection
  <1>5. \A t : Update(t) => db' \in Inspection
    BY <1>1 DEF Update
  <1>6. QED
    BY <1>1, <1>2, <1>3, <1>4, <1>5

LEMMA ServeKeeps ==
    ASSUME PageInv, NEW i \in Slots, Serve(i)
    PROVE  PageInv'
  <1>1. CallsOK /\ Typed
    BY DEF PageInv
  <1>2. i \in underWay /\ calls[i].step = "sent"
    BY DEF Serve, waiting
  <1>3. PICK c : c = calls[i]
    OBVIOUS
  <1>4. CallTyped(c) /\ db \in Inspection \cup {Gone}
    BY <1>1, <1>2, <1>3 DEF Typed
  <1>5. ui' = [ui EXCEPT !.exact = @ /\ (calls'[i].ok \/ db' = db)]
    BY DEF Serve
  \* Whatever was done, the answer may be lost.
  <1>6. ASSUME Fail(i), db' = db \/ db' \in Inspection \cup {Gone}, db = Gone => db' = Gone
        PROVE  PageInv'
    <2>1. calls'[i].ok = FALSE
      BY <1>1, <1>2, <1>6, ServedTo
    <2>2. ui' = [ui EXCEPT !.exact = @ /\ (FALSE \/ db' = db)]
      BY <1>5, <2>1
    <2>3. QED
      BY <1>2, <1>6, <2>2, PageServed
  <1>7. ASSUME NEW data, Succeed(i, data)
        PROVE  ui' = [ui EXCEPT !.exact = @ /\ (TRUE \/ db' = db)]
    <2>1. calls'[i].ok = TRUE
      BY <1>1, <1>2, <1>7, ServedTo
    <2>2. QED
      BY <1>5, <2>1
  <1>8. CASE Fail(i) /\ UNCHANGED db
    BY <1>6, <1>8
  <1>9. CASE db # Gone /\ c.op = "load" /\ Reply(i, db) /\ UNCHANGED db
    <2>1. CASE Succeed(i, db)
      BY <1>2, <1>3, <1>4, <1>7, <1>9, <2>1, PageServed
    <2>2. QED
      BY <1>6, <1>9, <2>1 DEF Reply
  <1>10. CASE /\ db # Gone /\ db' \in Inspection /\ Reply(i, db')
              /\ c.op \in {"status", "decide", "update"}
    <2>1. CASE Succeed(i, db')
      <3>1. PICK data : data = db'
        OBVIOUS
      <3>2. Succeed(i, data)
        BY <2>1, <3>1
      <3>3. QED
        BY <1>2, <1>3, <1>7, <1>10, <3>1, <3>2, PageServed
    <2>2. QED
      BY <1>6, <1>10, <2>1 DEF Reply
  <1>11. ASSUME c.op = "report", db # Gone, NEW r \in Reports, Reply(i, r),
                db' \in Inspection, db' = withReport(db, r)
         PROVE  PageInv'
    <2>1. CASE Succeed(i, r)
      BY <1>2, <1>3, <1>4, <1>7, <1>11, <2>1, PageServed
    <2>2. QED
      BY <1>6, <1>11, <2>1 DEF Reply
  <1>12. CASE /\ db # Gone /\ c.op = "remove" /\ RemoveReport(c.arg.report) /\ Reply(i, None)
    <2>1. c.arg.report \in Reports
      BY <1>4, <1>12 DEF CallTyped
    <2>2. db' \in Inspection /\ db' = withoutReport(db, c.arg.report)
      BY <1>4, <1>12, <2>1, RowChanges
    <2>3. CASE Succeed(i, None)
      BY <1>2, <1>3, <1>4, <1>7, <1>12, <2>2, <2>3, PageServed
    <2>4. QED
      BY <1>6, <1>12, <2>2, <2>3 DEF Reply
  <1>13. CASE db # Gone /\ c.op = "delete" /\ db' = Gone /\ Reply(i, None)
    <2>1. CASE Succeed(i, None)
      BY <1>2, <1>3, <1>7, <1>13, <2>1, PageServed
    <2>2. QED
      BY <1>6, <1>13, <2>1 DEF Reply
  <1>14. CASE db # Gone /\ c.op = "pdf" /\ Reply(i, None) /\ UNCHANGED db
    <2>1. CASE Succeed(i, None)
      BY <1>2, <1>3, <1>7, <1>14, <2>1, PageServed
    <2>2. QED
      BY <1>6, <1>14, <2>1 DEF Reply
  <1>15. CASE /\ db # Gone /\ c.op = "report"
              /\ IF c.arg.report = New
                 THEN \E r \in Reports : CreateReport(r) /\ Reply(i, r)
                 ELSE c.arg.report \in db.reports /\ Reply(i, c.arg.report) /\ UNCHANGED db
    <2>1. CASE c.arg.report = New
      <3>1. PICK r \in Reports : CreateReport(r) /\ Reply(i, r)
        BY <1>15, <2>1
      <3>2. QED
        BY <1>4, <1>11, <1>15, <3>1, RowChanges
    <2>2. CASE c.arg.report # New
      <3>1. c.arg.report \in Reports
        BY <1>4, <1>15, <2>2 DEF CallTyped
      <3>2. db' \in Inspection /\ db' = withReport(db, c.arg.report)
        BY <1>4, <1>15, <2>2 DEF withReport, Inspection
      <3>3. QED
        BY <1>11, <1>15, <2>2, <3>1, <3>2
    <2>3. QED
      BY <2>1, <2>2
  <1>16. QED
    <2>1. \/ Fail(i) /\ UNCHANGED db
          \/ /\ db # Gone
             /\ \/ c.op = "load" /\ Reply(i, db) /\ UNCHANGED db
                \/ c.op = "status" /\ ChangeStatus(c.arg.to) /\ Reply(i, db')
                \/ c.op = "decide" /\ Decide(c.arg.action) /\ Reply(i, db')
                \/ c.op = "update" /\ Update(c.arg) /\ Reply(i, db')
                \/ /\ c.op = "report"
                   /\ IF c.arg.report = New
                      THEN \E r \in Reports : CreateReport(r) /\ Reply(i, r)
                      ELSE c.arg.report \in db.reports /\ Reply(i, c.arg.report) /\ UNCHANGED db
                \/ c.op = "remove" /\ RemoveReport(c.arg.report) /\ Reply(i, None)
                \/ c.op = "delete" /\ db' = Gone /\ Reply(i, None)
                \/ c.op = "pdf" /\ Reply(i, None) /\ UNCHANGED db
      BY <1>3 DEF Serve
    <2>2. db # Gone => db \in Inspection
      BY <1>4
    <2>3. QED
      BY <1>8, <1>9, <1>10, <1>12, <1>13, <1>14, <1>15, <2>1, <2>2, RowChanges

LEMMA OthersKeep ==
    ASSUME PageInv, SomebodyElse
    PROVE  PageInv'
  <1>1. CallsOK /\ Typed /\ OneEach /\ OwnCalls /\ Quiet
    BY DEF PageInv
  <1>2. calls' = calls /\ ui' = [ui EXCEPT !.exact = FALSE] /\ db \in Inspection
    BY <1>1 DEF SomebodyElse, Typed
  <1>3. /\ underWay' = underWay /\ CallsOK' /\ \A x : callsTo(x)' = callsTo(x)
    BY <1>1, <1>2, StayTo
  <1>4. db' \in Inspection \cup {Gone}
    BY <1>2, RowChanges DEF SomebodyElse
  <1>5. /\ ui' \in Ui /\ Buttons(ui') = Buttons(ui) /\ ui'.isLoading = ui.isLoading
        /\ ui'.error = ui.error /\ ui'.inspection = ui.inspection
        /\ ui'.selectedStatus = ui.selectedStatus /\ ui'.selectedAction = ui.selectedAction
        /\ ui'.draft = ui.draft /\ ui'.reportForm = ui.reportForm
        /\ ui'.orphans = ui.orphans /\ ui'.savingReport = ui.savingReport /\ ui'.removing = ui.removing
        /\ ui'.exact = FALSE
    BY <1>1, <1>2 DEF Typed, Ui, Buttons
  <1>6. Typed'
    BY <1>1, <1>2, <1>3, <1>4, <1>5 DEF Typed, CallTyped
  <1>7. OneEach'
    BY <1>1, <1>3, <1>5 DEF OneEach
  <1>8. OwnCalls'
    BY <1>1, <1>2, <1>3, <1>5 DEF OwnCalls
  <1>9. Quiet'
    BY <1>1, <1>2, <1>3, <1>5 DEF Quiet
  <1>10. Own'
    BY <1>5 DEF Own
  <1>11. QED
    BY <1>3, <1>6, <1>7, <1>8, <1>9, <1>10 DEF PageInv

LEMMA SlotsOfCalls == \A op : callsOf({op}) = callsTo(op) /\ callsTo(op) \subseteq Slots
  BY DEF callsOf, callsTo, underWay

\* Every part of the page that an inspection is put into, and every other one.
LEMMA InspectionIsSet ==
    ASSUME NEW u \in Ui, NEW x \in Inspection
    PROVE  LET v == setInspection(u, x)
           IN  /\ v \in Ui /\ v.inspection = x /\ v.removing = u.removing \cap x.reports
               /\ v.orphans = u.orphans
                              \cup {j \in callsTo("remove") : calls[j].arg.report \notin x.reports}
               /\ Buttons(v) = Buttons(u) /\ v.error = u.error /\ v.exact = u.exact
               /\ v.savingReport = u.savingReport /\ v.reportForm = u.reportForm
  <1>1. PICK lost : lost = {j \in callsTo("remove") : calls[j].arg.report \notin x.reports}
    OBVIOUS
  <1>2. lost \subseteq Slots
    BY <1>1, SlotsOfCalls
  <1>3. setInspection(u, x) = [u EXCEPT !.inspection = x, !.removing = @ \cap x.reports,
                                        !.orphans = @ \cup lost]
    BY <1>1, SlotsOfCalls DEF setInspection
  <1>4. QED
    BY <1>1, <1>2, <1>3 DEF Ui, Buttons

LEMMA ReportsAreHidden ==
    ASSUME NEW u \in Ui
    PROVE  LET v == reportsHidden(u)
           IN  /\ v \in Ui /\ v.savingReport = FALSE /\ v.removing = {}
               /\ v.orphans = u.orphans \cup callsTo("report") \cup callsTo("remove")
               /\ Buttons(v) = Buttons(u) /\ v.error = u.error /\ v.exact = u.exact
               /\ v.inspection = u.inspection /\ v.isLoading = u.isLoading
  <1>1. PICK lost : lost = callsTo("report") \cup callsTo("remove")
    OBVIOUS
  <1>2. lost \subseteq Slots /\ callsOf({"report", "remove"}) = lost
    BY <1>1, SlotsOfCalls DEF callsOf, callsTo
  <1>3. reportsHidden(u) = [u EXCEPT !.savingReport = FALSE, !.removing = {}, !.orphans = @ \cup lost]
    BY <1>2 DEF reportsHidden
  <1>4. QED
    BY <1>1, <1>2, <1>3 DEF Ui, Buttons

LEMMA FormIsPut ==
    ASSUME NEW u \in Ui, NEW r \in Reports \cup {New, None}
    PROVE  LET v == withForm(u, r)
           IN  /\ v \in Ui /\ v.reportForm = r
               /\ \/ r # None /\ v.savingReport = u.savingReport /\ v.orphans = u.orphans
                  \/ ~v.savingReport /\ v.orphans = u.orphans \cup callsTo("report")
               /\ v.removing = u.removing /\ Buttons(v) = Buttons(u) /\ v.error = u.error
               /\ v.exact = u.exact /\ v.inspection = u.inspection /\ v.isLoading = u.isLoading
  <1>1. PICK lost : lost = callsTo("report")
    OBVIOUS
  <1>2. lost \subseteq Slots /\ callsOf({"report"}) = lost
    BY <1>1, SlotsOfCalls
  <1>3. CASE r # None /\ u.reportForm # None /\ (r = New <=> u.reportForm = New)
    <2>1. withForm(u, r) = [u EXCEPT !.reportForm = r]
      BY <1>3 DEF withForm
    <2>2. QED
      BY <1>3, <2>1 DEF Ui, Buttons
  <1>4. CASE ~ (r # None /\ u.reportForm # None /\ (r = New <=> u.reportForm = New))
    <2>1. withForm(u, r) =
             [u EXCEPT !.reportForm = r, !.savingReport = FALSE, !.orphans = @ \cup lost]
      BY <1>2, <1>4 DEF withForm
    <2>2. QED
      BY <1>1, <1>2, <2>1 DEF Ui, Buttons
  <1>5. QED
    BY <1>3, <1>4

\* What each of the six buttons shows.
LEMMA ButtonNames ==
    \A u : /\ Buttons(u)["load"] = u.isLoading /\ Buttons(u)["status"] = u.savingStatus
           /\ Buttons(u)["decide"] = u.savingAction /\ Buttons(u)["update"] = u.savingForm
           /\ Buttons(u)["delete"] = u.isDeleting /\ Buttons(u)["pdf"] = u.isDownloadingPdf
  BY DEF Buttons

\* The flag of one button falls.
LEMMA ButtonFalls ==
    ASSUME NEW u \in Ui, NEW op \in ButtonOps, NEW v,
           v = CASE op = "load" -> [u EXCEPT !.isLoading = FALSE]
                 [] op = "status" -> [u EXCEPT !.savingStatus = FALSE]
                 [] op = "decide" -> [u EXCEPT !.savingAction = FALSE]
                 [] op = "update" -> [u EXCEPT !.savingForm = FALSE]
                 [] op = "delete" -> [u EXCEPT !.isDeleting = FALSE]
                 [] OTHER -> [u EXCEPT !.isDownloadingPdf = FALSE]
    PROVE  /\ v \in Ui /\ v.error = u.error /\ v.exact = u.exact /\ v.savingReport = u.savingReport
           /\ v.removing = u.removing /\ v.orphans = u.orphans /\ v.inspection = u.inspection
           /\ v.selectedStatus = u.selectedStatus /\ v.selectedAction = u.selectedAction
           /\ v.draft = u.draft /\ v.reportForm = u.reportForm
           /\ \A x \in ButtonOps : Buttons(v)[x] <=> Buttons(u)[x] /\ x # op
  <1>1. CASE op = "load"
    <2>1. v = [u EXCEPT !.isLoading = FALSE]
      BY <1>1
    <2>2. /\ v \in Ui /\ v.error = u.error /\ v.exact = u.exact /\ v.savingReport = u.savingReport
          /\ v.removing = u.removing /\ v.orphans = u.orphans /\ v.inspection = u.inspection
          /\ v.selectedStatus = u.selectedStatus /\ v.selectedAction = u.selectedAction
          /\ v.draft = u.draft /\ v.reportForm = u.reportForm
          /\ v.isLoading = FALSE /\ v.savingStatus = u.savingStatus /\ v.savingAction = u.savingAction /\ v.savingForm = u.savingForm
          /\ v.isDeleting = u.isDeleting /\ v.isDownloadingPdf = u.isDownloadingPdf
      BY <2>1 DEF Ui
    <2>3. QED
      BY <1>1, <2>2, ButtonNames DEF ButtonOps
  <1>2. CASE op = "status"
    <2>1. v = [u EXCEPT !.savingStatus = FALSE]
      BY <1>2
    <2>2. /\ v \in Ui /\ v.error = u.error /\ v.exact = u.exact /\ v.savingReport = u.savingReport
          /\ v.removing = u.removing /\ v.orphans = u.orphans /\ v.inspection = u.inspection
          /\ v.selectedStatus = u.selectedStatus /\ v.selectedAction = u.selectedAction
          /\ v.draft = u.draft /\ v.reportForm = u.reportForm
          /\ v.savingStatus = FALSE /\ v.isLoading = u.isLoading /\ v.savingAction = u.savingAction /\ v.savingForm = u.savingForm
          /\ v.isDeleting = u.isDeleting /\ v.isDownloadingPdf = u.isDownloadingPdf
      BY <2>1 DEF Ui
    <2>3. QED
      BY <1>2, <2>2, ButtonNames DEF ButtonOps
  <1>3. CASE op = "decide"
    <2>1. v = [u EXCEPT !.savingAction = FALSE]
      BY <1>3
    <2>2. /\ v \in Ui /\ v.error = u.error /\ v.exact = u.exact /\ v.savingReport = u.savingReport
          /\ v.removing = u.removing /\ v.orphans = u.orphans /\ v.inspection = u.inspection
          /\ v.selectedStatus = u.selectedStatus /\ v.selectedAction = u.selectedAction
          /\ v.draft = u.draft /\ v.reportForm = u.reportForm
          /\ v.savingAction = FALSE /\ v.isLoading = u.isLoading /\ v.savingStatus = u.savingStatus /\ v.savingForm = u.savingForm
          /\ v.isDeleting = u.isDeleting /\ v.isDownloadingPdf = u.isDownloadingPdf
      BY <2>1 DEF Ui
    <2>3. QED
      BY <1>3, <2>2, ButtonNames DEF ButtonOps
  <1>4. CASE op = "update"
    <2>1. v = [u EXCEPT !.savingForm = FALSE]
      BY <1>4
    <2>2. /\ v \in Ui /\ v.error = u.error /\ v.exact = u.exact /\ v.savingReport = u.savingReport
          /\ v.removing = u.removing /\ v.orphans = u.orphans /\ v.inspection = u.inspection
          /\ v.selectedStatus = u.selectedStatus /\ v.selectedAction = u.selectedAction
          /\ v.draft = u.draft /\ v.reportForm = u.reportForm
          /\ v.savingForm = FALSE /\ v.isLoading = u.isLoading /\ v.savingStatus = u.savingStatus /\ v.savingAction = u.savingAction
          /\ v.isDeleting = u.isDeleting /\ v.isDownloadingPdf = u.isDownloadingPdf
      BY <2>1 DEF Ui
    <2>3. QED
      BY <1>4, <2>2, ButtonNames DEF ButtonOps
  <1>5. CASE op = "delete"
    <2>1. v = [u EXCEPT !.isDeleting = FALSE]
      BY <1>5
    <2>2. /\ v \in Ui /\ v.error = u.error /\ v.exact = u.exact /\ v.savingReport = u.savingReport
          /\ v.removing = u.removing /\ v.orphans = u.orphans /\ v.inspection = u.inspection
          /\ v.selectedStatus = u.selectedStatus /\ v.selectedAction = u.selectedAction
          /\ v.draft = u.draft /\ v.reportForm = u.reportForm
          /\ v.isDeleting = FALSE /\ v.isLoading = u.isLoading /\ v.savingStatus = u.savingStatus /\ v.savingAction = u.savingAction
          /\ v.savingForm = u.savingForm /\ v.isDownloadingPdf = u.isDownloadingPdf
      BY <2>1 DEF Ui
    <2>3. QED
      BY <1>5, <2>2, ButtonNames DEF ButtonOps
  <1>6. CASE op = "pdf"
    <2>1. v = [u EXCEPT !.isDownloadingPdf = FALSE]
      BY <1>6
    <2>2. /\ v \in Ui /\ v.error = u.error /\ v.exact = u.exact /\ v.savingReport = u.savingReport
          /\ v.removing = u.removing /\ v.orphans = u.orphans /\ v.inspection = u.inspection
          /\ v.selectedStatus = u.selectedStatus /\ v.selectedAction = u.selectedAction
          /\ v.draft = u.draft /\ v.reportForm = u.reportForm
          /\ v.isDownloadingPdf = FALSE /\ v.isLoading = u.isLoading /\ v.savingStatus = u.savingStatus /\ v.savingAction = u.savingAction
          /\ v.savingForm = u.savingForm /\ v.isDeleting = u.isDeleting
      BY <2>1 DEF Ui
    <2>3. QED
      BY <1>6, <2>2, ButtonNames DEF ButtonOps
  <1>7. QED
    BY <1>1, <1>2, <1>3, <1>4, <1>5, <1>6 DEF ButtonOps

-----------------------------------------------------------------------------
(* The answers *)

\* An answer that is the inspection itself.
LEMMA InspectionTaken ==
    ASSUME PageInv, NEW i \in underWay, NEW op \in {"load", "status", "decide", "update"},
           calls[i].op = op, calls[i].step = "answered", Finish(i), db' = db, ui' \in Ui,
           \A x \in ButtonOps : Buttons(ui')[x] <=> Buttons(ui)[x] /\ x # op,
           ui'.exact = ui.exact, ui'.savingReport = ui.savingReport,
           calls[i].ok =>
               /\ ui'.inspection = calls[i].data /\ ui'.error = ui.error
               /\ ui'.removing = ui.removing \cap calls[i].data.reports
               /\ ui'.orphans = ui.orphans \cup {j \in callsTo("remove") :
                                   calls[j].arg.report \notin calls[i].data.reports},
           ~calls[i].ok =>
               /\ ui'.inspection = ui.inspection /\ ui'.removing = ui.removing
               /\ ui'.orphans = ui.orphans
               /\ op # "load" => ui'.error = ui.error,
           op = "load" /\ ~calls[i].ok =>
               /\ ui'.error
               /\ ui'.selectedStatus = ui.selectedStatus /\ ui'.selectedAction = ui.selectedAction
               /\ ui'.draft = ui.draft /\ ui'.reportForm = ui.reportForm
    PROVE  PageInv'
  <1>1. OwnCalls
    BY DEF PageInv
  <1>2. i \notin callsTo("report") /\ i \notin callsTo("remove") /\ op \in Ops
    BY PageNames DEF Ops
  <1>3. ui'.orphans \subseteq (callsTo("report") \cup callsTo("remove")) \ {i}
    BY <1>1, <1>2 DEF OwnCalls
  <1>4. ui'.orphans \cap callsTo("report") \subseteq ui.orphans
    BY PageNames
  <1>5. \A r \in ui'.removing :
           /\ r \in ui.removing
           /\ \A j \in callsTo("remove") :
                 calls[j].arg.report = r /\ j \in ui'.orphans => j \in ui.orphans
    OBVIOUS
  <1>6. op # "report" /\ op # "remove" /\ op \notin {"delete", "pdf"}
    OBVIOUS
  <1>7. op # "load" \/ calls[i].ok => ui'.error = ui.error
    OBVIOUS
  <1>8. QED
    BY <1>2, <1>3, <1>4, <1>5, <1>6, <1>7, PageTakes

LEMMA AnswerTyped ==
    ASSUME PageInv, NEW i, NEW op, Answered(i, op)
    PROVE  /\ i \in underWay /\ calls[i].op = op /\ calls[i].step = "answered"
           /\ Finish(i) /\ db' = db /\ CallTyped(calls[i]) /\ ui \in Ui
           /\ OwnCalls
  BY DEF PageInv, Typed, Answered, answered

LEMMA LoadTaken ==
    ASSUME PageInv, NEW i, LoadArrives(i)
    PROVE  PageInv'
  <1>1. /\ i \in underWay /\ calls[i].op = "load" /\ calls[i].step = "answered"
        /\ Finish(i) /\ db' = db /\ CallTyped(calls[i]) /\ ui \in Ui
    BY AnswerTyped DEF LoadArrives
  <1>2. PICK u : u = [ui EXCEPT !.isLoading = FALSE]
    OBVIOUS
  <1>3. /\ u \in Ui /\ u.error = ui.error /\ u.exact = ui.exact /\ u.savingReport = ui.savingReport
        /\ u.removing = ui.removing /\ u.orphans = ui.orphans
        /\ \A x \in ButtonOps : Buttons(u)[x] <=> Buttons(ui)[x] /\ x # "load"
    BY <1>1, <1>2, ButtonFalls DEF ButtonOps
  <1>4. CASE calls[i].ok
    <2>1. calls[i].data \in Inspection
      BY <1>1, <1>4 DEF CallTyped
    <2>2. ui' = setInspection(u, calls[i].data)
      BY <1>2, <1>4 DEF LoadArrives
    <2>3. QED
      BY <1>1, <1>3, <1>4, <2>1, <2>2, InspectionIsSet, InspectionTaken
  <1>5. CASE ~calls[i].ok
    <2>1. ui' = [u EXCEPT !.error = TRUE]
      BY <1>2, <1>5 DEF LoadArrives
    <2>2. /\ ui' \in Ui /\ ui'.error /\ ui'.exact = ui.exact /\ ui'.savingReport = ui.savingReport
          /\ ui'.removing = ui.removing /\ ui'.orphans = ui.orphans
          /\ ui'.inspection = ui.inspection /\ ui'.selectedStatus = ui.selectedStatus
          /\ ui'.selectedAction = ui.selectedAction
          /\ ui'.draft = ui.draft /\ ui'.reportForm = ui.reportForm /\ Buttons(ui') = Buttons(u)
      BY <1>1, <1>2, <2>1 DEF Ui, Buttons
    <2>3. QED
      BY <1>1, <1>3, <1>5, <2>2, InspectionTaken
  <1>6. QED
    BY <1>4, <1>5

\* The three changes that are answered with the inspection: the flag of the
\* button falls, and after a success what was selected goes with it.
LEMMA ChangeTaken ==
    ASSUME PageInv, NEW i, NEW op \in {"status", "decide", "update"}, Answered(i, op),
           NEW u \in Ui,
           u.error = ui.error, u.exact = ui.exact, u.savingReport = ui.savingReport,
           u.removing = ui.removing, u.orphans = ui.orphans, u.inspection = ui.inspection,
           \A x \in ButtonOps : Buttons(u)[x] <=> Buttons(ui)[x] /\ x # op,
           ~calls[i].ok => ui' = u,
           calls[i].ok =>
               LET v == setInspection(u, calls[i].data)
               IN  \/ ui' = [v EXCEPT !.selectedStatus = None]
                   \/ ui' = [v EXCEPT !.selectedAction = None]
                   \/ ui' = [v EXCEPT !.draft = None]
    PROVE  PageInv'
  <1>1. /\ i \in underWay /\ calls[i].op = op /\ calls[i].step = "answered"
        /\ Finish(i) /\ db' = db /\ CallTyped(calls[i]) /\ ui \in Ui
    BY AnswerTyped
  <1>2. CASE calls[i].ok
    <2>1. calls[i].data \in Inspection
      BY <1>1, <1>2 DEF CallTyped
    <2>2. PICK v : v = setInspection(u, calls[i].data)
      OBVIOUS
    <2>3. /\ v \in Ui /\ v.inspection = calls[i].data /\ v.removing = u.removing \cap calls[i].data.reports
          /\ v.orphans = u.orphans \cup {j \in callsTo("remove") :
                                            calls[j].arg.report \notin calls[i].data.reports}
          /\ Buttons(v) = Buttons(u) /\ v.error = u.error /\ v.exact = u.exact
          /\ v.savingReport = u.savingReport
      BY <2>1, <2>2, InspectionIsSet
    <2>4. \/ ui' = [v EXCEPT !.selectedStatus = None]
          \/ ui' = [v EXCEPT !.selectedAction = None]
          \/ ui' = [v EXCEPT !.draft = None]
      BY <1>2, <2>2
    <2>5. /\ ui' \in Ui /\ ui'.inspection = v.inspection /\ ui'.removing = v.removing
          /\ ui'.orphans = v.orphans /\ Buttons(ui') = Buttons(v) /\ ui'.error = v.error
          /\ ui'.exact = v.exact /\ ui'.savingReport = v.savingReport
      BY <2>3, <2>4 DEF Ui, Buttons
    <2>6. QED
      BY <1>1, <1>2, <2>3, <2>5, InspectionTaken
  <1>3. CASE ~calls[i].ok
    BY <1>1, <1>3, InspectionTaken
  <1>4. QED
    BY <1>2, <1>3

LEMMA StatusTaken ==
    ASSUME PageInv, NEW i, StatusAnswered(i)
    PROVE  PageInv'
  <1>1. PICK u : u = [ui EXCEPT !.savingStatus = FALSE]
    OBVIOUS
  <1>2. Answered(i, "status") /\ ui \in Ui
    BY AnswerTyped DEF StatusAnswered
  <1>3. /\ u \in Ui /\ u.error = ui.error /\ u.exact = ui.exact /\ u.savingReport = ui.savingReport
        /\ u.removing = ui.removing /\ u.orphans = ui.orphans /\ u.inspection = ui.inspection
        /\ \A x \in ButtonOps : Buttons(u)[x] <=> Buttons(ui)[x] /\ x # "status"
    BY <1>1, <1>2, ButtonFalls DEF ButtonOps
  <1>4. ui' = IF calls[i].ok
              THEN [setInspection(u, calls[i].data) EXCEPT !.selectedStatus = None] ELSE u
    BY <1>1 DEF StatusAnswered
  <1>5. QED
    BY <1>2, <1>3, <1>4, ChangeTaken

LEMMA ActionTaken ==
    ASSUME PageInv, NEW i, ActionAnswered(i)
    PROVE  PageInv'
  <1>1. PICK u : u = [ui EXCEPT !.savingAction = FALSE]
    OBVIOUS
  <1>2. Answered(i, "decide") /\ ui \in Ui
    BY AnswerTyped DEF ActionAnswered
  <1>3. /\ u \in Ui /\ u.error = ui.error /\ u.exact = ui.exact /\ u.savingReport = ui.savingReport
        /\ u.removing = ui.removing /\ u.orphans = ui.orphans /\ u.inspection = ui.inspection
        /\ \A x \in ButtonOps : Buttons(u)[x] <=> Buttons(ui)[x] /\ x # "decide"
    BY <1>1, <1>2, ButtonFalls DEF ButtonOps
  <1>4. ui' = IF calls[i].ok
              THEN [setInspection(u, calls[i].data) EXCEPT !.selectedAction = None] ELSE u
    BY <1>1 DEF ActionAnswered
  <1>5. QED
    BY <1>2, <1>3, <1>4, ChangeTaken

LEMMA UpdateTaken ==
    ASSUME PageInv, NEW i, UpdateAnswered(i)
    PROVE  PageInv'
  <1>1. PICK u : u = [ui EXCEPT !.savingForm = FALSE]
    OBVIOUS
  <1>2. Answered(i, "update") /\ ui \in Ui
    BY AnswerTyped DEF UpdateAnswered
  <1>3. /\ u \in Ui /\ u.error = ui.error /\ u.exact = ui.exact /\ u.savingReport = ui.savingReport
        /\ u.removing = ui.removing /\ u.orphans = ui.orphans /\ u.inspection = ui.inspection
        /\ \A x \in ButtonOps : Buttons(u)[x] <=> Buttons(ui)[x] /\ x # "update"
    BY <1>1, <1>2, ButtonFalls DEF ButtonOps
  <1>4. ui' = IF calls[i].ok
              THEN [setInspection(u, calls[i].data) EXCEPT !.draft = None] ELSE u
    BY <1>1 DEF UpdateAnswered
  <1>5. QED
    BY <1>2, <1>3, <1>4, ChangeTaken

\* The two calls that only a button waits for.
LEMMA ButtonTaken ==
    ASSUME PageInv, NEW i, DownloadEnds(i) \/ DeleteAnswered(i)
    PROVE  PageInv'
  <1>1. CASE DownloadEnds(i)
    <2>1. /\ i \in underWay /\ calls[i].op = "pdf" /\ calls[i].step = "answered"
          /\ Finish(i) /\ db' = db /\ ui \in Ui /\ OwnCalls
      BY <1>1, AnswerTyped DEF DownloadEnds
    <2>2. ui' = [ui EXCEPT !.isDownloadingPdf = FALSE]
      BY <1>1 DEF DownloadEnds
    <2>3. /\ ui' \in Ui /\ ui'.error = ui.error /\ ui'.exact = ui.exact
          /\ ui'.savingReport = ui.savingReport /\ ui'.removing = ui.removing
          /\ ui'.orphans = ui.orphans /\ ui'.inspection = ui.inspection
          /\ \A x \in ButtonOps : Buttons(ui')[x] <=> Buttons(ui)[x] /\ x # "pdf"
      BY <2>1, <2>2, ButtonFalls DEF ButtonOps
    <2>4. "pdf" \in Ops /\ ui'.orphans \subseteq (callsTo("report") \cup callsTo("remove")) \ {i}
      BY <2>1, <2>3, PageNames DEF OwnCalls, Ops
    <2>5. QED
      BY <2>1, <2>3, <2>4, PageTakes
  <1>2. CASE DeleteAnswered(i)
    <2>1. /\ i \in underWay /\ calls[i].op = "delete" /\ calls[i].step = "answered"
          /\ Finish(i) /\ db' = db /\ ui \in Ui /\ OwnCalls
      BY <1>2, AnswerTyped DEF DeleteAnswered
    <2>2. ui' = [ui EXCEPT !.isDeleting = FALSE]
      BY <1>2 DEF DeleteAnswered
    <2>3. /\ ui' \in Ui /\ ui'.error = ui.error /\ ui'.exact = ui.exact
          /\ ui'.savingReport = ui.savingReport /\ ui'.removing = ui.removing
          /\ ui'.orphans = ui.orphans /\ ui'.inspection = ui.inspection
          /\ \A x \in ButtonOps : Buttons(ui')[x] <=> Buttons(ui)[x] /\ x # "delete"
      BY <2>1, <2>2, ButtonFalls DEF ButtonOps
    <2>4. "delete" \in Ops /\ ui'.orphans \subseteq (callsTo("report") \cup callsTo("remove")) \ {i}
      BY <2>1, <2>3, PageNames DEF OwnCalls, Ops
    <2>5. QED
      BY <2>1, <2>3, <2>4, PageTakes
  <1>3. QED
    BY <1>1, <1>2

LEMMA ReportTaken ==
    ASSUME PageInv, NEW i, ReportAnswered(i)
    PROVE  PageInv'
  <1>1. /\ i \in underWay /\ calls[i].op = "report" /\ calls[i].step = "answered"
        /\ Finish(i) /\ db' = db /\ CallTyped(calls[i]) /\ ui \in Ui /\ OwnCalls
    BY AnswerTyped DEF ReportAnswered
  <1>2. PICK still \in BOOLEAN : still <=> ui.savingReport /\ i \in ui.orphans
    OBVIOUS
  <1>3. ui.savingReport \in BOOLEAN
    BY <1>1 DEF Ui
  <1>4. PICK u : u = [ui EXCEPT !.savingReport = still]
    OBVIOUS
  <1>5. u = [ui EXCEPT !.savingReport = IF i \in ui.orphans THEN @ ELSE FALSE]
    BY <1>2, <1>3, <1>4
  <1>6. /\ u \in Ui /\ u.savingReport = still /\ u.error = ui.error /\ u.exact = ui.exact
        /\ u.removing = ui.removing /\ u.orphans = ui.orphans /\ u.inspection = ui.inspection
        /\ Buttons(u) = Buttons(ui)
    BY <1>1, <1>4 DEF Ui, Buttons
  <1>7. "report" \in Ops /\ "report" \notin ButtonOps /\ i \notin callsTo("remove")
    BY <1>1, PageNames DEF Ops, ButtonOps
  <1>8. CASE calls[i].ok
    <2>1. PICK x : x = withReport(calls[i].arg.inspection, calls[i].data)
      OBVIOUS
    <2>2. x \in Inspection
      BY <1>1, <1>8, <2>1 DEF CallTyped, withReport, Inspection
    <2>3. PICK v : v = setInspection(u, x)
      OBVIOUS
    <2>4. PICK w : w = withForm(v, None)
      OBVIOUS
    <2>5. /\ v \in Ui /\ v.inspection = x /\ v.removing = u.removing \cap x.reports
          /\ v.orphans = u.orphans
                         \cup {j \in callsTo("remove") : calls[j].arg.report \notin x.reports}
          /\ Buttons(v) = Buttons(u) /\ v.error = u.error /\ v.exact = u.exact
      BY <1>6, <2>2, <2>3, InspectionIsSet
    <2>6. /\ w \in Ui /\ ~w.savingReport /\ w.orphans = v.orphans \cup callsTo("report")
          /\ w.removing = v.removing /\ Buttons(w) = Buttons(v) /\ w.error = v.error
          /\ w.exact = v.exact /\ w.inspection = v.inspection
      BY <2>4, <2>5, FormIsPut
    <2>7. ui' = [w EXCEPT !.orphans = @ \ {i}]
      BY <1>5, <1>8, <2>1, <2>3, <2>4 DEF ReportAnswered
    <2>8. /\ ui' \in Ui /\ ~ui'.savingReport /\ ui'.orphans = w.orphans \ {i}
          /\ ui'.removing = w.removing /\ Buttons(ui') = Buttons(w) /\ ui'.error = w.error
          /\ ui'.exact = w.exact /\ ui'.inspection = w.inspection
      BY <2>6, <2>7 DEF Ui, Buttons
    <2>9. ui'.orphans \subseteq (callsTo("report") \cup callsTo("remove")) \ {i}
      BY <1>1, <1>6, <2>5, <2>6, <2>8 DEF OwnCalls
    <2>10. \A r \in ui'.removing :
              /\ r \in ui.removing
              /\ \A j \in callsTo("remove") :
                    calls[j].arg.report = r /\ j \in ui'.orphans => j \in ui.orphans
      <3>1. \A j \in callsTo("remove") : j \notin callsTo("report")
        BY PageNames
      <3>2. QED
        BY <1>6, <2>5, <2>6, <2>8, <3>1
    <2>11. \A y \in ButtonOps : Buttons(ui')[y] <=> Buttons(ui)[y] /\ y # "report"
      BY <1>6, <1>7, <2>5, <2>6, <2>8
    <2>12. ui'.exact = ui.exact /\ ui'.error = ui.error /\ ui'.inspection = x
      BY <1>6, <2>5, <2>6, <2>8
    <2>13. QED
      BY <1>1, <1>7, <1>8, <2>1, <2>8, <2>9, <2>10, <2>11, <2>12, PageTakes
  <1>9. CASE ~calls[i].ok
    <2>1. ui' = [u EXCEPT !.orphans = @ \ {i}]
      BY <1>5, <1>9 DEF ReportAnswered
    <2>2. /\ ui' \in Ui /\ ui'.savingReport = still /\ ui'.orphans = ui.orphans \ {i}
          /\ ui'.removing = ui.removing /\ Buttons(ui') = Buttons(ui) /\ ui'.error = ui.error
          /\ ui'.exact = ui.exact /\ ui'.inspection = ui.inspection
      BY <1>6, <2>1 DEF Ui, Buttons
    <2>3. ui'.orphans \subseteq (callsTo("report") \cup callsTo("remove")) \ {i}
      BY <1>1, <2>2 DEF OwnCalls
    <2>4. QED
      BY <1>1, <1>2, <1>7, <1>9, <2>2, <2>3, PageTakes
  <1>10. QED
    BY <1>8, <1>9

LEMMA RemoveTaken ==
    ASSUME PageInv, NEW i, RemoveAnswered(i)
    PROVE  PageInv'
  <1>1. /\ i \in underWay /\ calls[i].op = "remove" /\ calls[i].step = "answered"
        /\ Finish(i) /\ db' = db /\ CallTyped(calls[i]) /\ ui \in Ui /\ OwnCalls
    BY AnswerTyped DEF RemoveAnswered
  <1>2. PICK still : still = IF i \in ui.orphans THEN ui.removing
                             ELSE ui.removing \ {calls[i].arg.report}
    OBVIOUS
  <1>3. PICK u : u = [ui EXCEPT !.removing = still]
    OBVIOUS
  <1>4. u = [ui EXCEPT !.removing = IF i \in ui.orphans THEN @ ELSE @ \ {calls[i].arg.report}]
    BY <1>2, <1>3
  <1>5. still \subseteq ui.removing /\ (i \notin ui.orphans => calls[i].arg.report \notin still)
    BY <1>2
  <1>6. /\ u \in Ui /\ u.savingReport = ui.savingReport /\ u.error = ui.error /\ u.exact = ui.exact
        /\ u.removing = still /\ u.orphans = ui.orphans /\ u.inspection = ui.inspection
        /\ Buttons(u) = Buttons(ui)
    BY <1>1, <1>3, <1>5 DEF Ui, Buttons
  <1>7. "remove" \in Ops /\ "remove" \notin ButtonOps /\ i \notin callsTo("report")
    BY <1>1, PageNames DEF Ops, ButtonOps
  <1>8. CASE calls[i].ok
    <2>1. PICK x : x = withoutReport(calls[i].arg.inspection, calls[i].arg.report)
      OBVIOUS
    <2>2. x \in Inspection
      BY <1>1, <2>1 DEF CallTyped, withoutReport, Inspection
    <2>3. PICK v : v = setInspection(u, x)
      OBVIOUS
    <2>4. /\ v \in Ui /\ v.inspection = x /\ v.removing = u.removing \cap x.reports
          /\ v.orphans = u.orphans
                         \cup {j \in callsTo("remove") : calls[j].arg.report \notin x.reports}
          /\ Buttons(v) = Buttons(u) /\ v.error = u.error /\ v.exact = u.exact
          /\ v.savingReport = u.savingReport
      BY <1>6, <2>2, <2>3, InspectionIsSet
    <2>5. ui' = [v EXCEPT !.orphans = @ \ {i}]
      BY <1>4, <1>8, <2>1, <2>3 DEF RemoveAnswered
    <2>6. /\ ui' \in Ui /\ ui'.savingReport = ui.savingReport /\ ui'.orphans = v.orphans \ {i}
          /\ ui'.removing = v.removing /\ Buttons(ui') = Buttons(v) /\ ui'.error = ui.error
          /\ ui'.exact = ui.exact /\ ui'.inspection = x
      BY <1>6, <2>4, <2>5 DEF Ui, Buttons
    <2>7. ui'.orphans \subseteq (callsTo("report") \cup callsTo("remove")) \ {i}
      BY <1>1, <1>6, <2>4, <2>6 DEF OwnCalls
    <2>8. ui'.orphans \cap callsTo("report") \subseteq ui.orphans
      BY <1>6, <2>4, <2>6, PageNames
    <2>9. \A r \in ui'.removing :
             /\ r \in ui.removing
             /\ \A j \in callsTo("remove") :
                   calls[j].arg.report = r /\ j \in ui'.orphans => j \in ui.orphans
             /\ i \notin ui.orphans => calls[i].arg.report # r
      BY <1>5, <1>6, <2>4, <2>6
    <2>10. \A y \in ButtonOps : Buttons(ui')[y] <=> Buttons(ui)[y] /\ y # "remove"
      BY <1>6, <1>7, <2>4, <2>6
    <2>11. QED
      BY <1>1, <1>7, <1>8, <2>1, <2>6, <2>7, <2>8, <2>9, <2>10, PageTakes
  <1>9. CASE ~calls[i].ok
    <2>1. ui' = [u EXCEPT !.orphans = @ \ {i}]
      BY <1>4, <1>9 DEF RemoveAnswered
    <2>2. /\ ui' \in Ui /\ ui'.savingReport = ui.savingReport /\ ui'.orphans = ui.orphans \ {i}
          /\ ui'.removing = still /\ Buttons(ui') = Buttons(ui) /\ ui'.error = ui.error
          /\ ui'.exact = ui.exact /\ ui'.inspection = ui.inspection
      BY <1>6, <2>1 DEF Ui, Buttons
    <2>3. ui'.orphans \subseteq (callsTo("report") \cup callsTo("remove")) \ {i}
      BY <1>1, <2>2 DEF OwnCalls
    <2>4. QED
      BY <1>1, <1>5, <1>7, <1>9, <2>2, <2>3, PageTakes
  <1>10. QED
    BY <1>8, <1>9

-----------------------------------------------------------------------------
(* The operator *)

\* The flag of one button rises.
LEMMA ButtonRises ==
    ASSUME NEW u \in Ui, NEW op \in ButtonOps \ {"load"}, NEW v,
           v = CASE op = "status" -> [u EXCEPT !.savingStatus = TRUE]
                 [] op = "decide" -> [u EXCEPT !.savingAction = TRUE]
                 [] op = "update" -> [u EXCEPT !.savingForm = TRUE]
                 [] op = "delete" -> [u EXCEPT !.isDeleting = TRUE]
                 [] OTHER -> [u EXCEPT !.isDownloadingPdf = TRUE]
    PROVE  /\ v \in Ui /\ v.exact = u.exact /\ v.savingReport = u.savingReport
           /\ v.removing = u.removing /\ v.orphans = u.orphans /\ v.inspection = u.inspection
           /\ v.selectedStatus = u.selectedStatus /\ v.selectedAction = u.selectedAction
           /\ v.draft = u.draft /\ v.reportForm = u.reportForm
           /\ v.error = u.error
           /\ \A x \in ButtonOps : Buttons(v)[x] <=> Buttons(u)[x] \/ x = op
  <1>1. CASE op = "status"
    <2>1. v = [u EXCEPT !.savingStatus = TRUE]
      BY <1>1
    <2>2. /\ v \in Ui /\ v.exact = u.exact /\ v.savingReport = u.savingReport
          /\ v.removing = u.removing /\ v.orphans = u.orphans /\ v.inspection = u.inspection
          /\ v.selectedStatus = u.selectedStatus /\ v.selectedAction = u.selectedAction
          /\ v.draft = u.draft /\ v.reportForm = u.reportForm
          /\ v.error = u.error
          /\ v.savingStatus = TRUE /\ v.isLoading = u.isLoading /\ v.savingAction = u.savingAction /\ v.savingForm = u.savingForm
          /\ v.isDeleting = u.isDeleting /\ v.isDownloadingPdf = u.isDownloadingPdf
      BY <2>1 DEF Ui
    <2>3. \A x \in ButtonOps : Buttons(v)[x] <=> Buttons(u)[x] \/ x = op
      BY <1>1, <2>2, ButtonNames DEF ButtonOps
    <2>4. QED
      BY <2>2, <2>3
  <1>2. CASE op = "decide"
    <2>1. v = [u EXCEPT !.savingAction = TRUE]
      BY <1>2
    <2>2. /\ v \in Ui /\ v.exact = u.exact /\ v.savingReport = u.savingReport
          /\ v.removing = u.removing /\ v.orphans = u.orphans /\ v.inspection = u.inspection
          /\ v.selectedStatus = u.selectedStatus /\ v.selectedAction = u.selectedAction
          /\ v.draft = u.draft /\ v.reportForm = u.reportForm
          /\ v.error = u.error
          /\ v.savingAction = TRUE /\ v.isLoading = u.isLoading /\ v.savingStatus = u.savingStatus /\ v.savingForm = u.savingForm
          /\ v.isDeleting = u.isDeleting /\ v.isDownloadingPdf = u.isDownloadingPdf
      BY <2>1 DEF Ui
    <2>3. \A x \in ButtonOps : Buttons(v)[x] <=> Buttons(u)[x] \/ x = op
      BY <1>2, <2>2, ButtonNames DEF ButtonOps
    <2>4. QED
      BY <2>2, <2>3
  <1>3. CASE op = "update"
    <2>1. v = [u EXCEPT !.savingForm = TRUE]
      BY <1>3
    <2>2. /\ v \in Ui /\ v.exact = u.exact /\ v.savingReport = u.savingReport
          /\ v.removing = u.removing /\ v.orphans = u.orphans /\ v.inspection = u.inspection
          /\ v.selectedStatus = u.selectedStatus /\ v.selectedAction = u.selectedAction
          /\ v.draft = u.draft /\ v.reportForm = u.reportForm
          /\ v.error = u.error
          /\ v.savingForm = TRUE /\ v.isLoading = u.isLoading /\ v.savingStatus = u.savingStatus /\ v.savingAction = u.savingAction
          /\ v.isDeleting = u.isDeleting /\ v.isDownloadingPdf = u.isDownloadingPdf
      BY <2>1 DEF Ui
    <2>3. \A x \in ButtonOps : Buttons(v)[x] <=> Buttons(u)[x] \/ x = op
      BY <1>3, <2>2, ButtonNames DEF ButtonOps
    <2>4. QED
      BY <2>2, <2>3
  <1>4. CASE op = "delete"
    <2>1. v = [u EXCEPT !.isDeleting = TRUE]
      BY <1>4
    <2>2. /\ v \in Ui /\ v.exact = u.exact /\ v.savingReport = u.savingReport
          /\ v.removing = u.removing /\ v.orphans = u.orphans /\ v.inspection = u.inspection
          /\ v.selectedStatus = u.selectedStatus /\ v.selectedAction = u.selectedAction
          /\ v.draft = u.draft /\ v.reportForm = u.reportForm
          /\ v.error = u.error
          /\ v.isDeleting = TRUE /\ v.isLoading = u.isLoading /\ v.savingStatus = u.savingStatus /\ v.savingAction = u.savingAction
          /\ v.savingForm = u.savingForm /\ v.isDownloadingPdf = u.isDownloadingPdf
      BY <2>1 DEF Ui
    <2>3. \A x \in ButtonOps : Buttons(v)[x] <=> Buttons(u)[x] \/ x = op
      BY <1>4, <2>2, ButtonNames DEF ButtonOps
    <2>4. QED
      BY <2>2, <2>3
  <1>5. CASE op = "pdf"
    <2>1. v = [u EXCEPT !.isDownloadingPdf = TRUE]
      BY <1>5
    <2>2. /\ v \in Ui /\ v.exact = u.exact /\ v.savingReport = u.savingReport
          /\ v.removing = u.removing /\ v.orphans = u.orphans /\ v.inspection = u.inspection
          /\ v.selectedStatus = u.selectedStatus /\ v.selectedAction = u.selectedAction
          /\ v.draft = u.draft /\ v.reportForm = u.reportForm
          /\ v.error = u.error
          /\ v.isDownloadingPdf = TRUE /\ v.isLoading = u.isLoading /\ v.savingStatus = u.savingStatus /\ v.savingAction = u.savingAction
          /\ v.savingForm = u.savingForm /\ v.isDeleting = u.isDeleting
      BY <2>1 DEF Ui
    <2>3. \A x \in ButtonOps : Buttons(v)[x] <=> Buttons(u)[x] \/ x = op
      BY <1>5, <2>2, ButtonNames DEF ButtonOps
    <2>4. QED
      BY <2>2, <2>3
  <1>6. QED
    BY <1>1, <1>2, <1>3, <1>4, <1>5 DEF ButtonOps

\* A change that is sent.
LEMMA ChangeSent ==
    ASSUME PageInv, NEW op \in changes, NEW arg, NEW u \in Ui, Changes(op, arg, u),
           \A x \in ButtonOps : Buttons(u)[x] <=> Buttons(ui)[x] \/ x = op,
           op \in ButtonOps => ~Buttons(ui)[op],
           CallTyped(Sent(op, arg)),
           u.inspection = ui.inspection, u.orphans = ui.orphans, u.error = ui.error, u.exact = ui.exact,
           u.savingReport => ui.savingReport \/ op = "report",
           \A r \in u.removing : r \in ui.removing \/ (op = "remove" /\ arg.report = r),
           op \in {"report", "remove"} => arg.inspection = ui.inspection,
           ~ui.isLoading, ~ui.error
    PROVE  PageInv'
  <1>1. Call(op, arg) /\ db' = db
    BY DEF Changes
  <1>2. PICK x \in BOOLEAN : x <=> u.exact /\ callsOf(changes) = {}
    OBVIOUS
  <1>3. u.exact \in BOOLEAN
    BY DEF Ui
  <1>4. ui' = [u EXCEPT !.exact = x]
    BY <1>2, <1>3 DEF Changes
  <1>5. /\ ui' \in Ui /\ ui'.exact = x /\ ui'.inspection = u.inspection /\ ui'.orphans = u.orphans
        /\ ui'.error = u.error /\ ui'.savingReport = u.savingReport /\ ui'.removing = u.removing
        /\ ui'.isLoading = u.isLoading /\ Buttons(ui') = Buttons(u)
    BY <1>4 DEF Ui, Buttons
  <1>6. op \in Ops /\ op # "load" /\ "load" \in ButtonOps
    BY DEF changes, Ops, ButtonOps
  <1>7. ui'.isLoading <=> ui.isLoading
    BY <1>5, <1>6, ButtonNames
  <1>8. QED
    BY <1>1, <1>2, <1>5, <1>6, <1>7, PageSends

\* The page that can be used shows an inspection, and no error.
LEMMA ShownIsQuiet ==
    ASSUME PageInv
    PROVE  /\ ui \in Ui /\ OwnCalls
           /\ shown \/ ui.selectedStatus # None \/ ui.selectedAction # None \/ ui.draft # None =>
                  ~ui.isLoading /\ ~ui.error
           /\ shown => ui.inspection \in Inspection
           /\ ~ui.isLoading => ~Buttons(ui)["load"]
  BY ButtonNames DEF PageInv, Typed, Quiet, shown, Ui

LEMMA TryAgainKeeps ==
    ASSUME PageInv, TryAgain
    PROVE  PageInv'
  <1>1. ui \in Ui /\ Call("load", None) /\ db' = db /\ ~ui.isLoading /\ ui.error
    BY ShownIsQuiet DEF TryAgain
  <1>2. ui' = [ui EXCEPT !.isLoading = TRUE, !.error = FALSE]
    BY DEF TryAgain
  <1>3. /\ ui' \in Ui /\ ui'.exact = ui.exact /\ ui'.savingReport = ui.savingReport
        /\ ui'.removing = ui.removing /\ ui'.orphans = ui.orphans /\ ui'.inspection = ui.inspection
        /\ ui'.selectedStatus = ui.selectedStatus /\ ui'.selectedAction = ui.selectedAction
        /\ ui'.draft = ui.draft /\ ui'.reportForm = ui.reportForm /\ ~ui'.error /\ ui'.isLoading
        /\ ui'.savingStatus = ui.savingStatus /\ ui'.savingAction = ui.savingAction
        /\ ui'.savingForm = ui.savingForm /\ ui'.isDeleting = ui.isDeleting
        /\ ui'.isDownloadingPdf = ui.isDownloadingPdf
    BY <1>1, <1>2 DEF Ui
  <1>4. /\ "load" \in ButtonOps /\ "load" \in Ops /\ "load" \notin changes /\ ~Buttons(ui)["load"]
        /\ CallTyped(Sent("load", None))
    BY <1>1, CallIsSome, ButtonNames DEF ButtonOps, Ops, changes, CallTyped
  <1>5. \A x \in ButtonOps : Buttons(ui')[x] <=> Buttons(ui)[x] \/ x = "load"
    BY <1>3, ButtonNames DEF ButtonOps
  <1>6. QED
    BY <1>1, <1>3, <1>4, <1>5, PageSends

\* A file or a deletion is asked for.
LEMMA HeaderSends ==
    ASSUME PageInv, handleDownloadPdf \/ handleDelete
    PROVE  PageInv'
  <1>1. ui \in Ui /\ ~ui.isLoading /\ ~ui.error /\ db' = db
    BY ShownIsQuiet DEF handleDownloadPdf, handleDelete, headerShown
  <1>2. ASSUME NEW op \in {"pdf", "delete"}, Call(op, None), ~Buttons(ui)[op],
               ui' = CASE op = "delete" -> [ui EXCEPT !.isDeleting = TRUE]
                       [] OTHER -> [ui EXCEPT !.isDownloadingPdf = TRUE]
        PROVE  PageInv'
    <2>1. op \in ButtonOps /\ op \in Ops /\ op \notin changes /\ "load" \in ButtonOps /\ op # "load"
      BY DEF ButtonOps, Ops, changes
    <2>2. CallTyped(Sent(op, None))
      BY <2>1, CallIsSome DEF CallTyped
    <2>3. ui' = CASE op = "status" -> [ui EXCEPT !.savingStatus = TRUE]
                  [] op = "decide" -> [ui EXCEPT !.savingAction = TRUE]
                  [] op = "update" -> [ui EXCEPT !.savingForm = TRUE]
                  [] op = "delete" -> [ui EXCEPT !.isDeleting = TRUE]
                  [] OTHER -> [ui EXCEPT !.isDownloadingPdf = TRUE]
      BY <1>2
    <2>4. /\ ui' \in Ui /\ ui'.exact = ui.exact /\ ui'.savingReport = ui.savingReport
          /\ ui'.removing = ui.removing /\ ui'.orphans = ui.orphans /\ ui'.inspection = ui.inspection
          /\ ui'.error = ui.error
          /\ \A x \in ButtonOps : Buttons(ui')[x] <=> Buttons(ui)[x] \/ x = op
      BY <1>1, <2>1, <2>3, ButtonRises
    <2>5. ~ui'.isLoading /\ ~ui'.error
      BY <1>1, <2>1, <2>4, ButtonNames
    <2>6. QED
      BY <1>1, <1>2, <2>1, <2>2, <2>4, <2>5, PageSends
  <1>3. CASE handleDownloadPdf
    BY <1>2, <1>3, ButtonNames DEF handleDownloadPdf
  <1>4. CASE handleDelete
    BY <1>2, <1>4, ButtonNames DEF handleDelete
  <1>5. QED
    BY <1>3, <1>4

LEMMA StatusSent ==
    ASSUME PageInv, handleStatusChange
    PROVE  PageInv'
  <1>1. PICK u : u = [ui EXCEPT !.savingStatus = TRUE]
    OBVIOUS
  <1>2. ui \in Ui /\ ~ui.isLoading /\ ~ui.error /\ ~ui.savingStatus /\ ui.selectedStatus # None
    BY ShownIsQuiet DEF handleStatusChange
  <1>3. Changes("status", ui.selectedStatus, u)
    BY <1>1 DEF handleStatusChange
  <1>4. "status" \in changes /\ "status" \in ButtonOps /\ ~Buttons(ui)["status"]
    BY <1>2, ButtonNames DEF changes, ButtonOps
  <1>5. CallTyped(Sent("status", ui.selectedStatus))
    BY <1>2, CallIsSome DEF CallTyped, Ui, Ops
  <1>6. /\ u \in Ui /\ u.exact = ui.exact /\ u.savingReport = ui.savingReport
        /\ u.removing = ui.removing /\ u.orphans = ui.orphans /\ u.inspection = ui.inspection
        /\ u.error = ui.error
    BY <1>1, <1>2 DEF Ui
  <1>7. \A x \in ButtonOps : Buttons(u)[x] <=> Buttons(ui)[x] \/ x = "status"
    BY <1>1, <1>2, <1>4, ButtonRises
  <1>8. QED
    BY <1>2, <1>3, <1>4, <1>5, <1>6, <1>7, ChangeSent

LEMMA ActionSent ==
    ASSUME PageInv, handleAction
    PROVE  PageInv'
  <1>1. PICK u : u = [ui EXCEPT !.savingAction = TRUE]
    OBVIOUS
  <1>2. ui \in Ui /\ ~ui.isLoading /\ ~ui.error /\ ~ui.savingAction /\ ui.selectedAction # None
    BY ShownIsQuiet DEF handleAction
  <1>3. Changes("decide", ui.selectedAction, u)
    BY <1>1 DEF handleAction
  <1>4. "decide" \in changes /\ "decide" \in ButtonOps /\ ~Buttons(ui)["decide"]
    BY <1>2, ButtonNames DEF changes, ButtonOps
  <1>5. CallTyped(Sent("decide", ui.selectedAction))
    BY <1>2, CallIsSome DEF CallTyped, Ui, Ops
  <1>6. /\ u \in Ui /\ u.exact = ui.exact /\ u.savingReport = ui.savingReport
        /\ u.removing = ui.removing /\ u.orphans = ui.orphans /\ u.inspection = ui.inspection
        /\ u.error = ui.error
    BY <1>1, <1>2 DEF Ui
  <1>7. \A x \in ButtonOps : Buttons(u)[x] <=> Buttons(ui)[x] \/ x = "decide"
    BY <1>1, <1>2, <1>4, ButtonRises
  <1>8. QED
    BY <1>2, <1>3, <1>4, <1>5, <1>6, <1>7, ChangeSent

LEMMA EditSent ==
    ASSUME PageInv, SubmitEdit
    PROVE  PageInv'
  <1>1. PICK u : u = [ui EXCEPT !.savingForm = TRUE]
    OBVIOUS
  <1>2. ui \in Ui /\ ~ui.isLoading /\ ~ui.error /\ ~ui.savingForm /\ ui.draft # None
    BY ShownIsQuiet DEF SubmitEdit, isEditing
  <1>3. Changes("update", ui.draft, u)
    BY <1>1 DEF SubmitEdit
  <1>4. "update" \in changes /\ "update" \in ButtonOps /\ ~Buttons(ui)["update"]
    BY <1>2, ButtonNames DEF changes, ButtonOps
  <1>5. CallTyped(Sent("update", ui.draft))
    BY <1>2, CallIsSome DEF CallTyped, Ui, Ops
  <1>6. /\ u \in Ui /\ u.exact = ui.exact /\ u.savingReport = ui.savingReport
        /\ u.removing = ui.removing /\ u.orphans = ui.orphans /\ u.inspection = ui.inspection
        /\ u.error = ui.error
    BY <1>1, <1>2 DEF Ui
  <1>7. \A x \in ButtonOps : Buttons(u)[x] <=> Buttons(ui)[x] \/ x = "update"
    BY <1>1, <1>2, <1>4, ButtonRises
  <1>8. QED
    BY <1>2, <1>3, <1>4, <1>5, <1>6, <1>7, ChangeSent

LEMMA ReportSent ==
    ASSUME PageInv, SubmitReport
    PROVE  PageInv'
  <1>1. PICK u : u = [ui EXCEPT !.savingReport = TRUE]
    OBVIOUS
  <1>2. PICK arg : arg = [report |-> ui.reportForm, inspection |-> ui.inspection]
    OBVIOUS
  <1>3. ui \in Ui /\ ~ui.isLoading /\ ~ui.error /\ ui.reportForm # None /\ ui.inspection \in Inspection
    BY ShownIsQuiet DEF SubmitReport, reportsShown
  <1>4. Changes("report", arg, u)
    BY <1>1, <1>2 DEF SubmitReport
  <1>5. "report" \in changes /\ "report" \notin ButtonOps
    BY DEF changes, ButtonOps
  <1>6. arg \in [report: Reports \cup {New}, inspection: Inspection] /\ arg.inspection = ui.inspection
    BY <1>2, <1>3 DEF Ui
  <1>7. CallTyped(Sent("report", arg))
    BY <1>6, CallIsSome DEF CallTyped, Ops
  <1>8. /\ u \in Ui /\ u.exact = ui.exact /\ u.removing = ui.removing /\ u.orphans = ui.orphans
        /\ u.inspection = ui.inspection /\ u.error = ui.error /\ Buttons(u) = Buttons(ui)
    BY <1>1, <1>3 DEF Ui, Buttons
  <1>9. QED
    BY <1>3, <1>4, <1>5, <1>6, <1>7, <1>8, ChangeSent

LEMMA RemoveSent ==
    ASSUME PageInv, NEW r \in Reports, handleRemove(r)
    PROVE  PageInv'
  <1>1. PICK u : u = [ui EXCEPT !.removing = @ \cup {r}]
    OBVIOUS
  <1>2. PICK arg : arg = [report |-> r, inspection |-> ui.inspection]
    OBVIOUS
  <1>3. ui \in Ui /\ ~ui.isLoading /\ ~ui.error /\ ui.inspection \in Inspection
    BY ShownIsQuiet DEF handleRemove, reportsShown
  <1>4. Changes("remove", arg, u)
    BY <1>1, <1>2 DEF handleRemove
  <1>5. "remove" \in changes /\ "remove" \notin ButtonOps
    BY DEF changes, ButtonOps
  <1>6. /\ arg \in [report: Reports, inspection: Inspection] /\ arg.inspection = ui.inspection
        /\ arg.report = r
    BY <1>2, <1>3
  <1>7. CallTyped(Sent("remove", arg))
    BY <1>6, CallIsSome DEF CallTyped, Ops
  <1>8. /\ u \in Ui /\ u.exact = ui.exact /\ u.removing = ui.removing \cup {r} /\ u.orphans = ui.orphans
        /\ u.inspection = ui.inspection /\ u.error = ui.error /\ Buttons(u) = Buttons(ui)
        /\ u.savingReport = ui.savingReport
    BY <1>1, <1>3 DEF Ui, Buttons
  <1>9. QED
    BY <1>3, <1>4, <1>5, <1>6, <1>7, <1>8, ChangeSent

\* What is selected, drafted or opened is only kept.
LEMMA SelectionKeeps ==
    ASSUME PageInv, SelectStatus \/ SelectAction \/ ChooseStatus \/ CancelEdit
    PROVE  PageInv'
  <1>1. /\ ui \in Ui /\ ~ui.isLoading /\ ~ui.error /\ db' = db /\ calls' = calls /\ OwnCalls
        /\ shown => ui.inspection \in Inspection
    BY ShownIsQuiet DEF SelectStatus, SelectAction, ChooseStatus, CancelEdit, isEditing
  <1>2. \/ \E s \in SelectedStatus \cup {None} : ui' = [ui EXCEPT !.selectedStatus = s]
        \/ \E a \in SelectedAction \cup {None} : ui' = [ui EXCEPT !.selectedAction = a]
        \/ \E d \in service!InspectionStatus \cup {None} : ui' = [ui EXCEPT !.draft = d]
    <2>1. CASE SelectStatus
      <3>1. \A s : statusTransitions(s) \subseteq service!InspectionStatus
        BY DEF statusTransitions, service!InspectionStatus
      <3>2. ui.inspection.status \in service!InspectionStatus
        BY <1>1, <2>1 DEF SelectStatus, Inspection
      <3>3. QED
        BY <2>1, <3>1, <3>2 DEF SelectStatus, SelectedStatus
    <2>2. CASE SelectAction
      <3>1. \A a : availableActions(a) \subseteq Decisions
        BY DEF availableActions, Decisions
      <3>2. ui.inspection.approval \in service!InspectionApprovalStatus
        BY <1>1, <2>2 DEF SelectAction, Inspection
      <3>3. QED
        BY <2>2, <3>1, <3>2 DEF SelectAction, SelectedAction
    <2>3. QED
      BY <2>1, <2>2 DEF ChooseStatus, CancelEdit
  <1>3. /\ ui' \in Ui /\ Buttons(ui') = Buttons(ui) /\ ui'.isLoading = ui.isLoading
        /\ ui'.error = ui.error /\ ui'.inspection = ui.inspection /\ ui'.exact = ui.exact
        /\ ui'.orphans = ui.orphans /\ ui'.savingReport = ui.savingReport /\ ui'.removing = ui.removing
    BY <1>1, <1>2 DEF Ui, Buttons
  <1>4. ui'.orphans \subseteq callsTo("report") \cup callsTo("remove")
    BY <1>1, <1>3 DEF OwnCalls
  <1>5. QED
    BY <1>1, <1>3, <1>4, PageKeeps

\* The reports go out of sight, with what their forms and cards were doing.
LEMMA HidingKeeps ==
    ASSUME PageInv, ToggleExpanded \/ Edit
    PROVE  PageInv'
  <1>1. /\ ui \in Ui /\ ~ui.isLoading /\ ~ui.error /\ db' = db /\ calls' = calls /\ OwnCalls
        /\ ui.inspection \in Inspection
    BY ShownIsQuiet DEF ToggleExpanded, Edit, headerShown
  <1>2. PICK v : v = reportsHidden(ui)
    OBVIOUS
  <1>3. /\ v \in Ui /\ v.savingReport = FALSE /\ v.removing = {}
        /\ v.orphans = ui.orphans \cup callsTo("report") \cup callsTo("remove")
        /\ Buttons(v) = Buttons(ui) /\ v.error = ui.error /\ v.exact = ui.exact
        /\ v.inspection = ui.inspection /\ v.isLoading = ui.isLoading
    BY <1>1, <1>2, ReportsAreHidden
  <1>4. \/ ui' = [v EXCEPT !.isExpanded = ~@]
        \/ ui' = [v EXCEPT !.draft = ui.inspection.status]
    BY <1>2 DEF ToggleExpanded, Edit
  <1>5. ui.inspection.status \in service!InspectionStatus
    BY <1>1 DEF Inspection
  <1>6. /\ ui' \in Ui /\ Buttons(ui') = Buttons(v) /\ ui'.isLoading = v.isLoading
        /\ ui'.error = v.error /\ ui'.inspection = v.inspection /\ ui'.exact = v.exact
        /\ ui'.orphans = v.orphans /\ ui'.savingReport = FALSE /\ ui'.removing = {}
    <2>1. CASE ui' = [v EXCEPT !.isExpanded = ~@]
      BY <1>3, <2>1 DEF Ui, Buttons
    <2>2. CASE ui' = [v EXCEPT !.draft = ui.inspection.status]
      BY <1>3, <1>5, <2>2 DEF Ui, Buttons
    <2>3. QED
      BY <1>4, <2>1, <2>2
  <1>7. ui'.orphans \subseteq callsTo("report") \cup callsTo("remove")
    BY <1>1, <1>3, <1>6 DEF OwnCalls
  <1>8. QED
    BY <1>1, <1>3, <1>6, <1>7, PageKeeps

\* A form of a report is opened, changed for another or closed.
LEMMA FormKeeps ==
    ASSUME PageInv, OpenReport \/ CancelReport
    PROVE  PageInv'
  <1>1. /\ ui \in Ui /\ ~ui.isLoading /\ ~ui.error /\ db' = db /\ calls' = calls /\ OwnCalls
        /\ ui.inspection \in Inspection
    BY ShownIsQuiet DEF OpenReport, CancelReport, reportsShown
  <1>2. PICK r \in Reports \cup {New, None} : ui' = withForm(ui, r)
    BY <1>1 DEF OpenReport, CancelReport, Inspection
  <1>3. /\ ui' \in Ui
        /\ \/ ui'.savingReport = ui.savingReport /\ ui'.orphans = ui.orphans
           \/ ~ui'.savingReport /\ ui'.orphans = ui.orphans \cup callsTo("report")
        /\ ui'.removing = ui.removing /\ Buttons(ui') = Buttons(ui) /\ ui'.error = ui.error
        /\ ui'.exact = ui.exact /\ ui'.inspection = ui.inspection /\ ui'.isLoading = ui.isLoading
    BY <1>1, <1>2, FormIsPut
  <1>4. ui'.orphans \subseteq callsTo("report") \cup callsTo("remove")
    BY <1>1, <1>3 DEF OwnCalls
  <1>5. ui'.orphans \cap callsTo("remove") \subseteq ui.orphans
    BY <1>3, PageNames
  <1>6. QED
    BY <1>1, <1>3, <1>4, <1>5, PageKeeps

-----------------------------------------------------------------------------
(* Every step *)

\* The invariant of the page is kept by the operator, by others, by the API and
\* by every answer.
LEMMA PageNext ==
    ASSUME PageInv, Next
    PROVE  PageInv'
  <1>1. CASE Operator
    BY <1>1, TryAgainKeeps, HeaderSends, StatusSent, ActionSent, EditSent, ReportSent, RemoveSent,
       SelectionKeeps, HidingKeeps, FormKeeps DEF Operator
  <1>2. CASE SomebodyElse
    BY <1>2, OthersKeep
  <1>3. ASSUME NEW i \in Slots, Serve(i) \/ Receive(i)
        PROVE  PageInv'
    BY <1>3, ServeKeeps, LoadTaken, StatusTaken, ActionTaken, UpdateTaken, ButtonTaken,
       ReportTaken, RemoveTaken DEF Receive
  <1>4. QED
    BY <1>1, <1>2, <1>3 DEF Next

LEMMA PageInit ==
    ASSUME WebConstants, StartStatuses \subseteq service!InspectionStatus, Init
    PROVE  PageInv
  <1>1. PICK c : c = Sent("load", None)
    OBVIOUS
  <1>2. c # NoCall /\ c.op = "load" /\ c.step = "sent"
    BY <1>1, CallIsSome
  <1>3. calls = placed(NoCalls, c)
    BY <1>1 DEF Init
  <1>4. /\ CallsOK /\ underWay = {1} /\ 1 \in Slots /\ calls[1] = c
        /\ callsTo("load") = {1} /\ \A x : x # "load" => callsTo(x) = {}
    BY <1>2, <1>3, OpenedTo
  <1>5. db \in Inspection
    BY DEF Init, Inspection, service!InspectionApprovalStatus
  <1>6. ui = [inspection |-> None, isLoading |-> TRUE, error |-> FALSE,
              selectedStatus |-> None, savingStatus |-> FALSE,
              selectedAction |-> None, savingAction |-> FALSE,
              draft |-> None, savingForm |-> FALSE,
              isExpanded |-> TRUE, reportForm |-> None, savingReport |-> FALSE,
              removing |-> {}, isDeleting |-> FALSE, isDownloadingPdf |-> FALSE,
              orphans |-> {}, exact |-> TRUE]
    BY DEF Init
  <1>7. /\ ui \in Ui /\ ui.isLoading /\ ~ui.error /\ ui.inspection = None
        /\ ui.selectedStatus = None /\ ui.selectedAction = None /\ ui.draft = None
        /\ ui.reportForm = None /\ ~ui.savingReport /\ ui.removing = {} /\ ui.orphans = {}
        /\ ~ui.savingStatus /\ ~ui.savingAction /\ ~ui.savingForm /\ ~ui.isDeleting
        /\ ~ui.isDownloadingPdf
    BY <1>6 DEF Ui
  <1>8. Typed
    BY <1>2, <1>4, <1>5, <1>7 DEF Typed, CallTyped, Ops
  <1>9. OneEach
    <2>1. ASSUME NEW op \in ButtonOps
          PROVE  /\ Buttons(ui)[op] <=> callsTo(op) # {}
                 /\ \A i, j \in callsTo(op) : i = j
      BY <1>4, <1>7, ButtonNames DEF ButtonOps
    <2>2. QED
      BY <2>1 DEF OneEach
  <1>10. OwnCalls
    BY <1>7 DEF OwnCalls
  <1>11. Quiet
    BY <1>2, <1>4, <1>7 DEF Quiet
  <1>12. Own
    <2>1. callsOf(changes) = {}
      BY <1>2, <1>4 DEF callsOf, changes
    <2>2. QED
      BY <1>2, <1>4, <1>7, <2>1 DEF Own
  <1>13. QED
    BY <1>4, <1>8, <1>9, <1>10, <1>11, <1>12 DEF PageInv

\* What the page promises.
LEMMA PageHolds ==
    ASSUME PageInv
    PROVE  TypeOK /\ BusyWhileUnderWay /\ OwnStepIsShown
  <1>1. Typed /\ OneEach /\ OwnCalls /\ Quiet /\ Own
    BY DEF PageInv
  <1>2. TypeOK
    BY <1>1 DEF TypeOK, Typed, Ui, CallTyped, Ops
  <1>3. BusyWhileUnderWay
    <2>1. \A op \in ButtonOps : Buttons(ui)[op] <=> callsOf({op}) # {}
      BY <1>1, SlotsOfCalls DEF OneEach
    <2>2. /\ ui.isLoading <=> callsOf({"load"}) # {}
          /\ ui.savingStatus <=> callsOf({"status"}) # {}
          /\ ui.savingAction <=> callsOf({"decide"}) # {}
          /\ ui.savingForm <=> callsOf({"update"}) # {}
          /\ ui.isDeleting <=> callsOf({"delete"}) # {}
          /\ ui.isDownloadingPdf <=> callsOf({"pdf"}) # {}
      BY <2>1, ButtonNames DEF ButtonOps
    <2>3. /\ ui.savingReport => callsOf({"report"}) \ ui.orphans # {}
          /\ \A r \in ui.removing :
                \E i \in callsOf({"remove"}) \ ui.orphans : calls[i].arg.report = r
      <3>1. callsOf({"report"}) = callsTo("report") /\ callsOf({"remove"}) = callsTo("remove")
        BY SlotsOfCalls
      <3>2. QED
        BY <1>1, <3>1 DEF OwnCalls
    <2>4. QED
      BY <2>2, <2>3 DEF BusyWhileUnderWay
  <1>4. OwnStepIsShown
    <2>1. SUFFICES ASSUME ui.exact, shown, callsOf(changes \cup {"delete"}) = {}, db # Gone
                   PROVE  ui.inspection = db
      BY DEF OwnStepIsShown
    <2>2. callsOf(changes) = {}
      BY <2>1 DEF callsOf
    <2>3. ~ui.isLoading /\ ~ui.error
      BY <2>1, ShownIsQuiet
    <2>4. QED
      BY <1>1, <2>1, <2>2, <2>3 DEF Own
  <1>5. QED
    BY <1>2, <1>3, <1>4

-----------------------------------------------------------------------------
(* What the panels of the status and of the approval offer *)

\* The state of a page as far as the two panels need it: a record with what was
\* selected in them.
Shaped(u) ==
    /\ u = [f \in DOMAIN u |-> u[f]]
    /\ {"selectedStatus", "selectedAction"} \subseteq DOMAIN u

\* v has the same selection as u.
Keeps(u, v) ==
    /\ Shaped(v)
    /\ v.selectedStatus = u.selectedStatus /\ v.selectedAction = u.selectedAction

\* What is selected in a panel was offered there.
PanelsSelected(u) ==
    /\ u.selectedStatus # None =>
           u.selectedStatus.to \in statusTransitions(u.selectedStatus.seen)
    /\ u.selectedAction # None =>
           u.selectedAction.action \in availableActions(u.selectedAction.seen)

\* And so was what a panel has sent.
PanelsCallOK(c) ==
    c.step = "sent" =>
        /\ c.op = "status" => c.arg.to \in statusTransitions(c.arg.seen)
        /\ c.op = "decide" => c.arg.action \in availableActions(c.arg.seen)

PanelsInv ==
    /\ CallsOK /\ db \in Inspection \cup {Gone}
    /\ Shaped(ui) /\ PanelsSelected(ui)
    /\ \A i \in underWay : PanelsCallOK(calls[i])

\* The panels offer what the service allows, with the two exceptions named.
LEMMA PanelsRefusal ==
    ASSUME PanelsInv
    PROVE  RefusedOnlyWhenStale
  <1> USE DEF Inspection, service!InspectionStatus, service!InspectionApprovalStatus
  <1>1. \A i \in underWay : PanelsCallOK(calls[i])
    BY DEF PanelsInv
  <1>2. ASSUME NEW i \in callsOf({"status"}), waiting(i), db # Gone, calls[i].arg.seen = db.status,
               <<db.status, calls[i].arg.to>> # <<"IN_PROGRESS", "DRAFT">>
        PROVE  assertStatusTransition(calls[i].arg.to)
    <2>1. calls[i].arg.to \in statusTransitions(db.status)
      BY <1>1, <1>2 DEF PanelsCallOK, callsOf, waiting
    <2>2. db.status \in service!InspectionStatus
      BY <1>2 DEF PanelsInv
    <2>3. QED
      BY <1>2, <2>1, <2>2
      DEF statusTransitions, assertStatusTransition, service!allowedTransitions
  <1>3. ASSUME NEW i \in callsOf({"decide"}), waiting(i), db # Gone, calls[i].arg.seen = db.approval,
               db.status = "COMPLETED"
        PROVE  mayDecide(calls[i].arg.action)
    <2>1. calls[i].arg.action \in availableActions(db.approval)
      BY <1>1, <1>3 DEF PanelsCallOK, callsOf, waiting
    <2>2. db.approval \in service!InspectionApprovalStatus
      BY <1>3 DEF PanelsInv
    <2>3. QED
      BY <1>3, <2>1, <2>2 DEF availableActions, mayDecide, decided
  <1>4. QED
    BY <1>2, <1>3 DEF RefusedOnlyWhenStale

\* What the API does to an inspection leaves it one.
LEMMA PanelsChanges ==
    ASSUME db \in Inspection
    PROVE  /\ \A t : ChangeStatus(t) => db' \in Inspection
           /\ \A action : Decide(action) => db' \in Inspection
           /\ \A r \in Reports : CreateReport(r) => db' \in Inspection
           /\ \A r : RemoveReport(r) => db' \in Inspection
  <1>1. \A x : service!allowedTransitions(x) \subseteq service!InspectionStatus
    BY DEF service!allowedTransitions, service!InspectionStatus
  <1>2. \A action : decided(action) \in service!InspectionApprovalStatus
    BY DEF decided, service!InspectionApprovalStatus
  <1>3. QED
    BY <1>1, <1>2
    DEF Inspection, ChangeStatus, assertStatusTransition, Decide, CreateReport,
        RemoveReport

\* A step of the page, or of the API for it.
LEMMA PanelsStep ==
    ASSUME PanelsInv, db' \in Inspection \cup {Gone}, Shaped(ui'), PanelsSelected(ui'),
           \/ calls' = calls
           \/ \E k \in Slots : \E c : Puts(k, c) /\ (c # NoCall => PanelsCallOK(c))
    PROVE  PanelsInv'
  <1>1. CASE calls' = calls
    <2>1. underWay' = underWay
      BY <1>1 DEF underWay
    <2>2. QED
      BY <1>1, <2>1 DEF PanelsInv, CallsOK
  <1>2. CASE \E k \in Slots : \E c : Puts(k, c) /\ (c # NoCall => PanelsCallOK(c))
    <2>1. PICK k \in Slots : \E c : Puts(k, c) /\ (c # NoCall => PanelsCallOK(c))
      BY <1>2
    <2>2. PICK c : Puts(k, c) /\ (c # NoCall => PanelsCallOK(c))
      BY <2>1
    <2>3. \A i \in underWay' : PanelsCallOK(calls'[i])
      BY <2>2 DEF PanelsInv, Puts, underWay
    <2>4. QED
      BY <2>2, <2>3 DEF PanelsInv, Puts
  <1>3. QED
    BY <1>1, <1>2

\* A step that keeps what is selected, and sends nothing from the two panels.
LEMMA PanelsKeeps ==
    ASSUME PanelsInv, db' = db, Keeps(ui, ui'),
           \/ calls' = calls
           \/ \E op, arg : Call(op, arg) /\ op \notin {"status", "decide"}
           \/ \E i \in Slots : Finish(i)
    PROVE  PanelsInv'
  <1>1. CallsOK /\ db' \in Inspection \cup {Gone} /\ Shaped(ui') /\ PanelsSelected(ui')
    BY DEF PanelsInv, Keeps, PanelsSelected
  <1>2. ASSUME NEW op, NEW arg, Call(op, arg), op \notin {"status", "decide"}
        PROVE  \E k \in Slots : \E c : Puts(k, c) /\ (c # NoCall => PanelsCallOK(c))
    <2>1. PICK k \in Slots : Puts(k, Sent(op, arg))
      BY <1>1, <1>2, CallIsPlaced
    <2>2. PanelsCallOK(Sent(op, arg))
      BY <1>2 DEF PanelsCallOK, Sent
    <2>3. QED
      BY <2>1, <2>2
  <1>3. ASSUME NEW i \in Slots, Finish(i)
        PROVE  \E k \in Slots : \E c : Puts(k, c) /\ (c # NoCall => PanelsCallOK(c))
    BY <1>1, <1>3, AnswerIsTaken
  <1>4. QED
    BY <1>1, <1>2, <1>3, PanelsStep

LEMMA PanelsServed ==
    ASSUME PanelsInv, NEW i \in Slots, Serve(i)
    PROVE  PanelsInv'
  <1>1. CallsOK /\ Shaped(ui) /\ PanelsSelected(ui) /\ db \in Inspection \cup {Gone}
    BY DEF PanelsInv
  <1>2. Keeps(ui, ui')
    BY <1>1 DEF Serve, Shaped, Keeps
  <1>3. \E data : Succeed(i, data) \/ Fail(i)
    BY DEF Serve, Reply
  <1>4. PICK a : Puts(i, a) /\ a.step = "answered"
    <2>1. \A ok, data : Answer(calls[i], ok, data).step = "answered"
      BY DEF Answer
    <2>2. QED
      BY <1>1, <1>3, <2>1, AnswerIsTaken
  <1>5. db' \in Inspection \cup {Gone}
    BY <1>1, PanelsChanges DEF Serve, Update
  <1>6. Shaped(ui') /\ PanelsSelected(ui')
    BY <1>1, <1>2 DEF Keeps, PanelsSelected
  <1>7. PanelsCallOK(a)
    BY <1>4 DEF PanelsCallOK
  <1>8. QED
    BY <1>4, <1>5, <1>6, <1>7, PanelsStep

LEMMA PanelsSomebodyElse ==
    ASSUME PanelsInv, SomebodyElse
    PROVE  PanelsInv'
  <1>1. CallsOK /\ Shaped(ui) /\ PanelsSelected(ui) /\ db \in Inspection \cup {Gone}
    BY DEF PanelsInv
  <1>2. Keeps(ui, ui') /\ calls' = calls
    BY <1>1 DEF SomebodyElse, Shaped, Keeps
  <1>3. db' \in Inspection \cup {Gone}
    BY <1>1, PanelsChanges DEF SomebodyElse
  <1>4. Shaped(ui') /\ PanelsSelected(ui')
    BY <1>1, <1>2 DEF Keeps, PanelsSelected
  <1>5. QED
    BY <1>2, <1>3, <1>4, PanelsStep

LEMMA PanelsOperator ==
    ASSUME PanelsInv, Operator
    PROVE  PanelsInv'
  <1>1. /\ CallsOK /\ Shaped(ui) /\ PanelsSelected(ui) /\ db \in Inspection \cup {Gone}
    BY DEF PanelsInv
  <1> USE DEF Shaped, Keeps
  <1>2. CASE SelectStatus
    <2>1. /\ db' = db /\ calls' = calls /\ Shaped(ui') /\ ui'.selectedAction = ui.selectedAction
          /\ \/ ui'.selectedStatus = None
             \/ ui'.selectedStatus.to \in statusTransitions(ui'.selectedStatus.seen)
      BY <1>1, <1>2 DEF SelectStatus
    <2>2. QED
      BY <1>1, <2>1, PanelsStep DEF PanelsSelected
  <1>3. CASE SelectAction
    <2>1. /\ db' = db /\ calls' = calls /\ Shaped(ui') /\ ui'.selectedStatus = ui.selectedStatus
          /\ \/ ui'.selectedAction = None
             \/ ui'.selectedAction.action \in availableActions(ui'.selectedAction.seen)
      BY <1>1, <1>3 DEF SelectAction
    <2>2. QED
      BY <1>1, <2>1, PanelsStep DEF PanelsSelected
  <1>4. CASE handleStatusChange
    <2>1. /\ db' = db /\ Keeps(ui, ui') /\ ui.selectedStatus # None
          /\ Call("status", ui.selectedStatus)
      BY <1>1, <1>4 DEF handleStatusChange, Changes
    <2>2. PICK k \in Slots : Puts(k, Sent("status", ui.selectedStatus))
      BY <1>1, <2>1, CallIsPlaced
    <2>3. PanelsCallOK(Sent("status", ui.selectedStatus))
      BY <1>1, <2>1 DEF PanelsCallOK, PanelsSelected, Sent
    <2>4. QED
      BY <1>1, <2>1, <2>2, <2>3, PanelsStep DEF PanelsSelected
  <1>5. CASE handleAction
    <2>1. /\ db' = db /\ Keeps(ui, ui') /\ ui.selectedAction # None
          /\ Call("decide", ui.selectedAction)
      BY <1>1, <1>5 DEF handleAction, Changes
    <2>2. PICK k \in Slots : Puts(k, Sent("decide", ui.selectedAction))
      BY <1>1, <2>1, CallIsPlaced
    <2>3. PanelsCallOK(Sent("decide", ui.selectedAction))
      BY <1>1, <2>1 DEF PanelsCallOK, PanelsSelected, Sent
    <2>4. QED
      BY <1>1, <2>1, <2>2, <2>3, PanelsStep DEF PanelsSelected
  <1>6. CASE \/ ToggleExpanded \/ Edit \/ ChooseStatus \/ CancelEdit
             \/ OpenReport \/ CancelReport
    <2>1. db' = db /\ calls' = calls /\ Keeps(ui, ui')
      BY <1>1, <1>6
      DEF ToggleExpanded, Edit, ChooseStatus, CancelEdit, OpenReport,
          CancelReport, reportsHidden, withForm
    <2>2. QED
      BY <2>1, PanelsKeeps
  <1>7. CASE TryAgain \/ handleDownloadPdf \/ handleDelete
    <2>1. /\ db' = db /\ Keeps(ui, ui')
          /\ \E op \in {"load", "pdf", "delete"} : Call(op, None)
      BY <1>1, <1>7 DEF TryAgain, handleDownloadPdf, handleDelete
    <2>2. QED
      BY <2>1, PanelsKeeps
  <1>8. CASE SubmitEdit \/ SubmitReport \/ \E r \in Reports : handleRemove(r)
    <2>1. db' = db /\ Keeps(ui, ui')
      BY <1>1, <1>8
      DEF SubmitEdit, SubmitReport, handleRemove, Changes
    <2>2. \E op \in {"update", "report", "remove"} : \E arg : Call(op, arg)
      BY <1>8 DEF SubmitEdit, SubmitReport, handleRemove, Changes
    <2>3. QED
      BY <2>1, <2>2, PanelsKeeps
  <1>9. QED
    BY <1>2, <1>3, <1>4, <1>5, <1>6, <1>7, <1>8 DEF Operator

LEMMA PanelsReceives ==
    ASSUME PanelsInv, NEW i \in Slots, Receive(i)
    PROVE  PanelsInv'
  <1>1. CallsOK /\ Shaped(ui) /\ PanelsSelected(ui) /\ db \in Inspection \cup {Gone}
    BY DEF PanelsInv
  <1>2. db' = db /\ Finish(i)
    BY
    DEF Receive, LoadArrives, StatusAnswered, ActionAnswered, UpdateAnswered,
        DownloadEnds, DeleteAnswered, ReportAnswered, RemoveAnswered, Answered
  <1>3. ASSUME Keeps(ui, ui') PROVE PanelsInv'
    BY <1>2, <1>3, PanelsKeeps
  <1> USE DEF Shaped, Keeps, setInspection
  <1>4. CASE LoadArrives(i)
    BY <1>1, <1>3, <1>4 DEF LoadArrives
  <1>5. CASE StatusAnswered(i) \/ ActionAnswered(i)
    <2>1. /\ Shaped(ui')
          /\ ui'.selectedStatus \in {None, ui.selectedStatus}
          /\ ui'.selectedAction \in {None, ui.selectedAction}
      BY <1>1, <1>5 DEF StatusAnswered, ActionAnswered
    <2>2. PanelsSelected(ui')
      BY <1>1, <2>1 DEF PanelsSelected
    <2>3. Puts(i, NoCall)
      BY <1>1, <1>2, AnswerIsTaken
    <2>4. QED
      BY <1>1, <1>2, <2>1, <2>2, <2>3, PanelsStep
  <1>6. CASE UpdateAnswered(i)
    BY <1>1, <1>3, <1>6 DEF UpdateAnswered
  <1>7. CASE DownloadEnds(i) \/ DeleteAnswered(i)
    BY <1>1, <1>3, <1>7 DEF DownloadEnds, DeleteAnswered
  <1>8. CASE ReportAnswered(i)
    BY <1>1, <1>3, <1>8 DEF ReportAnswered, withForm
  <1>9. CASE RemoveAnswered(i)
    BY <1>1, <1>3, <1>9 DEF RemoveAnswered
  <1>10. QED
    BY <1>4, <1>5, <1>6, <1>7, <1>8, <1>9 DEF Receive

LEMMA PanelsNext ==
    ASSUME PanelsInv, Next
    PROVE  PanelsInv'
  BY PanelsOperator, PanelsSomebodyElse, PanelsServed, PanelsReceives DEF Next

LEMMA PanelsInit ==
    ASSUME WebConstants, StartStatuses \subseteq service!InspectionStatus, Init
    PROVE  PanelsInv
  <1>1. calls = placed(NoCalls, Sent("load", None))
    BY DEF Init
  <1>2. PICK k \in Slots :
            calls = [i \in Slots |-> IF i = k THEN Sent("load", None) ELSE NoCall]
    BY <1>1, FirstCall
  <1>3. CallsOK /\ \A i \in underWay : PanelsCallOK(calls[i])
    BY <1>2 DEF CallsOK, underWay, PanelsCallOK, Sent
  <1>4. Shaped(ui) /\ PanelsSelected(ui)
    BY DEF Init, Shaped, PanelsSelected
  <1>5. db \in Inspection
    BY DEF Init, Inspection, service!InspectionStatus,
           service!InspectionApprovalStatus
  <1>6. QED
    BY <1>3, <1>4, <1>5 DEF PanelsInv

-----------------------------------------------------------------------------
(* What holds in every state, and what the page promises *)

ScreenInv == PageInv /\ PanelsInv

LEMMA ScreenInit ==
    ASSUME WebConstants, StartStatuses \subseteq service!InspectionStatus, Init
    PROVE  ScreenInv
  BY PageInit, PanelsInit DEF ScreenInv

LEMMA ScreenNext ==
    ASSUME WebConstants, ScreenInv, Next
    PROVE  ScreenInv'
  BY PageNext, PanelsNext DEF ScreenInv

LEMMA ScreenStays ==
    ASSUME ScreenInv, UNCHANGED <<db, ui, calls>>
    PROVE  ScreenInv'
  <1>1. /\ underWay' = underWay /\ CallsOK'
        /\ \A ops : callsOf(ops)' = callsOf(ops)
        /\ \A op : callsTo(op)' = callsTo(op)
    BY CallsStay, StayTo DEF ScreenInv, PageInv
  <1>2. Typed' /\ OneEach' /\ OwnCalls' /\ Quiet'
    BY <1>1 DEF ScreenInv, PageInv, Typed, OneEach, OwnCalls, Quiet
  <1>3. Own'
    BY <1>1 DEF ScreenInv, PageInv, Own, Outcome
  <1>4. PanelsInv'
    BY <1>1 DEF ScreenInv, PanelsInv
  <1>5. QED
    BY <1>1, <1>2, <1>3, <1>4 DEF ScreenInv, PageInv

LEMMA ScreenHolds ==
    ASSUME ScreenInv
    PROVE  TypeOK /\ BusyWhileUnderWay /\ OwnStepIsShown /\ RefusedOnlyWhenStale
  BY PageHolds, PanelsRefusal DEF ScreenInv

=============================================================================
