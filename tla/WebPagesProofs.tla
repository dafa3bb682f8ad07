---------------------------- MODULE WebPagesProofs ----------------------------
(***************************************************************************)
(* What the pages of MCWeb keep true, for every number of rows, of calls a *)
(* page has under way and of answers that overtake one another: the lists  *)
(* and the pages of one shipment, vehicle and invoice.  What they have in  *)
(* common is in WebCalls: a call keeps its slot, and nobody else's call    *)
(* changes, until its answer is taken.  WebProofs has the panels and the   *)
(* theorems.                                                               *)
(***************************************************************************)
EXTENDS MCWeb, Sequences, WellFoundedInduction, TLAPS

-----------------------------------------------------------------------------
(* Calls *)

\* Every slot has a call or none.
CallsOK == calls = [i \in Slots |-> calls[i]]

\* One slot gets the call c, and the others keep theirs.
Puts(k, c) ==
    /\ k \in Slots /\ CallsOK'
    /\ calls'[k] = c
    /\ \A i \in Slots : i # k => calls'[i] = calls[i]

\* A set of slots has a first one.
LEMMA FirstSlot ==
    ASSUME NEW S, S \subseteq Slots, S # {}
    PROVE  \E n \in S : \A m \in S : n <= m
  <1> DEFINE R == OpToRel(<, Nat)
  <1>1. IsWellFoundedOn(R, Nat)
    BY NatLessThanWellFounded, Zenon
  <1>2. \A x, y \in Nat : <<y, x>> \in R <=> y < x
    BY DEF OpToRel
  <1> HIDE DEF R
  <1>3. S \subseteq Nat
    BY DEF Slots
  <1>4. PICK n \in S : \A m \in S : ~ (<<m, n>> \in R)
    BY <1>1, <1>3, WFMin
  <1>5. \A m \in S : n <= m
    <2>1. SUFFICES ASSUME NEW m \in S PROVE n <= m
      OBVIOUS
    <2>2. n \in Nat /\ m \in Nat /\ ~ (m < n)
      BY <1>2, <1>3, <1>4
    <2>3. QED
      BY <2>2
  <1>6. QED
    BY <1>5

LEMMA FirstFree ==
    ASSUME NEW cs, \E i \in Slots : cs[i] = NoCall
    PROVE  /\ firstFree(cs) \in Slots /\ cs[firstFree(cs)] = NoCall
           /\ \A j \in Slots : cs[j] = NoCall => firstFree(cs) <= j
  <1> DEFINE free == {i \in Slots : cs[i] = NoCall}
  <1>1. PICK n \in free : \A m \in free : n <= m
    BY FirstSlot
  <1>2. QED
    BY <1>1 DEF firstFree

\* apiFetch finds a slot in which nothing is under way.
LEMMA CallIsPlaced ==
    ASSUME CallsOK, NEW op, NEW arg, Call(op, arg)
    PROVE  \E k \in Slots : calls[k] = NoCall /\ k = freeSlot /\ Puts(k, Sent(op, arg))
  <1>1. \E i \in Slots : calls[i] = NoCall
    BY DEF Call, mayCall, underWay
  <1>2. PICK k \in Slots : k = firstFree(calls) /\ calls[k] = NoCall
    BY <1>1, FirstFree
  <1>3. calls' = [calls EXCEPT ![k] = Sent(op, arg)]
    BY <1>2 DEF Call, placed
  <1>4. Puts(k, Sent(op, arg))
    BY <1>2, <1>3 DEF Puts, CallsOK
  <1>5. QED
    BY <1>2, <1>4 DEF freeSlot

\* A page that is opened with a call has no other under way.
LEMMA FirstCall ==
    ASSUME WebConstants, NEW c
    PROVE  1 \in Slots /\ placed(NoCalls, c) = [i \in Slots |-> IF i = 1 THEN c ELSE NoCall]
  <1>1. 1 \in Slots /\ \A i \in Slots : NoCalls[i] = NoCall
    BY DEF WebConstants, Slots, NoCalls
  <1>2. firstFree(NoCalls) \in Slots /\ firstFree(NoCalls) <= 1
    BY <1>1, FirstFree
  <1>3. firstFree(NoCalls) = 1
    BY <1>2 DEF Slots
  <1>4. QED
    BY <1>1, <1>3 DEF placed, NoCalls

LEMMA AnswerIsTaken ==
    ASSUME CallsOK, NEW i \in Slots
    PROVE  /\ Finish(i) => Puts(i, NoCall)
           /\ \A op, arg : Continue(i, op, arg) => Puts(i, Sent(op, arg))
           /\ \A data : Succeed(i, data) => Puts(i, Answer(calls[i], TRUE, data))
           /\ Fail(i) => Puts(i, Answer(calls[i], FALSE, None))
  BY DEF Finish, Continue, Succeed, Fail, Puts, CallsOK

\* What is under way after a step that changes one slot.
LEMMA CallsAfter ==
    ASSUME NEW k, NEW c, Puts(k, c)
    PROVE  /\ underWay' = (underWay \ {k}) \cup (IF c = NoCall THEN {} ELSE {k})
           /\ \A ops : callsOf(ops)' = (callsOf(ops) \ {k})
                                       \cup (IF c # NoCall /\ c.op \in ops THEN {k} ELSE {})
           /\ \A i : i # k => /\ i \in underWay' <=> i \in underWay
                              /\ i \in underWay => calls'[i] = calls[i]
  BY DEF Puts, underWay, callsOf

\* A call is something else than none, before and after it is served.
LEMMA CallIsSome ==
    /\ \A op, arg : /\ Sent(op, arg) # NoCall /\ Sent(op, arg).step = "sent"
                    /\ Sent(op, arg).op = op /\ Sent(op, arg).arg = arg
    /\ \A c, ok, data : /\ Answer(c, ok, data) # NoCall /\ Answer(c, ok, data).step = "answered"
                        /\ Answer(c, ok, data).op = c.op /\ Answer(c, ok, data).arg = c.arg
                        /\ Answer(c, ok, data).ok = ok /\ Answer(c, ok, data).data = data
  <1>1. \A op, arg : Sent(op, arg).step = "sent"
    BY DEF Sent
  <1>2. \A c, ok, data : Answer(c, ok, data).step = "answered"
    BY DEF Answer
  <1>3. NoCall.step = "none"
    BY DEF NoCall
  <1>4. QED
    BY <1>1, <1>2, <1>3 DEF Sent, Answer

\* A step that leaves the calls as they are.
LEMMA CallsStay ==
    ASSUME calls' = calls
    PROVE  underWay' = underWay /\ \A ops : callsOf(ops)' = callsOf(ops)
  BY DEF underWay, callsOf

\* What is under way when a page is opened.
LEMMA OpenedWith ==
    ASSUME WebConstants, NEW c, c # NoCall
    PROVE  /\ calls = placed(NoCalls, c) =>
                  /\ CallsOK /\ underWay = {1} /\ 1 \in Slots /\ calls[1] = c
                  /\ \A ops : callsOf(ops) = IF c.op \in ops THEN {1} ELSE {}
           /\ calls' = placed(NoCalls, c) =>
                  /\ CallsOK' /\ underWay' = {1} /\ 1 \in Slots /\ calls'[1] = c
                  /\ \A ops : callsOf(ops)' = IF c.op \in ops THEN {1} ELSE {}
  BY FirstCall DEF CallsOK, underWay, callsOf

LEMMA OpenedWithout ==
    ASSUME calls = NoCalls
    PROVE  CallsOK /\ underWay = {} /\ \A ops : callsOf(ops) = {}
  BY DEF NoCalls, CallsOK, underWay, callsOf

LEMMA NullIsNoSlot ==
    ASSUME WebConstants
    PROVE  None \notin Slots /\ None \notin underWay /\ None \notin underWay'
  BY DEF WebConstants, Slots, underWay

\* The four things that happen to a call: it is sent, it is served, its answer is
\* taken, or the handler that takes the answer goes on with another call.
LEMMA CallSent ==
    ASSUME CallsOK, NEW op, NEW arg, Call(op, arg)
    PROVE  \E k \in Slots :
             /\ k = freeSlot /\ k \notin underWay /\ underWay' = underWay \cup {k}
             /\ CallsOK' /\ calls'[k] = Sent(op, arg)
             /\ calls'[k].step = "sent" /\ calls'[k].op = op /\ calls'[k].arg = arg
             /\ \A i \in underWay : i # k /\ calls'[i] = calls[i]
             /\ \A ops : callsOf(ops)' = IF op \in ops THEN callsOf(ops) \cup {k} ELSE callsOf(ops)
  <1>1. PICK k \in Slots : calls[k] = NoCall /\ k = freeSlot /\ Puts(k, Sent(op, arg))
    BY CallIsPlaced
  <1>2. k \notin underWay
    BY <1>1 DEF underWay
  <1>3. underWay' = underWay \cup {k}
    BY <1>1, CallsAfter, CallIsSome
  <1>4. \A i \in underWay : i # k /\ calls'[i] = calls[i]
    BY <1>1, <1>2, CallsAfter
  <1>5. /\ CallsOK' /\ calls'[k] = Sent(op, arg)
        /\ calls'[k].step = "sent" /\ calls'[k].op = op /\ calls'[k].arg = arg
    BY <1>1, CallIsSome DEF Puts
  <1>6. ASSUME NEW ops
        PROVE  callsOf(ops)' = IF op \in ops THEN callsOf(ops) \cup {k} ELSE callsOf(ops)
    BY <1>2, <1>3, <1>4, <1>5 DEF callsOf
  <1>7. QED
    BY <1>1, <1>2, <1>3, <1>4, <1>5, <1>6

LEMMA CallTaken ==
    ASSUME CallsOK, NEW i \in underWay, Finish(i)
    PROVE  /\ CallsOK' /\ underWay' = underWay \ {i}
           /\ \A j \in underWay' : calls'[j] = calls[j]
           /\ \A ops : callsOf(ops)' = callsOf(ops) \ {i}
  <1>1. i \in Slots /\ Puts(i, NoCall)
    BY AnswerIsTaken DEF underWay
  <1>2. QED
    BY <1>1, CallsAfter DEF Puts

LEMMA CallGoesOn ==
    ASSUME CallsOK, NEW i \in underWay, NEW op, NEW arg, Continue(i, op, arg)
    PROVE  /\ CallsOK' /\ underWay' = underWay /\ calls'[i] = Sent(op, arg)
           /\ calls'[i].step = "sent" /\ calls'[i].op = op /\ calls'[i].arg = arg
           /\ \A j \in underWay : j # i => calls'[j] = calls[j]
           /\ \A ops : callsOf(ops)' = IF op \in ops THEN callsOf(ops) \cup {i}
                                       ELSE callsOf(ops) \ {i}
  <1>1. i \in Slots /\ Puts(i, Sent(op, arg))
    BY AnswerIsTaken DEF underWay
  <1>2. underWay' = underWay
    <2>1. Sent(op, arg) # NoCall
      BY CallIsSome
    <2>2. QED
      BY <1>1, <2>1 DEF Puts, underWay
  <1>3. /\ CallsOK' /\ calls'[i] = Sent(op, arg)
        /\ calls'[i].step = "sent" /\ calls'[i].op = op /\ calls'[i].arg = arg
    BY <1>1, CallIsSome DEF Puts
  <1>4. \A j \in underWay : j # i => calls'[j] = calls[j]
    BY <1>1, CallsAfter
  <1>5. \A ops : callsOf(ops)' = IF op \in ops THEN callsOf(ops) \cup {i}
                                 ELSE callsOf(ops) \ {i}
    BY <1>2, <1>3, <1>4 DEF callsOf
  <1>6. QED
    BY <1>2, <1>3, <1>4, <1>5

LEMMA CallServed ==
    ASSUME CallsOK, NEW i \in underWay, NEW ok, NEW data,
           \/ ok = TRUE /\ Succeed(i, data)
           \/ ok = FALSE /\ data = None /\ Fail(i)
    PROVE  /\ CallsOK' /\ underWay' = underWay
           /\ calls'[i].step = "answered" /\ calls'[i].op = calls[i].op
           /\ calls'[i].arg = calls[i].arg /\ calls'[i].ok = ok /\ calls'[i].data = data
           /\ \A j \in underWay : j # i => calls'[j] = calls[j]
           /\ \A ops : callsOf(ops)' = callsOf(ops)
  <1>1. i \in Slots /\ Puts(i, Answer(calls[i], ok, data))
    BY AnswerIsTaken DEF underWay
  <1>2. underWay' = underWay
    <2>1. Answer(calls[i], ok, data) # NoCall
      BY CallIsSome
    <2>2. QED
      BY <1>1, <2>1 DEF Puts, underWay
  <1>3. /\ CallsOK' /\ calls'[i].step = "answered" /\ calls'[i].op = calls[i].op
        /\ calls'[i].arg = calls[i].arg /\ calls'[i].ok = ok /\ calls'[i].data = data
    BY <1>1, CallIsSome DEF Puts
  <1>4. \A j \in underWay : j # i => calls'[j] = calls[j]
    BY <1>1, CallsAfter
  <1>5. \A ops : callsOf(ops)' = callsOf(ops)
    BY <1>2, <1>3, <1>4 DEF callsOf
  <1>6. QED
    BY <1>2, <1>3, <1>4, <1>5

\* The calls to one operation, and what the four steps do to them.
callsTo(op) == {i \in underWay : calls[i].op = op}

LEMMA CallsTo ==
    /\ \A op : callsOf({op}) = callsTo(op)
    /\ \A op, i : i \in callsTo(op) <=> i \in underWay /\ calls[i].op = op
    /\ \A op, i : i \in callsTo(op)' <=> i \in underWay' /\ calls'[i].op = op
  BY DEF callsOf, callsTo

LEMMA SentTo ==
    ASSUME CallsOK, NEW op, NEW arg, Call(op, arg)
    PROVE  \E k \in Slots :
             /\ k \notin underWay /\ underWay' = underWay \cup {k}
             /\ CallsOK' /\ calls'[k].step = "sent" /\ calls'[k].op = op /\ calls'[k].arg = arg
             /\ \A i \in underWay : i # k /\ calls'[i] = calls[i]
             /\ callsTo(op)' = callsTo(op) \cup {k} /\ k \notin callsTo(op)
             /\ \A x : x # op => callsTo(x)' = callsTo(x)
  <1>1. PICK k \in Slots :
             /\ k \notin underWay /\ underWay' = underWay \cup {k}
             /\ CallsOK' /\ calls'[k].step = "sent" /\ calls'[k].op = op /\ calls'[k].arg = arg
             /\ \A i \in underWay : i # k /\ calls'[i] = calls[i]
    BY CallSent
  <1>2. callsTo(op)' = callsTo(op) \cup {k} /\ k \notin callsTo(op)
    BY <1>1 DEF callsTo
  <1>3. ASSUME NEW x, x # op PROVE callsTo(x)' = callsTo(x)
    BY <1>1, <1>3 DEF callsTo
  <1>4. QED
    BY <1>1, <1>2, <1>3

LEMMA TakenFrom ==
    ASSUME CallsOK, NEW i \in underWay, Finish(i), NEW op, calls[i].op = op
    PROVE  /\ CallsOK' /\ underWay' = underWay \ {i}
           /\ \A j \in underWay' : calls'[j] = calls[j]
           /\ callsTo(op)' = callsTo(op) \ {i} /\ i \in callsTo(op)
           /\ \A x : x # op => callsTo(x)' = callsTo(x) /\ i \notin callsTo(x)
  <1>1. /\ CallsOK' /\ underWay' = underWay \ {i}
        /\ \A j \in underWay' : calls'[j] = calls[j]
    BY CallTaken
  <1>2. callsTo(op)' = callsTo(op) \ {i} /\ i \in callsTo(op)
    BY <1>1 DEF callsTo
  <1>3. ASSUME NEW x, x # op PROVE callsTo(x)' = callsTo(x) /\ i \notin callsTo(x)
    BY <1>1, <1>3 DEF callsTo
  <1>4. QED
    BY <1>1, <1>2, <1>3

LEMMA ServedTo ==
    ASSUME CallsOK, NEW i \in underWay, NEW ok, NEW data,
           \/ ok = TRUE /\ Succeed(i, data)
           \/ ok = FALSE /\ data = None /\ Fail(i)
    PROVE  /\ CallsOK' /\ underWay' = underWay
           /\ calls'[i].step = "answered" /\ calls'[i].op = calls[i].op
           /\ calls'[i].arg = calls[i].arg /\ calls'[i].ok = ok /\ calls'[i].data = data
           /\ \A j \in underWay : calls'[j].op = calls[j].op /\ calls'[j].arg = calls[j].arg
           /\ \A j \in underWay : j # i => calls'[j] = calls[j]
           /\ \A x : callsTo(x)' = callsTo(x)
  <1>1. /\ CallsOK' /\ underWay' = underWay
        /\ calls'[i].step = "answered" /\ calls'[i].op = calls[i].op
        /\ calls'[i].arg = calls[i].arg /\ calls'[i].ok = ok /\ calls'[i].data = data
        /\ \A j \in underWay : j # i => calls'[j] = calls[j]
    BY CallServed
  <1>2. \A j \in underWay : calls'[j].op = calls[j].op /\ calls'[j].arg = calls[j].arg
    BY <1>1
  <1>3. ASSUME NEW x PROVE callsTo(x)' = callsTo(x)
    BY <1>1, <1>2 DEF callsTo
  <1>4. QED
    BY <1>1, <1>2, <1>3

LEMMA StayTo ==
    ASSUME calls' = calls
    PROVE  /\ underWay' = underWay /\ (CallsOK => CallsOK')
           /\ \A x : callsTo(x)' = callsTo(x)
  BY DEF underWay, callsTo, CallsOK

LEMMA OpenedTo ==
    ASSUME WebConstants, NEW c, c # NoCall, calls = placed(NoCalls, c)
    PROVE  /\ CallsOK /\ underWay = {1} /\ 1 \in Slots /\ calls[1] = c
           /\ callsTo(c.op) = {1} /\ \A x : x # c.op => callsTo(x) = {}
  <1>1. CallsOK /\ underWay = {1} /\ 1 \in Slots /\ calls[1] = c
    BY OpenedWith
  <1>2. QED
    BY <1>1 DEF callsTo

-----------------------------------------------------------------------------
(* The saves and the deletions of the customers and of the shipments *)

saves == {"save", "reload"}
deletions == {"delete", "refill"}

\* One call at a time goes through the operations in ops, and a button waits for it.
Alone(ops) == \A i, j \in callsOf(ops) : i = j

\* What a step that puts c into slot k does to the button that waits for ops.
waits(ops, k, c, busy, after) ==
    \/ /\ k \notin callsOf(ops)
       /\ \/ (c = NoCall \/ c.op \notin ops) /\ after = busy
          \/ c # NoCall /\ c.op \in ops /\ ~busy /\ after
    \/ /\ k \in callsOf(ops)
       /\ \/ c # NoCall /\ c.op \in ops /\ after = busy
          \/ c = NoCall /\ ~after

LEMMA OneAtATime ==
    ASSUME NEW ops, NEW k, NEW c, Puts(k, c), NEW busy, NEW after, Alone(ops),
           busy <=> callsOf(ops) # {}, waits(ops, k, c, busy, after)
    PROVE  (after <=> callsOf(ops)' # {}) /\ Alone(ops)'
  <1>1. callsOf(ops)' = (callsOf(ops) \ {k}) \cup (IF c # NoCall /\ c.op \in ops THEN {k} ELSE {})
    BY CallsAfter
  <1>2. QED
    BY <1>1 DEF Alone, waits

\* The dialog waits for the deletion of the row that it names.
DialogWaits ==
    \A i \in callsOf({"delete"}) : ui.toDelete = calls[i].arg /\ ui.toDelete # None

LEMMA DialogKept ==
    ASSUME NEW k, NEW c, Puts(k, c), DialogWaits, Alone(deletions),
           \/ ui'.toDelete = ui.toDelete
           \/ k \in callsOf({"delete"}) /\ (c = NoCall \/ c.op # "delete"),
           c # NoCall /\ c.op = "delete" => c.arg = ui.toDelete /\ ui.toDelete # None
    PROVE  DialogWaits'
  <1>1. \A i \in callsOf({"delete"})' :
            \/ i \in callsOf({"delete"}) /\ i # k /\ calls'[i] = calls[i]
            \/ i = k /\ calls'[i] = c /\ c # NoCall /\ c.op = "delete"
    BY DEF Puts, callsOf, underWay
  <1>2. callsOf({"delete"}) \subseteq callsOf(deletions)
    BY DEF callsOf, deletions
  <1>3. QED
    BY <1>1, <1>2 DEF DialogWaits, Alone

-----------------------------------------------------------------------------
(* The page of the customers *)

CustomersInv ==
    /\ CallsOK /\ customersPage!TypeOK /\ customersPage!FormFollowsEditing
    /\ Alone(saves) /\ Alone(deletions) /\ DialogWaits
    /\ ui.submitting <=> callsOf(saves) # {}
    /\ ui.deleting <=> callsOf(deletions) # {}

\* The calls of the page are those of WebCalls.
LEMMA CustomersCalls ==
    /\ customersPage!underWay = underWay /\ customersPage!underWay' = underWay'
    /\ customersPage!Slots = Slots
    /\ \A ops : /\ customersPage!callsOf(ops) = callsOf(ops)
                /\ customersPage!callsOf(ops)' = callsOf(ops)'
    /\ \A i, ops : customersPage!returns(i, ops) <=> i \in callsOf(ops)
    /\ \A op, arg : /\ customersPage!Call(op, arg) <=> Call(op, arg)
                    /\ customersPage!Sent(op, arg) = Sent(op, arg)
    /\ \A i : customersPage!Finish(i) <=> Finish(i)
    /\ \A i, op, arg : customersPage!Continue(i, op, arg) <=> Continue(i, op, arg)
  <1> USE DEF customersPage!NoCall, NoCall
  <1>1. customersPage!Slots = Slots /\ customersPage!underWay = underWay
    BY DEF customersPage!underWay, customersPage!Slots, underWay, Slots
  <1>2. customersPage!underWay' = underWay'
    BY DEF customersPage!underWay, customersPage!Slots, underWay, Slots
  <1>3. \A ops : /\ customersPage!callsOf(ops) = callsOf(ops)
                 /\ customersPage!callsOf(ops)' = callsOf(ops)'
    BY <1>1, <1>2 DEF customersPage!callsOf, callsOf
  <1>4. \A i, ops : customersPage!returns(i, ops) <=> i \in callsOf(ops)
    BY <1>3 DEF customersPage!returns
  <1>5. \A op, arg : customersPage!Sent(op, arg) = Sent(op, arg)
    BY DEF customersPage!Sent, Sent
  <1>6. \A op, arg : customersPage!Call(op, arg) <=> Call(op, arg)
    BY <1>1, <1>5 DEF customersPage!Call, Call, customersPage!mayCall, mayCall,
                      customersPage!placed, placed, customersPage!firstFree, firstFree
  <1>7. /\ \A i : customersPage!Finish(i) <=> Finish(i)
        /\ \A i, op, arg : customersPage!Continue(i, op, arg) <=> Continue(i, op, arg)
    BY <1>5 DEF customersPage!Finish, Finish, customersPage!Continue, Continue
  <1>8. QED
    BY <1>1, <1>2, <1>3, <1>4, <1>5, <1>6, <1>7

\* A step of the screen alone.
LEMMA CustomersScreen ==
    ASSUME CustomersInv, UNCHANGED <<db, calls>>,
           ui' \in [list: SUBSET Customers, timers: SUBSET {"mount", "search"},
               form: customersPage!Form, editing: Customers \cup {None},
               toDelete: Customers \cup {None}, loading: BOOLEAN,
               submitting: BOOLEAN, deleting: BOOLEAN],
           ui'.deleting = ui.deleting, ui'.submitting = ui.submitting,
           customersPage!FormFollowsEditing',
           callsOf({"delete"}) # {} => ui'.toDelete = ui.toDelete
    PROVE  CustomersInv'
  <1>1. underWay' = underWay /\ \A ops : callsOf(ops)' = callsOf(ops)
    BY DEF callsOf, underWay
  <1>2. CallsOK' /\ Alone(saves)' /\ Alone(deletions)'
    BY <1>1 DEF CustomersInv, CallsOK, Alone
  <1>3. customersPage!TypeOK'
    BY <1>1, CustomersCalls DEF CustomersInv, customersPage!TypeOK
  <1>4. DialogWaits'
    BY <1>1 DEF CustomersInv, DialogWaits
  <1>5. QED
    BY <1>1, <1>2, <1>3, <1>4 DEF CustomersInv

\* A step that puts a call into a slot, or takes one out.
LEMMA CustomersCall ==
    ASSUME CustomersInv, NEW k, NEW c, Puts(k, c), db' = db,
           ui' \in [list: SUBSET Customers, timers: SUBSET {"mount", "search"},
               form: customersPage!Form, editing: Customers \cup {None},
               toDelete: Customers \cup {None}, loading: BOOLEAN,
               submitting: BOOLEAN, deleting: BOOLEAN],
           customersPage!FormFollowsEditing',
           c = NoCall \/ c.op \in customersPage!loads \cup {"save", "delete"},
           waits(saves, k, c, ui.submitting, ui'.submitting),
           waits(deletions, k, c, ui.deleting, ui'.deleting),
           \/ ui'.toDelete = ui.toDelete
           \/ k \in callsOf({"delete"}) /\ (c = NoCall \/ c.op # "delete"),
           c # NoCall /\ c.op = "delete" => c.arg = ui.toDelete /\ ui.toDelete # None
    PROVE  CustomersInv'
  <1>1. /\ (ui'.submitting <=> callsOf(saves)' # {}) /\ Alone(saves)'
        /\ (ui'.deleting <=> callsOf(deletions)' # {}) /\ Alone(deletions)'
    BY OneAtATime DEF CustomersInv
  <1>2. DialogWaits'
    BY DialogKept DEF CustomersInv
  <1>3. customersPage!TypeOK'
    BY CustomersCalls DEF CustomersInv, customersPage!TypeOK, Puts, underWay
  <1>4. QED
    BY <1>1, <1>2, <1>3 DEF CustomersInv, Puts

LEMMA CustomersOperator ==
    ASSUME CustomersInv, customersPage!Operator
    PROVE  CustomersInv'
  <1> USE DEF customersPage!Screen, CustomersInv, customersPage!TypeOK,
              customersPage!FormFollowsEditing, customersPage!Form, customersPage!emptyForm
  <1>1. CASE customersPage!Search
    BY <1>1, CustomersScreen DEF customersPage!Search
  <1>2. CASE customersPage!openCreateForm
    BY <1>2, CustomersScreen DEF customersPage!openCreateForm, customersPage!formReset
  <1>3. CASE customersPage!updateField
    BY <1>3, CustomersScreen DEF customersPage!updateField
  <1>4. CASE customersPage!cancelEditing
    BY <1>4, CustomersScreen DEF customersPage!cancelEditing, customersPage!formReset
  <1>5. CASE customersPage!handleSubmit
    <2>1. PICK k \in Slots : calls[k] = NoCall /\ Puts(k, Sent("save", ui.editing))
      BY <1>5, CallIsPlaced, CustomersCalls DEF customersPage!handleSubmit
    <2>2. k \notin callsOf(saves) /\ k \notin callsOf(deletions) /\ Sent("save", ui.editing).op = "save"
      BY <2>1 DEF callsOf, underWay, Sent
    <2>3. /\ ui' = [ui EXCEPT !.submitting = TRUE] /\ db' = db /\ ~ui.submitting
      BY <1>5 DEF customersPage!handleSubmit, customersPage!maySubmit
    <2>4. waits(saves, k, Sent("save", ui.editing), ui.submitting, TRUE)
      BY <2>2, <2>3, CallIsSome DEF waits, saves
    <2>5. waits(deletions, k, Sent("save", ui.editing), ui.deleting, ui.deleting)
      BY <2>2 DEF waits, deletions
    <2>6. QED
      BY <2>1, <2>2, <2>3, <2>4, <2>5, CustomersCall
  <1>6. ASSUME NEW c \in Customers, customersPage!openEditForm(c) PROVE CustomersInv'
    BY <1>6, CustomersScreen DEF customersPage!openEditForm, customersPage!customerToForm
  <1>7. ASSUME NEW c \in Customers, customersPage!askDelete(c) PROVE CustomersInv'
    <2>1. callsOf({"delete"}) = {}
      BY <1>7 DEF customersPage!askDelete, customersPage!rowsShown, DialogWaits
    <2>2. QED
      BY <1>7, <2>1, CustomersScreen DEF customersPage!askDelete
  <1>8. CASE customersPage!dismiss
    <2>1. callsOf({"delete"}) = {}
      BY <1>8 DEF customersPage!dismiss, customersPage!dialogEnabled, callsOf, deletions
    <2>2. QED
      BY <1>8, <2>1, CustomersScreen DEF customersPage!dismiss
  <1>9. CASE customersPage!confirmDelete
    <2>1. PICK k \in Slots : calls[k] = NoCall /\ Puts(k, Sent("delete", ui.toDelete))
      BY <1>9, CallIsPlaced, CustomersCalls DEF customersPage!confirmDelete
    <2>2. /\ k \notin callsOf(saves) /\ k \notin callsOf(deletions)
          /\ Sent("delete", ui.toDelete).op = "delete" /\ Sent("delete", ui.toDelete).arg = ui.toDelete
      BY <2>1 DEF callsOf, underWay, Sent
    <2>3. /\ ui' = [ui EXCEPT !.deleting = TRUE] /\ db' = db
          /\ ~ui.deleting /\ ui.toDelete # None
      BY <1>9 DEF customersPage!confirmDelete, customersPage!dialogEnabled
    <2>4. waits(saves, k, Sent("delete", ui.toDelete), ui.submitting, ui.submitting)
      BY <2>2 DEF waits, saves
    <2>5. waits(deletions, k, Sent("delete", ui.toDelete), ui.deleting, TRUE)
      BY <2>2, <2>3, CallIsSome DEF waits, deletions
    <2>6. QED
      BY <2>1, <2>2, <2>3, <2>4, <2>5, CustomersCall
  <1>10. QED
    BY <1>1, <1>2, <1>3, <1>4, <1>5, <1>6, <1>7, <1>8, <1>9 DEF customersPage!Operator

LEMMA CustomersReceive ==
    ASSUME CustomersInv, NEW i \in Slots, customersPage!Receive(i)
    PROVE  CustomersInv'
  <1> USE DEF CustomersInv, customersPage!TypeOK, customersPage!FormFollowsEditing,
              customersPage!Form, customersPage!emptyForm, customersPage!ListShown
  <1>1. /\ Finish(i) => Puts(i, NoCall)
        /\ \A op, arg : Continue(i, op, arg) => Puts(i, Sent(op, arg)) /\ Sent(op, arg).op = op
    BY AnswerIsTaken DEF Sent
  <1>2. CASE customersPage!ListArrives(i)
    <2>1. i \in callsOf({"load"}) /\ Puts(i, NoCall) /\ db' = db
      BY <1>1, <1>2, CustomersCalls DEF customersPage!ListArrives
    <2>2. i \notin callsOf(saves) /\ i \notin callsOf(deletions)
      BY <2>1 DEF saves, deletions, callsOf
    <2>3. PICK list \in SUBSET Customers :
              ui' = [ui EXCEPT !.list = list, !.loading = FALSE]
      BY <1>2 DEF customersPage!ListArrives
    <2>4. QED
      BY <2>1, <2>2, <2>3, CustomersCall DEF waits
  <1>3. CASE customersPage!ReloadArrives(i)
    <2>1. i \in callsOf({"reload"}) /\ Puts(i, NoCall) /\ db' = db
      BY <1>1, <1>3, CustomersCalls DEF customersPage!ReloadArrives
    <2>2. i \in callsOf(saves) /\ i \notin callsOf(deletions)
      BY <2>1 DEF saves, deletions, callsOf
    <2>3. PICK list \in SUBSET Customers :
              ui' = [[ui EXCEPT !.submitting = FALSE] EXCEPT !.list = list, !.loading = FALSE]
      BY <1>3 DEF customersPage!ReloadArrives
    <2>4. QED
      BY <2>1, <2>2, <2>3, CustomersCall DEF waits
  <1>4. CASE customersPage!RefillArrives(i)
    <2>1. i \in callsOf({"refill"}) /\ Puts(i, NoCall) /\ db' = db
      BY <1>1, <1>4, CustomersCalls DEF customersPage!RefillArrives
    <2>2. i \notin callsOf(saves) /\ i \in callsOf(deletions)
      BY <2>1 DEF saves, deletions, callsOf
    <2>3. PICK list \in SUBSET Customers :
              ui' = [[ui EXCEPT !.deleting = FALSE] EXCEPT !.list = list, !.loading = FALSE]
      BY <1>4 DEF customersPage!RefillArrives
    <2>4. QED
      BY <2>1, <2>2, <2>3, CustomersCall DEF waits
  <1>5. CASE customersPage!SaveAnswered(i)
    <2>1. i \in callsOf({"save"}) /\ db' = db
      BY <1>5, CustomersCalls DEF customersPage!SaveAnswered
    <2>2. i \in callsOf(saves) /\ i \notin callsOf(deletions)
      BY <2>1 DEF saves, deletions, callsOf
    <2>3. CASE /\ Continue(i, "reload", None)
               /\ ui' = customersPage!loadStarts(customersPage!formReset(ui))
      <3>1. Puts(i, Sent("reload", None)) /\ Sent("reload", None).op = "reload"
        BY <1>1, <2>3
      <3>2. waits(saves, i, Sent("reload", None), ui.submitting, ui.submitting)
        BY <2>2, <3>1, CallIsSome DEF waits, saves
      <3>3. waits(deletions, i, Sent("reload", None), ui.deleting, ui.deleting)
        BY <2>2, <3>1 DEF waits, deletions
      <3>4. QED
        BY <2>1, <2>3, <3>1, <3>2, <3>3, CustomersCall
        DEF customersPage!loadStarts, customersPage!loads, customersPage!formReset
    <2>4. CASE Finish(i) /\ ui' = [ui EXCEPT !.submitting = FALSE]
      BY <1>1, <2>1, <2>2, <2>4, CustomersCall DEF waits
    <2>5. QED
      BY <1>5, <2>3, <2>4, CustomersCalls DEF customersPage!SaveAnswered
  <1>6. CASE customersPage!DeleteAnswered(i)
    <2>1. i \in callsOf({"delete"}) /\ db' = db
      BY <1>6, CustomersCalls DEF customersPage!DeleteAnswered
    <2>2. i \notin callsOf(saves) /\ i \in callsOf(deletions)
      BY <2>1 DEF saves, deletions, callsOf
    <2>3. CASE /\ Continue(i, "refill", None)
               /\ ui' = customersPage!loadStarts([ui EXCEPT !.toDelete = None])
      <3>1. Puts(i, Sent("refill", None)) /\ Sent("refill", None).op = "refill"
        BY <1>1, <2>3
      <3>2. waits(deletions, i, Sent("refill", None), ui.deleting, ui.deleting)
        BY <2>2, <3>1, CallIsSome DEF waits, deletions
      <3>3. waits(saves, i, Sent("refill", None), ui.submitting, ui.submitting)
        BY <2>2, <3>1 DEF waits, saves
      <3>4. QED
        BY <2>1, <2>3, <3>1, <3>2, <3>3, CustomersCall
        DEF customersPage!loadStarts, customersPage!loads
    <2>4. CASE Finish(i) /\ ui' = [ui EXCEPT !.deleting = FALSE]
      BY <1>1, <2>1, <2>2, <2>4, CustomersCall DEF waits
    <2>5. QED
      BY <1>6, <2>3, <2>4, CustomersCalls DEF customersPage!DeleteAnswered
  <1>7. QED
    BY <1>2, <1>3, <1>4, <1>5, <1>6 DEF customersPage!Receive

LEMMA CustomersNext ==
    ASSUME CustomersInv, customersPage!Next
    PROVE  CustomersInv'
  <1>1. ASSUME NEW t \in {"mount", "search"}, customersPage!TimerFires(t) PROVE CustomersInv'
    <2>1. PICK k \in Slots : calls[k] = NoCall /\ Puts(k, Sent("load", None))
      BY <1>1, CallIsPlaced, CustomersCalls DEF customersPage!TimerFires, CustomersInv
    <2>2. k \notin callsOf(saves) /\ k \notin callsOf(deletions) /\ Sent("load", None).op = "load"
      BY <2>1 DEF callsOf, underWay, Sent
    <2>3. QED
      BY <1>1, <2>1, <2>2, CustomersCall
      DEF customersPage!TimerFires, saves, deletions, waits, CustomersInv, customersPage!TypeOK,
          customersPage!FormFollowsEditing, customersPage!Form,
          customersPage!loads, customersPage!loadStarts
  <1>2. QED
    BY <1>1, CustomersOperator, CustomersReceive, CustomersCalls DEF customersPage!Next

LEMMA CustomersInit ==
    ASSUME customersPage!Init
    PROVE  CustomersInv
  BY CustomersCalls
  DEF customersPage!Init, CustomersInv, customersPage!NoCalls, customersPage!NoCall, NoCall,
     customersPage!Slots, Slots, CallsOK, customersPage!TypeOK, customersPage!Form,
     customersPage!emptyForm, customersPage!FormFollowsEditing,
     Alone, DialogWaits, callsOf, underWay

LEMMA CustomersHold ==
    ASSUME CustomersInv
    PROVE  /\ customersPage!TypeOK /\ customersPage!BusyWhileUnderWay
           /\ customersPage!FormFollowsEditing /\ customersPage!DialogNamesDeleted
  BY CustomersCalls DEF CustomersInv, saves, deletions, DialogWaits,
     customersPage!BusyWhileUnderWay, customersPage!DialogNamesDeleted

-----------------------------------------------------------------------------
(* The page of the shipments *)

ShipmentsInv ==
    /\ CallsOK /\ shipmentsPage!TypeOK /\ shipmentsPage!FormFollowsEditing
    /\ Alone(saves) /\ Alone(deletions) /\ DialogWaits
    /\ ui.saving <=> callsOf(saves) # {}
    /\ ui.deleting <=> callsOf(deletions) # {}

\* The calls of the page are those of WebCalls.
LEMMA ShipmentsCalls ==
    /\ shipmentsPage!underWay = underWay /\ shipmentsPage!underWay' = underWay'
    /\ shipmentsPage!Slots = Slots
    /\ \A ops : /\ shipmentsPage!callsOf(ops) = callsOf(ops)
                /\ shipmentsPage!callsOf(ops)' = callsOf(ops)'
    /\ \A i, ops : shipmentsPage!returns(i, ops) <=> i \in callsOf(ops)
    /\ \A op, arg : /\ shipmentsPage!Call(op, arg) <=> Call(op, arg)
                    /\ shipmentsPage!Sent(op, arg) = Sent(op, arg)
    /\ \A i : shipmentsPage!Finish(i) <=> Finish(i)
    /\ \A i, op, arg : shipmentsPage!Continue(i, op, arg) <=> Continue(i, op, arg)
  <1> USE DEF shipmentsPage!NoCall, NoCall
  <1>1. shipmentsPage!Slots = Slots /\ shipmentsPage!underWay = underWay
    BY DEF shipmentsPage!underWay, shipmentsPage!Slots, underWay, Slots
  <1>2. shipmentsPage!underWay' = underWay'
    BY DEF shipmentsPage!underWay, shipmentsPage!Slots, underWay, Slots
  <1>3. \A ops : /\ shipmentsPage!callsOf(ops) = callsOf(ops)
                 /\ shipmentsPage!callsOf(ops)' = callsOf(ops)'
    BY <1>1, <1>2 DEF shipmentsPage!callsOf, callsOf
  <1>4. \A i, ops : shipmentsPage!returns(i, ops) <=> i \in callsOf(ops)
    BY <1>3 DEF shipmentsPage!returns
  <1>5. \A op, arg : shipmentsPage!Sent(op, arg) = Sent(op, arg)
    BY DEF shipmentsPage!Sent, Sent
  <1>6. \A op, arg : shipmentsPage!Call(op, arg) <=> Call(op, arg)
    BY <1>1, <1>5 DEF shipmentsPage!Call, Call, shipmentsPage!mayCall, mayCall,
                      shipmentsPage!placed, placed, shipmentsPage!firstFree, firstFree
  <1>7. /\ \A i : shipmentsPage!Finish(i) <=> Finish(i)
        /\ \A i, op, arg : shipmentsPage!Continue(i, op, arg) <=> Continue(i, op, arg)
    BY <1>5 DEF shipmentsPage!Finish, Finish, shipmentsPage!Continue, Continue
  <1>8. QED
    BY <1>1, <1>2, <1>3, <1>4, <1>5, <1>6, <1>7

\* A step of the screen alone.
LEMMA ShipmentsScreen ==
    ASSUME ShipmentsInv, UNCHANGED <<db, calls>>,
           ui' \in [list: SUBSET Shipments, customers: BOOLEAN, timer: BOOLEAN,
               form: shipmentsPage!Form, editing: Shipments \cup {None},
               toDelete: Shipments \cup {None}, loading: BOOLEAN,
               saving: BOOLEAN, deleting: BOOLEAN],
           ui'.deleting = ui.deleting, ui'.saving = ui.saving,
           shipmentsPage!FormFollowsEditing',
           callsOf({"delete"}) # {} => ui'.toDelete = ui.toDelete
    PROVE  ShipmentsInv'
  <1>1. underWay' = underWay /\ \A ops : callsOf(ops)' = callsOf(ops)
    BY DEF callsOf, underWay
  <1>2. CallsOK' /\ Alone(saves)' /\ Alone(deletions)'
    BY <1>1 DEF ShipmentsInv, CallsOK, Alone
  <1>3. shipmentsPage!TypeOK'
    BY <1>1, ShipmentsCalls DEF ShipmentsInv, shipmentsPage!TypeOK
  <1>4. DialogWaits'
    BY <1>1 DEF ShipmentsInv, DialogWaits
  <1>5. QED
    BY <1>1, <1>2, <1>3, <1>4 DEF ShipmentsInv

\* A step that puts a call into a slot, or takes one out.
LEMMA ShipmentsCall ==
    ASSUME ShipmentsInv, NEW k, NEW c, Puts(k, c), db' = db,
           ui' \in [list: SUBSET Shipments, customers: BOOLEAN, timer: BOOLEAN,
               form: shipmentsPage!Form, editing: Shipments \cup {None},
               toDelete: Shipments \cup {None}, loading: BOOLEAN,
               saving: BOOLEAN, deleting: BOOLEAN],
           shipmentsPage!FormFollowsEditing',
           c = NoCall \/ c.op \in shipmentsPage!operations,
           waits(saves, k, c, ui.saving, ui'.saving),
           waits(deletions, k, c, ui.deleting, ui'.deleting),
           \/ ui'.toDelete = ui.toDelete
           \/ k \in callsOf({"delete"}) /\ (c = NoCall \/ c.op # "delete"),
           c # NoCall /\ c.op = "delete" => c.arg = ui.toDelete /\ ui.toDelete # None
    PROVE  ShipmentsInv'
  <1>1. /\ (ui'.saving <=> callsOf(saves)' # {}) /\ Alone(saves)'
        /\ (ui'.deleting <=> callsOf(deletions)' # {}) /\ Alone(deletions)'
    BY OneAtATime DEF ShipmentsInv
  <1>2. DialogWaits'
    BY DialogKept DEF ShipmentsInv
  <1>3. shipmentsPage!TypeOK'
    BY ShipmentsCalls DEF ShipmentsInv, shipmentsPage!TypeOK, Puts, underWay
  <1>4. QED
    BY <1>1, <1>2, <1>3 DEF ShipmentsInv, Puts

LEMMA ShipmentsOperator ==
    ASSUME ShipmentsInv, shipmentsPage!Operator
    PROVE  ShipmentsInv'
  <1> USE DEF shipmentsPage!Screen, ShipmentsInv, shipmentsPage!TypeOK,
              shipmentsPage!FormFollowsEditing, shipmentsPage!Form, shipmentsPage!initialForm
  <1>1. CASE shipmentsPage!Filter
    BY <1>1, ShipmentsScreen DEF shipmentsPage!Filter
  <1>2. CASE shipmentsPage!openCreateForm
    <2>1. PICK k \in Slots : calls[k] = NoCall /\ Puts(k, Sent("preview", None))
      BY <1>2, CallIsPlaced, ShipmentsCalls DEF shipmentsPage!openCreateForm
    <2>2. k \notin callsOf(saves) /\ k \notin callsOf(deletions) /\ Sent("preview", None).op = "preview"
      BY <2>1 DEF callsOf, underWay, Sent
    <2>3. QED
      BY <1>2, <2>1, <2>2, ShipmentsCall
      DEF shipmentsPage!openCreateForm, shipmentsPage!resetForm, saves, deletions, waits,
          shipmentsPage!operations
  <1>3. CASE shipmentsPage!updateForm
    BY <1>3, ShipmentsScreen DEF shipmentsPage!updateForm
  <1>4. CASE shipmentsPage!cancelEditing
    BY <1>4, ShipmentsScreen DEF shipmentsPage!cancelEditing, shipmentsPage!resetForm
  <1>5. CASE shipmentsPage!handleSubmit
    <2> DEFINE edited == [id |-> ui.editing, no |-> ui.form.no]
    <2>1. PICK k \in Slots : calls[k] = NoCall /\ Puts(k, Sent("save", edited))
      BY <1>5, CallIsPlaced, ShipmentsCalls DEF shipmentsPage!handleSubmit
    <2>2. k \notin callsOf(saves) /\ k \notin callsOf(deletions) /\ Sent("save", edited).op = "save"
      BY <2>1 DEF callsOf, underWay, Sent
    <2>3. /\ ui' = [ui EXCEPT !.saving = TRUE] /\ db' = db /\ ~ui.saving
      BY <1>5 DEF shipmentsPage!handleSubmit, shipmentsPage!maySubmit
    <2>4. waits(saves, k, Sent("save", edited), ui.saving, TRUE)
      BY <2>2, <2>3, CallIsSome DEF waits, saves
    <2>5. waits(deletions, k, Sent("save", edited), ui.deleting, ui.deleting)
      BY <2>2 DEF waits, deletions
    <2>6. QED
      BY <2>1, <2>2, <2>3, <2>4, <2>5, ShipmentsCall DEF shipmentsPage!operations
  <1>6. ASSUME NEW s \in Shipments, shipmentsPage!openEditForm(s) PROVE ShipmentsInv'
    BY <1>6, ShipmentsScreen DEF shipmentsPage!openEditForm, shipmentsPage!formOf
  <1>7. ASSUME NEW s \in Shipments, shipmentsPage!askDelete(s) PROVE ShipmentsInv'
    <2>1. callsOf({"delete"}) = {}
      BY <1>7 DEF shipmentsPage!askDelete, shipmentsPage!rowsShown, DialogWaits
    <2>2. QED
      BY <1>7, <2>1, ShipmentsScreen DEF shipmentsPage!askDelete
  <1>8. CASE shipmentsPage!dismiss
    <2>1. callsOf({"delete"}) = {}
      BY <1>8 DEF shipmentsPage!dismiss, shipmentsPage!dialogEnabled, callsOf, deletions
    <2>2. QED
      BY <1>8, <2>1, ShipmentsScreen DEF shipmentsPage!dismiss
  <1>9. CASE shipmentsPage!confirmDelete
    <2>1. PICK k \in Slots : calls[k] = NoCall /\ Puts(k, Sent("delete", ui.toDelete))
      BY <1>9, CallIsPlaced, ShipmentsCalls DEF shipmentsPage!confirmDelete
    <2>2. /\ k \notin callsOf(saves) /\ k \notin callsOf(deletions)
          /\ Sent("delete", ui.toDelete).op = "delete" /\ Sent("delete", ui.toDelete).arg = ui.toDelete
      BY <2>1 DEF callsOf, underWay, Sent
    <2>3. /\ ui' = [ui EXCEPT !.deleting = TRUE] /\ db' = db
          /\ ~ui.deleting /\ ui.toDelete # None
      BY <1>9 DEF shipmentsPage!confirmDelete, shipmentsPage!dialogEnabled
    <2>4. waits(saves, k, Sent("delete", ui.toDelete), ui.saving, ui.saving)
      BY <2>2 DEF waits, saves
    <2>5. waits(deletions, k, Sent("delete", ui.toDelete), ui.deleting, TRUE)
      BY <2>2, <2>3, CallIsSome DEF waits, deletions
    <2>6. QED
      BY <2>1, <2>2, <2>3, <2>4, <2>5, ShipmentsCall DEF shipmentsPage!operations
  <1>10. QED
    BY <1>1, <1>2, <1>3, <1>4, <1>5, <1>6, <1>7, <1>8, <1>9 DEF shipmentsPage!Operator

LEMMA ShipmentsReceive ==
    ASSUME ShipmentsInv, NEW i \in Slots, shipmentsPage!Receive(i)
    PROVE  ShipmentsInv'
  <1> USE DEF ShipmentsInv, shipmentsPage!TypeOK, shipmentsPage!FormFollowsEditing,
              shipmentsPage!Form, shipmentsPage!initialForm, shipmentsPage!ListShown
  <1>1. /\ Finish(i) => Puts(i, NoCall)
        /\ \A op, arg : Continue(i, op, arg) => Puts(i, Sent(op, arg)) /\ Sent(op, arg).op = op
    BY AnswerIsTaken DEF Sent
  <1>2. CASE shipmentsPage!ListArrives(i)
    <2>1. i \in callsOf({"load"}) /\ Puts(i, NoCall) /\ db' = db
      BY <1>1, <1>2, ShipmentsCalls DEF shipmentsPage!ListArrives
    <2>2. i \notin callsOf(saves) /\ i \notin callsOf(deletions)
      BY <2>1 DEF saves, deletions, callsOf
    <2>3. PICK list \in SUBSET Shipments :
              ui' = [ui EXCEPT !.list = list, !.loading = FALSE]
      BY <1>2 DEF shipmentsPage!ListArrives
    <2>4. QED
      BY <2>1, <2>2, <2>3, ShipmentsCall DEF waits
  <1>3. CASE shipmentsPage!ReloadArrives(i)
    <2>1. i \in callsOf({"reload"}) /\ Puts(i, NoCall) /\ db' = db
      BY <1>1, <1>3, ShipmentsCalls DEF shipmentsPage!ReloadArrives
    <2>2. i \in callsOf(saves) /\ i \notin callsOf(deletions)
      BY <2>1 DEF saves, deletions, callsOf
    <2>3. PICK list \in SUBSET Shipments :
              ui' = [[ui EXCEPT !.saving = FALSE] EXCEPT !.list = list, !.loading = FALSE]
      BY <1>3 DEF shipmentsPage!ReloadArrives
    <2>4. QED
      BY <2>1, <2>2, <2>3, ShipmentsCall DEF waits
  <1>4. CASE shipmentsPage!RefillArrives(i)
    <2>1. i \in callsOf({"refill"}) /\ Puts(i, NoCall) /\ db' = db
      BY <1>1, <1>4, ShipmentsCalls DEF shipmentsPage!RefillArrives
    <2>2. i \notin callsOf(saves) /\ i \in callsOf(deletions)
      BY <2>1 DEF saves, deletions, callsOf
    <2>3. PICK list \in SUBSET Shipments :
              ui' = [[ui EXCEPT !.deleting = FALSE] EXCEPT !.list = list, !.loading = FALSE]
      BY <1>4 DEF shipmentsPage!RefillArrives
    <2>4. QED
      BY <2>1, <2>2, <2>3, ShipmentsCall DEF waits
  <1>5. CASE shipmentsPage!SaveAnswered(i)
    <2>1. i \in callsOf({"save"}) /\ db' = db
      BY <1>5, ShipmentsCalls DEF shipmentsPage!SaveAnswered
    <2>2. i \in callsOf(saves) /\ i \notin callsOf(deletions)
      BY <2>1 DEF saves, deletions, callsOf
    <2>3. CASE /\ Continue(i, "reload", None)
               /\ ui' = shipmentsPage!loadStarts(shipmentsPage!resetForm(ui))
      <3>1. Puts(i, Sent("reload", None)) /\ Sent("reload", None).op = "reload"
        BY <1>1, <2>3
      <3>2. waits(saves, i, Sent("reload", None), ui.saving, ui.saving)
        BY <2>2, <3>1, CallIsSome DEF waits, saves
      <3>3. waits(deletions, i, Sent("reload", None), ui.deleting, ui.deleting)
        BY <2>2, <3>1 DEF waits, deletions
      <3>4. QED
        BY <2>1, <2>3, <3>1, <3>2, <3>3, ShipmentsCall
        DEF shipmentsPage!loadStarts, shipmentsPage!loads, shipmentsPage!operations, shipmentsPage!resetForm
    <2>4. CASE Finish(i) /\ ui' = [ui EXCEPT !.saving = FALSE]
      BY <1>1, <2>1, <2>2, <2>4, ShipmentsCall DEF waits
    <2>5. QED
      BY <1>5, <2>3, <2>4, ShipmentsCalls DEF shipmentsPage!SaveAnswered
  <1>6. CASE shipmentsPage!DeleteAnswered(i)
    <2>1. i \in callsOf({"delete"}) /\ db' = db
      BY <1>6, ShipmentsCalls DEF shipmentsPage!DeleteAnswered
    <2>2. i \notin callsOf(saves) /\ i \in callsOf(deletions)
      BY <2>1 DEF saves, deletions, callsOf
    <2>3. CASE /\ Continue(i, "refill", None)
               /\ ui' = shipmentsPage!loadStarts([ui EXCEPT !.toDelete = None])
      <3>1. Puts(i, Sent("refill", None)) /\ Sent("refill", None).op = "refill"
        BY <1>1, <2>3
      <3>2. waits(deletions, i, Sent("refill", None), ui.deleting, ui.deleting)
        BY <2>2, <3>1, CallIsSome DEF waits, deletions
      <3>3. waits(saves, i, Sent("refill", None), ui.saving, ui.saving)
        BY <2>2, <3>1 DEF waits, saves
      <3>4. QED
        BY <2>1, <2>3, <3>1, <3>2, <3>3, ShipmentsCall
        DEF shipmentsPage!loadStarts, shipmentsPage!loads, shipmentsPage!operations
    <2>4. CASE Finish(i) /\ ui' = [ui EXCEPT !.deleting = FALSE]
      BY <1>1, <2>1, <2>2, <2>4, ShipmentsCall DEF waits
    <2>5. QED
      BY <1>6, <2>3, <2>4, ShipmentsCalls DEF shipmentsPage!DeleteAnswered
  <1>7. CASE shipmentsPage!CustomersArrive(i)
    <2>1. i \in callsOf({"customers"}) /\ Puts(i, NoCall) /\ db' = db
      BY <1>1, <1>7, ShipmentsCalls DEF shipmentsPage!CustomersArrive
    <2>2. i \notin callsOf(saves) /\ i \notin callsOf(deletions)
      BY <2>1 DEF saves, deletions, callsOf
    <2>3. PICK any \in BOOLEAN : ui' = [ui EXCEPT !.customers = any]
      BY <1>7 DEF shipmentsPage!CustomersArrive
    <2>4. QED
      BY <2>1, <2>2, <2>3, ShipmentsCall DEF waits
  <1>8. CASE shipmentsPage!PreviewArrives(i)
    <2>1. i \in callsOf({"preview"}) /\ Puts(i, NoCall) /\ db' = db
      BY <1>1, <1>8, ShipmentsCalls DEF shipmentsPage!PreviewArrives
    <2>2. i \notin callsOf(saves) /\ i \notin callsOf(deletions)
      BY <2>1 DEF saves, deletions, callsOf
    <2>3. PICK no \in {Preview, ui.form.no} : ui' = [ui EXCEPT !.form.no = no]
      BY <1>8 DEF shipmentsPage!PreviewArrives
    <2>4. QED
      BY <2>1, <2>2, <2>3, ShipmentsCall DEF waits
  <1>9. QED
    BY <1>2, <1>3, <1>4, <1>5, <1>6, <1>7, <1>8 DEF shipmentsPage!Receive

LEMMA ShipmentsNext ==
    ASSUME ShipmentsInv, shipmentsPage!Next
    PROVE  ShipmentsInv'
  <1>1. CASE shipmentsPage!TimerFires
    <2>1. PICK k \in Slots : calls[k] = NoCall /\ Puts(k, Sent("load", None))
      BY <1>1, CallIsPlaced, ShipmentsCalls DEF shipmentsPage!TimerFires, ShipmentsInv
    <2>2. k \notin callsOf(saves) /\ k \notin callsOf(deletions) /\ Sent("load", None).op = "load"
      BY <2>1 DEF callsOf, underWay, Sent
    <2>3. QED
      BY <1>1, <2>1, <2>2, ShipmentsCall
      DEF shipmentsPage!TimerFires, saves, deletions, waits, ShipmentsInv, shipmentsPage!TypeOK,
          shipmentsPage!FormFollowsEditing, shipmentsPage!Form,
          shipmentsPage!operations, shipmentsPage!loads, shipmentsPage!loadStarts
  <1>2. QED
    BY <1>1, ShipmentsOperator, ShipmentsReceive, ShipmentsCalls DEF shipmentsPage!Next

LEMMA ShipmentsInit ==
    ASSUME WebConstants, shipmentsPage!Init
    PROVE  ShipmentsInv
  <1> DEFINE c == Sent("customers", None)
  <1>1. PICK k \in Slots : calls = [i \in Slots |-> IF i = k THEN c ELSE NoCall]
    <2>1. shipmentsPage!NoCalls = NoCalls
      BY DEF shipmentsPage!NoCalls, shipmentsPage!NoCall, NoCall, NoCalls, shipmentsPage!Slots,
         Slots
    <2>2. \A cs : shipmentsPage!placed(cs, c) = placed(cs, c)
      BY ShipmentsCalls
      DEF shipmentsPage!placed, placed, shipmentsPage!firstFree, firstFree,
          shipmentsPage!NoCall, NoCall
    <2>3. QED
      BY <2>1, <2>2, FirstCall, ShipmentsCalls DEF shipmentsPage!Init
  <1>2. CallsOK /\ \A i \in underWay : calls[i].op = "customers"
    BY <1>1 DEF CallsOK, underWay, Sent
  <1>3. callsOf(saves) = {} /\ callsOf(deletions) = {} /\ callsOf({"delete"}) = {}
    BY <1>2 DEF callsOf, saves, deletions
  <1>4. QED
    BY <1>2, <1>3, ShipmentsCalls
    DEF shipmentsPage!Init, ShipmentsInv, shipmentsPage!TypeOK, shipmentsPage!Form,
        shipmentsPage!initialForm, shipmentsPage!FormFollowsEditing,
        shipmentsPage!operations, Alone, DialogWaits

LEMMA ShipmentsHold ==
    ASSUME ShipmentsInv
    PROVE  /\ shipmentsPage!TypeOK /\ shipmentsPage!BusyWhileUnderWay
           /\ shipmentsPage!FormFollowsEditing /\ shipmentsPage!DialogNamesDeleted
  BY ShipmentsCalls DEF ShipmentsInv, saves, deletions, DialogWaits,
     shipmentsPage!BusyWhileUnderWay, shipmentsPage!DialogNamesDeleted

-----------------------------------------------------------------------------
(* The page of the accounts *)

creations == {"create", "reload"}

\* One account is being created at a time, in a dialog that cannot be closed
\* meanwhile.
UsersInv ==
    /\ CallsOK /\ usersPage!TypeOK
    /\ Alone(creations) /\ (ui.submitting <=> callsOf(creations) # {})
    /\ ui.submitting => ui.open

\* The calls of the page are those of WebCalls.
LEMMA UsersCalls ==
    /\ usersPage!underWay = underWay /\ usersPage!underWay' = underWay'
    /\ usersPage!Slots = Slots
    /\ \A ops : /\ usersPage!callsOf(ops) = callsOf(ops)
                /\ usersPage!callsOf(ops)' = callsOf(ops)'
    /\ \A i, ops : usersPage!returns(i, ops) <=> i \in callsOf(ops)
    /\ \A op, arg : usersPage!Sent(op, arg) = Sent(op, arg)
    /\ \A op, arg : usersPage!Call(op, arg) <=> Call(op, arg)
    /\ \A i : usersPage!Finish(i) <=> Finish(i)
    /\ \A i, op, arg : usersPage!Continue(i, op, arg) <=> Continue(i, op, arg)
  <1> USE DEF usersPage!NoCall, NoCall
  <1>1. usersPage!Slots = Slots /\ usersPage!underWay = underWay
    BY DEF usersPage!underWay, usersPage!Slots, underWay, Slots
  <1>2. usersPage!underWay' = underWay'
    BY DEF usersPage!underWay, usersPage!Slots, underWay, Slots
  <1>3. \A ops : /\ usersPage!callsOf(ops) = callsOf(ops)
                 /\ usersPage!callsOf(ops)' = callsOf(ops)'
    BY <1>1, <1>2 DEF usersPage!callsOf, callsOf
  <1>4. \A i, ops : usersPage!returns(i, ops) <=> i \in callsOf(ops)
    BY <1>3 DEF usersPage!returns
  <1>5. \A op, arg : usersPage!Sent(op, arg) = Sent(op, arg)
    BY DEF usersPage!Sent, Sent
  <1>6. \A op, arg : usersPage!Call(op, arg) <=> Call(op, arg)
    BY <1>1, <1>5 DEF usersPage!Call, Call, usersPage!mayCall, mayCall,
                      usersPage!placed, placed, usersPage!firstFree, firstFree
  <1>7. \A i : usersPage!Finish(i) <=> Finish(i)
    BY DEF usersPage!Finish, Finish
  <1>8. \A i, op, arg : usersPage!Continue(i, op, arg) <=> Continue(i, op, arg)
    BY <1>5 DEF usersPage!Continue, Continue
  <1>9. QED
    BY <1>1, <1>2, <1>3, <1>4, <1>5, <1>6, <1>7, <1>8

\* A step of the screen alone.
LEMMA UsersScreen ==
    ASSUME UsersInv, UNCHANGED <<db, calls>>,
           ui' \in [form: usersPage!Filled, mounting: BOOLEAN, loading: BOOLEAN, open: BOOLEAN,
                    submitting: BOOLEAN, error: BOOLEAN, formError: BOOLEAN, success: BOOLEAN],
           ui'.submitting = ui.submitting, ui'.submitting => ui'.open
    PROVE  UsersInv'
  <1>1. underWay' = underWay /\ \A ops : callsOf(ops)' = callsOf(ops)
    BY DEF callsOf, underWay
  <1>2. usersPage!TypeOK'
    BY <1>1, UsersCalls DEF UsersInv, usersPage!TypeOK
  <1>3. QED
    BY <1>1, <1>2 DEF UsersInv, CallsOK, Alone

\* A step that puts a call into a slot, or takes one out.
LEMMA UsersCall ==
    ASSUME UsersInv, NEW k, NEW c, Puts(k, c), db' = db,
           ui' \in [form: usersPage!Filled, mounting: BOOLEAN, loading: BOOLEAN, open: BOOLEAN,
                    submitting: BOOLEAN, error: BOOLEAN, formError: BOOLEAN, success: BOOLEAN],
           ui'.submitting => ui'.open, c = NoCall \/ c.op \in {"load", "create", "reload"},
           waits(creations, k, c, ui.submitting, ui'.submitting)
    PROVE  UsersInv'
  <1>1. (ui'.submitting <=> callsOf(creations)' # {}) /\ Alone(creations)'
    BY OneAtATime DEF UsersInv
  <1>2. usersPage!TypeOK'
    BY UsersCalls DEF UsersInv, usersPage!TypeOK, Puts, underWay
  <1>3. QED
    BY <1>1, <1>2 DEF UsersInv, Puts

LEMMA UsersOperator ==
    ASSUME UsersInv, usersPage!Operator
    PROVE  UsersInv'
  <1> USE DEF usersPage!Screen, UsersInv, usersPage!TypeOK, usersPage!Filled
  <1>1. CASE usersPage!openCreateUser
    BY <1>1, UsersScreen DEF usersPage!openCreateUser
  <1>2. CASE usersPage!closeCreateUser
    BY <1>2, UsersScreen DEF usersPage!closeCreateUser, usersPage!closed
  <1>3. CASE usersPage!updateField
    BY <1>3, UsersScreen DEF usersPage!updateField
  <1>4. CASE usersPage!handleCreateUser /\ usersPage!validateForm
    <2>1. PICK k \in Slots : calls[k] = NoCall /\ Puts(k, Sent("create", None))
      BY <1>4, CallIsPlaced, UsersCalls DEF usersPage!handleCreateUser
    <2>2. k \notin callsOf(creations) /\ Sent("create", None).op = "create"
      BY <2>1 DEF callsOf, underWay, Sent
    <2>3. /\ ui' = [ui EXCEPT !.submitting = TRUE, !.formError = FALSE, !.success = FALSE]
          /\ db' = db /\ ~ui.submitting /\ ui.open
      BY <1>4 DEF usersPage!handleCreateUser, usersPage!maySubmit
    <2>4. waits(creations, k, Sent("create", None), ui.submitting, TRUE)
      BY <2>2, <2>3, CallIsSome DEF waits, creations
    <2>5. QED
      BY <2>1, <2>2, <2>3, <2>4, UsersCall
  <1>5. CASE usersPage!handleCreateUser /\ ~usersPage!validateForm
    BY <1>5, UsersScreen DEF usersPage!handleCreateUser
  <1>6. QED
    BY <1>1, <1>2, <1>3, <1>4, <1>5 DEF usersPage!Operator

LEMMA UsersReceive ==
    ASSUME UsersInv, NEW i \in Slots, usersPage!Receive(i)
    PROVE  UsersInv'
  <1> USE DEF UsersInv, usersPage!TypeOK, usersPage!Filled
  <1>1. /\ Finish(i) => Puts(i, NoCall)
        /\ \A op, arg : Continue(i, op, arg) => Puts(i, Sent(op, arg)) /\ Sent(op, arg).op = op
    BY AnswerIsTaken DEF Sent
  <1>2. CASE usersPage!LoadEnds(i)
    <2>1. i \in callsOf({"load"}) /\ Puts(i, NoCall) /\ db' = db
      BY <1>1, <1>2, UsersCalls DEF usersPage!LoadEnds
    <2>2. i \notin callsOf(creations)
      BY <2>1 DEF creations, callsOf
    <2>3. PICK ok \in BOOLEAN : ui' = [ui EXCEPT !.error = ~ok, !.loading = FALSE]
      BY <1>2 DEF usersPage!LoadEnds
    <2>4. QED
      BY <2>1, <2>2, <2>3, UsersCall DEF waits
  <1>3. CASE usersPage!CreateAnswered(i)
    <2>1. i \in callsOf({"create"}) /\ db' = db
      BY <1>3, UsersCalls DEF usersPage!CreateAnswered
    <2>2. i \in callsOf(creations)
      BY <2>1 DEF creations, callsOf
    <2>3. CASE Continue(i, "reload", None) /\ ui' = [ui EXCEPT !.error = FALSE]
      <3>1. Puts(i, Sent("reload", None)) /\ Sent("reload", None).op = "reload"
        BY <1>1, <2>3
      <3>2. waits(creations, i, Sent("reload", None), ui.submitting, ui.submitting)
        BY <2>2, <3>1, CallIsSome DEF waits, creations
      <3>3. QED
        BY <2>1, <2>3, <3>1, <3>2, UsersCall
    <2>4. CASE Finish(i) /\ ui' = [ui EXCEPT !.formError = TRUE, !.submitting = FALSE]
      BY <1>1, <2>1, <2>2, <2>4, UsersCall DEF waits
    <2>5. QED
      BY <1>3, <2>3, <2>4, UsersCalls DEF usersPage!CreateAnswered
  <1>4. CASE usersPage!ReloadEnds(i)
    <2>1. i \in callsOf({"reload"}) /\ Puts(i, NoCall) /\ db' = db
      BY <1>1, <1>4, UsersCalls DEF usersPage!ReloadEnds
    <2>2. i \in callsOf(creations)
      BY <2>1 DEF creations, callsOf
    <2>3. PICK ok \in BOOLEAN :
              ui' = [[ui EXCEPT !.open = FALSE, !.form = "empty"]
                        EXCEPT !.error = ~ok, !.success = TRUE, !.submitting = FALSE]
      BY <1>4 DEF usersPage!ReloadEnds, usersPage!closed
    <2>4. QED
      BY <2>1, <2>2, <2>3, UsersCall DEF waits
  <1>5. QED
    BY <1>2, <1>3, <1>4 DEF usersPage!Receive

LEMMA UsersNext ==
    ASSUME UsersInv, usersPage!Next
    PROVE  UsersInv'
  <1>1. CASE usersPage!TimerFires
    <2>1. PICK k \in Slots : calls[k] = NoCall /\ Puts(k, Sent("load", None))
      BY <1>1, CallIsPlaced, UsersCalls DEF usersPage!TimerFires, UsersInv
    <2>2. k \notin callsOf(creations) /\ Sent("load", None).op = "load"
      BY <2>1 DEF callsOf, underWay, Sent
    <2>3. waits(creations, k, Sent("load", None), ui.submitting, ui.submitting)
      BY <2>2 DEF waits, creations
    <2>4. QED
      BY <1>1, <2>1, <2>2, <2>3, UsersCall DEF usersPage!TimerFires, UsersInv, usersPage!TypeOK
  <1>2. QED
    BY <1>1, UsersOperator, UsersReceive, UsersCalls DEF usersPage!Next

LEMMA UsersInit ==
    ASSUME usersPage!Init
    PROVE  UsersInv
  BY UsersCalls
  DEF usersPage!Init, UsersInv, usersPage!NoCalls, usersPage!NoCall, NoCall, Slots, CallsOK,
     usersPage!TypeOK, usersPage!Filled, callsOf, underWay, Alone

LEMMA UsersHold ==
    ASSUME UsersInv
    PROVE  usersPage!TypeOK /\ usersPage!BusyWhileUnderWay /\ usersPage!RefusalFindsItsForm
  <1>1. callsOf({"create"}) \subseteq callsOf(creations)
    BY DEF callsOf, creations
  <1>2. QED
    BY <1>1, UsersCalls DEF UsersInv, usersPage!BusyWhileUnderWay,
       usersPage!RefusalFindsItsForm, creations

-----------------------------------------------------------------------------
(* The page of one shipment *)

Panels == shipmentScreen!Panels
ScreenStatus == shipmentScreen!ShipmentStatus

\* What the panels offer agrees with the table of the API.
Offered(seen, t) ==
    /\ seen \in shipmentScreen!Found
    /\ shipmentScreen!isShipmentTransitionAllowed(seen.status, t)
    /\ t \in shipmentScreen!readinessProtectedStatuses => seen.ready

\* What a call carries while it waits for the API, and then for the page.
ScreenCallOK(c) ==
    /\ c.op \in {"shipment", "readiness"} \cup Panels
    /\ c.op \in Panels => c.arg.to \in ScreenStatus
    /\ c.op \in Panels \ {"dispatch"} /\ c.step = "sent" => Offered(c.arg.seen, c.arg.to)
    /\ c.op \in {"shipment", "readiness"} /\ c.step = "answered" /\ c.ok =>
           c.data \in shipmentScreen!Found

ScreenInv ==
    /\ CallsOK /\ shipmentScreen!TypeOK
    /\ \A i \in underWay : ScreenCallOK(calls[i])

\* The calls of the page are those of WebCalls.
LEMMA ScreenCalls ==
    /\ shipmentScreen!underWay = underWay /\ shipmentScreen!underWay' = underWay'
    /\ shipmentScreen!Slots = Slots
    /\ \A ops : /\ shipmentScreen!callsOf(ops) = callsOf(ops)
                /\ shipmentScreen!callsOf(ops)' = callsOf(ops)'
    /\ \A op, arg : shipmentScreen!Sent(op, arg) = Sent(op, arg)
    /\ \A op, arg : shipmentScreen!Call(op, arg) <=> Call(op, arg)
    /\ \A i : shipmentScreen!Finish(i) <=> Finish(i)
    /\ \A i, op, arg : shipmentScreen!Continue(i, op, arg) <=> Continue(i, op, arg)
    /\ \A c : shipmentScreen!placed(shipmentScreen!NoCalls, c) = placed(NoCalls, c)
    /\ \A i : shipmentScreen!answered(i) <=> answered(i)
    /\ \A i : shipmentScreen!waiting(i) <=> waiting(i)
    /\ \A i, data : shipmentScreen!Reply(i, data) <=> Succeed(i, data) \/ Fail(i)
    /\ \A i : shipmentScreen!Fail(i) <=> Fail(i)
    /\ shipmentScreen!freeSlot = freeSlot
  <1> USE DEF shipmentScreen!NoCall, NoCall
  <1>1. shipmentScreen!Slots = Slots /\ shipmentScreen!underWay = underWay
    BY DEF shipmentScreen!underWay, shipmentScreen!Slots, underWay, Slots
  <1>2. shipmentScreen!underWay' = underWay'
    BY DEF shipmentScreen!underWay, shipmentScreen!Slots, underWay, Slots
  <1>3. \A ops : /\ shipmentScreen!callsOf(ops) = callsOf(ops)
                 /\ shipmentScreen!callsOf(ops)' = callsOf(ops)'
    BY <1>1, <1>2 DEF shipmentScreen!callsOf, callsOf
  <1>4. \A op, arg : shipmentScreen!Sent(op, arg) = Sent(op, arg)
    BY DEF shipmentScreen!Sent, Sent
  <1>5. \A op, arg : shipmentScreen!Call(op, arg) <=> Call(op, arg)
    BY <1>1, <1>4 DEF shipmentScreen!Call, Call, shipmentScreen!mayCall, mayCall,
                      shipmentScreen!placed, placed, shipmentScreen!firstFree, firstFree
  <1>6. \A i : shipmentScreen!Finish(i) <=> Finish(i)
    BY DEF shipmentScreen!Finish, Finish
  <1>7. \A i, op, arg : shipmentScreen!Continue(i, op, arg) <=> Continue(i, op, arg)
    BY <1>4 DEF shipmentScreen!Continue, Continue
  <1>8. \A c : shipmentScreen!placed(shipmentScreen!NoCalls, c) = placed(NoCalls, c)
    BY <1>1
    DEF shipmentScreen!placed, placed, shipmentScreen!firstFree, firstFree,
        shipmentScreen!NoCalls, shipmentScreen!NoCall, NoCall, NoCalls
  <1>9. \A i : shipmentScreen!answered(i) <=> answered(i)
    BY <1>1 DEF shipmentScreen!answered, answered
  <1>10. \A i : shipmentScreen!waiting(i) <=> waiting(i)
    BY <1>1 DEF shipmentScreen!waiting, waiting
  <1>11. \A i, data : shipmentScreen!Reply(i, data) <=> Succeed(i, data) \/ Fail(i)
    BY DEF shipmentScreen!Reply, shipmentScreen!Succeed, Succeed, shipmentScreen!Fail, Fail,
       shipmentScreen!Answer, Answer
  <1>12. \A i : shipmentScreen!Fail(i) <=> Fail(i)
    BY DEF shipmentScreen!Fail, Fail, shipmentScreen!Answer, Answer
  <1>13. shipmentScreen!freeSlot = freeSlot
    BY <1>1 DEF shipmentScreen!freeSlot, freeSlot, shipmentScreen!firstFree, firstFree
  <1>14. QED
    BY <1>1, <1>2, <1>3, <1>4, <1>5, <1>6, <1>7, <1>8, <1>9, <1>10, <1>11, <1>12, <1>13

LEMMA ScreenRefusal ==
    ASSUME ScreenInv
    PROVE  shipmentScreen!RefusedOnlyWhenStale
  <1>1. SUFFICES ASSUME NEW i \in callsOf(Panels \ {"dispatch"}), waiting(i),
                        calls[i].arg.seen = db
                 PROVE  shipmentScreen!accepts(calls[i].arg.to)
    BY ScreenCalls DEF shipmentScreen!RefusedOnlyWhenStale, Panels
  <1>2. Offered(calls[i].arg.seen, calls[i].arg.to)
    BY <1>1 DEF ScreenInv, ScreenCallOK, callsOf, waiting
  <1>3. QED
    BY <1>1, <1>2 DEF Offered, shipmentScreen!accepts

\* A step that leaves the calls as they are.
LEMMA ScreenAlone ==
    ASSUME ScreenInv, calls' = calls, db' \in shipmentScreen!Found, ui' = ui
    PROVE  ScreenInv'
  <1>1. underWay' = underWay
    BY DEF underWay
  <1>2. shipmentScreen!TypeOK'
    BY <1>1, ScreenCalls DEF ScreenInv, shipmentScreen!TypeOK
  <1>3. QED
    BY <1>1, <1>2 DEF ScreenInv, CallsOK

ScreenUi ==
    [shipment: ScreenStatus \cup {None}, isLoading: BOOLEAN,
     readiness: shipmentScreen!Found \cup {None}, loadingReadiness: BOOLEAN,
     isRefreshing: BOOLEAN, failed: BOOLEAN, submitting: SUBSET Panels, orphans: SUBSET Slots,
     reloading: BOOLEAN, done: ScreenStatus \cup {None},
     newest: Slots \cup {None}, overtaken: BOOLEAN]

\* A step that puts a call into a slot, or takes one out.
LEMMA ScreenCall ==
    ASSUME ScreenInv, NEW k, NEW c, Puts(k, c), db' \in shipmentScreen!Found, ui' \in ScreenUi,
           c # NoCall => ScreenCallOK(c)
    PROVE  ScreenInv'
  <1>1. \A i \in underWay' : ScreenCallOK(calls'[i])
    BY DEF ScreenInv, Puts, underWay
  <1>2. shipmentScreen!TypeOK'
    BY <1>1, ScreenCalls DEF shipmentScreen!TypeOK, ScreenUi, ScreenCallOK, Panels, ScreenStatus
  <1>3. QED
    BY <1>1, <1>2 DEF ScreenInv, Puts

LEMMA ScreenTyped ==
    ASSUME ScreenInv
    PROVE  ui \in ScreenUi /\ db \in shipmentScreen!Found
  BY ScreenCalls DEF ScreenInv, shipmentScreen!TypeOK, ScreenUi, Panels, ScreenStatus

\* What the API answers: a transition is made or refused, a load is answered with
\* the shipment as it is.
LEMMA ScreenServed ==
    ASSUME ScreenInv, NEW i \in Slots, shipmentScreen!Serve(i)
    PROVE  ScreenInv'
  <1>1. /\ ui \in ScreenUi /\ db \in shipmentScreen!Found /\ ui' = ui /\ CallsOK
        /\ waiting(i) /\ ScreenCallOK(calls[i])
    BY ScreenTyped, ScreenCalls
    DEF ScreenInv, shipmentScreen!Serve, shipmentScreen!ServeTransition,
        shipmentScreen!ServeLoad, waiting
  <1>2. \A ok, data : /\ Answer(calls[i], ok, data).op = calls[i].op
                      /\ Answer(calls[i], ok, data).arg = calls[i].arg
                      /\ Answer(calls[i], ok, data).step = "answered"
                      /\ Answer(calls[i], ok, data).ok = ok
                      /\ Answer(calls[i], ok, data).data = data
    BY DEF Answer
  <1>3. /\ \A data : Succeed(i, data) => Puts(i, Answer(calls[i], TRUE, data))
        /\ Fail(i) => Puts(i, Answer(calls[i], FALSE, None))
    BY <1>1, AnswerIsTaken
  <1>4. ScreenCallOK(Answer(calls[i], FALSE, None))
    BY <1>1, <1>2 DEF ScreenCallOK
  <1>5. CASE shipmentScreen!ServeTransition(i)
    <2>1. calls[i].op \in Panels /\ calls[i].arg.to \in ScreenStatus
      BY <1>1, <1>5 DEF shipmentScreen!ServeTransition, ScreenCallOK, Panels
    <2>2. ScreenCallOK(Answer(calls[i], TRUE, None))
      <3>1. calls[i].op \notin {"shipment", "readiness"}
        BY <2>1 DEF Panels, shipmentScreen!Panels
      <3> DEFINE a == Answer(calls[i], TRUE, None)
      <3>2. a.op = calls[i].op /\ a.arg = calls[i].arg /\ a.step = "answered"
        BY <1>2
      <3> HIDE DEF a
      <3>3. ScreenCallOK(a)
        BY <2>1, <3>1, <3>2 DEF ScreenCallOK
      <3>4. QED
        BY <3>3 DEF a
    <2>3. db' \in shipmentScreen!Found
      BY <1>1, <1>5, <2>1
      DEF shipmentScreen!ServeTransition, shipmentScreen!Found, ScreenStatus
    <2>4. Succeed(i, None) \/ Fail(i)
      BY <1>5, ScreenCalls DEF shipmentScreen!ServeTransition
    <2>5. QED
      BY <1>1, <1>3, <1>4, <2>2, <2>3, <2>4, ScreenCall
  <1>6. CASE shipmentScreen!ServeLoad(i)
    <2>1. /\ calls[i].op \in {"shipment", "readiness"} /\ db' = db
          /\ Succeed(i, db) \/ Fail(i)
      BY <1>6, ScreenCalls DEF shipmentScreen!ServeLoad
    <2>2. ScreenCallOK(Answer(calls[i], TRUE, db))
      <3>1. calls[i].op \notin Panels
        BY <2>1 DEF Panels, shipmentScreen!Panels
      <3> DEFINE a == Answer(calls[i], TRUE, db)
      <3>2. a.op = calls[i].op /\ a.data = db
        BY <1>2
      <3>3. a.op \notin Panels /\ a.op \in {"shipment", "readiness"}
        BY <2>1, <3>1, <3>2
      <3> HIDE DEF a
      <3>4. ScreenCallOK(a)
        BY <1>1, <3>2, <3>3 DEF ScreenCallOK
      <3>5. QED
        BY <3>4 DEF a
    <2>3. QED
      BY <1>1, <1>3, <1>4, <2>1, <2>2, ScreenCall
  <1>7. QED
    BY <1>5, <1>6 DEF shipmentScreen!Serve

LEMMA ScreenSomebodyElse ==
    ASSUME ScreenInv, shipmentScreen!SomebodyElse
    PROVE  ScreenInv'
  <1>1. db' \in shipmentScreen!Found
    BY ScreenTyped DEF shipmentScreen!SomebodyElse, shipmentScreen!Found
  <1>2. QED
    BY <1>1, ScreenAlone DEF shipmentScreen!SomebodyElse

\* The calls a page sends.
LEMMA LoadIsOK ==
    ScreenCallOK(Sent("shipment", None)) /\ ScreenCallOK(Sent("readiness", None))
  BY DEF ScreenCallOK, Sent, Panels, shipmentScreen!Panels

LEMMA PanelSubmits ==
    ASSUME ScreenInv, NEW p \in Panels, NEW t \in ScreenStatus,
           p = "dispatch" \/ Offered(ui.readiness, t), shipmentScreen!Submit(p, t)
    PROVE  ScreenInv'
  <1> DEFINE c == Sent(p, [to |-> t, seen |-> ui.readiness])
  <1>1. PICK k \in Slots : Puts(k, c)
    BY CallIsPlaced, ScreenCalls DEF shipmentScreen!Submit, ScreenInv
  <1>2. c.op = p /\ c.arg.to = t /\ c.arg.seen = ui.readiness /\ c.step = "sent"
    BY DEF Sent
  <1>3. ScreenCallOK(c)
    BY <1>2 DEF ScreenCallOK, Panels, shipmentScreen!Panels
  <1>4. ui' \in ScreenUi
    BY ScreenTyped DEF shipmentScreen!Submit, ScreenUi
  <1>5. QED
    BY <1>1, <1>3, <1>4, ScreenTyped, ScreenCall DEF shipmentScreen!Submit

LEMMA ScreenPanels ==
    ASSUME ScreenInv, NEW t \in ScreenStatus,
           \/ shipmentScreen!Dispatch(t) \/ shipmentScreen!Arrive(t) \/ shipmentScreen!Clear(t)
           \/ shipmentScreen!Release(t) \/ shipmentScreen!Deliver(t) \/ shipmentScreen!Cancel(t)
    PROVE  ScreenInv'
  <1>1. shipmentScreen!panelsShown => ui.readiness \in shipmentScreen!Found
    BY ScreenTyped DEF ScreenUi, shipmentScreen!panelsShown
  <1>2. shipmentScreen!workflowShown => ui.readiness \in shipmentScreen!Found
    BY <1>1 DEF shipmentScreen!workflowShown
  <1>3. {"dispatch", "arrival", "customs", "readyForDelivery", "delivery", "cancel"} = Panels
    BY DEF Panels, shipmentScreen!Panels
  <1> USE DEF Offered, shipmentScreen!isShipmentTransitionAllowed,
              shipmentScreen!SHIPMENT_WORKFLOW_TRANSITIONS,
              shipmentScreen!readinessProtectedStatuses
  <1>4. CASE shipmentScreen!Dispatch(t)
    BY <1>3, <1>4, PanelSubmits DEF shipmentScreen!Dispatch
  <1>5. CASE shipmentScreen!Arrive(t)
    <2>1. Offered(ui.readiness, t)
      BY <1>2, <1>5 DEF shipmentScreen!Arrive, shipmentScreen!offersArrival
    <2>2. QED
      BY <1>3, <1>5, <2>1, PanelSubmits DEF shipmentScreen!Arrive
  <1>6. CASE shipmentScreen!Clear(t)
    <2>1. Offered(ui.readiness, t)
      BY <1>2, <1>6 DEF shipmentScreen!Clear, shipmentScreen!offersCustoms
    <2>2. QED
      BY <1>3, <1>6, <2>1, PanelSubmits DEF shipmentScreen!Clear
  <1>7. CASE shipmentScreen!Release(t)
    <2>1. Offered(ui.readiness, t)
      BY <1>2, <1>7 DEF shipmentScreen!Release, shipmentScreen!offersRelease
    <2>2. QED
      BY <1>3, <1>7, <2>1, PanelSubmits DEF shipmentScreen!Release
  <1>8. CASE shipmentScreen!Deliver(t)
    <2>1. Offered(ui.readiness, t)
      BY <1>2, <1>8 DEF shipmentScreen!Deliver, shipmentScreen!offersDelivery
    <2>2. QED
      BY <1>3, <1>8, <2>1, PanelSubmits DEF shipmentScreen!Deliver
  <1>9. CASE shipmentScreen!Cancel(t)
    <2>1. Offered(ui.readiness, t)
      BY <1>1, <1>9
      DEF shipmentScreen!Cancel, shipmentScreen!offersCancel, shipmentScreen!CANCELLABLE_STATUSES
    <2>2. QED
      BY <1>3, <1>9, <2>1, PanelSubmits DEF shipmentScreen!Cancel
  <1>10. QED
    BY <1>4, <1>5, <1>6, <1>7, <1>8, <1>9

\* The page starts with one call.
LEMMA ScreenOpened ==
    ASSUME WebConstants, db \in shipmentScreen!Found, ui = shipmentScreen!Blank,
           calls = placed(NoCalls, Sent("shipment", None))
    PROVE  ScreenInv
  <1>1. PICK k \in Slots : calls = [i \in Slots |-> IF i = k THEN Sent("shipment", None) ELSE NoCall]
    BY FirstCall
  <1>2. CallsOK /\ \A i \in underWay : ScreenCallOK(calls[i])
    BY <1>1, LoadIsOK DEF CallsOK, underWay
  <1>3. ui \in ScreenUi
    BY DEF shipmentScreen!Blank, ScreenUi
  <1>4. QED
    BY <1>2, <1>3, ScreenCalls
    DEF ScreenInv, shipmentScreen!TypeOK, ScreenUi, ScreenCallOK, Panels, ScreenStatus

LEMMA ScreenReopened ==
    ASSUME WebConstants, ScreenInv, shipmentScreen!Reload
    PROVE  ScreenInv'
  <1>1. /\ db' \in shipmentScreen!Found /\ ui' = shipmentScreen!Blank
        /\ calls' = placed(NoCalls, Sent("shipment", None))
    BY ScreenTyped, ScreenCalls DEF shipmentScreen!Reload
  <1>2. PICK k \in Slots : calls' = [i \in Slots |-> IF i = k THEN Sent("shipment", None) ELSE NoCall]
    BY <1>1, FirstCall
  <1>3. CallsOK' /\ \A i \in underWay' : ScreenCallOK(calls'[i])
    BY <1>2, LoadIsOK DEF CallsOK, underWay
  <1>4. ui' \in ScreenUi
    BY <1>1 DEF shipmentScreen!Blank, ScreenUi
  <1>5. QED
    BY <1>1, <1>3, <1>4, ScreenCalls
    DEF ScreenInv, shipmentScreen!TypeOK, ScreenUi, ScreenCallOK, Panels, ScreenStatus

LEMMA ScreenRefreshes ==
    ASSUME ScreenInv, shipmentScreen!Refresh
    PROVE  ScreenInv'
  <1>1. PICK k \in Slots : k = freeSlot /\ Puts(k, Sent("readiness", None))
    BY CallIsPlaced, ScreenCalls DEF shipmentScreen!Refresh, ScreenInv
  <1>2. ui' \in ScreenUi
    BY <1>1, ScreenTyped, ScreenCalls
    DEF shipmentScreen!Refresh, shipmentScreen!refreshStarts, ScreenUi
  <1>3. QED
    BY <1>1, <1>2, LoadIsOK, ScreenTyped, ScreenCall DEF shipmentScreen!Refresh

LEMMA ScreenReceives ==
    ASSUME ScreenInv, NEW i \in Slots, shipmentScreen!Receive(i)
    PROVE  ScreenInv'
  <1>1. /\ ui \in ScreenUi /\ db \in shipmentScreen!Found /\ db' = db /\ CallsOK
        /\ answered(i) /\ ScreenCallOK(calls[i])
    BY ScreenTyped, ScreenCalls
    DEF ScreenInv, shipmentScreen!Receive, shipmentScreen!ShipmentArrives,
        shipmentScreen!ReadinessArrives, shipmentScreen!PanelAnswered, answered
  <1>2. Finish(i) => Puts(i, NoCall)
    BY <1>1, AnswerIsTaken
  <1>3. Continue(i, "readiness", None) => Puts(i, Sent("readiness", None))
    BY <1>1, AnswerIsTaken
  <1>4. SUFFICES ui' \in ScreenUi /\ (Finish(i) \/ Continue(i, "readiness", None))
    BY <1>1, <1>2, <1>3, LoadIsOK, ScreenCall
  <1>5. CASE shipmentScreen!ShipmentArrives(i)
    <2>1. calls[i].ok => calls[i].data.status \in ScreenStatus
      BY <1>1, <1>5
      DEF shipmentScreen!ShipmentArrives, ScreenCallOK, answered, shipmentScreen!Found,
          ScreenStatus
    <2>2. CASE calls[i].ok
      <3>1. /\ Continue(i, "readiness", None)
            /\ ui' = [ui EXCEPT !.shipment = calls[i].data.status, !.isLoading = FALSE,
                                !.loadingReadiness = TRUE, !.newest = i]
        BY <1>5, <2>2, ScreenCalls DEF shipmentScreen!ShipmentArrives
      <3>2. QED
        BY <1>1, <2>1, <2>2, <3>1 DEF ScreenUi
    <2>3. CASE ~calls[i].ok
      <3>1. Finish(i) /\ ui' = [ui EXCEPT !.isLoading = FALSE]
        BY <1>5, <2>3, ScreenCalls DEF shipmentScreen!ShipmentArrives
      <3>2. QED
        BY <1>1, <3>1 DEF ScreenUi
    <2>4. QED
      BY <2>2, <2>3
  <1>6. CASE shipmentScreen!ReadinessArrives(i)
    <2>1. calls[i].ok => calls[i].data \in shipmentScreen!Found
      BY <1>1, <1>6 DEF shipmentScreen!ReadinessArrives, ScreenCallOK, answered
    <2>2. callsOf(Panels) \subseteq Slots
      BY DEF callsOf, underWay
    <2> DEFINE u == [ui EXCEPT !.loadingReadiness = FALSE, !.isRefreshing = FALSE,
                               !.newest = IF i = @ THEN None ELSE @,
                               !.overtaken = (i # ui.newest)]
    <2>3. u \in ScreenUi
      BY <1>1 DEF ScreenUi
    <2>4. /\ Finish(i)
          /\ ui' = IF calls[i].ok
                   THEN [u EXCEPT !.readiness = calls[i].data]
                   ELSE [u EXCEPT !.failed = TRUE, !.submitting = {}, !.orphans = callsOf(Panels)]
      BY <1>6, ScreenCalls DEF shipmentScreen!ReadinessArrives, Panels
    <2> HIDE DEF u
    <2>5. QED
      BY <2>1, <2>2, <2>3, <2>4 DEF ScreenUi
  <1>7. CASE shipmentScreen!PanelAnswered(i)
    <2>1. calls[i].arg.to \in ScreenStatus
      BY <1>1, <1>7 DEF shipmentScreen!PanelAnswered, ScreenCallOK, Panels
    <2> DEFINE u == [ui EXCEPT !.submitting = IF i \in ui.orphans THEN @ ELSE @ \ {calls[i].op},
                               !.orphans = @ \ {i}]
    <2>2. u \in ScreenUi
      BY <1>1 DEF ScreenUi
    <2>3. /\ Continue(i, "readiness", None) \/ Finish(i)
          /\ \/ \E b \in BOOLEAN :
                   ui' = shipmentScreen!refreshStarts(
                             [u EXCEPT !.done = calls[i].arg.to, !.reloading = @ \/ b], i)
             \/ ui' = u
      BY <1>7, ScreenCalls DEF shipmentScreen!PanelAnswered
    <2> HIDE DEF u
    <2>4. ASSUME NEW b \in BOOLEAN
          PROVE  [u EXCEPT !.done = calls[i].arg.to, !.reloading = @ \/ b] \in ScreenUi
      <3>1. (u.reloading \/ b) \in BOOLEAN
        OBVIOUS
      <3>2. \A r \in BOOLEAN : [u EXCEPT !.done = calls[i].arg.to, !.reloading = r] \in ScreenUi
        BY <2>1, <2>2 DEF ScreenUi
      <3>3. [u EXCEPT !.done = calls[i].arg.to, !.reloading = @ \/ b]
            = [u EXCEPT !.done = calls[i].arg.to, !.reloading = u.reloading \/ b]
        OBVIOUS
      <3>4. QED
        BY <3>1, <3>2, <3>3
    <2>5. \A v \in ScreenUi : shipmentScreen!refreshStarts(v, i) \in ScreenUi
      BY DEF shipmentScreen!refreshStarts, ScreenUi
    <2>6. QED
      BY <2>2, <2>3, <2>4, <2>5
  <1>8. QED
    BY <1>5, <1>6, <1>7 DEF shipmentScreen!Receive

LEMMA ScreenNext ==
    ASSUME WebConstants, ScreenInv, shipmentScreen!Next
    PROVE  ScreenInv'
  BY ScreenServed, ScreenSomebodyElse, ScreenPanels, ScreenReopened, ScreenRefreshes,
     ScreenReceives, ScreenCalls
  DEF shipmentScreen!Next, shipmentScreen!Operator, ScreenStatus

LEMMA ScreenInit ==
    ASSUME WebConstants, ShipmentStatuses \subseteq ScreenStatus, shipmentScreen!Init
    PROVE  ScreenInv
  BY ScreenOpened, ScreenCalls DEF shipmentScreen!Init, shipmentScreen!Found, ScreenStatus

-----------------------------------------------------------------------------
(* The pages of one vehicle *)

Vehicle == vehicleScreen!Vehicle

\* What an update carries, and what a page may count on in an answer.
VehicleCallOK(c) ==
    /\ c.op = "update" /\ c.step = "sent" =>
           /\ c.arg.draft \in Vehicle
           /\ c.arg.draft.status \in vehicleScreen!allowedVehicleStatuses(c.arg.seen.status)
    /\ c.op = "load" /\ c.step = "answered" /\ c.ok => c.data \in Vehicle

DetailsUi ==
    [page: {"details"}, vehicle: Vehicle \cup {None}, isLoading: BOOLEAN,
     error: BOOLEAN, deleting: BOOLEAN]
EditUi ==
    [page: {"edit"}, vehicle: Vehicle \cup {None}, draft: Vehicle \cup {None},
     isLoading: BOOLEAN, error: BOOLEAN, shipments: {"loading", "some", "none"},
     submitting: BOOLEAN, formError: BOOLEAN, leaving: BOOLEAN]

\* What the form holds was offered for the vehicle the page has found.
DraftOK(u) ==
    u \in EditUi /\ u.vehicle # None =>
        /\ u.draft \in Vehicle
        /\ u.draft.status \in vehicleScreen!allowedVehicleStatuses(u.vehicle.status)

VehicleInv ==
    /\ CallsOK /\ db \in Vehicle \cup {Gone}
    /\ ui \in DetailsUi \cup EditUi /\ DraftOK(ui)
    /\ \A i \in underWay : VehicleCallOK(calls[i])

\* The calls of the page are those of WebCalls.
LEMMA VehicleCalls ==
    /\ vehicleScreen!underWay = underWay /\ vehicleScreen!underWay' = underWay'
    /\ vehicleScreen!Slots = Slots
    /\ \A ops : /\ vehicleScreen!callsOf(ops) = callsOf(ops)
                /\ vehicleScreen!callsOf(ops)' = callsOf(ops)'
    /\ \A op, arg : vehicleScreen!Sent(op, arg) = Sent(op, arg)
    /\ \A op, arg : vehicleScreen!Call(op, arg) <=> Call(op, arg)
    /\ \A i : vehicleScreen!Finish(i) <=> Finish(i)
    /\ \A i, op, arg : vehicleScreen!Continue(i, op, arg) <=> Continue(i, op, arg)
    /\ \A c : vehicleScreen!placed(vehicleScreen!NoCalls, c) = placed(NoCalls, c)
    /\ \A i : vehicleScreen!answered(i) <=> answered(i)
    /\ \A i : vehicleScreen!waiting(i) <=> waiting(i)
    /\ \A i, data : vehicleScreen!Reply(i, data) <=> Succeed(i, data) \/ Fail(i)
    /\ \A i : vehicleScreen!Fail(i) <=> Fail(i)
  <1> USE DEF vehicleScreen!NoCall, NoCall
  <1>1. vehicleScreen!Slots = Slots /\ vehicleScreen!underWay = underWay
    BY DEF vehicleScreen!underWay, vehicleScreen!Slots, underWay, Slots
  <1>2. vehicleScreen!underWay' = underWay'
    BY DEF vehicleScreen!underWay, vehicleScreen!Slots, underWay, Slots
  <1>3. \A ops : /\ vehicleScreen!callsOf(ops) = callsOf(ops)
                 /\ vehicleScreen!callsOf(ops)' = callsOf(ops)'
    BY <1>1, <1>2 DEF vehicleScreen!callsOf, callsOf
  <1>4. \A op, arg : vehicleScreen!Sent(op, arg) = Sent(op, arg)
    BY DEF vehicleScreen!Sent, Sent
  <1>5. \A op, arg : vehicleScreen!Call(op, arg) <=> Call(op, arg)
    BY <1>1, <1>4 DEF vehicleScreen!Call, Call, vehicleScreen!mayCall, mayCall,
                      vehicleScreen!placed, placed, vehicleScreen!firstFree, firstFree
  <1>6. \A i : vehicleScreen!Finish(i) <=> Finish(i)
    BY DEF vehicleScreen!Finish, Finish
  <1>7. \A i, op, arg : vehicleScreen!Continue(i, op, arg) <=> Continue(i, op, arg)
    BY <1>4 DEF vehicleScreen!Continue, Continue
  <1>8. \A c : vehicleScreen!placed(vehicleScreen!NoCalls, c) = placed(NoCalls, c)
    BY <1>1
    DEF vehicleScreen!placed, placed, vehicleScreen!firstFree, firstFree, vehicleScreen!NoCalls,
        vehicleScreen!NoCall, NoCall, NoCalls
  <1>9. \A i : vehicleScreen!answered(i) <=> answered(i)
    BY <1>1 DEF vehicleScreen!answered, answered
  <1>10. \A i : vehicleScreen!waiting(i) <=> waiting(i)
    BY <1>1 DEF vehicleScreen!waiting, waiting
  <1>11. \A i, data : vehicleScreen!Reply(i, data) <=> Succeed(i, data) \/ Fail(i)
    BY DEF vehicleScreen!Reply, vehicleScreen!Succeed, Succeed, vehicleScreen!Fail, Fail,
       vehicleScreen!Answer, Answer
  <1>12. \A i : vehicleScreen!Fail(i) <=> Fail(i)
    BY DEF vehicleScreen!Fail, Fail, vehicleScreen!Answer, Answer
  <1>13. QED
    BY <1>1, <1>2, <1>3, <1>4, <1>5, <1>6, <1>7, <1>8, <1>9, <1>10, <1>11, <1>12

LEMMA VehicleRefusal ==
    ASSUME VehicleInv
    PROVE  vehicleScreen!RefusedOnlyWhenStale
  <1>1. SUFFICES ASSUME NEW i \in callsOf({"update"}), waiting(i),
                        calls[i].arg.seen.status = db.status
                 PROVE  vehicleScreen!assertValidStatusTransition(db.status, calls[i].arg.draft.status)
    BY VehicleCalls DEF vehicleScreen!RefusedOnlyWhenStale
  <1>2. calls[i].arg.draft.status \in vehicleScreen!allowedVehicleStatuses(db.status)
    BY <1>1 DEF VehicleInv, VehicleCallOK, callsOf, waiting
  <1>3. QED
    BY <1>2
    DEF vehicleScreen!assertValidStatusTransition, vehicleScreen!allowedTransitions,
        vehicleScreen!allowedVehicleStatuses, vehicleScreen!nextVehicleStatus

\* A vehicle moves along its way, or is cancelled.
LEMMA VehicleWay ==
    ASSUME NEW v \in Vehicle
    PROVE  /\ vehicleScreen!allowedTransitions(v.status) \subseteq vehicleScreen!VehicleStatus
           /\ vehicleScreen!allowedVehicleStatuses(v.status) \subseteq vehicleScreen!VehicleStatus
           /\ v.status \in vehicleScreen!allowedVehicleStatuses(v.status)
  <1>1. \A n \in 1 .. 9 : vehicleScreen!vehicleWay[n + 1] \in vehicleScreen!VehicleStatus
    <2>1. DOMAIN vehicleScreen!vehicleWay = 1 .. 10
      BY DEF vehicleScreen!vehicleWay
    <2>2. QED
      BY <2>1 DEF vehicleScreen!VehicleStatus
  <1>2. v.status \in vehicleScreen!VehicleStatus /\ "CANCELLED" \in vehicleScreen!VehicleStatus
    BY DEF Vehicle, vehicleScreen!Vehicle, vehicleScreen!VehicleStatus
  <1>3. QED
    BY <1>1, <1>2
    DEF vehicleScreen!allowedTransitions, vehicleScreen!allowedVehicleStatuses,
        vehicleScreen!nextVehicleStatus

\* A step that puts a call into a slot, or takes one out.
LEMMA VehicleCall ==
    ASSUME VehicleInv, NEW k, NEW c, Puts(k, c), db' \in Vehicle \cup {Gone},
           ui' \in DetailsUi \cup EditUi, DraftOK(ui'), c # NoCall => VehicleCallOK(c)
    PROVE  VehicleInv'
  <1>1. \A i \in underWay' : VehicleCallOK(calls'[i])
    BY DEF VehicleInv, Puts, underWay
  <1>2. QED
    BY <1>1 DEF VehicleInv, Puts

\* A step that leaves the calls as they are.
LEMMA VehicleAlone ==
    ASSUME VehicleInv, calls' = calls, db' \in Vehicle \cup {Gone},
           ui' \in DetailsUi \cup EditUi, DraftOK(ui')
    PROVE  VehicleInv'
  <1>1. underWay' = underWay
    BY DEF underWay
  <1>2. QED
    BY <1>1 DEF VehicleInv, CallsOK

LEMMA VehiclePages ==
    ASSUME NEW page \in {vehicleScreen!Details, vehicleScreen!EditPage}
    PROVE  page \in DetailsUi \cup EditUi /\ DraftOK(page)
  <1>1. CASE page = vehicleScreen!Details
    <2>1. page \in DetailsUi /\ page.page = "details"
      BY <1>1 DEF vehicleScreen!Details, DetailsUi
    <2>2. page \notin EditUi
      BY <2>1 DEF EditUi
    <2>3. QED
      BY <2>1, <2>2 DEF DraftOK
  <1>2. CASE page = vehicleScreen!EditPage
    <2>1. page \in EditUi /\ page.vehicle = None
      BY <1>2 DEF vehicleScreen!EditPage, EditUi
    <2>2. QED
      BY <2>1 DEF DraftOK
  <1>3. QED
    BY <1>1, <1>2

\* A page that is opened has one call under way.
LEMMA VehicleOpened ==
    ASSUME WebConstants, db \in Vehicle \cup {Gone},
           ui \in {vehicleScreen!Details, vehicleScreen!EditPage},
           calls = placed(NoCalls, Sent("load", None))
    PROVE  VehicleInv
  <1>1. PICK k \in Slots : calls = [i \in Slots |-> IF i = k THEN Sent("load", None) ELSE NoCall]
    BY FirstCall
  <1>2. CallsOK /\ \A i \in underWay : VehicleCallOK(calls[i])
    BY <1>1 DEF CallsOK, underWay, VehicleCallOK, Sent
  <1>3. ui \in DetailsUi \cup EditUi /\ DraftOK(ui)
    BY VehiclePages
  <1>4. QED
    BY <1>2, <1>3 DEF VehicleInv

LEMMA VehicleReopened ==
    ASSUME WebConstants, VehicleInv, db' = db, NEW page, vehicleScreen!opened(page),
           page \in {vehicleScreen!Details, vehicleScreen!EditPage}
    PROVE  VehicleInv'
  <1>1. /\ db' \in Vehicle \cup {Gone} /\ ui' = page
        /\ calls' = placed(NoCalls, Sent("load", None))
    BY VehicleCalls DEF vehicleScreen!opened, VehicleInv
  <1>2. PICK k \in Slots : calls' = [i \in Slots |-> IF i = k THEN Sent("load", None) ELSE NoCall]
    BY <1>1, FirstCall
  <1>3. CallsOK' /\ \A i \in underWay' : VehicleCallOK(calls'[i])
    BY <1>2 DEF CallsOK, underWay, VehicleCallOK, Sent
  <1>4. ui' \in DetailsUi \cup EditUi /\ DraftOK(ui')
    BY <1>1, VehiclePages
  <1>5. QED
    BY <1>1, <1>3, <1>4 DEF VehicleInv

\* What the API answers.
LEMMA VehicleServed ==
    ASSUME VehicleInv, NEW i \in Slots, vehicleScreen!Serve(i)
    PROVE  VehicleInv'
  <1>1. /\ db \in Vehicle \cup {Gone} /\ ui' = ui /\ CallsOK /\ DraftOK(ui')
        /\ ui' \in DetailsUi \cup EditUi
        /\ waiting(i) /\ VehicleCallOK(calls[i])
    BY VehicleCalls
    DEF VehicleInv, vehicleScreen!Serve, vehicleScreen!ServeLoad,
        vehicleScreen!ServeDelete, vehicleScreen!ServeUpdate, waiting, DraftOK
  <1>2. ASSUME NEW ok, NEW data, Puts(i, Answer(calls[i], ok, data)),
               db' \in Vehicle \cup {Gone}, calls[i].op = "load" /\ ok => data \in Vehicle
        PROVE  VehicleInv'
    <2> DEFINE a == Answer(calls[i], ok, data)
    <2>1. a.op = calls[i].op /\ a.step = "answered" /\ a.ok = ok /\ a.data = data
      BY DEF Answer
    <2>2. VehicleCallOK(a)
      BY <1>2, <2>1 DEF VehicleCallOK
    <2>3. QED
      BY <1>1, <1>2, <2>2, VehicleCall
  <1>3. /\ \A data : Succeed(i, data) => Puts(i, Answer(calls[i], TRUE, data))
        /\ Fail(i) => Puts(i, Answer(calls[i], FALSE, None))
    BY <1>1, AnswerIsTaken
  <1>4. CASE vehicleScreen!ServeLoad(i)
    <2>1. db' = db /\ (Fail(i) \/ (Succeed(i, db) /\ (calls[i].op = "load" => db # Gone)))
      BY <1>4, VehicleCalls DEF vehicleScreen!ServeLoad
    <2>2. QED
      BY <1>1, <1>2, <1>3, <2>1
  <1>5. CASE vehicleScreen!ServeDelete(i)
    <2>1. /\ db' = db \/ db' = Gone
          /\ Fail(i) \/ Succeed(i, None)
          /\ calls[i].op = "delete"
      BY <1>5, VehicleCalls DEF vehicleScreen!ServeDelete
    <2>2. QED
      BY <1>1, <1>2, <1>3, <2>1
  <1>6. CASE vehicleScreen!ServeUpdate(i)
    <2>1. /\ db' = db \/ db' = calls[i].arg.draft
          /\ Fail(i) \/ Succeed(i, db')
          /\ calls[i].op = "update"
      BY <1>6, VehicleCalls DEF vehicleScreen!ServeUpdate
    <2>2. calls[i].arg.draft \in Vehicle
      BY <1>1, <2>1 DEF VehicleCallOK, waiting
    <2>3. QED
      BY <1>1, <1>2, <1>3, <2>1, <2>2
  <1>7. QED
    BY <1>4, <1>5, <1>6 DEF vehicleScreen!Serve

LEMMA VehicleSomebodyElse ==
    ASSUME VehicleInv, vehicleScreen!SomebodyElse
    PROVE  VehicleInv'
  <1>1. db \in Vehicle
    BY DEF VehicleInv, vehicleScreen!SomebodyElse
  <1>2. db' \in Vehicle \cup {Gone}
    BY <1>1, VehicleWay DEF vehicleScreen!SomebodyElse, Vehicle, vehicleScreen!Vehicle
  <1>3. QED
    BY <1>2, VehicleAlone DEF vehicleScreen!SomebodyElse, VehicleInv, DraftOK

LEMMA VehicleOperator ==
    ASSUME WebConstants, VehicleInv, vehicleScreen!Operator
    PROVE  VehicleInv'
  <1>1. /\ db \in Vehicle \cup {Gone} /\ CallsOK /\ DraftOK(ui)
        /\ ui \in DetailsUi \cup EditUi
    BY DEF VehicleInv
  <1>2. ui.page = "details" => ui \in DetailsUi
    BY <1>1 DEF EditUi
  <1>3. ui.page = "edit" => ui \in EditUi
    BY <1>1 DEF DetailsUi
  <1>4. CASE vehicleScreen!handleDelete
    <2>1. PICK k \in Slots : Puts(k, Sent("delete", None))
      BY <1>1, <1>4, CallIsPlaced, VehicleCalls DEF vehicleScreen!handleDelete
    <2>2. VehicleCallOK(Sent("delete", None))
      BY DEF VehicleCallOK, Sent
    <2>3. ui' \in DetailsUi /\ db' = db
      BY <1>2, <1>4 DEF vehicleScreen!handleDelete, vehicleScreen!detailsShown, DetailsUi
    <2>4. DraftOK(ui')
      BY <2>3 DEF DraftOK, DetailsUi, EditUi
    <2>5. QED
      BY <1>1, <2>1, <2>2, <2>3, <2>4, VehicleCall
  <1>5. CASE vehicleScreen!OpenEdit
    BY <1>5, VehicleReopened DEF vehicleScreen!OpenEdit
  <1>6. CASE vehicleScreen!TryAgain
    <2>1. PICK k \in Slots : Puts(k, Sent("load", None))
      BY <1>1, <1>6, CallIsPlaced, VehicleCalls DEF vehicleScreen!TryAgain
    <2>2. VehicleCallOK(Sent("load", None))
      BY DEF VehicleCallOK, Sent
    <2>3. /\ ui' = [ui EXCEPT !.isLoading = TRUE, !.error = FALSE] /\ db' = db
      BY <1>6 DEF vehicleScreen!TryAgain
    <2>4. CASE ui \in DetailsUi
      <3>1. ui' \in DetailsUi
        BY <2>3, <2>4 DEF DetailsUi
      <3>2. QED
        BY <1>1, <2>1, <2>2, <2>3, <3>1, VehicleCall DEF DraftOK, DetailsUi, EditUi
    <2>5. CASE ui \in EditUi
      <3>1. ui' \in EditUi /\ ui'.vehicle = ui.vehicle /\ ui'.draft = ui.draft
        BY <2>3, <2>5 DEF EditUi
      <3>2. DraftOK(ui')
        BY <1>1, <2>5, <3>1 DEF DraftOK
      <3>3. QED
        BY <1>1, <2>1, <2>2, <2>3, <3>1, <3>2, VehicleCall
    <2>6. QED
      BY <1>1, <2>4, <2>5
  <1>7. CASE vehicleScreen!Choose
    <2>1. /\ ui \in EditUi /\ ui.vehicle # None /\ UNCHANGED <<db, calls>>
          /\ ui.vehicle \in Vehicle
          /\ ui.draft \in Vehicle
          /\ ui.draft.status \in vehicleScreen!allowedVehicleStatuses(ui.vehicle.status)
      BY <1>1, <1>3, <1>7 DEF vehicleScreen!Choose, vehicleScreen!formShown, DraftOK, EditUi
    <2>2. PICK draft \in Vehicle :
              /\ ui' = [ui EXCEPT !.draft = draft]
              /\ draft.status \in vehicleScreen!allowedVehicleStatuses(ui.vehicle.status)
      <3>1. CASE \E x \in vehicleScreen!allowedVehicleStatuses(ui.vehicle.status) :
                     ui' = [ui EXCEPT !.draft.status = x]
        <4>1. PICK x \in vehicleScreen!allowedVehicleStatuses(ui.vehicle.status) :
                  ui' = [ui EXCEPT !.draft.status = x]
          BY <3>1
        <4>2. [ui.draft EXCEPT !.status = x] \in Vehicle
          BY <2>1, <4>1, VehicleWay DEF Vehicle, vehicleScreen!Vehicle
        <4>3. QED
          BY <2>1, <4>1, <4>2 DEF Vehicle, vehicleScreen!Vehicle, EditUi
      <3>2. CASE ui' = [ui EXCEPT !.draft.isActive = ~@]
        <4>1. /\ [ui.draft EXCEPT !.isActive = ~@] \in Vehicle
              /\ [ui.draft EXCEPT !.isActive = ~@].status = ui.draft.status
          BY <2>1 DEF Vehicle, vehicleScreen!Vehicle
        <4>2. QED
          BY <2>1, <3>2, <4>1 DEF EditUi
      <3>3. QED
        BY <1>7, <3>1, <3>2 DEF vehicleScreen!Choose
    <2>3. ui' \in EditUi /\ ui'.vehicle = ui.vehicle /\ ui'.draft = draft
      BY <2>1, <2>2 DEF EditUi
    <2>4. DraftOK(ui')
      BY <2>2, <2>3 DEF DraftOK
    <2>5. QED
      BY <1>1, <2>1, <2>3, <2>4, VehicleAlone
  <1>8. CASE vehicleScreen!handleSubmit
    <2>1. /\ ui \in EditUi /\ ui.vehicle # None /\ db' = db
          /\ ui.draft \in Vehicle
          /\ ui.draft.status \in vehicleScreen!allowedVehicleStatuses(ui.vehicle.status)
      BY <1>1, <1>3, <1>8 DEF vehicleScreen!handleSubmit, vehicleScreen!formShown, DraftOK
    <2>2. ui' \in EditUi /\ ui'.vehicle = ui.vehicle /\ ui'.draft = ui.draft
      BY <1>8, <2>1 DEF vehicleScreen!handleSubmit, EditUi
    <2>3. DraftOK(ui')
      BY <2>1, <2>2 DEF DraftOK
    <2> DEFINE c == Sent("update", [draft |-> ui.draft, seen |-> ui.vehicle])
    <2>4. CASE Call("update", [draft |-> ui.draft, seen |-> ui.vehicle])
      <3>1. PICK k \in Slots : Puts(k, c)
        BY <1>1, <2>4, CallIsPlaced
      <3>2. VehicleCallOK(c)
        BY <2>1 DEF VehicleCallOK, Sent
      <3>3. QED
        BY <1>1, <2>1, <2>2, <2>3, <3>1, <3>2, VehicleCall
    <2>5. CASE calls' = calls
      BY <1>1, <2>1, <2>2, <2>3, <2>5, VehicleAlone
    <2>6. QED
      BY <1>8, <2>4, <2>5, VehicleCalls DEF vehicleScreen!handleSubmit
  <1>9. CASE vehicleScreen!Leave
    BY <1>9, VehicleReopened DEF vehicleScreen!Leave
  <1>10. QED
    BY <1>4, <1>5, <1>6, <1>7, <1>8, <1>9 DEF vehicleScreen!Operator

LEMMA VehicleReceives ==
    ASSUME VehicleInv, NEW i \in Slots, vehicleScreen!Receive(i)
    PROVE  VehicleInv'
  <1>1. /\ db \in Vehicle \cup {Gone} /\ db' = db /\ CallsOK /\ DraftOK(ui)
        /\ ui \in DetailsUi \cup EditUi
        /\ answered(i) /\ VehicleCallOK(calls[i])
    BY VehicleCalls
    DEF VehicleInv, vehicleScreen!Receive, vehicleScreen!DetailsArrive,
        vehicleScreen!DeleteAnswered, vehicleScreen!VehicleArrives,
        vehicleScreen!ShipmentsArrive, vehicleScreen!UpdateAnswered, vehicleScreen!Answered,
        answered
  <1>2. ui.page = "details" => ui \in DetailsUi
    BY <1>1 DEF EditUi
  <1>3. ui.page = "edit" => ui \in EditUi
    BY <1>1 DEF DetailsUi
  <1>4. calls[i].op = "load" /\ calls[i].ok => calls[i].data \in Vehicle
    BY <1>1 DEF VehicleCallOK, answered
  <1>5. ASSUME ui' \in DetailsUi \cup EditUi, DraftOK(ui'),
               Finish(i) \/ Continue(i, "shipments", None)
        PROVE  VehicleInv'
    <2>1. Puts(i, NoCall) \/ Puts(i, Sent("shipments", None))
      BY <1>1, <1>5, AnswerIsTaken
    <2>2. VehicleCallOK(Sent("shipments", None))
      BY DEF VehicleCallOK, Sent
    <2>3. QED
      BY <1>1, <1>5, <2>1, <2>2, VehicleCall
  <1>6. ASSUME ui' \in DetailsUi, Finish(i) PROVE VehicleInv'
    BY <1>5, <1>6 DEF DraftOK, DetailsUi, EditUi
  <1>7. ASSUME ui \in EditUi, ui' \in EditUi, Finish(i),
               ui'.vehicle = ui.vehicle, ui'.draft = ui.draft
        PROVE  VehicleInv'
    BY <1>1, <1>5, <1>7 DEF DraftOK
  <1>8. CASE vehicleScreen!DetailsArrive(i)
    <2>1. ui \in DetailsUi /\ Finish(i)
      BY <1>2, <1>8, VehicleCalls DEF vehicleScreen!DetailsArrive, vehicleScreen!Answered
    <2>2. ui' \in DetailsUi
      <3>1. PICK v \in Vehicle \cup {None}, e \in BOOLEAN :
                ui' = [ui EXCEPT !.isLoading = FALSE, !.error = e, !.vehicle = v]
        <4>1. (IF calls[i].ok THEN calls[i].data ELSE ui.vehicle) \in Vehicle \cup {None}
          BY <1>4, <1>8, <2>1
          DEF vehicleScreen!DetailsArrive, vehicleScreen!Answered, DetailsUi
        <4>2. QED
          BY <1>8, <2>1, <4>1 DEF vehicleScreen!DetailsArrive
      <3>2. QED
        BY <2>1, <3>1 DEF DetailsUi
    <2>3. QED
      BY <1>6, <2>1, <2>2
  <1>9. CASE vehicleScreen!DeleteAnswered(i)
    <2>1. ui \in DetailsUi /\ Finish(i)
      BY <1>2, <1>9, VehicleCalls DEF vehicleScreen!DeleteAnswered, vehicleScreen!Answered
    <2>2. ui' \in DetailsUi
      BY <1>9, <2>1 DEF vehicleScreen!DeleteAnswered, DetailsUi
    <2>3. QED
      BY <1>6, <2>1, <2>2
  <1>10. CASE vehicleScreen!VehicleArrives(i)
    <2>1. ui \in EditUi /\ calls[i].op = "load"
      BY <1>3, <1>10 DEF vehicleScreen!VehicleArrives, vehicleScreen!Answered
    <2>2. CASE calls[i].ok
      <3>1. /\ Continue(i, "shipments", None)
            /\ ui' = [ui EXCEPT !.isLoading = FALSE, !.vehicle = calls[i].data,
                                !.draft = calls[i].data]
        BY <1>10, <2>1, <2>2, VehicleCalls DEF vehicleScreen!VehicleArrives, EditUi
      <3>2. PICK v \in Vehicle : v = calls[i].data
        BY <1>4, <2>1, <2>2
      <3>3. ui' \in EditUi /\ ui'.vehicle = v /\ ui'.draft = v
        BY <2>1, <3>1, <3>2 DEF EditUi
      <3>4. DraftOK(ui')
        BY <3>3, VehicleWay DEF DraftOK
      <3>5. QED
        BY <1>5, <3>1, <3>3, <3>4
    <2>3. CASE ~calls[i].ok
      <3>1. Finish(i) /\ ui' = [[ui EXCEPT !.isLoading = FALSE] EXCEPT !.error = TRUE]
        BY <1>10, <2>3, VehicleCalls DEF vehicleScreen!VehicleArrives
      <3>2. ui' \in EditUi /\ ui'.vehicle = ui.vehicle /\ ui'.draft = ui.draft
        BY <2>1, <3>1 DEF EditUi
      <3>3. QED
        BY <1>7, <2>1, <3>1, <3>2
    <2>4. QED
      BY <2>2, <2>3
  <1>11. CASE vehicleScreen!ShipmentsArrive(i)
    <2>1. ui \in EditUi /\ Finish(i)
      BY <1>3, <1>11, VehicleCalls DEF vehicleScreen!ShipmentsArrive, vehicleScreen!Answered
    <2>2. ui' \in EditUi /\ ui'.vehicle = ui.vehicle /\ ui'.draft = ui.draft
      BY <1>11, <2>1 DEF vehicleScreen!ShipmentsArrive, EditUi
    <2>3. QED
      BY <1>7, <2>1, <2>2
  <1>12. CASE vehicleScreen!UpdateAnswered(i)
    <2>1. ui \in EditUi /\ Finish(i)
      BY <1>3, <1>12, VehicleCalls DEF vehicleScreen!UpdateAnswered, vehicleScreen!Answered
    <2>2. PICK e \in BOOLEAN, l \in BOOLEAN :
              ui' = [ui EXCEPT !.submitting = FALSE, !.formError = e, !.leaving = l]
      <3>1. /\ (~calls[i].ok \/ ui.formError) \in BOOLEAN
            /\ (calls[i].ok \/ ui.leaving) \in BOOLEAN
        OBVIOUS
      <3>2. QED
        BY <1>12, <2>1, <3>1 DEF vehicleScreen!UpdateAnswered
    <2>3. ui' \in EditUi /\ ui'.vehicle = ui.vehicle /\ ui'.draft = ui.draft
      BY <2>1, <2>2 DEF EditUi
    <2>4. QED
      BY <1>7, <2>1, <2>3
  <1>13. QED
    BY <1>8, <1>9, <1>10, <1>11, <1>12 DEF vehicleScreen!Receive

LEMMA VehicleNext ==
    ASSUME WebConstants, VehicleInv, vehicleScreen!Next
    PROVE  VehicleInv'
  BY VehicleOperator, VehicleSomebodyElse, VehicleServed, VehicleReceives, VehicleCalls
  DEF vehicleScreen!Next

LEMMA VehicleInit ==
    ASSUME WebConstants, VehicleStatuses \subseteq vehicleScreen!VehicleStatus, vehicleScreen!Init
    PROVE  VehicleInv
  BY VehicleOpened, VehicleCalls DEF vehicleScreen!Init, Vehicle, vehicleScreen!Vehicle

\* What the spinners and the disabled buttons of the two pages wait for.
VehicleOps(page) ==
    IF page = "details" THEN {"load", "delete"} ELSE {"load", "shipments", "update"}

VehicleWaits ==
    /\ \A i \in underWay : calls[i].op \in VehicleOps(ui.page)
    /\ \A i \in callsOf({"delete"}) : calls[i].step = "answered" /\ calls[i].ok => db = Gone
    /\ ui.isLoading => callsOf({"load"}) # {}
    /\ ui.page = "edit" /\ ui.submitting => callsOf({"update"}) # {}
    /\ ui.page = "edit" /\ ui.vehicle # None /\ ui.shipments = "loading"
           => callsOf({"shipments"}) # {}
    /\ ui.page = "details" /\ ui.deleting => callsOf({"delete"}) # {} \/ db = Gone

\* After a step that puts c into slot k, a call of operation op is still under way.
stillWaits(op, k, c) == k \notin callsOf({op}) \/ (c # NoCall /\ c.op = op)

LEMMA StillWaits ==
    ASSUME NEW k, NEW c, Puts(k, c), NEW op
    PROVE  /\ callsOf({op}) # {} /\ stillWaits(op, k, c) => callsOf({op})' # {}
           /\ c # NoCall /\ c.op = op => callsOf({op})' # {}
  <1>1. callsOf({op})' = (callsOf({op}) \ {k}) \cup (IF c # NoCall /\ c.op \in {op} THEN {k} ELSE {})
    BY CallsAfter
  <1>2. QED
    BY <1>1 DEF stillWaits

\* A step of the page that puts a call into a slot, or takes one out.
LEMMA VehicleCallWaits ==
    ASSUME VehicleWaits, NEW k, NEW c, Puts(k, c), ui'.page = ui.page,
           db = Gone => db' = Gone,
           c # NoCall => /\ c.op \in VehicleOps(ui.page)
                         /\ c.op = "delete" /\ c.step = "answered" /\ c.ok => db' = Gone,
           ui'.isLoading => \/ ui.isLoading /\ stillWaits("load", k, c)
                            \/ c # NoCall /\ c.op = "load",
           ui.page = "edit" =>
               /\ ui'.submitting => \/ ui.submitting /\ stillWaits("update", k, c)
                                    \/ c # NoCall /\ c.op = "update"
               /\ ui'.vehicle # None /\ ui'.shipments = "loading" =>
                      \/ /\ ui.vehicle # None /\ ui.shipments = "loading"
                         /\ stillWaits("shipments", k, c)
                      \/ c # NoCall /\ c.op = "shipments",
           ui.page = "details" /\ ui'.deleting =>
               \/ ui.deleting /\ stillWaits("delete", k, c)
               \/ c # NoCall /\ c.op = "delete"
               \/ db' = Gone
    PROVE  VehicleWaits'
  <1>1. \A op : /\ callsOf({op}) # {} /\ stillWaits(op, k, c) => callsOf({op})' # {}
                /\ c # NoCall /\ c.op = op => callsOf({op})' # {}
    BY StillWaits
  <1>2. \A i \in underWay' : (calls'[i] = c /\ c # NoCall) \/ (i \in underWay /\ calls'[i] = calls[i])
    BY DEF Puts, underWay
  <1>3. \A i \in underWay' : calls'[i].op \in VehicleOps(ui'.page)
    BY <1>2 DEF VehicleWaits
  <1>4. \A i \in callsOf({"delete"})' :
            calls'[i].step = "answered" /\ calls'[i].ok => db' = Gone
    BY <1>2 DEF VehicleWaits, callsOf
  <1>5. /\ ui'.isLoading => callsOf({"load"})' # {}
        /\ ui'.page = "edit" /\ ui'.submitting => callsOf({"update"})' # {}
        /\ ui'.page = "edit" /\ ui'.vehicle # None /\ ui'.shipments = "loading"
               => callsOf({"shipments"})' # {}
        /\ ui'.page = "details" /\ ui'.deleting => callsOf({"delete"})' # {} \/ db' = Gone
    BY <1>1 DEF VehicleWaits
  <1>6. QED
    BY <1>3, <1>4, <1>5 DEF VehicleWaits

\* A step that leaves the calls as they are.
LEMMA VehicleAloneWaits ==
    ASSUME VehicleWaits, calls' = calls, db = Gone => db' = Gone, ui'.page = ui.page,
           ui'.isLoading = ui.isLoading,
           ui.page = "edit" => /\ ui'.submitting = ui.submitting /\ ui'.vehicle = ui.vehicle
                               /\ ui'.shipments = ui.shipments,
           ui.page = "details" => ui'.deleting = ui.deleting
    PROVE  VehicleWaits'
  BY CallsStay DEF VehicleWaits

\* A page that is opened waits for the vehicle.
LEMMA VehicleOpenedWaits ==
    ASSUME WebConstants
    PROVE  /\ /\ ui \in {vehicleScreen!Details, vehicleScreen!EditPage}
              /\ calls = placed(NoCalls, Sent("load", None))
              => VehicleWaits
           /\ /\ ui' \in {vehicleScreen!Details, vehicleScreen!EditPage}
              /\ calls' = placed(NoCalls, Sent("load", None))
              => VehicleWaits'
  <1>1. \A u \in {vehicleScreen!Details, vehicleScreen!EditPage} :
            /\ u.page \in {"details", "edit"}
            /\ u.page = "edit" => ~u.submitting /\ u.vehicle = None
            /\ u.page = "details" => ~u.deleting
    BY DEF vehicleScreen!Details, vehicleScreen!EditPage
  <1>2. Sent("load", None) # NoCall /\ Sent("load", None).op = "load"
    BY CallIsSome
  <1>3. \A page : "load" \in VehicleOps(page)
    BY DEF VehicleOps
  <1>4. QED
    BY <1>1, <1>2, <1>3, OpenedWith DEF VehicleWaits

LEMMA VehicleServedWaits ==
    ASSUME VehicleInv, VehicleWaits, NEW i \in Slots, vehicleScreen!Serve(i)
    PROVE  VehicleWaits'
  <1>1. ui' = ui /\ CallsOK /\ i \in underWay /\ calls[i].op \in VehicleOps(ui.page)
    BY VehicleCalls
    DEF VehicleInv, VehicleWaits, vehicleScreen!Serve, vehicleScreen!ServeLoad,
        vehicleScreen!ServeDelete, vehicleScreen!ServeUpdate, waiting
  <1>2. PICK ok, data : Puts(i, Answer(calls[i], ok, data))
                        /\ (calls[i].op = "delete" /\ ok => db' = Gone)
    BY <1>1, VehicleCalls, AnswerIsTaken
    DEF vehicleScreen!Serve, vehicleScreen!ServeLoad, vehicleScreen!ServeDelete,
        vehicleScreen!ServeUpdate
  <1>3. db = Gone => db' = Gone
    BY DEF vehicleScreen!Serve, vehicleScreen!ServeLoad, vehicleScreen!ServeDelete,
           vehicleScreen!ServeUpdate
  <1>4. PICK c : /\ c = Answer(calls[i], ok, data)
                 /\ c # NoCall /\ c.op = calls[i].op /\ c.ok = ok
    BY CallIsSome
  <1>5. \A op : stillWaits(op, i, c)
    BY <1>1, <1>4 DEF stillWaits, callsOf
  <1>6. QED
    BY <1>1, <1>2, <1>3, <1>4, <1>5, VehicleCallWaits

LEMMA VehicleOperatorWaits ==
    ASSUME WebConstants, VehicleInv, VehicleWaits, vehicleScreen!Operator
    PROVE  VehicleWaits'
  <1>1. CallsOK /\ ui \in DetailsUi \cup EditUi
    BY DEF VehicleInv
  <1>2. ui.page = "details" => ui \in DetailsUi
    BY <1>1 DEF EditUi
  <1>3. ui.page = "edit" => ui \in EditUi
    BY <1>1 DEF DetailsUi
  <1>4. ui.page \in {"details", "edit"}
    BY <1>1 DEF DetailsUi, EditUi
  <1>5. ASSUME NEW op \in VehicleOps(ui.page), NEW arg, Call(op, arg)
        PROVE  \E k, c : /\ Puts(k, c) /\ c # NoCall /\ c.op = op /\ c.step = "sent"
                         /\ \A x : stillWaits(x, k, c)
    BY <1>1, <1>5, CallIsPlaced, CallIsSome DEF stillWaits, callsOf, underWay
  <1>6. CASE vehicleScreen!handleDelete
    <2>1. ui \in DetailsUi /\ ui.page = "details" /\ Call("delete", None) /\ db' = db
      BY <1>2, <1>6, VehicleCalls DEF vehicleScreen!handleDelete, vehicleScreen!detailsShown
    <2>2. ui'.page = ui.page /\ ui'.isLoading = ui.isLoading
      BY <1>6, <2>1 DEF vehicleScreen!handleDelete, DetailsUi
    <2>3. "delete" \in VehicleOps(ui.page)
      BY <2>1 DEF VehicleOps
    <2>4. PICK k, c : /\ Puts(k, c) /\ c # NoCall /\ c.op = "delete" /\ c.step = "sent"
                      /\ \A x : stillWaits(x, k, c)
      BY <1>5, <2>1, <2>3
    <2>5. QED
      BY <2>1, <2>2, <2>3, <2>4, VehicleCallWaits
  <1>7. CASE vehicleScreen!OpenEdit \/ vehicleScreen!Leave
    BY <1>7, VehicleOpenedWaits, VehicleCalls
    DEF vehicleScreen!OpenEdit, vehicleScreen!Leave, vehicleScreen!opened
  <1>8. CASE vehicleScreen!TryAgain
    <2>1. /\ Call("load", None) /\ db' = db
          /\ ui' = [ui EXCEPT !.isLoading = TRUE, !.error = FALSE]
      BY <1>8, VehicleCalls DEF vehicleScreen!TryAgain
    <2>2. /\ ui'.page = ui.page
          /\ ui.page = "edit" => /\ ui'.submitting = ui.submitting /\ ui'.vehicle = ui.vehicle
                                 /\ ui'.shipments = ui.shipments
          /\ ui.page = "details" => ui'.deleting = ui.deleting
      BY <1>1, <2>1 DEF DetailsUi, EditUi
    <2>3. "load" \in VehicleOps(ui.page)
      BY DEF VehicleOps
    <2>4. PICK k, c : /\ Puts(k, c) /\ c # NoCall /\ c.op = "load" /\ c.step = "sent"
                      /\ \A x : stillWaits(x, k, c)
      BY <1>5, <2>1, <2>3
    <2>5. QED
      BY <2>1, <2>2, <2>3, <2>4, VehicleCallWaits
  <1>9. CASE vehicleScreen!Choose
    <2>1. ui \in EditUi /\ db' = db /\ calls' = calls
      BY <1>3, <1>9 DEF vehicleScreen!Choose, vehicleScreen!formShown
    <2>2. /\ ui'.page = ui.page /\ ui'.isLoading = ui.isLoading /\ ui'.submitting = ui.submitting
          /\ ui'.vehicle = ui.vehicle /\ ui'.shipments = ui.shipments /\ ui.page = "edit"
      BY <1>9, <2>1 DEF vehicleScreen!Choose, EditUi
    <2>3. QED
      BY <2>1, <2>2, VehicleAloneWaits
  <1>10. CASE vehicleScreen!handleSubmit
    <2>1. ui \in EditUi /\ ui.page = "edit" /\ db' = db
      BY <1>3, <1>10 DEF vehicleScreen!handleSubmit, vehicleScreen!formShown
    <2>2. /\ ui'.page = ui.page /\ ui'.isLoading = ui.isLoading
          /\ ui'.vehicle = ui.vehicle /\ ui'.shipments = ui.shipments
      BY <1>10, <2>1 DEF vehicleScreen!handleSubmit, EditUi
    <2>3. CASE Call("update", [draft |-> ui.draft, seen |-> ui.vehicle])
      <3>1. "update" \in VehicleOps(ui.page)
        BY <2>1 DEF VehicleOps
      <3>2. PICK k, c : /\ Puts(k, c) /\ c # NoCall /\ c.op = "update" /\ c.step = "sent"
                        /\ \A x : stillWaits(x, k, c)
        BY <1>5, <2>3, <3>1
      <3>3. QED
        BY <2>1, <2>2, <3>1, <3>2, VehicleCallWaits
    <2>4. CASE ui' = [ui EXCEPT !.formError = TRUE] /\ calls' = calls
      <3>1. ui'.submitting = ui.submitting
        BY <2>1, <2>4 DEF EditUi
      <3>2. QED
        BY <2>1, <2>2, <2>4, <3>1, VehicleAloneWaits
    <2>5. QED
      BY <1>10, <2>3, <2>4, VehicleCalls DEF vehicleScreen!handleSubmit
  <1>11. QED
    BY <1>6, <1>7, <1>8, <1>9, <1>10 DEF vehicleScreen!Operator

LEMMA VehicleReceivesWaits ==
    ASSUME VehicleInv, VehicleWaits, NEW i \in Slots, vehicleScreen!Receive(i)
    PROVE  VehicleWaits'
  <1>1. /\ db' = db /\ CallsOK /\ ui \in DetailsUi \cup EditUi
        /\ i \in underWay /\ calls[i].step = "answered"
    BY VehicleCalls
    DEF VehicleInv, vehicleScreen!Receive, vehicleScreen!DetailsArrive,
        vehicleScreen!DeleteAnswered, vehicleScreen!VehicleArrives,
        vehicleScreen!ShipmentsArrive, vehicleScreen!UpdateAnswered, vehicleScreen!Answered,
        answered
  <1>2. ui.page = "details" => ui \in DetailsUi
    BY <1>1 DEF EditUi
  <1>3. ui.page = "edit" => ui \in EditUi
    BY <1>1 DEF DetailsUi
  <1>4. \A op, c : stillWaits(op, i, c) <=> calls[i].op # op \/ (c # NoCall /\ c.op = op)
    BY <1>1 DEF stillWaits, callsOf
  <1>5. /\ Finish(i) => Puts(i, NoCall)
        /\ Continue(i, "shipments", None) => Puts(i, Sent("shipments", None))
    BY <1>1, AnswerIsTaken
  <1>6. CASE vehicleScreen!DetailsArrive(i)
    <2>1. ui \in DetailsUi /\ ui.page = "details" /\ Finish(i) /\ calls[i].op = "load"
      BY <1>2, <1>6, VehicleCalls DEF vehicleScreen!DetailsArrive, vehicleScreen!Answered
    <2>2. ui'.page = ui.page /\ ~ui'.isLoading /\ ui'.deleting = ui.deleting
      BY <1>6, <2>1 DEF vehicleScreen!DetailsArrive, DetailsUi
    <2>3. QED
      BY <1>1, <1>4, <1>5, <2>1, <2>2, VehicleCallWaits
  <1>7. CASE vehicleScreen!DeleteAnswered(i)
    <2>1. ui \in DetailsUi /\ ui.page = "details" /\ Finish(i) /\ calls[i].op = "delete"
      BY <1>2, <1>7, VehicleCalls DEF vehicleScreen!DeleteAnswered, vehicleScreen!Answered
    <2>2. /\ ui'.page = ui.page /\ ui'.isLoading = ui.isLoading
          /\ ui'.deleting => ui.deleting /\ calls[i].ok
      BY <1>7, <2>1 DEF vehicleScreen!DeleteAnswered, DetailsUi
    <2>3. calls[i].ok => db = Gone
      BY <1>1, <2>1 DEF VehicleWaits, callsOf
    <2>4. QED
      BY <1>1, <1>4, <1>5, <2>1, <2>2, <2>3, VehicleCallWaits
  <1>8. CASE vehicleScreen!VehicleArrives(i)
    <2>1. ui \in EditUi /\ ui.page = "edit" /\ calls[i].op = "load"
      BY <1>3, <1>8 DEF vehicleScreen!VehicleArrives, vehicleScreen!Answered
    <2>2. /\ ui'.page = ui.page /\ ~ui'.isLoading /\ ui'.submitting = ui.submitting
          /\ ui'.shipments = ui.shipments
      BY <1>8, <2>1 DEF vehicleScreen!VehicleArrives, EditUi
    <2>3. CASE Continue(i, "shipments", None)
      <3>1. PICK c : c = Sent("shipments", None) /\ c # NoCall /\ c.op = "shipments"
        BY CallIsSome
      <3>2. "shipments" \in VehicleOps(ui.page)
        BY <2>1 DEF VehicleOps
      <3>3. QED
        BY <1>1, <1>4, <1>5, <2>1, <2>2, <2>3, <3>1, <3>2, VehicleCallWaits
    <2>4. CASE Finish(i) /\ ui' = [[ui EXCEPT !.isLoading = FALSE] EXCEPT !.error = TRUE]
      <3>1. ui'.vehicle = ui.vehicle
        BY <2>1, <2>4 DEF EditUi
      <3>2. QED
        BY <1>1, <1>4, <1>5, <2>1, <2>2, <2>4, <3>1, VehicleCallWaits
    <2>5. QED
      BY <1>8, <2>3, <2>4, VehicleCalls DEF vehicleScreen!VehicleArrives
  <1>9. CASE vehicleScreen!ShipmentsArrive(i)
    <2>1. ui \in EditUi /\ ui.page = "edit" /\ Finish(i) /\ calls[i].op = "shipments"
      BY <1>3, <1>9, VehicleCalls DEF vehicleScreen!ShipmentsArrive, vehicleScreen!Answered
    <2>2. PICK found \in {"some", "none"} : ui' = [ui EXCEPT !.shipments = found]
      BY <1>9 DEF vehicleScreen!ShipmentsArrive
    <2>3. /\ ui'.page = ui.page /\ ui'.isLoading = ui.isLoading /\ ui'.submitting = ui.submitting
          /\ ui'.shipments # "loading"
      BY <2>1, <2>2 DEF EditUi
    <2>4. QED
      BY <1>1, <1>4, <1>5, <2>1, <2>3, VehicleCallWaits
  <1>10. CASE vehicleScreen!UpdateAnswered(i)
    <2>1. ui \in EditUi /\ ui.page = "edit" /\ Finish(i) /\ calls[i].op = "update"
      BY <1>3, <1>10, VehicleCalls DEF vehicleScreen!UpdateAnswered, vehicleScreen!Answered
    <2>2. /\ ui'.page = ui.page /\ ui'.isLoading = ui.isLoading /\ ~ui'.submitting
          /\ ui'.vehicle = ui.vehicle /\ ui'.shipments = ui.shipments
      BY <1>10, <2>1 DEF vehicleScreen!UpdateAnswered, EditUi
    <2>3. QED
      BY <1>1, <1>4, <1>5, <2>1, <2>2, VehicleCallWaits
  <1>11. QED
    BY <1>6, <1>7, <1>8, <1>9, <1>10 DEF vehicleScreen!Receive

LEMMA VehicleWaitsNext ==
    ASSUME WebConstants, VehicleInv, VehicleWaits, vehicleScreen!Next
    PROVE  VehicleWaits'
  <1>1. CASE vehicleScreen!SomebodyElse
    BY <1>1, VehicleAloneWaits DEF vehicleScreen!SomebodyElse
  <1>2. QED
    BY <1>1, VehicleOperatorWaits, VehicleServedWaits, VehicleReceivesWaits, VehicleCalls
    DEF vehicleScreen!Next

LEMMA VehicleWaitsInit ==
    ASSUME WebConstants, vehicleScreen!Init
    PROVE  VehicleWaits
  BY VehicleOpenedWaits, VehicleCalls DEF vehicleScreen!Init

LEMMA VehicleHolds ==
    ASSUME VehicleInv, VehicleWaits
    PROVE  vehicleScreen!TypeOK /\ vehicleScreen!BusyWhileUnderWay
  <1>1. /\ ui \in DetailsUi => ui.page = "details"
        /\ ui \in EditUi => ui.page = "edit"
    BY DEF DetailsUi, EditUi
  <1>2. vehicleScreen!TypeOK
    BY <1>1, VehicleCalls
    DEF VehicleInv, VehicleWaits, VehicleOps, DetailsUi, EditUi, Vehicle, vehicleScreen!TypeOK
  <1>3. QED
    BY <1>2, VehicleCalls
    DEF VehicleWaits, vehicleScreen!BusyWhileUnderWay, vehicleScreen!formShown

-----------------------------------------------------------------------------
(* The page that makes an invoice *)

Owner == invoiceScreen!Owner

NewUi ==
    [page: {"new"}, owner: Owner \cup {None}, customerId: Customers \cup {None},
     shipmentId: Shipments \cup {None}, items: Int, isLoading: BOOLEAN,
     submitting: BOOLEAN, error: BOOLEAN, leaving: BOOLEAN]
ShowUi ==
    [page: {"show"}, invoice: BOOLEAN, isLoading: BOOLEAN, downloading: BOOLEAN,
     error: BOOLEAN]

\* The shipment that is chosen belongs to the customer beside it, as far as the
\* page knows.
ChosenOK(u) ==
    u.shipmentId # None =>
        /\ ~u.isLoading /\ u.owner \in Owner /\ u.shipmentId \in Shipments
        /\ u.owner[u.shipmentId] = u.customerId

\* What the API is asked for, and what it tells of the shipments.
InvoiceCallOK(c) ==
    /\ c.op = "create" /\ c.step = "sent" =>
           /\ c.arg.seen \in Owner /\ c.arg.sent.shipmentId \in Shipments
           /\ c.arg.seen[c.arg.sent.shipmentId] = c.arg.sent.customerId
    /\ c.op = "options" /\ c.step = "answered" /\ c.ok => c.data \in Owner
    /\ c.step = "answered" => c.ok \in BOOLEAN

\* The options are loaded once, before anything can be chosen.
OneLoad ==
    /\ \A i \in callsOf({"options"}) : ui.isLoading
    /\ \A i, j \in callsOf({"options"}) : i = j

InvoiceInv ==
    /\ CallsOK /\ db \in [owner: Owner, made: Nat]
    /\ \A i \in underWay : InvoiceCallOK(calls[i])
    /\ \/ /\ ui \in NewUi /\ ChosenOK(ui) /\ OneLoad
          /\ \A i \in underWay : calls[i].op \in {"options", "create"}
       \/ /\ ui \in ShowUi
          /\ \A i \in underWay : calls[i].op \in {"invoice", "download"}

\* The calls of the page are those of WebCalls.
LEMMA InvoiceCalls ==
    /\ invoiceScreen!underWay = underWay /\ invoiceScreen!underWay' = underWay'
    /\ invoiceScreen!Slots = Slots
    /\ \A ops : /\ invoiceScreen!callsOf(ops) = callsOf(ops)
                /\ invoiceScreen!callsOf(ops)' = callsOf(ops)'
    /\ \A op, arg : invoiceScreen!Sent(op, arg) = Sent(op, arg)
    /\ \A op, arg : invoiceScreen!Call(op, arg) <=> Call(op, arg)
    /\ \A i : invoiceScreen!Finish(i) <=> Finish(i)
    /\ \A c : invoiceScreen!placed(invoiceScreen!NoCalls, c) = placed(NoCalls, c)
    /\ \A i : invoiceScreen!answered(i) <=> answered(i)
    /\ \A i : invoiceScreen!waiting(i) <=> waiting(i)
    /\ \A i, data : invoiceScreen!Reply(i, data) <=> Succeed(i, data) \/ Fail(i)
    /\ \A i : invoiceScreen!Fail(i) <=> Fail(i)
  <1> USE DEF invoiceScreen!NoCall, NoCall
  <1>1. invoiceScreen!Slots = Slots /\ invoiceScreen!underWay = underWay
    BY DEF invoiceScreen!underWay, invoiceScreen!Slots, underWay, Slots
  <1>2. invoiceScreen!underWay' = underWay'
    BY DEF invoiceScreen!underWay, invoiceScreen!Slots, underWay, Slots
  <1>3. \A ops : /\ invoiceScreen!callsOf(ops) = callsOf(ops)
                 /\ invoiceScreen!callsOf(ops)' = callsOf(ops)'
    BY <1>1, <1>2 DEF invoiceScreen!callsOf, callsOf
  <1>4. \A op, arg : invoiceScreen!Sent(op, arg) = Sent(op, arg)
    BY DEF invoiceScreen!Sent, Sent
  <1>5. \A op, arg : invoiceScreen!Call(op, arg) <=> Call(op, arg)
    BY <1>1, <1>4 DEF invoiceScreen!Call, Call, invoiceScreen!mayCall, mayCall,
                      invoiceScreen!placed, placed, invoiceScreen!firstFree, firstFree
  <1>6. \A i : invoiceScreen!Finish(i) <=> Finish(i)
    BY DEF invoiceScreen!Finish, Finish
  <1>7. \A c : invoiceScreen!placed(invoiceScreen!NoCalls, c) = placed(NoCalls, c)
    BY <1>1
    DEF invoiceScreen!placed, placed, invoiceScreen!firstFree, firstFree, invoiceScreen!NoCalls,
        invoiceScreen!NoCall, NoCall, NoCalls
  <1>8. \A i : invoiceScreen!answered(i) <=> answered(i)
    BY <1>1 DEF invoiceScreen!answered, answered
  <1>9. \A i : invoiceScreen!waiting(i) <=> waiting(i)
    BY <1>1 DEF invoiceScreen!waiting, waiting
  <1>10. \A i, data : invoiceScreen!Reply(i, data) <=> Succeed(i, data) \/ Fail(i)
    BY DEF invoiceScreen!Reply, invoiceScreen!Succeed, Succeed, invoiceScreen!Fail, Fail,
       invoiceScreen!Answer, Answer
  <1>11. \A i : invoiceScreen!Fail(i) <=> Fail(i)
    BY DEF invoiceScreen!Fail, Fail, invoiceScreen!Answer, Answer
  <1>12. QED
    BY <1>1, <1>2, <1>3, <1>4, <1>5, <1>6, <1>7, <1>8, <1>9, <1>10, <1>11

LEMMA InvoiceRefusal ==
    ASSUME InvoiceInv
    PROVE  invoiceScreen!RefusedOnlyWhenStale
  <1>1. SUFFICES ASSUME NEW i \in callsOf({"create"}), waiting(i),
                        calls[i].arg.seen = db.owner
                 PROVE  invoiceScreen!ensureShipmentExists(calls[i].arg.sent)
    BY InvoiceCalls DEF invoiceScreen!RefusedOnlyWhenStale
  <1>2. db.owner[calls[i].arg.sent.shipmentId] = calls[i].arg.sent.customerId
    BY <1>1 DEF InvoiceInv, InvoiceCallOK, callsOf, waiting
  <1>3. QED
    BY <1>2 DEF invoiceScreen!ensureShipmentExists

\* A step of the form that leaves the calls as they are.
LEMMA InvoiceForm ==
    ASSUME InvoiceInv, ui \in NewUi, calls' = calls, db' \in [owner: Owner, made: Nat],
           ui' \in NewUi, ChosenOK(ui'), ui'.isLoading = ui.isLoading
    PROVE  InvoiceInv'
  <1>1. underWay' = underWay /\ \A ops : callsOf(ops)' = callsOf(ops)
    BY DEF underWay, callsOf
  <1>2. ui \notin ShowUi
    BY DEF NewUi, ShowUi
  <1>3. OneLoad'
    BY <1>1, <1>2 DEF InvoiceInv, OneLoad
  <1>4. QED
    BY <1>1, <1>2, <1>3 DEF InvoiceInv, CallsOK

\* A step of the form that sends a call, or takes an answer.
LEMMA InvoiceFormCall ==
    ASSUME InvoiceInv, ui \in NewUi, NEW k, NEW c, Puts(k, c), db' = db,
           ui' \in NewUi, ChosenOK(ui'),
           c # NoCall => InvoiceCallOK(c) /\ c.op = "create",
           ui'.isLoading = ui.isLoading \/ k \in callsOf({"options"})
    PROVE  InvoiceInv'
  <1>1. ui \notin ShowUi
    BY DEF NewUi, ShowUi
  <1>2. /\ \A i \in underWay' : InvoiceCallOK(calls'[i])
        /\ \A i \in underWay' : calls'[i].op \in {"options", "create"}
    BY <1>1 DEF InvoiceInv, Puts, underWay
  <1>3. OneLoad'
    BY <1>1 DEF InvoiceInv, OneLoad, Puts, callsOf, underWay
  <1>4. QED
    BY <1>2, <1>3 DEF InvoiceInv, Puts

\* A step of the page that shows an invoice.
LEMMA InvoiceShowCall ==
    ASSUME InvoiceInv, ui \in ShowUi, NEW k, NEW c, Puts(k, c), db' = db,
           ui' \in ShowUi, c # NoCall => c.op = "download" /\ c.step = "sent"
    PROVE  InvoiceInv'
  <1>1. ui \notin NewUi
    BY DEF NewUi, ShowUi
  <1>2. c # NoCall => InvoiceCallOK(c)
    BY DEF InvoiceCallOK
  <1>3. /\ \A i \in underWay' : InvoiceCallOK(calls'[i])
        /\ \A i \in underWay' : calls'[i].op \in {"invoice", "download"}
    BY <1>1, <1>2 DEF InvoiceInv, Puts, underWay
  <1>4. QED
    BY <1>3 DEF InvoiceInv, Puts

\* What the API answers.
LEMMA InvoiceAnswered ==
    ASSUME InvoiceInv, NEW i \in Slots, waiting(i), NEW ok \in BOOLEAN, NEW data,
           Puts(i, Answer(calls[i], ok, data)), ui' = ui,
           db' \in [owner: Owner, made: Nat], calls[i].op = "create" \/ data = db.owner \/ ~ok
    PROVE  InvoiceInv'
  <1> DEFINE a == Answer(calls[i], ok, data)
  <1>1. a.op = calls[i].op /\ a.step = "answered" /\ a.ok = ok /\ a.data = data
    BY DEF Answer
  <1>2. InvoiceCallOK(a)
    BY <1>1 DEF InvoiceInv, InvoiceCallOK
  <1> HIDE DEF a
  <1>3. calls'[i] = a /\ CallsOK' /\ i \in underWay
    BY DEF Puts, waiting, a
  <1>4. \A j \in underWay' : j \in underWay /\ calls'[j].op = calls[j].op
    BY <1>1, <1>3 DEF Puts, underWay
  <1>5. \A j \in underWay' : InvoiceCallOK(calls'[j])
    BY <1>2, <1>3 DEF InvoiceInv, Puts, underWay
  <1>6. CASE /\ ui \in NewUi /\ ChosenOK(ui) /\ OneLoad
             /\ \A j \in underWay : calls[j].op \in {"options", "create"}
    <2>1. callsOf({"options"})' \subseteq callsOf({"options"})
      BY <1>4 DEF callsOf
    <2>2. OneLoad'
      BY <1>6, <2>1 DEF OneLoad
    <2>3. QED
      BY <1>3, <1>4, <1>5, <1>6, <2>2 DEF InvoiceInv, ChosenOK
  <1>7. CASE /\ ui \in ShowUi
             /\ \A j \in underWay : calls[j].op \in {"invoice", "download"}
    BY <1>3, <1>4, <1>5, <1>7 DEF InvoiceInv
  <1>8. QED
    BY <1>6, <1>7 DEF InvoiceInv

LEMMA InvoiceServed ==
    ASSUME InvoiceInv, NEW i \in Slots,
           invoiceScreen!ServeCreate(i) \/ invoiceScreen!Serve(i)
    PROVE  InvoiceInv'
  <1>1. /\ ui' = ui /\ waiting(i) /\ db \in [owner: Owner, made: Nat]
        /\ \A data : Succeed(i, data) => Puts(i, Answer(calls[i], TRUE, data))
        /\ Fail(i) => Puts(i, Answer(calls[i], FALSE, None))
    BY AnswerIsTaken, InvoiceCalls
    DEF InvoiceInv, invoiceScreen!ServeCreate, invoiceScreen!Serve
  <1>2. CASE invoiceScreen!ServeCreate(i)
    <2>1. /\ db' = db \/ db' = [db EXCEPT !.made = @ + 1]
          /\ Succeed(i, None) \/ Fail(i)
          /\ calls[i].op = "create"
      BY <1>2, InvoiceCalls DEF invoiceScreen!ServeCreate
    <2>2. db' \in [owner: Owner, made: Nat]
      BY <1>1, <2>1
    <2>3. QED
      BY <1>1, <2>1, <2>2, InvoiceAnswered
  <1>3. CASE invoiceScreen!Serve(i)
    <2>1. db' = db /\ (Succeed(i, db.owner) \/ Fail(i))
      BY <1>3, InvoiceCalls DEF invoiceScreen!Serve
    <2>2. QED
      BY <1>1, <2>1, InvoiceAnswered
  <1>4. QED
    BY <1>2, <1>3

LEMMA InvoiceSomebodyElse ==
    ASSUME InvoiceInv, invoiceScreen!SomebodyElse
    PROVE  InvoiceInv'
  <1>1. db' \in [owner: Owner, made: Nat] /\ ui' = ui /\ calls' = calls
    <2>1. PICK x \in Shipments, c \in Customers : db' = [db EXCEPT !.owner[x] = c]
      BY DEF invoiceScreen!SomebodyElse
    <2>2. db \in [owner: Owner, made: Nat]
      BY DEF InvoiceInv
    <2>3. [db.owner EXCEPT ![x] = c] \in Owner
      BY <2>2 DEF Owner, invoiceScreen!Owner
    <2>4. QED
      BY <2>1, <2>2, <2>3 DEF invoiceScreen!SomebodyElse
  <1>2. underWay' = underWay /\ \A ops : callsOf(ops)' = callsOf(ops)
    BY <1>1 DEF underWay, callsOf
  <1>3. OneLoad => OneLoad'
    BY <1>1, <1>2 DEF OneLoad
  <1>4. QED
    BY <1>1, <1>2, <1>3 DEF InvoiceInv, CallsOK, ChosenOK

LEMMA InvoicePages ==
    ASSUME InvoiceInv
    PROVE  /\ ui.page = "new" => ui \in NewUi /\ ChosenOK(ui)
           /\ ui.page = "show" => ui \in ShowUi
           /\ CallsOK /\ ui.page \in {"new", "show"}
  BY DEF InvoiceInv, NewUi, ShowUi

LEMMA InvoiceOperator ==
    ASSUME WebConstants, InvoiceInv, invoiceScreen!Operator
    PROVE  InvoiceInv'
  <1> DEFINE sent == [customerId |-> ui.customerId, shipmentId |-> ui.shipmentId]
  <1>1. db \in [owner: Owner, made: Nat]
    BY DEF InvoiceInv
  <1>2. CASE invoiceScreen!chooseCustomer
    <2>1. /\ ui \in NewUi /\ calls' = calls /\ db' = db
          /\ \E c \in Customers \cup {None} :
                 ui' = [ui EXCEPT !.customerId = c, !.shipmentId = None]
      BY <1>2, InvoicePages
      DEF invoiceScreen!chooseCustomer, invoiceScreen!mayChoose, invoiceScreen!formShown,
          invoiceScreen!Screen
    <2>2. ui' \in NewUi /\ ui'.shipmentId = None /\ ui'.isLoading = ui.isLoading
      BY <2>1 DEF NewUi
    <2>3. QED
      BY <1>1, <2>1, <2>2, InvoiceForm DEF ChosenOK
  <1>3. CASE invoiceScreen!chooseShipment
    <2>1. /\ ui \in NewUi /\ calls' = calls /\ db' = db /\ ~ui.isLoading /\ ui.owner # None
          /\ \E x \in Shipments : ui' = [ui EXCEPT !.shipmentId = x] /\ ui.owner[x] = ui.customerId
      BY <1>3, InvoicePages
      DEF invoiceScreen!chooseShipment, invoiceScreen!mayChoose, invoiceScreen!formShown,
          invoiceScreen!availableShipments, invoiceScreen!Screen
    <2>2. PICK x \in Shipments : ui' = [ui EXCEPT !.shipmentId = x] /\ ui.owner[x] = ui.customerId
      BY <2>1
    <2>3. /\ ui' \in NewUi /\ ui'.shipmentId = x /\ ui'.isLoading = ui.isLoading
          /\ ui'.owner = ui.owner /\ ui'.customerId = ui.customerId /\ ui.owner \in Owner
      BY <2>1, <2>2 DEF NewUi
    <2>4. ChosenOK(ui')
      BY <2>1, <2>2, <2>3 DEF ChosenOK
    <2>5. QED
      BY <1>1, <2>1, <2>3, <2>4, InvoiceForm
  <1>4. CASE invoiceScreen!addItem \/ invoiceScreen!removeItem
    <2>1. /\ ui \in NewUi /\ ChosenOK(ui) /\ calls' = calls /\ db' = db
          /\ \E n \in Int : ui' = [ui EXCEPT !.items = n]
      <3>1. ui \in NewUi /\ ChosenOK(ui) /\ ui.items \in Int
        BY <1>4, InvoicePages
        DEF invoiceScreen!addItem, invoiceScreen!removeItem, invoiceScreen!formShown, NewUi
      <3>2. QED
        BY <1>4, <3>1
        DEF invoiceScreen!addItem, invoiceScreen!removeItem, invoiceScreen!Screen
    <2>2. /\ ui' \in NewUi /\ ui'.shipmentId = ui.shipmentId /\ ui'.isLoading = ui.isLoading
          /\ ui'.owner = ui.owner /\ ui'.customerId = ui.customerId
      BY <2>1 DEF NewUi
    <2>3. ChosenOK(ui')
      BY <2>1, <2>2 DEF ChosenOK
    <2>4. QED
      BY <1>1, <2>1, <2>2, <2>3, InvoiceForm
  <1>5. CASE invoiceScreen!handleSubmit
    <2>1. ui \in NewUi /\ ChosenOK(ui) /\ db' = db
      BY <1>5, InvoicePages DEF invoiceScreen!handleSubmit, invoiceScreen!formShown
    <2>2. CASE /\ ui.customerId # None /\ ui.shipmentId # None
               /\ Call("create", [sent |-> sent, seen |-> ui.owner])
               /\ ui' = [ui EXCEPT !.submitting = TRUE, !.error = FALSE]
      <3>1. PICK k \in Slots : Puts(k, Sent("create", [sent |-> sent, seen |-> ui.owner]))
        BY <2>2, CallIsPlaced, InvoicePages
      <3>2. InvoiceCallOK(Sent("create", [sent |-> sent, seen |-> ui.owner]))
        BY <2>1, <2>2 DEF InvoiceCallOK, Sent, ChosenOK
      <3>3. Sent("create", [sent |-> sent, seen |-> ui.owner]).op = "create"
        BY DEF Sent
      <3>4. /\ ui' \in NewUi /\ ui'.shipmentId = ui.shipmentId /\ ui'.isLoading = ui.isLoading
            /\ ui'.owner = ui.owner /\ ui'.customerId = ui.customerId
        BY <2>1, <2>2 DEF NewUi
      <3>5. ChosenOK(ui')
        BY <2>1, <3>4 DEF ChosenOK
      <3>6. QED
        BY <2>1, <3>1, <3>2, <3>3, <3>4, <3>5, InvoiceFormCall
    <2>3. CASE ui' = [ui EXCEPT !.error = TRUE] /\ calls' = calls
      <3>1. /\ ui' \in NewUi /\ ui'.shipmentId = ui.shipmentId /\ ui'.isLoading = ui.isLoading
            /\ ui'.owner = ui.owner /\ ui'.customerId = ui.customerId
        BY <2>1, <2>3 DEF NewUi
      <3>2. ChosenOK(ui')
        BY <2>1, <3>1 DEF ChosenOK
      <3>3. QED
        BY <1>1, <2>1, <2>3, <3>1, <3>2, InvoiceForm
    <2>4. QED
      BY <1>5, <2>2, <2>3, InvoiceCalls DEF invoiceScreen!handleSubmit
  <1>6. CASE invoiceScreen!Open
    <2>1. /\ db' = db /\ ui' = invoiceScreen!ShowInvoice
          /\ calls' = placed(NoCalls, Sent("invoice", None))
      BY <1>6, InvoiceCalls DEF invoiceScreen!Open
    <2>2. PICK k \in Slots :
              calls' = [i \in Slots |-> IF i = k THEN Sent("invoice", None) ELSE NoCall]
      BY <2>1, FirstCall
    <2>3. /\ CallsOK' /\ \A i \in underWay' : calls'[i] = Sent("invoice", None)
      BY <2>2 DEF CallsOK, underWay
    <2>4. InvoiceCallOK(Sent("invoice", None)) /\ Sent("invoice", None).op = "invoice"
      BY DEF InvoiceCallOK, Sent
    <2>5. ui' \in ShowUi
      BY <2>1 DEF invoiceScreen!ShowInvoice, ShowUi
    <2>6. QED
      BY <1>1, <2>1, <2>3, <2>4, <2>5 DEF InvoiceInv
  <1>7. CASE invoiceScreen!handlePdfDownload
    <2>1. ui \in ShowUi /\ db' = db
      BY <1>7, InvoicePages DEF invoiceScreen!handlePdfDownload, invoiceScreen!invoiceShown
    <2>2. PICK k \in Slots : Puts(k, Sent("download", None))
      BY <1>7, CallIsPlaced, InvoicePages, InvoiceCalls DEF invoiceScreen!handlePdfDownload
    <2>3. Sent("download", None).op = "download" /\ Sent("download", None).step = "sent"
      BY DEF Sent
    <2>4. ui' \in ShowUi
      BY <1>7, <2>1 DEF invoiceScreen!handlePdfDownload, ShowUi
    <2>5. QED
      BY <2>1, <2>2, <2>3, <2>4, InvoiceShowCall
  <1>8. QED
    BY <1>2, <1>3, <1>4, <1>5, <1>6, <1>7 DEF invoiceScreen!Operator

LEMMA InvoiceReceives ==
    ASSUME InvoiceInv, NEW i \in Slots, invoiceScreen!Receive(i)
    PROVE  InvoiceInv'
  <1>1. /\ db' = db /\ Puts(i, NoCall) /\ answered(i)
    <2>1. Finish(i) /\ db' = db /\ answered(i)
      BY InvoiceCalls
      DEF invoiceScreen!Receive, invoiceScreen!OptionsArrive, invoiceScreen!CreateAnswered,
          invoiceScreen!InvoiceArrives, invoiceScreen!DownloadEnds, invoiceScreen!Answered
    <2>2. QED
      BY <2>1, InvoicePages, AnswerIsTaken
  <1>2. /\ calls[i].op \in {"options", "create"} => ui \in NewUi /\ ChosenOK(ui) /\ OneLoad
        /\ calls[i].op \in {"invoice", "download"} => ui \in ShowUi
        /\ InvoiceCallOK(calls[i])
    BY <1>1 DEF InvoiceInv, answered
  <1>3. CASE invoiceScreen!OptionsArrive(i)
    <2>1. /\ ui \in NewUi /\ ChosenOK(ui) /\ OneLoad /\ i \in callsOf({"options"})
          /\ calls[i].ok => calls[i].data \in Owner
      BY <1>1, <1>2, <1>3
      DEF invoiceScreen!OptionsArrive, invoiceScreen!Answered, InvoiceCallOK, answered, callsOf
    <2>2. ui.shipmentId = None
      BY <2>1 DEF OneLoad, ChosenOK
    <2>3. (IF calls[i].ok THEN calls[i].data ELSE ui.owner) \in Owner \cup {None}
      BY <2>1 DEF NewUi
    <2>4. ui' \in NewUi /\ ui'.shipmentId = None
      BY <1>3, <2>1, <2>2, <2>3 DEF invoiceScreen!OptionsArrive, NewUi
    <2>5. ChosenOK(ui')
      BY <2>4 DEF ChosenOK
    <2>6. QED
      BY <1>1, <2>1, <2>4, <2>5, InvoiceFormCall
  <1>4. CASE invoiceScreen!CreateAnswered(i)
    <2>1. ui \in NewUi /\ ChosenOK(ui)
      BY <1>2, <1>4 DEF invoiceScreen!CreateAnswered, invoiceScreen!Answered
    <2>2. PICK e \in BOOLEAN, l \in BOOLEAN :
              ui' = [ui EXCEPT !.submitting = FALSE, !.error = e, !.leaving = l]
      <3>1. /\ (~calls[i].ok \/ ui.error) \in BOOLEAN
            /\ (calls[i].ok \/ ui.leaving) \in BOOLEAN
        OBVIOUS
      <3>2. QED
        BY <1>4, <2>1, <3>1 DEF invoiceScreen!CreateAnswered
    <2>3. /\ ui' \in NewUi /\ ui'.shipmentId = ui.shipmentId /\ ui'.isLoading = ui.isLoading
          /\ ui'.owner = ui.owner /\ ui'.customerId = ui.customerId
      BY <2>1, <2>2 DEF NewUi
    <2>4. ChosenOK(ui')
      BY <2>1, <2>3 DEF ChosenOK
    <2>5. QED
      BY <1>1, <2>1, <2>3, <2>4, InvoiceFormCall
  <1>5. CASE invoiceScreen!InvoiceArrives(i)
    <2>1. ui \in ShowUi
      BY <1>2, <1>5 DEF invoiceScreen!InvoiceArrives, invoiceScreen!Answered
    <2>2. PICK ok \in BOOLEAN, e \in BOOLEAN :
              ui' = [ui EXCEPT !.isLoading = FALSE, !.invoice = ok, !.error = e]
      <3>1. calls[i].ok \in BOOLEAN
        BY <1>1, <1>2 DEF InvoiceCallOK, answered
      <3>2. QED
        BY <1>5, <3>1 DEF invoiceScreen!InvoiceArrives
    <2>3. ui' \in ShowUi
      BY <2>1, <2>2 DEF ShowUi
    <2>4. QED
      BY <1>1, <2>1, <2>3, InvoiceShowCall
  <1>6. CASE invoiceScreen!DownloadEnds(i)
    <2>1. ui \in ShowUi
      BY <1>2, <1>6 DEF invoiceScreen!DownloadEnds, invoiceScreen!Answered
    <2>2. ui' \in ShowUi
      BY <1>6, <2>1 DEF invoiceScreen!DownloadEnds, ShowUi
    <2>3. QED
      BY <1>1, <2>1, <2>2, InvoiceShowCall
  <1>7. QED
    BY <1>3, <1>4, <1>5, <1>6 DEF invoiceScreen!Receive

LEMMA InvoiceNext ==
    ASSUME WebConstants, InvoiceInv, invoiceScreen!Next
    PROVE  InvoiceInv'
  BY InvoiceOperator, InvoiceSomebodyElse, InvoiceServed, InvoiceReceives, InvoiceCalls
  DEF invoiceScreen!Next

LEMMA InvoiceInit ==
    ASSUME WebConstants, invoiceScreen!Init
    PROVE  InvoiceInv
  <1>1. calls = placed(NoCalls, Sent("options", None))
    BY InvoiceCalls DEF invoiceScreen!Init
  <1>2. PICK k \in Slots :
            calls = [i \in Slots |-> IF i = k THEN Sent("options", None) ELSE NoCall]
    BY <1>1, FirstCall
  <1>3. CallsOK /\ \A i \in underWay : i = k /\ calls[i] = Sent("options", None)
    BY <1>2 DEF CallsOK, underWay
  <1>4. InvoiceCallOK(Sent("options", None)) /\ Sent("options", None).op = "options"
    BY DEF InvoiceCallOK, Sent
  <1>5. ui \in NewUi /\ ui.shipmentId = None /\ ui.isLoading
    BY DEF invoiceScreen!Init, invoiceScreen!NewInvoice, NewUi
  <1>6. ChosenOK(ui) /\ OneLoad
    BY <1>3, <1>5 DEF ChosenOK, OneLoad, callsOf
  <1>7. db \in [owner: Owner, made: Nat]
    BY DEF invoiceScreen!Init, Owner
  <1>8. QED
    BY <1>3, <1>4, <1>5, <1>6, <1>7 DEF InvoiceInv

\* What the disabled buttons of the two pages wait for, and how far the form and
\* the invoices it makes are counted.
InvoiceBounds == MaxItems \in Nat \ {0} /\ MaxInvoices \in Nat

InvoiceWaits ==
    /\ db.made \in 0 .. MaxInvoices
    /\ ui.page = "new" =>
           /\ ui.items \in 1 .. MaxItems
           /\ Alone({"create"}) /\ (ui.submitting <=> callsOf({"create"}) # {})
    /\ ui.page = "show" =>
           Alone({"download"}) /\ (ui.downloading <=> callsOf({"download"}) # {})

\* A step of the page that puts a call into a slot, or takes one out.
LEMMA InvoiceCallWaits ==
    ASSUME InvoiceWaits, NEW k, NEW c, Puts(k, c), ui'.page = ui.page,
           db'.made \in 0 .. MaxInvoices,
           ui.page = "new" => /\ ui'.items = ui.items
                              /\ waits({"create"}, k, c, ui.submitting, ui'.submitting),
           ui.page = "show" => waits({"download"}, k, c, ui.downloading, ui'.downloading)
    PROVE  InvoiceWaits'
  <1>1. ui.page = "new" =>
            Alone({"create"})' /\ (ui'.submitting <=> callsOf({"create"})' # {})
    BY OneAtATime DEF InvoiceWaits
  <1>2. ui.page = "show" =>
            Alone({"download"})' /\ (ui'.downloading <=> callsOf({"download"})' # {})
    BY OneAtATime DEF InvoiceWaits
  <1>3. QED
    BY <1>1, <1>2 DEF InvoiceWaits

\* A step that leaves the calls as they are.
LEMMA InvoiceAloneWaits ==
    ASSUME InvoiceWaits, calls' = calls, ui'.page = ui.page, db'.made \in 0 .. MaxInvoices,
           ui.page = "new" => ui'.items \in 1 .. MaxItems /\ ui'.submitting = ui.submitting,
           ui.page = "show" => ui'.downloading = ui.downloading
    PROVE  InvoiceWaits'
  <1>1. \A ops : callsOf(ops)' = callsOf(ops) /\ (Alone(ops) => Alone(ops)')
    BY CallsStay DEF Alone
  <1>2. QED
    BY <1>1 DEF InvoiceWaits

\* The API answers: the call stays under way.
LEMMA InvoiceServedWaits ==
    ASSUME InvoiceBounds, InvoiceInv, InvoiceWaits, NEW i \in Slots,
           invoiceScreen!ServeCreate(i) \/ invoiceScreen!Serve(i)
    PROVE  InvoiceWaits'
  <1>1. CallsOK /\ i \in underWay /\ ui' = ui /\ db \in [owner: Owner, made: Nat]
    BY InvoiceCalls
    DEF InvoiceInv, invoiceScreen!ServeCreate, invoiceScreen!Serve, waiting
  <1>2. PICK ok, data : Puts(i, Answer(calls[i], ok, data))
    BY <1>1, InvoiceCalls, AnswerIsTaken DEF invoiceScreen!ServeCreate, invoiceScreen!Serve
  <1>3. db'.made \in 0 .. MaxInvoices
    BY <1>1 DEF InvoiceBounds, InvoiceWaits, invoiceScreen!ServeCreate, invoiceScreen!Serve
  <1>4. PICK c : c = Answer(calls[i], ok, data) /\ c # NoCall /\ c.op = calls[i].op
    BY CallIsSome
  <1>5. \A op, busy : waits({op}, i, c, busy, busy)
    BY <1>1, <1>4 DEF waits, callsOf
  <1>6. QED
    BY <1>1, <1>2, <1>3, <1>4, <1>5, InvoiceCallWaits DEF InvoiceWaits

LEMMA InvoiceSomebodyElseWaits ==
    ASSUME InvoiceInv, InvoiceWaits, invoiceScreen!SomebodyElse
    PROVE  InvoiceWaits'
  <1>1. db \in [owner: Owner, made: Nat]
    BY DEF InvoiceInv
  <1>2. PICK x \in Shipments, c \in Customers : db' = [db EXCEPT !.owner[x] = c]
    BY DEF invoiceScreen!SomebodyElse
  <1>3. db'.made = db.made
    BY <1>1, <1>2
  <1>4. QED
    BY <1>3, InvoiceAloneWaits DEF invoiceScreen!SomebodyElse, InvoiceWaits

LEMMA InvoiceOperatorWaits ==
    ASSUME WebConstants, InvoiceBounds, InvoiceInv, InvoiceWaits, invoiceScreen!Operator
    PROVE  InvoiceWaits'
  <1>1. /\ CallsOK /\ db.made \in 0 .. MaxInvoices
        /\ ui.page = "new" => ui \in NewUi
        /\ ui.page = "show" => ui \in ShowUi
    BY InvoicePages DEF InvoiceWaits
  <1>2. ASSUME NEW op, NEW arg, Call(op, arg)
        PROVE  \E k, c : /\ Puts(k, c) /\ c # NoCall /\ c.op = op /\ k \notin underWay
                         /\ \A x, busy : x # op => waits({x}, k, c, busy, busy)
    BY <1>1, <1>2, CallIsPlaced, CallIsSome DEF waits, callsOf, underWay
  <1>3. CASE invoiceScreen!chooseCustomer
    <2>1. /\ ui \in NewUi /\ ui.page = "new" /\ calls' = calls /\ db' = db
          /\ \E c \in Customers \cup {None} :
                 ui' = [ui EXCEPT !.customerId = c, !.shipmentId = None]
      BY <1>1, <1>3
      DEF invoiceScreen!chooseCustomer, invoiceScreen!mayChoose, invoiceScreen!formShown,
          invoiceScreen!Screen
    <2>2. ui'.page = "new" /\ ui'.items = ui.items /\ ui'.submitting = ui.submitting
      BY <2>1 DEF NewUi
    <2>3. QED
      BY <1>1, <2>1, <2>2, InvoiceAloneWaits DEF InvoiceWaits
  <1>4. CASE invoiceScreen!chooseShipment
    <2>1. /\ ui \in NewUi /\ ui.page = "new" /\ calls' = calls /\ db' = db
          /\ \E x \in Shipments : ui' = [ui EXCEPT !.shipmentId = x]
      BY <1>1, <1>4
      DEF invoiceScreen!chooseShipment, invoiceScreen!mayChoose, invoiceScreen!formShown,
          invoiceScreen!availableShipments, invoiceScreen!Screen
    <2>2. ui'.page = "new" /\ ui'.items = ui.items /\ ui'.submitting = ui.submitting
      BY <2>1 DEF NewUi
    <2>3. QED
      BY <1>1, <2>1, <2>2, InvoiceAloneWaits DEF InvoiceWaits
  <1>5. CASE invoiceScreen!addItem \/ invoiceScreen!removeItem
    <2>1. /\ ui \in NewUi /\ ui.page = "new" /\ calls' = calls /\ db' = db
          /\ ui.items \in 1 .. MaxItems
      BY <1>1, <1>5
      DEF invoiceScreen!addItem, invoiceScreen!removeItem, invoiceScreen!formShown,
          invoiceScreen!Screen, InvoiceWaits
    <2>2. PICK n \in 1 .. MaxItems : ui' = [ui EXCEPT !.items = n]
      <3>1. CASE invoiceScreen!addItem
        <4>1. ui.items + 1 \in 1 .. MaxItems
          BY <2>1, <3>1 DEF invoiceScreen!addItem, InvoiceBounds
        <4>2. QED
          BY <3>1, <4>1 DEF invoiceScreen!addItem, invoiceScreen!Screen
      <3>2. CASE invoiceScreen!removeItem
        <4>1. (IF ui.items = 1 THEN ui.items ELSE ui.items - 1) \in 1 .. MaxItems
          BY <2>1 DEF InvoiceBounds
        <4>2. QED
          BY <3>2, <4>1 DEF invoiceScreen!removeItem, invoiceScreen!Screen
      <3>3. QED
        BY <1>5, <3>1, <3>2
    <2>3. ui'.page = "new" /\ ui'.items = n /\ ui'.submitting = ui.submitting
      BY <2>1, <2>2 DEF NewUi
    <2>4. QED
      BY <1>1, <2>1, <2>3, InvoiceAloneWaits
  <1>6. CASE invoiceScreen!handleSubmit
    <2>1. ui \in NewUi /\ ui.page = "new" /\ db' = db /\ ~ui.submitting
      BY <1>1, <1>6 DEF invoiceScreen!handleSubmit, invoiceScreen!formShown
    <2>2. CASE ui' = [ui EXCEPT !.error = TRUE] /\ calls' = calls
      <3>1. ui'.page = "new" /\ ui'.items = ui.items /\ ui'.submitting = ui.submitting
        BY <2>1, <2>2 DEF NewUi
      <3>2. QED
        BY <1>1, <2>1, <2>2, <3>1, InvoiceAloneWaits DEF InvoiceWaits
    <2>3. CASE \E arg : /\ Call("create", arg)
                        /\ ui' = [ui EXCEPT !.submitting = TRUE, !.error = FALSE]
      <3>1. ui'.page = "new" /\ ui'.items = ui.items /\ ui'.submitting
        BY <2>1, <2>3 DEF NewUi
      <3>2. PICK k, c : Puts(k, c) /\ c # NoCall /\ c.op = "create" /\ k \notin underWay
        BY <1>2, <2>3
      <3>3. waits({"create"}, k, c, ui.submitting, ui'.submitting)
        BY <2>1, <3>1, <3>2 DEF waits, callsOf
      <3>4. QED
        BY <1>1, <2>1, <3>1, <3>2, <3>3, InvoiceCallWaits
    <2>4. QED
      BY <1>6, <2>2, <2>3, InvoiceCalls DEF invoiceScreen!handleSubmit
  <1>7. CASE invoiceScreen!Open
    <2>1. /\ db' = db /\ ui' = invoiceScreen!ShowInvoice
          /\ calls' = placed(NoCalls, Sent("invoice", None))
      BY <1>7, InvoiceCalls DEF invoiceScreen!Open
    <2>2. ui'.page = "show" /\ ~ui'.downloading
      BY <2>1 DEF invoiceScreen!ShowInvoice
    <2>3. callsOf({"download"})' = {}
      BY <2>1, OpenedWith, CallIsSome
    <2>4. Alone({"download"})'
      BY <2>3 DEF Alone
    <2>5. QED
      BY <1>1, <2>1, <2>2, <2>3, <2>4 DEF InvoiceWaits
  <1>8. CASE invoiceScreen!handlePdfDownload
    <2>1. ui \in ShowUi /\ ui.page = "show" /\ db' = db /\ ~ui.downloading /\ Call("download", None)
      BY <1>1, <1>8, InvoiceCalls
      DEF invoiceScreen!handlePdfDownload, invoiceScreen!invoiceShown
    <2>2. ui'.page = "show" /\ ui'.downloading
      BY <1>8, <2>1 DEF invoiceScreen!handlePdfDownload, ShowUi
    <2>3. PICK k, c : Puts(k, c) /\ c # NoCall /\ c.op = "download" /\ k \notin underWay
      BY <1>2, <2>1
    <2>4. waits({"download"}, k, c, ui.downloading, ui'.downloading)
      BY <2>1, <2>2, <2>3 DEF waits, callsOf
    <2>5. QED
      BY <1>1, <2>1, <2>2, <2>3, <2>4, InvoiceCallWaits
  <1>9. QED
    BY <1>3, <1>4, <1>5, <1>6, <1>7, <1>8 DEF invoiceScreen!Operator

LEMMA InvoiceReceivesWaits ==
    ASSUME InvoiceInv, InvoiceWaits, NEW i \in Slots, invoiceScreen!Receive(i)
    PROVE  InvoiceWaits'
  <1>1. Finish(i) /\ db' = db /\ i \in underWay
    BY InvoiceCalls
    DEF invoiceScreen!Receive, invoiceScreen!OptionsArrive, invoiceScreen!CreateAnswered,
        invoiceScreen!InvoiceArrives, invoiceScreen!DownloadEnds, invoiceScreen!Answered, answered
  <1>2. Puts(i, NoCall) /\ db'.made \in 0 .. MaxInvoices
    BY <1>1, InvoicePages, AnswerIsTaken DEF InvoiceWaits
  <1>3. /\ calls[i].op \in {"options", "create"} => ui \in NewUi
        /\ calls[i].op \in {"invoice", "download"} => ui \in ShowUi
        /\ InvoiceCallOK(calls[i])
    BY <1>1 DEF InvoiceInv
  <1>4. /\ \A op, busy : calls[i].op # op => waits({op}, i, NoCall, busy, busy)
        /\ \A op, busy, after : calls[i].op = op /\ ~after => waits({op}, i, NoCall, busy, after)
    BY <1>1 DEF waits, callsOf
  <1>5. CASE invoiceScreen!OptionsArrive(i)
    <2>1. ui \in NewUi /\ calls[i].op = "options"
      BY <1>3, <1>5 DEF invoiceScreen!OptionsArrive, invoiceScreen!Answered
    <2>2. /\ ui.page = "new" /\ ui'.page = ui.page /\ ui'.items = ui.items
          /\ ui'.submitting = ui.submitting
      BY <1>5, <2>1 DEF invoiceScreen!OptionsArrive, NewUi
    <2>3. QED
      BY <1>2, <1>4, <2>1, <2>2, InvoiceCallWaits
  <1>6. CASE invoiceScreen!CreateAnswered(i)
    <2>1. ui \in NewUi /\ calls[i].op = "create"
      BY <1>3, <1>6 DEF invoiceScreen!CreateAnswered, invoiceScreen!Answered
    <2>2. /\ ui.page = "new" /\ ui'.page = ui.page /\ ui'.items = ui.items /\ ~ui'.submitting
      BY <1>6, <2>1 DEF invoiceScreen!CreateAnswered, NewUi
    <2>3. QED
      BY <1>2, <1>4, <2>1, <2>2, InvoiceCallWaits
  <1>7. CASE invoiceScreen!InvoiceArrives(i)
    <2>1. ui \in ShowUi /\ calls[i].op = "invoice"
      BY <1>3, <1>7 DEF invoiceScreen!InvoiceArrives, invoiceScreen!Answered
    <2>2. ui.page = "show" /\ ui'.page = ui.page /\ ui'.downloading = ui.downloading
      BY <1>7, <2>1 DEF invoiceScreen!InvoiceArrives, ShowUi
    <2>3. QED
      BY <1>2, <1>4, <2>1, <2>2, InvoiceCallWaits
  <1>8. CASE invoiceScreen!DownloadEnds(i)
    <2>1. ui \in ShowUi /\ calls[i].op = "download"
      BY <1>3, <1>8 DEF invoiceScreen!DownloadEnds, invoiceScreen!Answered
    <2>2. ui.page = "show" /\ ui'.page = ui.page /\ ~ui'.downloading
      BY <1>8, <2>1 DEF invoiceScreen!DownloadEnds, ShowUi
    <2>3. QED
      BY <1>2, <1>4, <2>1, <2>2, InvoiceCallWaits
  <1>9. QED
    BY <1>5, <1>6, <1>7, <1>8 DEF invoiceScreen!Receive

LEMMA InvoiceWaitsNext ==
    ASSUME WebConstants, InvoiceBounds, InvoiceInv, InvoiceWaits, invoiceScreen!Next
    PROVE  InvoiceWaits'
  BY InvoiceOperatorWaits, InvoiceSomebodyElseWaits, InvoiceServedWaits, InvoiceReceivesWaits,
     InvoiceCalls DEF invoiceScreen!Next

LEMMA InvoiceWaitsInit ==
    ASSUME WebConstants, InvoiceBounds, invoiceScreen!Init
    PROVE  InvoiceWaits
  <1>1. /\ ui = invoiceScreen!NewInvoice /\ db.made = 0
        /\ calls = placed(NoCalls, Sent("options", None))
    BY InvoiceCalls DEF invoiceScreen!Init
  <1>2. ui.page = "new" /\ ui.items = 1 /\ ~ui.submitting
    BY <1>1 DEF invoiceScreen!NewInvoice
  <1>3. callsOf({"create"}) = {}
    BY <1>1, OpenedWith, CallIsSome
  <1>4. Alone({"create"})
    BY <1>3 DEF Alone
  <1>5. QED
    BY <1>1, <1>2, <1>3, <1>4 DEF InvoiceWaits, InvoiceBounds

LEMMA InvoiceHolds ==
    ASSUME InvoiceInv, InvoiceWaits
    PROVE  invoiceScreen!TypeOK /\ invoiceScreen!BusyWhileUnderWay
  <1>1. CASE ui \in NewUi
    <2>1. ui.page = "new" /\ ui \notin ShowUi
      BY <1>1 DEF NewUi, ShowUi
    <2>2. QED
      BY <1>1, <2>1, InvoiceCalls
      DEF InvoiceInv, InvoiceWaits, NewUi, Owner, invoiceScreen!TypeOK,
          invoiceScreen!BusyWhileUnderWay
  <1>2. CASE ui \in ShowUi
    <2>1. ui.page = "show" /\ ui \notin NewUi
      BY <1>2 DEF NewUi, ShowUi
    <2>2. QED
      BY <1>2, <2>1, InvoiceCalls
      DEF InvoiceInv, InvoiceWaits, ShowUi, Owner, invoiceScreen!TypeOK,
          invoiceScreen!BusyWhileUnderWay
  <1>3. QED
    BY <1>1, <1>2 DEF InvoiceInv

-----------------------------------------------------------------------------
(* The page of the vehicles *)

\* The calls of the page are those of WebCalls.
LEMMA VehiclesCalls ==
    /\ vehiclesPage!underWay = underWay /\ vehiclesPage!underWay' = underWay'
    /\ vehiclesPage!Slots = Slots
    /\ \A ops : /\ vehiclesPage!callsOf(ops) = callsOf(ops)
                /\ vehiclesPage!callsOf(ops)' = callsOf(ops)'
    /\ \A i, ops : vehiclesPage!returns(i, ops) <=> i \in callsOf(ops)
    /\ \A op, arg : vehiclesPage!Sent(op, arg) = Sent(op, arg)
    /\ \A op, arg : vehiclesPage!Call(op, arg) <=> Call(op, arg)
    /\ \A i : vehiclesPage!Finish(i) <=> Finish(i)
    /\ vehiclesPage!freeSlot = freeSlot
    /\ vehiclesPage!NoCalls = NoCalls
  <1> USE DEF vehiclesPage!NoCall, NoCall
  <1>1. vehiclesPage!Slots = Slots /\ vehiclesPage!underWay = underWay
    BY DEF vehiclesPage!underWay, vehiclesPage!Slots, underWay, Slots
  <1>2. vehiclesPage!underWay' = underWay'
    BY DEF vehiclesPage!underWay, vehiclesPage!Slots, underWay, Slots
  <1>3. \A ops : /\ vehiclesPage!callsOf(ops) = callsOf(ops)
                 /\ vehiclesPage!callsOf(ops)' = callsOf(ops)'
    BY <1>1, <1>2 DEF vehiclesPage!callsOf, callsOf
  <1>4. \A i, ops : vehiclesPage!returns(i, ops) <=> i \in callsOf(ops)
    BY <1>3 DEF vehiclesPage!returns
  <1>5. \A op, arg : vehiclesPage!Sent(op, arg) = Sent(op, arg)
    BY DEF vehiclesPage!Sent, Sent
  <1>6. \A op, arg : vehiclesPage!Call(op, arg) <=> Call(op, arg)
    BY <1>1, <1>5 DEF vehiclesPage!Call, Call, vehiclesPage!mayCall, mayCall,
                      vehiclesPage!placed, placed, vehiclesPage!firstFree, firstFree
  <1>7. \A i : vehiclesPage!Finish(i) <=> Finish(i)
    BY DEF vehiclesPage!Finish, Finish
  <1>8. vehiclesPage!freeSlot = freeSlot
    BY <1>1 DEF vehiclesPage!freeSlot, freeSlot, vehiclesPage!firstFree, firstFree
  <1>9. vehiclesPage!NoCalls = NoCalls
    BY <1>1 DEF vehiclesPage!NoCalls, NoCalls
  <1>10. QED
    BY <1>1, <1>2, <1>3, <1>4, <1>5, <1>6, <1>7, <1>8, <1>9

VehiclesUi ==
    [filter: Filters, vehicles: Filters \cup {None}, timer: BOOLEAN,
     loading: BOOLEAN, refreshing: BOOLEAN, error: BOOLEAN,
     newest: Slots \cup {None}, overtaken: BOOLEAN]

\* Once the timer has run out the load sent last asks for the filters shown; when
\* it has been answered, so does the list.
VehiclesSettle ==
    ~ui.timer =>
        IF ui.newest \in underWay
        THEN calls[ui.newest].arg = ui.filter
        ELSE ui.error \/ ui.overtaken \/ ui.vehicles = ui.filter

VehiclesInv ==
    /\ CallsOK /\ db = None /\ ui \in VehiclesUi
    /\ \A i \in underWay : calls[i].op = "load" /\ calls[i].arg \in Filters
    /\ ui.loading \/ ui.refreshing => ui.timer \/ underWay # {}
    /\ VehiclesSettle

LEMMA VehiclesNext ==
    ASSUME WebConstants, VehiclesInv, vehiclesPage!Next
    PROVE  VehiclesInv'
  <1> USE DEF VehiclesInv, VehiclesUi, VehiclesSettle
  <1>1. CASE vehiclesPage!Filter
    BY <1>1, CallsStay DEF vehiclesPage!Filter, CallsOK
  <1>2. ASSUME NEW u \in VehiclesUi, vehiclesPage!loadVehicles(u), u.filter = ui.filter
        PROVE  VehiclesInv'
    <2>1. /\ db' = db /\ ui' = [u EXCEPT !.error = FALSE, !.newest = freeSlot]
          /\ Call("load", u.filter)
      BY <1>2, VehiclesCalls DEF vehiclesPage!loadVehicles
    <2>2. PICK k \in Slots : k = freeSlot /\ Puts(k, Sent("load", u.filter))
      BY <2>1, CallIsPlaced
    <2>3. /\ underWay' = underWay \cup {k} /\ calls'[k] = Sent("load", u.filter)
          /\ \A i \in underWay : i # k => calls'[i] = calls[i]
      BY <2>2, CallsAfter, CallIsSome DEF Puts
    <2>4. ui' \in VehiclesUi
      BY <2>1, <2>2
    <2>5. \A i \in underWay' : calls'[i].op = "load" /\ calls'[i].arg \in Filters
      BY <2>3, CallIsSome
    <2>6. VehiclesSettle'
      BY <1>2, <2>1, <2>2, <2>3, CallIsSome
    <2>7. QED
      BY <2>1, <2>2, <2>3, <2>4, <2>5, <2>6 DEF Puts
  <1>3. ASSUME NEW i \in Slots, vehiclesPage!LoadArrives(i)
        PROVE  VehiclesInv'
    <2>1. i \in underWay /\ Puts(i, NoCall) /\ db' = db
      BY <1>3, AnswerIsTaken, VehiclesCalls DEF vehiclesPage!LoadArrives, callsOf
    <2>2. PICK ok \in BOOLEAN :
              ui' = [ui EXCEPT !.vehicles = IF ok THEN calls[i].arg ELSE @,
                               !.error = ~ok \/ @,
                               !.loading = FALSE, !.refreshing = FALSE,
                               !.newest = IF i = @ THEN None ELSE @,
                               !.overtaken = (i # ui.newest)]
      BY <1>3 DEF vehiclesPage!LoadArrives
    <2> DEFINE v == IF ok THEN calls[i].arg ELSE ui.vehicles
               e == ~ok \/ ui.error
               n == IF i = ui.newest THEN None ELSE ui.newest
               o == i # ui.newest
    <2>3. ui' = [ui EXCEPT !.vehicles = v, !.error = e, !.loading = FALSE,
                           !.refreshing = FALSE, !.newest = n, !.overtaken = o]
      BY <2>2, Zenon
    <2>4. /\ v \in Filters \cup {None} /\ n \in Slots \cup {None}
          /\ e \in BOOLEAN /\ o \in BOOLEAN
      BY <2>1
    <2>5. /\ underWay' = underWay \ {i} /\ underWay \subseteq Slots
          /\ \A j \in underWay' : calls'[j] = calls[j]
      BY <2>1, CallsAfter DEF Puts, underWay
    <2> HIDE DEF v, e, n, o
    <2>6. /\ ui' \in VehiclesUi
          /\ ui'.timer = ui.timer /\ ui'.filter = ui.filter /\ ui'.vehicles = v
          /\ ui'.error = e /\ ui'.newest = n /\ ui'.overtaken = o
          /\ ui'.loading = FALSE /\ ui'.refreshing = FALSE
      BY <2>3, <2>4
    <2>7. VehiclesSettle'
      <3>1. CASE i = ui.newest
        <4>1. /\ ui'.newest \notin underWay'
              /\ ok => ui'.vehicles = calls[i].arg
              /\ ~ok => ui'.error = TRUE
          BY <2>6, <3>1, NullIsNoSlot DEF v, e, n
        <4>2. QED
          BY <2>1, <2>6, <3>1, <4>1
      <3>2. CASE i # ui.newest
        BY <2>1, <2>5, <2>6, <3>2 DEF n, o
      <3>3. QED
        BY <3>1, <3>2
    <2>8. QED
      BY <2>1, <2>5, <2>6, <2>7 DEF Puts
  <1>4. CASE vehiclesPage!TimerFires \/ vehiclesPage!Refresh
    BY <1>2, <1>4 DEF vehiclesPage!TimerFires, vehiclesPage!Refresh
  <1>5. QED
    BY <1>1, <1>3, <1>4, VehiclesCalls DEF vehiclesPage!Next

LEMMA VehiclesInit ==
    ASSUME WebConstants, vehiclesPage!Init
    PROVE  VehiclesInv
  BY OpenedWithout, VehiclesCalls
  DEF vehiclesPage!Init, VehiclesInv, VehiclesUi, VehiclesSettle

LEMMA VehiclesHold ==
    ASSUME VehiclesInv
    PROVE  /\ vehiclesPage!TypeOK /\ vehiclesPage!BusyWhileUnderWay
           /\ vehiclesPage!ShowsWhatIsAsked
  BY VehiclesCalls DEF VehiclesInv, VehiclesUi, VehiclesSettle, vehiclesPage!TypeOK,
     vehiclesPage!BusyWhileUnderWay, vehiclesPage!ShowsWhatIsAsked

-----------------------------------------------------------------------------
(* The dashboard of the inspections *)

\* The calls of the page are those of WebCalls.
LEMMA InspectionsCalls ==
    /\ inspectionsPage!underWay = underWay /\ inspectionsPage!underWay' = underWay'
    /\ inspectionsPage!Slots = Slots
    /\ \A ops : /\ inspectionsPage!callsOf(ops) = callsOf(ops)
                /\ inspectionsPage!callsOf(ops)' = callsOf(ops)'
    /\ \A i, ops : inspectionsPage!returns(i, ops) <=> i \in callsOf(ops)
    /\ \A op, arg : inspectionsPage!Sent(op, arg) = Sent(op, arg)
    /\ \A op, arg : inspectionsPage!Call(op, arg) <=> Call(op, arg)
    /\ \A i : inspectionsPage!Finish(i) <=> Finish(i)
    /\ \A c : inspectionsPage!placed(inspectionsPage!NoCalls, c) = placed(NoCalls, c)
    /\ inspectionsPage!freeSlot = freeSlot
  <1> USE DEF inspectionsPage!NoCall, NoCall
  <1>1. inspectionsPage!Slots = Slots /\ inspectionsPage!underWay = underWay
    BY DEF inspectionsPage!underWay, inspectionsPage!Slots, underWay, Slots
  <1>2. inspectionsPage!underWay' = underWay'
    BY DEF inspectionsPage!underWay, inspectionsPage!Slots, underWay, Slots
  <1>3. \A ops : /\ inspectionsPage!callsOf(ops) = callsOf(ops)
                 /\ inspectionsPage!callsOf(ops)' = callsOf(ops)'
    BY <1>1, <1>2 DEF inspectionsPage!callsOf, callsOf
  <1>4. \A i, ops : inspectionsPage!returns(i, ops) <=> i \in callsOf(ops)
    BY <1>3 DEF inspectionsPage!returns
  <1>5. \A op, arg : inspectionsPage!Sent(op, arg) = Sent(op, arg)
    BY DEF inspectionsPage!Sent, Sent
  <1>6. \A op, arg : inspectionsPage!Call(op, arg) <=> Call(op, arg)
    BY <1>1, <1>5 DEF inspectionsPage!Call, Call, inspectionsPage!mayCall, mayCall,
                      inspectionsPage!placed, placed, inspectionsPage!firstFree, firstFree
  <1>7. \A i : inspectionsPage!Finish(i) <=> Finish(i)
    BY DEF inspectionsPage!Finish, Finish
  <1>8. \A c : inspectionsPage!placed(inspectionsPage!NoCalls, c) = placed(NoCalls, c)
    BY <1>1
    DEF inspectionsPage!placed, placed, inspectionsPage!firstFree, firstFree,
        inspectionsPage!NoCalls, NoCalls
  <1>9. inspectionsPage!freeSlot = freeSlot
    BY <1>1 DEF inspectionsPage!freeSlot, freeSlot, inspectionsPage!firstFree, firstFree
  <1>10. QED
    BY <1>1, <1>2, <1>3, <1>4, <1>5, <1>6, <1>7, <1>8, <1>9

InspectionsUi ==
    [query: inspectionsPage!Query,
     response: [query: inspectionsPage!Query \cup {None}, pages: inspectionsPage!Pages],
     loading: BOOLEAN, refreshing: BOOLEAN, downloadingId: Documents \cup {None},
     newest: Slots \cup {None}, overtaken: BOOLEAN, failed: BOOLEAN]

\* The load sent last asks for the query shown; when it has been answered, so does
\* the list.
InspectionsSettle ==
    IF ui.newest \in callsOf({"load"})
    THEN calls[ui.newest].arg = ui.query
    ELSE ui.failed \/ ui.overtaken \/ ui.response.query = ui.query

InspectionsInv ==
    /\ CallsOK /\ db = None /\ ui \in InspectionsUi
    /\ \A i \in underWay :
          \/ calls[i].op = "load" /\ calls[i].arg \in inspectionsPage!Query
          \/ calls[i].op = "download" /\ calls[i].arg \in Documents
    /\ ui.loading \/ ui.refreshing => callsOf({"load"}) # {}
    /\ ui.downloadingId # None =>
          \E i \in callsOf({"download"}) : calls[i].arg = ui.downloadingId
    /\ InspectionsSettle

\* A load is sent.
LEMMA InspectionsLoad ==
    ASSUME WebConstants, InspectionsInv, NEW u \in InspectionsUi, inspectionsPage!loadInspections(u),
           u.downloadingId = ui.downloadingId
    PROVE  InspectionsInv'
  <1> USE DEF InspectionsInv
  <1>1. /\ db' = db /\ ui' = [u EXCEPT !.newest = freeSlot] /\ Call("load", u.query)
    BY InspectionsCalls DEF inspectionsPage!loadInspections
  <1>2. PICK k \in Slots :
          /\ k = freeSlot /\ k \notin underWay /\ underWay' = underWay \cup {k}
          /\ CallsOK' /\ calls'[k].op = "load" /\ calls'[k].arg = u.query
          /\ \A i \in underWay : i # k /\ calls'[i] = calls[i]
          /\ \A ops : callsOf(ops)' = IF "load" \in ops THEN callsOf(ops) \cup {k} ELSE callsOf(ops)
    BY <1>1, CallSent
  <1>3. /\ ui' \in InspectionsUi /\ u.query \in inspectionsPage!Query
        /\ ui'.newest = k /\ ui'.query = u.query /\ ui'.downloadingId = ui.downloadingId
    BY <1>1, <1>2 DEF InspectionsUi
  <1>4. \A i \in underWay' :
          \/ calls'[i].op = "load" /\ calls'[i].arg \in inspectionsPage!Query
          \/ calls'[i].op = "download" /\ calls'[i].arg \in Documents
    BY <1>2, <1>3
  <1>5. callsOf({"load"})' = callsOf({"load"}) \cup {k} /\ callsOf({"download"})' = callsOf({"download"})
    BY <1>2
  <1>6. callsOf({"download"}) \subseteq underWay
    BY DEF callsOf
  <1>7. InspectionsSettle'
    BY <1>2, <1>3, <1>5 DEF InspectionsSettle
  <1>8. QED
    BY <1>1, <1>2, <1>3, <1>4, <1>5, <1>6, <1>7

\* What is asked for is loaded, unless it is what is asked for already.
LEMMA InspectionsAsked ==
    ASSUME WebConstants, InspectionsInv, NEW q \in inspectionsPage!Query, inspectionsPage!asks(q)
    PROVE  InspectionsInv'
  <1>1. CASE UNCHANGED <<db, ui, calls>>
    BY <1>1, CallsStay DEF InspectionsInv, InspectionsSettle, CallsOK
  <1>2. CASE inspectionsPage!loadInspections([ui EXCEPT !.query = q, !.loading = TRUE])
    <2> DEFINE u == [ui EXCEPT !.query = q, !.loading = TRUE]
    <2>1. u \in InspectionsUi /\ u.downloadingId = ui.downloadingId
      BY DEF InspectionsInv, InspectionsUi
    <2> HIDE DEF u
    <2>2. QED
      BY <1>2, <2>1, InspectionsLoad DEF u
  <1>3. QED
    BY <1>1, <1>2 DEF inspectionsPage!asks, inspectionsPage!web

LEMMA InspectionsArrive ==
    ASSUME WebConstants, InspectionsInv, NEW i \in Slots, inspectionsPage!LoadArrives(i)
    PROVE  InspectionsInv'
  <1> USE DEF InspectionsInv
  <1>1. i \in callsOf({"load"}) /\ i \in underWay /\ Finish(i) /\ db' = db
    BY InspectionsCalls DEF inspectionsPage!LoadArrives, callsOf
  <1>2. /\ CallsOK' /\ underWay' = underWay \ {i}
        /\ \A j \in underWay' : calls'[j] = calls[j]
        /\ \A ops : callsOf(ops)' = callsOf(ops) \ {i}
    BY <1>1, CallTaken
  <1>3. PICK ok \in BOOLEAN, pages \in inspectionsPage!Pages :
          ui' = [ui EXCEPT !.response = IF ok THEN [query |-> calls[i].arg, pages |-> pages]
                                        ELSE @,
                           !.loading = FALSE, !.refreshing = FALSE, !.failed = ~ok,
                           !.newest = IF i = @ THEN None ELSE @,
                           !.overtaken = (i # ui.newest)]
    BY DEF inspectionsPage!LoadArrives
  <1> DEFINE r == IF ok THEN [query |-> calls[i].arg, pages |-> pages] ELSE ui.response
             f == ~ok
             n == IF i = ui.newest THEN None ELSE ui.newest
             o == i # ui.newest
  <1>4. ui' = [ui EXCEPT !.response = r, !.loading = FALSE, !.refreshing = FALSE,
                         !.failed = f, !.newest = n, !.overtaken = o]
    BY <1>3, Zenon
  <1>5. calls[i].arg \in inspectionsPage!Query
    BY <1>1 DEF callsOf
  <1>6. /\ r \in [query: inspectionsPage!Query \cup {None}, pages: inspectionsPage!Pages]
        /\ n \in Slots \cup {None} /\ f \in BOOLEAN /\ o \in BOOLEAN
    BY <1>5 DEF InspectionsUi
  <1> HIDE DEF r, f, n, o
  <1>7. /\ ui' \in InspectionsUi /\ ui'.query = ui.query /\ ui'.response = r
        /\ ui'.loading = FALSE /\ ui'.refreshing = FALSE /\ ui'.downloadingId = ui.downloadingId
        /\ ui'.failed = f /\ ui'.newest = n /\ ui'.overtaken = o
    BY <1>4, <1>6 DEF InspectionsUi
  <1>8. /\ callsOf({"load"})' = callsOf({"load"}) \ {i}
        /\ callsOf({"download"})' = callsOf({"download"})
        /\ callsOf({"load"}) \subseteq underWay /\ callsOf({"download"}) \subseteq underWay
        /\ \A j \in callsOf({"download"}) : j # i
    BY <1>1, <1>2 DEF callsOf
  <1>9. InspectionsSettle'
    <2>1. CASE i = ui.newest
      <3>1. ui'.newest \notin callsOf({"load"})'
        BY <1>7, <1>8, <1>2, <2>1, NullIsNoSlot DEF n
      <3>2. ui.query = calls[i].arg
        BY <1>1, <2>1 DEF InspectionsSettle
      <3>3. ok => ui'.response.query = ui'.query
        BY <1>7, <3>2 DEF r
      <3>4. ~ok => ui'.failed = TRUE
        BY <1>7 DEF f
      <3>5. QED
        BY <3>1, <3>3, <3>4 DEF InspectionsSettle
    <2>2. CASE i # ui.newest
      BY <1>7, <1>8, <1>2, <2>2 DEF n, o, InspectionsSettle
    <2>3. QED
      BY <2>1, <2>2
  <1>10. QED
    BY <1>1, <1>2, <1>7, <1>8, <1>9

LEMMA InspectionsNext ==
    ASSUME WebConstants, PagesConstants, InspectionsInv, inspectionsPage!Next
    PROVE  InspectionsInv'
  <1> USE DEF InspectionsInv
  <1>1. /\ ui.query \in inspectionsPage!Query
        /\ \A f \in Filters : [filter |-> f, page |-> 1] \in inspectionsPage!Query
    BY DEF InspectionsUi, inspectionsPage!Query, inspectionsPage!Pages, PagesConstants
  <1>2. CASE inspectionsPage!Filter \/ inspectionsPage!resetFilters
    BY <1>1, <1>2, InspectionsAsked
    DEF inspectionsPage!Filter, inspectionsPage!resetFilters, PagesConstants
  <1>3. CASE inspectionsPage!refresh
    <2> DEFINE u == [ui EXCEPT !.refreshing = TRUE]
    <2>1. u \in InspectionsUi /\ u.downloadingId = ui.downloadingId
      BY DEF InspectionsUi
    <2> HIDE DEF u
    <2>2. QED
      BY <1>3, <2>1, InspectionsLoad DEF inspectionsPage!refresh, u
  <1>4. CASE inspectionsPage!Previous
    <2>1. [ui.query EXCEPT !.page = inspectionsPage!pageBefore(@)] \in inspectionsPage!Query
      BY <1>1 DEF inspectionsPage!Query, inspectionsPage!Pages, inspectionsPage!pageBefore,
                  PagesConstants
    <2>2. QED
      BY <1>4, <2>1, InspectionsAsked DEF inspectionsPage!Previous
  <1>5. CASE inspectionsPage!TurnPage
    <2>1. [ui.query EXCEPT !.page = @ + 1] \in inspectionsPage!Query
      BY <1>1, <1>5 DEF inspectionsPage!Query, inspectionsPage!Pages, inspectionsPage!TurnPage,
                        PagesConstants
    <2>2. QED
      BY <1>5, <2>1, InspectionsAsked DEF inspectionsPage!TurnPage
  <1>6. ASSUME NEW r \in Documents, inspectionsPage!handleDownload(r)
        PROVE  InspectionsInv'
    <2>1. db' = db /\ ui' = [ui EXCEPT !.downloadingId = r] /\ Call("download", r)
      BY <1>6, InspectionsCalls DEF inspectionsPage!handleDownload
    <2>2. PICK k \in Slots :
            /\ k \notin underWay /\ underWay' = underWay \cup {k}
            /\ CallsOK' /\ calls'[k].op = "download" /\ calls'[k].arg = r
            /\ \A i \in underWay : i # k /\ calls'[i] = calls[i]
            /\ callsOf({"load"})' = callsOf({"load"})
            /\ callsOf({"download"})' = callsOf({"download"}) \cup {k}
      BY <2>1, CallSent
    <2>3. /\ ui' \in InspectionsUi /\ ui'.downloadingId = r
          /\ ui'.query = ui.query /\ ui'.response = ui.response /\ ui'.newest = ui.newest
          /\ ui'.overtaken = ui.overtaken /\ ui'.failed = ui.failed
          /\ ui'.loading = ui.loading /\ ui'.refreshing = ui.refreshing
      BY <2>1 DEF InspectionsUi
    <2>4. callsOf({"load"}) \subseteq underWay
      BY DEF callsOf
    <2>5. InspectionsSettle'
      BY <2>2, <2>3, <2>4 DEF InspectionsSettle
    <2>6. QED
      BY <2>1, <2>2, <2>3, <2>5
  <1>7. ASSUME NEW i \in Slots, inspectionsPage!DownloadEnds(i)
        PROVE  InspectionsInv'
    <2>1. /\ i \in callsOf({"download"}) /\ i \in underWay /\ Finish(i)
          /\ db' = db /\ ui' = [ui EXCEPT !.downloadingId = None]
      BY <1>7, InspectionsCalls DEF inspectionsPage!DownloadEnds, callsOf
    <2>2. /\ CallsOK' /\ underWay' = underWay \ {i}
          /\ \A j \in underWay' : calls'[j] = calls[j]
          /\ callsOf({"load"})' = callsOf({"load"}) \ {i}
      BY <2>1, CallTaken
    <2>3. /\ ui' \in InspectionsUi /\ ui'.downloadingId = None
          /\ ui'.query = ui.query /\ ui'.response = ui.response /\ ui'.newest = ui.newest
          /\ ui'.overtaken = ui.overtaken /\ ui'.failed = ui.failed
          /\ ui'.loading = ui.loading /\ ui'.refreshing = ui.refreshing
      BY <2>1 DEF InspectionsUi
    <2>4. i \notin callsOf({"load"}) /\ callsOf({"load"}) \subseteq underWay
      BY <2>1 DEF callsOf
    <2>5. InspectionsSettle'
      BY <2>2, <2>3, <2>4 DEF InspectionsSettle
    <2>6. QED
      BY <2>1, <2>2, <2>3, <2>4, <2>5
  <1>8. QED
    BY <1>2, <1>3, <1>4, <1>5, <1>6, <1>7, InspectionsArrive, InspectionsCalls
    DEF inspectionsPage!Next

LEMMA InspectionsInit ==
    ASSUME WebConstants, PagesConstants, inspectionsPage!Init
    PROVE  InspectionsInv
  <1> DEFINE q == [filter |-> noFilter, page |-> 1]
  <1>1. /\ db = None /\ calls = placed(NoCalls, Sent("load", q))
        /\ ui = [query |-> q, response |-> [query |-> None, pages |-> 1],
                 loading |-> TRUE, refreshing |-> FALSE, downloadingId |-> None,
                 newest |-> 1, overtaken |-> FALSE, failed |-> FALSE]
    BY InspectionsCalls DEF inspectionsPage!Init, inspectionsPage!EMPTY_RESPONSE
  <1>2. q \in inspectionsPage!Query
    BY DEF inspectionsPage!Query, inspectionsPage!Pages, PagesConstants
  <1>3. /\ CallsOK /\ underWay = {1} /\ 1 \in Slots /\ calls[1].op = "load" /\ calls[1].arg = q
        /\ callsOf({"load"}) = {1}
    BY <1>1, OpenedWith, CallIsSome
  <1> HIDE DEF q
  <1>4. ui \in InspectionsUi
    BY <1>1, <1>2, <1>3 DEF InspectionsUi, inspectionsPage!Pages, PagesConstants
  <1>5. QED
    BY <1>1, <1>2, <1>3, <1>4 DEF InspectionsInv, InspectionsSettle

LEMMA InspectionsHold ==
    ASSUME InspectionsInv
    PROVE  /\ inspectionsPage!TypeOK /\ inspectionsPage!BusyWhileUnderWay
           /\ inspectionsPage!ShowsWhatIsAsked
  BY InspectionsCalls
  DEF InspectionsInv, InspectionsUi, InspectionsSettle, inspectionsPage!TypeOK,
     inspectionsPage!BusyWhileUnderWay, inspectionsPage!ShowsWhatIsAsked

-----------------------------------------------------------------------------
(* The page of the documents *)

\* The calls of the page are those of WebCalls.
LEMMA DocumentsCalls ==
    /\ documentsPage!underWay = underWay /\ documentsPage!underWay' = underWay'
    /\ documentsPage!Slots = Slots
    /\ \A ops : /\ documentsPage!callsOf(ops) = callsOf(ops)
                /\ documentsPage!callsOf(ops)' = callsOf(ops)'
    /\ \A i, ops : documentsPage!returns(i, ops) <=> i \in callsOf(ops)
    /\ \A op, arg : documentsPage!Sent(op, arg) = Sent(op, arg)
    /\ \A op, arg : documentsPage!Call(op, arg) <=> Call(op, arg)
    /\ \A i : documentsPage!Finish(i) <=> Finish(i)
    /\ \A c : documentsPage!placed(documentsPage!NoCalls, c) = placed(NoCalls, c)
  <1> USE DEF documentsPage!NoCall, NoCall
  <1>1. documentsPage!Slots = Slots /\ documentsPage!underWay = underWay
    BY DEF documentsPage!underWay, documentsPage!Slots, underWay, Slots
  <1>2. documentsPage!underWay' = underWay'
    BY DEF documentsPage!underWay, documentsPage!Slots, underWay, Slots
  <1>3. \A ops : /\ documentsPage!callsOf(ops) = callsOf(ops)
                 /\ documentsPage!callsOf(ops)' = callsOf(ops)'
    BY <1>1, <1>2 DEF documentsPage!callsOf, callsOf
  <1>4. \A i, ops : documentsPage!returns(i, ops) <=> i \in callsOf(ops)
    BY <1>3 DEF documentsPage!returns
  <1>5. \A op, arg : documentsPage!Sent(op, arg) = Sent(op, arg)
    BY DEF documentsPage!Sent, Sent
  <1>6. \A op, arg : documentsPage!Call(op, arg) <=> Call(op, arg)
    BY <1>1, <1>5 DEF documentsPage!Call, Call, documentsPage!mayCall, mayCall,
                      documentsPage!placed, placed, documentsPage!firstFree, firstFree
  <1>7. \A i : documentsPage!Finish(i) <=> Finish(i)
    BY DEF documentsPage!Finish, Finish
  <1>8. \A c : documentsPage!placed(documentsPage!NoCalls, c) = placed(NoCalls, c)
    BY <1>1
    DEF documentsPage!placed, placed, documentsPage!firstFree, firstFree, documentsPage!NoCalls,
        NoCalls
  <1>9. QED
    BY <1>1, <1>2, <1>3, <1>4, <1>5, <1>6, <1>7, <1>8

DocumentsUi ==
    [documents: SUBSET Documents, filtered: SUBSET Documents,
     loading: BOOLEAN, refreshing: BOOLEAN,
     downloadingId: Documents \cup {None}, deletingId: Documents \cup {None}]

DocumentsInv ==
    /\ CallsOK /\ db = None /\ ui \in DocumentsUi
    /\ \A i \in underWay : calls[i].op \in {"load", "download", "delete"}
    /\ ui.loading \/ ui.refreshing => callsTo("load") # {}
    /\ ui.deletingId # None => \E i \in callsTo("delete") : calls[i].arg = ui.deletingId
    /\ ui.downloadingId # None => \E i \in callsTo("download") : calls[i].arg = ui.downloadingId

\* The page sends a call: the slot that remembers an id names it, or what it named.
LEMMA DocumentsSend ==
    ASSUME DocumentsInv, NEW op \in {"load", "download", "delete"}, NEW arg, Call(op, arg),
           db' = db, ui' \in DocumentsUi, ui'.loading = ui.loading,
           ui'.refreshing => ui.refreshing \/ op = "load",
           ui'.deletingId = IF op = "delete" THEN arg ELSE ui.deletingId,
           ui'.downloadingId = IF op = "download" THEN arg ELSE ui.downloadingId
    PROVE  DocumentsInv'
  <1> USE DEF DocumentsInv
  <1>1. PICK k \in Slots :
             /\ k \notin underWay /\ underWay' = underWay \cup {k}
             /\ CallsOK' /\ calls'[k].op = op /\ calls'[k].arg = arg
             /\ \A i \in underWay : i # k /\ calls'[i] = calls[i]
             /\ callsTo(op)' = callsTo(op) \cup {k}
             /\ \A x : x # op => callsTo(x)' = callsTo(x)
    BY SentTo
  <1>2. callsTo("delete") \cup callsTo("download") \subseteq underWay
    BY DEF callsTo
  <1>3. ui'.deletingId # None => \E i \in callsTo("delete")' : calls'[i].arg = ui'.deletingId
    BY <1>1, <1>2
  <1>4. ui'.downloadingId # None =>
            \E i \in callsTo("download")' : calls'[i].arg = ui'.downloadingId
    BY <1>1, <1>2
  <1>5. QED
    BY <1>1, <1>3, <1>4

\* The page takes an answer, and what waited for it waits no more.
LEMMA DocumentsTake ==
    ASSUME DocumentsInv, NEW op \in {"load", "download", "delete"}, NEW i \in callsTo(op), Finish(i),
           db' = db, ui' \in DocumentsUi,
           ui'.loading = (ui.loading /\ op # "load"),
           ui'.refreshing = (ui.refreshing /\ op # "load"),
           ui'.deletingId = IF op = "delete" THEN None ELSE ui.deletingId,
           ui'.downloadingId = IF op = "download" THEN None ELSE ui.downloadingId
    PROVE  DocumentsInv'
  <1> USE DEF DocumentsInv
  <1>1. i \in underWay /\ calls[i].op = op
    BY DEF callsTo
  <1>2. /\ CallsOK' /\ underWay' = underWay \ {i}
        /\ \A j \in underWay' : calls'[j] = calls[j]
        /\ \A x : x # op => callsTo(x)' = callsTo(x) /\ i \notin callsTo(x)
    BY <1>1, TakenFrom
  <1>3. callsTo("delete") \cup callsTo("download") \subseteq underWay
    BY DEF callsTo
  <1>4. QED
    BY <1>2, <1>3

LEMMA DocumentsAnswered ==
    ASSUME DocumentsInv, NEW i \in Slots, documentsPage!Receive(i)
    PROVE  DocumentsInv'
  <1> USE DEF DocumentsInv
  <1>1. CASE documentsPage!LoadArrives(i)
    <2>1. /\ i \in callsTo("load") /\ Finish(i) /\ db' = db
          /\ \E found \in SUBSET Documents :
                ui' = [ui EXCEPT !.documents = found, !.loading = FALSE, !.refreshing = FALSE]
      <3>1. i \in callsOf({"load"}) /\ Finish(i) /\ db' = db
        BY <1>1, DocumentsCalls DEF documentsPage!LoadArrives
      <3>2. QED
        BY <1>1, <3>1, CallsTo DEF documentsPage!LoadArrives
    <2>2. /\ ui' \in DocumentsUi /\ ui'.loading = FALSE /\ ui'.refreshing = FALSE
          /\ ui'.deletingId = ui.deletingId /\ ui'.downloadingId = ui.downloadingId
      BY <2>1 DEF DocumentsUi
    <2>3. QED
      BY <2>1, <2>2, DocumentsTake
  <1>2. CASE documentsPage!DownloadEnds(i)
    <2>1. /\ i \in callsTo("download") /\ Finish(i) /\ db' = db
          /\ ui' = [ui EXCEPT !.downloadingId = None]
      BY <1>2, DocumentsCalls, CallsTo DEF documentsPage!DownloadEnds
    <2>2. /\ ui' \in DocumentsUi /\ ui'.loading = ui.loading /\ ui'.refreshing = ui.refreshing
          /\ ui'.deletingId = ui.deletingId /\ ui'.downloadingId = None
      BY <2>1 DEF DocumentsUi
    <2>3. ui.loading \in BOOLEAN /\ ui.refreshing \in BOOLEAN
      BY DEF DocumentsUi
    <2>4. QED
      BY <2>1, <2>2, <2>3, DocumentsTake
  <1>3. CASE documentsPage!DeleteEnds(i)
    <2>1. /\ i \in callsTo("delete") /\ Finish(i) /\ db' = db
          /\ \E gone \in {{}, {calls[i].arg}} :
                ui' = [ui EXCEPT !.deletingId = None, !.documents = @ \ gone]
      <3>1. i \in callsOf({"delete"}) /\ Finish(i) /\ db' = db
        BY <1>3, DocumentsCalls DEF documentsPage!DeleteEnds
      <3>2. QED
        BY <1>3, <3>1, CallsTo DEF documentsPage!DeleteEnds
    <2>2. PICK gone : ui' = [ui EXCEPT !.deletingId = None, !.documents = ui.documents \ gone]
      BY <2>1
    <2>3. /\ ui' \in DocumentsUi /\ ui'.loading = ui.loading /\ ui'.refreshing = ui.refreshing
          /\ ui'.deletingId = None /\ ui'.downloadingId = ui.downloadingId
      BY <2>2 DEF DocumentsUi
    <2>4. ui.loading \in BOOLEAN /\ ui.refreshing \in BOOLEAN
      BY DEF DocumentsUi
    <2>5. QED
      BY <2>1, <2>3, <2>4, DocumentsTake
  <1>4. QED
    BY <1>1, <1>2, <1>3 DEF documentsPage!Receive

LEMMA DocumentsNext ==
    ASSUME DocumentsInv, documentsPage!Next
    PROVE  DocumentsInv'
  <1> USE DEF DocumentsInv
  <1>1. CASE documentsPage!refresh
    <2>1. Call("load", None) /\ db' = db /\ ui' = [ui EXCEPT !.refreshing = TRUE]
      BY <1>1, DocumentsCalls DEF documentsPage!refresh
    <2>2. /\ ui' \in DocumentsUi /\ ui'.loading = ui.loading
          /\ ui'.deletingId = ui.deletingId /\ ui'.downloadingId = ui.downloadingId
      BY <2>1 DEF DocumentsUi
    <2>3. QED
      BY <2>1, <2>2, DocumentsSend
  <1>2. CASE documentsPage!Filter
    <2>1. PICK filtered \in SUBSET Documents :
              ui' = [ui EXCEPT !.filtered = filtered] /\ calls' = calls /\ db' = db
      BY <1>2 DEF documentsPage!Filter, documentsPage!Screen
    <2>2. /\ ui' \in DocumentsUi /\ ui'.loading = ui.loading /\ ui'.refreshing = ui.refreshing
          /\ ui'.deletingId = ui.deletingId /\ ui'.downloadingId = ui.downloadingId
      BY <2>1 DEF DocumentsUi
    <2>3. QED
      BY <2>1, <2>2, StayTo
  <1>3. ASSUME NEW d \in Documents, documentsPage!handleDownload(d)
        PROVE  DocumentsInv'
    <2>1. Call("download", d) /\ db' = db /\ ui' = [ui EXCEPT !.downloadingId = d]
      BY <1>3, DocumentsCalls DEF documentsPage!handleDownload
    <2>2. /\ ui' \in DocumentsUi /\ ui'.loading = ui.loading /\ ui'.refreshing = ui.refreshing
          /\ ui'.deletingId = ui.deletingId /\ ui'.downloadingId = d
      BY <2>1 DEF DocumentsUi
    <2>3. QED
      BY <2>1, <2>2, DocumentsSend
  <1>4. ASSUME NEW d \in Documents, documentsPage!handleDelete(d)
        PROVE  DocumentsInv'
    <2>1. Call("delete", d) /\ db' = db /\ ui' = [ui EXCEPT !.deletingId = d]
      BY <1>4, DocumentsCalls DEF documentsPage!handleDelete
    <2>2. /\ ui' \in DocumentsUi /\ ui'.loading = ui.loading /\ ui'.refreshing = ui.refreshing
          /\ ui'.deletingId = d /\ ui'.downloadingId = ui.downloadingId
      BY <2>1 DEF DocumentsUi
    <2>3. QED
      BY <2>1, <2>2, DocumentsSend
  <1>5. QED
    BY <1>1, <1>2, <1>3, <1>4, DocumentsAnswered, DocumentsCalls
    DEF documentsPage!Next, documentsPage!Operator

LEMMA DocumentsInit ==
    ASSUME WebConstants, documentsPage!Init
    PROVE  DocumentsInv
  <1>1. /\ db = None /\ calls = placed(NoCalls, Sent("load", None))
        /\ ui = [documents |-> {}, filtered |-> Documents, loading |-> TRUE,
                 refreshing |-> FALSE, downloadingId |-> None, deletingId |-> None]
    BY DocumentsCalls DEF documentsPage!Init
  <1>2. /\ CallsOK /\ underWay = {1} /\ calls[1].op = "load" /\ callsTo("load") = {1}
    BY <1>1, OpenedTo, CallIsSome
  <1>3. ui \in DocumentsUi
    BY <1>1 DEF DocumentsUi
  <1>4. QED
    BY <1>1, <1>2, <1>3 DEF DocumentsInv

LEMMA DocumentsHold ==
    ASSUME DocumentsInv
    PROVE  documentsPage!TypeOK /\ documentsPage!BusyWhileUnderWay
  BY DocumentsCalls, CallsTo DEF DocumentsInv, DocumentsUi, documentsPage!TypeOK,
     documentsPage!BusyWhileUnderWay

-----------------------------------------------------------------------------
(* The list of the invoices *)

\* The calls of the page are those of WebCalls.
LEMMA InvoicesCalls ==
    /\ invoicesPage!underWay = underWay /\ invoicesPage!underWay' = underWay'
    /\ invoicesPage!Slots = Slots
    /\ \A ops : /\ invoicesPage!callsOf(ops) = callsOf(ops)
                /\ invoicesPage!callsOf(ops)' = callsOf(ops)'
    /\ \A i, ops : invoicesPage!returns(i, ops) <=> i \in callsOf(ops)
    /\ \A op, arg : invoicesPage!Sent(op, arg) = Sent(op, arg)
    /\ \A op, arg : invoicesPage!Call(op, arg) <=> Call(op, arg)
    /\ \A i : invoicesPage!Finish(i) <=> Finish(i)
    /\ \A c : invoicesPage!placed(invoicesPage!NoCalls, c) = placed(NoCalls, c)
  <1> USE DEF invoicesPage!NoCall, NoCall
  <1>1. invoicesPage!Slots = Slots /\ invoicesPage!underWay = underWay
    BY DEF invoicesPage!underWay, invoicesPage!Slots, underWay, Slots
  <1>2. invoicesPage!underWay' = underWay'
    BY DEF invoicesPage!underWay, invoicesPage!Slots, underWay, Slots
  <1>3. \A ops : /\ invoicesPage!callsOf(ops) = callsOf(ops)
                 /\ invoicesPage!callsOf(ops)' = callsOf(ops)'
    BY <1>1, <1>2 DEF invoicesPage!callsOf, callsOf
  <1>4. \A i, ops : invoicesPage!returns(i, ops) <=> i \in callsOf(ops)
    BY <1>3 DEF invoicesPage!returns
  <1>5. \A op, arg : invoicesPage!Sent(op, arg) = Sent(op, arg)
    BY DEF invoicesPage!Sent, Sent
  <1>6. \A op, arg : invoicesPage!Call(op, arg) <=> Call(op, arg)
    BY <1>1, <1>5 DEF invoicesPage!Call, Call, invoicesPage!mayCall, mayCall,
                      invoicesPage!placed, placed, invoicesPage!firstFree, firstFree
  <1>7. \A i : invoicesPage!Finish(i) <=> Finish(i)
    BY DEF invoicesPage!Finish, Finish
  <1>8. \A c : invoicesPage!placed(invoicesPage!NoCalls, c) = placed(NoCalls, c)
    BY <1>1
    DEF invoicesPage!placed, placed, invoicesPage!firstFree, firstFree, invoicesPage!NoCalls,
        NoCalls
  <1>9. QED
    BY <1>1, <1>2, <1>3, <1>4, <1>5, <1>6, <1>7, <1>8

InvoicesUi ==
    [invoices: SUBSET Invoices, matching: SUBSET Invoices, loading: BOOLEAN,
     error: BOOLEAN, downloadingInvoiceId: Invoices \cup {None}]

InvoicesInv ==
    /\ CallsOK /\ db = None /\ ui \in InvoicesUi
    /\ \A i \in underWay : calls[i].op \in {"load", "download"}
    /\ ui.loading => callsTo("load") # {}
    /\ ui.downloadingInvoiceId # None =>
           \E i \in callsTo("download") : calls[i].arg = ui.downloadingInvoiceId

LEMMA InvoicesAnswered ==
    ASSUME InvoicesInv, NEW i \in Slots, invoicesPage!LoadArrives(i) \/ invoicesPage!DownloadEnds(i)
    PROVE  InvoicesInv'
  <1> USE DEF InvoicesInv
  <1>1. CASE invoicesPage!LoadArrives(i)
    <2>0. i \in callsOf({"load"}) /\ Finish(i) /\ db' = db
      BY <1>1, InvoicesCalls DEF invoicesPage!LoadArrives
    <2>1. i \in underWay /\ calls[i].op = "load" /\ Finish(i) /\ db' = db
      BY <2>0 DEF callsOf
    <2>2. /\ CallsOK' /\ underWay' = underWay \ {i}
          /\ \A j \in underWay' : calls'[j] = calls[j]
          /\ callsTo("download")' = callsTo("download") /\ i \notin callsTo("download")
      BY <2>1, TakenFrom
    <2>3. PICK found \in SUBSET Invoices, failed \in BOOLEAN :
              ui' = [ui EXCEPT !.invoices = found, !.error = failed, !.loading = FALSE]
      <3>1. CASE ui' = [ui EXCEPT !.error = TRUE, !.loading = FALSE]
        <4>1. ui' = [ui EXCEPT !.invoices = ui.invoices, !.error = TRUE, !.loading = FALSE]
              /\ ui.invoices \in SUBSET Invoices
          BY <3>1 DEF InvoicesUi
        <4>2. QED
          BY <4>1
      <3>2. QED
        BY <1>1, <3>1 DEF invoicesPage!LoadArrives
    <2>4. /\ ui' \in InvoicesUi /\ ui'.loading = FALSE
          /\ ui'.downloadingInvoiceId = ui.downloadingInvoiceId
      BY <2>3 DEF InvoicesUi
    <2>5. callsTo("download") \subseteq underWay
      BY DEF callsTo
    <2>6. QED
      BY <2>1, <2>2, <2>4, <2>5
  <1>2. CASE invoicesPage!DownloadEnds(i)
    <2>0. i \in callsOf({"download"}) /\ Finish(i) /\ db' = db
      BY <1>2, InvoicesCalls DEF invoicesPage!DownloadEnds
    <2>1. i \in underWay /\ calls[i].op = "download" /\ Finish(i) /\ db' = db
      BY <2>0 DEF callsOf
    <2>2. /\ CallsOK' /\ underWay' = underWay \ {i}
          /\ \A j \in underWay' : calls'[j] = calls[j]
          /\ callsTo("load")' = callsTo("load")
      BY <2>1, TakenFrom
    <2>3. PICK failed \in BOOLEAN :
              ui' = [ui EXCEPT !.downloadingInvoiceId = None, !.error = failed]
      <3>1. PICK ok \in BOOLEAN :
              ui' = [ui EXCEPT !.downloadingInvoiceId = None, !.error = ui.error \/ ~ok]
        BY <1>2 DEF invoicesPage!DownloadEnds
      <3>2. (ui.error \/ ~ok) \in BOOLEAN
        BY Zenon
      <3>3. QED
        BY <3>1, <3>2, Zenon
    <2>4. /\ ui' \in InvoicesUi /\ ui'.loading = ui.loading /\ ui'.downloadingInvoiceId = None
      BY <2>3 DEF InvoicesUi
    <2>5. QED
      BY <2>1, <2>2, <2>4
  <1>3. QED
    BY <1>1, <1>2

LEMMA InvoicesNext ==
    ASSUME InvoicesInv, invoicesPage!Next
    PROVE  InvoicesInv'
  <1> USE DEF InvoicesInv
  <1>1. CASE invoicesPage!Filter
    <2>1. PICK matching \in SUBSET Invoices :
              ui' = [ui EXCEPT !.matching = matching] /\ calls' = calls /\ db' = db
      BY <1>1 DEF invoicesPage!Filter
    <2>2. /\ ui' \in InvoicesUi /\ ui'.loading = ui.loading
          /\ ui'.downloadingInvoiceId = ui.downloadingInvoiceId
      BY <2>1 DEF InvoicesUi
    <2>3. QED
      BY <2>1, <2>2, StayTo
  <1>2. ASSUME NEW v \in Invoices, invoicesPage!handlePdfDownload(v)
        PROVE  InvoicesInv'
    <2>1. Call("download", v) /\ db' = db
          /\ ui' = [ui EXCEPT !.downloadingInvoiceId = v, !.error = FALSE]
      BY <1>2, InvoicesCalls DEF invoicesPage!handlePdfDownload
    <2>2. PICK k \in Slots :
             /\ k \notin underWay /\ underWay' = underWay \cup {k}
             /\ CallsOK' /\ calls'[k].op = "download" /\ calls'[k].arg = v
             /\ \A i \in underWay : i # k /\ calls'[i] = calls[i]
             /\ callsTo("download")' = callsTo("download") \cup {k}
             /\ callsTo("load")' = callsTo("load")
      BY <2>1, SentTo
    <2>3. /\ ui' \in InvoicesUi /\ ui'.loading = ui.loading /\ ui'.downloadingInvoiceId = v
      BY <2>1 DEF InvoicesUi
    <2>4. QED
      BY <2>1, <2>2, <2>3
  <1>3. QED
    BY <1>1, <1>2, InvoicesAnswered, InvoicesCalls DEF invoicesPage!Next

LEMMA InvoicesInit ==
    ASSUME WebConstants, invoicesPage!Init
    PROVE  InvoicesInv
  <1>1. /\ db = None /\ calls = placed(NoCalls, Sent("load", None))
        /\ ui = [invoices |-> {}, matching |-> Invoices, loading |-> TRUE, error |-> FALSE,
                 downloadingInvoiceId |-> None]
    BY InvoicesCalls DEF invoicesPage!Init
  <1>2. /\ CallsOK /\ underWay = {1} /\ calls[1].op = "load" /\ callsTo("load") = {1}
    BY <1>1, OpenedTo, CallIsSome
  <1>3. ui \in InvoicesUi
    BY <1>1 DEF InvoicesUi
  <1>4. QED
    BY <1>1, <1>2, <1>3 DEF InvoicesInv

LEMMA InvoicesHold ==
    ASSUME InvoicesInv
    PROVE  invoicesPage!TypeOK /\ invoicesPage!BusyWhileUnderWay
  BY InvoicesCalls, CallsTo DEF InvoicesInv, InvoicesUi, invoicesPage!TypeOK,
     invoicesPage!BusyWhileUnderWay

-----------------------------------------------------------------------------
(* The page that edits a shipment *)

\* The calls of the page are those of WebCalls.
LEMMA EditorCalls ==
    /\ shipmentEdit!underWay = underWay /\ shipmentEdit!underWay' = underWay'
    /\ shipmentEdit!Slots = Slots
    /\ \A ops : /\ shipmentEdit!callsOf(ops) = callsOf(ops)
                /\ shipmentEdit!callsOf(ops)' = callsOf(ops)'
    /\ \A op, arg : shipmentEdit!Sent(op, arg) = Sent(op, arg)
    /\ \A op, arg : shipmentEdit!Call(op, arg) <=> Call(op, arg)
    /\ \A i : shipmentEdit!Finish(i) <=> Finish(i)
    /\ \A c : shipmentEdit!placed(shipmentEdit!NoCalls, c) = placed(NoCalls, c)
    /\ \A i : shipmentEdit!answered(i) <=> answered(i)
    /\ \A i : shipmentEdit!waiting(i) <=> waiting(i)
    /\ \A i, data : shipmentEdit!Reply(i, data) <=> Succeed(i, data) \/ Fail(i)
    /\ \A i : shipmentEdit!Fail(i) <=> Fail(i)
  <1> USE DEF shipmentEdit!NoCall, NoCall
  <1>1. shipmentEdit!Slots = Slots /\ shipmentEdit!underWay = underWay
    BY DEF shipmentEdit!underWay, shipmentEdit!Slots, underWay, Slots
  <1>2. shipmentEdit!underWay' = underWay'
    BY DEF shipmentEdit!underWay, shipmentEdit!Slots, underWay, Slots
  <1>3. \A ops : /\ shipmentEdit!callsOf(ops) = callsOf(ops)
                 /\ shipmentEdit!callsOf(ops)' = callsOf(ops)'
    BY <1>1, <1>2 DEF shipmentEdit!callsOf, callsOf
  <1>4. \A op, arg : shipmentEdit!Sent(op, arg) = Sent(op, arg)
    BY DEF shipmentEdit!Sent, Sent
  <1>5. \A op, arg : shipmentEdit!Call(op, arg) <=> Call(op, arg)
    BY <1>1, <1>4 DEF shipmentEdit!Call, Call, shipmentEdit!mayCall, mayCall,
                      shipmentEdit!placed, placed, shipmentEdit!firstFree, firstFree
  <1>6. \A i : shipmentEdit!Finish(i) <=> Finish(i)
    BY DEF shipmentEdit!Finish, Finish
  <1>7. \A c : shipmentEdit!placed(shipmentEdit!NoCalls, c) = placed(NoCalls, c)
    BY <1>1
    DEF shipmentEdit!placed, placed, shipmentEdit!firstFree, firstFree, shipmentEdit!NoCalls,
        NoCalls
  <1>8. \A i : shipmentEdit!answered(i) <=> answered(i)
    BY <1>1 DEF shipmentEdit!answered, answered
  <1>9. \A i : shipmentEdit!waiting(i) <=> waiting(i)
    BY <1>1 DEF shipmentEdit!waiting, waiting
  <1>10. \A i, data : shipmentEdit!Reply(i, data) <=> Succeed(i, data) \/ Fail(i)
    BY DEF shipmentEdit!Reply, shipmentEdit!Succeed, Succeed, shipmentEdit!Fail, Fail,
       shipmentEdit!Answer, Answer
  <1>11. \A i : shipmentEdit!Fail(i) <=> Fail(i)
    BY DEF shipmentEdit!Fail, Fail, shipmentEdit!Answer, Answer
  <1>12. QED
    BY <1>1, <1>2, <1>3, <1>4, <1>5, <1>6, <1>7, <1>8, <1>9, <1>10, <1>11

EditorUi ==
    [form: shipmentEdit!Form, loaded: BOOLEAN, isLoading: BOOLEAN, isSaving: BOOLEAN,
     error: BOOLEAN, success: BOOLEAN]

\* What a call carries: a save the row it stores, an answered load the row it read.
EditorCarries(c) ==
    /\ c.op \in {"load", "save"}
    /\ c.op = "save" => c.arg \in shipmentEdit!Row
    /\ c.step = "answered" => c.ok \in BOOLEAN
    /\ c.op = "load" /\ c.step = "answered" /\ c.ok => c.data \in shipmentEdit!Row

EditorInv ==
    /\ CallsOK /\ db \in shipmentEdit!Row /\ ui \in EditorUi
    /\ \A i \in underWay : EditorCarries(calls[i])
    /\ Alone({"load"}) /\ (ui.isLoading <=> callsOf({"load"}) # {})
    /\ Alone({"save"}) /\ (ui.isSaving <=> callsOf({"save"}) # {})

\* A step that puts a call into a slot, or takes one out.
LEMMA EditorCall ==
    ASSUME EditorInv, NEW k, NEW c, Puts(k, c), db' \in shipmentEdit!Row, ui' \in EditorUi,
           c # NoCall => EditorCarries(c),
           waits({"load"}, k, c, ui.isLoading, ui'.isLoading),
           waits({"save"}, k, c, ui.isSaving, ui'.isSaving)
    PROVE  EditorInv'
  <1>1. /\ (ui'.isLoading <=> callsOf({"load"})' # {}) /\ Alone({"load"})'
        /\ (ui'.isSaving <=> callsOf({"save"})' # {}) /\ Alone({"save"})'
    BY OneAtATime DEF EditorInv
  <1>2. \A i \in underWay' : (calls'[i] = c /\ c # NoCall) \/ (i \in underWay /\ calls'[i] = calls[i])
    BY CallsAfter DEF Puts, underWay
  <1>3. \A i \in underWay' : EditorCarries(calls'[i])
    BY <1>2 DEF EditorInv
  <1>4. CallsOK'
    BY DEF Puts
  <1>5. QED
    BY <1>1, <1>3, <1>4 DEF EditorInv, EditorCarries

\* A step that leaves the calls alone.
LEMMA EditorStays ==
    ASSUME EditorInv, calls' = calls, db' \in shipmentEdit!Row, ui' \in EditorUi,
           ui'.isLoading = ui.isLoading, ui'.isSaving = ui.isSaving
    PROVE  EditorInv'
  <1>1. underWay' = underWay /\ \A ops : callsOf(ops)' = callsOf(ops)
    BY CallsStay
  <1>2. CallsOK' /\ Alone({"load"})' /\ Alone({"save"})'
    BY <1>1 DEF EditorInv, CallsOK, Alone
  <1>3. QED
    BY <1>1, <1>2 DEF EditorInv, EditorCarries

\* The API answers, having stored the row or not.
LEMMA EditorServed ==
    ASSUME EditorInv, NEW i \in Slots, shipmentEdit!ServeSave(i) \/ shipmentEdit!ServeLoad(i)
    PROVE  EditorInv'
  <1>1. /\ i \in underWay /\ calls[i].op \in {"load", "save"} /\ EditorCarries(calls[i])
        /\ ui' = ui /\ i \in Slots /\ ui \in EditorUi
    BY EditorCalls DEF shipmentEdit!ServeSave, shipmentEdit!ServeLoad, waiting, EditorInv
  <1>2. PICK ok \in BOOLEAN : \E data :
             /\ Puts(i, Answer(calls[i], ok, data))
             /\ calls[i].op = "load" /\ ok => data \in shipmentEdit!Row
    BY EditorCalls, AnswerIsTaken DEF shipmentEdit!ServeSave, shipmentEdit!ServeLoad, EditorInv
  <1>3. PICK data : /\ Puts(i, Answer(calls[i], ok, data))
                    /\ calls[i].op = "load" /\ ok => data \in shipmentEdit!Row
    BY <1>2
  <1>4. db' \in shipmentEdit!Row
    <2>1. CASE db' = db
      BY <2>1 DEF EditorInv
    <2>2. CASE db' = shipmentEdit!prepareData(db, calls[i].arg) /\ calls[i].op = "save"
      BY <1>1, <2>2 DEF EditorInv, EditorCarries, shipmentEdit!prepareData, shipmentEdit!Row
    <2>3. QED
      BY <2>1, <2>2 DEF shipmentEdit!ServeSave, shipmentEdit!ServeLoad
  <1>5. /\ Answer(calls[i], ok, data) # NoCall /\ EditorCarries(Answer(calls[i], ok, data))
        /\ Answer(calls[i], ok, data).op = calls[i].op
    BY <1>1, <1>3, CallIsSome DEF EditorCarries
  <1>6. \A op : i \in callsOf({op}) <=> calls[i].op = op
    BY <1>1 DEF callsOf
  <1>7. /\ waits({"load"}, i, Answer(calls[i], ok, data), ui.isLoading, ui.isLoading)
        /\ waits({"save"}, i, Answer(calls[i], ok, data), ui.isSaving, ui.isSaving)
    BY <1>5, <1>6 DEF waits
  <1>8. QED
    BY <1>1, <1>3, <1>4, <1>5, <1>7, EditorCall

\* Somebody else dispatches the shipment or notes its arrival.
LEMMA EditorSomebodyElse ==
    ASSUME EditorInv, shipmentEdit!SomebodyElse
    PROVE  EditorInv'
  <1>1. db \in shipmentEdit!Row /\ ui \in EditorUi
    BY DEF EditorInv
  <1>2. PICK m \in shipmentEdit!Moment : \/ db' = [db EXCEPT !.actualDeparture = m]
                                         \/ db' = [db EXCEPT !.actualArrival = m]
    BY DEF shipmentEdit!SomebodyElse, shipmentEdit!Dispatch, shipmentEdit!Arrive
  <1>3. db' \in shipmentEdit!Row
    BY <1>1, <1>2 DEF shipmentEdit!Row
  <1>4. QED
    BY <1>1, <1>3, EditorStays DEF shipmentEdit!SomebodyElse

LEMMA EditorOperator ==
    ASSUME EditorInv,
           \/ shipmentEdit!handleInputChange \/ shipmentEdit!handleActiveChange
           \/ shipmentEdit!handleSubmit
    PROVE  EditorInv'
  <1>1. db \in shipmentEdit!Row /\ ui \in EditorUi /\ ui.form \in shipmentEdit!Form
    BY DEF EditorInv, EditorUi
  <1>2. CASE shipmentEdit!handleInputChange \/ shipmentEdit!handleActiveChange
    <2>1. PICK form \in shipmentEdit!Form : ui' = [ui EXCEPT !.form = form]
      <3>1. CASE shipmentEdit!handleActiveChange
        <4>1. [ui.form EXCEPT !.isActive = ~ui.form.isActive] \in shipmentEdit!Form
          BY <1>1 DEF shipmentEdit!Form
        <4>2. QED
          BY <3>1, <4>1 DEF shipmentEdit!handleActiveChange
      <3>2. CASE shipmentEdit!handleInputChange
        <4>1. ASSUME NEW f \in shipmentEdit!Dates, NEW d \in Days \cup {None}
              PROVE  [ui.form EXCEPT ![f] = d] \in shipmentEdit!Form
          BY <1>1, <4>1 DEF shipmentEdit!Form, shipmentEdit!Dates
        <4>2. ASSUME NEW text \in Texts \cup {None}
              PROVE  [ui.form EXCEPT !.notes = text] \in shipmentEdit!Form
          BY <1>1, <4>2 DEF shipmentEdit!Form
        <4>3. QED
          BY <3>2, <4>1, <4>2 DEF shipmentEdit!handleInputChange
      <3>3. QED
        BY <1>2, <3>1, <3>2
    <2>2. ui' \in EditorUi /\ ui'.isLoading = ui.isLoading /\ ui'.isSaving = ui.isSaving
      BY <1>1, <2>1 DEF EditorUi
    <2>3. db' = db /\ calls' = calls
      BY <1>2 DEF shipmentEdit!handleInputChange, shipmentEdit!handleActiveChange
    <2>4. QED
      BY <1>1, <2>2, <2>3, EditorStays
  <1>3. CASE shipmentEdit!handleSubmit
    <2>1. db' = db /\ ~ui.isSaving
      BY <1>3 DEF shipmentEdit!handleSubmit
    <2>2. CASE ui' = [ui EXCEPT !.error = TRUE, !.success = FALSE] /\ UNCHANGED calls
      <3>1. ui' \in EditorUi /\ ui'.isLoading = ui.isLoading /\ ui'.isSaving = ui.isSaving
        BY <1>1, <2>2 DEF EditorUi
      <3>2. QED
        BY <1>1, <2>1, <2>2, <3>1, EditorStays
    <2>3. CASE /\ Call("save", [ui.form EXCEPT
                                  !.actualDeparture = shipmentEdit!nullableDate(ui.form.actualDeparture),
                                  !.actualArrival = shipmentEdit!nullableDate(ui.form.actualArrival)])
               /\ ui' = [ui EXCEPT !.isSaving = TRUE, !.error = FALSE, !.success = FALSE]
      <3>1. PICK row \in shipmentEdit!Row : Call("save", row)
        <4>1. \A d \in Days \cup {None} :
                  shipmentEdit!nullableDate(d) \in shipmentEdit!Moment \cup {None}
          BY DEF shipmentEdit!nullableDate, shipmentEdit!Moment
        <4>2. [ui.form EXCEPT
                 !.actualDeparture = shipmentEdit!nullableDate(ui.form.actualDeparture),
                 !.actualArrival = shipmentEdit!nullableDate(ui.form.actualArrival)]
              \in shipmentEdit!Row
          BY <1>1, <4>1 DEF shipmentEdit!Form, shipmentEdit!Row
        <4>3. QED
          BY <2>3, <4>2
      <3>2. ui' \in EditorUi /\ ui'.isLoading = ui.isLoading /\ ui'.isSaving
        BY <1>1, <2>3 DEF EditorUi
      <3>3. PICK k \in Slots : calls[k] = NoCall /\ Puts(k, Sent("save", row))
        BY <3>1, CallIsPlaced DEF EditorInv
      <3>4. /\ k \notin callsOf({"save"}) /\ k \notin callsOf({"load"})
            /\ Sent("save", row) # NoCall /\ Sent("save", row).op = "save"
            /\ Sent("save", row).arg = row /\ Sent("save", row).step = "sent"
        BY <3>3, CallIsSome DEF callsOf, underWay
      <3>5. EditorCarries(Sent("save", row))
        BY <3>4 DEF EditorCarries
      <3>6. /\ waits({"load"}, k, Sent("save", row), ui.isLoading, ui'.isLoading)
            /\ waits({"save"}, k, Sent("save", row), ui.isSaving, ui'.isSaving)
        BY <2>1, <3>2, <3>4 DEF waits
      <3>7. QED
        BY <1>1, <2>1, <3>2, <3>3, <3>5, <3>6, EditorCall
    <2>4. QED
      BY <1>3, <2>2, <2>3, EditorCalls DEF shipmentEdit!handleSubmit
  <1>4. QED
    BY <1>2, <1>3

LEMMA EditorReceives ==
    ASSUME EditorInv, NEW i \in Slots, shipmentEdit!LoadArrives(i) \/ shipmentEdit!SaveAnswered(i)
    PROVE  EditorInv'
  <1>1. /\ db \in shipmentEdit!Row /\ ui \in EditorUi /\ db' = db
        /\ i \in underWay /\ calls[i].step = "answered" /\ EditorCarries(calls[i]) /\ Finish(i)
    BY EditorCalls
    DEF shipmentEdit!LoadArrives, shipmentEdit!SaveAnswered, answered, EditorInv
  <1>2. Puts(i, NoCall) /\ \A op : i \in callsOf({op}) <=> calls[i].op = op
    BY <1>1, AnswerIsTaken DEF callsOf, EditorInv
  <1>3. CASE shipmentEdit!LoadArrives(i)
    <2>1. calls[i].op = "load"
      BY <1>3 DEF shipmentEdit!LoadArrives
    <2>2. ui' \in EditorUi /\ ~ui'.isLoading /\ ui'.isSaving = ui.isSaving
      <3>1. CASE calls[i].ok
        <4>1. \A m \in shipmentEdit!Moment \cup {None} :
                  shipmentEdit!toDateInput(m) \in Days \cup {None}
          BY DEF shipmentEdit!toDateInput, shipmentEdit!Moment
        <4>2. calls[i].data \in shipmentEdit!Row
          BY <1>1, <2>1, <3>1 DEF EditorCarries
        <4>3. PICK form : /\ form = [actualDeparture |-> shipmentEdit!toDateInput(calls[i].data.actualDeparture),
                                     actualArrival |-> shipmentEdit!toDateInput(calls[i].data.actualArrival),
                                     notes |-> calls[i].data.notes,
                                     isActive |-> calls[i].data.isActive]
                          /\ ui' = [ui EXCEPT !.form = form, !.loaded = TRUE, !.isLoading = FALSE]
          BY <1>3, <3>1 DEF shipmentEdit!LoadArrives
        <4>4. form \in shipmentEdit!Form
          BY <4>1, <4>2, <4>3 DEF shipmentEdit!Row, shipmentEdit!Form
        <4> HIDE DEF shipmentEdit!Form
        <4>5. QED
          BY <1>1, <4>3, <4>4 DEF EditorUi
      <3>2. CASE ~calls[i].ok
        <4>1. ui' = [ui EXCEPT !.error = TRUE, !.isLoading = FALSE]
          BY <1>3, <3>2 DEF shipmentEdit!LoadArrives
        <4>2. QED
          BY <1>1, <4>1 DEF EditorUi
      <3>3. QED
        BY <3>1, <3>2
    <2>3. waits({"load"}, i, NoCall, ui.isLoading, ui'.isLoading)
      BY <1>2, <2>1, <2>2 DEF waits
    <2>4. waits({"save"}, i, NoCall, ui.isSaving, ui'.isSaving)
      BY <1>2, <2>1, <2>2 DEF waits
    <2>5. QED
      BY <1>1, <1>2, <2>2, <2>3, <2>4, EditorCall
  <1>4. CASE shipmentEdit!SaveAnswered(i)
    <2>1. calls[i].op = "save"
      BY <1>4 DEF shipmentEdit!SaveAnswered
    <2>2. ui' \in EditorUi /\ ~ui'.isSaving /\ ui'.isLoading = ui.isLoading
      <3>1. calls[i].ok \in BOOLEAN
        BY <1>1 DEF EditorCarries
      <3>2. PICK ok \in BOOLEAN :
                ui' = [ui EXCEPT !.isSaving = FALSE, !.success = ok, !.error = ~ok]
        BY <1>4, <3>1 DEF shipmentEdit!SaveAnswered
      <3>3. QED
        BY <1>1, <3>2 DEF EditorUi
    <2>3. waits({"load"}, i, NoCall, ui.isLoading, ui'.isLoading)
      BY <1>2, <2>1, <2>2 DEF waits
    <2>4. waits({"save"}, i, NoCall, ui.isSaving, ui'.isSaving)
      BY <1>2, <2>1, <2>2 DEF waits
    <2>5. QED
      BY <1>1, <1>2, <2>2, <2>3, <2>4, EditorCall
  <1>5. QED
    BY <1>3, <1>4

LEMMA EditorNext ==
    ASSUME EditorInv, shipmentEdit!Next
    PROVE  EditorInv'
  BY EditorServed, EditorSomebodyElse, EditorOperator, EditorReceives, EditorCalls
  DEF shipmentEdit!Next

LEMMA EditorInit ==
    ASSUME WebConstants, shipmentEdit!Init
    PROVE  EditorInv
  <1>1. /\ db \in shipmentEdit!Row /\ calls = placed(NoCalls, Sent("load", None))
        /\ ui = [form |-> shipmentEdit!initialForm, loaded |-> FALSE, isLoading |-> TRUE,
                 isSaving |-> FALSE, error |-> FALSE, success |-> FALSE]
    BY EditorCalls DEF shipmentEdit!Init, shipmentEdit!Row
  <1>2. /\ CallsOK /\ underWay = {1} /\ calls[1].op = "load" /\ calls[1].step = "sent"
        /\ \A ops : callsOf(ops) = IF "load" \in ops THEN {1} ELSE {}
    BY <1>1, OpenedWith, CallIsSome
  <1>3. ui \in EditorUi
    BY <1>1 DEF EditorUi, shipmentEdit!initialForm, shipmentEdit!Form
  <1>4. QED
    BY <1>1, <1>2, <1>3 DEF EditorInv, EditorCarries, Alone

LEMMA EditorHold ==
    ASSUME EditorInv
    PROVE  shipmentEdit!TypeOK /\ shipmentEdit!BusyWhileUnderWay
  BY EditorCalls DEF EditorInv, EditorUi, EditorCarries, shipmentEdit!TypeOK,
     shipmentEdit!BusyWhileUnderWay

-----------------------------------------------------------------------------
(* The page of one shipment: what is under way, and what it shows *)

\* The place of a status on the way; a cancelled shipment has left it.
place(s) ==
    CASE s = "DRAFT" -> 1 [] s = "QUOTED" -> 2 [] s = "BOOKED" -> 3
      [] s = "RECEIVED" -> 4 [] s = "LOADED" -> 5 [] s = "IN_TRANSIT" -> 6
      [] s = "ARRIVED" -> 7 [] s = "CUSTOMS_CLEARANCE" -> 8
      [] s = "READY_FOR_DELIVERY" -> 9 [] s = "DELIVERED" -> 10
      [] OTHER -> 0

LEMMA PlacesOnWay ==
    /\ DOMAIN shipmentScreen!shipmentWay = 1 .. 10
    /\ \A k \in 1 .. 10 : place(shipmentScreen!shipmentWay[k]) = k
    /\ \A s : place(s) \in 0 .. 10
    /\ \A s : place(s) # 0 => shipmentScreen!shipmentWay[place(s)] = s
  BY DEF place, shipmentScreen!shipmentWay

\* What lies ahead of a status is what has a later place.
LEMMA AheadIsLater ==
    ASSUME NEW s, NEW x
    PROVE  x \in shipmentScreen!statusesAfter(s) <=> place(s) # 0 /\ place(x) > place(s)
  <1>1. x \in shipmentScreen!statusesAfter(s) <=>
            \E k \in 1 .. 10 : \E j \in 1 .. (k - 1) :
                x = shipmentScreen!shipmentWay[k] /\ s = shipmentScreen!shipmentWay[j]
    BY PlacesOnWay DEF shipmentScreen!statusesAfter
  <1>2. ASSUME NEW k \in 1 .. 10, NEW j \in 1 .. (k - 1),
               x = shipmentScreen!shipmentWay[k], s = shipmentScreen!shipmentWay[j]
        PROVE  place(s) # 0 /\ place(x) > place(s)
    BY <1>2, PlacesOnWay
  <1>3. ASSUME place(s) # 0, place(x) > place(s)
        PROVE  \E k \in 1 .. 10 : \E j \in 1 .. (k - 1) :
                   x = shipmentScreen!shipmentWay[k] /\ s = shipmentScreen!shipmentWay[j]
    <2>1. /\ place(x) \in 1 .. 10 /\ place(s) \in 1 .. (place(x) - 1)
          /\ x = shipmentScreen!shipmentWay[place(x)] /\ s = shipmentScreen!shipmentWay[place(s)]
      BY <1>3, PlacesOnWay
    <2>2. QED
      BY <2>1
  <1>4. QED
    BY <1>1, <1>2, <1>3

\* A transition cancels the shipment or takes it one place further.
LEMMA TransitionsGoOn ==
    ASSUME NEW s, NEW t, shipmentScreen!isShipmentTransitionAllowed(s, t)
    PROVE  s # "CANCELLED" /\ (t = "CANCELLED" \/ (place(s) # 0 /\ place(t) = place(s) + 1))
  BY DEF shipmentScreen!isShipmentTransitionAllowed,
         shipmentScreen!SHIPMENT_WORKFLOW_TRANSITIONS, place

\* Where a shipment may be once it has reached status d.
reached(s, d) == s \in shipmentScreen!statusesAfter(d) \cup {d, "CANCELLED"}

LEMMA ReachedStays ==
    ASSUME NEW s, NEW t, NEW d, reached(s, d), shipmentScreen!isShipmentTransitionAllowed(s, t)
    PROVE  reached(t, d)
  <1>1. s # "CANCELLED" /\ (t = "CANCELLED" \/ (place(s) # 0 /\ place(t) = place(s) + 1))
    BY TransitionsGoOn
  <1>2. s = d \/ (place(d) # 0 /\ place(s) > place(d))
    BY <1>1, AheadIsLater DEF reached
  <1>3. CASE t = "CANCELLED"
    BY <1>3 DEF reached
  <1>4. CASE t # "CANCELLED"
    <2>1. place(d) # 0 /\ place(t) > place(d)
      BY <1>1, <1>2, <1>4, PlacesOnWay
    <2>2. QED
      BY <2>1, AheadIsLater DEF reached
  <1>5. QED
    BY <1>3, <1>4

\* A disabled panel waits for a call of its own, a spinner for a load.
ScreenBusy ==
    /\ ui.orphans \subseteq callsOf(Panels)
    /\ \A p \in ui.submitting : \E i \in callsOf({p}) : i \notin ui.orphans
    /\ ui.loadingReadiness \/ ui.isRefreshing => callsOf({"readiness"}) # {}

\* The shipment is never before what the operator was told; the load sent last was
\* sent after that, and so is what it finds.
ScreenTruth ==
    /\ ui.done # None => reached(db.status, ui.done)
    /\ \A i \in callsOf(Panels) :
           calls[i].step = "answered" /\ calls[i].ok => reached(db.status, calls[i].arg.to)
    /\ ui.newest \in callsOf({"readiness"}) \cup {None}
    /\ \A i \in callsOf({"readiness"}) :
           i = ui.newest /\ calls[i].step = "answered" /\ calls[i].ok /\ ui.done # None =>
               reached(calls[i].data.status, ui.done)
    /\ ui.newest = None /\ ~ui.failed /\ ~ui.overtaken /\ ui.done # None =>
           reached(ui.readiness.status, ui.done)

ScreenShows == ScreenInv /\ ScreenBusy /\ ScreenTruth

\* Reloaded or just opened, the page knows nothing yet.
LEMMA ScreenShowsBlank ==
    /\ WebConstants /\ ui = shipmentScreen!Blank /\ calls = placed(NoCalls, Sent("shipment", None))
          => ScreenBusy /\ ScreenTruth
    /\ WebConstants /\ ui' = shipmentScreen!Blank /\ calls' = placed(NoCalls, Sent("shipment", None))
          => ScreenBusy' /\ ScreenTruth'
  <1>1. Sent("shipment", None) # NoCall /\ Sent("shipment", None).op = "shipment"
    BY CallIsSome
  <1>2. "shipment" \notin Panels
    BY DEF Panels, shipmentScreen!Panels
  <1>3. ASSUME WebConstants, ui = shipmentScreen!Blank, calls = placed(NoCalls, Sent("shipment", None))
        PROVE  ScreenBusy /\ ScreenTruth
    <2>1. callsOf(Panels) = {} /\ callsOf({"readiness"}) = {}
      BY <1>1, <1>2, <1>3, OpenedWith
    <2>2. QED
      BY <1>3, <2>1 DEF ScreenBusy, ScreenTruth, shipmentScreen!Blank
  <1>4. ASSUME WebConstants, ui' = shipmentScreen!Blank,
               calls' = placed(NoCalls, Sent("shipment", None))
        PROVE  ScreenBusy' /\ ScreenTruth'
    <2>1. callsOf(Panels)' = {} /\ callsOf({"readiness"})' = {}
      BY <1>1, <1>2, <1>4, OpenedWith
    <2>2. QED
      BY <1>4, <2>1
      DEF ScreenBusy, ScreenTruth, shipmentScreen!Blank, Panels, shipmentScreen!Panels
  <1>5. QED
    BY <1>3, <1>4

\* The shipment moves on, and the page learns nothing of it.
LEMMA ScreenShowsMove ==
    ASSUME ScreenShows, ui' = ui, calls' = calls,
           \/ db'.status = db.status
           \/ shipmentScreen!isShipmentTransitionAllowed(db.status, db'.status)
    PROVE  ScreenBusy' /\ ScreenTruth'
  <1>1. \A d : reached(db.status, d) => reached(db'.status, d)
    BY ReachedStays
  <1>2. underWay' = underWay /\ \A ops : callsOf(ops)' = callsOf(ops)
    BY CallsStay
  <1>3. ScreenBusy'
    BY <1>2 DEF ScreenShows, ScreenBusy, Panels
  <1>4. ScreenTruth'
    BY <1>1, <1>2 DEF ScreenShows, ScreenTruth, Panels
  <1>5. QED
    BY <1>3, <1>4

LEMMA ScreenShowsServed ==
    ASSUME ScreenShows, NEW i \in Slots, shipmentScreen!Serve(i)
    PROVE  ScreenBusy' /\ ScreenTruth'
  <1> USE DEF ScreenShows
  <1>1. /\ i \in underWay /\ calls[i].step = "sent" /\ ui' = ui /\ CallsOK
    BY ScreenCalls DEF ScreenInv, shipmentScreen!Serve, shipmentScreen!ServeTransition,
       shipmentScreen!ServeLoad, waiting
  <1>2. ASSUME NEW ok, NEW data,
               \/ ok = TRUE /\ Succeed(i, data)
               \/ ok = FALSE /\ data = None /\ Fail(i),
               \A d : reached(db.status, d) => reached(db'.status, d),
               ok /\ calls[i].op \in Panels => reached(db'.status, calls[i].arg.to),
               ok /\ calls[i].op = "readiness" => data = db
        PROVE  ScreenBusy' /\ ScreenTruth'
    <2>1. /\ calls'[i].op = calls[i].op /\ calls'[i].arg = calls[i].arg
          /\ calls'[i].ok = ok /\ calls'[i].data = data
          /\ \A j \in underWay : j # i => calls'[j] = calls[j]
          /\ \A ops : callsOf(ops)' = callsOf(ops)
      BY <1>1, <1>2, CallServed
    <2>2. \A ops : callsOf(ops) \subseteq underWay
      BY DEF callsOf
    <2>3. ScreenBusy'
      BY <1>1, <2>1 DEF ScreenBusy, Panels
    <2>4. \A j \in callsOf(Panels)' :
              calls'[j].step = "answered" /\ calls'[j].ok => reached(db'.status, calls'[j].arg.to)
      BY <1>2, <2>1, <2>2 DEF ScreenTruth, callsOf, Panels
    <2>5. \A j \in callsOf({"readiness"})' :
              j = ui'.newest /\ calls'[j].step = "answered" /\ calls'[j].ok /\ ui'.done # None =>
                  reached(calls'[j].data.status, ui'.done)
      <3>1. ASSUME NEW j \in callsOf({"readiness"})',
                   j = ui'.newest, calls'[j].step = "answered", calls'[j].ok, ui'.done # None
            PROVE  reached(calls'[j].data.status, ui'.done)
        <4>1. j \in callsOf({"readiness"}) /\ j \in underWay /\ calls[j].op = "readiness"
          BY <2>1, <2>2 DEF callsOf
        <4>2. CASE j = i
          <5>1. calls'[j].data = db /\ reached(db.status, ui.done)
            BY <1>1, <1>2, <2>1, <3>1, <4>1, <4>2 DEF ScreenTruth
          <5>2. QED
            BY <1>1, <5>1
        <4>3. CASE j # i
          BY <1>1, <2>1, <3>1, <4>1, <4>3 DEF ScreenTruth
        <4>4. QED
          BY <4>2, <4>3
      <3>2. QED
        BY <3>1
    <2>6. ScreenTruth'
      BY <1>1, <1>2, <2>1, <2>4, <2>5 DEF ScreenTruth, Panels
    <2>7. QED
      BY <2>3, <2>6
  <1>3. CASE shipmentScreen!ServeTransition(i)
    <2>1. calls[i].op \in Panels /\ calls[i].op # "readiness"
      BY <1>3 DEF shipmentScreen!ServeTransition, Panels, shipmentScreen!Panels
    <2>2. CASE /\ shipmentScreen!accepts(calls[i].arg.to)
               /\ db' = [db EXCEPT !.status = calls[i].arg.to] /\ (Succeed(i, None) \/ Fail(i))
      <3>1. db \in shipmentScreen!Found
        BY ScreenTyped
      <3>2. /\ db'.status = calls[i].arg.to
            /\ shipmentScreen!isShipmentTransitionAllowed(db.status, db'.status)
        BY <2>2, <3>1 DEF shipmentScreen!accepts, shipmentScreen!Found
      <3>3. \A d : reached(db.status, d) => reached(db'.status, d)
        BY <3>2, ReachedStays
      <3>4. reached(db'.status, calls[i].arg.to)
        BY <3>2 DEF reached
      <3>5. QED
        BY <1>2, <2>1, <2>2, <3>3, <3>4
    <2>3. CASE Fail(i) /\ db' = db
      BY <1>2, <2>3
    <2>4. QED
      BY <1>3, <2>2, <2>3, ScreenCalls DEF shipmentScreen!ServeTransition
  <1>4. CASE shipmentScreen!ServeLoad(i)
    <2>1. /\ calls[i].op \in {"shipment", "readiness"} /\ db' = db
          /\ Succeed(i, db) \/ Fail(i)
      BY <1>4, ScreenCalls DEF shipmentScreen!ServeLoad
    <2>2. calls[i].op \notin Panels
      BY <2>1 DEF Panels, shipmentScreen!Panels
    <2>3. QED
      BY <1>2, <2>1, <2>2
  <1>5. QED
    BY <1>3, <1>4 DEF shipmentScreen!Serve

\* What the page sends.
LEMMA ScreenShowsSent ==
    ASSUME WebConstants, ScreenShows, NEW op, NEW arg, Call(op, arg), db' = db,
           ui'.orphans = ui.orphans, ui'.done = ui.done, ui'.overtaken = ui.overtaken,
           ui'.readiness = ui.readiness,
           \/ /\ op = "readiness" /\ ui'.newest = freeSlot
              /\ ui'.submitting = ui.submitting
           \/ /\ op \in Panels /\ ui'.submitting = ui.submitting \cup {op}
              /\ ui'.newest = ui.newest /\ ui'.failed = ui.failed
              /\ ui'.loadingReadiness = ui.loadingReadiness /\ ui'.isRefreshing = ui.isRefreshing
    PROVE  ScreenBusy' /\ ScreenTruth'
  <1> USE DEF ScreenShows
  <1>1. PICK k \in Slots :
          /\ k = freeSlot /\ k \notin underWay
          /\ calls'[k].step = "sent"
          /\ \A i \in underWay : i # k /\ calls'[i] = calls[i]
          /\ \A ops : callsOf(ops)' = IF op \in ops THEN callsOf(ops) \cup {k} ELSE callsOf(ops)
    BY CallSent DEF ScreenInv
  <1>2. \A ops : callsOf(ops) \subseteq underWay
    BY DEF callsOf
  <1>3. "readiness" \notin Panels
    BY DEF Panels, shipmentScreen!Panels
  <1>4. ui.orphans \subseteq underWay
    BY <1>2 DEF ScreenBusy
  <1>5. CASE op = "readiness" /\ ui'.newest = freeSlot /\ ui'.submitting = ui.submitting
    <2>1. /\ callsOf(Panels)' = callsOf(Panels) /\ k \notin callsOf(Panels)
          /\ callsOf({"readiness"})' = callsOf({"readiness"}) \cup {k}
      BY <1>1, <1>2, <1>3, <1>5 DEF Panels
    <2>2. \A p : callsOf({p}) \subseteq callsOf({p})'
      BY <1>1
    <2>3. ScreenBusy'
      BY <1>5, <2>1, <2>2 DEF ScreenBusy
    <2>4. ui'.newest = k /\ k # None
      BY <1>1, <1>5, NullIsNoSlot
    <2>5. ScreenTruth'
      BY <1>1, <1>2, <1>5, <2>1, <2>4 DEF ScreenTruth
    <2>6. QED
      BY <2>3, <2>5
  <1>6. CASE op \in Panels /\ ui'.submitting = ui.submitting \cup {op}
             /\ ui'.newest = ui.newest /\ ui'.failed = ui.failed
             /\ ui'.loadingReadiness = ui.loadingReadiness /\ ui'.isRefreshing = ui.isRefreshing
    <2>1. /\ callsOf(Panels)' = callsOf(Panels) \cup {k}
          /\ callsOf({"readiness"})' = callsOf({"readiness"})
      BY <1>1, <1>3, <1>6 DEF Panels
    <2>2. /\ \A p : callsOf({p}) \subseteq callsOf({p})'
          /\ k \in callsOf({op})' /\ k \notin ui.orphans
      BY <1>1, <1>4
    <2>3. ScreenBusy'
      BY <1>6, <2>1, <2>2 DEF ScreenBusy
    <2>4. ScreenTruth'
      BY <1>1, <1>2, <1>6, <2>1 DEF ScreenTruth
    <2>5. QED
      BY <2>3, <2>4
  <1>7. QED
    BY <1>5, <1>6

\* An answer that is taken changes no other call.
LEMMA ScreenShowsReceived ==
    ASSUME WebConstants, ScreenShows, NEW i \in Slots, shipmentScreen!Receive(i)
    PROVE  ScreenBusy' /\ ScreenTruth'
  <1> USE DEF ScreenShows
  <1>1. /\ i \in underWay /\ calls[i].step = "answered" /\ CallsOK /\ db' = db /\ ui \in ScreenUi
        /\ ScreenCallOK(calls[i])
    BY ScreenCalls, ScreenTyped
    DEF ScreenInv, shipmentScreen!Receive, shipmentScreen!ShipmentArrives,
        shipmentScreen!ReadinessArrives, shipmentScreen!PanelAnswered, answered
  <1>2. \A ops : callsOf(ops) \subseteq underWay
    BY DEF callsOf
  <1>3. "readiness" \notin Panels /\ "shipment" \notin Panels
    BY DEF Panels, shipmentScreen!Panels
  <1>4. Finish(i) => /\ \A j \in underWay' : calls'[j] = calls[j]
                     /\ underWay' = underWay \ {i}
                     /\ \A ops : callsOf(ops)' = callsOf(ops) \ {i}
    BY <1>1, CallTaken
  <1>5. Continue(i, "readiness", None) =>
            /\ \A j \in underWay : j # i => calls'[j] = calls[j]
            /\ calls'[i].step = "sent"
            /\ callsOf({"readiness"})' = callsOf({"readiness"}) \cup {i}
            /\ callsOf(Panels)' = callsOf(Panels) \ {i}
            /\ \A p \in Panels : callsOf({p})' = callsOf({p}) \ {i}
    BY <1>1, <1>3, CallGoesOn DEF Panels
  <1>6. i # None /\ None \notin underWay
    BY NullIsNoSlot
  <1>7. ui.submitting \subseteq Panels
    BY <1>1 DEF ScreenUi
  <1>8. CASE shipmentScreen!ShipmentArrives(i)
    <2>1. calls[i].op = "shipment" /\ i \notin callsOf(Panels) /\ i \notin callsOf({"readiness"})
          /\ \A p \in Panels : i \notin callsOf({p})
      BY <1>3, <1>8 DEF shipmentScreen!ShipmentArrives, callsOf
    <2>2. CASE calls[i].ok
      <3>1. /\ Continue(i, "readiness", None)
            /\ ui' = [ui EXCEPT !.shipment = calls[i].data.status, !.isLoading = FALSE,
                                !.loadingReadiness = TRUE, !.newest = i]
        BY <1>8, <2>2, ScreenCalls DEF shipmentScreen!ShipmentArrives
      <3>2. /\ ui'.orphans = ui.orphans /\ ui'.submitting = ui.submitting /\ ui'.done = ui.done
            /\ ui'.newest = i
        BY <1>1, <3>1 DEF ScreenUi
      <3>3. ScreenBusy'
        BY <1>5, <1>7, <2>1, <3>1, <3>2 DEF ScreenBusy
      <3>4. ScreenTruth'
        BY <1>1, <1>2, <1>5, <1>6, <2>1, <3>1, <3>2 DEF ScreenTruth
      <3>5. QED
        BY <3>3, <3>4
    <2>3. CASE ~calls[i].ok
      <3>1. Finish(i) /\ ui' = [ui EXCEPT !.isLoading = FALSE]
        BY <1>8, <2>3, ScreenCalls DEF shipmentScreen!ShipmentArrives
      <3>2. /\ ui'.orphans = ui.orphans /\ ui'.submitting = ui.submitting /\ ui'.done = ui.done
            /\ ui'.newest = ui.newest /\ ui'.loadingReadiness = ui.loadingReadiness
            /\ ui'.isRefreshing = ui.isRefreshing /\ ui'.failed = ui.failed
            /\ ui'.overtaken = ui.overtaken /\ ui'.readiness = ui.readiness
        BY <1>1, <3>1 DEF ScreenUi
      <3>3. /\ callsOf(Panels)' = callsOf(Panels) /\ callsOf({"readiness"})' = callsOf({"readiness"})
            /\ \A p \in Panels : callsOf({p})' = callsOf({p})
            /\ \A j \in callsOf(Panels) \cup callsOf({"readiness"}) : calls'[j] = calls[j]
        BY <1>2, <1>4, <2>1, <3>1 DEF Panels
      <3>4. ScreenBusy'
        BY <1>7, <3>2, <3>3 DEF ScreenBusy
      <3>5. ScreenTruth'
        BY <1>1, <3>2, <3>3 DEF ScreenTruth
      <3>6. QED
        BY <3>4, <3>5
    <2>4. QED
      BY <2>2, <2>3
  <1>9. CASE shipmentScreen!ReadinessArrives(i)
    <2>1. /\ i \in callsOf({"readiness"}) /\ i \notin callsOf(Panels)
          /\ \A p \in Panels : i \notin callsOf({p})
      BY <1>1, <1>3, <1>9 DEF shipmentScreen!ReadinessArrives, callsOf
    <2> DEFINE n == IF i = ui.newest THEN None ELSE ui.newest
               o == i # ui.newest
               u == [ui EXCEPT !.loadingReadiness = FALSE, !.isRefreshing = FALSE,
                               !.newest = n, !.overtaken = o]
    <2>2. /\ Finish(i)
          /\ ui' = IF calls[i].ok
                   THEN [u EXCEPT !.readiness = calls[i].data]
                   ELSE [u EXCEPT !.failed = TRUE, !.submitting = {}, !.orphans = callsOf(Panels)]
      BY <1>9, ScreenCalls DEF shipmentScreen!ReadinessArrives, Panels
    <2>3. o \in BOOLEAN /\ n \in Slots \cup {None}
      BY <1>1 DEF ScreenUi
    <2> HIDE DEF n, o
    <2>4. /\ u.loadingReadiness = FALSE /\ u.isRefreshing = FALSE /\ u.newest = n /\ u.overtaken = o
          /\ u.done = ui.done /\ u.failed = ui.failed /\ u.readiness = ui.readiness
          /\ u.submitting = ui.submitting /\ u.orphans = ui.orphans /\ u \in ScreenUi
      BY <1>1, <2>3 DEF ScreenUi
    <2> HIDE DEF u
    <2>5. /\ ui'.loadingReadiness = FALSE /\ ui'.isRefreshing = FALSE /\ ui'.newest = n
          /\ ui'.overtaken = o /\ ui'.done = ui.done
          /\ calls[i].ok => /\ ui'.readiness = calls[i].data /\ ui'.submitting = ui.submitting
                            /\ ui'.orphans = ui.orphans
          /\ ~calls[i].ok => /\ ui'.failed = TRUE /\ ui'.submitting = {}
                             /\ ui'.orphans = callsOf(Panels)
      BY <2>2, <2>4 DEF ScreenUi
    <2>6. /\ callsOf(Panels)' = callsOf(Panels)
          /\ callsOf({"readiness"})' = callsOf({"readiness"}) \ {i}
          /\ \A p \in Panels : callsOf({p})' = callsOf({p})
          /\ \A j \in callsOf(Panels) \cup callsOf({"readiness"}) : j # i => calls'[j] = calls[j]
      BY <1>2, <1>4, <2>1, <2>2 DEF Panels
    <2>7. ScreenBusy'
      BY <1>7, <2>5, <2>6 DEF ScreenBusy
    <2>8. ScreenTruth'
      <3>1. \A j \in callsOf(Panels)' :
              calls'[j].step = "answered" /\ calls'[j].ok => reached(db'.status, calls'[j].arg.to)
        BY <1>1, <2>1, <2>6 DEF ScreenTruth
      <3>2. CASE i = ui.newest
        <4>1. n = None
          BY <3>2 DEF n
        <4>2. calls[i].ok /\ ui.done # None => reached(calls[i].data.status, ui.done)
          BY <1>1, <2>1, <3>2 DEF ScreenTruth
        <4>3. QED
          BY <1>1, <1>2, <1>6, <2>5, <2>6, <3>1, <4>1, <4>2 DEF ScreenTruth
      <3>3. CASE i # ui.newest
        <4>1. n = ui.newest /\ o = TRUE
          BY <3>3 DEF n, o
        <4>2. QED
          BY <1>1, <2>5, <2>6, <3>1, <3>3, <4>1 DEF ScreenTruth
      <3>4. QED
        BY <3>2, <3>3
    <2>9. QED
      BY <2>7, <2>8
  <1>10. CASE shipmentScreen!PanelAnswered(i)
    <2> DEFINE p == calls[i].op
               left == IF i \in ui.orphans THEN ui.submitting ELSE ui.submitting \ {p}
               u == [ui EXCEPT !.submitting = left, !.orphans = @ \ {i}]
    <2>1. p \in Panels /\ i \in callsOf(Panels) /\ i \notin callsOf({"readiness"})
      BY <1>1, <1>3, <1>10 DEF shipmentScreen!PanelAnswered, callsOf, Panels
    <2>2. left \subseteq ui.submitting
      OBVIOUS
    <2>3. \A q \in left : \E j \in callsOf({q}) : j # i /\ j \notin ui.orphans
      <3>1. SUFFICES ASSUME NEW q \in left
                     PROVE  \E j \in callsOf({q}) : j # i /\ j \notin ui.orphans
        OBVIOUS
      <3>2. PICK j \in callsOf({q}) : j \notin ui.orphans
        BY DEF ScreenBusy
      <3>3. CASE i \in ui.orphans
        BY <3>2, <3>3
      <3>4. CASE i \notin ui.orphans
        BY <3>2, <3>4 DEF callsOf
      <3>5. QED
        BY <3>3, <3>4
    <2>4. CASE calls[i].ok
      <3> DEFINE r == ui.reloading \/ p \in {"dispatch", "arrival"}
      <3>1. /\ Continue(i, "readiness", None)
            /\ ui' = shipmentScreen!refreshStarts(
                         [u EXCEPT !.done = calls[i].arg.to, !.reloading = r], i)
        BY <1>10, <2>4, ScreenCalls DEF shipmentScreen!PanelAnswered
      <3> HIDE DEF r, left
      <3>2. /\ ui'.submitting = left /\ ui'.orphans = ui.orphans \ {i}
            /\ ui'.done = calls[i].arg.to /\ ui'.newest = i
        BY <1>1, <3>1 DEF shipmentScreen!refreshStarts, ScreenUi
      <3>3. ScreenBusy'
        BY <1>5, <1>7, <2>2, <2>3, <3>1, <3>2 DEF ScreenBusy
      <3>4. reached(db.status, calls[i].arg.to)
        BY <1>1, <2>1, <2>4 DEF ScreenTruth
      <3>5. ScreenTruth'
        BY <1>1, <1>2, <1>5, <1>6, <3>1, <3>2, <3>4 DEF ScreenTruth
      <3>6. QED
        BY <3>3, <3>5
    <2>5. CASE ~calls[i].ok
      <3>1. Finish(i) /\ ui' = u
        BY <1>10, <2>5, ScreenCalls DEF shipmentScreen!PanelAnswered
      <3> HIDE DEF left
      <3>2. /\ ui'.submitting = left /\ ui'.orphans = ui.orphans \ {i} /\ ui'.done = ui.done
            /\ ui'.newest = ui.newest /\ ui'.loadingReadiness = ui.loadingReadiness
            /\ ui'.isRefreshing = ui.isRefreshing /\ ui'.failed = ui.failed
            /\ ui'.overtaken = ui.overtaken /\ ui'.readiness = ui.readiness
        BY <1>1, <3>1 DEF ScreenUi
      <3>3. /\ callsOf(Panels)' = callsOf(Panels) \ {i}
            /\ callsOf({"readiness"})' = callsOf({"readiness"})
            /\ \A q \in Panels : callsOf({q})' = callsOf({q}) \ {i}
            /\ \A j \in callsOf(Panels) \cup callsOf({"readiness"}) : j # i => calls'[j] = calls[j]
        BY <1>2, <1>4, <2>1, <3>1 DEF Panels
      <3>4. ScreenBusy'
        BY <1>7, <2>2, <2>3, <3>2, <3>3 DEF ScreenBusy
      <3>5. ScreenTruth'
        BY <1>1, <2>1, <3>2, <3>3 DEF ScreenTruth
      <3>6. QED
        BY <3>4, <3>5
    <2>6. QED
      BY <2>4, <2>5
  <1>11. QED
    BY <1>8, <1>9, <1>10 DEF shipmentScreen!Receive

LEMMA ScreenShowsNext ==
    ASSUME WebConstants, ScreenShows, shipmentScreen!Next
    PROVE  ScreenShows'
  <1> USE DEF ScreenShows
  <1>1. ScreenInv'
    BY ScreenNext
  <1>2. ui \in ScreenUi /\ db \in shipmentScreen!Found
    BY ScreenTyped
  <1>3. CASE shipmentScreen!SomebodyElse
    <2>1. \/ db'.status = db.status
          \/ shipmentScreen!isShipmentTransitionAllowed(db.status, db'.status)
      BY <1>2, <1>3 DEF shipmentScreen!SomebodyElse, shipmentScreen!accepts, shipmentScreen!Found
    <2>2. QED
      BY <1>1, <1>3, <2>1, ScreenShowsMove DEF shipmentScreen!SomebodyElse
  <1>4. CASE shipmentScreen!Reload
    BY <1>1, <1>4, ScreenShowsBlank, ScreenCalls DEF shipmentScreen!Reload
  <1>5. CASE shipmentScreen!Refresh
    <2>1. /\ Call("readiness", None) /\ db' = db
          /\ ui' = [ui EXCEPT !.isRefreshing = TRUE, !.failed = FALSE, !.newest = freeSlot]
      BY <1>5, ScreenCalls DEF shipmentScreen!Refresh, shipmentScreen!refreshStarts
    <2>2. /\ ui'.orphans = ui.orphans /\ ui'.done = ui.done /\ ui'.overtaken = ui.overtaken
          /\ ui'.readiness = ui.readiness /\ ui'.newest = freeSlot
          /\ ui'.submitting = ui.submitting
      BY <1>2, <2>1 DEF ScreenUi
    <2>3. QED
      BY <1>1, <2>1, <2>2, ScreenShowsSent
  <1>6. ASSUME NEW p \in Panels, NEW t, shipmentScreen!Submit(p, t)
        PROVE  ScreenShows'
    <2>1. /\ Call(p, [to |-> t, seen |-> ui.readiness]) /\ db' = db
          /\ ui' = [ui EXCEPT !.submitting = @ \cup {p}]
      BY <1>6, ScreenCalls DEF shipmentScreen!Submit
    <2>2. /\ ui'.orphans = ui.orphans /\ ui'.done = ui.done /\ ui'.overtaken = ui.overtaken
          /\ ui'.readiness = ui.readiness /\ ui'.newest = ui.newest
          /\ ui'.submitting = ui.submitting \cup {p} /\ ui'.failed = ui.failed
          /\ ui'.loadingReadiness = ui.loadingReadiness /\ ui'.isRefreshing = ui.isRefreshing
      BY <1>2, <2>1 DEF ScreenUi
    <2>3. QED
      BY <1>1, <2>1, <2>2, ScreenShowsSent
  <1>7. ASSUME NEW t \in ScreenStatus,
               \/ shipmentScreen!Dispatch(t) \/ shipmentScreen!Arrive(t) \/ shipmentScreen!Clear(t)
               \/ shipmentScreen!Release(t) \/ shipmentScreen!Deliver(t) \/ shipmentScreen!Cancel(t)
        PROVE  ScreenShows'
    BY <1>6, <1>7
    DEF Panels, shipmentScreen!Panels, shipmentScreen!Dispatch, shipmentScreen!Arrive,
        shipmentScreen!Clear, shipmentScreen!Release, shipmentScreen!Deliver, shipmentScreen!Cancel
  <1>8. QED
    BY <1>1, <1>3, <1>4, <1>5, <1>7, ScreenShowsServed, ScreenShowsReceived, ScreenCalls
    DEF shipmentScreen!Next, shipmentScreen!Operator, ScreenStatus

LEMMA ScreenShowsInit ==
    ASSUME WebConstants, ShipmentStatuses \subseteq ScreenStatus, shipmentScreen!Init
    PROVE  ScreenShows
  BY ScreenInit, ScreenShowsBlank, ScreenCalls DEF shipmentScreen!Init, ScreenShows

LEMMA ScreenHolds ==
    ASSUME WebConstants, ScreenShows
    PROVE  /\ shipmentScreen!TypeOK /\ shipmentScreen!BusyWhileUnderWay
           /\ shipmentScreen!OwnStepIsShown
  <1>1. shipmentScreen!TypeOK
    BY DEF ScreenShows, ScreenInv
  <1>2. shipmentScreen!BusyWhileUnderWay
    BY ScreenCalls DEF ScreenShows, ScreenBusy, shipmentScreen!BusyWhileUnderWay
  <1>3. underWay = {} => ui.newest = None
    BY DEF ScreenShows, ScreenTruth, callsOf
  <1>4. shipmentScreen!OwnStepIsShown
    BY <1>3, ScreenCalls DEF ScreenShows, ScreenTruth, reached, shipmentScreen!OwnStepIsShown
  <1>5. QED
    BY <1>1, <1>2, <1>4

=============================================================================
