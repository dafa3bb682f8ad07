------------------------------ MODULE WebCalls ------------------------------
(***************************************************************************)
(* The calls a page of the web front end has under way (lib/api.ts).  A    *)
(* page is mounted alone; it keeps its state in ui, the API keeps its rows *)
(* in db, and a call lives in a slot of calls from the moment the page     *)
(* sends it to the moment the page receives its answer.  The API serves    *)
(* the calls in any order and the answers arrive in any order.             *)
(*                                                                         *)
(* The modules of the pages share these variables: MCWeb puts one page at  *)
(* a time on them.                                                         *)
(***************************************************************************)
EXTENDS Naturals

CONSTANTS
    MaxCalls,  \* bound: calls a page has under way at one time
    None       \* null

\* null is no number.
ASSUME WebConstants == MaxCalls \in Nat \ {0} /\ None \notin Nat

VARIABLES
    db,     \* the rows the API keeps
    ui,     \* the state of the page, its useState variables
    calls   \* [Slots -> a call under way, or NoCall]

web == <<db, ui, calls>>

Slots == 1 .. MaxCalls

\* A call of operation op with its arguments, before and after it is served.
Sent(op, arg) == [step |-> "sent", op |-> op, arg |-> arg]
Answer(c, ok, data) ==
    [step |-> "answered", op |-> c.op, arg |-> c.arg, ok |-> ok, data |-> data]

\* What is in a slot when no call is.
NoCall == [step |-> "none"]

underWay == {i \in Slots : calls[i] # NoCall}
waiting(i) == i \in underWay /\ calls[i].step = "sent"
answered(i) == i \in underWay /\ calls[i].step = "answered"

NoCalls == [i \in Slots |-> NoCall]

\* The calls of the operations in ops that are under way.
callsOf(ops) == {i \in underWay : calls[i].op \in ops}

\* apiFetch: the page sends one call, into the first free slot.
firstFree(cs) ==
    CHOOSE i \in Slots : cs[i] = NoCall /\ \A j \in Slots : cs[j] = NoCall => i <= j
placed(cs, c) == [cs EXCEPT ![firstFree(cs)] = c]
freeSlot == firstFree(calls)
mayCall == underWay # Slots
Call(op, arg) == mayCall /\ calls' = placed(calls, Sent(op, arg))

\* The API answers a call: 2xx with data, or anything else, which apiRequest
\* turns into an ApiError.  A request without a token, an expired session, a
\* lost connection and a refusal all reach the page as such an error; the API
\* may have done its part when the answer is lost.
Succeed(i, data) == calls' = [calls EXCEPT ![i] = Answer(@, TRUE, data)]
Fail(i) == calls' = [calls EXCEPT ![i] = Answer(@, FALSE, None)]
Reply(i, data) == Succeed(i, data) \/ Fail(i)

\* A page whose rows other operators change at will takes any answer: it is
\* chosen when it arrives, and nothing is kept in db.
returns(i, ops) == i \in callsOf(ops)

\* The page takes an answer, and the handler that awaited it ends, or goes on
\* to its next call.
Finish(i) == calls' = [calls EXCEPT ![i] = NoCall]
Continue(i, op, arg) == calls' = [calls EXCEPT ![i] = Sent(op, arg)]
=============================================================================
