-------------------------- MODULE NotificationPanel --------------------------
(***************************************************************************)
(* The buttons of the page of a shipment that send the customer a message  *)
(* (dashboard/shipments/[id]/page.tsx), and the history of the messages    *)
(* (shipment-notification-history.tsx).                                    *)
(*                                                                         *)
(* db is how many rows the history has; ui.items is how many are shown.    *)
(* What a row says, and what becomes of the message, is in Notifications.  *)
(***************************************************************************)
EXTENDS WebCalls

CONSTANT MaxRows  \* bound: rows of the history

Channels == {"email", "whatsapp"}

\* timer: the load that refreshKey asks for is not sent yet.
\* mine, newest and overtaken only observe: the rows there were when the
\* operator was last told that a message is sent; the load sent last, until it
\* is answered; whether an older one was answered after it.
TypeOK ==
    /\ db \in 0 .. MaxRows
    /\ ui \in [items: 0 .. MaxRows, isLoading: BOOLEAN, timer: BOOLEAN, error: BOOLEAN,
               sending: SUBSET Channels, sendError: SUBSET Channels, mine: 0 .. MaxRows,
               newest: Slots \cup {None}, overtaken: BOOLEAN]
    /\ \A i \in underWay : calls[i].op \in {"history"} \cup Channels

Init ==
    /\ db \in 0 .. 1
    /\ ui = [items |-> 0, isLoading |-> TRUE, timer |-> TRUE, error |-> FALSE, sending |-> {},
             sendError |-> {}, mine |-> 0, newest |-> None, overtaken |-> FALSE]
    /\ calls = NoCalls

-----------------------------------------------------------------------------
(* The API and the other operators *)

\* A row is written for a failed message too; then the answer is a refusal.
ServeSend(i) ==
    /\ waiting(i) /\ calls[i].op \in Channels
    /\ \/ db < MaxRows /\ db' = db + 1 /\ Reply(i, db + 1)
       \/ Fail(i) /\ UNCHANGED db
    /\ UNCHANGED ui

ServeHistory(i) ==
    /\ waiting(i) /\ calls[i].op = "history"
    /\ Reply(i, db)
    /\ UNCHANGED <<db, ui>>

SomebodyElse == db < MaxRows /\ db' = db + 1 /\ UNCHANGED <<ui, calls>>

-----------------------------------------------------------------------------
(* The buttons *)

\* An e-mail is refused at once when the customer has no address, or no valid
\* one, among what the page loaded.
Send(ch) ==
    /\ ch \notin ui.sending
    /\ \/ /\ Call(ch, None)
          /\ ui' = [ui EXCEPT !.sending = @ \cup {ch}, !.sendError = @ \ {ch}]
       \/ /\ ch = "email"
          /\ ui' = [ui EXCEPT !.sendError = @ \cup {ch}] /\ UNCHANGED calls
    /\ UNCHANGED db

\* Only a success changes refreshKey, so the row of a failure stays unseen.
SendAnswered(i) ==
    LET c == calls[i]
        u == [ui EXCEPT !.sending = @ \ {c.op}]
    IN  /\ answered(i) /\ c.op \in Channels /\ Finish(i)
        /\ ui' = IF c.ok THEN [u EXCEPT !.timer = TRUE, !.mine = c.data]
                         ELSE [u EXCEPT !.sendError = @ \cup {c.op}]
        /\ UNCHANGED db

-----------------------------------------------------------------------------
(* loadHistory *)

loadHistory(u) ==
    /\ Call("history", None)
    /\ ui' = [u EXCEPT !.isLoading = TRUE, !.error = FALSE, !.newest = freeSlot]
    /\ UNCHANGED db

TimerFires == ui.timer /\ loadHistory([ui EXCEPT !.timer = FALSE])
Refresh == ~ui.isLoading /\ loadHistory(ui)

HistoryArrives(i) ==
    LET u == [ui EXCEPT !.isLoading = FALSE, !.newest = IF i = @ THEN None ELSE @,
                        !.overtaken = (i # ui.newest)]
    IN  /\ answered(i) /\ calls[i].op = "history" /\ Finish(i)
        /\ ui' = IF calls[i].ok THEN [u EXCEPT !.items = calls[i].data]
                                ELSE [u EXCEPT !.error = TRUE]
        /\ UNCHANGED db

-----------------------------------------------------------------------------
Next ==
    \/ TimerFires \/ Refresh \/ SomebodyElse
    \/ \E ch \in Channels : Send(ch)
    \/ \E i \in Slots : ServeSend(i) \/ ServeHistory(i) \/ SendAnswered(i) \/ HistoryArrives(i)

-----------------------------------------------------------------------------
(* Properties *)

\* A button is disabled only while what it started is under way.
BusyWhileUnderWay ==
    /\ \A ch \in Channels : ch \in ui.sending <=> callsOf({ch}) # {}
    /\ ui.isLoading => ui.timer \/ callsOf({"history"}) # {}

\* A message the operator was told is sent is in the history once nothing is
\* under way, unless the load failed or answers arrived out of order.
OwnStepIsShown ==
    underWay = {} /\ ~ui.timer /\ ~ui.error /\ ~ui.overtaken => ui.items >= ui.mine
=============================================================================
