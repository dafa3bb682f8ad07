--------------------------- MODULE Notifications ---------------------------
(***************************************************************************)
(* The messages to the customer (apps/api/src/notifications): the ones the *)
(* workflow sends after a transition, and the ones an operator asks for,   *)
(* which leave a row in the history.  The status they tell is written by   *)
(* transitions and by the generic update, which decide on a row that was   *)
(* read before and write by id, so one decided on an outdated row may take *)
(* the shipment back.  An e-mail needs an access token, which the Gmail    *)
(* transport keeps until shortly before it expires; the mail to the        *)
(* administrator that follows the one to the customer, and the texts but   *)
(* for the milestones in them, are left out.                               *)
(*                                                                         *)
(* The customer has an address and a number, and both providers are        *)
(* configured.  Time is counted in minutes.                                *)
(***************************************************************************)
EXTENDS ShipmentStatuses, SequencesExt

CONSTANTS
    Requests,       \* ids of requests
    FirstStatuses,  \* statuses of the shipment at the start
    Lives,          \* minutes a token can be good for
    MaxTime,        \* bound: minutes
    None            \* null

Channels == {"email", "whatsapp"}

\* A transition announces itself on both channels, the others are the two
\* endpoints for one channel.
Kinds == {"transition"} \cup Channels
channelsOf(kind) == IF kind = "transition" THEN Channels ELSE {kind}

VARIABLES
    status,     \* of the shipment
    requests,   \* [Requests -> the request]
    overtaken,  \* history: transitions whose status was overwritten before it
                \* was read for the message, by a write decided on an outdated row
    sends,      \* [Requests -> [Channels -> how far the message is]]
    delivered,  \* what the customer has received
    history,    \* rows of ShipmentNotificationHistory
    token,      \* GmailApiTransport's accessToken and its times
    now

vars == <<status, requests, overtaken, sends, delivered, history, token, now>>

\* seen is the status a handler has decided on, told the one a message tells,
\* and so the one of the row.
Idle == [step |-> "idle", kind |-> None, seen |-> None, to |-> None, told |-> None]

\* Answered, and nothing to send.
Over == [Idle EXCEPT !.step = "over"]

Send(step) == [step |-> step, issued |-> None, life |-> None]
Unsent == [ch \in Channels |-> Send("none")]

ended == {"ok", "no"}
SendSteps == {"none", "token", "asked", "granted", "provider", "told"} \cup ended

TypeOK ==
    /\ status \in ShipmentStatus
    /\ requests \in [Requests -> [step: {"idle", "checked", "committed", "sending", "answered",
                                         "over"},
                                  kind: Kinds \cup {"update", None},
                                  seen: ShipmentStatus \cup {None},
                                  to:   ShipmentStatus \cup {None},
                                  told: ShipmentStatus \cup {None}]]
    /\ overtaken \subseteq Requests
    /\ sends \in [Requests -> [Channels -> [step: SendSteps, issued: 0 .. MaxTime \cup {None},
                                            life: Lives \cup {None}]]]
    /\ delivered \subseteq [request: Requests, channel: Channels, told: ShipmentStatus]
    /\ history \subseteq [request: Requests, channel: Channels, told: ShipmentStatus, sent: BOOLEAN]
    /\ token = None \/ token \in [issued: 0 .. MaxTime, life: Lives, until: Nat \ {0}, late: Nat]
    /\ now \in 0 .. MaxTime

Init ==
    /\ status \in FirstStatuses
    /\ requests = [r \in Requests |-> Idle] /\ overtaken = {}
    /\ sends = [r \in Requests |-> Unsent]
    /\ delivered = {} /\ history = {}
    /\ token = None /\ now = 0

-----------------------------------------------------------------------------
(* The requests *)

at(r, step) == requests[r].step = step
Goes(r, request) == requests' = [requests EXCEPT ![r] = request]

\* The first step of a message on every channel of the request.
Started(r, kind) ==
    sends' = [sends EXCEPT ![r] = [ch \in Channels |->
                 IF ch \notin channelsOf(kind) THEN Send("ok")
                 ELSE Send(IF ch = "email" THEN "token" ELSE "provider")]]

\* A workflow endpoint has read the row, and its check has passed.
CheckTransition(r) ==
    /\ at(r, "idle")
    /\ \E t \in controlledWorkflowStatuses :
          /\ isShipmentTransitionAllowed(status, t)
          /\ Goes(r, [Idle EXCEPT !.step = "checked", !.kind = "transition", !.seen = status,
                                  !.to = t])
    /\ UNCHANGED <<status, overtaken, sends, delivered, history, token, now>>

\* The generic update, sent with a status: the one that was read, or a step of
\* the table that does not touch the workflow.
CheckUpdate(r) ==
    /\ at(r, "idle")
    /\ \E t \in ShipmentStatus :
          /\ \/ t = status
             \/ /\ {status, t} \cap controlledWorkflowStatuses = {}
                /\ isShipmentTransitionAllowed(status, t)
          /\ Goes(r, [Idle EXCEPT !.step = "checked", !.kind = "update", !.seen = status, !.to = t])
    /\ UNCHANGED <<status, overtaken, sends, delivered, history, token, now>>

\* The readiness check or the transaction refuses, or a query fails.
Refuse(r) ==
    /\ at(r, "checked")
    /\ Goes(r, Over)
    /\ UNCHANGED <<status, overtaken, sends, delivered, history, token, now>>

\* The status is written by id, whatever it is by now.
Write(r) ==
    /\ at(r, "checked")
    /\ status' = requests[r].to
    /\ overtaken' = IF requests[r].seen = status THEN overtaken
                    ELSE overtaken \cup {q \in Requests : at(q, "committed")}
    /\ UNCHANGED <<sends, delivered, history, token, now>>

CommitTransition(r) ==
    /\ requests[r].kind = "transition" /\ Write(r)
    /\ Goes(r, [requests[r] EXCEPT !.step = "committed"])

CommitUpdate(r) ==
    /\ requests[r].kind = "update" /\ Write(r)
    /\ Goes(r, Over)

\* Faulty: the announcement tells the status read before the transition.
tellThePrevious(r) ==
    /\ at(r, "committed")
    /\ Goes(r, [requests[r] EXCEPT !.step = "sending", !.told = requests[r].seen])
    /\ Started(r, "transition")
    /\ UNCHANGED <<status, overtaken, delivered, history, token, now>>

\* notifyShipmentStatusChange reads the row again, after the commit; when it
\* cannot, nothing is sent and the request fails.
notifyShipmentStatusChange(r) ==
    /\ at(r, "committed")
    /\ \/ /\ Goes(r, [requests[r] EXCEPT !.step = "sending", !.told = status])
          /\ Started(r, "transition")
       \/ Goes(r, [requests[r] EXCEPT !.step = "over"]) /\ UNCHANGED sends
    /\ UNCHANGED <<status, overtaken, delivered, history, token, now>>

\* sendTrackingEmail and sendTrackingWhatsApp.
sendTracking(r, kind) ==
    /\ at(r, "idle") /\ kind \in Channels
    /\ Goes(r, [Idle EXCEPT !.step = "sending", !.kind = kind, !.told = status])
    /\ Started(r, kind)
    /\ UNCHANGED <<status, overtaken, delivered, history, token, now>>

\* Both channels are waited for, whatever becomes of the other.
sendShipmentTrackingUpdate(r) ==
    /\ at(r, "sending") /\ requests[r].kind = "transition"
    /\ \A ch \in Channels : sends[r][ch].step \in ended
    /\ Goes(r, [requests[r] EXCEPT !.step = "answered"])
    /\ UNCHANGED <<status, overtaken, sends, delivered, history, token, now>>

row(r, ch) ==
    [request |-> r, channel |-> ch, told |-> requests[r].told, sent |-> sends[r][ch].step = "ok"]

\* The row is written after the provider has answered, and may fail to be.
RecordHistory(r) ==
    LET ch == requests[r].kind
    IN  /\ at(r, "sending") /\ ch \in Channels
        /\ sends[r][ch].step \in ended
        /\ Goes(r, [requests[r] EXCEPT !.step = "answered"])
        /\ history' \in {history, history \cup {row(r, ch)}}
        /\ UNCHANGED <<status, overtaken, sends, delivered, token, now>>

-----------------------------------------------------------------------------
(* EmailNotificationProvider and GmailApiTransport *)

Moves(r, ch, send) == sends' = [sends EXCEPT ![r][ch] = send]
Margin == 1

\* Faulty: the token is kept as long as it is good.
keptWhileGood(life) == life

\* Faulty: a short life leaves nothing to wait for.
keptUnbounded(life) == life - Margin

\* Math.max(expiresIn - 60, 60)
keptFor(life) == IF life - Margin > Margin THEN life - Margin ELSE Margin

getAccessToken(r) ==
    /\ sends[r]["email"].step = "token"
    /\ Moves(r, "email",
             IF token # None /\ now < token.until
             THEN [step |-> "provider", issued |-> token.issued, life |-> token.life]
             ELSE Send("asked"))
    /\ UNCHANGED <<status, requests, overtaken, delivered, history, token, now>>

\* Google issues a token, or refuses.
TokenIssued(r) ==
    /\ sends[r]["email"].step = "asked"
    /\ \/ \E life \in Lives :
             Moves(r, "email", [step |-> "granted", issued |-> now, life |-> life])
       \/ Moves(r, "email", Send("no"))
    /\ UNCHANGED <<status, requests, overtaken, delivered, history, token, now>>

\* Its times count from its arrival; of two tokens the later one is kept.
\* late only observes how long it was on its way.
TokenArrives(r) ==
    LET send == sends[r]["email"]
    IN  /\ send.step = "granted"
        /\ token' = [issued |-> send.issued, life |-> send.life,
                     until |-> now + keptFor(send.life), late |-> now - send.issued]
        /\ Moves(r, "email", [send EXCEPT !.step = "provider"])
        /\ UNCHANGED <<status, requests, overtaken, delivered, history, now>>

-----------------------------------------------------------------------------
(* The providers *)

accepted(send) == IF send.issued = None THEN TRUE ELSE now < send.issued + send.life

\* The message goes out, or the provider refuses it or cannot be reached.
Deliver(r, ch) ==
    /\ sends[r][ch].step = "provider"
    /\ \/ /\ accepted(sends[r][ch])
          /\ delivered' = delivered \cup {[request |-> r, channel |-> ch, told |-> requests[r].told]}
          /\ Moves(r, ch, Send("told"))
       \/ Moves(r, ch, Send("no")) /\ UNCHANGED delivered
    /\ UNCHANGED <<status, requests, overtaken, history, token, now>>

\* The answer of the provider may be lost: then the message counts as failed.
Answered(r, ch) ==
    /\ sends[r][ch].step = "told"
    /\ \E step \in ended : Moves(r, ch, Send(step))
    /\ UNCHANGED <<status, requests, overtaken, delivered, history, token, now>>

-----------------------------------------------------------------------------
Tick ==
    /\ now < MaxTime /\ now' = now + 1
    /\ UNCHANGED <<status, requests, overtaken, sends, delivered, history, token>>

\* The process ends; what it had under way is forgotten.
Crash ==
    /\ requests' = [r \in Requests |->
                       IF requests[r].step \in {"idle", "answered"} THEN requests[r]
                       ELSE [requests[r] EXCEPT !.step = "over"]]
    /\ sends' = [r \in Requests |-> IF at(r, "answered") THEN sends[r] ELSE Unsent]
    /\ token' = None
    /\ UNCHANGED <<status, overtaken, delivered, history, now>>

Handler(r) ==
    \/ CheckTransition(r) \/ CheckUpdate(r) \/ Refuse(r) \/ CommitTransition(r) \/ CommitUpdate(r)
    \/ notifyShipmentStatusChange(r) \/ sendShipmentTrackingUpdate(r)
    \/ \E kind \in Channels : sendTracking(r, kind)
    \/ RecordHistory(r)
    \/ getAccessToken(r) \/ TokenIssued(r) \/ TokenArrives(r)
    \/ \E ch \in Channels : Deliver(r, ch) \/ Answered(r, ch)

Next == Tick \/ Crash \/ \E r \in Requests : Handler(r)

-----------------------------------------------------------------------------
(* The milestones of a message *)

emailMilestones ==
    <<"DRAFT", "BOOKED", "RECEIVED", "LOADED", "IN_TRANSIT", "ARRIVED", "CUSTOMS_CLEARANCE",
      "READY_FOR_DELIVERY", "DELIVERED">>
whatsappMilestones == SubSeq(emailMilestones, 2, 9)

\* findIndex: 0 for a status the list does not have, QUOTED that is, and DRAFT
\* in a message to WhatsApp.
getMilestoneIndex(list, s) == SelectInSeq(list, LAMBDA m : m = s)

\* What an e-mail ticks off, and what a message to WhatsApp does; a cancelled
\* shipment, or to WhatsApp one not in the list, has no list at all.
tickedInEmail(s) ==
    {emailMilestones[n] : n \in {k \in DOMAIN emailMilestones :
        s = "DELIVERED" \/ k < getMilestoneIndex(emailMilestones, s)}}
tickedInWhatsApp(s) ==
    {whatsappMilestones[n] : n \in {k \in DOMAIN whatsappMilestones :
        k < getMilestoneIndex(whatsappMilestones, s)}}

-----------------------------------------------------------------------------
(* Properties *)

\* A row of the history that says SENT is about a message the customer has.
SentRowsDelivered ==
    \A h \in history : h.sent =>
        [request |-> h.request, channel |-> h.channel, told |-> h.told] \in delivered

\* The messages of a transition tell the status it reached or a later one, however
\* transitions, updates and their announcements overlap, unless its status was
\* overwritten in the meantime by a write that was decided on an outdated row.
AnnouncementIsUpToDate ==
    \A m \in delivered :
        requests[m.request].kind = "transition" /\ m.request \notin overtaken =>
            m.told \in statusesAfter(requests[m.request].to) \cup {requests[m.request].to, "CANCELLED"}

\* No mail is sent with a token known to have expired, unless the token was on
\* its way for more than the margin, or had less than that left when it came.
TokenStillGood ==
    [][\A r \in Requests :
          LET send == sends'[r]["email"]
          IN  /\ sends[r]["email"].step = "token" /\ send.step = "provider"
              /\ token.late <= Margin /\ token.late + Margin <= token.life
              => now < send.issued + send.life]_vars

\* What a message ticks off is behind the shipment, and what is ahead of it is
\* not ticked.  The last status is ticked too, in an e-mail.
MilestonesFollowWay ==
    \A m \in delivered :
        /\ m.channel = "email" =>
              tickedInEmail(m.told) \cap statusesAfter(m.told) = {}
        /\ m.channel = "whatsapp" =>
              tickedInWhatsApp(m.told) \cap statusesAfter(m.told) = {}
=============================================================================
