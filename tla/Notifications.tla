---------------------------- MODULE Notifications ----------------------------
(***************************************************************************)
(* NotificationService, NotificationProcessor and the writes of            *)
(* NotificationHistoryService (src/backend/src/notifications/services/) on *)
(* the table `notifications` and the Bull queue of the same name, beside   *)
(* the WebSocket gateway of the same process.  One action per database     *)
(* call, queue call or attempt to send.                                    *)
(*                                                                         *)
(* Bull is external, as in Generation: a job is handed to the handler, is  *)
(* run again until its attempts are used up, and once more when the        *)
(* process died.  The mail server is external too; the SMS and the push    *)
(* service of the backend send nothing yet.                                *)
(***************************************************************************)
EXTENDS Gateway, Integers

CONSTANTS
  Notifications,   \* identifiers of rows, each with one job at most
  Senders,         \* requests that send
  Dtos,            \* what they send
  Enabled,         \* which of "sms" and "push" are configured
  Faults,          \* whether the process dies and its calls fail
  Unused, Gone

Attempts == 3      \* attempts: 3 of queue.add
maxAttempts == 3   \* maxAttempts: 3 of the job's data
MaxStalled == 1    \* Bull's default maxStalledCount

(* EMAIL goes to a mail server, SMS and PUSH to services that only log,
   WEBSOCKET to a user or to all users of a tenant; IN_APP is a type the
   processor does not know. *)
Simulated == {"sms", "push"}
Channels  == {"email", "user", "tenant", "inApp"} \cup Simulated
Dto == [channel : Channels, user : Users]

ASSUME DtosAssumption == Dtos \subseteq Dto /\ Enabled \subseteq Simulated /\ Faults \in BOOLEAN

NotificationStatus == {"PENDING", "DELIVERED", "FAILED", "READ"}
Row == [status : NotificationStatus, attempts : 0..(Attempts + MaxStalled)]
JobRow == [dto : Dtos, state : {"waiting", "active", "completed", "failed"},
           attemptsMade : 0..Attempts, stalled : 0..MaxStalled]

ASSUME SentinelAssumption ==
  /\ Unused # Gone
  /\ Unused \notin Row \cup JobRow /\ Gone \notin Row \cup JobRow

VARIABLES
  row,       \* row[n]: the row of notification n
  job,       \* job[n]: its job in the queue
  sender,    \* sender[w]: the request w executes and the call it makes next
  handler,   \* the job the process runs and the call it makes next
  sent,      \* sent[n]: how often a message of n went out (history)
  lost       \* lost[n]: how often the handler could not know or record it (history)

queueVars == <<row, job, sender, handler, sent, lost>>
notifVars == <<gatewayVars, queueVars>>

Idle == [at |-> "idle"]

Live(n)   == row[n] \notin {Unused, Gone}
Queued(n) == job[n] # Unused

Sending ==
  [at : {"idle"}]
  \cup [at : {"create"}, dto : Dtos]
  \cup [at : {"add"}, dto : Dtos, id : Notifications]
Handling ==
  [at : {"idle"}]
  \cup [at : {"start", "send", "delivered", "error", "done", "throw"}, id : Notifications]

NotifTypeOK ==
  /\ GatewayTypeOK
  /\ row \in [Notifications -> Row \cup {Unused, Gone}]
  /\ job \in [Notifications -> JobRow \cup {Unused}]
  /\ sender \in [Senders -> Sending]
  /\ handler \in Handling
  /\ sent \in [Notifications -> Nat] /\ lost \in [Notifications -> Nat]

NotifInit ==
  /\ GatewayInit
  /\ row = [n \in Notifications |-> Unused]
  /\ job = [n \in Notifications |-> Unused]
  /\ sender = [w \in Senders |-> Idle]
  /\ handler = Idle
  /\ sent = [n \in Notifications |-> 0]
  /\ lost = [n \in Notifications |-> 0]

-----------------------------------------------------------------------------
(* sendNotification: the row, then queue.add.  sendBulkNotifications repeats
   it; sendRealTimeNotification makes it for users it finds not connected. *)

Send(w, dto) ==
  /\ sender[w] = Idle
  /\ sender' = [sender EXCEPT ![w] = [at |-> "create", dto |-> dto]]
  /\ UNCHANGED <<gatewayVars, row, job, handler, sent, lost>>

RealTime(w, dto) == dto.channel = "user" /\ ~ Listed(dto.user) /\ Send(w, dto)

Create(w) ==
  /\ sender[w].at = "create"
  /\ \E n \in Notifications :
       /\ row[n] = Unused
       /\ row' = [row EXCEPT ![n] = [status |-> "PENDING", attempts |-> 0]]
       /\ sender' = [sender EXCEPT ![w] = [at |-> "add", dto |-> @.dto, id |-> n]]
  /\ UNCHANGED <<gatewayVars, job, handler, sent, lost>>

Add(w) ==
  /\ sender[w].at = "add"
  /\ job' = [job EXCEPT ![sender[w].id] =
       [dto |-> sender[w].dto, state |-> "waiting", attemptsMade |-> 0, stalled |-> 0]]
  /\ sender' = [sender EXCEPT ![w] = Idle]
  /\ UNCHANGED <<gatewayVars, row, handler, sent, lost>>

(* A call of the sender fails: a row already inserted stays without a job. *)
SendFails(w) ==
  /\ sender[w] # Idle
  /\ sender' = [sender EXCEPT ![w] = Idle]
  /\ UNCHANGED <<gatewayVars, row, job, handler, sent, lost>>

(* NotificationHistoryService *)

markAsRead(n) ==
  /\ Live(n)
  /\ row' = [row EXCEPT ![n].status = "READ"]
  /\ UNCHANGED <<gatewayVars, job, sender, handler, sent, lost>>

deleteNotification(n) ==
  /\ Live(n)
  /\ row' = [row EXCEPT ![n] = Gone]
  /\ UNCHANGED <<gatewayVars, job, sender, handler, sent, lost>>

cleanupOldNotifications(old) ==
  /\ row' = [n \in Notifications |->
       IF n \in old /\ Live(n) /\ row[n].status # "PENDING" THEN Gone ELSE row[n]]
  /\ UNCHANGED <<gatewayVars, job, sender, handler, sent, lost>>

-----------------------------------------------------------------------------
(* handleSendNotification, on the job the queue hands to it. *)

Then(at) == handler' = [at |-> at, id |-> handler.id]

Take(n) ==
  /\ handler = Idle
  /\ Queued(n) /\ job[n].state = "waiting"
  /\ job' = [job EXCEPT ![n].state = "active"]
  /\ handler' = [at |-> "start", id |-> n]
  /\ UNCHANGED <<gatewayVars, row, sender, sent, lost>>

(* Every write of the handler fails when its row was deleted. *)
Start ==
  /\ handler.at = "start"
  /\ IF Live(handler.id)
     THEN /\ row' = [row EXCEPT ![handler.id] =
                       [status |-> "PENDING", attempts |-> @.attempts + 1]]
          /\ Then("send")
     ELSE Then("error") /\ UNCHANGED row
  /\ UNCHANGED <<gatewayVars, job, sender, sent, lost>>

(* Mutants: the answer is not looked at; it is not returned. *)
AfterSendAny(success)  == "delivered"
AfterSendNone(success) == "error"

(* Where the handler goes with the answer of a send method. *)
AfterSend(success) == IF success THEN "delivered" ELSE "error"

ToChannel(channel) == handler.at = "send" /\ job[handler.id].dto.channel = channel

(* What became of one attempt: how many messages went out, and whether the
   handler is left without knowing it. *)
Count(messages, unknown) ==
  /\ sent' = [sent EXCEPT ![handler.id] = @ + messages]
  /\ lost' = [lost EXCEPT ![handler.id] = @ + unknown]

(* sendEmail: the server refuses, accepts, or accepts and its answer is lost. *)
SendEmail(accepts, answers) ==
  /\ ToChannel("email")
  /\ answers \/ (accepts /\ Faults)
  /\ Count(IF accepts THEN 1 ELSE 0, IF answers THEN 0 ELSE 1)
  /\ Then(AfterSend(accepts /\ answers))
  /\ UNCHANGED <<gatewayVars, row, job, sender>>

(* sendSms and sendPushNotification: a service that is configured logs
   "[SIMULATED]" and answers success, and no message goes out. *)
SendSimulated(channel) ==
  /\ ToChannel(channel)
  /\ Then(AfterSend(channel \in Enabled))
  /\ UNCHANGED <<gatewayVars, row, job, sender, sent, lost>>

(* sendToUser *)
SendToUser(u) ==
  /\ ToChannel("user") /\ job[handler.id].dto.user = u
  /\ Count(IF Reaches(u) THEN 1 ELSE 0, 0)
  /\ Then(AfterSend(Listed(u)))
  /\ UNCHANGED <<gatewayVars, row, job, sender>>

(* sendToTenant emits to a room and always succeeds; who is in the room is
   left out with the rooms. *)
SendToTenant ==
  /\ ToChannel("tenant")
  /\ Then(AfterSend(TRUE))
  /\ UNCHANGED <<gatewayVars, row, job, sender, sent, lost>>

SendUnsupported ==
  /\ ToChannel("inApp")
  /\ Then("error")
  /\ UNCHANGED <<gatewayVars, row, job, sender, sent, lost>>

Delivered ==
  /\ handler.at = "delivered"
  /\ IF Live(handler.id)
     THEN row' = [row EXCEPT ![handler.id].status = "DELIVERED"] /\ Then("done")
     ELSE UNCHANGED row /\ Then("error")
  /\ UNCHANGED <<gatewayVars, job, sender, sent, lost>>

(* data.attempts is what sendNotification put in the job, 0 at every run. *)
dataAttempts == 0
attempts == dataAttempts + 1

(* Mutant: the error is recorded and not thrown. *)
AfterErrorSwallowed == "done"

AfterError == IF attempts < maxAttempts THEN "throw" ELSE "done"

RecordError ==
  /\ handler.at = "error"
  /\ IF Live(handler.id)
     THEN /\ row' = [row EXCEPT ![handler.id].status =
                       IF attempts >= maxAttempts THEN "FAILED" ELSE "PENDING"]
          /\ Then(AfterError)
     ELSE UNCHANGED row /\ Then("throw")
  /\ UNCHANGED <<gatewayVars, job, sender, sent, lost>>

(* A call to the database fails: the first two are caught, the one that
   records the error is not. *)
CallFails ==
  /\ Faults
  /\ handler.at \in {"start", "delivered", "error"}
  /\ Count(0, IF handler.at = "delivered" THEN 1 ELSE 0)
  /\ Then(IF handler.at = "error" THEN "throw" ELSE "error")
  /\ UNCHANGED <<gatewayVars, row, job, sender>>

-----------------------------------------------------------------------------
(* The queue takes the end of a job. *)

Complete ==
  /\ handler.at = "done"
  /\ job' = [job EXCEPT ![handler.id].state = "completed"]
  /\ handler' = Idle
  /\ UNCHANGED <<gatewayVars, row, sender, sent, lost>>

(* Mutant: one attempt more than asked for. *)
GivenUpLate(attemptsMade) == attemptsMade > Attempts
GivenUp(attemptsMade) == attemptsMade >= Attempts

FailAttempt ==
  /\ handler.at = "throw"
  /\ job' = [job EXCEPT ![handler.id].attemptsMade = @ + 1,
                        ![handler.id].state =
                          IF GivenUp(job[handler.id].attemptsMade + 1) THEN "failed" ELSE "waiting"]
  /\ handler' = Idle
  /\ UNCHANGED <<gatewayVars, row, sender, sent, lost>>

(* The process dies with its sockets, its requests and its handler. *)
Crash ==
  /\ Faults
  /\ GatewayRestart
  /\ sender' = [w \in Senders |-> Idle]
  /\ lost' = IF handler.at \in {"delivered", "done"}
             THEN [lost EXCEPT ![handler.id] = @ + 1] ELSE lost
  /\ handler' = Idle
  /\ UNCHANGED <<row, job, sent>>

Stalled(n) ==
  /\ Queued(n) /\ job[n].state = "active"
  /\ handler # Idle => handler.id # n
  /\ job' = [job EXCEPT ![n] =
       IF @.stalled < MaxStalled THEN [@ EXCEPT !.state = "waiting", !.stalled = job[n].stalled + 1]
       ELSE [@ EXCEPT !.state = "failed"]]
  /\ UNCHANGED <<gatewayVars, row, sender, handler, sent, lost>>

-----------------------------------------------------------------------------
SenderStep(w) ==
  \/ \E dto \in Dtos : Send(w, dto)
  \/ \E dto \in Dtos : RealTime(w, dto)
  \/ Create(w)
  \/ Add(w)
  \/ SendFails(w)

HistoryStep ==
  \/ \E n \in Notifications : markAsRead(n) \/ deleteNotification(n)
  \/ \E old \in SUBSET Notifications : cleanupOldNotifications(old)

HandlerStep ==
  \/ \E n \in Notifications : Take(n)
  \/ Start
  \/ \E accepts, answers \in BOOLEAN : SendEmail(accepts, answers)
  \/ \E channel \in Simulated : SendSimulated(channel)
  \/ \E u \in Users : SendToUser(u)
  \/ SendToTenant
  \/ SendUnsupported
  \/ Delivered
  \/ RecordError
  \/ CallFails
  \/ Complete
  \/ FailAttempt

NotifNext ==
  \/ \E w \in Senders : SenderStep(w)
  \/ HistoryStep
  \/ HandlerStep
  \/ \E n \in Notifications : Stalled(n)
  \/ GatewayStep /\ UNCHANGED queueVars
  \/ Crash

NotifSpec == NotifInit /\ [][NotifNext]_notifVars

-----------------------------------------------------------------------------
(* An e-mail or a message to a user that is shown as DELIVERED went out: to the
   mail server, or over a socket that was open and the user's, although the
   handler looks only at the map and sockets come and go beside it.  It does not
   speak of a tenant's room, where nobody may be, nor of SMS and PUSH, whose rows
   are DELIVERED where nothing went out. *)
DeliveredWasSent ==
  \A n \in Notifications :
    Live(n) /\ Queued(n) /\ row[n].status = "DELIVERED" /\ job[n].dto.channel \in {"email", "user"}
      => sent[n] > 0

(* Nobody gets a message twice because it was retried, unless an answer, a
   write or the process was lost after it went out; and then once per loss. *)
RepeatsOnlyAfterLoss == \A n \in Notifications : sent[n] <= 1 + lost[n]

(* A job is completed only with its row delivered: no other request takes
   the row back, and a failed attempt never ends as a success. *)
CompletedIsDelivered ==
  \A n \in Notifications :
    Queued(n) /\ Live(n) /\ job[n].state = "completed" => row[n].status \in {"DELIVERED", "READ"}

(* Once the queue has given a job up its row says so: "attempts >=
   maxAttempts ? 'FAILED' : 'PENDING'". *)
GivenUpIsFailed ==
  \A n \in Notifications :
    Queued(n) /\ Live(n) /\ job[n].state = "failed" => row[n].status \in {"FAILED", "READ"}
=============================================================================
