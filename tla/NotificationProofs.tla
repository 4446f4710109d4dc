------------------------- MODULE NotificationProofs -------------------------
(***************************************************************************)
(* The gateway's map and the rows and jobs of notifications, for any number *)
(* of sockets, users, notifications and senders.                           *)
(***************************************************************************)
EXTENDS Notifications, TLAPS

-----------------------------------------------------------------------------
(* The gateway *)

(* A socket answers to a user it may authenticate as; with OneIdentity it
   never changes to another, whose disconnect would leave the first listed. *)
GatewayInv ==
  /\ GatewayTypeOK
  /\ \A c \in Sockets : userId[c] # None => userId[c] \in Identities[c]
  /\ ListedIsOpen

LEMMA GatewayInitInv == GatewayInit => GatewayInv
BY NoneAssumption DEF GatewayInit, GatewayInv, GatewayTypeOK, ListedIsOpen, Listed

LEMMA GatewayStepInv ==
  ASSUME OneIdentity, GatewayInv,
         GatewayStep \/ GatewayRestart \/ UNCHANGED gatewayVars
  PROVE  GatewayInv'
<1> USE IdentitiesAssumption, NoneAssumption DEF GatewayInv, GatewayTypeOK
<1>1. ASSUME NEW c \in Sockets, handleConnection(c) PROVE GatewayInv'
  BY <1>1 DEF handleConnection, ListedIsOpen, Listed, Reaches
<1>2. ASSUME NEW c \in Sockets, NEW u \in Users, handleAuthentication(c, u)
      PROVE  GatewayInv'
  <2>1. GatewayTypeOK' /\ \A d \in Sockets : userId'[d] # None => userId'[d] \in Identities[d]
    BY <1>2 DEF handleAuthentication
  <2>2. userId[c] \in {None, u}
    BY <1>2 DEF handleAuthentication, OneIdentity
  <2>3. ListedIsOpen'
    BY <1>2, <2>2 DEF handleAuthentication, ListedIsOpen, Listed, Reaches
  <2> QED BY <2>1, <2>3
<1>3. ASSUME NEW c \in Sockets, handleDisconnect(c) PROVE GatewayInv'
  <2>1. GatewayTypeOK' /\ \A d \in Sockets : userId'[d] # None => userId'[d] \in Identities[d]
    BY <1>3 DEF handleDisconnect, Forget
  <2>2. ASSUME NEW u \in Users, Listed(u)' PROVE Reaches(u)' /\ userId'[connectedUsers'[u]] = u
    <3>1. connectedUsers'[u] = connectedUsers[u] /\ connectedUsers[u] # c
      BY <1>3, <2>2 DEF handleDisconnect, Forget, ListedIsOpen, Listed, Reaches
    <3> QED BY <1>3, <2>2, <3>1 DEF handleDisconnect, ListedIsOpen, Listed, Reaches
  <2> QED BY <2>1, <2>2 DEF ListedIsOpen
<1>4. CASE GatewayRestart
  BY <1>4 DEF GatewayRestart, ListedIsOpen, Listed
<1>5. CASE UNCHANGED gatewayVars
  BY <1>5 DEF gatewayVars, ListedIsOpen, Listed, Reaches
<1> QED BY <1>1, <1>2, <1>3, <1>4, <1>5 DEF GatewayStep

(* Every step of the whole system is one of those for the gateway. *)
LEMMA NotifStepGateway ==
  [NotifNext]_notifVars => GatewayStep \/ GatewayRestart \/ UNCHANGED gatewayVars
BY DEF NotifNext, notifVars, SenderStep, HistoryStep, HandlerStep, Send, RealTime, Create, Add,
       SendFails, markAsRead, deleteNotification, cleanupOldNotifications, Take, Start,
       SendEmail, SendSimulated, SendToUser, SendToTenant, SendUnsupported, Delivered,
       RecordError, CallFails, Complete, FailAttempt, Stalled, Crash

(* Clients that log in once per socket: the map names only open sockets,
   each authenticated as the user it is listed for. *)
THEOREM ListedOpen ==
  ASSUME OneIdentity
  PROVE  NotifSpec => []ListedIsOpen
<1>1. NotifInit => GatewayInv
  BY GatewayInitInv DEF NotifInit
<1>2. GatewayInv /\ [NotifNext]_notifVars => GatewayInv'
  BY GatewayStepInv, NotifStepGateway
<1>3. GatewayInv => ListedIsOpen
  BY DEF GatewayInv
<1> QED BY <1>1, <1>2, <1>3, PTL DEF NotifSpec

-----------------------------------------------------------------------------
(* The rows and their jobs *)

(* A job that has begun a run has one run more than failed or stalled ones. *)
Runs(n) == job[n].attemptsMade + job[n].stalled

(* What ties the three variables together: a row gets its job from the one
   sender that inserted it; the handler's job is the active one, and its row
   reads as delivered by the time the handler is done; and the attempts
   counted in the row are the runs of the job. *)
JobInv ==
  /\ \A w \in Senders : sender[w].at = "add" =>
       /\ row[sender[w].id] # Unused
       /\ ~ Queued(sender[w].id)
       /\ \A v \in Senders : sender[v].at = "add" /\ sender[v].id = sender[w].id => v = w
  /\ \A n \in Notifications : Queued(n) => row[n] # Unused
  /\ \A n \in Notifications : Live(n) /\ ~ Queued(n) => row[n].attempts = 0
  /\ handler # Idle => Queued(handler.id) /\ job[handler.id].state = "active"
  /\ handler.at = "done" /\ Live(handler.id) =>
       row[handler.id].status \in {"DELIVERED", "READ"}
  /\ \A n \in Notifications : Queued(n) =>
       /\ job[n].state \in {"waiting", "active"} => job[n].attemptsMade < Attempts
       /\ Live(n) => /\ row[n].attempts <= Runs(n) + 1
                     /\ job[n].state = "waiting" => row[n].attempts <= Runs(n)
                     /\ handler.at = "start" /\ handler.id = n => row[n].attempts <= Runs(n)
                     /\ job[n].attemptsMade = Attempts => row[n].attempts <= Runs(n)

QueueInv == NotifTypeOK /\ JobInv /\ CompletedIsDelivered

LEMMA Rows ==
  ASSUME NotifTypeOK, NEW n \in Notifications
  PROVE  /\ Live(n) => row[n] \in Row
         /\ Queued(n) => job[n] \in JobRow
BY DEF NotifTypeOK, Live, Queued

LEMMA Sentinels ==
  /\ \A r \in Row : r \notin {Unused, Gone}
  /\ \A j \in JobRow : j # Unused
BY SentinelAssumption

LEMMA QueueInitInv == NotifInit => QueueInv
<1> SUFFICES ASSUME NotifInit PROVE QueueInv
  OBVIOUS
<1>1. GatewayTypeOK
  BY GatewayInitInv DEF NotifInit, GatewayInv
<1>2. NotifTypeOK
  BY <1>1 DEF NotifInit, NotifTypeOK, Sending, Handling, Idle
<1>3. JobInv /\ CompletedIsDelivered
  BY SentinelAssumption DEF NotifInit, JobInv, CompletedIsDelivered, Queued, Live, Idle
<1> QED BY <1>2, <1>3 DEF QueueInv

(* Requests that send *)
LEMMA SenderStepInv ==
  ASSUME QueueInv, NEW w \in Senders, SenderStep(w)
  PROVE  QueueInv'
<1> USE DEF QueueInv
<1>1. UNCHANGED <<gatewayVars, handler, sent, lost>>
  BY DEF SenderStep, Send, RealTime, Create, Add, SendFails
<1>2. GatewayTypeOK'
  BY <1>1 DEF NotifTypeOK, GatewayTypeOK, gatewayVars
<1>3. ASSUME NEW dto \in Dtos, Send(w, dto) PROVE QueueInv'
  <2>1. NotifTypeOK'
    BY <1>1, <1>2, <1>3 DEF Send, NotifTypeOK, Sending
  <2>2. JobInv' /\ CompletedIsDelivered'
    BY <1>1, <1>3 DEF Send, NotifTypeOK, Sending, JobInv, CompletedIsDelivered, Queued, Live, Runs
  <2> QED BY <2>1, <2>2
<1>4. CASE SendFails(w)
  <2>1. NotifTypeOK'
    BY <1>1, <1>2, <1>4 DEF SendFails, NotifTypeOK, Sending, Idle
  <2>2. JobInv' /\ CompletedIsDelivered'
    BY <1>1, <1>4 DEF SendFails, NotifTypeOK, JobInv, CompletedIsDelivered, Queued, Live, Runs, Idle
  <2> QED BY <2>1, <2>2
<1>5. CASE Create(w)
  <2>1. PICK n \in Notifications :
          /\ row[n] = Unused
          /\ row' = [row EXCEPT ![n] = [status |-> "PENDING", attempts |-> 0]]
          /\ sender' = [sender EXCEPT ![w] = [at |-> "add", dto |-> @.dto, id |-> n]]
    BY <1>5 DEF Create
  <2>2. sender[w].dto \in Dtos /\ sender[w].at = "create"
    BY <1>5 DEF Create, NotifTypeOK, Sending
  <2>3. [status |-> "PENDING", attempts |-> 0] \in Row
    BY DEF Row, NotificationStatus, Attempts, MaxStalled
  <2>4. NotifTypeOK'
    BY <1>1, <1>2, <1>5, <2>1, <2>2, <2>3 DEF Create, NotifTypeOK, Sending
  <2>5. ~ Queued(n) /\ \A v \in Senders : sender[v].at = "add" => sender[v].id # n
    BY <2>1 DEF JobInv
  <2>6. JobInv'
    BY <1>1, <1>5, <2>1, <2>3, <2>5, Sentinels DEF Create, NotifTypeOK, JobInv, Queued, Live, Runs, Idle
  <2>7. CompletedIsDelivered'
    BY <1>5, <2>1, <2>5 DEF Create, NotifTypeOK, CompletedIsDelivered, Queued, Live
  <2> QED BY <2>4, <2>6, <2>7
<1>6. CASE Add(w)
  <2> DEFINE new == [dto |-> sender[w].dto, state |-> "waiting", attemptsMade |-> 0, stalled |-> 0]
  <2>1. sender[w].at = "add" /\ sender[w].id \in Notifications /\ sender[w].dto \in Dtos
    BY <1>6 DEF Add, NotifTypeOK, Sending
  <2>2. PICK n \in Notifications : n = sender[w].id
    BY <2>1
  <2>3. PICK j \in JobRow : j = new
    <3>1. 0 \in 0..Attempts /\ 0 \in 0..MaxStalled
      BY DEF Attempts, MaxStalled
    <3>2. new \in JobRow
      BY <2>1, <3>1 DEF JobRow
    <3> QED BY <3>2
  <2>4. job' = [job EXCEPT ![n] = j] /\ sender' = [sender EXCEPT ![w] = Idle] /\ UNCHANGED row
    BY <1>6, <2>2, <2>3 DEF Add
  <2>5. j.state = "waiting" /\ j.attemptsMade = 0 /\ j.stalled = 0
    BY <2>3
  <2>6. NotifTypeOK'
    BY <1>1, <1>2, <2>4 DEF NotifTypeOK, Sending, Idle
  <2>7. ~ Queued(n) /\ row[n] # Unused /\ (Live(n) => row[n].attempts = 0)
    BY <2>1, <2>2 DEF JobInv
  <2>8. \A v \in Senders : v # w /\ sender[v].at = "add" => sender[v].id # n
    BY <2>1, <2>2 DEF JobInv
  <2>9. JobInv'
    BY <1>1, <2>4, <2>5, <2>7, <2>8, Sentinels
    DEF NotifTypeOK, JobInv, Queued, Live, Runs, Idle, Attempts
  <2>10. CompletedIsDelivered'
    BY <2>4, <2>5 DEF NotifTypeOK, CompletedIsDelivered, Queued, Live
  <2> QED BY <2>6, <2>9, <2>10
<1> QED BY <1>3, <1>4, <1>5, <1>6 DEF SenderStep, RealTime

(* NotificationHistoryService: rows are read or go, jobs stay. *)
LEMMA HistoryStepInv ==
  ASSUME QueueInv, HistoryStep
  PROVE  QueueInv'
<1> USE DEF QueueInv
<1>1. UNCHANGED <<gatewayVars, job, sender, handler, sent, lost>>
  BY DEF HistoryStep, markAsRead, deleteNotification, cleanupOldNotifications
<1>2. \A n \in Notifications :
        \/ row'[n] = row[n]
        \/ Live(n) /\ row'[n] \in {Gone, [row[n] EXCEPT !.status = "READ"]}
  BY DEF HistoryStep, markAsRead, deleteNotification, cleanupOldNotifications, NotifTypeOK
<1>3. row' = [n \in Notifications |-> row'[n]]
  BY DEF HistoryStep, markAsRead, deleteNotification, cleanupOldNotifications, NotifTypeOK
<1>4. \A n \in Notifications : Live(n) =>
        LET read == [row[n] EXCEPT !.status = "READ"] IN
        read \in Row /\ read.status = "READ" /\ read.attempts = row[n].attempts
  BY Rows DEF Row, NotificationStatus
<1>5. NotifTypeOK'
  <2>1. row' \in [Notifications -> Row \cup {Unused, Gone}]
    BY <1>2, <1>3, <1>4 DEF NotifTypeOK
  <2> QED BY <1>1, <2>1 DEF NotifTypeOK, GatewayTypeOK, gatewayVars
<1>6. \A n \in Notifications :
        /\ Queued(n)' <=> Queued(n)
        /\ row[n] # Unused => row'[n] # Unused
        /\ Live(n)' => /\ Live(n)
                        /\ row'[n].attempts = row[n].attempts
                        /\ row'[n].status \in {row[n].status, "READ"}
  <2> TAKE n \in Notifications
  <2>1. CASE row'[n] = row[n]
    BY <1>1, <2>1 DEF Queued, Live
  <2>2. CASE Live(n) /\ row'[n] = Gone
    BY <1>1, <2>2, SentinelAssumption DEF Queued, Live
  <2>3. CASE Live(n) /\ row'[n] = [row[n] EXCEPT !.status = "READ"]
    BY <1>1, <1>4, <2>3, Sentinels DEF Queued, Live
  <2> QED BY <1>2, <2>1, <2>2, <2>3
<1>7. JobInv'
  BY <1>1, <1>6 DEF JobInv, NotifTypeOK, Sending, Handling, Idle, Runs
<1>8. CompletedIsDelivered'
  BY <1>1, <1>6 DEF CompletedIsDelivered
<1> QED BY <1>5, <1>7, <1>8

(* What the handler holds. *)
LEMMA InHand ==
  ASSUME QueueInv, handler # Idle
  PROVE  /\ handler.id \in Notifications
         /\ handler.at \in {"start", "send", "delivered", "error", "done", "throw"}
         /\ handler = [at |-> handler.at, id |-> handler.id]
         /\ Queued(handler.id)
         /\ job[handler.id] \in JobRow
         /\ job[handler.id].state = "active"
         /\ job[handler.id].attemptsMade < Attempts
         /\ row[handler.id] # Unused
BY Rows DEF QueueInv, NotifTypeOK, Handling, Idle, JobInv

(* The handler moves on and touches neither row nor job. *)
LEMMA MoveInv ==
  ASSUME QueueInv, handler # Idle,
         NEW at \in {"delivered", "error", "throw"}, Then(at),
         UNCHANGED <<gatewayVars, row, job, sender>>,
         sent' \in [Notifications -> Nat], lost' \in [Notifications -> Nat]
  PROVE  QueueInv'
<1> USE DEF QueueInv
<1>1. handler' = [at |-> at, id |-> handler.id]
  BY DEF Then
<1>2. NotifTypeOK'
  BY <1>1, InHand DEF NotifTypeOK, GatewayTypeOK, gatewayVars, Handling
<1>3. JobInv'
  <2>1. handler' # Idle /\ handler'.at \notin {"start", "done"} /\ handler'.id = handler.id
    BY <1>1 DEF Idle
  <2> QED BY <2>1, InHand DEF JobInv, Queued, Live, Runs
<1>4. CompletedIsDelivered'
  BY DEF CompletedIsDelivered, Queued, Live
<1> QED BY <1>2, <1>3, <1>4

(* The handler writes its row, and its job stays active. *)
LEMMA WriteInv ==
  ASSUME QueueInv, handler # Idle, Live(handler.id),
         NEW r \in Row, row' = [row EXCEPT ![handler.id] = r],
         NEW at \in {"send", "done", "throw"}, Then(at),
         at = "done" => r.status \in {"DELIVERED", "READ"},
         r.attempts <= row[handler.id].attempts + (IF handler.at = "start" THEN 1 ELSE 0),
         UNCHANGED <<gatewayVars, job, sender, sent, lost>>
  PROVE  QueueInv'
<1> USE DEF QueueInv
<1>1. PICK n \in Notifications : n = handler.id
  BY InHand
<1>2. handler' = [at |-> at, id |-> n]
  BY <1>1 DEF Then
<1>3. row' = [row EXCEPT ![n] = r] /\ row'[n] = r
  BY <1>1 DEF NotifTypeOK
<1>4. NotifTypeOK'
  BY <1>2, <1>3 DEF NotifTypeOK, GatewayTypeOK, gatewayVars, Handling
<1>5. /\ Queued(n) /\ row[n] # Unused /\ job[n].state = "active" /\ job[n].attemptsMade < Attempts
      /\ r.attempts <= Runs(n) + 1
  BY <1>1, InHand, Rows DEF JobInv, JobRow, Row, Runs, Attempts, MaxStalled
<1>6. JobInv'
  <2>1. handler' # Idle /\ handler'.at # "start" /\ handler'.at = at /\ handler'.id = n
    BY <1>2 DEF Idle
  <2> QED BY <2>1, <1>3, <1>5, Sentinels DEF JobInv, Queued, Live, Runs, NotifTypeOK, Attempts
<1>7. CompletedIsDelivered'
  BY <1>3, <1>5 DEF CompletedIsDelivered, Queued, Live, NotifTypeOK
<1> QED BY <1>4, <1>6, <1>7

(* The queue takes the job back, and the handler is free. *)
LEMMA LeaveInv ==
  ASSUME QueueInv, handler # Idle,
         NEW j \in JobRow, job' = [job EXCEPT ![handler.id] = j], handler' = Idle,
         j.state = "completed" /\ Live(handler.id) =>
           row[handler.id].status \in {"DELIVERED", "READ"},
         j.state # "active",
         \/ /\ j.state = "completed"
            /\ j.attemptsMade = job[handler.id].attemptsMade /\ j.stalled = job[handler.id].stalled
         \/ /\ j.state \in {"waiting", "failed"}
            /\ j.attemptsMade = job[handler.id].attemptsMade + 1
            /\ j.stalled = job[handler.id].stalled
            /\ j.state = "waiting" => j.attemptsMade < Attempts,
         UNCHANGED <<gatewayVars, row, sender, sent, lost>>
  PROVE  QueueInv'
<1> USE DEF QueueInv
<1>1. PICK n \in Notifications : n = handler.id
  BY InHand
<1>2. job' = [job EXCEPT ![n] = j] /\ job'[n] = j
  BY <1>1 DEF NotifTypeOK
<1>3. NotifTypeOK'
  BY <1>2 DEF NotifTypeOK, GatewayTypeOK, gatewayVars, Handling, Idle
<1>4. /\ Queued(n) /\ row[n] # Unused /\ job[n] \in JobRow
      /\ job[n].attemptsMade < Attempts
      /\ Live(n) => row[n].attempts <= Runs(n) + 1 /\ row[n] \in Row
  BY <1>1, InHand, Rows DEF JobInv
<1>5. Live(n) => /\ row[n].attempts <= j.attemptsMade + j.stalled + 1
                 /\ j.state = "waiting" \/ j.attemptsMade = Attempts =>
                      row[n].attempts <= j.attemptsMade + j.stalled
  BY <1>1, <1>4 DEF Runs, JobRow, Row, Attempts, MaxStalled
<1>6. JobInv'
  BY <1>2, <1>4, <1>5, Sentinels DEF JobInv, Queued, Live, Runs, NotifTypeOK, Idle
<1>7. CompletedIsDelivered'
  BY <1>1, <1>2 DEF CompletedIsDelivered, Queued, Live, NotifTypeOK
<1> QED BY <1>3, <1>6, <1>7

LEMMA HandlerStepInv ==
  ASSUME QueueInv, HandlerStep
  PROVE  QueueInv'
<1> USE DEF QueueInv
<1>1. ASSUME NEW n \in Notifications, Take(n) PROVE QueueInv'
  <2>1. PICK j \in JobRow : j = [job[n] EXCEPT !.state = "active"]
    BY <1>1, Rows DEF Take, JobRow
  <2>2. /\ job' = [job EXCEPT ![n] = j] /\ handler' = [at |-> "start", id |-> n]
        /\ UNCHANGED <<gatewayVars, row, sender, sent, lost>>
    BY <1>1, <2>1 DEF Take
  <2>3. /\ handler = Idle /\ Queued(n) /\ job[n] \in JobRow /\ job[n].state = "waiting"
        /\ j.state = "active" /\ j.attemptsMade = job[n].attemptsMade /\ j.stalled = job[n].stalled
    BY <1>1, <2>1, Rows DEF Take, JobRow
  <2>4. NotifTypeOK'
    BY <2>2 DEF NotifTypeOK, GatewayTypeOK, gatewayVars, Handling
  <2>5. JobInv'
    BY <2>2, <2>3, Rows, Sentinels DEF JobInv, Queued, Live, Runs, NotifTypeOK, Idle, JobRow, Row
  <2>6. CompletedIsDelivered'
    BY <2>2, <2>3 DEF CompletedIsDelivered, Queued, Live, NotifTypeOK
  <2> QED BY <2>4, <2>5, <2>6
<1>2. CASE Start
  <2>1. handler # Idle /\ handler.at = "start"
    BY <1>2 DEF Start, Idle
  <2>2. CASE Live(handler.id)
    <3>1. PICK n \in Notifications : n = handler.id
      BY <2>1, InHand
    <3>2. row[n] \in Row /\ row[n].attempts <= Runs(n) /\ job[n] \in JobRow
          /\ job[n].attemptsMade < Attempts
      BY <2>1, <2>2, <3>1, InHand, Rows DEF JobInv
    <3>3. PICK r \in Row : r = [status |-> "PENDING", attempts |-> row[n].attempts + 1]
      <4>1. row[n].attempts + 1 \in 0..(Attempts + MaxStalled)
        BY <3>2 DEF Runs, Row, JobRow, Attempts, MaxStalled
      <4> QED BY <4>1 DEF Row, NotificationStatus
    <3>4. row' = [row EXCEPT ![n] = r]
      BY <1>2, <2>2, <3>1, <3>3 DEF Start
    <3>5. r.attempts = row[n].attempts + 1
      BY <3>3
    <3>6. /\ row' = [row EXCEPT ![handler.id] = r] /\ Then("send")
          /\ UNCHANGED <<gatewayVars, job, sender, sent, lost>>
      BY <1>2, <2>2, <3>1, <3>4 DEF Start
    <3>7. r.attempts <= row[handler.id].attempts + (IF handler.at = "start" THEN 1 ELSE 0)
      BY <2>1, <3>1, <3>2, <3>5 DEF Row
    <3> QED BY <2>1, <2>2, <3>6, <3>7, WriteInv
  <2>3. CASE ~ Live(handler.id)
    <3>1. /\ Then("error")
          /\ UNCHANGED <<gatewayVars, row, job, sender>> /\ sent' = sent /\ lost' = lost
      BY <1>2, <2>3 DEF Start
    <3>2. sent' \in [Notifications -> Nat] /\ lost' \in [Notifications -> Nat]
      BY <3>1 DEF NotifTypeOK
    <3> QED BY <2>1, <3>1, <3>2, MoveInv
  <2> QED BY <2>2, <2>3
<1>3. ASSUME NEW accepts \in BOOLEAN, NEW answers \in BOOLEAN, SendEmail(accepts, answers)
      PROVE  QueueInv'
  <2>1. handler # Idle
    BY <1>3 DEF SendEmail, ToChannel, Idle
  <2>2. sent' \in [Notifications -> Nat] /\ lost' \in [Notifications -> Nat]
    BY <1>3, <2>1, InHand DEF SendEmail, Count, NotifTypeOK
  <2>3. PICK at \in {"delivered", "error"} : Then(at)
    BY <1>3 DEF SendEmail, AfterSend
  <2> QED BY <1>3, <2>1, <2>2, <2>3, MoveInv DEF SendEmail
<1>4. ASSUME NEW u \in Users, SendToUser(u) PROVE QueueInv'
  <2>1. handler # Idle
    BY <1>4 DEF SendToUser, ToChannel, Idle
  <2>2. sent' \in [Notifications -> Nat] /\ lost' \in [Notifications -> Nat]
    BY <1>4, <2>1, InHand DEF SendToUser, Count, NotifTypeOK
  <2>3. PICK at \in {"delivered", "error"} : Then(at)
    BY <1>4 DEF SendToUser, AfterSend
  <2> QED BY <1>4, <2>1, <2>2, <2>3, MoveInv DEF SendToUser
<1>5. CASE SendToTenant \/ SendUnsupported \/ \E channel \in Simulated : SendSimulated(channel)
  <2>1. handler.at = "send"
    BY <1>5 DEF SendToTenant, SendUnsupported, SendSimulated, ToChannel
  <2>2. handler # Idle
    BY <2>1 DEF Idle
  <2>3. PICK at \in {"delivered", "error"} : Then(at)
    BY <1>5 DEF SendToTenant, SendUnsupported, SendSimulated, AfterSend
  <2>4. UNCHANGED <<gatewayVars, row, job, sender>> /\ sent' = sent /\ lost' = lost
    BY <1>5 DEF SendToTenant, SendUnsupported, SendSimulated
  <2>5. sent' \in [Notifications -> Nat] /\ lost' \in [Notifications -> Nat]
    BY <2>4 DEF NotifTypeOK
  <2> QED BY <2>2, <2>3, <2>4, <2>5, MoveInv
<1>6. CASE Delivered
  <2>1. handler # Idle
    BY <1>6 DEF Delivered, Idle
  <2>2. CASE Live(handler.id)
    <3>1. PICK n \in Notifications : n = handler.id
      BY <2>1, InHand
    <3>2. PICK r \in Row : r = [row[n] EXCEPT !.status = "DELIVERED"]
      BY <2>2, <3>1, Rows DEF Row, NotificationStatus
    <3>3. r.status = "DELIVERED" /\ r.attempts = row[n].attempts /\ r.attempts \in Nat
      BY <2>2, <3>1, <3>2, Rows DEF Row
    <3>4. row' = [row EXCEPT ![n] = r]
      BY <1>6, <2>2, <3>1, <3>2 DEF Delivered, NotifTypeOK
    <3>5. /\ row' = [row EXCEPT ![handler.id] = r] /\ Then("done")
          /\ UNCHANGED <<gatewayVars, job, sender, sent, lost>>
      BY <1>6, <2>2, <3>1, <3>4 DEF Delivered
    <3>6. r.attempts <= row[handler.id].attempts + (IF handler.at = "start" THEN 1 ELSE 0)
      BY <3>1, <3>3
    <3> QED BY <2>1, <2>2, <3>3, <3>5, <3>6, WriteInv
  <2>3. CASE ~ Live(handler.id)
    <3>1. /\ Then("error")
          /\ UNCHANGED <<gatewayVars, row, job, sender>> /\ sent' = sent /\ lost' = lost
      BY <1>6, <2>3 DEF Delivered
    <3>2. sent' \in [Notifications -> Nat] /\ lost' \in [Notifications -> Nat]
      BY <3>1 DEF NotifTypeOK
    <3> QED BY <2>1, <3>1, <3>2, MoveInv
  <2> QED BY <2>2, <2>3
<1>7. CASE RecordError
  <2>1. handler # Idle
    BY <1>7 DEF RecordError, Idle
  <2>2. CASE Live(handler.id)
    <3>1. PICK n \in Notifications : n = handler.id
      BY <2>1, InHand
    <3>2. PICK r \in Row : r = [row[n] EXCEPT !.status = "PENDING"]
      BY <2>2, <3>1, Rows DEF Row, NotificationStatus
    <3>3. r.attempts = row[n].attempts /\ r.attempts \in Nat
      BY <2>2, <3>1, <3>2, Rows DEF Row
    <3>4. row' = [row EXCEPT ![n] = r] /\ Then("throw")
      BY <1>7, <2>2, <3>1, <3>2
      DEF RecordError, NotifTypeOK, AfterError, attempts, dataAttempts, maxAttempts
    <3>5. /\ row' = [row EXCEPT ![handler.id] = r] /\ Then("throw")
          /\ UNCHANGED <<gatewayVars, job, sender, sent, lost>>
      BY <1>7, <2>2, <3>1, <3>4 DEF RecordError
    <3>6. r.attempts <= row[handler.id].attempts + (IF handler.at = "start" THEN 1 ELSE 0)
      BY <3>1, <3>3
    <3> QED BY <2>1, <2>2, <3>3, <3>5, <3>6, WriteInv
  <2>3. CASE ~ Live(handler.id)
    <3>1. /\ Then("throw")
          /\ UNCHANGED <<gatewayVars, row, job, sender>> /\ sent' = sent /\ lost' = lost
      BY <1>7, <2>3 DEF RecordError
    <3>2. sent' \in [Notifications -> Nat] /\ lost' \in [Notifications -> Nat]
      BY <3>1 DEF NotifTypeOK
    <3> QED BY <2>1, <3>1, <3>2, MoveInv
  <2> QED BY <2>2, <2>3
<1>8. CASE CallFails
  <2>1. handler # Idle
    BY <1>8 DEF CallFails, Idle
  <2>2. sent' \in [Notifications -> Nat] /\ lost' \in [Notifications -> Nat]
    BY <1>8, <2>1, InHand DEF CallFails, Count, NotifTypeOK
  <2>3. PICK at \in {"error", "throw"} : Then(at)
    BY <1>8 DEF CallFails
  <2> QED BY <1>8, <2>1, <2>2, <2>3, MoveInv DEF CallFails
<1>9. CASE Complete
  <2>1. handler # Idle /\ handler.at = "done"
    BY <1>9 DEF Complete, Idle
  <2>2. PICK n \in Notifications : n = handler.id /\ job[n] \in JobRow
    BY <2>1, InHand
  <2>3. PICK j \in JobRow : j = [job[n] EXCEPT !.state = "completed"]
    BY <2>2 DEF JobRow
  <2>4. j.state = "completed" /\ j.attemptsMade = job[n].attemptsMade /\ j.stalled = job[n].stalled
    BY <2>2, <2>3 DEF JobRow
  <2>5. job' = [job EXCEPT ![n] = j]
    BY <1>9, <2>2, <2>3 DEF Complete, NotifTypeOK
  <2>6. Live(n) => row[n].status \in {"DELIVERED", "READ"}
    BY <2>1, <2>2 DEF JobInv
  <2> QED BY <1>9, <2>1, <2>2, <2>4, <2>5, <2>6, LeaveInv DEF Complete
<1>10. CASE FailAttempt
  <2>1. handler # Idle
    BY <1>10 DEF FailAttempt, Idle
  <2>2. PICK n \in Notifications :
          n = handler.id /\ job[n] \in JobRow /\ job[n].attemptsMade < Attempts
    BY <2>1, InHand
  <2>3. PICK made \in 0..Attempts : made = job[n].attemptsMade + 1
    BY <2>2 DEF JobRow, Attempts
  <2>4. PICK state \in {"waiting", "failed"} : state = IF GivenUp(made) THEN "failed" ELSE "waiting"
    OBVIOUS
  <2>5. PICK j \in JobRow : j = [job[n] EXCEPT !.attemptsMade = made, !.state = state]
    BY <2>2 DEF JobRow
  <2>6. j.state = state /\ j.attemptsMade = made /\ j.stalled = job[n].stalled
    BY <2>2, <2>5 DEF JobRow
  <2>7. job' = [job EXCEPT ![n] = j]
    BY <1>10, <2>2, <2>3, <2>4, <2>5 DEF FailAttempt, NotifTypeOK, JobRow
  <2>8. state = "waiting" => made < Attempts
    BY <2>4 DEF GivenUp, Attempts
  <2> QED BY <1>10, <2>1, <2>2, <2>3, <2>6, <2>7, <2>8, LeaveInv DEF FailAttempt
<1> QED
  BY <1>1, <1>2, <1>3, <1>4, <1>5, <1>6, <1>7, <1>8, <1>9, <1>10 DEF HandlerStep

LEMMA StalledInv ==
  ASSUME QueueInv, NEW n \in Notifications, Stalled(n)
  PROVE  QueueInv'
<1> USE DEF QueueInv
<1>1. /\ Queued(n) /\ job[n] \in JobRow /\ job[n].state = "active"
      /\ job[n].attemptsMade < Attempts /\ row[n] # Unused
      /\ Live(n) => row[n].attempts <= Runs(n) + 1 /\ row[n] \in Row
      /\ handler # Idle => handler.id # n
  BY Rows DEF Stalled, JobInv
<1>2. PICK j \in JobRow :
        /\ job' = [job EXCEPT ![n] = j]
        /\ j.attemptsMade = job[n].attemptsMade
        /\ \/ j.state = "waiting" /\ j.stalled = job[n].stalled + 1
           \/ j.state = "failed" /\ j.stalled = job[n].stalled
  <2>1. CASE job[n].stalled < MaxStalled
    <3>1. PICK s \in 0..MaxStalled : s = job[n].stalled + 1
      BY <1>1, <2>1 DEF JobRow, MaxStalled
    <3>2. PICK j \in JobRow : j = [job[n] EXCEPT !.state = "waiting", !.stalled = s]
      BY <1>1 DEF JobRow
    <3>3. job' = [job EXCEPT ![n] = j]
      BY <2>1, <3>1, <3>2 DEF Stalled, NotifTypeOK
    <3> QED BY <1>1, <3>1, <3>2, <3>3 DEF JobRow
  <2>2. CASE ~ (job[n].stalled < MaxStalled)
    <3>1. PICK j \in JobRow : j = [job[n] EXCEPT !.state = "failed"]
      BY <1>1 DEF JobRow
    <3>2. job' = [job EXCEPT ![n] = j]
      BY <2>2, <3>1 DEF Stalled, NotifTypeOK
    <3> QED BY <1>1, <3>1, <3>2 DEF JobRow
  <2> QED BY <2>1, <2>2
<1>3. UNCHANGED <<gatewayVars, row, sender, handler, sent, lost>>
  BY DEF Stalled
<1>4. NotifTypeOK'
  BY <1>2, <1>3 DEF NotifTypeOK, GatewayTypeOK, gatewayVars
<1>5. Live(n) => /\ row[n].attempts <= j.attemptsMade + j.stalled + 1
                 /\ j.state = "waiting" => row[n].attempts <= j.attemptsMade + j.stalled
  BY <1>1, <1>2 DEF Runs, JobRow, Row
<1>6. JobInv'
  <2>1. job'[n] = j /\ \A m \in Notifications : m # n => job'[m] = job[m]
    BY <1>2 DEF NotifTypeOK
  <2>2. handler # Idle => handler.at \in {"start", "send", "delivered", "error", "done", "throw"}
    BY InHand
  <2>3. handler.at \in {"start", "done"} => handler # Idle
    BY DEF Idle
  <2> QED BY <1>1, <1>2, <1>3, <1>5, <2>1, <2>3, Sentinels
       DEF JobInv, Queued, Live, Runs, NotifTypeOK, Sending, Handling, Attempts
<1>7. CompletedIsDelivered'
  BY <1>1, <1>2, <1>3 DEF CompletedIsDelivered, Queued, Live, NotifTypeOK
<1> QED BY <1>4, <1>6, <1>7

LEMMA CrashInv ==
  ASSUME QueueInv, Crash
  PROVE  QueueInv'
<1> USE DEF QueueInv
<1>1. GatewayTypeOK'
  BY NoneAssumption DEF Crash, GatewayRestart, NotifTypeOK, GatewayTypeOK
<1>2. lost' \in [Notifications -> Nat]
  <2>1. CASE handler.at \in {"delivered", "done"}
    <3>1. handler.id \in Notifications
      BY <2>1 DEF NotifTypeOK, Handling
    <3> QED BY <2>1, <3>1 DEF Crash, NotifTypeOK
  <2>2. CASE handler.at \notin {"delivered", "done"}
    BY <2>2 DEF Crash, NotifTypeOK
  <2> QED BY <2>1, <2>2
<1>3. NotifTypeOK'
  BY <1>1, <1>2 DEF Crash, NotifTypeOK, Sending, Handling, Idle
<1>4. JobInv' /\ CompletedIsDelivered'
  BY DEF Crash, JobInv, CompletedIsDelivered, Queued, Live, Runs, Idle
<1> QED BY <1>3, <1>4

(* Neither the gateway nor a stuttering step touches the queue. *)
LEMMA OutsideInv ==
  ASSUME QueueInv, UNCHANGED queueVars, GatewayTypeOK'
  PROVE  QueueInv'
BY DEF QueueInv, NotifTypeOK, queueVars, JobInv, CompletedIsDelivered, Queued, Live, Runs

LEMMA QueueStepInv == QueueInv /\ [NotifNext]_notifVars => QueueInv'
<1> SUFFICES ASSUME QueueInv, [NotifNext]_notifVars PROVE QueueInv'
  OBVIOUS
<1>1. CASE GatewayStep /\ UNCHANGED queueVars
  <2>1. GatewayTypeOK'
    BY <1>1 DEF GatewayStep, handleConnection, handleAuthentication, handleDisconnect, Forget,
                GatewayTypeOK, QueueInv, NotifTypeOK
  <2> QED BY <1>1, <2>1, OutsideInv
<1>2. CASE UNCHANGED notifVars
  BY <1>2, OutsideInv DEF notifVars, gatewayVars, GatewayTypeOK, QueueInv, NotifTypeOK
<1> QED
  BY <1>1, <1>2, SenderStepInv, HistoryStepInv, HandlerStepInv, StalledInv, CrashInv DEF NotifNext

(* Rows, jobs and requests keep their types; in particular a row counts at
   most one attempt more than its maxAttempts, for the run after a crash. *)
THEOREM NotifTypeCorrect == NotifSpec => []NotifTypeOK
<1>1. QueueInv => NotifTypeOK
  BY DEF QueueInv
<1> QED BY <1>1, QueueInitInv, QueueStepInv, PTL DEF NotifSpec

(* A completed job has a delivered row, however requests, retries, crashes
   and deletions interleave. *)
THEOREM CompletedDelivered == NotifSpec => []CompletedIsDelivered
<1>1. QueueInv => CompletedIsDelivered
  BY DEF QueueInv
<1> QED BY <1>1, QueueInitInv, QueueStepInv, PTL DEF NotifSpec

-----------------------------------------------------------------------------
(* Repetitions *)

At(n, places) == handler.at \in places /\ handler.id = n

(* A message that went out and is not accounted for by a loss: the handler
   is about to record it, or has; or the row is gone, and no later run gets
   as far as sending. *)
Accounted(n) ==
  \/ sent[n] <= lost[n]
  \/ /\ sent[n] = lost[n] + 1
     /\ \/ At(n, {"delivered", "done"})
        \/ Queued(n) /\ job[n].state = "completed"
        \/ row[n] = Gone /\ ~ At(n, {"send"})

RepeatInv == \A n \in Notifications : Accounted(n)

LEMMA RepeatInit == NotifInit => RepeatInv
BY DEF NotifInit, RepeatInv, Accounted

(* Nothing but the handler, a crash or a stall concerns a message sent. *)
LEMMA RepeatRest ==
  ASSUME QueueInv, RepeatInv, UNCHANGED <<handler, sent, lost>>,
         \/ \E w \in Senders : SenderStep(w)
         \/ HistoryStep
         \/ \E n \in Notifications : Stalled(n)
         \/ UNCHANGED queueVars
  PROVE  RepeatInv'
<1>1. \A n \in Notifications : row[n] = Gone => row'[n] = Gone
  <2>1. ASSUME NEW w \in Senders, SenderStep(w)
        PROVE  \A n \in Notifications : row[n] = Gone => row'[n] = Gone
    BY <2>1, SentinelAssumption
    DEF SenderStep, Send, RealTime, Create, Add, SendFails, QueueInv, NotifTypeOK
  <2>2. CASE HistoryStep
    BY <2>2 DEF HistoryStep, markAsRead, deleteNotification, cleanupOldNotifications, Live,
                QueueInv, NotifTypeOK
  <2>3. ASSUME NEW m \in Notifications, Stalled(m) PROVE row' = row
    BY <2>3 DEF Stalled
  <2> QED BY <2>1, <2>2, <2>3 DEF queueVars
<1>2. \A n \in Notifications :
        Queued(n) /\ job[n].state = "completed" => (Queued(n) /\ job[n].state = "completed")'
  <2>1. ASSUME NEW w \in Senders, SenderStep(w), NEW n \in Notifications, Queued(n)
        PROVE  job'[n] = job[n]
    <3>1. CASE Add(w)
      <4>1. ~ Queued(sender[w].id)
        BY <3>1 DEF Add, QueueInv, JobInv
      <4> QED BY <2>1, <3>1, <4>1 DEF Add, QueueInv, NotifTypeOK
    <3> QED BY <2>1, <3>1 DEF SenderStep, Send, RealTime, Create, SendFails
  <2>2. ASSUME NEW m \in Notifications, Stalled(m), NEW n \in Notifications,
               Queued(n), job[n].state = "completed"
        PROVE  job'[n] = job[n]
    BY <2>2 DEF Stalled, QueueInv, NotifTypeOK
  <2>3. CASE HistoryStep
    BY <2>3 DEF HistoryStep, markAsRead, deleteNotification, cleanupOldNotifications, Queued
  <2> QED BY <2>1, <2>2, <2>3 DEF Queued, queueVars
<1> QED BY <1>1, <1>2 DEF RepeatInv, Accounted, At

(* A step of the handler concerns the one notification it has in hand. *)
LEMMA RepeatFrame ==
  ASSUME RepeatInv, NEW h \in Notifications, handler # Idle, handler.id = h,
         handler' = Idle \/ handler'.id = h,
         \A n \in Notifications : n # h =>
           sent'[n] = sent[n] /\ lost'[n] = lost[n] /\ row'[n] = row[n] /\ job'[n] = job[n],
         Accounted(h)'
  PROVE  RepeatInv'
<1> SUFFICES ASSUME NEW n \in Notifications, n # h PROVE Accounted(n)'
  BY DEF RepeatInv
<1>1. Accounted(n)
  BY DEF RepeatInv
<1>2. ~ At(n, {"delivered", "done"}) /\ ~ At(n, {"send"})'
  BY DEF At, Idle
<1> QED BY <1>1, <1>2 DEF Accounted, Queued

LEMMA RepeatHandler ==
  ASSUME QueueInv, RepeatInv, HandlerStep
  PROVE  RepeatInv'
<1>1. ASSUME NEW n \in Notifications, Take(n) PROVE RepeatInv'
  <2>1. /\ UNCHANGED <<row, sent, lost>> /\ handler = Idle /\ handler' = [at |-> "start", id |-> n]
        /\ Queued(n) /\ job[n].state = "waiting"
        /\ \A m \in Notifications : m # n => job'[m] = job[m]
    BY <1>1 DEF Take, QueueInv, NotifTypeOK
  <2>2. \A m \in Notifications : ~ At(m, {"delivered", "done"})
    BY <2>1 DEF At, Idle
  <2> QED BY <2>1, <2>2 DEF RepeatInv, Accounted, At, Queued
<1> SUFFICES ASSUME handler # Idle PROVE RepeatInv'
  <2>1. HandlerStep /\ handler = Idle => \E n \in Notifications : Take(n)
    <3> SUFFICES ASSUME HandlerStep, handler.at = "idle"
                 PROVE  \E n \in Notifications : Take(n)
      BY DEF Idle
    <3>1. ~ Start /\ ~ Delivered /\ ~ RecordError /\ ~ CallFails /\ ~ Complete /\ ~ FailAttempt
      BY DEF Start, Delivered, RecordError, CallFails, Complete, FailAttempt
    <3>2. \A channel : ~ ToChannel(channel)
      BY DEF ToChannel
    <3>3. /\ ~ SendToTenant /\ ~ SendUnsupported
          /\ ~ \E accepts, answers \in BOOLEAN : SendEmail(accepts, answers)
          /\ ~ \E channel \in Simulated : SendSimulated(channel)
          /\ ~ \E u \in Users : SendToUser(u)
      BY <3>2 DEF SendToTenant, SendUnsupported, SendSimulated, SendEmail, SendToUser
    <3> QED BY <3>1, <3>3 DEF HandlerStep
  <2> QED BY <1>1, <2>1
<1>2. PICK h \in Notifications : h = handler.id
  BY InHand
<1>3. /\ job[h].state = "active" /\ Queued(h) /\ row[h] # Unused
      /\ sent[h] \in Nat /\ lost[h] \in Nat /\ Accounted(h)
  BY <1>2, InHand DEF QueueInv, NotifTypeOK, RepeatInv
<1>5. CASE Start
  <2>1. /\ handler'.id = h /\ sent' = sent /\ lost' = lost /\ job' = job
        /\ \A n \in Notifications : n # h => row'[n] = row[n]
    BY <1>5, <1>2 DEF Start, Then, QueueInv, NotifTypeOK
  <2>2. Accounted(h)'
    BY <1>5, <1>2, <1>3, <2>1, SentinelAssumption DEF Start, Then, Accounted, At, Live, Queued
  <2> QED BY <1>2, <2>1, <2>2, RepeatFrame
<1>6. CASE SendToTenant \/ SendUnsupported \/ \E channel \in Simulated : SendSimulated(channel)
  <2>1. UNCHANGED <<row, job, sent, lost>> /\ handler.at = "send"
    BY <1>6 DEF SendToTenant, SendUnsupported, SendSimulated, ToChannel
  <2>2. handler'.id = h
    <3>1. CASE SendToTenant
      BY <1>2, <3>1 DEF SendToTenant, Then
    <3>2. CASE SendUnsupported
      BY <1>2, <3>2 DEF SendUnsupported, Then
    <3>3. ASSUME NEW channel \in Simulated, SendSimulated(channel) PROVE handler'.id = h
      BY <1>2, <3>3 DEF SendSimulated, Then
    <3> QED BY <1>6, <3>1, <3>2, <3>3
  <2>3. sent[h] <= lost[h]
    BY <1>2, <1>3, <2>1 DEF Accounted, At
  <2>4. Accounted(h)'
    BY <2>1, <2>3 DEF Accounted
  <2> QED BY <1>2, <2>1, <2>2, <2>4, RepeatFrame
<1>7. ASSUME NEW accepts \in BOOLEAN, NEW answers \in BOOLEAN, SendEmail(accepts, answers)
      PROVE  RepeatInv'
  <2>1. /\ handler.at = "send" /\ sent[h] <= lost[h]
        /\ handler'.id = h /\ UNCHANGED <<row, job>>
    BY <1>7, <1>2, <1>3 DEF SendEmail, ToChannel, Then, Accounted, At
  <2>2. PICK p \in {0, 1}, q \in {0, 1} :
          /\ sent' = [sent EXCEPT ![h] = @ + p] /\ lost' = [lost EXCEPT ![h] = @ + q]
          /\ p <= q \/ handler'.at = "delivered"
    <3>1. PICK p \in {0, 1} : p = IF accepts THEN 1 ELSE 0
      OBVIOUS
    <3>2. PICK q \in {0, 1} : q = IF answers THEN 0 ELSE 1
      OBVIOUS
    <3>3. sent' = [sent EXCEPT ![h] = @ + p] /\ lost' = [lost EXCEPT ![h] = @ + q]
      BY <1>2, <1>7, <3>1, <3>2 DEF SendEmail, Count
    <3>4. accepts /\ answers => handler'.at = "delivered"
      BY <1>7 DEF SendEmail, AfterSend, Then
    <3>5. p <= q \/ handler'.at = "delivered"
      <4>1. CASE accepts /\ answers
        BY <3>4, <4>1
      <4>2. CASE ~ accepts
        BY <3>1, <4>2
      <4>3. CASE ~ answers
        BY <3>1, <3>2, <4>3
      <4> QED BY <4>1, <4>2, <4>3
    <3> QED BY <3>3, <3>5
  <2>3. /\ sent'[h] = sent[h] + p /\ lost'[h] = lost[h] + q
        /\ \A n \in Notifications : n # h => sent'[n] = sent[n] /\ lost'[n] = lost[n]
    BY <2>2 DEF QueueInv, NotifTypeOK
  <2>4. Accounted(h)'
    BY <1>3, <2>1, <2>2, <2>3 DEF Accounted, At
  <2> QED BY <1>2, <2>1, <2>3, <2>4, RepeatFrame
<1>8. ASSUME NEW u \in Users, SendToUser(u) PROVE RepeatInv'
  <2>1. /\ handler.at = "send" /\ sent[h] <= lost[h]
        /\ handler'.id = h /\ UNCHANGED <<row, job>>
    BY <1>8, <1>2, <1>3 DEF SendToUser, ToChannel, Then, Accounted, At
  <2>2. PICK p \in {0, 1}, q \in {0, 1} :
          /\ sent' = [sent EXCEPT ![h] = @ + p] /\ lost' = [lost EXCEPT ![h] = @ + q]
          /\ p <= q \/ handler'.at = "delivered"
    <3>1. PICK p \in {0, 1} : p = IF Reaches(u) THEN 1 ELSE 0
      OBVIOUS
    <3>2. sent' = [sent EXCEPT ![h] = @ + p] /\ lost' = [lost EXCEPT ![h] = @ + 0]
      BY <1>2, <1>8, <3>1 DEF SendToUser, Count
    <3>3. Reaches(u) => handler'.at = "delivered"
      BY <1>8 DEF SendToUser, AfterSend, Then, Reaches
    <3>4. p <= 0 \/ handler'.at = "delivered"
      <4>1. CASE Reaches(u)
        BY <3>3, <4>1
      <4>2. CASE ~ Reaches(u)
        BY <3>1, <4>2
      <4> QED BY <4>1, <4>2
    <3> QED BY <3>2, <3>4
  <2>3. /\ sent'[h] = sent[h] + p /\ lost'[h] = lost[h] + q
        /\ \A n \in Notifications : n # h => sent'[n] = sent[n] /\ lost'[n] = lost[n]
    BY <2>2 DEF QueueInv, NotifTypeOK
  <2>4. Accounted(h)'
    BY <1>3, <2>1, <2>2, <2>3 DEF Accounted, At
  <2> QED BY <1>2, <2>1, <2>3, <2>4, RepeatFrame
<1>9. CASE Delivered
  <2>1. /\ handler'.id = h /\ sent' = sent /\ lost' = lost /\ job' = job
        /\ \A n \in Notifications : n # h => row'[n] = row[n]
    BY <1>9, <1>2 DEF Delivered, Then, QueueInv, NotifTypeOK
  <2>2. Accounted(h)'
    BY <1>9, <1>2, <1>3, <2>1, SentinelAssumption DEF Delivered, Then, Accounted, At, Live, Queued
  <2> QED BY <1>2, <2>1, <2>2, RepeatFrame
<1>10. CASE RecordError
  <2>1. /\ handler'.id = h /\ sent' = sent /\ lost' = lost /\ job' = job
        /\ \A n \in Notifications : n # h => row'[n] = row[n]
    BY <1>10, <1>2 DEF RecordError, Then, QueueInv, NotifTypeOK
  <2>2. Accounted(h)'
    BY <1>10, <1>2, <1>3, <2>1, SentinelAssumption DEF RecordError, Then, Accounted, At, Live, Queued
  <2> QED BY <1>2, <2>1, <2>2, RepeatFrame
<1>11. CASE CallFails
  <2>1. PICK q \in {0, 1} :
          /\ sent' = [sent EXCEPT ![h] = @ + 0] /\ lost' = [lost EXCEPT ![h] = @ + q]
          /\ handler.at = "delivered" => q = 1
    BY <1>2, <1>11 DEF CallFails, Count
  <2>2. /\ sent'[h] = sent[h] /\ lost'[h] = lost[h] + q
        /\ \A n \in Notifications : n # h => sent'[n] = sent[n] /\ lost'[n] = lost[n]
    BY <1>3, <2>1 DEF QueueInv, NotifTypeOK
  <2>3. /\ handler.at \in {"start", "delivered", "error"} /\ handler'.at \in {"error", "throw"}
        /\ handler'.id = h /\ UNCHANGED <<row, job>>
    BY <1>2, <1>11 DEF CallFails, Then
  <2>4. Accounted(h)'
    BY <1>2, <1>3, <2>1, <2>2, <2>3 DEF Accounted, At, Queued
  <2> QED BY <1>2, <2>2, <2>3, <2>4, RepeatFrame
<1>12. CASE Complete
  <2>1. /\ handler' = Idle /\ UNCHANGED <<row, sent, lost>>
        /\ \A n \in Notifications : n # h => job'[n] = job[n]
    BY <1>2, <1>12 DEF Complete, QueueInv, NotifTypeOK
  <2>2. Queued(h)' /\ job'[h].state = "completed"
    <3>1. PICK j \in JobRow : j = [job[h] EXCEPT !.state = "completed"]
      BY <1>3, Rows DEF QueueInv, JobRow
    <3>2. job'[h] = j /\ j.state = "completed"
      BY <1>2, <1>3, <1>12, <3>1, Rows DEF Complete, QueueInv, NotifTypeOK, JobRow
    <3> QED BY <3>2, Sentinels DEF Queued
  <2>3. Accounted(h)'
    BY <1>2, <1>3, <2>1, <2>2 DEF Accounted, At, Idle
  <2> QED BY <1>2, <2>1, <2>3, RepeatFrame
<1>13. CASE FailAttempt
  <2>1. /\ handler' = Idle /\ UNCHANGED <<row, sent, lost>>
        /\ \A n \in Notifications : n # h => job'[n] = job[n]
    BY <1>2, <1>13 DEF FailAttempt, QueueInv, NotifTypeOK
  <2>2. handler.at = "throw"
    BY <1>13 DEF FailAttempt
  <2>3. Accounted(h)'
    BY <1>2, <1>3, <2>1, <2>2 DEF Accounted, At, Idle
  <2> QED BY <1>2, <2>1, <2>3, RepeatFrame
<1> QED
  BY <1>1, <1>5, <1>6, <1>7, <1>8, <1>9, <1>10, <1>11, <1>12, <1>13 DEF HandlerStep

LEMMA RepeatStep == QueueInv /\ RepeatInv /\ [NotifNext]_notifVars => RepeatInv'
<1> SUFFICES ASSUME QueueInv, RepeatInv, [NotifNext]_notifVars PROVE RepeatInv'
  OBVIOUS
<1>1. ASSUME NEW w \in Senders, SenderStep(w) PROVE RepeatInv'
  <2>1. UNCHANGED <<handler, sent, lost>>
    BY <1>1 DEF SenderStep, Send, RealTime, Create, Add, SendFails
  <2> QED BY <1>1, <2>1, RepeatRest
<1>2. CASE HistoryStep
  <2>1. UNCHANGED <<handler, sent, lost>>
    BY <1>2 DEF HistoryStep, markAsRead, deleteNotification, cleanupOldNotifications
  <2> QED BY <1>2, <2>1, RepeatRest
<1>3. ASSUME NEW n \in Notifications, Stalled(n) PROVE RepeatInv'
  <2>1. UNCHANGED <<handler, sent, lost>>
    BY <1>3 DEF Stalled
  <2> QED BY <1>3, <2>1, RepeatRest
<1>4. CASE UNCHANGED queueVars
  BY <1>4, RepeatRest DEF queueVars
<1>5. CASE Crash
  <2>1. UNCHANGED <<row, job, sent>> /\ handler' = Idle
    BY <1>5 DEF Crash
  <2>2. ASSUME NEW n \in Notifications PROVE Accounted(n)'
    <3>1. Accounted(n) /\ sent[n] \in Nat /\ lost[n] \in Nat
      BY DEF RepeatInv, QueueInv, NotifTypeOK
    <3>2. CASE At(n, {"delivered", "done"})
      <4>1. lost'[n] = lost[n] + 1
        BY <1>5, <3>2 DEF Crash, At, QueueInv, NotifTypeOK
      <4> QED BY <2>1, <3>1, <4>1 DEF Accounted
    <3>3. CASE ~ At(n, {"delivered", "done"})
      <4>1. lost'[n] = lost[n]
        BY <1>5, <3>3 DEF Crash, At, QueueInv, NotifTypeOK
      <4> QED BY <2>1, <3>1, <3>3, <4>1 DEF Accounted, At, Idle, Queued
    <3> QED BY <3>2, <3>3
  <2> QED BY <2>2 DEF RepeatInv
<1> QED
  BY <1>1, <1>2, <1>3, <1>4, <1>5, RepeatHandler DEF NotifNext, notifVars

(* Nobody gets a message again for a retry alone: there are at most as many
   repetitions as answers, writes and processes lost. *)
THEOREM RepeatsBounded == NotifSpec => []RepeatsOnlyAfterLoss
<1>1. QueueInv /\ RepeatInv => RepeatsOnlyAfterLoss
  BY DEF QueueInv, NotifTypeOK, RepeatInv, Accounted, RepeatsOnlyAfterLoss
<1> QED BY <1>1, QueueInitInv, QueueStepInv, RepeatInit, RepeatStep, PTL DEF NotifSpec

-----------------------------------------------------------------------------
(* Delivery *)

(* A message of n went out, or n goes to a tenant's room or to a service that
   only logs. *)
Unwatched == {"tenant"} \cup Simulated
Told(n) == job[n].dto.channel \in Unwatched \/ sent[n] > 0

(* From the answer of the send method on, whatever becomes of the sockets,
   the row and the job meanwhile. *)
DeliveryInv ==
  \A n \in Notifications :
    /\ Live(n) /\ row[n].status = "DELIVERED" => Queued(n) /\ Told(n)
    /\ At(n, {"delivered"}) => Told(n)

(* What a step has to leave alone: what went out stays so, a job keeps what
   it sends, and only the handler that was told turns a row to DELIVERED. *)
LEMMA DeliveryFrame ==
  ASSUME QueueInv, DeliveryInv,
         \A n \in Notifications :
           /\ sent'[n] \in Nat /\ sent'[n] >= sent[n]
           /\ Queued(n) => Queued(n)' /\ job'[n].dto = job[n].dto
           /\ Live(n)' /\ row'[n].status = "DELIVERED" =>
                \/ Live(n) /\ row[n].status = "DELIVERED"
                \/ At(n, {"delivered"})
           /\ At(n, {"delivered"})' => At(n, {"delivered"}) \/ Told(n)'
  PROVE  DeliveryInv'
<1> SUFFICES ASSUME NEW n \in Notifications
             PROVE  /\ Live(n)' /\ row'[n].status = "DELIVERED" => Queued(n)' /\ Told(n)'
                    /\ At(n, {"delivered"})' => Told(n)'
  BY DEF DeliveryInv
<1>1. sent[n] \in Nat
  BY DEF QueueInv, NotifTypeOK
<1>2. Queued(n) /\ Told(n) => Queued(n)' /\ Told(n)'
  BY <1>1 DEF Told
<1>3. At(n, {"delivered"}) => Queued(n) /\ Told(n)
  BY InHand DEF DeliveryInv, At, Idle
<1> QED BY <1>2, <1>3 DEF DeliveryInv

LEMMA SentGrows ==
  ASSUME QueueInv, handler # Idle, NEW k \in {0, 1},
         sent' = [sent EXCEPT ![handler.id] = @ + k]
  PROVE  \A n \in Notifications :
           /\ sent'[n] \in Nat /\ sent'[n] >= sent[n]
           /\ k = 1 /\ n = handler.id => sent'[n] > 0
BY InHand DEF QueueInv, NotifTypeOK

(* An attempt to send: the answer decides where the handler goes. *)
LEMMA AttemptDelivers ==
  ASSUME QueueInv, DeliveryInv, handler.at = "send", UNCHANGED <<row, job>>,
         NEW k \in {0, 1}, sent' = [sent EXCEPT ![handler.id] = @ + k],
         NEW at \in {"delivered", "error"}, Then(at),
         at = "delivered" => k = 1 \/ job[handler.id].dto.channel \in Unwatched
  PROVE  DeliveryInv'
<1>1. handler # Idle
  BY DEF Idle
<1>2. \A n \in Notifications : /\ sent'[n] \in Nat /\ sent'[n] >= sent[n]
                               /\ k = 1 /\ n = handler.id => sent'[n] > 0
  BY <1>1, SentGrows
<1>3. handler'.at = at /\ handler'.id = handler.id
  BY DEF Then
<1>4. \A n \in Notifications : At(n, {"delivered"})' => Told(n)'
  BY <1>2, <1>3 DEF At, Told
<1>5. \A n \in Notifications : (Queued(n)' <=> Queued(n)) /\ (Live(n)' <=> Live(n))
  BY DEF Queued, Live
<1> QED BY <1>2, <1>4, <1>5, DeliveryFrame

LEMMA HandlerDelivers ==
  ASSUME QueueInv, GatewayInv, DeliveryInv, HandlerStep
  PROVE  DeliveryInv'
<1>0. \A n \in Notifications : sent[n] \in Nat
  BY DEF QueueInv, NotifTypeOK
<1>1. ASSUME NEW accepts \in BOOLEAN, NEW answers \in BOOLEAN, SendEmail(accepts, answers)
      PROVE  DeliveryInv'
  <2>1. PICK k \in {0, 1} : k = IF accepts THEN 1 ELSE 0
    OBVIOUS
  <2>2. PICK at \in {"delivered", "error"} : at = AfterSend(accepts /\ answers)
    BY DEF AfterSend
  <2>3. sent' = [sent EXCEPT ![handler.id] = @ + k] /\ Then(at)
    BY <1>1, <2>1, <2>2 DEF SendEmail, Count
  <2>4. at = "delivered" => k = 1
    <3>1. CASE accepts
      BY <2>1, <3>1
    <3>2. CASE ~ accepts
      BY <2>2, <3>2 DEF AfterSend
    <3> QED BY <3>1, <3>2
  <2>5. handler.at = "send" /\ UNCHANGED <<row, job>>
    BY <1>1 DEF SendEmail, ToChannel
  <2> QED BY <2>3, <2>4, <2>5, AttemptDelivers
<1>2. ASSUME NEW u \in Users, SendToUser(u) PROVE DeliveryInv'
  <2>1. PICK k \in {0, 1} : k = IF Reaches(u) THEN 1 ELSE 0
    OBVIOUS
  <2>2. PICK at \in {"delivered", "error"} : at = AfterSend(Listed(u))
    BY DEF AfterSend
  <2>3. sent' = [sent EXCEPT ![handler.id] = @ + k] /\ Then(at)
    BY <1>2, <2>1, <2>2 DEF SendToUser, Count
  <2>4. at = "delivered" => k = 1
    <3>1. CASE Listed(u)
      BY <2>1, <3>1 DEF GatewayInv, ListedIsOpen
    <3>2. CASE ~ Listed(u)
      BY <2>2, <3>2 DEF AfterSend
    <3> QED BY <3>1, <3>2
  <2>5. handler.at = "send" /\ UNCHANGED <<row, job>>
    BY <1>2 DEF SendToUser, ToChannel
  <2> QED BY <2>3, <2>4, <2>5, AttemptDelivers
<1>3. CASE SendToTenant \/ SendUnsupported \/ \E channel \in Simulated : SendSimulated(channel)
  <2>1. handler.at = "send" /\ UNCHANGED <<row, job, sent>>
    BY <1>3 DEF SendToTenant, SendUnsupported, SendSimulated, ToChannel
  <2>2. sent' = [sent EXCEPT ![handler.id] = @ + 0]
    BY <1>0, <2>1, InHand DEF QueueInv, NotifTypeOK, Idle
  <2>3. PICK at \in {"delivered", "error"} :
          Then(at) /\ (at = "delivered" => job[handler.id].dto.channel \in Unwatched)
    BY <1>3 DEF SendToTenant, SendUnsupported, SendSimulated, AfterSend, ToChannel, Unwatched
  <2> QED BY <2>1, <2>2, <2>3, AttemptDelivers
<1>4. ASSUME NEW n \in Notifications, Take(n) PROVE DeliveryInv'
  <2>1. /\ UNCHANGED <<row, sent>> /\ handler'.at = "start"
        /\ Queued(n) /\ job[n] \in JobRow
    BY <1>4, Rows DEF Take, QueueInv
  <2>2. PICK j \in JobRow : j = [job[n] EXCEPT !.state = "active"]
    BY <2>1 DEF JobRow
  <2>3. job' = [job EXCEPT ![n] = j] /\ j.dto = job[n].dto
    BY <1>4, <2>1, <2>2 DEF Take, JobRow
  <2>4. \A m \in Notifications : Queued(m) => Queued(m)' /\ job'[m].dto = job[m].dto
    BY <2>2, <2>3, Sentinels DEF Queued, QueueInv, NotifTypeOK
  <2>5. \A m \in Notifications : (Live(m)' <=> Live(m)) /\ ~ At(m, {"delivered"})'
    BY <2>1 DEF Live, At
  <2> QED BY <1>0, <2>1, <2>4, <2>5, DeliveryFrame
<1>5. CASE Start \/ RecordError \/ CallFails \/ Delivered
  <2>1. handler # Idle /\ UNCHANGED job
    BY <1>5 DEF Start, RecordError, CallFails, Delivered, Idle
  <2>2. PICK h \in Notifications : h = handler.id
    BY <2>1, InHand
  <2>3. \A n \in Notifications : sent'[n] = sent[n] /\ (Queued(n)' <=> Queued(n))
    BY <1>0, <1>5, <2>1 DEF Start, RecordError, CallFails, Delivered, Count, QueueInv, NotifTypeOK,
       Queued
  <2>4. handler'.at # "delivered"
    BY <1>5 DEF Start, RecordError, CallFails, Delivered, Then, AfterError
  <2>5. \A n \in Notifications : n # h => row'[n] = row[n]
    BY <1>5, <2>2 DEF Start, RecordError, CallFails, Delivered, QueueInv, NotifTypeOK
  <2>6. row'[h] # row[h] => row'[h].status # "DELIVERED" \/ handler.at = "delivered"
    <3>1. CASE Start
      BY <2>2, <3>1 DEF Start, QueueInv, NotifTypeOK
    <3>2. CASE CallFails
      BY <3>2 DEF CallFails
    <3>3. CASE Delivered
      BY <3>3 DEF Delivered
    <3>4. CASE RecordError /\ Live(h)
      <4>1. row[h] \in Row
        BY <3>4, Rows DEF QueueInv
      <4>2. PICK st \in {"FAILED", "PENDING"} : row'[h] = [row[h] EXCEPT !.status = st]
        BY <2>2, <3>4 DEF RecordError, QueueInv, NotifTypeOK
      <4> QED BY <4>1, <4>2 DEF Row
    <3>5. CASE RecordError /\ ~ Live(h)
      BY <2>2, <3>5 DEF RecordError
    <3> QED BY <1>5, <3>1, <3>2, <3>3, <3>4, <3>5
  <2>7. \A n \in Notifications : Live(n)' /\ row'[n].status = "DELIVERED" =>
          (Live(n) /\ row[n].status = "DELIVERED") \/ At(n, {"delivered"})
    BY <2>2, <2>5, <2>6 DEF Live, At
  <2>8. \A n \in Notifications : ~ At(n, {"delivered"})'
    BY <2>4 DEF At
  <2> QED BY <1>0, <2>1, <2>3, <2>7, <2>8, DeliveryFrame
<1>6. CASE Complete \/ FailAttempt
  <2>1. handler # Idle /\ UNCHANGED <<row, sent>> /\ handler' = Idle
    BY <1>6 DEF Complete, FailAttempt, Idle
  <2>2. PICK h \in Notifications : h = handler.id /\ job[h] \in JobRow
    BY <2>1, InHand
  <2>3. \A n \in Notifications : n # h => job'[n] = job[n]
    BY <1>6, <2>2 DEF Complete, FailAttempt, QueueInv, NotifTypeOK
  <2>4. job'[h] # Unused /\ job'[h].dto = job[h].dto
    <3>1. job[h].attemptsMade < Attempts
      BY <2>1, <2>2, InHand
    <3>2. CASE Complete
      <4>1. PICK j \in JobRow : j = [job[h] EXCEPT !.state = "completed"]
        BY <2>2 DEF JobRow
      <4>2. job'[h] = j /\ j.dto = job[h].dto
        BY <2>2, <3>2, <4>1 DEF Complete, QueueInv, NotifTypeOK, JobRow
      <4> QED BY <4>2, Sentinels
    <3>3. CASE FailAttempt
      <4>1. PICK made \in 0..Attempts : made = job[h].attemptsMade + 1
        BY <2>2, <3>1 DEF JobRow, Attempts
      <4>2. PICK st \in {"waiting", "failed"} : st = IF GivenUp(made) THEN "failed" ELSE "waiting"
        OBVIOUS
      <4>3. PICK j \in JobRow : j = [job[h] EXCEPT !.attemptsMade = made, !.state = st]
        BY <2>2 DEF JobRow
      <4>4. job'[h] = j /\ j.dto = job[h].dto
        BY <2>2, <3>3, <4>1, <4>2, <4>3 DEF FailAttempt, QueueInv, NotifTypeOK, JobRow
      <4> QED BY <4>4, Sentinels
    <3> QED BY <1>6, <3>2, <3>3
  <2>5. \A n \in Notifications : Queued(n) => Queued(n)' /\ job'[n].dto = job[n].dto
    BY <2>3, <2>4 DEF Queued
  <2>6. \A n \in Notifications : (Live(n)' <=> Live(n)) /\ ~ At(n, {"delivered"})'
    BY <2>1 DEF Live, At, Idle
  <2> QED BY <1>0, <2>1, <2>5, <2>6, DeliveryFrame
<1> QED BY <1>1, <1>2, <1>3, <1>4, <1>5, <1>6 DEF HandlerStep

LEMMA DeliveryStep ==
  ASSUME QueueInv, GatewayInv, DeliveryInv, [NotifNext]_notifVars
  PROVE  DeliveryInv'
<1>0. \A n \in Notifications : sent[n] \in Nat
  BY DEF QueueInv, NotifTypeOK
<1>1. ASSUME NEW w \in Senders, SenderStep(w) PROVE DeliveryInv'
  <2>1. UNCHANGED <<handler, sent>>
    BY <1>1 DEF SenderStep, Send, RealTime, Create, Add, SendFails
  <2>2. \A n \in Notifications : Queued(n) => job'[n] = job[n]
    <3>1. CASE Add(w)
      <4>1. ~ Queued(sender[w].id)
        BY <3>1 DEF Add, QueueInv, JobInv
      <4> QED BY <3>1, <4>1 DEF Add, QueueInv, NotifTypeOK
    <3> QED BY <1>1, <3>1 DEF SenderStep, Send, RealTime, Create, SendFails
  <2>3. \A n \in Notifications : row'[n] = row[n] \/ row'[n].status = "PENDING"
    BY <1>1 DEF SenderStep, Send, RealTime, Create, Add, SendFails, QueueInv, NotifTypeOK
  <2>4. \A n \in Notifications : /\ Queued(n) => Queued(n)'
                                 /\ At(n, {"delivered"})' <=> At(n, {"delivered"})
                                 /\ Live(n)' /\ row'[n].status = "DELIVERED" =>
                                      Live(n) /\ row[n].status = "DELIVERED"
    BY <2>1, <2>2, <2>3 DEF Queued, Live, At
  <2> QED BY <1>0, <2>1, <2>2, <2>4, DeliveryFrame
<1>2. CASE HistoryStep
  <2>1. UNCHANGED <<handler, sent, job>>
    BY <1>2 DEF HistoryStep, markAsRead, deleteNotification, cleanupOldNotifications
  <2>2. \A n \in Notifications :
          \/ row'[n] = row[n]
          \/ row'[n] = Gone
          \/ Live(n) /\ row'[n] = [row[n] EXCEPT !.status = "READ"]
    BY <1>2 DEF HistoryStep, markAsRead, deleteNotification, cleanupOldNotifications, QueueInv,
       NotifTypeOK
  <2>3. \A n \in Notifications : Live(n)' /\ row'[n].status = "DELIVERED" =>
          Live(n) /\ row[n].status = "DELIVERED"
    BY <2>2, Rows DEF Live, Row, QueueInv
  <2>4. \A n \in Notifications : (Queued(n)' <=> Queued(n))
                                 /\ (At(n, {"delivered"})' <=> At(n, {"delivered"}))
    BY <2>1 DEF Queued, At
  <2> QED BY <1>0, <2>1, <2>3, <2>4, DeliveryFrame
<1>3. ASSUME NEW m \in Notifications, Stalled(m) PROVE DeliveryInv'
  <2>1. UNCHANGED <<row, handler, sent>> /\ Queued(m) /\ job[m] \in JobRow
    BY <1>3, Rows DEF Stalled, QueueInv
  <2>2. PICK j \in JobRow : job' = [job EXCEPT ![m] = j] /\ j.dto = job[m].dto
    <3>1. CASE job[m].stalled < MaxStalled
      <4>1. PICK k \in 0..MaxStalled : k = job[m].stalled + 1
        BY <2>1, <3>1 DEF JobRow, MaxStalled
      <4>2. PICK j \in JobRow : j = [job[m] EXCEPT !.state = "waiting", !.stalled = k]
        BY <2>1 DEF JobRow
      <4>3. job' = [job EXCEPT ![m] = j] /\ j.dto = job[m].dto
        BY <1>3, <2>1, <3>1, <4>1, <4>2 DEF Stalled, QueueInv, NotifTypeOK, JobRow
      <4> QED BY <4>3
    <3>2. CASE ~ (job[m].stalled < MaxStalled)
      <4>1. PICK j \in JobRow : j = [job[m] EXCEPT !.state = "failed"]
        BY <2>1 DEF JobRow
      <4>2. job' = [job EXCEPT ![m] = j] /\ j.dto = job[m].dto
        BY <1>3, <2>1, <3>2, <4>1 DEF Stalled, QueueInv, NotifTypeOK, JobRow
      <4> QED BY <4>2
    <3> QED BY <3>1, <3>2
  <2>3. \A n \in Notifications : Queued(n) => Queued(n)' /\ job'[n].dto = job[n].dto
    BY <2>2, Sentinels DEF Queued, QueueInv, NotifTypeOK
  <2>4. \A n \in Notifications : (Live(n)' <=> Live(n))
                                 /\ (At(n, {"delivered"})' <=> At(n, {"delivered"}))
    BY <2>1 DEF Live, At
  <2> QED BY <1>0, <2>1, <2>3, <2>4, DeliveryFrame
<1>4. CASE Crash
  <2>1. UNCHANGED <<row, job, sent>> /\ handler' = Idle
    BY <1>4 DEF Crash
  <2>2. \A n \in Notifications : /\ Live(n)' <=> Live(n)
                                 /\ Queued(n)' <=> Queued(n)
                                 /\ ~ At(n, {"delivered"})'
    BY <2>1 DEF Live, Queued, At, Idle
  <2> QED BY <1>0, <2>1, <2>2, DeliveryFrame
<1>5. CASE UNCHANGED queueVars
  BY <1>5 DEF queueVars, DeliveryInv, Live, Queued, Told, At
<1> QED
  BY <1>1, <1>2, <1>3, <1>4, <1>5, HandlerDelivers DEF NotifNext, notifVars

(* Clients that log in once per socket: a row shown as delivered has a
   message behind it, whatever sockets, crashes and retries did since. *)
THEOREM DeliveredSent ==
  ASSUME OneIdentity
  PROVE  NotifSpec => []DeliveredWasSent
<1>1. NotifInit => QueueInv /\ GatewayInv /\ DeliveryInv
  <2>1. NotifInit => DeliveryInv
    BY DEF NotifInit, DeliveryInv, Live, At, Idle
  <2> QED BY <2>1, QueueInitInv, GatewayInitInv DEF NotifInit
<1>2. QueueInv /\ GatewayInv /\ DeliveryInv /\ [NotifNext]_notifVars
        => QueueInv' /\ GatewayInv' /\ DeliveryInv'
  BY QueueStepInv, GatewayStepInv, NotifStepGateway, DeliveryStep
<1>3. DeliveryInv => DeliveredWasSent
  BY DEF DeliveryInv, DeliveredWasSent, Told, Unwatched, Simulated
<1> QED BY <1>1, <1>2, <1>3, PTL DEF NotifSpec
=============================================================================
