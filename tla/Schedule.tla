------------------------------ MODULE Schedule ------------------------------
(***************************************************************************)
(* ScheduleService (src/backend/src/scheduling/services/                   *)
(* schedule.service.ts): the tables `schedules` and `schedule_sessions`    *)
(* and the HTTP and queue requests that read and write them.               *)
(*                                                                         *)
(* No method of the service opens a transaction: each awaited Prisma call  *)
(* is atomic on its own and other requests run between two of them.  So    *)
(* an action is one database call, a request in flight is a record that    *)
(* names the call it makes next, and a method is the chain of its actions. *)
(* A request whose first read refuses it (nothing found, wrong status)     *)
(* changes nothing and is left out; a refusal after that is an action.     *)
(***************************************************************************)
EXTENDS Integers

CONSTANTS
  Schools, Schedules, Sessions,      \* row identifiers (cuids, never reused)
  Teachers, Rooms, Classes, Slots,   \* a slot is a time slot on a date
  Dates,                             \* the days schedules start and end on
  Workers,                           \* the requests the server can interleave
  Serves,                            \* Serves[w]: the methods w may execute
  CreateDtos, UpdateDtos,            \* the bodies users send
  SessionDtos, SessionChanges,
  Unused, Gone,                      \* a row not yet inserted, a deleted row
  Keep                               \* a field an update leaves undefined

ScheduleStatus == {"DRAFT", "PENDING_APPROVAL", "APPROVED", "ACTIVE", "ARCHIVED"}
SessionStatus  == {"SCHEDULED", "CONFIRMED", "CANCELLED", "COMPLETED"}

Methods == {"create", "update", "approve", "activate", "archive", "delete",
            "createSession", "updateSession", "deleteSession"}

ScheduleRow == [school : Schools, start : Dates, end : Dates,
                status : ScheduleStatus, isActive : BOOLEAN]
SessionRow  == [schedule : Schedules, teacher : Teachers, room : Rooms,
                class : Classes, slot : Slots, status : SessionStatus]

CreateDto     == [school : Schools, start : Dates, end : Dates]
UpdateDto     == [status : ScheduleStatus \cup {Keep},
                  start : Dates \cup {Keep}, end : Dates \cup {Keep}]
SessionDto    == [schedule : Schedules, teacher : Teachers, room : Rooms,
                  class : Classes, slot : Slots]
SessionChange == [teacher : Teachers \cup {Keep}, room : Rooms \cup {Keep},
                  slot : Slots \cup {Keep}, status : SessionStatus \cup {Keep}]

ASSUME DtoAssumption ==
  /\ Dates \subseteq Int
  /\ CreateDtos \subseteq CreateDto
  /\ UpdateDtos \subseteq UpdateDto
  /\ SessionDtos \subseteq SessionDto
  /\ SessionChanges \subseteq SessionChange

ASSUME SentinelAssumption ==
  /\ Unused # Gone
  /\ Unused \notin ScheduleRow \cup SessionRow
  /\ Gone \notin ScheduleRow \cup SessionRow

ASSUME ServesAssumption == Serves \in [Workers -> SUBSET Methods]

VARIABLES
  schedule,   \* schedule[s]: the row of schedule s
  session,    \* session[x]:  the row of session x
  req         \* req[w]: the request w executes and the call it makes next

vars == <<schedule, session, req>>

LiveSchedule(s) == schedule[s] \notin {Unused, Gone}
LiveSession(x)  == session[x] \notin {Unused, Gone}

Active(s)       == LiveSchedule(s) /\ schedule[s].isActive
SessionsOf(s)   == {x \in Sessions : LiveSession(x) /\ session[x].schedule = s}

(* The status a row gets, with its isActive flag. *)
Restated(row, status, isActive) ==
  [row EXCEPT !.status = status, !.isActive = isActive]

(* Mutant: an undefined field overwrites the column. *)
GivenAlways(new, old) == new

Given(new, old) == IF new = Keep THEN old ELSE new

Idle == [at |-> "idle"]

(* `at` names the database call the request makes next. *)
Request ==
  [at : {"idle"}]
  \cup [at : {"createInsert"}, dto : CreateDtos]
  \cup [at : {"updateWrite"}, schedule : Schedules, dto : UpdateDtos]
  \cup [at : {"activateOthers"}, schedule : Schedules, school : Schools]
  \cup [at : {"activateSelf", "approveWrite", "archiveWrite", "deleteWrite"},
        schedule : Schedules]
  \cup [at : {"teacherCheck", "roomCheck", "classCheck", "sessionInsert"},
        dto : SessionDtos, found : BOOLEAN]
  \cup [at : {"sessionWrite"}, session : Sessions, change : SessionChanges]
  \cup [at : {"sessionDelete"}, session : Sessions]

TypeOK ==
  /\ schedule \in [Schedules -> ScheduleRow \cup {Unused, Gone}]
  /\ session \in [Sessions -> SessionRow \cup {Unused, Gone}]
  /\ req \in [Workers -> Request]

Init ==
  /\ schedule = [s \in Schedules |-> Unused]
  /\ session = [x \in Sessions |-> Unused]
  /\ req = [w \in Workers |-> Idle]

Accepts(w, method) == req[w] = Idle /\ method \in Serves[w]
Continue(w, next)  == req' = [req EXCEPT ![w] = next]
Done(w)            == Continue(w, Idle)

-----------------------------------------------------------------------------
(* create: the overlap query, then the insert. *)

Overlaps(row, start, end) ==
  \/ row.start <= start /\ row.end > start
  \/ row.start < end    /\ row.end >= end
  \/ row.start >= start /\ row.end <= end

CreateCheck(w, dto) ==
  /\ Accepts(w, "create")
  /\ dto.end > dto.start
  /\ ~ \E s \in Schedules : /\ Active(s)
                            /\ schedule[s].school = dto.school
                            /\ Overlaps(schedule[s], dto.start, dto.end)
  /\ Continue(w, [at |-> "createInsert", dto |-> dto])
  /\ UNCHANGED <<schedule, session>>

CreateInsert(w) ==
  /\ req[w].at = "createInsert"
  /\ \E s \in Schedules :
       /\ schedule[s] = Unused
       /\ schedule' = [schedule EXCEPT ![s] =
            [school |-> req[w].dto.school, start |-> req[w].dto.start,
             end |-> req[w].dto.end, status |-> "DRAFT", isActive |-> FALSE]]
  /\ Done(w)
  /\ UNCHANGED session

(* update, approve, activate and archive: findById, then one or two writes. *)

UpdateRead(w, s, dto) ==
  /\ Accepts(w, "update")
  /\ LiveSchedule(s)
  /\ Keep \notin {dto.start, dto.end} => dto.end > dto.start
  /\ Continue(w, [at |-> "updateWrite", schedule |-> s, dto |-> dto])
  /\ UNCHANGED <<schedule, session>>

Updated(row, dto) ==
  [row EXCEPT !.status = Given(dto.status, row.status),
              !.start  = Given(dto.start, row.start),
              !.end    = Given(dto.end, row.end)]

UpdateWrite(w) ==
  /\ req[w].at = "updateWrite"
  /\ LiveSchedule(req[w].schedule)
  /\ schedule' = [schedule EXCEPT ![req[w].schedule] = Updated(@, req[w].dto)]
  /\ Done(w)
  /\ UNCHANGED session

ApproveRead(w, s) ==
  /\ Accepts(w, "approve")
  /\ LiveSchedule(s)
  /\ schedule[s].status = "PENDING_APPROVAL"
  /\ Continue(w, [at |-> "approveWrite", schedule |-> s])
  /\ UNCHANGED <<schedule, session>>

ApproveWrite(w) ==
  /\ req[w].at = "approveWrite"
  /\ LiveSchedule(req[w].schedule)
  /\ schedule' = [schedule EXCEPT ![req[w].schedule] =
                    Restated(@, "APPROVED", @.isActive)]
  /\ Done(w)
  /\ UNCHANGED session

(* Mutant: the status is not looked at. *)
ActivateReadUnchecked(w, s) ==
  /\ Accepts(w, "activate")
  /\ LiveSchedule(s)
  /\ Continue(w, [at |-> "activateOthers", schedule |-> s,
                  school |-> schedule[s].school])
  /\ UNCHANGED <<schedule, session>>

ActivateRead(w, s) ==
  /\ Accepts(w, "activate")
  /\ LiveSchedule(s)
  /\ schedule[s].status = "APPROVED"
  /\ Continue(w, [at |-> "activateOthers", schedule |-> s,
                  school |-> schedule[s].school])
  /\ UNCHANGED <<schedule, session>>

(* Mutant: the others are archived and keep their flag. *)
ActivateOthersStatusOnly(w) ==
  /\ req[w].at = "activateOthers"
  /\ schedule' = [s \in Schedules |->
       IF Active(s) /\ schedule[s].school = req[w].school /\ s # req[w].schedule
       THEN Restated(schedule[s], "ARCHIVED", TRUE)
       ELSE schedule[s]]
  /\ Continue(w, [at |-> "activateSelf", schedule |-> req[w].schedule])
  /\ UNCHANGED session

(* updateMany: every other active schedule of the school is archived. *)
ActivateOthers(w) ==
  /\ req[w].at = "activateOthers"
  /\ schedule' = [s \in Schedules |->
       IF Active(s) /\ schedule[s].school = req[w].school /\ s # req[w].schedule
       THEN Restated(schedule[s], "ARCHIVED", FALSE)
       ELSE schedule[s]]
  /\ Continue(w, [at |-> "activateSelf", schedule |-> req[w].schedule])
  /\ UNCHANGED session

ActivateSelf(w) ==
  /\ req[w].at = "activateSelf"
  /\ LiveSchedule(req[w].schedule)
  /\ schedule' = [schedule EXCEPT ![req[w].schedule] = Restated(@, "ACTIVE", TRUE)]
  /\ Done(w)
  /\ UNCHANGED session

ArchiveRead(w, s) ==
  /\ Accepts(w, "archive")
  /\ LiveSchedule(s)
  /\ Continue(w, [at |-> "archiveWrite", schedule |-> s])
  /\ UNCHANGED <<schedule, session>>

ArchiveWrite(w) ==
  /\ req[w].at = "archiveWrite"
  /\ LiveSchedule(req[w].schedule)
  /\ schedule' = [schedule EXCEPT ![req[w].schedule] = Restated(@, "ARCHIVED", FALSE)]
  /\ Done(w)
  /\ UNCHANGED session

(* delete: count the sessions, then delete; the foreign key cascades. *)

(* Mutant: the sessions are not counted. *)
DeleteCheckUncounted(w, s) ==
  /\ Accepts(w, "delete")
  /\ LiveSchedule(s)
  /\ Continue(w, [at |-> "deleteWrite", schedule |-> s])
  /\ UNCHANGED <<schedule, session>>

DeleteCheck(w, s) ==
  /\ Accepts(w, "delete")
  /\ LiveSchedule(s)
  /\ SessionsOf(s) = {}
  /\ Continue(w, [at |-> "deleteWrite", schedule |-> s])
  /\ UNCHANGED <<schedule, session>>

DeleteWrite(w) ==
  /\ req[w].at = "deleteWrite"
  /\ LiveSchedule(req[w].schedule)
  /\ schedule' = [schedule EXCEPT ![req[w].schedule] = Gone]
  /\ session' = [x \in Sessions |->
       IF x \in SessionsOf(req[w].schedule) THEN Gone ELSE session[x]]
  /\ Done(w)

(* Prisma rejects a write to a row that is no longer there. *)
RecordNotFound(w) ==
  /\ req[w].at \in {"updateWrite", "approveWrite", "activateSelf",
                    "archiveWrite", "deleteWrite"}
  /\ ~ LiveSchedule(req[w].schedule)
  /\ Done(w)
  /\ UNCHANGED <<schedule, session>>

-----------------------------------------------------------------------------
(* createSession: the schedule exists; three conflict queries; the insert. *)

(* Mutant: only the sessions of the same schedule are searched. *)
OccupiedInSchedule(field, dto) ==
  \E x \in Sessions : /\ LiveSession(x)
                      /\ session[x].schedule = dto.schedule
                      /\ session[x][field] = dto[field]
                      /\ session[x].slot = dto.slot
                      /\ session[x].status # "CANCELLED"

(* What one findFirst of checkSessionConflicts looks for. *)
Occupied(field, dto) ==
  \E x \in Sessions : /\ LiveSession(x)
                      /\ session[x][field] = dto[field]
                      /\ session[x].slot = dto.slot
                      /\ session[x].status # "CANCELLED"

CreateSessionRead(w, dto) ==
  /\ Accepts(w, "createSession")
  /\ LiveSchedule(dto.schedule)
  /\ Continue(w, [at |-> "teacherCheck", dto |-> dto, found |-> FALSE])
  /\ UNCHANGED <<schedule, session>>

CheckConflict(w, at, field, next) ==
  /\ req[w].at = at
  /\ Continue(w, [at |-> next, dto |-> req[w].dto,
                  found |-> req[w].found \/ Occupied(field, req[w].dto)])
  /\ UNCHANGED <<schedule, session>>

CheckTeacher(w) == CheckConflict(w, "teacherCheck", "teacher", "roomCheck")
CheckRoom(w)    == CheckConflict(w, "roomCheck", "room", "classCheck")
CheckClass(w)   == CheckConflict(w, "classCheck", "class", "sessionInsert")

CreateSessionInsert(w) ==
  /\ req[w].at = "sessionInsert"
  /\ ~ req[w].found
  /\ LiveSchedule(req[w].dto.schedule)
  /\ \E x \in Sessions :
       /\ session[x] = Unused
       /\ session' = [session EXCEPT ![x] =
            [schedule |-> req[w].dto.schedule, teacher |-> req[w].dto.teacher,
             room |-> req[w].dto.room, class |-> req[w].dto.class,
             slot |-> req[w].dto.slot, status |-> "SCHEDULED"]]
  /\ Done(w)
  /\ UNCHANGED schedule

(* A conflict was found, or the foreign key has lost its schedule. *)
CreateSessionReject(w) ==
  /\ req[w].at = "sessionInsert"
  /\ req[w].found \/ ~ LiveSchedule(req[w].dto.schedule)
  /\ Done(w)
  /\ UNCHANGED <<schedule, session>>

(* updateSession moves a session without any of those queries. *)

UpdateSessionRead(w, x, change) ==
  /\ Accepts(w, "updateSession")
  /\ LiveSession(x)
  /\ Continue(w, [at |-> "sessionWrite", session |-> x, change |-> change])
  /\ UNCHANGED <<schedule, session>>

Changed(row, change) ==
  [row EXCEPT !.teacher = Given(change.teacher, row.teacher),
              !.room    = Given(change.room, row.room),
              !.slot    = Given(change.slot, row.slot),
              !.status  = Given(change.status, row.status)]

UpdateSessionWrite(w) ==
  /\ req[w].at = "sessionWrite"
  /\ LiveSession(req[w].session)
  /\ session' = [session EXCEPT ![req[w].session] = Changed(@, req[w].change)]
  /\ Done(w)
  /\ UNCHANGED schedule

DeleteSessionRead(w, x) ==
  /\ Accepts(w, "deleteSession")
  /\ LiveSession(x)
  /\ Continue(w, [at |-> "sessionDelete", session |-> x])
  /\ UNCHANGED <<schedule, session>>

DeleteSessionWrite(w) ==
  /\ req[w].at = "sessionDelete"
  /\ LiveSession(req[w].session)
  /\ session' = [session EXCEPT ![req[w].session] = Gone]
  /\ Done(w)
  /\ UNCHANGED schedule

SessionNotFound(w) ==
  /\ req[w].at \in {"sessionWrite", "sessionDelete"}
  /\ ~ LiveSession(req[w].session)
  /\ Done(w)
  /\ UNCHANGED <<schedule, session>>

(* The server process or its database connection is lost between two calls
   of a request: what the request wrote so far stays. *)
Abort(w) ==
  /\ req[w] # Idle
  /\ Done(w)
  /\ UNCHANGED <<schedule, session>>

-----------------------------------------------------------------------------
ScheduleStep(w) ==
  \/ \E dto \in CreateDtos : CreateCheck(w, dto)
  \/ CreateInsert(w)
  \/ \E s \in Schedules, dto \in UpdateDtos : UpdateRead(w, s, dto)
  \/ UpdateWrite(w)
  \/ \E s \in Schedules : ApproveRead(w, s)
  \/ ApproveWrite(w)
  \/ \E s \in Schedules : ActivateRead(w, s)
  \/ ActivateOthers(w)
  \/ ActivateSelf(w)
  \/ \E s \in Schedules : ArchiveRead(w, s)
  \/ ArchiveWrite(w)
  \/ \E s \in Schedules : DeleteCheck(w, s)
  \/ DeleteWrite(w)
  \/ RecordNotFound(w)

SessionStep(w) ==
  \/ \E dto \in SessionDtos : CreateSessionRead(w, dto)
  \/ CheckTeacher(w)
  \/ CheckRoom(w)
  \/ CheckClass(w)
  \/ CreateSessionInsert(w)
  \/ CreateSessionReject(w)
  \/ \E x \in Sessions, change \in SessionChanges : UpdateSessionRead(w, x, change)
  \/ UpdateSessionWrite(w)
  \/ \E x \in Sessions : DeleteSessionRead(w, x)
  \/ DeleteSessionWrite(w)
  \/ SessionNotFound(w)

Next == \E w \in Workers : ScheduleStep(w) \/ SessionStep(w) \/ Abort(w)

Spec == Init /\ [][Next]_vars

-----------------------------------------------------------------------------
(* The service takes no lock, so what it promises depends on which methods
   the deployment keeps apart.  A group of methods is serialised when one
   worker executes all their calls, and so one call at a time. *)
Serialised(group) ==
  \A v, w \in Workers :
    Serves[v] \cap group # {} /\ Serves[w] \cap group # {} => v = w

ActivationSerialised == Serialised({"activate"})
BookingSerialised    == Serialised({"createSession"})
DeletionSerialised   == Serialised({"delete", "createSession"})
LifecycleSerialised  == Serialised({"update", "approve", "activate", "archive"})

(* Session updates only cancel: they neither move a session nor revive one. *)
UpdatesOnlyCancel ==
  \A c \in SessionChanges : /\ c.teacher = Keep /\ c.room = Keep /\ c.slot = Keep
                            /\ c.status \in {Keep, "CANCELLED"}

(* A school has at most one active schedule: what activate archives the
   others for, although its three calls are not one transaction. *)
AtMostOneActive ==
  \A s, t \in Schedules :
    Active(s) /\ Active(t) /\ schedule[s].school = schedule[t].school => s = t

(* No two sessions that are not cancelled hold the same teacher, room or
   class in the same slot: what checkSessionConflicts is there for. *)
Clash(a, b) ==
  /\ a.slot = b.slot
  /\ a.teacher = b.teacher \/ a.room = b.room \/ a.class = b.class

NoDoubleBooking ==
  \A x, y \in Sessions :
    /\ x # y
    /\ LiveSession(x) /\ LiveSession(y)
    /\ session[x].status # "CANCELLED" /\ session[y].status # "CANCELLED"
    => ~ Clash(session[x], session[y])

(* Deleting a schedule destroys no session ("Cannot delete schedule that has
   sessions. Archive it instead."), although the count and the cascading
   delete are two calls. *)
DeleteKeepsSessions ==
  [][\A s \in Schedules : LiveSchedule(s) /\ ~ LiveSchedule(s)' => SessionsOf(s) = {}]_vars

(* A schedule comes into force only from APPROVED: the status activate read
   is still the status when it writes. *)
OnlyApprovedActivates ==
  [][\A s \in Schedules : ~ Active(s) /\ Active(s)' => schedule[s].status = "APPROVED"]_vars

(* Activation takes out of force what it replaces: the "existing active
   schedules for the same school and period". *)
ActivationReplacesPeriod ==
  [][\A w \in Workers :
       LET target == schedule[req[w].schedule] IN
       req[w].at = "activateOthers" /\ req'[w] # Idle /\ LiveSchedule(req[w].schedule) =>
         \A s \in Schedules : Active(s) /\ ~ Active(s)' =>
           Overlaps(schedule[s], target.start, target.end)]_vars

(* The refinement: the active schedules are one register per school. *)
InForce == [k \in Schools |-> {s \in Schedules : Active(s) /\ schedule[s].school = k}]
Register == INSTANCE ActiveRegister WITH Entries <- Schedules, inForce <- InForce
RegisterSpec == Register!Spec
=============================================================================
