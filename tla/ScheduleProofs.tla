--------------------------- MODULE ScheduleProofs ---------------------------
(***************************************************************************)
(* Theorems about Schedule, for every choice of its constants.             *)
(***************************************************************************)
EXTENDS Schedule, TLAPS

(* What a request carries, by the call it makes next. *)
LEMMA RequestFields ==
  ASSUME NEW r \in Request
  PROVE  /\ r.at = "createInsert" => r.dto \in CreateDtos
         /\ r.at = "updateWrite" => r.schedule \in Schedules /\ r.dto \in UpdateDtos
         /\ r.at = "activateOthers" => r.schedule \in Schedules /\ r.school \in Schools
         /\ r.at \in {"activateSelf", "approveWrite", "archiveWrite", "deleteWrite"}
              => r.schedule \in Schedules
         /\ r.at \in {"teacherCheck", "roomCheck", "classCheck", "sessionInsert"}
              => r.dto \in SessionDtos /\ r.found \in BOOLEAN
         /\ r.at = "sessionWrite" => r.session \in Sessions /\ r.change \in SessionChanges
         /\ r.at = "sessionDelete" => r.session \in Sessions
BY DEF Request

(***************************************************************************)
(* Type correctness                                                        *)
(***************************************************************************)

(* An update of a schedule row reaches neither its school nor its flag. *)
LEMMA UpdatedByDto ==
  ASSUME NEW row \in ScheduleRow, NEW dto \in UpdateDto
  PROVE  /\ Updated(row, dto) \in ScheduleRow
         /\ Updated(row, dto).school = row.school
         /\ Updated(row, dto).isActive = row.isActive
<1>1. Updated(row, dto) \in ScheduleRow
  BY DEF UpdateDto, ScheduleRow, Updated, Given
<1>2. Updated(row, dto).school = row.school /\ Updated(row, dto).isActive = row.isActive
  BY DEF ScheduleRow, Updated
<1> QED
  BY <1>1, <1>2

LEMMA UpdatedRow ==
  ASSUME NEW row \in ScheduleRow, NEW dto \in UpdateDtos
  PROVE  /\ Updated(row, dto) \in ScheduleRow
         /\ Updated(row, dto).school = row.school
         /\ Updated(row, dto).isActive = row.isActive
BY UpdatedByDto, DtoAssumption

LEMMA RestatedRow ==
  ASSUME NEW row \in ScheduleRow, NEW st \in ScheduleStatus, NEW a \in BOOLEAN
  PROVE  /\ Restated(row, st, a) \in ScheduleRow
         /\ Restated(row, st, a).school = row.school
         /\ Restated(row, st, a).isActive = a
         /\ Restated(row, st, a).status = st
BY DEF ScheduleRow, Restated

LEMMA ApprovedRow ==
  ASSUME NEW row \in ScheduleRow
  PROVE  /\ Restated(row, "APPROVED", row.isActive) \in ScheduleRow
         /\ Restated(row, "APPROVED", row.isActive).school = row.school
         /\ Restated(row, "APPROVED", row.isActive).isActive = row.isActive
<1>1. row.isActive \in BOOLEAN /\ "APPROVED" \in ScheduleStatus
  BY DEF ScheduleRow, ScheduleStatus
<1> QED
  BY <1>1, RestatedRow

LEMMA ChangedBy ==
  ASSUME NEW row \in SessionRow, NEW change \in SessionChange
  PROVE  Changed(row, change) \in SessionRow
BY DEF SessionChange, SessionRow, Changed, Given

LEMMA ChangedRow ==
  ASSUME NEW row \in SessionRow, NEW change \in SessionChanges
  PROVE  Changed(row, change) \in SessionRow
BY ChangedBy, DtoAssumption

(* The two tables keep their types, and a step of a request moves it alone. *)
RowsOK ==
  /\ schedule \in [Schedules -> ScheduleRow \cup {Unused, Gone}]
  /\ session \in [Sessions -> SessionRow \cup {Unused, Gone}]

Moves(w) == req'[w] \in Request /\ req' = [req EXCEPT ![w] = req'[w]]

(* Every step of the lifecycle of schedules keeps the types. *)
LEMMA ScheduleStepRows ==
  ASSUME RowsOK, DOMAIN req = Workers, NEW w \in Workers, req[w] \in Request, ScheduleStep(w)
  PROVE  RowsOK' /\ Moves(w)
<1>1. CASE \E dto \in CreateDtos : CreateCheck(w, dto)
  BY <1>1 DEF CreateCheck, RowsOK, Moves, Continue, Request
<1>2. CASE CreateInsert(w)
  <2>1. PICK s \in Schedules : schedule' = [schedule EXCEPT ![s] =
            [school |-> req[w].dto.school, start |-> req[w].dto.start,
             end |-> req[w].dto.end, status |-> "DRAFT", isActive |-> FALSE]]
    BY <1>2 DEF CreateInsert
  <2>2. req[w].dto \in CreateDto
    BY <1>2, RequestFields, DtoAssumption DEF CreateInsert
  <2>3. [school |-> req[w].dto.school, start |-> req[w].dto.start,
         end |-> req[w].dto.end, status |-> "DRAFT", isActive |-> FALSE] \in ScheduleRow
    BY <2>2 DEF CreateDto, ScheduleRow, ScheduleStatus
  <2> QED
    BY <1>2, <2>1, <2>3 DEF CreateInsert, RowsOK, Moves, Done, Continue, Idle, Request
<1>3. CASE \E s \in Schedules, dto \in UpdateDtos : UpdateRead(w, s, dto)
  BY <1>3 DEF UpdateRead, RowsOK, Moves, Continue, Request
<1>4. CASE UpdateWrite(w)
  <2>1. req[w].schedule \in Schedules /\ req[w].dto \in UpdateDtos
    BY <1>4, RequestFields DEF UpdateWrite
  <2>2. schedule[req[w].schedule] \in ScheduleRow
    BY <1>4, <2>1 DEF UpdateWrite, LiveSchedule, RowsOK, Moves
  <2>3. Updated(schedule[req[w].schedule], req[w].dto) \in ScheduleRow
    BY <2>1, <2>2, UpdatedRow
  <2> QED
    BY <1>4, <2>1, <2>3 DEF UpdateWrite, RowsOK, Moves, Done, Continue, Idle, Request
<1>5. CASE \E s \in Schedules : ApproveRead(w, s)
  BY <1>5 DEF ApproveRead, RowsOK, Moves, Continue, Request
<1>6. CASE ApproveWrite(w)
  <2>1. req[w].schedule \in Schedules
    BY <1>6, RequestFields DEF ApproveWrite
  <2>2. schedule[req[w].schedule] \in ScheduleRow
    BY <1>6, <2>1 DEF ApproveWrite, LiveSchedule, RowsOK, Moves
  <2>3. Restated(schedule[req[w].schedule], "APPROVED", schedule[req[w].schedule].isActive) \in ScheduleRow
    BY <2>2, RestatedRow DEF ScheduleRow, ScheduleStatus
  <2> QED
    BY <1>6, <2>1, <2>3 DEF ApproveWrite, RowsOK, Moves, Done, Continue, Idle, Request
<1>7. CASE \E s \in Schedules : ActivateRead(w, s)
  BY <1>7 DEF ActivateRead, LiveSchedule, RowsOK, Moves, Continue, Request, ScheduleRow
<1>8. CASE ActivateOthers(w)
  <2>1. req[w].schedule \in Schedules
    BY <1>8, RequestFields DEF ActivateOthers
  <2>2. \A s \in Schedules : Active(s) =>
          Restated(schedule[s], "ARCHIVED", FALSE) \in ScheduleRow
    BY RestatedRow DEF Active, LiveSchedule, RowsOK, Moves, ScheduleStatus
  <2> QED
    BY <1>8, <2>1, <2>2 DEF ActivateOthers, RowsOK, Moves, Continue, Request
<1>9. CASE ActivateSelf(w)
  <2>1. req[w].schedule \in Schedules
    BY <1>9, RequestFields DEF ActivateSelf
  <2>2. schedule[req[w].schedule] \in ScheduleRow
    BY <1>9, <2>1 DEF ActivateSelf, LiveSchedule, RowsOK, Moves
  <2>3. Restated(schedule[req[w].schedule], "ACTIVE", TRUE) \in ScheduleRow
    BY <2>2, RestatedRow DEF ScheduleRow, ScheduleStatus
  <2> QED
    BY <1>9, <2>1, <2>3 DEF ActivateSelf, RowsOK, Moves, Done, Continue, Idle, Request
<1>10. CASE \E s \in Schedules : ArchiveRead(w, s)
  BY <1>10 DEF ArchiveRead, RowsOK, Moves, Continue, Request
<1>11. CASE ArchiveWrite(w)
  <2>1. req[w].schedule \in Schedules
    BY <1>11, RequestFields DEF ArchiveWrite
  <2>2. schedule[req[w].schedule] \in ScheduleRow
    BY <1>11, <2>1 DEF ArchiveWrite, LiveSchedule, RowsOK, Moves
  <2>3. Restated(schedule[req[w].schedule], "ARCHIVED", FALSE) \in ScheduleRow
    BY <2>2, RestatedRow DEF ScheduleRow, ScheduleStatus
  <2> QED
    BY <1>11, <2>1, <2>3 DEF ArchiveWrite, RowsOK, Moves, Done, Continue, Idle, Request
<1>12. CASE \E s \in Schedules : DeleteCheck(w, s)
  BY <1>12 DEF DeleteCheck, RowsOK, Moves, Continue, Request
<1>13. CASE DeleteWrite(w)
  BY <1>13 DEF DeleteWrite, RowsOK, Moves, Done, Continue, Idle, Request
<1>14. CASE RecordNotFound(w)
  BY <1>14 DEF RecordNotFound, RowsOK, Moves, Done, Continue, Idle, Request
<1> QED
  BY <1>1, <1>2, <1>3, <1>4, <1>5, <1>6, <1>7, <1>8, <1>9, <1>10, <1>11, <1>12, <1>13, <1>14
  DEF ScheduleStep

(* Every step of the bookings keeps the types. *)
LEMMA SessionStepRows ==
  ASSUME RowsOK, DOMAIN req = Workers, NEW w \in Workers, req[w] \in Request, SessionStep(w)
  PROVE  RowsOK' /\ Moves(w)
<1>1. CASE \E dto \in SessionDtos : CreateSessionRead(w, dto)
  BY <1>1 DEF CreateSessionRead, RowsOK, Moves, Continue, Request
<1>2. ASSUME NEW at, NEW field, NEW next,
             at \in {"teacherCheck", "roomCheck", "classCheck"},
             next \in {"roomCheck", "classCheck", "sessionInsert"},
             CheckConflict(w, at, field, next)
      PROVE  RowsOK' /\ Moves(w)
  <2>1. req[w].dto \in SessionDtos
    BY <1>2, RequestFields DEF CheckConflict
  <2>2. (req[w].found \/ Occupied(field, req[w].dto)) \in BOOLEAN
    OBVIOUS
  <2>3. [at |-> next, dto |-> req[w].dto, found |-> req[w].found \/ Occupied(field, req[w].dto)]
          \in Request
    BY <1>2, <2>1, <2>2 DEF Request
  <2> QED
    BY <1>2, <2>3 DEF CheckConflict, RowsOK, Moves, Continue
<1>3. CASE CheckTeacher(w) \/ CheckRoom(w) \/ CheckClass(w)
  BY <1>2, <1>3 DEF CheckTeacher, CheckRoom, CheckClass
<1>4. CASE CreateSessionInsert(w)
  <2>1. req[w].dto \in SessionDto
    BY <1>4, RequestFields, DtoAssumption DEF CreateSessionInsert
  <2> DEFINE row == [schedule |-> req[w].dto.schedule, teacher |-> req[w].dto.teacher,
                     room |-> req[w].dto.room, class |-> req[w].dto.class,
                     slot |-> req[w].dto.slot, status |-> "SCHEDULED"]
  <2>2. row \in SessionRow
    BY <2>1 DEF SessionDto, SessionRow, SessionStatus
  <2>3. PICK x \in Sessions : session' = [session EXCEPT ![x] = row]
    BY <1>4 DEF CreateSessionInsert
  <2> HIDE DEF row
  <2> QED
    BY <1>4, <2>2, <2>3 DEF CreateSessionInsert, RowsOK, Moves, Done, Continue, Idle, Request
<1>5. CASE CreateSessionReject(w)
  BY <1>5 DEF CreateSessionReject, RowsOK, Moves, Done, Continue, Idle, Request
<1>6. CASE \E x \in Sessions, change \in SessionChanges : UpdateSessionRead(w, x, change)
  BY <1>6 DEF UpdateSessionRead, RowsOK, Moves, Continue, Request
<1>7. CASE UpdateSessionWrite(w)
  <2>1. req[w].session \in Sessions /\ req[w].change \in SessionChanges
    BY <1>7, RequestFields DEF UpdateSessionWrite
  <2>2. session[req[w].session] \in SessionRow
    BY <1>7, <2>1 DEF UpdateSessionWrite, LiveSession, RowsOK, Moves
  <2>3. Changed(session[req[w].session], req[w].change) \in SessionRow
    BY <2>1, <2>2, ChangedRow
  <2> QED
    BY <1>7, <2>1, <2>3 DEF UpdateSessionWrite, RowsOK, Moves, Done, Continue, Idle, Request
<1>8. CASE \E x \in Sessions : DeleteSessionRead(w, x)
  BY <1>8 DEF DeleteSessionRead, RowsOK, Moves, Continue, Request
<1>9. CASE DeleteSessionWrite(w)
  BY <1>9 DEF DeleteSessionWrite, RowsOK, Moves, Done, Continue, Idle, Request
<1>10. CASE SessionNotFound(w)
  BY <1>10 DEF SessionNotFound, RowsOK, Moves, Done, Continue, Idle, Request
<1> QED
  BY <1>1, <1>3, <1>4, <1>5, <1>6, <1>7, <1>8, <1>9, <1>10 DEF SessionStep

LEMMA AbortRows ==
  ASSUME RowsOK, DOMAIN req = Workers, NEW w \in Workers, Abort(w)
  PROVE  RowsOK' /\ Moves(w)
BY DEF Abort, RowsOK, Moves, Done, Continue, Idle, Request

(* A step of one request. *)
Step(w) == ScheduleStep(w) \/ SessionStep(w) \/ Abort(w)

LEMMA StepRows ==
  ASSUME RowsOK, DOMAIN req = Workers, NEW w \in Workers, req[w] \in Request, Step(w)
  PROVE  RowsOK' /\ Moves(w)
BY ScheduleStepRows, SessionStepRows, AbortRows DEF Step

LEMMA TypeStep ==
  ASSUME TypeOK, NEW w \in Workers, Step(w)
  PROVE  TypeOK'
<1>1. RowsOK' /\ Moves(w)
  BY StepRows DEF TypeOK, RowsOK
<1> QED
  BY <1>1 DEF TypeOK, RowsOK, Moves

(* The rows and the requests keep their types whatever the interleaving of
   the service's methods. *)
THEOREM TypeCorrect == Spec => []TypeOK
<1>1. Init => TypeOK
  BY DEF Init, TypeOK, Idle, Request
<1>2. TypeOK /\ [Next]_vars => TypeOK'
  <2> SUFFICES ASSUME TypeOK, [Next]_vars PROVE TypeOK'
    OBVIOUS
  <2>1. CASE Next
    BY <2>1, TypeStep DEF Next, Step
  <2>2. CASE UNCHANGED vars
    BY <2>2 DEF vars, TypeOK
  <2> QED
    BY <2>1, <2>2
<1> QED
  BY <1>1, <1>2, PTL DEF Spec

(***************************************************************************)
(* What single steps do                                                    *)
(***************************************************************************)

(* No schedule comes into force, none comes back and none changes school. *)
Quiet ==
  \A s \in Schedules :
    /\ Active(s)' => Active(s)
    /\ schedule[s] # Unused =>
         /\ schedule'[s] # Unused
         /\ LiveSchedule(s)' => LiveSchedule(s) /\ schedule'[s].school = schedule[s].school

(* A live row is neither sentinel, and a row built by the code is live. *)
LEMMA RowsAreLive ==
  /\ \A row \in ScheduleRow : row # Unused /\ row # Gone
  /\ \A row \in SessionRow : row # Unused /\ row # Gone
  /\ Unused # Gone
BY SentinelAssumption

LEMMA NewRow ==
  ASSUME NEW dto \in CreateDtos
  PROVE  /\ [school |-> dto.school, start |-> dto.start, end |-> dto.end,
              status |-> "DRAFT", isActive |-> FALSE] \in ScheduleRow
         /\ dto.school \in Schools
BY DtoAssumption DEF CreateDto, ScheduleRow, ScheduleStatus

(* The writes of one row: the row keeps its school, and its flag unless the
   call is the one that sets it. *)
LEMMA RowWrite ==
  ASSUME TypeOK, NEW s \in Schedules, NEW row \in ScheduleRow, LiveSchedule(s),
         row.school = schedule[s].school, row.isActive => Active(s),
         schedule' = [schedule EXCEPT ![s] = row]
  PROVE  Quiet
BY RowsAreLive DEF Quiet, TypeOK, Active, LiveSchedule

(* Only the last call of activate puts a schedule in force. *)
LEMMA QuietStep ==
  ASSUME TypeOK, NEW w \in Workers, Step(w), ~ ActivateSelf(w)
  PROVE  Quiet
<1>0. req[w] \in Request
  BY DEF TypeOK
<1>1. CASE schedule' = schedule
  BY <1>1 DEF Quiet, Active, LiveSchedule
<1>2. CASE CreateInsert(w)
  <2>1. PICK s \in Schedules :
          /\ schedule[s] = Unused
          /\ schedule' = [schedule EXCEPT ![s] =
               [school |-> req[w].dto.school, start |-> req[w].dto.start,
                end |-> req[w].dto.end, status |-> "DRAFT", isActive |-> FALSE]]
    BY <1>2 DEF CreateInsert
  <2>2. req[w].dto \in CreateDtos
    BY <1>0, <1>2, RequestFields DEF CreateInsert
  <2>3. ~ Active(s)'
    BY <2>1 DEF Active, TypeOK
  <2>4. \A t \in Schedules : t # s => schedule'[t] = schedule[t]
    BY <2>1 DEF TypeOK
  <2> QED
    BY <2>1, <2>3, <2>4 DEF Quiet, Active, LiveSchedule
<1>3. CASE UpdateWrite(w)
  <2>1. req[w].schedule \in Schedules /\ req[w].dto \in UpdateDtos
    BY <1>0, <1>3, RequestFields DEF UpdateWrite
  <2>2. schedule[req[w].schedule] \in ScheduleRow /\ LiveSchedule(req[w].schedule)
    BY <1>3, <2>1 DEF UpdateWrite, LiveSchedule, TypeOK
  <2>3. /\ Updated(schedule[req[w].schedule], req[w].dto) \in ScheduleRow
        /\ Updated(schedule[req[w].schedule], req[w].dto).school = schedule[req[w].schedule].school
        /\ Updated(schedule[req[w].schedule], req[w].dto).isActive => Active(req[w].schedule)
    BY <2>1, <2>2, UpdatedRow DEF Active
  <2> QED
    BY <1>3, <2>1, <2>2, <2>3, RowWrite DEF UpdateWrite
<1>4. CASE ApproveWrite(w)
  <2>1. req[w].schedule \in Schedules
    BY <1>0, <1>4, RequestFields DEF ApproveWrite
  <2>2. schedule[req[w].schedule] \in ScheduleRow /\ LiveSchedule(req[w].schedule)
    BY <1>4, <2>1 DEF ApproveWrite, LiveSchedule, TypeOK
  <2> DEFINE row == Restated(schedule[req[w].schedule], "APPROVED", schedule[req[w].schedule].isActive)
  <2>3. /\ row \in ScheduleRow
        /\ row.school = schedule[req[w].schedule].school
        /\ row.isActive = schedule[req[w].schedule].isActive
    BY <2>2, ApprovedRow
  <2>4. row.isActive => Active(req[w].schedule)
    BY <2>2, <2>3, Zenon DEF Active
  <2>5. schedule' = [schedule EXCEPT ![req[w].schedule] = row]
    BY <1>4 DEF ApproveWrite
  <2> HIDE DEF row
  <2> QED
    BY <2>1, <2>2, <2>3, <2>4, <2>5, RowWrite
<1>5. CASE ActivateOthers(w)
  <2>1. \A s \in Schedules : Active(s) =>
          /\ Restated(schedule[s], "ARCHIVED", FALSE) \in ScheduleRow
          /\ Restated(schedule[s], "ARCHIVED", FALSE).isActive = FALSE
          /\ Restated(schedule[s], "ARCHIVED", FALSE).school = schedule[s].school
    BY RestatedRow DEF Active, LiveSchedule, TypeOK, ScheduleStatus
  <2>2. \A s \in Schedules :
          \/ schedule'[s] = schedule[s]
          \/ Active(s) /\ schedule'[s] = Restated(schedule[s], "ARCHIVED", FALSE)
    BY <1>5 DEF ActivateOthers
  <2> QED
    BY <2>1, <2>2, RowsAreLive DEF Quiet, Active, LiveSchedule
<1>6. CASE ArchiveWrite(w)
  <2>1. req[w].schedule \in Schedules
    BY <1>0, <1>6, RequestFields DEF ArchiveWrite
  <2>2. schedule[req[w].schedule] \in ScheduleRow /\ LiveSchedule(req[w].schedule)
    BY <1>6, <2>1 DEF ArchiveWrite, LiveSchedule, TypeOK
  <2> DEFINE row == Restated(schedule[req[w].schedule], "ARCHIVED", FALSE)
  <2>3. /\ row \in ScheduleRow /\ row.school = schedule[req[w].schedule].school
        /\ row.isActive => Active(req[w].schedule)
    BY <2>2, RestatedRow DEF ScheduleStatus
  <2>4. schedule' = [schedule EXCEPT ![req[w].schedule] = row]
    BY <1>6 DEF ArchiveWrite
  <2> HIDE DEF row
  <2> QED
    BY <2>1, <2>2, <2>3, <2>4, RowWrite
<1>7. CASE DeleteWrite(w)
  BY <1>7, RowsAreLive DEF DeleteWrite, TypeOK, Quiet, Active, LiveSchedule
<1>8. schedule' = schedule \/ CreateInsert(w) \/ UpdateWrite(w) \/ ApproveWrite(w)
        \/ ActivateOthers(w) \/ ArchiveWrite(w) \/ DeleteWrite(w)
  BY DEF Step, ScheduleStep, SessionStep, Abort, CreateCheck, UpdateRead, ApproveRead,
     ActivateRead, ArchiveRead, DeleteCheck, RecordNotFound, CreateSessionRead,
     CheckTeacher, CheckRoom, CheckClass, CheckConflict, CreateSessionInsert,
     CreateSessionReject, UpdateSessionRead, UpdateSessionWrite, DeleteSessionRead,
     DeleteSessionWrite, SessionNotFound
<1> QED
  BY <1>1, <1>2, <1>3, <1>4, <1>5, <1>6, <1>7, <1>8

(* A step is one request's: the others keep their place, and the request
   reaches the two calls of activate only through activate. *)
LEMMA RequestStep ==
  ASSUME TypeOK, NEW w \in Workers, Step(w)
  PROVE  /\ \A v \in Workers : v # w => req'[v] = req[v]
         /\ req'[w].at = "activateOthers" =>
              /\ "activate" \in Serves[w]
              /\ schedule[req'[w].schedule] # Unused
              /\ schedule[req'[w].schedule].status = "APPROVED"
              /\ schedule[req'[w].schedule].school = req'[w].school
              /\ schedule' = schedule
         /\ req'[w].at = "activateSelf" =>
              ActivateOthers(w) /\ req'[w].schedule = req[w].schedule
<1> DEFINE labels == {"activateOthers", "activateSelf"}
<1>1. ASSUME NEW next, Continue(w, next)
      PROVE  (\A v \in Workers : v # w => req'[v] = req[v]) /\ req'[w] = next
  BY <1>1 DEF Continue, TypeOK
<1>2. CASE \E s \in Schedules : ActivateRead(w, s)
  BY <1>1, <1>2 DEF ActivateRead, Accepts, LiveSchedule
<1>3. CASE ActivateOthers(w)
  <2>1. Continue(w, [at |-> "activateSelf", schedule |-> req[w].schedule])
    BY <1>3 DEF ActivateOthers
  <2> QED
    BY <1>1, <1>3, <2>1
<1>4. ASSUME NEW next, Continue(w, next), next.at \notin labels
      PROVE  (\A v \in Workers : v # w => req'[v] = req[v]) /\ req'[w].at \notin labels
  BY <1>1, <1>4
<1>5. CASE Done(w)
  BY <1>4, <1>5 DEF Done, Idle
<1>6. CASE \/ \E dto \in CreateDtos : CreateCheck(w, dto)
           \/ \E s \in Schedules, dto \in UpdateDtos : UpdateRead(w, s, dto)
  BY <1>4, <1>6 DEF CreateCheck, UpdateRead
<1>7. CASE \E s \in Schedules : ApproveRead(w, s) \/ ArchiveRead(w, s) \/ DeleteCheck(w, s)
  BY <1>4, <1>7 DEF ApproveRead, ArchiveRead, DeleteCheck
<1>8. CASE \E dto \in SessionDtos : CreateSessionRead(w, dto)
  BY <1>4, <1>8 DEF CreateSessionRead
<1>9. CASE CheckTeacher(w) \/ CheckRoom(w) \/ CheckClass(w)
  BY <1>4, <1>9 DEF CheckTeacher, CheckRoom, CheckClass, CheckConflict
<1>10. CASE \/ \E x \in Sessions, change \in SessionChanges : UpdateSessionRead(w, x, change)
            \/ \E x \in Sessions : DeleteSessionRead(w, x)
  BY <1>4, <1>10 DEF UpdateSessionRead, DeleteSessionRead
<1>11. CASE ScheduleStep(w)
  BY <1>2, <1>3, <1>5, <1>6, <1>7, <1>11
  DEF ScheduleStep, CreateInsert, UpdateWrite, ApproveWrite, ActivateSelf, ArchiveWrite,
      DeleteWrite, RecordNotFound
<1>12. CASE SessionStep(w)
  BY <1>5, <1>8, <1>9, <1>10, <1>12
  DEF SessionStep, CreateSessionInsert, CreateSessionReject, UpdateSessionWrite,
      DeleteSessionWrite, SessionNotFound
<1> QED
  BY <1>5, <1>11, <1>12 DEF Step, Abort

(* A session, once inserted, stays as it is until it is deleted, except for what
   updateSession changes, and its identifier is not used again. *)
LEMMA SessionStays ==
  ASSUME RowsOK, DOMAIN req = Workers, NEW w \in Workers, req[w] \in Request, Step(w)
  PROVE  \A x \in Sessions : session[x] # Unused =>
           /\ session'[x] # Unused
           /\ LiveSession(x)' =>
                /\ LiveSession(x)
                /\ \/ session'[x] = session[x]
                   \/ \E change \in SessionChanges :
                        session'[x] = Changed(session[x], change)
<1>1. CASE session' = session
  BY <1>1 DEF LiveSession
<1>2. CASE CreateSessionInsert(w)
  <2>1. PICK x \in Sessions :
          /\ session[x] = Unused
          /\ \A y \in Sessions : y # x => session'[y] = session[y]
    BY <1>2 DEF CreateSessionInsert, RowsOK
  <2> QED
    BY <2>1 DEF LiveSession
<1>3. CASE DeleteWrite(w)
  BY <1>3, SentinelAssumption DEF DeleteWrite, LiveSession
<1>4. CASE DeleteSessionWrite(w)
  BY <1>4, SentinelAssumption DEF DeleteSessionWrite, RowsOK, LiveSession
<1>5. CASE UpdateSessionWrite(w)
  <2>1. req[w].session \in Sessions /\ req[w].change \in SessionChanges
    BY <1>5, RequestFields DEF UpdateSessionWrite
  <2>2. session[req[w].session] \in SessionRow /\ LiveSession(req[w].session)
    BY <1>5, <2>1 DEF UpdateSessionWrite, LiveSession, RowsOK
  <2> DEFINE row == Changed(session[req[w].session], req[w].change)
  <2>3. row \in SessionRow
    BY <2>1, <2>2, ChangedRow
  <2>4. session'[req[w].session] = row
        /\ \A y \in Sessions : y # req[w].session => session'[y] = session[y]
    BY <1>5, <2>1 DEF UpdateSessionWrite, RowsOK
  <2>5. row # Unused
    BY <2>3, RowsAreLive
  <2> QED
    BY <2>1, <2>2, <2>4, <2>5 DEF LiveSession
<1>6. \/ session' = session \/ CreateSessionInsert(w) \/ DeleteWrite(w)
      \/ DeleteSessionWrite(w) \/ UpdateSessionWrite(w)
  BY DEF Step, ScheduleStep, SessionStep, Abort, CreateCheck, CreateInsert, UpdateRead,
     UpdateWrite, ApproveRead, ApproveWrite, ActivateRead, ActivateOthers, ActivateSelf,
     ArchiveRead, ArchiveWrite, DeleteCheck, RecordNotFound, CreateSessionRead,
     CheckTeacher, CheckRoom, CheckClass, CheckConflict,
     CreateSessionReject, UpdateSessionRead, DeleteSessionRead, SessionNotFound
<1> QED
  BY <1>1, <1>2, <1>3, <1>4, <1>5, <1>6

(***************************************************************************)
(* At most one active schedule per school                                  *)
(***************************************************************************)

(* Between the two writes of activate nobody else is active in the school:
   the strengthening that makes AtMostOneActive inductive. *)
ActivationInv ==
  /\ TypeOK
  /\ AtMostOneActive
  /\ \A w \in Workers : req[w].at \in {"activateOthers", "activateSelf"} =>
       "activate" \in Serves[w] /\ schedule[req[w].schedule] # Unused
  /\ \A w \in Workers : req[w].at = "activateOthers" /\ LiveSchedule(req[w].schedule) =>
       schedule[req[w].schedule].school = req[w].school
  /\ \A w \in Workers : req[w].at = "activateSelf" /\ LiveSchedule(req[w].schedule) =>
       \A s \in Schedules :
         Active(s) /\ schedule[s].school = schedule[req[w].schedule].school
           => s = req[w].schedule

LEMMA ActivationInvInit == Init => ActivationInv
BY DEF Init, ActivationInv, TypeOK, Idle, Request, AtMostOneActive, Active, LiveSchedule

(* The step that puts a schedule in force. *)
LEMMA ActivateSelfKeeps ==
  ASSUME ActivationSerialised, ActivationInv, NEW w \in Workers, ActivateSelf(w)
  PROVE  ActivationInv'
<1> DEFINE target == req[w].schedule
<1>0. TypeOK /\ Step(w) /\ TypeOK'
  BY TypeStep DEF ActivationInv, Step, ScheduleStep
<1>1. target \in Schedules /\ LiveSchedule(target) /\ schedule[target] \in ScheduleRow
  <2>1. req[w] \in Request
    BY <1>0 DEF TypeOK
  <2> QED
    BY <1>0, <2>1, RequestFields DEF ActivateSelf, TypeOK, LiveSchedule
<1>2. /\ schedule'[target].school = schedule[target].school
      /\ \A s \in Schedules : s # target => schedule'[s] = schedule[s]
      /\ schedule'[target] \in ScheduleRow
  BY <1>0, <1>1, RestatedRow DEF ActivateSelf, TypeOK, ScheduleStatus
<1>3. \A v \in Workers : v # w => req'[v] = req[v]
  BY <1>0, RequestStep
<1>4. req'[w].at = "idle"
  BY <1>0 DEF ActivateSelf, Done, Continue, Idle, TypeOK
<1>5. \A v \in Workers : v # w => req[v].at \notin {"activateOthers", "activateSelf"}
  BY DEF ActivationInv, ActivationSerialised, Serialised, ActivateSelf
<1>6. \A s \in Schedules :
        Active(s) /\ schedule[s].school = schedule[target].school => s = target
  BY <1>1 DEF ActivationInv, ActivateSelf
<1>7. AtMostOneActive'
  <2> SUFFICES ASSUME NEW s \in Schedules, NEW t \in Schedules, Active(s)', Active(t)',
                      schedule'[s].school = schedule'[t].school
               PROVE  s = t
    BY DEF AtMostOneActive
  <2>1. CASE s # target /\ t # target
    BY <1>2, <2>1 DEF ActivationInv, AtMostOneActive, Active, LiveSchedule
  <2>2. CASE s = target /\ t # target
    BY <1>2, <1>6, <2>2 DEF Active, LiveSchedule
  <2>3. CASE s # target /\ t = target
    BY <1>2, <1>6, <2>3 DEF Active, LiveSchedule
  <2> QED
    BY <2>1, <2>2, <2>3
<1> QED
  BY <1>0, <1>3, <1>4, <1>5, <1>7 DEF ActivationInv

(* Every other step. *)
LEMMA QuietKeeps ==
  ASSUME ActivationInv, NEW w \in Workers, Step(w), ~ ActivateSelf(w)
  PROVE  ActivationInv'
<1>0. TypeOK /\ TypeOK' /\ Quiet
  BY TypeStep, QuietStep DEF ActivationInv
<1>1. /\ \A v \in Workers : v # w => req'[v] = req[v]
      /\ req'[w].at = "activateOthers" =>
           /\ "activate" \in Serves[w]
           /\ schedule[req'[w].schedule] # Unused
           /\ schedule[req'[w].schedule].school = req'[w].school
           /\ schedule' = schedule
      /\ req'[w].at = "activateSelf" =>
           ActivateOthers(w) /\ req'[w].schedule = req[w].schedule
  BY <1>0, RequestStep
<1>2. \A v \in Workers : req'[v].at \in {"activateOthers", "activateSelf"} =>
        req'[v].schedule \in Schedules
  BY <1>0, RequestFields DEF TypeOK
<1>3. AtMostOneActive'
  <2> SUFFICES ASSUME NEW s \in Schedules, NEW t \in Schedules, Active(s)', Active(t)',
                      schedule'[s].school = schedule'[t].school
               PROVE  s = t
    BY DEF AtMostOneActive
  <2>1. schedule[s].school = schedule[t].school /\ Active(s) /\ Active(t)
    BY <1>0 DEF Quiet, Active, LiveSchedule
  <2> QED
    BY <2>1 DEF ActivationInv, AtMostOneActive
<1>4. ASSUME NEW v \in Workers, req'[v].at \in {"activateOthers", "activateSelf"}
      PROVE  "activate" \in Serves[v] /\ schedule'[req'[v].schedule] # Unused
  <2>1. CASE v # w
    BY <1>0, <1>1, <1>2, <1>4, <2>1 DEF ActivationInv, Quiet
  <2>2. CASE v = w /\ req'[v].at = "activateOthers"
    BY <1>1, <2>2
  <2>3. CASE v = w /\ req'[v].at = "activateSelf"
    BY <1>0, <1>1, <1>2, <2>3 DEF ActivationInv, Quiet, ActivateOthers
  <2> QED
    BY <1>4, <2>1, <2>2, <2>3
<1>5. ASSUME NEW v \in Workers, req'[v].at = "activateOthers", LiveSchedule(req[v].schedule)'
      PROVE  schedule'[req'[v].schedule].school = req'[v].school
  <2>1. CASE v # w
    BY <1>0, <1>1, <1>2, <1>5, <2>1 DEF ActivationInv, Quiet
  <2>2. CASE v = w
    BY <1>1, <1>5, <2>2
  <2> QED
    BY <2>1, <2>2
<1>6. ASSUME NEW v \in Workers, req'[v].at = "activateSelf", LiveSchedule(req[v].schedule)',
             NEW s \in Schedules, Active(s)',
             schedule'[s].school = schedule'[req'[v].schedule].school
      PROVE  s = req'[v].schedule
  <2>0. /\ req'[v].schedule \in Schedules
        /\ Active(s) /\ schedule'[s].school = schedule[s].school
    BY <1>0, <1>2, <1>6 DEF Quiet, Active, LiveSchedule
  <2>1. CASE v # w
    <3>1. req[v].at = "activateSelf" /\ req'[v] = req[v]
      BY <1>1, <1>6, <2>1
    <3>2. schedule[req[v].schedule] # Unused
      BY <3>1 DEF ActivationInv
    <3>3. /\ LiveSchedule(req[v].schedule)
          /\ schedule'[req[v].schedule].school = schedule[req[v].schedule].school
      BY <1>0, <1>6, <2>0, <3>1, <3>2 DEF Quiet
    <3> QED
      BY <1>6, <2>0, <3>1, <3>3 DEF ActivationInv
  <2>2. CASE v = w
    <3>1. ActivateOthers(w) /\ req'[w].schedule = req[w].schedule
      BY <1>1, <1>6, <2>2
    <3>2. LiveSchedule(req[w].schedule) /\ schedule[req[w].schedule].school = req[w].school
          /\ schedule'[req[w].schedule].school = schedule[req[w].schedule].school
      BY <1>0, <1>6, <2>0, <2>2, <3>1 DEF ActivationInv, Quiet, ActivateOthers
    <3>3. ASSUME s # req[w].schedule PROVE FALSE
      <4>1. schedule'[s] = Restated(schedule[s], "ARCHIVED", FALSE)
        BY <1>6, <2>0, <2>2, <3>1, <3>2, <3>3 DEF ActivateOthers
      <4>2. schedule[s] \in ScheduleRow
        BY <1>0, <2>0 DEF TypeOK, Active, LiveSchedule
      <4>3. schedule'[s].isActive = FALSE
        <5>1. "ARCHIVED" \in ScheduleStatus
          BY DEF ScheduleStatus
        <5>2. Restated(schedule[s], "ARCHIVED", FALSE).isActive = FALSE
          BY <4>2, <5>1, RestatedRow
        <5> QED
          BY <4>1, <5>2
      <4> QED
        BY <1>6, <4>3 DEF Active
    <3> QED
      BY <2>2, <3>1, <3>3
  <2> QED
    BY <2>1, <2>2
<1> QED
  BY <1>0, <1>3, <1>4, <1>5, <1>6 DEF ActivationInv

LEMMA ActivationInvStep ==
  ASSUME ActivationSerialised
  PROVE  ActivationInv /\ [Next]_vars => ActivationInv'
<1> SUFFICES ASSUME ActivationInv, [Next]_vars PROVE ActivationInv'
  OBVIOUS
<1>1. CASE Next
  <2>1. PICK w \in Workers : Step(w)
    BY <1>1 DEF Next, Step
  <2> QED
    BY <2>1, ActivateSelfKeeps, QuietKeeps
<1>2. CASE UNCHANGED vars
  BY <1>2 DEF vars, ActivationInv, TypeOK, AtMostOneActive, Active, LiveSchedule
<1> QED
  BY <1>1, <1>2

(* If the deployment executes one activation at a time, a school never has
   two active schedules, whatever else runs between the calls of activate. *)
THEOREM ActiveUnique ==
  ASSUME ActivationSerialised
  PROVE  Spec => []AtMostOneActive
<1>1. ActivationInv => AtMostOneActive
  BY DEF ActivationInv
<1> QED
  BY <1>1, ActivationInvInit, ActivationInvStep, PTL DEF Spec

(***************************************************************************)
(* The overlap query                                                       *)
(***************************************************************************)

(* The three OR branches of create's query together find exactly the active
   schedules that share time with the new one; no pair of periods falls
   between the branches, and two that only meet are not found. *)
THEOREM OverlapsExact ==
  ASSUME NEW row \in ScheduleRow, row.start < row.end,
         NEW dto \in CreateDtos, dto.start < dto.end
  PROVE  Overlaps(row, dto.start, dto.end) <=> row.start < dto.end /\ dto.start < row.end
<1>1. row.start \in Int /\ row.end \in Int /\ dto.start \in Int /\ dto.end \in Int
  BY DtoAssumption DEF ScheduleRow, CreateDto
<1> QED
  BY <1>1 DEF Overlaps

(***************************************************************************)
(* Only approved schedules come into force                                 *)
(***************************************************************************)

LifecycleCalls == {"updateWrite", "approveWrite", "activateOthers", "activateSelf",
                   "archiveWrite"}
Lifecycle(w) == Serves[w] \cap {"update", "approve", "activate", "archive"} # {}

(* The status activate has read stands until it writes. *)
ApprovalInv ==
  /\ TypeOK
  /\ \A w \in Workers : req[w].at \in LifecycleCalls => Lifecycle(w)
  /\ \A w \in Workers : req[w].at \in {"activateOthers", "activateSelf"} =>
       /\ schedule[req[w].schedule] # Unused
       /\ LiveSchedule(req[w].schedule) => schedule[req[w].schedule].status = "APPROVED"

LEMMA ApprovalInvInit == Init => ApprovalInv
BY DEF Init, ApprovalInv, TypeOK, Idle, Request, LifecycleCalls

(* A request comes to a write of the lifecycle only through its methods. *)
LEMMA LifecycleStep ==
  ASSUME TypeOK, NEW w \in Workers, Step(w), req'[w].at \in LifecycleCalls
  PROVE  \/ Lifecycle(w)
         \/ req[w].at = "activateOthers"
<1>1. ASSUME NEW next, Continue(w, next) PROVE req'[w] = next
  BY <1>1 DEF Continue, TypeOK
<1>2. ASSUME NEW next, Continue(w, next), next.at \notin LifecycleCalls PROVE FALSE
  BY <1>1, <1>2
<1>3. ~ Done(w)
  BY <1>2 DEF Done, Idle, LifecycleCalls
<1>4. CASE \E s \in Schedules : ApproveRead(w, s) \/ ArchiveRead(w, s) \/ ActivateRead(w, s)
  BY <1>4 DEF ApproveRead, ArchiveRead, ActivateRead, Accepts, Lifecycle
<1>5. CASE \E s \in Schedules, dto \in UpdateDtos : UpdateRead(w, s, dto)
  BY <1>5 DEF UpdateRead, Accepts, Lifecycle
<1>6. CASE ActivateOthers(w)
  BY <1>6 DEF ActivateOthers
<1>7. ~ \E dto \in CreateDtos : CreateCheck(w, dto)
  BY <1>2 DEF CreateCheck, LifecycleCalls
<1>8. ~ \E s \in Schedules : DeleteCheck(w, s)
  BY <1>2 DEF DeleteCheck, LifecycleCalls
<1>9. ~ SessionStep(w)
  <2>1. ~ \E dto \in SessionDtos : CreateSessionRead(w, dto)
    BY <1>2 DEF CreateSessionRead, LifecycleCalls
  <2>2. ~ CheckTeacher(w) /\ ~ CheckRoom(w) /\ ~ CheckClass(w)
    BY <1>2 DEF CheckTeacher, CheckRoom, CheckClass, CheckConflict, LifecycleCalls
  <2>3. /\ ~ \E x \in Sessions, change \in SessionChanges : UpdateSessionRead(w, x, change)
        /\ ~ \E x \in Sessions : DeleteSessionRead(w, x)
    BY <1>2 DEF UpdateSessionRead, DeleteSessionRead, LifecycleCalls
  <2> QED
    BY <1>3, <2>1, <2>2, <2>3
    DEF SessionStep, CreateSessionInsert, CreateSessionReject, UpdateSessionWrite,
        DeleteSessionWrite, SessionNotFound
<1> QED
  BY <1>3, <1>4, <1>5, <1>6, <1>7, <1>8, <1>9
  DEF Step, Abort, ScheduleStep, CreateInsert, UpdateWrite, ApproveWrite, ActivateSelf,
      ArchiveWrite, DeleteWrite, RecordNotFound

(* What a step that is at none of these writes does to the rows. *)
LEMMA OutsideLifecycle ==
  ASSUME TypeOK, NEW w \in Workers, Step(w), req[w].at \notin LifecycleCalls,
         NEW s \in Schedules, schedule[s] # Unused
  PROVE  schedule'[s] # Unused /\ (schedule'[s] = schedule[s] \/ ~ LiveSchedule(s)')
<1>1. CASE schedule' = schedule
  BY <1>1
<1>2. CASE CreateInsert(w)
  BY <1>2 DEF CreateInsert, TypeOK
<1>3. CASE DeleteWrite(w)
  BY <1>3, RowsAreLive DEF DeleteWrite, TypeOK, LiveSchedule
<1> QED
  BY <1>1, <1>2, <1>3
  DEF Step, ScheduleStep, SessionStep, Abort, CreateCheck, UpdateRead, UpdateWrite,
      ApproveRead, ApproveWrite, ActivateRead, ActivateOthers, ActivateSelf, ArchiveRead,
      ArchiveWrite, DeleteCheck, RecordNotFound, CreateSessionRead, CheckTeacher, CheckRoom,
      CheckClass, CheckConflict, CreateSessionInsert, CreateSessionReject,
      UpdateSessionRead, UpdateSessionWrite, DeleteSessionRead, DeleteSessionWrite,
      SessionNotFound, LifecycleCalls

LEMMA ApprovalInvStep ==
  ASSUME LifecycleSerialised, ApprovalInv, NEW w \in Workers, Step(w)
  PROVE  ApprovalInv'
<1>0. TypeOK /\ TypeOK'
  BY TypeStep DEF ApprovalInv
<1>1. \A v \in Workers : v # w => req'[v] = req[v]
  BY <1>0, RequestStep
<1>2. ASSUME NEW v \in Workers, req'[v].at \in LifecycleCalls
      PROVE  Lifecycle(v)
  BY <1>0, <1>1, <1>2, LifecycleStep DEF ApprovalInv, LifecycleCalls
<1>3. ASSUME NEW v \in Workers, req'[v].at \in {"activateOthers", "activateSelf"}
      PROVE  /\ schedule'[req'[v].schedule] # Unused
             /\ LiveSchedule(req[v].schedule)' => schedule'[req'[v].schedule].status = "APPROVED"
  <2>0. req'[v].schedule \in Schedules
    BY <1>0, <1>3, RequestFields DEF TypeOK
  <2>1. CASE v # w
    <3>1. /\ req'[v] = req[v] /\ Lifecycle(v)
          /\ schedule[req[v].schedule] # Unused
          /\ LiveSchedule(req[v].schedule) => schedule[req[v].schedule].status = "APPROVED"
      BY <1>1, <1>3, <2>1 DEF ApprovalInv, LifecycleCalls
    <3>2. req[w].at \notin LifecycleCalls
      BY <2>1, <3>1 DEF ApprovalInv, LifecycleSerialised, Serialised, Lifecycle
    <3>3. /\ schedule'[req[v].schedule] # Unused
          /\ schedule'[req[v].schedule] = schedule[req[v].schedule] \/ ~ LiveSchedule(req[v].schedule)'
      BY <1>0, <2>0, <3>1, <3>2, OutsideLifecycle DEF LiveSchedule
    <3> QED
      BY <3>1, <3>3 DEF LiveSchedule
  <2>2. CASE v = w /\ req'[v].at = "activateOthers"
    BY <1>0, <2>2, RequestStep
  <2>3. CASE v = w /\ req'[v].at = "activateSelf"
    <3>1. ActivateOthers(w) /\ req'[w].schedule = req[w].schedule
      BY <1>0, <2>3, RequestStep
    <3>2. schedule'[req[w].schedule] = schedule[req[w].schedule]
      BY <2>0, <2>3, <3>1 DEF ActivateOthers
    <3> QED
      BY <2>3, <3>1, <3>2 DEF ApprovalInv, ActivateOthers, LiveSchedule
  <2> QED
    BY <1>3, <2>1, <2>2, <2>3
<1> QED
  BY <1>0, <1>2, <1>3 DEF ApprovalInv

(* If the deployment executes the methods that write statuses one at a time,
   a schedule comes into force only from APPROVED, although sessions are
   booked and schedules created and deleted between the calls of activate. *)
THEOREM ApprovedOnly ==
  ASSUME LifecycleSerialised
  PROVE  Spec => OnlyApprovedActivates
<1>1. ApprovalInv /\ [Next]_vars => ApprovalInv'
  <2> SUFFICES ASSUME ApprovalInv, [Next]_vars PROVE ApprovalInv'
    OBVIOUS
  <2>1. CASE Next
    <3>1. PICK w \in Workers : Step(w)
      BY <2>1 DEF Next, Step
    <3> QED
      BY <3>1, ApprovalInvStep
  <2>2. CASE UNCHANGED vars
    BY <2>2 DEF vars, ApprovalInv, TypeOK, LiveSchedule
  <2> QED
    BY <2>1, <2>2
<1>2. ApprovalInv /\ [Next]_vars =>
        [\A s \in Schedules : ~ Active(s) /\ Active(s)' => schedule[s].status = "APPROVED"]_vars
  <2> SUFFICES ASSUME ApprovalInv, [Next]_vars, NEW s \in Schedules, ~ Active(s), Active(s)'
               PROVE  schedule[s].status = "APPROVED"
    OBVIOUS
  <2>1. CASE Next
    <3>1. PICK w \in Workers : Step(w)
      BY <2>1 DEF Next, Step
    <3>2. ActivateSelf(w)
      BY <3>1, QuietStep DEF ApprovalInv, Quiet
    <3>3. req[w].schedule = s
      BY <3>2 DEF ActivateSelf, ApprovalInv, TypeOK, Active, LiveSchedule
    <3> QED
      BY <3>2, <3>3 DEF ActivateSelf, ApprovalInv
  <2>2. CASE UNCHANGED vars
    BY <2>2 DEF vars, Active, LiveSchedule
  <2> QED
    BY <2>1, <2>2
<1> QED
  BY <1>1, <1>2, ApprovalInvInit, PTL DEF Spec, OnlyApprovedActivates

(***************************************************************************)
(* Refinement                                                              *)
(***************************************************************************)

(* A step that puts nothing in force retires schedules of one school. *)
LEMMA OneSchool ==
  ASSUME TypeOK, NEW w \in Workers, Step(w), ~ ActivateSelf(w),
         NEW s \in Schedules, Active(s), ~ Active(s)',
         NEW t \in Schedules, Active(t), ~ Active(t)'
  PROVE  schedule[s].school = schedule[t].school
<1>1. CASE ActivateOthers(w)
  BY <1>1 DEF ActivateOthers, Active, LiveSchedule
<1>2. ASSUME NEW u, \A v \in Schedules : v # u => schedule'[v] = schedule[v]
      PROVE  s = t
  BY <1>2 DEF Active, LiveSchedule
<1>3. schedule' # schedule
  BY DEF Active, LiveSchedule
<1>4. CASE CreateInsert(w)
  BY <1>2, <1>4 DEF CreateInsert, TypeOK
<1>5. CASE UpdateWrite(w) \/ ApproveWrite(w) \/ ArchiveWrite(w) \/ DeleteWrite(w)
  BY <1>2, <1>5 DEF UpdateWrite, ApproveWrite, ArchiveWrite, DeleteWrite, TypeOK
<1> QED
  BY <1>1, <1>2, <1>3, <1>4, <1>5
  DEF Step, ScheduleStep, SessionStep, Abort, CreateCheck, UpdateRead, ApproveRead,
     ActivateRead, ArchiveRead, DeleteCheck, RecordNotFound, CreateSessionRead,
     CheckTeacher, CheckRoom, CheckClass, CheckConflict, CreateSessionInsert,
     CreateSessionReject, UpdateSessionRead, UpdateSessionWrite, DeleteSessionRead,
     DeleteSessionWrite, SessionNotFound

(* The schedules in force at a school, before and after a step. *)
LEMMA RetireStep ==
  ASSUME ActivationInv, NEW w \in Workers, Step(w), ~ ActivateSelf(w)
  PROVE  Register!Next \/ UNCHANGED InForce
<1>0. TypeOK /\ Quiet
  BY QuietStep DEF ActivationInv
<1> DEFINE at(k) == {s \in Schedules : Active(s) /\ schedule[s].school = k}
           then(k) == {s \in Schedules : Active(s)' /\ schedule'[s].school = k}
<1>1. \A k \in Schools : InForce[k] = at(k) /\ InForce'[k] = then(k)
  BY DEF InForce
<1>2. \A s \in Schedules : Active(s) => schedule[s].school \in Schools
  BY <1>0 DEF TypeOK, Active, LiveSchedule, ScheduleRow
<1>3. \A s \in Schedules : Active(s)' => Active(s) /\ schedule'[s].school = schedule[s].school
  BY <1>0 DEF Quiet, Active, LiveSchedule
<1>4. CASE \A s \in Schedules : Active(s) => Active(s)'
  <2>1. \A k \in Schools : at(k) = then(k)
    BY <1>3, <1>4
  <2> QED
    BY <2>1 DEF InForce
<1>5. CASE \E s \in Schedules : Active(s) /\ ~ Active(s)'
  <2>1. PICK s \in Schedules : Active(s) /\ ~ Active(s)'
    BY <1>5
  <2> DEFINE k0 == schedule[s].school
  <2>2. k0 \in Schools /\ s \in at(k0)
    BY <1>2, <2>1
  <2>3. \A t \in Schedules : Active(t) /\ schedule[t].school = k0 => t = s
    BY <2>1 DEF ActivationInv, AtMostOneActive
  <2>4. then(k0) = {}
    BY <1>3, <2>1, <2>3
  <2>5. \A k \in Schools : k # k0 => then(k) = at(k)
    <3> SUFFICES ASSUME NEW k \in Schools, k # k0,
                        NEW t \in Schedules
                 PROVE  Active(t)' /\ schedule'[t].school = k <=> Active(t) /\ schedule[t].school = k
      OBVIOUS
    <3>1. Active(t) /\ schedule[t].school = k => Active(t)'
      BY <1>0, <2>1, OneSchool
    <3> QED
      BY <1>3, <3>1
  <2>6. InForce' = [InForce EXCEPT ![k0] = {}]
    BY <1>1, <2>2, <2>4, <2>5 DEF InForce
  <2>7. InForce[k0] # {}
    BY <1>1, <2>2
  <2>8. Register!Retire(k0)
    BY <2>6, <2>7 DEF Register!Retire
  <2> QED
    BY <2>2, <2>8 DEF Register!Next
<1> QED
  BY <1>4, <1>5

LEMMA EnforceStep ==
  ASSUME ActivationInv, NEW w \in Workers, ActivateSelf(w)
  PROVE  Register!Next \/ UNCHANGED InForce
<1>0. TypeOK /\ req[w] \in Request
  BY DEF ActivationInv, TypeOK
<1>1. PICK target \in Schedules : target = req[w].schedule
  BY <1>0, RequestFields DEF ActivateSelf
<1>2. LiveSchedule(target) /\ schedule[target] \in ScheduleRow
  BY <1>0, <1>1 DEF ActivateSelf, TypeOK, LiveSchedule
<1>3. PICK k0 \in Schools : k0 = schedule[target].school
  BY <1>2 DEF ScheduleRow
<1>4. /\ schedule'[target] = Restated(schedule[target], "ACTIVE", TRUE)
      /\ \A s \in Schedules : s # target => schedule'[s] = schedule[s]
  BY <1>0, <1>1 DEF ActivateSelf, TypeOK
<1>5. Active(target)' /\ schedule'[target].school = k0
  <2>1. "ACTIVE" \in ScheduleStatus
    BY DEF ScheduleStatus
  <2>2. schedule'[target] \in ScheduleRow /\ schedule'[target].school = k0
    <3>1. Restated(schedule[target], "ACTIVE", TRUE) \in ScheduleRow
      BY <1>2, <2>1, RestatedRow
    <3>2. Restated(schedule[target], "ACTIVE", TRUE).school = schedule[target].school
      BY <1>2, <2>1, RestatedRow
    <3> QED
      BY <1>3, <1>4, <3>1, <3>2
  <2>3. schedule'[target].isActive = TRUE
    BY <1>2, <1>4, <2>1, RestatedRow, Zenon
  <2>4. schedule'[target] # Unused /\ schedule'[target] # Gone
    BY <2>2, RowsAreLive
  <2> QED
    BY <2>2, <2>3, <2>4, Zenon DEF Active, LiveSchedule
<1>6. \A s \in Schedules : Active(s) /\ schedule[s].school = k0 => s = target
  BY <1>1, <1>2, <1>3 DEF ActivationInv, ActivateSelf
<1>7. InForce'[k0] = {target}
  <2>1. \A s \in Schedules : Active(s)' /\ schedule'[s].school = k0 => s = target
    BY <1>4, <1>6 DEF Active, LiveSchedule
  <2>2. InForce'[k0] = {s \in Schedules : Active(s)' /\ schedule'[s].school = k0}
    BY DEF InForce
  <2> QED
    BY <1>5, <2>1, <2>2
<1>8. \A k \in Schools : k # k0 => InForce'[k] = InForce[k]
  <2> SUFFICES ASSUME NEW k \in Schools, k # k0, NEW s \in Schedules
               PROVE  Active(s)' /\ schedule'[s].school = k <=> Active(s) /\ schedule[s].school = k
    BY DEF InForce
  <2>1. CASE s = target
    BY <1>3, <1>5, <2>1
  <2>2. CASE s # target
    BY <1>4, <2>2 DEF Active, LiveSchedule
  <2> QED
    BY <2>1, <2>2
<1>9. InForce' = [InForce EXCEPT ![k0] = {target}]
  BY <1>7, <1>8 DEF InForce
<1>10. CASE Active(target)
  <2>1. InForce[k0] = {target}
    BY <1>3, <1>6, <1>10 DEF InForce
  <2> QED
    BY <1>9, <2>1 DEF InForce
<1>11. CASE ~ Active(target)
  <2>1. InForce[k0] = {}
    BY <1>6, <1>11 DEF InForce
  <2> QED
    BY <1>9, <2>1 DEF Register!Next, Register!Enforce
<1> QED
  BY <1>10, <1>11

(* If the deployment executes one activation at a time, the active schedules
   of all schools behave as registers that hold one schedule at most and
   change one at a time, whatever the rows and requests beneath do. *)
THEOREM RegisterImplemented ==
  ASSUME ActivationSerialised
  PROVE  Spec => RegisterSpec
<1>1. Init => Register!Init
  BY DEF Init, Register!Init, InForce, Active, LiveSchedule
<1>2. ActivationInv /\ [Next]_vars => [Register!Next]_InForce
  <2> SUFFICES ASSUME ActivationInv, [Next]_vars PROVE [Register!Next]_InForce
    OBVIOUS
  <2>1. CASE Next
    <3>1. PICK w \in Workers : Step(w)
      BY <2>1 DEF Next, Step
    <3> QED
      BY <3>1, RetireStep, EnforceStep
  <2>2. CASE UNCHANGED vars
    BY <2>2 DEF vars, InForce, Active, LiveSchedule
  <2> QED
    BY <2>1, <2>2
<1> QED
  BY <1>1, <1>2, ActivationInvInit, ActivationInvStep, PTL
  DEF Spec, RegisterSpec, Register!Spec

(***************************************************************************)
(* The sessions: when createSession prevents double bookings, and when     *)
(* delete spares them                                                      *)
(***************************************************************************)

BookingCalls == {"teacherCheck", "roomCheck", "classCheck", "sessionInsert"}

(* A session that the conflict queries count. *)
Holds(x) == LiveSession(x) /\ session[x].status # "CANCELLED"

(* Nothing is booked and nothing is moved. *)
Calm ==
  \A x \in Sessions :
    Holds(x)' => /\ Holds(x)
                 /\ session'[x].teacher = session[x].teacher
                 /\ session'[x].room = session[x].room
                 /\ session'[x].class = session[x].class
                 /\ session'[x].slot = session[x].slot

(* An update that only cancels moves nothing. *)
LEMMA CancelledRow ==
  ASSUME UpdatesOnlyCancel, NEW row \in SessionRow, NEW change \in SessionChanges
  PROVE  /\ Changed(row, change).teacher = row.teacher
         /\ Changed(row, change).room = row.room
         /\ Changed(row, change).class = row.class
         /\ Changed(row, change).slot = row.slot
         /\ Changed(row, change).status \in {row.status, "CANCELLED"}
BY DEF UpdatesOnlyCancel, SessionRow, Changed, Given

(* Only the last call of createSession books. *)
LEMMA CalmStep ==
  ASSUME UpdatesOnlyCancel, TypeOK, NEW w \in Workers, Step(w), ~ CreateSessionInsert(w)
  PROVE  Calm
<1>0. req[w] \in Request
  BY DEF TypeOK
<1>1. CASE session' = session
  BY <1>1 DEF Calm, Holds, LiveSession
<1>2. CASE DeleteWrite(w)
  BY <1>2 DEF DeleteWrite, TypeOK, Calm, Holds, LiveSession
<1>3. CASE DeleteSessionWrite(w)
  BY <1>3 DEF DeleteSessionWrite, TypeOK, Calm, Holds, LiveSession
<1>4. CASE UpdateSessionWrite(w)
  <2>1. req[w].session \in Sessions /\ req[w].change \in SessionChanges
    BY <1>0, <1>4, RequestFields DEF UpdateSessionWrite
  <2>2. session[req[w].session] \in SessionRow /\ LiveSession(req[w].session)
    BY <1>4, <2>1 DEF UpdateSessionWrite, LiveSession, TypeOK
  <2> DEFINE row == Changed(session[req[w].session], req[w].change)
  <2>3. /\ row.teacher = session[req[w].session].teacher
        /\ row.room = session[req[w].session].room
        /\ row.class = session[req[w].session].class
        /\ row.slot = session[req[w].session].slot
        /\ row.status \in {session[req[w].session].status, "CANCELLED"}
    BY <2>1, <2>2, CancelledRow
  <2>4. session' = [session EXCEPT ![req[w].session] = row]
    BY <1>4 DEF UpdateSessionWrite
  <2> HIDE DEF row
  <2> QED
    BY <2>1, <2>2, <2>3, <2>4 DEF TypeOK, Calm, Holds, LiveSession
<1>5. session' = session \/ DeleteWrite(w) \/ DeleteSessionWrite(w) \/ UpdateSessionWrite(w)
  BY DEF Step, ScheduleStep, SessionStep, Abort, CreateCheck, CreateInsert, UpdateRead,
     UpdateWrite, ApproveRead, ApproveWrite, ActivateRead, ActivateOthers, ActivateSelf,
     ArchiveRead, ArchiveWrite, DeleteCheck, RecordNotFound, CreateSessionRead,
     CheckTeacher, CheckRoom, CheckClass, CheckConflict,
     CreateSessionReject, UpdateSessionRead, DeleteSessionRead, SessionNotFound
<1> QED
  BY <1>1, <1>2, <1>3, <1>4, <1>5

(* What calm leaves free stays free. *)
LEMMA CalmStaysFree ==
  ASSUME Calm, NEW dto
  PROVE  /\ ~ Occupied("teacher", dto) => ~ Occupied("teacher", dto)'
         /\ ~ Occupied("room", dto) => ~ Occupied("room", dto)'
         /\ ~ Occupied("class", dto) => ~ Occupied("class", dto)'
BY DEF Calm, Holds, Occupied, LiveSession

(* How a request comes to each call of createSession. *)
LEMMA BookingStep ==
  ASSUME TypeOK, NEW w \in Workers, Step(w)
  PROVE  /\ req'[w].at = "teacherCheck" => "createSession" \in Serves[w]
         /\ req'[w].at = "roomCheck" =>
              /\ req[w].at = "teacherCheck" /\ session' = session
              /\ req'[w].dto = req[w].dto
              /\ req'[w].found = (req[w].found \/ Occupied("teacher", req[w].dto))
         /\ req'[w].at = "classCheck" =>
              /\ req[w].at = "roomCheck" /\ session' = session
              /\ req'[w].dto = req[w].dto
              /\ req'[w].found = (req[w].found \/ Occupied("room", req[w].dto))
         /\ req'[w].at = "sessionInsert" =>
              /\ req[w].at = "classCheck" /\ session' = session
              /\ req'[w].dto = req[w].dto
              /\ req'[w].found = (req[w].found \/ Occupied("class", req[w].dto))
<1>1. ASSUME NEW next, Continue(w, next) PROVE req'[w] = next
  BY <1>1 DEF Continue, TypeOK
<1>2. ASSUME NEW next, Continue(w, next), next.at \notin BookingCalls
      PROVE  req'[w].at \notin BookingCalls
  BY <1>1, <1>2
<1>3. CASE Done(w)
  BY <1>2, <1>3 DEF Done, Idle, BookingCalls
<1>4. CASE \E dto \in SessionDtos : CreateSessionRead(w, dto)
  BY <1>1, <1>4 DEF CreateSessionRead, Accepts
<1>5. CASE CheckTeacher(w)
  BY <1>1, <1>5 DEF CheckTeacher, CheckConflict
<1>6. CASE CheckRoom(w)
  BY <1>1, <1>6 DEF CheckRoom, CheckConflict
<1>7. CASE CheckClass(w)
  BY <1>1, <1>7 DEF CheckClass, CheckConflict
<1>8. CASE \/ \E dto \in CreateDtos : CreateCheck(w, dto)
           \/ \E s \in Schedules, dto \in UpdateDtos : UpdateRead(w, s, dto)
  BY <1>2, <1>8 DEF CreateCheck, UpdateRead, BookingCalls
<1>9. CASE \E s \in Schedules : ApproveRead(w, s) \/ ArchiveRead(w, s) \/ DeleteCheck(w, s)
                                \/ ActivateRead(w, s)
  BY <1>2, <1>9 DEF ApproveRead, ArchiveRead, DeleteCheck, ActivateRead, BookingCalls
<1>10. CASE ActivateOthers(w)
  BY <1>2, <1>10 DEF ActivateOthers, BookingCalls
<1>11. CASE \/ \E x \in Sessions, change \in SessionChanges : UpdateSessionRead(w, x, change)
            \/ \E x \in Sessions : DeleteSessionRead(w, x)
  BY <1>2, <1>11 DEF UpdateSessionRead, DeleteSessionRead, BookingCalls
<1>12. CASE ScheduleStep(w)
  BY <1>3, <1>8, <1>9, <1>10, <1>12
  DEF ScheduleStep, CreateInsert, UpdateWrite, ApproveWrite, ActivateSelf, ArchiveWrite,
      DeleteWrite, RecordNotFound
<1>13. CASE SessionStep(w)
  BY <1>3, <1>4, <1>5, <1>6, <1>7, <1>11, <1>13
  DEF SessionStep, CreateSessionInsert, CreateSessionReject, UpdateSessionWrite,
      DeleteSessionWrite, SessionNotFound
<1> QED
  BY <1>3, <1>12, <1>13 DEF Step, Abort

(***************************************************************************)
(* No double bookings                                                      *)
(***************************************************************************)

(* What the queries of a request have found free is still free when it comes
   to insert: the strengthening that makes NoDoubleBooking inductive. *)
Confirmed(w) ==
  ~ req[w].found =>
    /\ req[w].at \in {"roomCheck", "classCheck", "sessionInsert"}
         => ~ Occupied("teacher", req[w].dto)
    /\ req[w].at \in {"classCheck", "sessionInsert"} => ~ Occupied("room", req[w].dto)
    /\ req[w].at = "sessionInsert" => ~ Occupied("class", req[w].dto)

BookingInv ==
  /\ TypeOK
  /\ NoDoubleBooking
  /\ \A w \in Workers : req[w].at \in BookingCalls => "createSession" \in Serves[w]
  /\ \A w \in Workers : req[w].at \in BookingCalls => Confirmed(w)

LEMMA BookingInvInit == Init => BookingInv
BY DEF Init, BookingInv, TypeOK, Idle, Request, NoDoubleBooking, LiveSession, BookingCalls

LEMMA CalmKeeps ==
  ASSUME UpdatesOnlyCancel, BookingInv, NEW w \in Workers, Step(w), ~ CreateSessionInsert(w)
  PROVE  BookingInv'
<1>0. TypeOK /\ TypeOK' /\ Calm
  BY TypeStep, CalmStep DEF BookingInv
<1>1. \A v \in Workers : v # w => req'[v] = req[v]
  BY <1>0, RequestStep
<1>2. NoDoubleBooking'
  BY <1>0 DEF BookingInv, NoDoubleBooking, Clash, Calm, Holds
<1>3. ASSUME NEW v \in Workers, req'[v].at \in BookingCalls
      PROVE  "createSession" \in Serves[v]
  BY <1>0, <1>1, <1>3, BookingStep DEF BookingInv, BookingCalls
<1>4. ASSUME NEW v \in Workers, req'[v].at \in BookingCalls
      PROVE  Confirmed(v)'
  <2>1. CASE v # w
    BY <1>0, <1>1, <1>4, <2>1, CalmStaysFree DEF BookingInv, Confirmed
  <2>2. CASE v = w
    BY <1>0, <1>4, <2>2, BookingStep, CalmStaysFree DEF BookingInv, Confirmed, BookingCalls
  <2> QED
    BY <2>1, <2>2
<1> QED
  BY <1>0, <1>2, <1>3, <1>4 DEF BookingInv

LEMMA InsertKeeps ==
  ASSUME BookingSerialised, BookingInv, NEW w \in Workers, CreateSessionInsert(w)
  PROVE  BookingInv'
<1>0. TypeOK /\ Step(w) /\ TypeOK'
  BY TypeStep DEF BookingInv, Step, SessionStep
<1>1. \A v \in Workers : v # w => req'[v] = req[v]
  BY <1>0, RequestStep
<1>2. req'[w].at = "idle"
  BY <1>0 DEF CreateSessionInsert, Done, Continue, Idle, TypeOK
<1>3. \A v \in Workers : v # w => req[v].at \notin BookingCalls
  BY DEF BookingInv, BookingSerialised, Serialised, CreateSessionInsert, BookingCalls
<1>4. \A v \in Workers : req'[v].at \notin BookingCalls
  BY <1>1, <1>2, <1>3 DEF BookingCalls
<1> DEFINE row == [schedule |-> req[w].dto.schedule, teacher |-> req[w].dto.teacher,
                   room |-> req[w].dto.room, class |-> req[w].dto.class,
                   slot |-> req[w].dto.slot, status |-> "SCHEDULED"]
<1>5. /\ row.teacher = req[w].dto.teacher /\ row.room = req[w].dto.room
      /\ row.class = req[w].dto.class /\ row.slot = req[w].dto.slot
  OBVIOUS
<1>6. PICK x \in Sessions : session' = [session EXCEPT ![x] = row]
  BY DEF CreateSessionInsert
<1> HIDE DEF row
<1>7. /\ session'[x] = row
      /\ \A y \in Sessions : y # x => session'[y] = session[y]
  BY <1>0, <1>6 DEF TypeOK
<1>8. ~ Occupied("teacher", req[w].dto) /\ ~ Occupied("room", req[w].dto)
      /\ ~ Occupied("class", req[w].dto)
  BY DEF CreateSessionInsert, BookingInv, Confirmed, BookingCalls
<1>9. \A y \in Sessions : Holds(y) => ~ Clash(session[y], row) /\ ~ Clash(row, session[y])
  BY <1>5, <1>8 DEF Holds, Clash, Occupied
<1>10. NoDoubleBooking'
  <2> SUFFICES ASSUME NEW y \in Sessions, NEW z \in Sessions, y # z,
                      Holds(y)', Holds(z)'
               PROVE  ~ Clash(session'[y], session'[z])
    BY DEF NoDoubleBooking, Holds
  <2>1. CASE y # x /\ z # x
    BY <1>7, <2>1 DEF BookingInv, NoDoubleBooking, Holds, LiveSession
  <2>2. CASE y = x
    BY <1>7, <1>9, <2>2 DEF Holds, LiveSession
  <2>3. CASE z = x
    BY <1>7, <1>9, <2>3 DEF Holds, LiveSession
  <2> QED
    BY <2>1, <2>2, <2>3
<1> QED
  BY <1>0, <1>4, <1>10 DEF BookingInv

(* If the deployment executes one createSession at a time, and updates of
   sessions only cancel, no teacher, room or class is booked twice in a
   slot, whatever else runs between the conflict queries and the insert. *)
THEOREM BookingSafe ==
  ASSUME BookingSerialised, UpdatesOnlyCancel
  PROVE  Spec => []NoDoubleBooking
<1>1. BookingInv /\ [Next]_vars => BookingInv'
  <2> SUFFICES ASSUME BookingInv, [Next]_vars PROVE BookingInv'
    OBVIOUS
  <2>1. CASE Next
    <3>1. PICK w \in Workers : Step(w)
      BY <2>1 DEF Next, Step
    <3> QED
      BY <3>1, CalmKeeps, InsertKeeps
  <2>2. CASE UNCHANGED vars
    BY <2>2 DEF vars, BookingInv, TypeOK, NoDoubleBooking, LiveSession, Confirmed, Occupied
  <2> QED
    BY <2>1, <2>2
<1>2. BookingInv => NoDoubleBooking
  BY DEF BookingInv
<1> QED
  BY <1>1, <1>2, BookingInvInit, PTL DEF Spec

(***************************************************************************)
(* Deletion spares sessions                                                *)
(***************************************************************************)

(* The schedule a delete has checked stays without sessions. *)
DeletionInv ==
  /\ TypeOK
  /\ \A w \in Workers : req[w].at \in BookingCalls => "createSession" \in Serves[w]
  /\ \A w \in Workers : req[w].at = "deleteWrite" =>
       "delete" \in Serves[w] /\ SessionsOf(req[w].schedule) = {}

LEMMA DeletionInvInit == Init => DeletionInv
BY DEF Init, DeletionInv, TypeOK, Idle, Request, BookingCalls

LEMMA ChangedSchedule ==
  ASSUME NEW row \in SessionRow, NEW change \in SessionChanges
  PROVE  Changed(row, change).schedule = row.schedule
BY DEF SessionRow, Changed

(* Only the last call of createSession gives a schedule another session. *)
LEMMA SessionsShrink ==
  ASSUME TypeOK, NEW w \in Workers, Step(w), ~ CreateSessionInsert(w), NEW s
  PROVE  SessionsOf(s)' \subseteq SessionsOf(s)
<1>0. req[w] \in Request
  BY DEF TypeOK
<1>1. CASE session' = session
  BY <1>1 DEF SessionsOf, LiveSession
<1>2. CASE DeleteWrite(w)
  <2>1. \A x \in Sessions : session'[x] = Gone \/ session'[x] = session[x]
    BY <1>2 DEF DeleteWrite
  <2> QED
    BY <2>1 DEF SessionsOf, LiveSession
<1>3. CASE DeleteSessionWrite(w)
  BY <1>3 DEF DeleteSessionWrite, TypeOK, SessionsOf, LiveSession
<1>4. CASE UpdateSessionWrite(w)
  <2>1. req[w].session \in Sessions /\ req[w].change \in SessionChanges
    BY <1>0, <1>4, RequestFields DEF UpdateSessionWrite
  <2>2. session[req[w].session] \in SessionRow /\ LiveSession(req[w].session)
    BY <1>4, <2>1 DEF UpdateSessionWrite, LiveSession, TypeOK
  <2> DEFINE row == Changed(session[req[w].session], req[w].change)
  <2>3. row.schedule = session[req[w].session].schedule
    BY <2>1, <2>2, ChangedSchedule
  <2>4. session' = [session EXCEPT ![req[w].session] = row]
    BY <1>4 DEF UpdateSessionWrite
  <2> HIDE DEF row
  <2> QED
    BY <2>1, <2>2, <2>3, <2>4 DEF TypeOK, SessionsOf, LiveSession
<1>5. session' = session \/ DeleteWrite(w) \/ DeleteSessionWrite(w) \/ UpdateSessionWrite(w)
  BY DEF Step, ScheduleStep, SessionStep, Abort, CreateCheck, CreateInsert, UpdateRead,
     UpdateWrite, ApproveRead, ApproveWrite, ActivateRead, ActivateOthers, ActivateSelf,
     ArchiveRead, ArchiveWrite, DeleteCheck, RecordNotFound, CreateSessionRead,
     CheckTeacher, CheckRoom, CheckClass, CheckConflict,
     CreateSessionReject, UpdateSessionRead, DeleteSessionRead, SessionNotFound
<1> QED
  BY <1>1, <1>2, <1>3, <1>4, <1>5

(* A request comes to the delete only through its count. *)
LEMMA DeleteStep ==
  ASSUME TypeOK, NEW w \in Workers, Step(w), req'[w].at = "deleteWrite"
  PROVE  /\ "delete" \in Serves[w] /\ session' = session
         /\ SessionsOf(req'[w].schedule) = {}
<1>1. ASSUME NEW next, Continue(w, next) PROVE req'[w] = next
  BY <1>1 DEF Continue, TypeOK
<1>2. ASSUME NEW next, Continue(w, next), next.at # "deleteWrite" PROVE FALSE
  BY <1>1, <1>2
<1>3. ~ Done(w)
  BY <1>2 DEF Done, Idle
<1>4. CASE \E s \in Schedules : DeleteCheck(w, s)
  BY <1>1, <1>4 DEF DeleteCheck, Accepts
<1>5. ~ \E dto \in CreateDtos : CreateCheck(w, dto)
  BY <1>2 DEF CreateCheck
<1>6. ~ \E s \in Schedules, dto \in UpdateDtos : UpdateRead(w, s, dto)
  BY <1>2 DEF UpdateRead
<1>7. ~ \E s \in Schedules : ApproveRead(w, s) \/ ArchiveRead(w, s) \/ ActivateRead(w, s)
  BY <1>2 DEF ApproveRead, ArchiveRead, ActivateRead
<1>8. ~ ActivateOthers(w)
  BY <1>2 DEF ActivateOthers
<1>9. ~ \E dto \in SessionDtos : CreateSessionRead(w, dto)
  BY <1>2 DEF CreateSessionRead
<1>10. ~ CheckTeacher(w) /\ ~ CheckRoom(w) /\ ~ CheckClass(w)
  BY <1>2 DEF CheckTeacher, CheckRoom, CheckClass, CheckConflict
<1>11. /\ ~ \E x \in Sessions, change \in SessionChanges : UpdateSessionRead(w, x, change)
       /\ ~ \E x \in Sessions : DeleteSessionRead(w, x)
  BY <1>2 DEF UpdateSessionRead, DeleteSessionRead
<1>12. CASE ScheduleStep(w)
  BY <1>3, <1>4, <1>5, <1>6, <1>7, <1>8, <1>12
  DEF ScheduleStep, CreateInsert, UpdateWrite, ApproveWrite, ActivateSelf, ArchiveWrite,
      DeleteWrite, RecordNotFound
<1>13. CASE SessionStep(w)
  BY <1>3, <1>9, <1>10, <1>11, <1>13
  DEF SessionStep, CreateSessionInsert, CreateSessionReject, UpdateSessionWrite,
      DeleteSessionWrite, SessionNotFound
<1> QED
  BY <1>3, <1>12, <1>13 DEF Step, Abort

LEMMA DeletionInvStep ==
  ASSUME DeletionSerialised, DeletionInv, NEW w \in Workers, Step(w)
  PROVE  DeletionInv'
<1>0. TypeOK /\ TypeOK'
  BY TypeStep DEF DeletionInv
<1>1. \A v \in Workers : v # w => req'[v] = req[v]
  BY <1>0, RequestStep
<1>2. ASSUME NEW v \in Workers, req'[v].at \in BookingCalls
      PROVE  "createSession" \in Serves[v]
  BY <1>0, <1>1, <1>2, BookingStep DEF DeletionInv, BookingCalls
<1>3. ASSUME NEW v \in Workers, req'[v].at = "deleteWrite"
      PROVE  "delete" \in Serves[v] /\ SessionsOf(req[v].schedule)' = {}
  <2>1. CASE v = w
    BY <1>0, <1>3, <2>1, DeleteStep DEF SessionsOf, LiveSession
  <2>2. CASE v # w
    <3>1. req'[v] = req[v] /\ "delete" \in Serves[v] /\ SessionsOf(req[v].schedule) = {}
      BY <1>1, <1>3, <2>2 DEF DeletionInv
    <3>2. ~ CreateSessionInsert(w)
      BY <2>2, <3>1 DEF DeletionInv, DeletionSerialised, Serialised, CreateSessionInsert,
                        BookingCalls
    <3>3. \A s : SessionsOf(s)' \subseteq SessionsOf(s)
      BY <1>0, <3>2, SessionsShrink
    <3>4. SessionsOf(req[v].schedule)' = {x \in Sessions : LiveSession(x)' /\ session'[x].schedule = req'[v].schedule}
      BY DEF SessionsOf
    <3> QED
      BY <3>1, <3>3, <3>4 DEF SessionsOf
  <2> QED
    BY <2>1, <2>2
<1> QED
  BY <1>0, <1>2, <1>3 DEF DeletionInv

(* Only the last call of delete removes a schedule. *)
LEMMA OnlyDeleteRemoves ==
  ASSUME TypeOK, NEW w \in Workers, Step(w), NEW s \in Schedules,
         LiveSchedule(s), ~ LiveSchedule(s)'
  PROVE  req[w].at = "deleteWrite" /\ req[w].schedule = s
<1>0. req[w] \in Request /\ TypeOK'
  BY TypeStep DEF TypeOK
<1>1. CASE DeleteWrite(w)
  BY <1>1 DEF DeleteWrite, LiveSchedule, TypeOK
<1>2. schedule' # schedule
  BY DEF LiveSchedule
<1>3. ASSUME NEW t \in Schedules, NEW row \in ScheduleRow,
             schedule' = [schedule EXCEPT ![t] = row]
      PROVE  FALSE
  BY <1>3, RowsAreLive DEF LiveSchedule, TypeOK
<1>4. ~ CreateInsert(w)
  <2> SUFFICES ASSUME CreateInsert(w) PROVE FALSE
    OBVIOUS
  <2>1. req[w].dto \in CreateDtos
    BY <1>0, RequestFields DEF CreateInsert
  <2> QED
    BY <1>3, <2>1, NewRow DEF CreateInsert
<1>5. ~ UpdateWrite(w)
  <2> SUFFICES ASSUME UpdateWrite(w) PROVE FALSE
    OBVIOUS
  <2>1. req[w].schedule \in Schedules /\ req[w].dto \in UpdateDtos
    BY <1>0, RequestFields DEF UpdateWrite
  <2>2. schedule[req[w].schedule] \in ScheduleRow
    BY <2>1 DEF UpdateWrite, LiveSchedule, TypeOK
  <2> QED
    BY <1>3, <2>1, <2>2, UpdatedRow DEF UpdateWrite
<1>6. ASSUME NEW st \in ScheduleStatus, NEW a \in BOOLEAN, req[w].schedule \in Schedules,
             LiveSchedule(req[w].schedule),
             schedule' = [schedule EXCEPT ![req[w].schedule] =
                            Restated(schedule[req[w].schedule], st, a)]
      PROVE  FALSE
  <2>1. schedule[req[w].schedule] \in ScheduleRow
    BY <1>6 DEF LiveSchedule, TypeOK
  <2> QED
    BY <1>3, <1>6, <2>1, RestatedRow
<1>7. ~ ApproveWrite(w)
  <2> SUFFICES ASSUME ApproveWrite(w) PROVE FALSE
    OBVIOUS
  <2>1. req[w].schedule \in Schedules
    BY <1>0, RequestFields DEF ApproveWrite
  <2>2. schedule[req[w].schedule] \in ScheduleRow
    BY <2>1 DEF ApproveWrite, LiveSchedule, TypeOK
  <2> QED
    BY <1>3, <2>1, <2>2, ApprovedRow DEF ApproveWrite
<1>8. ~ ActivateSelf(w)
  BY <1>0, <1>6, RequestFields DEF ActivateSelf, ScheduleStatus
<1>9. ~ ArchiveWrite(w)
  BY <1>0, <1>6, RequestFields DEF ArchiveWrite, ScheduleStatus
<1>10. ~ ActivateOthers(w)
  <2> SUFFICES ASSUME ActivateOthers(w) PROVE FALSE
    OBVIOUS
  <2>1. Active(s) /\ schedule'[s] = Restated(schedule[s], "ARCHIVED", FALSE)
    BY DEF ActivateOthers, LiveSchedule
  <2>2. schedule[s] \in ScheduleRow
    BY DEF TypeOK, LiveSchedule
  <2> QED
    BY <2>1, <2>2, RestatedRow, RowsAreLive DEF LiveSchedule, ScheduleStatus
<1> QED
  BY <1>1, <1>2, <1>4, <1>5, <1>7, <1>8, <1>9, <1>10
  DEF Step, ScheduleStep, SessionStep, Abort, CreateCheck, UpdateRead,
      ApproveRead, ActivateRead, ArchiveRead, DeleteCheck, RecordNotFound,
      CreateSessionRead, CheckTeacher, CheckRoom, CheckClass, CheckConflict,
      CreateSessionInsert, CreateSessionReject, UpdateSessionRead, UpdateSessionWrite,
      DeleteSessionRead, DeleteSessionWrite, SessionNotFound

(* If the deployment executes one delete or createSession at a time, deleting
   a schedule destroys no session, although other requests run between the
   count of its sessions and the delete. *)
THEOREM DeleteSafe ==
  ASSUME DeletionSerialised
  PROVE  Spec => DeleteKeepsSessions
<1>1. DeletionInv /\ [Next]_vars => DeletionInv'
  <2> SUFFICES ASSUME DeletionInv, [Next]_vars PROVE DeletionInv'
    OBVIOUS
  <2>1. CASE Next
    <3>1. PICK w \in Workers : Step(w)
      BY <2>1 DEF Next, Step
    <3> QED
      BY <3>1, DeletionInvStep
  <2>2. CASE UNCHANGED vars
    BY <2>2 DEF vars, DeletionInv, TypeOK, SessionsOf, LiveSession
  <2> QED
    BY <2>1, <2>2
<1>2. DeletionInv /\ [Next]_vars =>
        [\A s \in Schedules : LiveSchedule(s) /\ ~ LiveSchedule(s)' => SessionsOf(s) = {}]_vars
  <2> SUFFICES ASSUME DeletionInv, [Next]_vars, NEW s \in Schedules,
                      LiveSchedule(s), ~ LiveSchedule(s)'
               PROVE  SessionsOf(s) = {}
    OBVIOUS
  <2>1. CASE Next
    <3>1. PICK w \in Workers : Step(w)
      BY <2>1 DEF Next, Step
    <3>2. req[w].at = "deleteWrite" /\ req[w].schedule = s
      BY <3>1, OnlyDeleteRemoves DEF DeletionInv
    <3> QED
      BY <3>2 DEF DeletionInv
  <2>2. CASE UNCHANGED vars
    BY <2>2 DEF vars, LiveSchedule
  <2> QED
    BY <2>1, <2>2
<1> QED
  BY <1>1, <1>2, DeletionInvInit, PTL DEF Spec, DeleteKeepsSessions
=============================================================================
