-------------------------- MODULE GenerationProofs --------------------------
(***************************************************************************)
(* Theorems about Generation: any number of engines, handlers and jobs,    *)
(* beside any number of ScheduleService requests.                          *)
(***************************************************************************)
EXTENDS Generation, ScheduleProofs

(* What a handler asks of ScheduleService. *)
RunnerRequest ==
  [at : {"idle"}]
  \cup [at : {"updateWrite"}, schedule : Schedules, dto : UpdateDto]
  \cup [at : {"sessionWrite"}, session : Sessions, change : Rewrites]

(* The types, with the bound a job that may still run keeps on its attempts. *)
GenTypes ==
  /\ RowsOK
  /\ DOMAIN req = Workers
  /\ \A w \in Users \cup Engines : req[w] \in Request
  /\ \A r \in Runners : req[r] \in RunnerRequest
  /\ job \in [Jobs -> JobRow \cup {Unused, Gone}]
  /\ engine \in [Engines -> EngineTask]
  /\ handler \in [Runners -> HandlerTask]
  /\ wrote \in [Jobs -> {"nothing", "result", "error"}]

Retriable ==
  \A j \in Jobs : Queued(j) /\ job[j].state \in {"waiting", "active"}
                    => job[j].attemptsMade < Attempts(job[j].kind)

(* A handler makes the calls of its job's kind. *)
Fits(kind, at) ==
  /\ at \in {"solve", "result", "error"} => kind = "generate"
  /\ at \in {"readSessions", "rewrite"} => kind = "optimize"
  /\ at = "validate" => kind = "validate"

RunsItsKind ==
  \A r \in Runners : handler[r] # Free => Fits(job[handler[r].job].kind, handler[r].at)

(* A generation that is done has last told its schedule the result. *)
DoneIsTold ==
  \A r \in Runners : handler[r].at = "done" /\ job[handler[r].job].kind = "generate"
                       => wrote[handler[r].job] = "result"

QueueInv ==
  GenTypes /\ Retriable /\ HandlerOwnsJob /\ RunsItsKind /\ DoneIsTold /\ CompletedIsSubmitted

(* The row a handler holds for a session says where the session still is,
   if the session is still there. *)
InPlace(x, c) ==
  /\ session[x] # Unused
  /\ LiveSession(x) => /\ c.teacher = session[x].teacher
                       /\ c.room = session[x].room
                       /\ c.slot = session[x].slot

HoldsPlaces ==
  \A r \in Runners :
    /\ handler[r].at = "rewrite" => \A t \in handler[r].todo : InPlace(t[1], t[2])
    /\ req[r].at = "sessionWrite" => InPlace(req[r].session, req[r].change)


LEMMA OnlyFree ==
  ASSUME NEW h \in [at : {"free"}]
  PROVE  h = Free
BY DEF Free

(* What a handler carries, by the call it makes next. *)
LEMMA HandlerFields ==
  ASSUME NEW h \in HandlerTask
  PROVE  /\ h # Free => h.at # "free" /\ h.job \in Jobs
         /\ h.at = "rewrite" => h.todo \in Todo
<1>1. CASE h \in [at : {"free"}]
  <2>1. h = Free
    BY <1>1, OnlyFree
  <2> QED
    BY <2>1 DEF Free
<1>2. CASE h \in [at : {"solve", "result", "error", "readSessions", "validate", "done", "throw"},
                  job : Jobs]
  BY <1>2
<1>3. CASE h \in [at : {"rewrite"}, job : Jobs, todo : Todo]
  BY <1>3
<1> QED
  BY <1>1, <1>2, <1>3 DEF HandlerTask

LEMMA RunnerFields ==
  ASSUME NEW r \in RunnerRequest
  PROVE  /\ r.at = "updateWrite" => r.schedule \in Schedules /\ r.dto \in UpdateDto
         /\ r.at = "sessionWrite" => r.session \in Sessions /\ r.change \in Rewrites
BY DEF RunnerRequest

LEMMA QueuedRow ==
  ASSUME job \in [Jobs -> JobRow \cup {Unused, Gone}], NEW j \in Jobs
  PROVE  /\ Queued(j) => job[j] \in JobRow
         /\ \A row \in JobRow : row # Unused /\ row # Gone
BY JobRowAssumption DEF Queued

LEMMA RewriteIsChange == Rewrites \subseteq SessionChange
BY DEF Rewrites, SessionChange

LEMMA StatusDtoType ==
  ASSUME NEW status \in ScheduleStatus \cup {Keep}
  PROVE  StatusDto(status) \in UpdateDto
BY DEF StatusDto, UpdateDto

(* The rows a job goes through. *)
LEMMA RetriedRow ==
  ASSUME NEW row \in JobRow, row.attemptsMade < Attempts(row.kind)
  PROVE  /\ Retried(row) \in JobRow
         /\ Retried(row).kind = row.kind
         /\ Retried(row).state \in {"waiting", "failed"}
         /\ Retried(row).state = "waiting" => Retried(row).attemptsMade < Attempts(row.kind)
<1>1. row.attemptsMade \in 0..3 /\ row.kind \in Kinds /\ Attempts(row.kind) \in 2..3
  BY DEF JobRow, Attempts
<1>2. row.attemptsMade + 1 \in 0..3
  BY <1>1
<1> QED
  BY <1>1, <1>2 DEF Retried, JobRow

LEMMA RowInState ==
  ASSUME NEW row \in JobRow, NEW st \in {"waiting", "active", "completed", "failed"}
  PROVE  /\ [row EXCEPT !.state = st] \in JobRow
         /\ [row EXCEPT !.state = st].kind = row.kind
         /\ [row EXCEPT !.state = st].state = st
         /\ [row EXCEPT !.state = st].attemptsMade = row.attemptsMade
BY DEF JobRow

LEMMA ReleasedRow ==
  ASSUME NEW row \in JobRow
  PROVE  /\ Released(row) \in JobRow
         /\ Released(row).kind = row.kind
         /\ Released(row).state \in {"waiting", "failed"}
         /\ Released(row).attemptsMade = row.attemptsMade
<1>1. CASE row.stalled < MaxStalled
  <2>1. row.stalled + 1 \in 0..MaxStalled
    BY <1>1 DEF JobRow, MaxStalled
  <2> QED
    BY <1>1, <2>1 DEF JobRow, Released
<1>2. CASE ~ (row.stalled < MaxStalled)
  BY <1>2, RowInState DEF Released
<1> QED
  BY <1>1, <1>2

(***************************************************************************)
(* Type correctness                                                        *)
(***************************************************************************)

(* A request of one worker moves alone. *)
LEMMA MoveTypes ==
  ASSUME GenTypes, RowsOK', NEW w \in Workers, req' = [req EXCEPT ![w] = req'[w]],
         w \in Users \cup Engines => req'[w] \in Request,
         w \in Runners => req'[w] \in RunnerRequest
  PROVE  /\ DOMAIN req' = Workers
         /\ \A v \in Users \cup Engines : req'[v] \in Request
         /\ \A r \in Runners : req'[r] \in RunnerRequest
BY RolesAssumption DEF GenTypes, Users

LEMMA UserTypes ==
  ASSUME GenTypes, NEW w \in Users, UserStep(w)
  PROVE  GenTypes'
<1>1. w \in Workers /\ w \notin Runners /\ Step(w) /\ UNCHANGED jobVars
  BY DEF UserStep, Step, Users
<1>2. RowsOK' /\ Moves(w)
  BY <1>1, StepRows DEF GenTypes
<1> QED
  BY <1>1, <1>2, MoveTypes DEF GenTypes, jobVars, Moves

LEMMA EngineTypes ==
  ASSUME GenTypes, NEW e \in Engines, EngineStep(e)
  PROVE  GenTypes'
<1>0. e \in Workers /\ e \notin Runners /\ req[e] \in Request /\ engine[e] \in EngineTask
  BY RolesAssumption DEF GenTypes
<1>1. CASE \E dto \in CreateDtos : GenerateStart(e, dto)
  <2>1. Step(e)
    BY <1>1 DEF GenerateStart, Step, ScheduleStep
  <2>2. RowsOK' /\ Moves(e)
    BY <1>0, <2>1, StepRows DEF GenTypes
  <2> QED
    BY <1>0, <1>1, <2>2, MoveTypes DEF GenerateStart, GenTypes, Moves, EngineTask
<1>2. CASE GenerateInsert(e)
  <2>1. Step(e)
    BY <1>2 DEF GenerateInsert, Step, ScheduleStep
  <2>2. RowsOK' /\ Moves(e)
    BY <1>0, <2>1, StepRows DEF GenTypes
  <2>3. engine' \in [Engines -> EngineTask]
    BY <1>2 DEF GenerateInsert, GenTypes, EngineTask, Kinds
  <2> QED
    BY <1>0, <1>2, <2>2, <2>3, MoveTypes DEF GenerateInsert, GenTypes, Moves
<1>3. CASE \E s \in Schedules : OptimizeStart(e, s) \/ ValidateStart(e, s)
  BY <1>3 DEF OptimizeStart, ValidateStart, FoundFor, GenTypes, RowsOK, vars, EngineTask, Kinds
<1>4. CASE QueueAdd(e)
  <2>1. engine[e].kind \in Kinds /\ engine[e].schedule \in Schedules
    BY <1>0, <1>4 DEF QueueAdd, EngineTask
  <2>2. [kind |-> engine[e].kind, schedule |-> engine[e].schedule, state |-> "waiting",
         attemptsMade |-> 0, stalled |-> 0] \in JobRow
    BY <2>1 DEF JobRow, MaxStalled
  <2> QED
    BY <1>4, <2>2 DEF QueueAdd, GenTypes, RowsOK, vars, EngineTask, Free
<1>5. CASE EngineAbort(e)
  <2>1. RowsOK' /\ Moves(e) /\ req'[e] \in Request
    BY <1>0, <1>5 DEF EngineAbort, GenTypes, RowsOK, Moves, Done, Continue, Idle, Request
  <2> QED
    BY <1>0, <1>5, <2>1, MoveTypes DEF EngineAbort, GenTypes, Moves, EngineTask, Free
<1> QED
  BY <1>1, <1>2, <1>3, <1>4, <1>5 DEF EngineStep

(* The handler's two writes: the same rows as the requests of users write. *)
LEMMA RunnerWrites ==
  ASSUME GenTypes, NEW r \in Runners, UpdateWrite(r) \/ UpdateSessionWrite(r)
  PROVE  RowsOK' /\ Moves(r) /\ req'[r] = Idle
<1>0. r \in Workers /\ req[r] \in RunnerRequest /\ DOMAIN req = Workers
  BY RolesAssumption DEF GenTypes
<1>1. CASE UpdateWrite(r)
  <2>1. req[r].schedule \in Schedules /\ req[r].dto \in UpdateDto
    BY <1>0, <1>1, RunnerFields DEF UpdateWrite
  <2>2. schedule[req[r].schedule] \in ScheduleRow
    BY <1>1, <2>1 DEF UpdateWrite, LiveSchedule, GenTypes, RowsOK
  <2>3. Updated(schedule[req[r].schedule], req[r].dto) \in ScheduleRow
    BY <2>1, <2>2, UpdatedByDto
  <2> QED
    BY <1>0, <1>1, <2>1, <2>3 DEF UpdateWrite, GenTypes, RowsOK, Moves, Done, Continue, Idle, Request
<1>2. CASE UpdateSessionWrite(r)
  <2>1. req[r].session \in Sessions /\ req[r].change \in SessionChange
    BY <1>0, <1>2, RunnerFields, RewriteIsChange DEF UpdateSessionWrite
  <2>2. session[req[r].session] \in SessionRow
    BY <1>2, <2>1 DEF UpdateSessionWrite, LiveSession, GenTypes, RowsOK
  <2>3. Changed(session[req[r].session], req[r].change) \in SessionRow
    BY <2>1, <2>2, ChangedBy
  <2> QED
    BY <1>0, <1>2, <2>1, <2>3 DEF UpdateSessionWrite, GenTypes, RowsOK, Moves, Done, Continue, Idle, Request
<1> QED
  BY <1>1, <1>2

(* The handler in hand makes its next call, or is free. *)
LEMMA HandlerMoves ==
  ASSUME handler \in [Runners -> HandlerTask], NEW r \in Runners, NEW h \in HandlerTask,
         handler' = [handler EXCEPT ![r] = h]
  PROVE  handler' \in [Runners -> HandlerTask]
OBVIOUS

LEMMA FreeIsTask == Free \in HandlerTask /\ Free \in EngineTask
BY DEF HandlerTask, EngineTask, Free

LEMMA HandlerLabels ==
  ASSUME NEW j \in Jobs
  PROVE  \A at \in {"solve", "result", "error", "readSessions", "validate", "done", "throw"} :
            [at |-> at, job |-> j] \in HandlerTask
BY DEF HandlerTask, Free

LEMMA RunnerTypes ==
  ASSUME GenTypes, Retriable, HandlerOwnsJob,
         NEW r \in Runners, RunnerStep(r) \/ Crash(r) \/ CallFails(r)
  PROVE  GenTypes'
<1>0. /\ r \in Workers /\ r \notin Users \cup Engines
      /\ req[r] \in RunnerRequest /\ handler[r] \in HandlerTask
      /\ handler[r] # Free => handler[r].job \in Jobs /\ handler[r].at # "free"
  BY RolesAssumption, HandlerFields DEF GenTypes, Users
<1>1. handler[r] # Free => /\ job[handler[r].job] \in JobRow
                           /\ job[handler[r].job].state = "active"
                           /\ Target(r) \in Schedules
  BY <1>0, QueuedRow DEF GenTypes, HandlerOwnsJob, JobRow, Target
<1> USE DEF Free
<1>2. CASE \E j \in Jobs : Take(r, j)
  <2>1. PICK j \in Jobs : Take(r, j)
    BY <1>2
  <2>2. [job[j] EXCEPT !.state = "active"] \in JobRow /\ job[j].kind \in Kinds
    BY <2>1, QueuedRow, RowInState DEF Take, GenTypes, JobRow
  <2>3. [at |-> FirstCall(job[j].kind), job |-> j] \in HandlerTask
    BY <2>2 DEF FirstCall, Kinds, HandlerTask
  <2> QED
    BY <2>1, <2>2, <2>3 DEF Take, GenTypes, RowsOK, vars
<1>3. CASE \E answer \in Answers : Solve(r, answer)
  <2>1. PICK answer \in Answers : Solve(r, answer)
    BY <1>3
  <2>2. handler[r].job \in Jobs
    BY <1>0, <2>1 DEF Solve
  <2>3. handler' \in [Runners -> HandlerTask]
    BY <2>1, <2>2, HandlerLabels DEF Solve, Then, Answers, GenTypes
  <2> QED
    BY <2>1, <2>3 DEF Solve, GenTypes, RowsOK, vars
<1>4. CASE UpdateStart(r) \/ MetadataStart(r)
  <2>1. handler[r] # Free
    BY <1>4 DEF UpdateStart, MetadataStart
  <2>2. PICK status \in ScheduleStatus \cup {Keep} : UpdateRead(r, Target(r), StatusDto(status))
    BY <1>4 DEF UpdateStart, MetadataStart, ScheduleStatus
  <2>3. [at |-> "updateWrite", schedule |-> Target(r), dto |-> StatusDto(status)] \in RunnerRequest
    BY <1>1, <2>1, StatusDtoType DEF RunnerRequest
  <2>4. RowsOK' /\ req' = [req EXCEPT ![r] = req'[r]] /\ req'[r] \in RunnerRequest
    BY <1>0, <2>2, <2>3 DEF UpdateRead, Continue, GenTypes, RowsOK
  <2> QED
    BY <1>0, <1>4, <2>4, MoveTypes DEF UpdateStart, MetadataStart, jobVars, GenTypes
<1>5. CASE UpdateEnd(r) \/ MetadataEnd(r)
  <2>1. handler[r] # Free /\ handler[r].at \in {"result", "error", "rewrite"} /\ UpdateWrite(r)
    BY <1>5 DEF UpdateEnd, MetadataEnd
  <2>2. RowsOK' /\ Moves(r) /\ req'[r] \in RunnerRequest
    BY <2>1, RunnerWrites DEF Idle, RunnerRequest
  <2>3. handler' \in [Runners -> HandlerTask]
    BY <1>0, <1>5, <2>1, HandlerLabels DEF UpdateEnd, MetadataEnd, Then, AfterUpdate, GenTypes
  <2>4. wrote' \in [Jobs -> {"nothing", "result", "error"}]
    BY <1>5 DEF UpdateEnd, MetadataEnd, GenTypes
  <2> QED
    BY <1>0, <1>5, <2>2, <2>3, <2>4, MoveTypes DEF UpdateEnd, MetadataEnd, Moves, GenTypes
<1>6. CASE ReadSessions(r)
  <2>1. \A x \in SessionsOf(Target(r)) : <<x, Rewritten(session[x])>> \in Sessions \X Rewrites
    <3> TAKE x \in SessionsOf(Target(r))
    <3>1. x \in Sessions /\ session[x] \in SessionRow
      BY DEF SessionsOf, LiveSession, GenTypes, RowsOK
    <3> QED
      BY <3>1 DEF Rewritten, Rewrites, SessionRow
  <2> DEFINE read == {<<x, Rewritten(session[x])>> : x \in SessionsOf(Target(r))}
  <2>2. read \in Todo
    BY <2>1 DEF Todo
  <2>3. handler' = [handler EXCEPT ![r] = [at |-> "rewrite", job |-> handler[r].job, todo |-> read]]
    BY <1>6 DEF ReadSessions
  <2> HIDE DEF read
  <2>4. [at |-> "rewrite", job |-> handler[r].job, todo |-> read] \in HandlerTask
    BY <1>0, <1>6, <2>2 DEF ReadSessions, HandlerTask
  <2> QED
    BY <1>6, <2>3, <2>4, HandlerMoves DEF ReadSessions, GenTypes, RowsOK, vars
<1>7. CASE RewriteStart(r)
  <2>1. PICK t \in handler[r].todo : UpdateSessionRead(r, t[1], t[2])
    BY <1>7 DEF RewriteStart
  <2>2. t[1] \in Sessions /\ t[2] \in Rewrites
    BY <1>0, <1>7, HandlerFields DEF RewriteStart, Todo
  <2>3. [at |-> "sessionWrite", session |-> t[1], change |-> t[2]] \in RunnerRequest
    BY <2>2 DEF RunnerRequest
  <2>4. RowsOK' /\ req' = [req EXCEPT ![r] = req'[r]] /\ req'[r] \in RunnerRequest
    BY <1>0, <2>1, <2>3 DEF UpdateSessionRead, Continue, GenTypes, RowsOK
  <2> QED
    BY <1>0, <1>7, <2>4, MoveTypes DEF RewriteStart, jobVars, GenTypes
<1>8. CASE RewriteEnd(r)
  <2>1. RowsOK' /\ Moves(r) /\ req'[r] \in RunnerRequest
    BY <1>8, RunnerWrites DEF RewriteEnd, Idle, RunnerRequest
  <2> DEFINE left == {t \in handler[r].todo : t[1] # req[r].session}
  <2>2. handler[r] \in [at : {"rewrite"}, job : Jobs, todo : Todo]
    BY <1>0, <1>8 DEF RewriteEnd, HandlerTask
  <2>3. left \in Todo
    BY <2>2 DEF Todo
  <2>4. handler' = [handler EXCEPT ![r].todo = left]
    BY <1>8 DEF RewriteEnd
  <2> HIDE DEF left
  <2>5. [handler[r] EXCEPT !.todo = left] \in HandlerTask
    BY <2>2, <2>3 DEF HandlerTask
  <2>6. handler' \in [Runners -> HandlerTask]
    BY <2>4, <2>5 DEF GenTypes
  <2> QED
    BY <1>0, <1>8, <2>1, <2>6, MoveTypes DEF RewriteEnd, Moves, GenTypes
<1>9. CASE ValidateSessions(r)
  <2>1. handler[r].job \in Jobs
    BY <1>0, <1>9 DEF ValidateSessions
  <2>2. handler' \in [Runners -> HandlerTask]
    BY <1>9, <2>1, HandlerLabels DEF ValidateSessions, Then, GenTypes
  <2> QED
    BY <1>9, <2>2 DEF ValidateSessions, GenTypes, RowsOK, vars
<1>10. CASE HandlerNotFound(r) \/ CallFails(r)
  <2>1. handler[r] # Free /\ Done(r) /\ Then(r, "throw") /\ UNCHANGED <<schedule, session, job, engine, wrote>>
    BY <1>10 DEF HandlerNotFound, CallFails
  <2>2. handler' \in [Runners -> HandlerTask]
    BY <1>0, <2>1, HandlerLabels DEF Then, GenTypes
  <2>3. RowsOK' /\ req' = [req EXCEPT ![r] = req'[r]] /\ req'[r] \in RunnerRequest
    BY <1>0, <2>1 DEF Done, Continue, Idle, RunnerRequest, GenTypes, RowsOK
  <2> QED
    BY <1>0, <2>1, <2>2, <2>3, MoveTypes DEF GenTypes
<1>11. CASE Crash(r)
  <2>1. handler' \in [Runners -> HandlerTask]
    BY <1>11, FreeIsTask DEF Crash, GenTypes
  <2>2. RowsOK' /\ req' = [req EXCEPT ![r] = req'[r]] /\ req'[r] \in RunnerRequest
    BY <1>0, <1>11 DEF Crash, Done, Continue, Idle, RunnerRequest, GenTypes, RowsOK
  <2> QED
    BY <1>0, <1>11, <2>1, <2>2, MoveTypes DEF Crash, GenTypes
<1>12. CASE FailAttempt(r) \/ Complete(r)
  <2>1. handler[r] # Free /\ handler' = [handler EXCEPT ![r] = Free]
        /\ UNCHANGED <<schedule, session, req, engine, wrote>>
    BY <1>12 DEF FailAttempt, Complete, vars
  <2>2. handler' \in [Runners -> HandlerTask]
    BY <2>1, FreeIsTask DEF GenTypes
  <2>3. job[handler[r].job] \in JobRow
        /\ job[handler[r].job].attemptsMade < Attempts(job[handler[r].job].kind)
    BY <1>0, <1>1, <2>1 DEF Retriable, HandlerOwnsJob
  <2>4. /\ Retried(job[handler[r].job]) \in JobRow
        /\ [job[handler[r].job] EXCEPT !.state = "completed"] \in JobRow
    BY <2>3, RetriedRow, RowInState
  <2>5. job' \in [Jobs -> JobRow \cup {Unused, Gone}]
    BY <1>12, <2>4 DEF FailAttempt, Complete, GenTypes
  <2> QED
    BY <2>1, <2>2, <2>5 DEF GenTypes, RowsOK
<1> QED
  BY <1>2, <1>3, <1>4, <1>5, <1>6, <1>7, <1>8, <1>9, <1>10, <1>11, <1>12 DEF RunnerStep

LEMMA QueueTypes ==
  ASSUME GenTypes, NEW j \in Jobs, CancelJob(j) \/ Stalled(j)
  PROVE  GenTypes'
<1>0. Queued(j) /\ job[j] \in JobRow
  BY QueuedRow DEF CancelJob, Stalled, GenTypes
<1>1. CASE CancelJob(j)
  BY <1>1 DEF CancelJob, GenTypes, RowsOK, vars
<1>2. CASE Stalled(j)
  <2>1. Released(job[j]) \in JobRow
    BY <1>0, ReleasedRow
  <2>2. job' \in [Jobs -> JobRow \cup {Unused, Gone}]
    BY <1>2, <2>1 DEF Stalled, GenTypes
  <2> QED
    BY <1>2, <2>2 DEF Stalled, GenTypes, RowsOK, vars
<1> QED
  BY <1>1, <1>2

LEMMA GenInitTypes == GenInit => GenTypes
<1> SUFFICES ASSUME GenInit PROVE GenTypes
  OBVIOUS
<1>1. RowsOK /\ DOMAIN req = Workers /\ \A w \in Workers : req[w] = Idle
  BY DEF GenInit, Init, RowsOK
<1>2. Idle \in Request /\ Idle \in RunnerRequest
  BY DEF Idle, Request, RunnerRequest
<1>3. Users \cup Engines \subseteq Workers /\ Runners \subseteq Workers
  BY RolesAssumption DEF Users
<1>4. engine \in [Engines -> EngineTask] /\ handler \in [Runners -> HandlerTask]
  BY FreeIsTask DEF GenInit
<1> QED
  BY <1>1, <1>2, <1>3, <1>4 DEF GenInit, GenTypes

LEMMA GenNextTypes ==
  ASSUME GenTypes, Retriable, HandlerOwnsJob, [GenNext]_genVars
  PROVE  GenTypes'
<1>1. CASE UNCHANGED genVars
  BY <1>1 DEF genVars, vars, jobVars, GenTypes, RowsOK
<1> QED
  BY <1>1, UserTypes, EngineTypes, RunnerTypes, QueueTypes DEF GenNext

(***************************************************************************)
(* The queue                                                               *)
(***************************************************************************)

(* A handler goes on, ends or dies, and its job stays as it is. *)
LEMMA HandlerGoesOn ==
  ASSUME QueueInv, GenTypes', NEW r \in Runners, NEW h, handler[r] # Free,
         handler' = [handler EXCEPT ![r] = h],
         h # Free => /\ h.job = handler[r].job
                     /\ Fits(job[h.job].kind, h.at)
                     /\ h.at = "done" /\ job[h.job].kind = "generate"
                          => wrote'[h.job] = "result",
         job' = job,
         \A j \in Jobs : j # handler[r].job => wrote'[j] = wrote[j]
  PROVE  QueueInv'
<1>0. handler[r].job \in Jobs /\ handler \in [Runners -> HandlerTask] /\ Free.at = "free"
  BY HandlerFields DEF QueueInv, GenTypes, Free
<1>1. \A q \in Runners : handler'[q] = IF q = r THEN h ELSE handler[q]
  BY <1>0
<1>2. \A q \in Runners : handler[q] # Free =>
        /\ handler[q].job \in Jobs
        /\ q # r => handler[q].job # handler[r].job
  BY <1>0, HandlerFields DEF QueueInv, HandlerOwnsJob
<1>3. Retriable'
  BY DEF QueueInv, Retriable, Queued
<1>4. HandlerOwnsJob'
  BY <1>1, <1>2 DEF QueueInv, HandlerOwnsJob, Queued, Free
<1>5. RunsItsKind'
  BY <1>1 DEF QueueInv, RunsItsKind, Free
<1>6. DoneIsTold'
  <2> SUFFICES ASSUME NEW q \in Runners, handler'[q].at = "done",
                      job[handler'[q].job].kind = "generate"
               PROVE  wrote'[handler'[q].job] = "result"
    BY DEF DoneIsTold
  <2>1. CASE q = r
    BY <1>0, <1>1, <2>1
  <2>2. CASE q # r
    <3>1. handler'[q] = handler[q] /\ handler[q] # Free
      BY <1>0, <1>1, <2>2
    <3> QED
      BY <1>2, <2>2, <3>1 DEF QueueInv, DoneIsTold
  <2> QED
    BY <2>1, <2>2
<1>7. CompletedIsSubmitted'
  <2>1. job[handler[r].job].state = "active"
    BY DEF QueueInv, HandlerOwnsJob
  <2> QED
    BY <2>1 DEF QueueInv, CompletedIsSubmitted, Queued
<1> QED
  BY <1>3, <1>4, <1>5, <1>6, <1>7 DEF QueueInv

(* A job that no handler runs any more gets another row. *)
LEMMA JobGoesOn ==
  ASSUME QueueInv, GenTypes', NEW j \in Jobs, NEW row,
         job' = [job EXCEPT ![j] = row], wrote' = wrote,
         \A q \in Runners : \/ handler'[q] = Free
                            \/ handler'[q] = handler[q] /\ handler[q] # Free /\ handler[q].job # j,
         row # Gone =>
           /\ row.state \in {"waiting", "active"} => row.attemptsMade < Attempts(row.kind)
           /\ row.kind = "generate" /\ row.state = "completed" => wrote[j] = "result"
  PROVE  QueueInv'
<1>0. Free.at = "free" /\ \A i \in Jobs : job'[i] = IF i = j THEN row ELSE job[i]
  BY DEF QueueInv, GenTypes, Free
<1>1. \A q \in Runners : handler'[q] # Free =>
        /\ handler'[q] = handler[q] /\ handler[q].job \in Jobs
        /\ job'[handler[q].job] = job[handler[q].job]
  BY <1>0, HandlerFields DEF QueueInv, GenTypes
<1>2. Retriable'
  BY <1>0 DEF QueueInv, Retriable, Queued
<1>3. HandlerOwnsJob'
  BY <1>1 DEF QueueInv, HandlerOwnsJob, Queued, Free
<1>4. RunsItsKind'
  BY <1>1 DEF QueueInv, RunsItsKind, Free
<1>5. DoneIsTold'
  BY <1>0, <1>1 DEF QueueInv, DoneIsTold
<1>6. CompletedIsSubmitted'
  BY <1>0 DEF QueueInv, CompletedIsSubmitted, Queued
<1> QED
  BY <1>2, <1>3, <1>4, <1>5, <1>6 DEF QueueInv

LEMMA EngineKeepsQueue ==
  ASSUME QueueInv, GenTypes', NEW e \in Engines, EngineStep(e)
  PROVE  QueueInv'
<1>1. CASE QueueAdd(e)
  <2>1. PICK j \in Jobs :
          /\ job[j] = Unused
          /\ job' = [job EXCEPT ![j] =
               [kind |-> engine[e].kind, schedule |-> engine[e].schedule, state |-> "waiting",
                attemptsMade |-> 0, stalled |-> 0]]
    BY <1>1 DEF QueueAdd
  <2>2. \A q \in Runners : handler'[q] = handler[q] /\ (handler[q] # Free => handler[q].job # j)
    BY <1>1, <2>1 DEF QueueAdd, QueueInv, HandlerOwnsJob, Queued
  <2>3. 0 < Attempts(engine[e].kind)
    BY DEF Attempts
  <2> DEFINE row == [kind |-> engine[e].kind, schedule |-> engine[e].schedule, state |-> "waiting",
                     attemptsMade |-> 0, stalled |-> 0]
  <2>4. row.state = "waiting" /\ row.attemptsMade < Attempts(row.kind)
    BY <2>3
  <2>5. job' = [job EXCEPT ![j] = row] /\ wrote' = wrote
    BY <1>1, <2>1 DEF QueueAdd
  <2> HIDE DEF row
  <2>6. \A q \in Runners : \/ handler'[q] = Free
                           \/ handler'[q] = handler[q] /\ handler[q] # Free /\ handler[q].job # j
    BY <2>2
  <2> QED
    BY <2>4, <2>5, <2>6, JobGoesOn
<1>2. CASE UNCHANGED <<job, handler, wrote>>
  BY <1>2 DEF QueueInv, Retriable, HandlerOwnsJob, RunsItsKind, DoneIsTold,
     CompletedIsSubmitted, Queued
<1> QED
  BY <1>1, <1>2 DEF EngineStep, GenerateStart, GenerateInsert, OptimizeStart, ValidateStart,
     FoundFor, EngineAbort

LEMMA QueueKeepsQueue ==
  ASSUME QueueInv, GenTypes', NEW j \in Jobs, CancelJob(j) \/ Stalled(j)
  PROVE  QueueInv'
<1>0. Queued(j) /\ job[j] \in JobRow
  BY QueuedRow DEF CancelJob, Stalled, QueueInv, GenTypes
<1>1. \A q \in Runners : \/ handler'[q] = Free
                         \/ handler'[q] = handler[q] /\ handler[q] # Free /\ handler[q].job # j
  BY DEF CancelJob, Stalled, QueueInv, HandlerOwnsJob
<1>2. CASE CancelJob(j)
  BY <1>1, <1>2, JobGoesOn DEF CancelJob
<1>3. CASE Stalled(j)
  <2>1. /\ Released(job[j]).kind = job[j].kind
        /\ Released(job[j]).state \in {"waiting", "failed"}
        /\ Released(job[j]).attemptsMade = job[j].attemptsMade
    BY <1>0, ReleasedRow
  <2>2. job[j].attemptsMade < Attempts(job[j].kind)
    BY <1>0, <1>3 DEF Stalled, QueueInv, Retriable
  <2>3. job' = [job EXCEPT ![j] = Released(job[j])] /\ wrote' = wrote
    BY <1>3 DEF Stalled
  <2> QED
    BY <1>1, <2>1, <2>2, <2>3, JobGoesOn
<1> QED
  BY <1>2, <1>3

LEMMA RunnerKeepsQueue ==
  ASSUME QueueInv, GenTypes', NEW r \in Runners, RunnerStep(r) \/ Crash(r) \/ CallFails(r)
  PROVE  QueueInv'
<1>0. /\ handler[r] \in HandlerTask /\ Free.at = "free"
      /\ handler[r] # Free => /\ handler[r].job \in Jobs
                              /\ handler[r].at # "free"
                              /\ job[handler[r].job] \in JobRow
                              /\ job[handler[r].job].state = "active"
                              /\ Fits(job[handler[r].job].kind, handler[r].at)
                              /\ Queued(handler[r].job)
  BY HandlerFields, QueuedRow DEF QueueInv, GenTypes, HandlerOwnsJob, RunsItsKind, Free
<1> DEFINE j == handler[r].job
<1>1. ASSUME NEW at, Then(r, at), handler[r] # Free, job' = job,
             Fits(job[j].kind, at),
             at = "done" /\ job[j].kind = "generate" => wrote'[j] = "result",
             \A i \in Jobs : i # j => wrote'[i] = wrote[i]
      PROVE  QueueInv'
  <2> DEFINE h == [at |-> at, job |-> j]
  <2>1. handler' = [handler EXCEPT ![r] = h] /\ h.job = j /\ h.at = at
    BY <1>1 DEF Then
  <2> HIDE DEF h
  <2> QED
    BY <1>1, <2>1, HandlerGoesOn
<1>2. CASE \E i \in Jobs : Take(r, i)
  <2>1. PICK i \in Jobs : Take(r, i)
    BY <1>2
  <2>2. job[i] \in JobRow /\ job[i].kind \in Kinds
    BY <2>1, QueuedRow DEF Take, QueueInv, GenTypes, JobRow
  <2> DEFINE row == [job[i] EXCEPT !.state = "active"]
             h == [at |-> FirstCall(job[i].kind), job |-> i]
  <2>3. row \in JobRow /\ row.kind = job[i].kind /\ row.state = "active"
        /\ row.attemptsMade = job[i].attemptsMade
    BY <2>2, RowInState
  <2>4. h.job = i /\ h # Free /\ h.at # "done" /\ Fits(row.kind, h.at)
    BY <2>2, <2>3 DEF Fits, FirstCall, Kinds, Free
  <2>5. handler' = [handler EXCEPT ![r] = h] /\ job' = [job EXCEPT ![i] = row] /\ wrote' = wrote
    BY <2>1 DEF Take
  <2> HIDE DEF row, h
  <2>6. /\ \A q \in Runners : handler'[q] = IF q = r THEN h ELSE handler[q]
        /\ \A k \in Jobs : job'[k] = IF k = i THEN row ELSE job[k]
        /\ row # Unused /\ row # Gone
    BY <2>3, <2>5, QueuedRow DEF QueueInv, GenTypes
  <2>7. \A q \in Runners : handler[q] # Free => handler[q].job # i /\ handler[q].job \in Jobs
    BY <2>1, HandlerFields DEF Take, QueueInv, GenTypes, HandlerOwnsJob
  <2>8. Queued(i) /\ job[i].state = "waiting"
    BY <2>1 DEF Take
  <2>9. Retriable'
    BY <2>3, <2>6, <2>8 DEF QueueInv, Retriable, Queued
  <2>10. HandlerOwnsJob'
    BY <2>3, <2>4, <2>6, <2>7 DEF QueueInv, HandlerOwnsJob, Queued, Free
  <2>11. RunsItsKind'
    BY <2>4, <2>6, <2>7 DEF QueueInv, RunsItsKind, Free
  <2>12. DoneIsTold'
    <3> SUFFICES ASSUME NEW q \in Runners, handler'[q].at = "done",
                        job'[handler'[q].job].kind = "generate"
                 PROVE  wrote'[handler'[q].job] = "result"
      BY DEF DoneIsTold
    <3>1. q # r /\ handler'[q] = handler[q] /\ handler[q] # Free
      BY <1>0, <2>4, <2>6
    <3> QED
      BY <2>5, <2>6, <2>7, <3>1 DEF QueueInv, DoneIsTold
  <2>13. CompletedIsSubmitted'
    BY <2>3, <2>5, <2>6 DEF QueueInv, CompletedIsSubmitted, Queued
  <2> QED
    BY <2>9, <2>10, <2>11, <2>12, <2>13 DEF QueueInv
<1>3. CASE \E answer \in Answers : Solve(r, answer)
  <2>1. PICK answer \in Answers : Solve(r, answer)
    BY <1>3
  <2>2. handler[r] # Free /\ job[j].kind = "generate" /\ job' = job /\ wrote' = wrote
    BY <1>0, <2>1 DEF Solve, Fits
  <2>3. PICK at \in {"error", "result", "throw"} : Then(r, at)
    BY <2>1 DEF Solve, Answers
  <2>4. Fits(job[j].kind, at)
    BY <2>2 DEF Fits
  <2> HIDE DEF j
  <2> QED
    BY <1>1, <2>2, <2>3, <2>4
<1>4. CASE UpdateStart(r) \/ MetadataStart(r) \/ RewriteStart(r)
  BY <1>4 DEF UpdateStart, MetadataStart, RewriteStart, jobVars, QueueInv, Retriable,
     HandlerOwnsJob, RunsItsKind, DoneIsTold, CompletedIsSubmitted, Queued
<1>5. CASE UpdateEnd(r)
  <2>1. /\ handler[r] # Free /\ handler[r].at \in {"result", "error"} /\ job' = job
        /\ wrote' = [wrote EXCEPT ![j] = handler[r].at] /\ Then(r, AfterUpdate(handler[r].at))
    BY <1>0, <1>5 DEF UpdateEnd
  <2>2. PICK at : at = AfterUpdate(handler[r].at)
    OBVIOUS
  <2>3. Fits(job[j].kind, at) /\ (at = "done" => handler[r].at = "result")
    BY <2>1, <2>2 DEF Fits, AfterUpdate
  <2>4. wrote'[j] = handler[r].at /\ \A i \in Jobs : i # j => wrote'[i] = wrote[i]
    BY <1>0, <2>1 DEF QueueInv, GenTypes
  <2> HIDE DEF j
  <2> QED
    BY <1>1, <2>1, <2>2, <2>3, <2>4
<1>6. CASE ReadSessions(r)
  <2> DEFINE h == [at |-> "rewrite", job |-> j,
                   todo |-> {<<x, Rewritten(session[x])>> : x \in SessionsOf(Target(r))}]
  <2>1. handler' = [handler EXCEPT ![r] = h] /\ h.job = j /\ h.at = "rewrite"
    BY <1>6 DEF ReadSessions
  <2>2. handler[r] # Free /\ job[j].kind = "optimize" /\ job' = job /\ wrote' = wrote
    BY <1>0, <1>6 DEF ReadSessions, Fits
  <2>3. Fits(job[j].kind, "rewrite")
    BY <2>2 DEF Fits
  <2> HIDE DEF h
  <2> QED
    BY <2>1, <2>2, <2>3, HandlerGoesOn
<1>7. CASE RewriteEnd(r)
  <2> DEFINE h == [handler[r] EXCEPT !.todo = {t \in handler[r].todo : t[1] # req[r].session}]
  <2>1. handler[r] \in [at : {"rewrite"}, job : Jobs, todo : Todo]
    BY <1>0, <1>7 DEF RewriteEnd, HandlerTask
  <2>2. handler' = [handler EXCEPT ![r] = h] /\ h.job = j /\ h.at = handler[r].at
    BY <1>7, <2>1 DEF RewriteEnd
  <2>3. handler[r] # Free /\ job' = job /\ wrote' = wrote /\ h.at = "rewrite"
    BY <1>0, <1>7, <2>2 DEF RewriteEnd
  <2> HIDE DEF h
  <2>4. h # Free => Fits(job[h.job].kind, h.at) /\ h.at # "done"
    BY <1>0, <2>2, <2>3
  <2> QED
    BY <2>2, <2>3, <2>4, HandlerGoesOn
<1>8. CASE MetadataEnd(r) \/ ValidateSessions(r)
  <2>1. /\ handler[r] # Free /\ job[j].kind \in {"optimize", "validate"}
        /\ job' = job /\ wrote' = wrote /\ Then(r, "done")
    BY <1>0, <1>8 DEF MetadataEnd, ValidateSessions, Fits
  <2>2. Fits(job[j].kind, "done")
    BY DEF Fits
  <2> HIDE DEF j
  <2> QED
    BY <1>1, <2>1, <2>2
<1>9. CASE HandlerNotFound(r) \/ CallFails(r)
  <2>1. handler[r] # Free /\ job' = job /\ wrote' = wrote /\ Then(r, "throw")
    BY <1>0, <1>9 DEF HandlerNotFound, CallFails
  <2>2. Fits(job[j].kind, "throw")
    BY DEF Fits
  <2> HIDE DEF j
  <2> QED
    BY <1>1, <2>1, <2>2
<1>10. CASE Crash(r)
  BY <1>10, HandlerGoesOn DEF Crash
<1>11. CASE FailAttempt(r) \/ Complete(r)
  <2>1. handler[r] # Free /\ handler' = [handler EXCEPT ![r] = Free] /\ wrote' = wrote
    BY <1>0, <1>11 DEF FailAttempt, Complete
  <2>2. \A q \in Runners : handler'[q] = IF q = r THEN Free ELSE handler[q]
    BY <2>1 DEF QueueInv, GenTypes
  <2>3. \A q \in Runners : \/ handler'[q] = Free
                           \/ handler'[q] = handler[q] /\ handler[q] # Free /\ handler[q].job # j
    BY <2>1, <2>2 DEF QueueInv, HandlerOwnsJob
  <2>4. CASE FailAttempt(r)
    <3>1. job[j].attemptsMade < Attempts(job[j].kind)
      BY <1>0, <2>1 DEF QueueInv, Retriable
    <3>2. /\ Retried(job[j]).kind = job[j].kind
          /\ Retried(job[j]).state \in {"waiting", "failed"}
          /\ Retried(job[j]).state = "waiting"
               => Retried(job[j]).attemptsMade < Attempts(job[j].kind)
      BY <1>0, <2>1, <3>1, RetriedRow
    <3>3. job' = [job EXCEPT ![j] = Retried(job[j])] /\ j \in Jobs
      BY <1>0, <2>1, <2>4 DEF FailAttempt
    <3> HIDE DEF j
    <3> QED
      BY <2>1, <2>3, <3>2, <3>3, JobGoesOn
  <2>5. CASE Complete(r)
    <3> DEFINE row == [job[j] EXCEPT !.state = "completed"]
    <3>1. row.kind = job[j].kind /\ row.state = "completed" /\ j \in Jobs
      BY <1>0, <2>1, RowInState
    <3>2. job' = [job EXCEPT ![j] = row] /\ (job[j].kind = "generate" => wrote[j] = "result")
      BY <2>5 DEF Complete, QueueInv, DoneIsTold
    <3> HIDE DEF row, j
    <3> QED
      BY <2>1, <2>3, <3>1, <3>2, JobGoesOn
  <2> QED
    BY <1>11, <2>4, <2>5
<1> QED
  BY <1>2, <1>3, <1>4, <1>5, <1>6, <1>7, <1>8, <1>9, <1>10, <1>11 DEF RunnerStep

LEMMA QueueInvInit == GenInit => QueueInv
BY GenInitTypes DEF GenInit, QueueInv, Retriable, HandlerOwnsJob, RunsItsKind, DoneIsTold,
   CompletedIsSubmitted, Queued, Free

LEMMA QueueInvStep == QueueInv /\ [GenNext]_genVars => QueueInv'
<1> SUFFICES ASSUME QueueInv, [GenNext]_genVars PROVE QueueInv'
  OBVIOUS
<1>1. GenTypes'
  BY GenNextTypes DEF QueueInv
<1>2. CASE UNCHANGED <<job, handler, wrote>>
  BY <1>1, <1>2 DEF QueueInv, Retriable, HandlerOwnsJob, RunsItsKind, DoneIsTold,
     CompletedIsSubmitted, Queued
<1> QED
  BY <1>1, <1>2, EngineKeepsQueue, RunnerKeepsQueue, QueueKeepsQueue
  DEF GenNext, UserStep, genVars, jobVars

LEMMA QueueInvAlways == GenSpec => []QueueInv
BY QueueInvInit, QueueInvStep, PTL DEF GenSpec

(* The rows, the requests of every kind of worker, the jobs and the handlers
   keep their types: no job is ever tried more often than its kind allows. *)
THEOREM GenTypeCorrect == GenSpec => []GenTypeOK
<1>1. QueueInv => GenTypeOK
  BY DEF QueueInv, GenTypes, GenTypeOK, RunnerRequest
<1> QED
  BY <1>1, QueueInvAlways, PTL

(* A job has one handler at a time and none once it has ended or was
   cancelled, for any number of handlers, crashes and retries. *)
THEOREM JobHasOneHandler == GenSpec => []HandlerOwnsJob
<1>1. QueueInv => HandlerOwnsJob
  BY DEF QueueInv
<1> QED
  BY <1>1, QueueInvAlways, PTL

(* A completed generation has last submitted its schedule for approval. *)
THEOREM CompletedSubmits == GenSpec => []CompletedIsSubmitted
<1>1. QueueInv => CompletedIsSubmitted
  BY DEF QueueInv
<1> QED
  BY <1>1, QueueInvAlways, PTL

(***************************************************************************)
(* The optimisation                                                        *)
(***************************************************************************)

(* Writing a row's own place back changes nothing. *)
LEMMA WrittenBack ==
  ASSUME NEW row \in SessionRow, NEW c \in Rewrites,
         c.teacher = row.teacher, c.room = row.room, c.slot = row.slot
  PROVE  Changed(row, c) = row
<1>1. c.status = Keep
  BY DEF Rewrites
<1>2. /\ Given(c.teacher, row.teacher) = row.teacher /\ Given(c.room, row.room) = row.room
      /\ Given(c.slot, row.slot) = row.slot /\ Given(c.status, row.status) = row.status
  BY <1>1 DEF Given
<1> QED
  BY <1>2 DEF Changed, SessionRow

LEMMA RewriteKeepsSessions ==
  ASSUME GenTypes, HoldsPlaces, NEW r \in Runners, UpdateSessionWrite(r)
  PROVE  session' = session
<1>1. req[r] \in RunnerRequest /\ req[r].at = "sessionWrite" /\ LiveSession(req[r].session)
  BY DEF UpdateSessionWrite, GenTypes
<1>2. req[r].session \in Sessions /\ req[r].change \in Rewrites
  BY <1>1, RunnerFields
<1>3. session[req[r].session] \in SessionRow
  BY <1>1, <1>2 DEF LiveSession, GenTypes, RowsOK
<1>4. InPlace(req[r].session, req[r].change)
  BY <1>1 DEF HoldsPlaces
<1>5. Changed(session[req[r].session], req[r].change) = session[req[r].session]
  BY <1>1, <1>2, <1>3, <1>4, WrittenBack DEF InPlace
<1> QED
  BY <1>2, <1>5 DEF UpdateSessionWrite, GenTypes, RowsOK

(* The handlers write sessions by this one call. *)
LEMMA RunnerKeepsSessions ==
  ASSUME GenTypes, HoldsPlaces, NEW r \in Runners, RunnerStep(r) \/ Crash(r) \/ CallFails(r)
  PROVE  session' = session
<1>1. CASE RewriteEnd(r)
  BY <1>1, RewriteKeepsSessions DEF RewriteEnd
<1>2. CASE UpdateStart(r) \/ UpdateEnd(r) \/ MetadataStart(r) \/ MetadataEnd(r) \/ RewriteStart(r)
  BY <1>2 DEF UpdateStart, UpdateEnd, MetadataStart, MetadataEnd, RewriteStart, UpdateRead,
     UpdateWrite, UpdateSessionRead
<1>3. CASE \/ \E j \in Jobs : Take(r, j)
           \/ \E answer \in Answers : Solve(r, answer)
           \/ ReadSessions(r) \/ ValidateSessions(r) \/ FailAttempt(r) \/ Complete(r)
  BY <1>3 DEF Take, Solve, ReadSessions, ValidateSessions, FailAttempt, Complete, vars
<1>4. CASE HandlerNotFound(r) \/ Crash(r) \/ CallFails(r)
  BY <1>4 DEF HandlerNotFound, Crash, CallFails
<1> QED
  BY <1>1, <1>2, <1>3, <1>4 DEF RunnerStep

(* A session that exists stays in its place or goes. *)
StayPut ==
  \A x \in Sessions : session[x] # Unused =>
    /\ session'[x] # Unused
    /\ LiveSession(x)' => /\ LiveSession(x)
                          /\ session'[x].teacher = session[x].teacher
                          /\ session'[x].room = session[x].room
                          /\ session'[x].slot = session[x].slot

LEMMA RequestStaysPut ==
  ASSUME GenTypes, UpdatesMoveNothing, NEW w \in Users \cup Engines, Step(w)
  PROVE  StayPut
<1>1. w \in Workers /\ req[w] \in Request
  BY RolesAssumption DEF GenTypes, Users
<1>2. \A row \in SessionRow, change \in SessionChanges :
        /\ Changed(row, change).teacher = row.teacher
        /\ Changed(row, change).room = row.room
        /\ Changed(row, change).slot = row.slot
  BY DEF UpdatesMoveNothing, Changed, Given, SessionRow
<1>3. \A x \in Sessions : LiveSession(x) => session[x] \in SessionRow
  BY DEF LiveSession, GenTypes, RowsOK
<1>4. \A x \in Sessions : session[x] # Unused =>
        /\ session'[x] # Unused
        /\ LiveSession(x)' =>
             /\ LiveSession(x)
             /\ \/ session'[x] = session[x]
                \/ \E change \in SessionChanges : session'[x] = Changed(session[x], change)
  BY <1>1, SessionStays DEF GenTypes
<1> QED
  BY <1>2, <1>3, <1>4 DEF StayPut

LEMMA GenStaysPut ==
  ASSUME GenTypes, HoldsPlaces, UpdatesMoveNothing, [GenNext]_genVars
  PROVE  StayPut
<1>1. CASE session' = session
  BY <1>1 DEF StayPut, LiveSession
<1>2. CASE \E w \in Users : UserStep(w)
  BY <1>2, RequestStaysPut DEF UserStep, Step
<1>3. CASE \E e \in Engines : EngineStep(e)
  BY <1>1, <1>3, RequestStaysPut DEF EngineStep, GenerateStart, GenerateInsert, Step, ScheduleStep,
     OptimizeStart, ValidateStart, FoundFor, QueueAdd, EngineAbort, vars
<1>4. CASE \E r \in Runners : RunnerStep(r) \/ Crash(r) \/ CallFails(r)
  BY <1>1, <1>4, RunnerKeepsSessions
<1>5. CASE \E j \in Jobs : CancelJob(j) \/ Stalled(j)
  BY <1>1, <1>5 DEF CancelJob, Stalled, vars
<1>6. CASE UNCHANGED genVars
  BY <1>1, <1>6 DEF genVars, vars
<1> QED
  BY <1>2, <1>3, <1>4, <1>5, <1>6 DEF GenNext

LEMMA PlaceStays ==
  ASSUME StayPut, NEW x \in Sessions, NEW c, InPlace(x, c)
  PROVE  InPlace(x, c)'
BY DEF StayPut, InPlace

(* A handler moves alone. *)
LEMMA RunnerMovesAlone ==
  ASSUME GenTypes, NEW q \in Runners, RunnerStep(q) \/ Crash(q) \/ CallFails(q),
         NEW r \in Runners, r # q
  PROVE  handler'[r] = handler[r] /\ req'[r] = req[r]
<1>0. handler \in [Runners -> HandlerTask] /\ DOMAIN req = Workers /\ r \in Workers
  BY RolesAssumption DEF GenTypes
<1>1. CASE UpdateStart(q) \/ MetadataStart(q) \/ RewriteStart(q)
  BY <1>0, <1>1 DEF UpdateStart, MetadataStart, RewriteStart, UpdateRead, UpdateSessionRead,
     Continue, jobVars
<1>2. CASE UpdateEnd(q) \/ MetadataEnd(q) \/ RewriteEnd(q)
  BY <1>0, <1>2 DEF UpdateEnd, MetadataEnd, RewriteEnd, UpdateWrite, UpdateSessionWrite,
     Done, Continue, Then
<1>3. CASE HandlerNotFound(q) \/ Crash(q) \/ CallFails(q)
  BY <1>0, <1>3 DEF HandlerNotFound, Crash, CallFails, Done, Continue, Then
<1>4. CASE \/ \E j \in Jobs : Take(q, j)
           \/ \E answer \in Answers : Solve(q, answer)
           \/ ReadSessions(q) \/ ValidateSessions(q) \/ FailAttempt(q) \/ Complete(q)
  BY <1>0, <1>4 DEF Take, Solve, ReadSessions, ValidateSessions, FailAttempt, Complete, Then, vars
<1> QED
  BY <1>1, <1>2, <1>3, <1>4 DEF RunnerStep

(* Nobody but a handler moves its task and its request. *)
LEMMA OthersLeaveRunners ==
  ASSUME GenTypes, NEW r \in Runners,
         \/ \E w \in Users : UserStep(w)
         \/ \E e \in Engines : EngineStep(e)
         \/ \E j \in Jobs : CancelJob(j) \/ Stalled(j)
  PROVE  handler' = handler /\ req'[r] = req[r]
<1>0. DOMAIN req = Workers /\ r \in Workers /\ r \notin Users \cup Engines
  BY RolesAssumption DEF GenTypes, Users
<1>1. ASSUME NEW w \in Users \cup Engines, Step(w)
      PROVE  req'[r] = req[r]
  <2>1. w \in Workers /\ req[w] \in Request
    BY RolesAssumption DEF GenTypes, Users
  <2> QED
    BY <1>0, <1>1, <2>1, StepRows DEF Moves, GenTypes
<1>2. CASE \E w \in Users : UserStep(w)
  BY <1>1, <1>2 DEF UserStep, Step, jobVars
<1>3. CASE \E e \in Engines : EngineStep(e)
  <2>1. PICK e \in Engines : EngineStep(e)
    BY <1>3
  <2>2. CASE Step(e) /\ handler' = handler
    BY <1>1, <2>2
  <2>3. CASE EngineAbort(e)
    BY <1>0, <2>3 DEF EngineAbort, Done, Continue
  <2>4. CASE UNCHANGED <<handler, req>>
    BY <2>4
  <2> QED
    BY <2>1, <2>2, <2>3, <2>4 DEF EngineStep, GenerateStart, GenerateInsert, Step, ScheduleStep,
       OptimizeStart, ValidateStart, FoundFor, QueueAdd, vars
<1>4. CASE \E j \in Jobs : CancelJob(j) \/ Stalled(j)
  BY <1>4 DEF CancelJob, Stalled, vars
<1> QED
  BY <1>2, <1>3, <1>4

(* What a handler holds is what it held, less what it has written, or what it
   has just read; and it writes what it holds. *)
LEMMA HeldBefore ==
  ASSUME GenTypes, NEW r \in Runners, [GenNext]_genVars
  PROVE  /\ handler'[r].at = "rewrite" =>
              \/ handler[r].at = "rewrite" /\ handler'[r].todo \subseteq handler[r].todo
              \/ /\ session' = session
                 /\ handler'[r].todo = {<<x, Rewritten(session[x])>> : x \in SessionsOf(Target(r))}
         /\ req'[r].at = "sessionWrite" =>
              \/ req'[r] = req[r]
              \/ /\ handler[r].at = "rewrite"
                 /\ \E t \in handler[r].todo : /\ req'[r].session = t[1]
                                               /\ req'[r].change = t[2]
<1>0. /\ handler \in [Runners -> HandlerTask] /\ DOMAIN req = Workers /\ r \in Workers
      /\ Free.at = "free" /\ Idle.at = "idle"
  BY RolesAssumption DEF GenTypes, Free, Idle
<1>1. CASE handler'[r] = handler[r] /\ req'[r] = req[r]
  BY <1>1
<1>2. CASE UpdateStart(r) \/ MetadataStart(r) \/ RewriteStart(r)
  <2>1. handler' = handler
    BY <1>2 DEF UpdateStart, MetadataStart, RewriteStart, jobVars
  <2>2. CASE UpdateStart(r) \/ MetadataStart(r)
    BY <1>0, <2>1, <2>2 DEF UpdateStart, MetadataStart, UpdateRead, Continue
  <2>3. CASE RewriteStart(r)
    <3>1. PICK t \in handler[r].todo : UpdateSessionRead(r, t[1], t[2])
      BY <2>3 DEF RewriteStart
    <3>2. req'[r] = [at |-> "sessionWrite", session |-> t[1], change |-> t[2]]
      BY <1>0, <3>1 DEF UpdateSessionRead, Continue
    <3> QED
      BY <2>1, <2>3, <3>2 DEF RewriteStart
  <2> QED
    BY <1>2, <2>2, <2>3
<1>3. CASE RewriteEnd(r)
  <2>1. handler[r] \in [at : {"rewrite"}, job : Jobs, todo : Todo]
    BY <1>0, <1>3 DEF RewriteEnd, HandlerTask
  <2>2. handler'[r] = [handler[r] EXCEPT !.todo = {t \in handler[r].todo : t[1] # req[r].session}]
    BY <1>0, <1>3 DEF RewriteEnd
  <2>3. handler'[r].todo \subseteq handler[r].todo
    BY <2>1, <2>2
  <2>4. req'[r] = Idle
    BY <1>0, <1>3 DEF RewriteEnd, UpdateSessionWrite, Done, Continue
  <2> QED
    BY <1>0, <1>3, <2>3, <2>4 DEF RewriteEnd
<1>4. CASE UpdateEnd(r) \/ MetadataEnd(r)
  <2>1. req'[r] = Idle /\ handler'[r].at \in {"done", "throw"}
    BY <1>0, <1>4 DEF UpdateEnd, MetadataEnd, UpdateWrite, Done, Continue, Then, AfterUpdate
  <2> QED
    BY <1>0, <2>1
<1>5. CASE ReadSessions(r)
  BY <1>0, <1>5 DEF ReadSessions, vars
<1>6. CASE HandlerNotFound(r) \/ Crash(r) \/ CallFails(r)
  <2>1. req'[r] = Idle /\ handler'[r].at \in {"throw", "free"}
    BY <1>0, <1>6 DEF HandlerNotFound, Crash, CallFails, Done, Continue, Then
  <2> QED
    BY <1>0, <2>1
<1>7. CASE \/ \E j \in Jobs : Take(r, j)
           \/ \E answer \in Answers : Solve(r, answer)
           \/ ValidateSessions(r) \/ FailAttempt(r) \/ Complete(r)
  <2>1. req' = req
    BY <1>7 DEF Take, Solve, ValidateSessions, FailAttempt, Complete, vars
  <2>2. CASE \E j \in Jobs : Take(r, j)
    <3>1. PICK j \in Jobs : Take(r, j)
      BY <2>2
    <3>2. job[j].kind \in Kinds
      BY <3>1, QueuedRow DEF Take, GenTypes, JobRow
    <3>3. handler'[r].at = FirstCall(job[j].kind)
      BY <1>0, <3>1 DEF Take
    <3> QED
      BY <2>1, <3>2, <3>3 DEF FirstCall, Kinds
  <2>3. CASE \E answer \in Answers : Solve(r, answer)
    BY <1>0, <2>1, <2>3 DEF Solve, Then, Answers
  <2>4. CASE ValidateSessions(r) \/ FailAttempt(r) \/ Complete(r)
    BY <1>0, <2>1, <2>4 DEF ValidateSessions, FailAttempt, Complete, Then
  <2> QED
    BY <1>7, <2>2, <2>3, <2>4
<1>8. CASE UNCHANGED genVars
  BY <1>1, <1>8 DEF genVars, vars, jobVars
<1>9. CASE \E q \in Runners : q # r /\ (RunnerStep(q) \/ Crash(q) \/ CallFails(q))
  BY <1>1, <1>9, RunnerMovesAlone
<1>10. CASE RunnerStep(r) \/ Crash(r) \/ CallFails(r)
  BY <1>2, <1>3, <1>4, <1>5, <1>6, <1>7, <1>10 DEF RunnerStep
<1> QED
  BY <1>1, <1>8, <1>9, <1>10, OthersLeaveRunners DEF GenNext

LEMMA HoldsPlacesStep ==
  ASSUME QueueInv, HoldsPlaces, UpdatesMoveNothing, [GenNext]_genVars
  PROVE  HoldsPlaces'
<1>0. GenTypes /\ StayPut
  BY GenStaysPut DEF QueueInv
<1>1. ASSUME NEW r \in Runners, NEW t, handler'[r].at = "rewrite", t \in handler'[r].todo
      PROVE  InPlace(t[1], t[2])'
  <2>1. CASE handler[r].at = "rewrite" /\ t \in handler[r].todo
    <3>1. t[1] \in Sessions /\ InPlace(t[1], t[2])
      BY <1>0, <2>1, HandlerFields DEF HoldsPlaces, GenTypes, Todo
    <3> QED
      BY <1>0, <3>1, PlaceStays
  <2>2. CASE /\ session' = session
             /\ t \in {<<x, Rewritten(session[x])>> : x \in SessionsOf(Target(r))}
    <3>1. PICK x \in SessionsOf(Target(r)) : t = <<x, Rewritten(session[x])>>
      BY <2>2
    <3>2. LiveSession(x) /\ t[1] = x /\ t[2] = Rewritten(session[x])
      BY <3>1 DEF SessionsOf
    <3>3. InPlace(t[1], t[2])
      BY <3>2 DEF InPlace, LiveSession, Rewritten
    <3> QED
      BY <2>2, <3>3 DEF InPlace, LiveSession
  <2> QED
    BY <1>0, <1>1, <2>1, <2>2, HeldBefore
<1>2. ASSUME NEW r \in Runners, NEW x, NEW c, req'[r].at = "sessionWrite",
             x = req'[r].session, c = req'[r].change
      PROVE  InPlace(x, c)'
  <2>1. CASE req'[r] = req[r]
    <3>1. req[r] \in RunnerRequest
      BY <1>0 DEF GenTypes
    <3>2. x \in Sessions /\ InPlace(x, c)
      BY <1>2, <2>1, <3>1, RunnerFields DEF HoldsPlaces
    <3> QED
      BY <1>0, <3>2, PlaceStays
  <2>2. CASE handler[r].at = "rewrite" /\ \E t \in handler[r].todo : x = t[1] /\ c = t[2]
    <3>1. x \in Sessions /\ InPlace(x, c)
      BY <1>0, <2>2, HandlerFields DEF HoldsPlaces, GenTypes, Todo
    <3> QED
      BY <1>0, <3>1, PlaceStays
  <2> QED
    BY <1>0, <1>2, <2>1, <2>2, HeldBefore
<1> QED
  BY <1>1, <1>2 DEF HoldsPlaces, InPlace, LiveSession

LEMMA HoldsPlacesAlways ==
  ASSUME UpdatesMoveNothing
  PROVE  GenSpec => [](QueueInv /\ HoldsPlaces)
<1>1. GenInit => QueueInv /\ HoldsPlaces
  BY QueueInvInit, RolesAssumption DEF GenInit, Init, HoldsPlaces, Free, Idle
<1>2. QueueInv /\ HoldsPlaces /\ [GenNext]_genVars => QueueInv' /\ HoldsPlaces'
  BY QueueInvStep, HoldsPlacesStep
<1> QED
  BY <1>1, <1>2, PTL DEF GenSpec

(* An optimisation moves and revives no session, whatever users book, cancel
   and delete between its reading of the schedule and its writing of a row,
   as long as they move none themselves. *)
THEOREM OptimisationMovesNothing ==
  ASSUME UpdatesMoveNothing
  PROVE  GenSpec => OptimizeMovesNothing
<1>1. ASSUME QueueInv, HoldsPlaces, [GenNext]_genVars, NEW r \in Runners,
             req[r].at = "sessionWrite", req'[r] = Idle
      PROVE  session' = session
  <2>1. GenTypes /\ req'[r] # req[r]
    BY <1>1 DEF QueueInv, Idle
  <2>2. ~ UNCHANGED genVars
    BY <2>1 DEF genVars, vars
  <2>3. RunnerStep(r) \/ Crash(r) \/ CallFails(r)
    BY <1>1, <2>1, <2>2, OthersLeaveRunners, RunnerMovesAlone DEF GenNext
  <2> QED
    BY <1>1, <2>1, <2>3, RunnerKeepsSessions
<1>2. QueueInv /\ HoldsPlaces /\ [GenNext]_genVars
        => [\A r \in Runners : handler[r] # Free /\ req[r].at = "sessionWrite"
              /\ req'[r] = Idle => session' = session]_genVars
  BY <1>1
<1> QED
  BY <1>2, HoldsPlacesAlways, PTL DEF GenSpec, OptimizeMovesNothing

=============================================================================
