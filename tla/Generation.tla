----------------------------- MODULE Generation -----------------------------
(***************************************************************************)
(* SchedulingEngineService and SchedulingProcessor (src/backend/src/       *)
(* scheduling/services/scheduling-engine.service.ts, processors/           *)
(* scheduling.processor.ts): schedules are generated and optimised by jobs *)
(* of the Bull queue 'scheduling', which call ScheduleService beside the   *)
(* HTTP requests.  This module composes with Schedule: the calls of a job  *)
(* are requests of Schedule made by the worker that runs the handler.      *)
(*                                                                         *)
(* Bull itself is external.  What the code relies on is modelled: a job is *)
(* handed to one handler at a time, a handler that throws is run again     *)
(* until the attempts are used up, a job whose process died is handed out  *)
(* once more, and an active job cannot be removed.  The back-off delays    *)
(* are left out: a delayed job waits.                                      *)
(***************************************************************************)
EXTENDS Schedule, FiniteSets

CONSTANTS
  Jobs,            \* job identifiers (a counter in Redis, never reused)
  Engines,         \* workers executing SchedulingEngineService
  Runners,         \* workers executing the queue's handlers
  Faults           \* whether processes die and calls of the handlers fail

ASSUME RolesAssumption ==
  /\ Faults \in BOOLEAN
  /\ Engines \cup Runners \subseteq Workers
  /\ Engines \cap Runners = {}
  /\ \A e \in Engines : "create" \in Serves[e]
  /\ \A r \in Runners : {"update", "updateSession"} \subseteq Serves[r]

Users == Workers \ (Engines \cup Runners)

Kinds == {"generate", "optimize", "validate"}

Attempts(kind) == IF kind = "validate" THEN 2 ELSE 3
MaxStalled == 1    \* Bull's default maxStalledCount

JobRow == [kind : Kinds, schedule : Schedules,
           state : {"waiting", "active", "completed", "failed"},
           attemptsMade : 0..3, stalled : 0..MaxStalled]

ASSUME JobRowAssumption == Unused \notin JobRow /\ Gone \notin JobRow

VARIABLES
  job,        \* job[j]: the job in Redis, Unused or Gone
  engine,     \* engine[e]: the engine request e executes
  handler,    \* handler[r]: the job r runs and the call it makes next
  wrote       \* wrote[j]: what job j last told its schedule (history)

jobVars == <<job, engine, handler, wrote>>
genVars == <<vars, jobVars>>

Free == [at |-> "free"]

(* The sessions an optimisation has still to write back, with the row each
   had when the handler read the schedule. *)
Rewrites == [teacher : Teachers, room : Rooms, slot : Slots, status : {Keep}]
Todo == SUBSET (Sessions \X Rewrites)

EngineTask ==
  [at : {"free", "create"}]
  \cup [at : {"add"}, kind : Kinds, schedule : Schedules]

HandlerTask ==
  [at : {"free"}]
  \cup [at : {"solve", "result", "error", "readSessions", "validate", "done", "throw"}, job : Jobs]
  \cup [at : {"rewrite"}, job : Jobs, todo : Todo]

GenTypeOK ==
  /\ job \in [Jobs -> JobRow \cup {Unused, Gone}]
  /\ engine \in [Engines -> EngineTask]
  /\ handler \in [Runners -> HandlerTask]
  /\ wrote \in [Jobs -> {"nothing", "result", "error"}]
  /\ \A w \in Users \cup Engines : req[w] \in Request
  /\ \A r \in Runners : /\ req[r].at \in {"idle", "updateWrite", "sessionWrite"}
                         /\ req[r].at = "sessionWrite" => req[r].change \in Rewrites

GenInit ==
  /\ Init
  /\ job = [j \in Jobs |-> Unused]
  /\ engine = [e \in Engines |-> Free]
  /\ handler = [r \in Runners |-> Free]
  /\ wrote = [j \in Jobs |-> "nothing"]

Queued(j)  == job[j] \notin {Unused, Gone}
Ended(j)   == IF Queued(j) THEN job[j].state \in {"completed", "failed"} ELSE job[j] = Gone
Target(r)  == job[handler[r].job].schedule
Then(r, at) == handler' = [handler EXCEPT ![r] = [at |-> at, job |-> handler[r].job]]

-----------------------------------------------------------------------------
(* generateSchedule: ScheduleService.create, then queue.add. *)

GenerateStart(e, dto) ==
  /\ engine[e] = Free
  /\ CreateCheck(e, dto)
  /\ engine' = [engine EXCEPT ![e] = [at |-> "create"]]
  /\ UNCHANGED <<job, handler, wrote>>

GenerateInsert(e) ==
  /\ engine[e].at = "create"
  /\ CreateInsert(e)
  /\ \E s \in Schedules :
       /\ ~ LiveSchedule(s) /\ LiveSchedule(s)'
       /\ engine' = [engine EXCEPT ![e] = [at |-> "add", kind |-> "generate", schedule |-> s]]
  /\ UNCHANGED <<job, handler, wrote>>

(* optimizeExistingSchedule and validateScheduleConstraints: findById, then
   queue.add. *)
FoundFor(e, kind, s) ==
  /\ engine[e] = Free
  /\ LiveSchedule(s)
  /\ engine' = [engine EXCEPT ![e] = [at |-> "add", kind |-> kind, schedule |-> s]]
  /\ UNCHANGED <<vars, job, handler, wrote>>

OptimizeStart(e, s) == FoundFor(e, "optimize", s)
ValidateStart(e, s) == FoundFor(e, "validate", s)

QueueAdd(e) ==
  /\ engine[e].at = "add"
  /\ \E j \in Jobs :
       /\ job[j] = Unused
       /\ job' = [job EXCEPT ![j] =
            [kind |-> engine[e].kind, schedule |-> engine[e].schedule, state |-> "waiting",
             attemptsMade |-> 0, stalled |-> 0]]
  /\ engine' = [engine EXCEPT ![e] = Free]
  /\ UNCHANGED <<vars, handler, wrote>>

(* A query, prepareSchedulingRequest or Redis fails: the schedule, if it was
   inserted, stays without a job. *)
EngineAbort(e) ==
  /\ engine[e] # Free
  /\ engine' = [engine EXCEPT ![e] = Free]
  /\ Done(e)
  /\ UNCHANGED <<schedule, session, job, handler, wrote>>

(* Mutant: a running job is removed from under its handler. *)
CancelAnyJob(j) ==
  /\ Queued(j)
  /\ job' = [job EXCEPT ![j] = Gone]
  /\ UNCHANGED <<vars, engine, handler, wrote>>

(* cancelJob: job.remove() throws while a handler holds the job. *)
CancelJob(j) ==
  /\ Queued(j)
  /\ job[j].state # "active"
  /\ job' = [job EXCEPT ![j] = Gone]
  /\ UNCHANGED <<vars, engine, handler, wrote>>

-----------------------------------------------------------------------------
(* The queue hands jobs to handlers and takes their end. *)

FirstCall(kind) ==
  CASE kind = "generate" -> "solve" [] kind = "optimize" -> "readSessions"
    [] kind = "validate" -> "validate"

Take(r, j) ==
  /\ handler[r] = Free /\ req[r] = Idle
  /\ Queued(j) /\ job[j].state = "waiting"
  /\ job' = [job EXCEPT ![j].state = "active"]
  /\ handler' = [handler EXCEPT ![r] =
       [at |-> FirstCall(job[j].kind), job |-> j]]
  /\ UNCHANGED <<vars, engine, wrote>>

Complete(r) ==
  /\ handler[r].at = "done"
  /\ job' = [job EXCEPT ![handler[r].job].state = "completed"]
  /\ handler' = [handler EXCEPT ![r] = Free]
  /\ UNCHANGED <<vars, engine, wrote>>

(* Mutant: the failed attempt is not counted. *)
RetriedUncounted(row) == [row EXCEPT !.state = "waiting"]

(* Mutant: the attempts are counted and not limited. *)
RetriedUnlimited(row) ==
  [row EXCEPT !.attemptsMade = row.attemptsMade + 1, !.state = "waiting"]

(* The job after a failed attempt. *)
Retried(row) ==
  [row EXCEPT !.attemptsMade = row.attemptsMade + 1,
              !.state = IF row.attemptsMade + 1 < Attempts(row.kind) THEN "waiting" ELSE "failed"]

FailAttempt(r) ==
  /\ handler[r].at = "throw"
  /\ job' = [job EXCEPT ![handler[r].job] = Retried(@)]
  /\ handler' = [handler EXCEPT ![r] = Free]
  /\ UNCHANGED <<vars, engine, wrote>>

(* The process running the handler dies; its job stays active. *)
Crash(r) ==
  /\ Faults
  /\ handler[r] # Free
  /\ handler' = [handler EXCEPT ![r] = Free]
  /\ Done(r)
  /\ UNCHANGED <<schedule, session, job, engine, wrote>>

(* The job after its handler is gone. *)
Released(row) ==
  IF row.stalled < MaxStalled THEN [row EXCEPT !.state = "waiting", !.stalled = row.stalled + 1]
  ELSE [row EXCEPT !.state = "failed"]

(* The lock of an active job expires once no handler renews it. *)
Stalled(j) ==
  /\ Queued(j) /\ job[j].state = "active"
  /\ ~ \E r \in Runners : handler[r] # Free /\ handler[r].job = j
  /\ job' = [job EXCEPT ![j] = Released(@)]
  /\ UNCHANGED <<vars, engine, handler, wrote>>

-----------------------------------------------------------------------------
(* handleScheduleGeneration *)

(* The solver is external: it fails, or answers with no session (the
   heuristic it falls back to always does), or with a plan read from a JSON
   file, whose dates are strings, so that session.date.toISOString() throws
   before the first createSession. *)
Answers == {"failure", "empty", "plan"}

Solve(r, answer) ==
  /\ handler[r].at = "solve"
  /\ Then(r, CASE answer = "failure" -> "error"
               [] answer = "empty"   -> "result"
               [] answer = "plan"    -> "throw")
  /\ UNCHANGED <<vars, job, engine, wrote>>

StatusDto(status) == [status |-> status, start |-> Keep, end |-> Keep]

UpdateStart(r) ==
  /\ handler[r].at \in {"result", "error"}
  /\ UpdateRead(r, Target(r),
       StatusDto(IF handler[r].at = "result" THEN "PENDING_APPROVAL" ELSE "DRAFT"))
  /\ UNCHANGED jobVars

(* Mutant: what the solver reported is not what decides the outcome. *)
AfterUpdateAlways(at) == "done"

(* A failure is recorded and then thrown. *)
AfterUpdate(at) == IF at = "result" THEN "done" ELSE "throw"

UpdateEnd(r) ==
  /\ handler[r].at \in {"result", "error"}
  /\ UpdateWrite(r)
  /\ wrote' = [wrote EXCEPT ![handler[r].job] = handler[r].at]
  /\ Then(r, AfterUpdate(handler[r].at))
  /\ UNCHANGED <<job, engine>>

(* handleScheduleOptimization: the preferences change nothing of a session
   but its priority, which is not written back. *)

(* Mutant: the rows are written back whole. *)
RewrittenWhole(row) == [teacher |-> row.teacher, room |-> row.room, slot |-> row.slot,
                        status |-> row.status]

Rewritten(row) == [teacher |-> row.teacher, room |-> row.room, slot |-> row.slot,
                   status |-> Keep]

ReadSessions(r) ==
  /\ handler[r].at = "readSessions"
  /\ LiveSchedule(Target(r))
  /\ handler' = [handler EXCEPT ![r] =
       [at |-> "rewrite", job |-> handler[r].job,
        todo |-> {<<x, Rewritten(session[x])>> : x \in SessionsOf(Target(r))}]]
  /\ UNCHANGED <<vars, job, engine, wrote>>

RewriteStart(r) ==
  /\ handler[r].at = "rewrite"
  /\ \E t \in handler[r].todo : UpdateSessionRead(r, t[1], t[2])
  /\ UNCHANGED jobVars

RewriteEnd(r) ==
  /\ handler[r].at = "rewrite"
  /\ UpdateSessionWrite(r)
  /\ handler' = [handler EXCEPT ![r].todo =
       {t \in handler[r].todo : t[1] # req[r].session}]
  /\ UNCHANGED <<job, engine, wrote>>

(* All sessions are written; the metadata of the schedule follows. *)
MetadataStart(r) ==
  /\ handler[r].at = "rewrite" /\ handler[r].todo = {}
  /\ UpdateRead(r, Target(r), StatusDto(Keep))
  /\ UNCHANGED jobVars

MetadataEnd(r) ==
  /\ handler[r].at = "rewrite" /\ handler[r].todo = {}
  /\ UpdateWrite(r)
  /\ Then(r, "done")
  /\ UNCHANGED <<job, engine, wrote>>

(* handleConstraintValidation: one read; what is found is only answered. *)
ValidateSessions(r) ==
  /\ handler[r].at = "validate"
  /\ LiveSchedule(Target(r))
  /\ Then(r, "done")
  /\ UNCHANGED <<vars, job, engine, wrote>>

(* A row the handler reads or writes was deleted meanwhile. *)
HandlerNotFound(r) ==
  /\ handler[r].at \in {"result", "error", "readSessions", "rewrite", "validate"}
  /\ IF req[r].at = "sessionWrite" THEN ~ LiveSession(req[r].session)
     ELSE \/ ~ LiveSchedule(Target(r))
          \/ /\ handler[r].at = "rewrite" /\ req[r] = Idle
             /\ \E t \in handler[r].todo : ~ LiveSession(t[1])
  /\ Done(r)
  /\ Then(r, "throw")
  /\ UNCHANGED <<schedule, session, job, engine, wrote>>

(* A call to the database or to job.progress() fails. *)
CallFails(r) ==
  /\ Faults
  /\ handler[r] # Free /\ handler[r].at # "throw"
  /\ Done(r)
  /\ Then(r, "throw")
  /\ UNCHANGED <<schedule, session, job, engine, wrote>>

-----------------------------------------------------------------------------
EngineStep(e) ==
  \/ \E dto \in CreateDtos : GenerateStart(e, dto)
  \/ GenerateInsert(e)
  \/ \E s \in Schedules : OptimizeStart(e, s) \/ ValidateStart(e, s)
  \/ QueueAdd(e)
  \/ EngineAbort(e)

RunnerStep(r) ==
  \/ \E j \in Jobs : Take(r, j)
  \/ \E answer \in Answers : Solve(r, answer)
  \/ UpdateStart(r)
  \/ UpdateEnd(r)
  \/ ReadSessions(r)
  \/ RewriteStart(r)
  \/ RewriteEnd(r)
  \/ MetadataStart(r)
  \/ MetadataEnd(r)
  \/ ValidateSessions(r)
  \/ HandlerNotFound(r)
  \/ FailAttempt(r)
  \/ Complete(r)

UserStep(w) == (ScheduleStep(w) \/ SessionStep(w) \/ Abort(w)) /\ UNCHANGED jobVars

GenNext ==
  \/ \E w \in Users : UserStep(w)
  \/ \E e \in Engines : EngineStep(e)
  \/ \E r \in Runners : RunnerStep(r) \/ Crash(r) \/ CallFails(r)
  \/ \E j \in Jobs : CancelJob(j) \/ Stalled(j)

GenSpec ==
  /\ GenInit /\ [][GenNext]_genVars
  /\ \A r \in Runners : WF_genVars(RunnerStep(r))
  /\ \A j \in Jobs : WF_genVars(Stalled(j))

-----------------------------------------------------------------------------
(* A job is run by one handler at a time, and by none once it has ended or
   was cancelled: whatever the order of crashes, retries and cancelJob, the
   schedule of a cancelled job is not written any more. *)
HandlerOwnsJob ==
  \A r \in Runners : handler[r] # Free =>
    /\ Queued(handler[r].job) /\ job[handler[r].job].state = "active"
    /\ \A q \in Runners : handler[q] # Free /\ handler[q].job = handler[r].job => q = r

(* "success: true" of a generation job comes after its schedule was given to
   approval by its last update, although earlier attempts of the same job may
   have written a failure. *)
CompletedIsSubmitted ==
  \A j \in Jobs : Queued(j) /\ job[j].kind = "generate" /\ job[j].state = "completed"
                    => wrote[j] = "result"

(* A generation job that has failed has told its schedule so ("Update
   schedule status to indicate failure"), at least if no process and no call
   of the handler failed. *)
FailureIsIndicated ==
  \A j \in Jobs : Queued(j) /\ job[j].kind = "generate" /\ job[j].state = "failed"
                    /\ LiveSchedule(job[j].schedule) => wrote[j] = "error"

(* Users cancel, confirm and complete sessions and leave them in their place. *)
UpdatesMoveNothing ==
  \A c \in SessionChanges : c.teacher = Keep /\ c.room = Keep /\ c.slot = Keep

(* Optimisation writes sessions one by one, from rows read long before, beside
   the users who book, cancel and delete: it moves and revives none. *)
OptimizeMovesNothing ==
  [][\A r \in Runners : handler[r] # Free /\ req[r].at = "sessionWrite"
       /\ req'[r] = Idle => session' = session]_genVars

(* Every queued job ends: it completes, fails for good or is cancelled. *)
JobsEnd == \A j \in Jobs : Queued(j) ~> Ended(j)
=============================================================================
