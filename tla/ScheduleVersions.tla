-------------------------- MODULE ScheduleVersions --------------------------
(***************************************************************************)
(* ScheduleVersioningService (src/backend/src/scheduling/services/         *)
(* schedule-versioning.service.ts) on one schedule: snapshots of the       *)
(* schedule, their activation, rollback and deletion.                      *)
(*                                                                         *)
(* What a version copies from the schedule and puts back (the sessions,    *)
(* the conflicts, the status, the score and the conflict count) is one     *)
(* abstract `content`.  An awaited Prisma call is atomic; so is each       *)
(* $transaction, since updateMany locks every version of the schedule      *)
(* before the rest of the transaction of activateVersion runs.  The reads  *)
(* that precede a transaction are outside it.                              *)
(***************************************************************************)
EXTENDS Integers

CONSTANTS
  Versions,        \* identifiers of version rows (cuids, never reused)
  Contents,        \* the states of the timetable that versions tell apart
  Workers,
  Serves,          \* Serves[w]: the methods worker w may execute
  Unused, Gone

Methods == {"edit", "createVersion", "activateVersion", "rollback", "deleteVersion"}

Number == Nat \ {0}

VersionRow == [number : Number, content : Contents, isActive : BOOLEAN]

ASSUME SentinelAssumption ==
  /\ Unused # Gone
  /\ Unused \notin VersionRow /\ Gone \notin VersionRow

ASSUME ServesAssumption == Serves \in [Workers -> SUBSET Methods]

VARIABLES
  content,    \* the schedule as it is worked on
  current,    \* schedule.version, the number of the version it was set to
  version,    \* version[i]: the row of version i
  req         \* req[w]: the request of w and the call it makes next

vars == <<content, current, version, req>>

Live(i)       == version[i] \notin {Unused, Gone}
LiveVersions  == {i \in Versions : Live(i)}
Numbered(n)   == {i \in LiveVersions : version[i].number = n}

Idle == [at |-> "idle"]

(* `target` is the number a rollback goes back to, 0 outside a rollback;
   `copy` is what a request read before its transaction. *)
Target == Nat

Request ==
  [at : {"idle"}]
  \cup [at : {"readSchedule", "rollbackBackup", "activateRead"}, target : Target]
  \cup [at : {"readLatest"}, target : Target, copy : Contents]
  \cup [at : {"createTx"}, target : Target, copy : Contents, number : Number]
  \cup [at : {"activateTx"}, target : Target, id : Versions, copy : VersionRow]
  \cup [at : {"deleteTx"}, id : Versions]

TypeOK ==
  /\ content \in Contents
  /\ current \in Number
  /\ version \in [Versions -> VersionRow \cup {Unused, Gone}]
  /\ req \in [Workers -> Request]

(* ScheduleService.create stores version 1 and makes no version row. *)
Init ==
  /\ content \in Contents
  /\ current = 1
  /\ version = [i \in Versions |-> Unused]
  /\ req = [w \in Workers |-> Idle]

Accepts(w, method) == req[w] = Idle /\ method \in Serves[w]
Continue(w, next)  == req' = [req EXCEPT ![w] = next]
Done(w)            == Continue(w, Idle)

(* ScheduleService and the queue's jobs change the schedule itself. *)
Edit(w) ==
  /\ Accepts(w, "edit")
  /\ content' \in Contents \ {content}
  /\ UNCHANGED <<current, version, req>>

-----------------------------------------------------------------------------
(* createVersion: two reads, then the transaction that inserts the copy. A
   rollback goes through the same steps with its target. *)

Snapshot(w, target) ==
  /\ Continue(w, [at |-> "readLatest", target |-> target, copy |-> content])
  /\ UNCHANGED <<content, current, version>>

CreateVersionRead(w) == Accepts(w, "createVersion") /\ Snapshot(w, 0)
BackupRead(w)        == req[w].at = "rollbackBackup" /\ Snapshot(w, req[w].target)

(* Mutant: the latest number, not its successor. *)
SameNumber(latest) == latest
NextNumber(latest) == latest + 1

ReadLatest(w) ==
  /\ req[w].at = "readLatest"
  /\ \E latest \in {0} \cup {version[i].number : i \in LiveVersions} :
       /\ \A i \in LiveVersions : version[i].number <= latest
       /\ Continue(w, [at |-> "createTx", target |-> req[w].target, copy |-> req[w].copy,
                       number |-> NextNumber(latest)])
  /\ UNCHANGED <<content, current, version>>

(* A rollback goes on to activateVersion. *)
AfterCreate(w) ==
  IF req[w].target = 0 THEN Done(w)
  ELSE Continue(w, [at |-> "activateRead", target |-> req[w].target])

CreateTx(w) ==
  /\ req[w].at = "createTx"
  /\ Numbered(req[w].number) = {}
  /\ \E i \in Versions :
       /\ version[i] = Unused
       /\ version' = [version EXCEPT ![i] =
            [number |-> req[w].number, content |-> req[w].copy, isActive |-> FALSE]]
  /\ AfterCreate(w)
  /\ UNCHANGED <<content, current>>

(* The number was taken meanwhile: @@unique([scheduleId, version]) fails the
   transaction, and with it the rollback it was part of. *)
NumberTaken(w) ==
  /\ req[w].at = "createTx"
  /\ Numbered(req[w].number) # {}
  /\ Done(w)
  /\ UNCHANGED <<content, current, version>>

(* activateVersion: read the version, then the transaction. *)

Fetch(w, i, target) ==
  /\ Live(i)
  /\ Continue(w, [at |-> "activateTx", target |-> target, id |-> i, copy |-> version[i]])
  /\ UNCHANGED <<content, current, version>>

ActivateVersionRead(w, i) == Accepts(w, "activateVersion") /\ Fetch(w, i, 0)

RollbackFetch(w, i) ==
  /\ req[w].at = "activateRead"
  /\ i \in Numbered(req[w].target)
  /\ Fetch(w, i, req[w].target)

(* Mutant: the version active so far is not deactivated. *)
OnlyActivateTarget(id) ==
  [i \in Versions |-> IF Live(i) /\ i = id THEN [version[i] EXCEPT !.isActive = TRUE]
                      ELSE version[i]]

(* updateMany deactivates all versions, then update activates the target. *)
Activated(id) ==
  [i \in Versions |-> IF Live(i) THEN [version[i] EXCEPT !.isActive = (i = id)]
                      ELSE version[i]]

ActivateTx(w) ==
  /\ req[w].at = "activateTx"
  /\ Live(req[w].id)
  /\ version' = Activated(req[w].id)
  /\ content' = req[w].copy.content
  /\ current' = req[w].copy.number
  /\ Done(w)

(* rollback: the target exists, the schedule is not at it; then createVersion
   and activateVersion. *)

RollbackRead(w, i) ==
  /\ Accepts(w, "rollback")
  /\ Live(i)
  /\ Continue(w, [at |-> "readSchedule", target |-> version[i].number])
  /\ UNCHANGED <<content, current, version>>

(* Mutant: no backup is taken. *)
RollbackCheckNoBackup(w) ==
  /\ req[w].at = "readSchedule"
  /\ current # req[w].target
  /\ Continue(w, [at |-> "activateRead", target |-> req[w].target])
  /\ UNCHANGED <<content, current, version>>

RollbackCheck(w) ==
  /\ req[w].at = "readSchedule"
  /\ current # req[w].target
  /\ Continue(w, [at |-> "rollbackBackup", target |-> req[w].target])
  /\ UNCHANGED <<content, current, version>>

(* "Schedule is already at version n" *)
AlreadyAtVersion(w) ==
  /\ req[w].at = "readSchedule"
  /\ current = req[w].target
  /\ Done(w)
  /\ UNCHANGED <<content, current, version>>

(* The version to activate was deleted meanwhile. *)
VersionNotFound(w) ==
  /\ \/ req[w].at = "activateRead" /\ Numbered(req[w].target) = {}
     \/ req[w].at \in {"activateTx", "deleteTx"} /\ ~ Live(req[w].id)
  /\ Done(w)
  /\ UNCHANGED <<content, current, version>>

(* deleteVersion: the check is outside the transaction. *)

(* Mutant: isActive is not looked at. *)
DeleteVersionReadAny(w, i) ==
  /\ Accepts(w, "deleteVersion")
  /\ Live(i)
  /\ Continue(w, [at |-> "deleteTx", id |-> i])
  /\ UNCHANGED <<content, current, version>>

DeleteVersionRead(w, i) ==
  /\ Accepts(w, "deleteVersion")
  /\ Live(i)
  /\ ~ version[i].isActive
  /\ Continue(w, [at |-> "deleteTx", id |-> i])
  /\ UNCHANGED <<content, current, version>>

DeleteTx(w) ==
  /\ req[w].at = "deleteTx"
  /\ Live(req[w].id)
  /\ version' = [version EXCEPT ![req[w].id] = Gone]
  /\ Done(w)
  /\ UNCHANGED <<content, current>>

(* The process or its connection is lost between two calls; a transaction
   that is not committed leaves nothing. *)
Abort(w) ==
  /\ req[w] # Idle
  /\ Done(w)
  /\ UNCHANGED <<content, current, version>>

Step(w) ==
  \/ Edit(w)
  \/ CreateVersionRead(w)
  \/ BackupRead(w)
  \/ ReadLatest(w)
  \/ CreateTx(w)
  \/ NumberTaken(w)
  \/ \E i \in Versions : ActivateVersionRead(w, i)
  \/ \E i \in Versions : RollbackFetch(w, i)
  \/ ActivateTx(w)
  \/ \E i \in Versions : RollbackRead(w, i)
  \/ RollbackCheck(w)
  \/ AlreadyAtVersion(w)
  \/ VersionNotFound(w)
  \/ \E i \in Versions : DeleteVersionRead(w, i)
  \/ DeleteTx(w)
  \/ Abort(w)

Next == \E w \in Workers : Step(w)

Spec == Init /\ [][Next]_vars

-----------------------------------------------------------------------------
(* The active version is the one schedule.version names, and so there is at
   most one: activateVersion changes the three tables in one transaction,
   from a copy that may be stale. *)
ActiveVersionIsCurrent ==
  /\ \A i \in LiveVersions : version[i].isActive => version[i].number = current
  /\ \A i, j \in LiveVersions : version[i].number = version[j].number => i = j

(* What the two action properties of the run say of one step. *)
KeepsActive == \A i \in Versions : Live(i) /\ version[i].isActive => Live(i)'

KeepsWork ==
  \A w \in Workers :
    req[w].at = "activateTx" /\ req[w].target # 0 /\ content' # content =>
      \E i \in LiveVersions : version[i].content = content
=============================================================================
