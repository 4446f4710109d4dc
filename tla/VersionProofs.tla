--------------------------- MODULE VersionProofs ---------------------------
(***************************************************************************)
(* Theorems about ScheduleVersions, for every choice of its constants, and *)
(* about its behaviours with one administrator (MCScheduleVersions), for   *)
(* any number of workers that take versions beside it.                     *)
(***************************************************************************)
EXTENDS MCScheduleVersions, TLAPS

(* What a request carries, by the call it makes next. *)
LEMMA RequestFields ==
  ASSUME NEW r \in Request
  PROVE  /\ r.at \in {"readSchedule", "rollbackBackup", "activateRead", "readLatest",
                      "createTx", "activateTx"} => r.target \in Nat
         /\ r.at \in {"readLatest", "createTx"} => r.copy \in Contents
         /\ r.at = "createTx" => r.number \in Number
         /\ r.at = "activateTx" => r.id \in Versions /\ r.copy \in VersionRow
         /\ r.at = "deleteTx" => r.id \in Versions
BY DEF Request, Target

LEMMA LiveRow ==
  ASSUME TypeOK, NEW i \in Versions, Live(i)
  PROVE  version[i] \in VersionRow
BY DEF TypeOK, Live

(***************************************************************************)
(* Type correctness                                                        *)
(***************************************************************************)

LEMMA ActivatedType ==
  ASSUME TypeOK, NEW id \in Versions
  PROVE  Activated(id) \in [Versions -> VersionRow \cup {Unused, Gone}]
<1>1. ASSUME NEW i \in Versions, Live(i)
      PROVE  [version[i] EXCEPT !.isActive = (i = id)] \in VersionRow
  BY <1>1, LiveRow DEF VersionRow
<1> QED
  BY <1>1 DEF Activated, TypeOK

LEMMA StepType ==
  ASSUME TypeOK, NEW w \in Workers, Step(w)
  PROVE  TypeOK'
<1>0. req[w] \in Request /\ req \in [Workers -> Request]
  BY DEF TypeOK
<1>1. CASE Edit(w)
  BY <1>1 DEF Edit, TypeOK
<1>2. CASE CreateVersionRead(w)
  BY <1>2 DEF CreateVersionRead, Snapshot, Continue, TypeOK, Request, Target
<1>3. CASE BackupRead(w)
  <2>1. req[w].target \in Nat
    BY <1>0, <1>3, RequestFields DEF BackupRead
  <2> QED
    BY <1>3, <2>1 DEF BackupRead, Snapshot, Continue, TypeOK, Request, Target
<1>4. CASE ReadLatest(w)
  <2>1. req[w].target \in Nat /\ req[w].copy \in Contents
    BY <1>0, <1>4, RequestFields DEF ReadLatest
  <2>2. PICK latest \in {0} \cup {version[i].number : i \in LiveVersions} :
          Continue(w, [at |-> "createTx", target |-> req[w].target, copy |-> req[w].copy,
                       number |-> NextNumber(latest)])
    BY <1>4 DEF ReadLatest
  <2>3. latest \in Nat
    BY <2>2, LiveRow DEF LiveVersions, VersionRow, Number
  <2>4. NextNumber(latest) \in Number
    BY <2>3 DEF NextNumber, Number
  <2>5. req' \in [Workers -> Request]
    BY <1>0, <2>1, <2>2, <2>4 DEF Continue, Request, Target
  <2> QED
    BY <1>4, <2>5 DEF ReadLatest, TypeOK
<1>5. CASE CreateTx(w)
  <2>1. req[w].target \in Nat /\ req[w].copy \in Contents /\ req[w].number \in Number
    BY <1>0, <1>5, RequestFields DEF CreateTx
  <2>2. version' \in [Versions -> VersionRow \cup {Unused, Gone}]
    BY <1>5, <2>1 DEF CreateTx, VersionRow, TypeOK
  <2>3. req' \in [Workers -> Request]
    BY <1>0, <1>5, <2>1 DEF CreateTx, AfterCreate, Done, Continue, Idle, Request, Target
  <2> QED
    BY <1>5, <2>2, <2>3 DEF CreateTx, TypeOK
<1>6. CASE NumberTaken(w)
  BY <1>0, <1>6 DEF NumberTaken, Done, Continue, Idle, Request, TypeOK
<1>7. CASE \E i \in Versions : ActivateVersionRead(w, i)
  <2>1. PICK i \in Versions : ActivateVersionRead(w, i)
    BY <1>7
  <2>2. version[i] \in VersionRow
    BY <2>1, LiveRow DEF ActivateVersionRead, Fetch
  <2> QED
    BY <1>0, <2>1, <2>2 DEF ActivateVersionRead, Fetch, Continue, TypeOK, Request, Target
<1>8. CASE \E i \in Versions : RollbackFetch(w, i)
  <2>1. PICK i \in Versions : RollbackFetch(w, i)
    BY <1>8
  <2>2. version[i] \in VersionRow
    BY <2>1, LiveRow DEF RollbackFetch, Fetch
  <2>3. req[w].target \in Nat
    BY <1>0, <2>1, RequestFields DEF RollbackFetch
  <2> QED
    BY <1>0, <2>1, <2>2, <2>3 DEF RollbackFetch, Fetch, Continue, TypeOK, Request, Target
<1>9. CASE ActivateTx(w)
  <2>1. req[w].id \in Versions /\ req[w].copy \in VersionRow
    BY <1>0, <1>9, RequestFields DEF ActivateTx
  <2>2. version' \in [Versions -> VersionRow \cup {Unused, Gone}]
    BY <1>9, <2>1, ActivatedType DEF ActivateTx
  <2>3. content' \in Contents /\ current' \in Number
    BY <1>9, <2>1 DEF ActivateTx, VersionRow
  <2> QED
    BY <1>0, <1>9, <2>2, <2>3 DEF ActivateTx, Done, Continue, Idle, Request, TypeOK
<1>10. CASE \E i \in Versions : RollbackRead(w, i)
  <2>1. PICK i \in Versions : RollbackRead(w, i)
    BY <1>10
  <2>2. version[i].number \in Nat
    BY <2>1, LiveRow DEF RollbackRead, VersionRow, Number
  <2> QED
    BY <1>0, <2>1, <2>2 DEF RollbackRead, Continue, TypeOK, Request, Target
<1>11. CASE RollbackCheck(w)
  <2>1. req[w].target \in Nat
    BY <1>0, <1>11, RequestFields DEF RollbackCheck
  <2> QED
    BY <1>0, <1>11, <2>1 DEF RollbackCheck, Continue, TypeOK, Request, Target
<1>12. CASE AlreadyAtVersion(w)
  BY <1>0, <1>12 DEF AlreadyAtVersion, Done, Continue, Idle, Request, TypeOK
<1>13. CASE VersionNotFound(w)
  BY <1>0, <1>13 DEF VersionNotFound, Done, Continue, Idle, Request, TypeOK
<1>14. CASE \E i \in Versions : DeleteVersionRead(w, i)
  BY <1>0, <1>14 DEF DeleteVersionRead, Continue, TypeOK, Request
<1>15. CASE DeleteTx(w)
  BY <1>0, <1>15 DEF DeleteTx, Done, Continue, Idle, Request, TypeOK
<1>16. CASE Abort(w)
  BY <1>0, <1>16 DEF Abort, Done, Continue, Idle, Request, TypeOK
<1> QED
  BY <1>1, <1>2, <1>3, <1>4, <1>5, <1>6, <1>7, <1>8, <1>9, <1>10, <1>11, <1>12, <1>13,
     <1>14, <1>15, <1>16 DEF Step

LEMMA InitType ==
  ASSUME Init
  PROVE  TypeOK
BY DEF Init, TypeOK, Number, Idle, Request

(* Every value the requests put in the tables and in their local state has its
   type. *)
THEOREM VersionsTypeCorrect == Spec => []TypeOK
<1>1. TypeOK /\ [Next]_vars => TypeOK'
  <2> SUFFICES ASSUME TypeOK, [Next]_vars
               PROVE  TypeOK'
    OBVIOUS
  <2>1. CASE Next
    BY <2>1, StepType DEF Next
  <2>2. CASE UNCHANGED vars
    BY <2>2 DEF vars, TypeOK
  <2> QED
    BY <2>1, <2>2
<1> QED
  BY InitType, <1>1, PTL DEF Spec

(***************************************************************************)
(* The active version                                                      *)
(***************************************************************************)

(* The copy an activation works from may be stale, but not its number: the
   identifier it holds had a row, and numbers of rows do not change. *)
CopyNumber ==
  \A w \in Workers :
    req[w].at = "activateTx" =>
      /\ version[req[w].id] # Unused
      /\ Live(req[w].id) => version[req[w].id].number = req[w].copy.number

ActiveInv == TypeOK /\ ActiveVersionIsCurrent /\ CopyNumber

(* The three ways in which a step leaves the rows of versions. *)

LEMMA RowsKept ==
  ASSUME ActiveInv, NEW w \in Workers, TypeOK', UNCHANGED <<current, version>>,
         \A v \in Workers : req'[v].at = "activateTx" =>
           \/ req'[v] = req[v]
           \/ Live(req'[v].id) /\ req'[v].copy = version[req'[v].id]
  PROVE  ActiveInv'
<1>1. ActiveVersionIsCurrent'
  BY DEF ActiveInv, ActiveVersionIsCurrent, LiveVersions, Live
<1>2. CopyNumber'
  BY DEF ActiveInv, CopyNumber, Live
<1> QED
  BY <1>1, <1>2 DEF ActiveInv

LEMMA RowAdded ==
  ASSUME ActiveInv, NEW w \in Workers, TypeOK', CreateTx(w)
  PROVE  ActiveInv'
<1>0. req[w].number \in Number /\ req[w].copy \in Contents
  BY RequestFields DEF ActiveInv, TypeOK, CreateTx
<1>1. PICK i \in Versions :
        /\ version[i] = Unused
        /\ version' = [version EXCEPT ![i] =
             [number |-> req[w].number, content |-> req[w].copy, isActive |-> FALSE]]
  BY DEF CreateTx
<1>2. /\ version'[i] = [number |-> req[w].number, content |-> req[w].copy, isActive |-> FALSE]
      /\ \A j \in Versions \ {i} : version'[j] = version[j]
  BY <1>1 DEF ActiveInv, TypeOK
<1>3. \A j \in LiveVersions' \ {i} : j \in LiveVersions /\ version'[j].number # req[w].number
  BY <1>2 DEF LiveVersions, Live, CreateTx, Numbered
<1>4. ActiveVersionIsCurrent'
  BY <1>2, <1>3 DEF ActiveInv, ActiveVersionIsCurrent, LiveVersions, CreateTx
<1>5. \A v \in Workers : req'[v].at = "activateTx" => req'[v] = req[v]
  BY DEF ActiveInv, TypeOK, CreateTx, AfterCreate, Done, Continue, Idle
<1>6. \A v \in Workers : req[v].at = "activateTx" => req[v].id # i /\ req[v].id \in Versions
  BY <1>1, RequestFields DEF ActiveInv, TypeOK, CopyNumber
<1>7. version'[i] # Unused
  <2>1. version'[i] \in VersionRow
    BY <1>0, <1>2 DEF VersionRow
  <2> QED
    BY <2>1, SentinelAssumption
<1>8. CopyNumber'
  BY <1>2, <1>5, <1>6 DEF ActiveInv, CopyNumber, Live
<1> QED
  BY <1>4, <1>8 DEF ActiveInv

LEMMA RowActivated ==
  ASSUME ActiveInv, NEW w \in Workers, TypeOK', ActivateTx(w)
  PROVE  ActiveInv'
<1>0. req[w].id \in Versions /\ req[w].copy \in VersionRow
  BY RequestFields DEF ActiveInv, TypeOK, ActivateTx
<1>1. \A i \in Versions :
        IF Live(i) THEN version'[i] = [version[i] EXCEPT !.isActive = (i = req[w].id)]
                   ELSE version'[i] = version[i]
  BY DEF ActivateTx, Activated
<1>2. ASSUME NEW i \in Versions, Live(i)
      PROVE  /\ version'[i].number = version[i].number
             /\ version'[i].isActive <=> i = req[w].id
             /\ version'[i] \in VersionRow
  <2>1. version[i] \in VersionRow
    BY <1>2, LiveRow DEF ActiveInv
  <2>2. version'[i] = [version[i] EXCEPT !.isActive = (i = req[w].id)]
    BY <1>1, <1>2
  <2> QED
    BY <2>1, <2>2 DEF VersionRow
<1>3. \A i \in Versions : Live(i)' <=> Live(i)
  BY <1>1, <1>2, SentinelAssumption DEF Live
<1>4. version[req[w].id].number = req[w].copy.number /\ current' = req[w].copy.number
  BY DEF ActivateTx, ActiveInv, CopyNumber
<1>5. ActiveVersionIsCurrent'
  BY <1>0, <1>2, <1>3, <1>4 DEF ActiveInv, ActiveVersionIsCurrent, LiveVersions
<1>6. \A v \in Workers : req'[v].at = "activateTx" => req'[v] = req[v] /\ req[v].id \in Versions
  BY RequestFields DEF ActiveInv, TypeOK, ActivateTx, Done, Continue, Idle
<1>7. \A i \in Versions : version[i] # Unused => version'[i] # Unused
  BY <1>1, <1>2, SentinelAssumption DEF Live
<1>8. CopyNumber'
  BY <1>2, <1>3, <1>6, <1>7 DEF ActiveInv, CopyNumber
<1> QED
  BY <1>5, <1>8 DEF ActiveInv

LEMMA RowDeleted ==
  ASSUME ActiveInv, NEW w \in Workers, TypeOK', DeleteTx(w)
  PROVE  ActiveInv'
<1>0. req[w].id \in Versions
  BY RequestFields DEF ActiveInv, TypeOK, DeleteTx
<1>1. /\ version'[req[w].id] = Gone
      /\ \A i \in Versions \ {req[w].id} : version'[i] = version[i]
  BY <1>0 DEF DeleteTx, ActiveInv, TypeOK
<1>2. \A i \in LiveVersions' : i \in LiveVersions /\ version'[i] = version[i]
  BY <1>1 DEF LiveVersions, Live
<1>3. ActiveVersionIsCurrent'
  BY <1>2 DEF ActiveInv, ActiveVersionIsCurrent, DeleteTx
<1>4. \A v \in Workers : req'[v].at = "activateTx" => req'[v] = req[v] /\ req[v].id \in Versions
  BY RequestFields DEF ActiveInv, TypeOK, DeleteTx, Done, Continue, Idle
<1>5. CopyNumber'
  BY <1>1, <1>4, SentinelAssumption DEF ActiveInv, CopyNumber, Live
<1> QED
  BY <1>3, <1>5 DEF ActiveInv

LEMMA ActiveStep ==
  ASSUME ActiveInv, NEW w \in Workers, Step(w)
  PROVE  ActiveInv'
<1>0. TypeOK' /\ req \in [Workers -> Request]
  BY StepType DEF ActiveInv, TypeOK
<1>1. CASE CreateTx(w)
  BY <1>0, <1>1, RowAdded
<1>2. CASE ActivateTx(w)
  BY <1>0, <1>2, RowActivated
<1>3. CASE DeleteTx(w)
  BY <1>0, <1>3, RowDeleted
<1>4. CASE \E i \in Versions : ActivateVersionRead(w, i) \/ RollbackFetch(w, i)
  <2>1. PICK i \in Versions : Live(i) /\ \E t : Fetch(w, i, t)
    BY <1>4 DEF ActivateVersionRead, RollbackFetch, Fetch
  <2>2. UNCHANGED <<current, version>>
    BY <2>1 DEF Fetch
  <2>3. \A v \in Workers : \/ req'[v] = req[v]
                           \/ req'[v].id = i /\ req'[v].copy = version[i]
    BY <1>0, <2>1 DEF Fetch, Continue
  <2> QED
    BY <1>0, <2>1, <2>2, <2>3, RowsKept
<1>5. CASE \/ Edit(w) \/ CreateVersionRead(w) \/ BackupRead(w) \/ ReadLatest(w)
           \/ NumberTaken(w) \/ (\E i \in Versions : RollbackRead(w, i)) \/ RollbackCheck(w)
           \/ AlreadyAtVersion(w) \/ VersionNotFound(w)
           \/ (\E i \in Versions : DeleteVersionRead(w, i)) \/ Abort(w)
  <2>1. UNCHANGED <<current, version>>
    BY <1>5 DEF Edit, CreateVersionRead, BackupRead, Snapshot, ReadLatest, NumberTaken,
      RollbackRead, RollbackCheck, AlreadyAtVersion, VersionNotFound, DeleteVersionRead, Abort
  <2>2. \A v \in Workers : req'[v].at = "activateTx" => req'[v] = req[v]
    BY <1>0, <1>5 DEF Edit, CreateVersionRead, BackupRead, Snapshot, ReadLatest, NumberTaken,
      RollbackRead, RollbackCheck, AlreadyAtVersion, VersionNotFound, DeleteVersionRead, Abort,
      Done, Continue, Idle
  <2> QED
    BY <1>0, <2>1, <2>2, RowsKept
<1> QED
  BY <1>1, <1>2, <1>3, <1>4, <1>5 DEF Step

LEMMA ActiveInductive ==
  ASSUME ActiveInv, [Next]_vars
  PROVE  ActiveInv'
<1>1. CASE Next
  BY <1>1, ActiveStep DEF Next
<1>2. CASE UNCHANGED vars
  BY <1>2 DEF vars, ActiveInv, TypeOK, ActiveVersionIsCurrent, LiveVersions, Live, CopyNumber
<1> QED
  BY <1>1, <1>2

LEMMA InitActive ==
  ASSUME Init
  PROVE  ActiveInv
<1>1. TypeOK
  BY InitType
<1>2. LiveVersions = {} /\ \A w \in Workers : req[w].at = "idle"
  BY DEF Init, LiveVersions, Live, Idle
<1> QED
  BY <1>1, <1>2 DEF ActiveInv, ActiveVersionIsCurrent, CopyNumber

(* The active version is the one schedule.version names, and no two versions
   have one number, however requests overlap and wherever they are cut short. *)
THEOREM ActiveIsCurrent == Spec => []ActiveVersionIsCurrent
<1>1. Init => ActiveInv
  BY InitActive
<1>2. ActiveInv /\ [Next]_vars => ActiveInv'
  BY ActiveInductive
<1>3. ActiveInv => ActiveVersionIsCurrent
  BY DEF ActiveInv
<1> QED
  BY <1>1, <1>2, <1>3, PTL DEF Spec

(***************************************************************************)
(* One administrator                                                       *)
(*                                                                         *)
(* While only w1 edits, activates, rolls back and deletes, what it read    *)
(* before its transaction is still so: the others add rows and nothing     *)
(* else.                                                                   *)
(***************************************************************************)

(* A version holds the schedule as it is. *)
Held == \E i \in LiveVersions : version[i].content = content

(* What the request of one worker may rely on. *)
Fits(w) ==
  /\ w # w1 => \/ req[w].at = "idle"
               \/ req[w].at \in {"readLatest", "createTx"} /\ req[w].target = 0
  /\ req[w].at = "deleteTx" /\ Live(req[w].id) => ~ version[req[w].id].isActive
  /\ req[w].at \in {"readLatest", "createTx"} /\ req[w].target # 0 => req[w].copy = content
  /\ req[w].at = "activateRead" => Held
  /\ req[w].at = "activateTx" /\ req[w].target # 0 => Held

LaneInv == TypeOK /\ (lanes => \A w \in Workers : Fits(w))

(* What a worker other than the administrator may begin. *)
Starts(w) == w = w1 \/ req[w] # Idle \/ CreateVersionRead(w)

LEMMA IdleRequest ==
  ASSUME NEW r \in Request, r.at = "idle"
  PROVE  r = Idle
BY DEF Request, Idle, Target

LEMMA OwnRequest ==
  ASSUME TypeOK, NEW w \in Workers, Step(w)
  PROVE  \A v \in Workers \ {w} : req'[v] = req[v]
BY DEF TypeOK, Step, Edit, CreateVersionRead, BackupRead, Snapshot, ReadLatest, CreateTx,
  AfterCreate, NumberTaken, ActivateVersionRead, RollbackFetch, Fetch, ActivateTx,
  RollbackRead, RollbackCheck, AlreadyAtVersion, VersionNotFound, DeleteVersionRead,
  DeleteTx, Abort, Continue, Done

(* The other workers only take versions. *)
LEMMA OtherWorkers ==
  ASSUME TypeOK, NEW w \in Workers, w # w1, Fits(w), Starts(w), Step(w)
  PROVE  \/ /\ CreateVersionRead(w) \/ ReadLatest(w) \/ NumberTaken(w) \/ Abort(w)
            /\ UNCHANGED <<content, current, version>>
         \/ CreateTx(w)
<1>0. req[w] \in Request
  BY DEF TypeOK
<1>1. req[w].at = "idle" => req[w] = Idle
  BY <1>0, IdleRequest
<1>2. CASE CreateVersionRead(w)
  BY <1>2 DEF CreateVersionRead, Snapshot
<1>3. CASE ~ CreateVersionRead(w)
  <2>1. req[w] # Idle /\ req[w].at \in {"readLatest", "createTx"}
    BY <1>1, <1>3 DEF Fits, Starts
  <2>2. ReadLatest(w) \/ CreateTx(w) \/ NumberTaken(w) \/ Abort(w)
    BY <2>1 DEF Step, Edit, CreateVersionRead, BackupRead, ActivateVersionRead, RollbackFetch,
      ActivateTx, RollbackRead, RollbackCheck, AlreadyAtVersion, VersionNotFound,
      DeleteVersionRead, DeleteTx, Accepts
  <2> QED
    BY <2>2 DEF ReadLatest, NumberTaken, Abort
<1> QED
  BY <1>2, <1>3

(* The row a copy becomes. *)
LEMMA NewRow ==
  ASSUME TypeOK, NEW w \in Workers, CreateTx(w)
  PROVE  \E i \in Versions :
           /\ version[i] = Unused
           /\ i \in LiveVersions'
           /\ version'[i].content = req[w].copy
           /\ ~ version'[i].isActive
           /\ \A j \in Versions \ {i} : version'[j] = version[j]
<1>0. req[w].number \in Number /\ req[w].copy \in Contents
  BY RequestFields DEF TypeOK, CreateTx
<1>1. PICK i \in Versions :
        /\ version[i] = Unused
        /\ version' = [version EXCEPT ![i] =
             [number |-> req[w].number, content |-> req[w].copy, isActive |-> FALSE]]
  BY DEF CreateTx
<1>2. /\ version'[i] = [number |-> req[w].number, content |-> req[w].copy, isActive |-> FALSE]
      /\ \A j \in Versions \ {i} : version'[j] = version[j]
  BY <1>1 DEF TypeOK
<1>3. version'[i] \in VersionRow
  BY <1>0, <1>2 DEF VersionRow
<1>4. i \in LiveVersions'
  BY <1>3, SentinelAssumption DEF LiveVersions, Live
<1> QED
  BY <1>1, <1>2, <1>4

LEMMA HeldOn ==
  ASSUME TypeOK, Held, NEW w \in Workers, CreateTx(w)
  PROVE  Held'
<1>1. PICK i \in Versions :
        version[i] = Unused /\ \A j \in Versions \ {i} : version'[j] = version[j]
  BY NewRow
<1>2. PICK j \in LiveVersions : version[j].content = content
  BY DEF Held
<1>3. j \in LiveVersions' /\ version'[j] = version[j]
  BY <1>1, <1>2 DEF LiveVersions, Live
<1> QED
  BY <1>2, <1>3 DEF Held, CreateTx

(* A step leaves the other requests what they rely on. *)
LEMMA OthersFit ==
  ASSUME TypeOK, NEW w \in Workers, Step(w), Starts(w), Fits(w),
         NEW v \in Workers \ {w}, Fits(v)
  PROVE  Fits(v)'
<1>0. req'[v] = req[v] /\ req[v] \in Request
  BY OwnRequest DEF TypeOK
<1>1. CASE UNCHANGED <<content, version>>
  BY <1>0, <1>1 DEF Fits, Held, LiveVersions, Live
<1>2. CASE CreateTx(w)
  <2>1. PICK i \in Versions :
          /\ ~ version'[i].isActive
          /\ \A j \in Versions \ {i} : version'[j] = version[j]
    BY <1>2, NewRow
  <2>2. req[v].at = "deleteTx" => req[v].id \in Versions
    BY <1>0, RequestFields
  <2>3. req[v].at = "deleteTx" /\ Live(req[v].id)' => ~ version'[req[v].id].isActive
    BY <1>0, <2>1, <2>2 DEF Fits, Live
  <2>4. Held => Held'
    BY <1>2, HeldOn
  <2>5. content' = content
    BY <1>2 DEF CreateTx
  <2> QED
    BY <1>0, <2>3, <2>4, <2>5 DEF Fits
<1>3. CASE w = w1
  <2>1. \/ req[v].at = "idle"
        \/ req[v].at \in {"readLatest", "createTx"} /\ req[v].target = 0
    BY <1>3 DEF Fits
  <2> QED
    BY <1>0, <2>1 DEF Fits
<1> QED
  BY <1>1, <1>2, <1>3, OtherWorkers

(* A step leaves its own request what it relies on from then on. *)
LEMMA OneFits ==
  ASSUME TypeOK, NEW w \in Workers, Step(w), Starts(w), Fits(w)
  PROVE  Fits(w)'
<1>0. req \in [Workers -> Request] /\ req[w] \in Request
  BY DEF TypeOK
<1>1. CASE req'[w] = Idle
  BY <1>1 DEF Fits, Idle
<1>2. CASE Edit(w)
  <2>1. req[w] = Idle /\ req' = req
    BY <1>2 DEF Edit, Accepts
  <2> QED
    BY <2>1 DEF Fits, Idle
<1>3. CASE CreateVersionRead(w)
  <2>1. /\ req'[w] = [at |-> "readLatest", target |-> 0, copy |-> content]
        /\ content' = content
    BY <1>0, <1>3 DEF CreateVersionRead, Snapshot, Continue
  <2> QED
    BY <2>1 DEF Fits
<1>4. CASE BackupRead(w)
  <2>1. /\ req'[w] = [at |-> "readLatest", target |-> req[w].target, copy |-> content]
        /\ content' = content
    BY <1>0, <1>4 DEF BackupRead, Snapshot, Continue
  <2>2. w = w1
    BY <1>4 DEF BackupRead, Fits
  <2> QED
    BY <2>1, <2>2 DEF Fits
<1>5. CASE ReadLatest(w)
  <2>1. \E n : req'[w] = [at |-> "createTx", target |-> req[w].target,
                          copy |-> req[w].copy, number |-> n]
    BY <1>0, <1>5 DEF ReadLatest, Continue
  <2>2. content' = content /\ req[w].at = "readLatest"
    BY <1>5 DEF ReadLatest
  <2> QED
    BY <2>1, <2>2 DEF Fits
<1>6. CASE CreateTx(w) /\ req[w].target # 0
  <2>1. req'[w] = [at |-> "activateRead", target |-> req[w].target]
    BY <1>0, <1>6 DEF CreateTx, AfterCreate, Continue
  <2>2. PICK i \in Versions : i \in LiveVersions' /\ version'[i].content = req[w].copy
    BY <1>6, NewRow
  <2>3. req[w].copy = content /\ content' = content /\ w = w1
    BY <1>6 DEF CreateTx, Fits
  <2>4. Held'
    BY <2>2, <2>3 DEF Held
  <2> QED
    BY <2>1, <2>3, <2>4 DEF Fits
<1>7. CASE \E i \in Versions : ActivateVersionRead(w, i)
  <2>1. req'[w].at = "activateTx" /\ req'[w].target = 0 /\ w = w1
    BY <1>0, <1>7 DEF ActivateVersionRead, Fetch, Continue, Accepts, Starts,
      CreateVersionRead, Snapshot
  <2> QED
    BY <2>1 DEF Fits
<1>8. CASE \E i \in Versions : RollbackFetch(w, i)
  <2>1. req'[w].at = "activateTx" /\ UNCHANGED <<content, version>>
    BY <1>0, <1>8 DEF RollbackFetch, Fetch, Continue
  <2>2. w = w1 /\ Held
    BY <1>8 DEF RollbackFetch, Fits
  <2> QED
    BY <2>1, <2>2 DEF Fits, Held, LiveVersions, Live
<1>9. CASE (\E i \in Versions : RollbackRead(w, i)) \/ RollbackCheck(w)
  <2>1. req'[w].at \in {"readSchedule", "rollbackBackup"} /\ w = w1
    BY <1>0, <1>9 DEF RollbackRead, RollbackCheck, Continue, Accepts, Starts, Fits,
      CreateVersionRead, Snapshot
  <2> QED
    BY <2>1 DEF Fits
<1>10. CASE \E i \in Versions : DeleteVersionRead(w, i)
  <2>1. PICK i \in Versions : DeleteVersionRead(w, i)
    BY <1>10
  <2>2. /\ req'[w] = [at |-> "deleteTx", id |-> i]
        /\ ~ version'[i].isActive
    BY <1>0, <2>1 DEF DeleteVersionRead, Continue
  <2>3. w = w1
    BY <1>0, <2>1, <2>2 DEF DeleteVersionRead, Accepts, Starts, CreateVersionRead, Snapshot,
      Continue
  <2> QED
    BY <2>2, <2>3 DEF Fits
<1>11. CASE \/ CreateTx(w) /\ req[w].target = 0
            \/ NumberTaken(w) \/ ActivateTx(w) \/ AlreadyAtVersion(w) \/ VersionNotFound(w)
            \/ DeleteTx(w) \/ Abort(w)
  BY <1>0, <1>1, <1>11 DEF CreateTx, AfterCreate, NumberTaken, ActivateTx, AlreadyAtVersion,
    VersionNotFound, DeleteTx, Abort, Done, Continue
<1> QED
  BY <1>2, <1>3, <1>4, <1>5, <1>6, <1>7, <1>8, <1>9, <1>10, <1>11 DEF Step

(* An active row goes only in DeleteTx, and what it deletes is not active. *)
LEMMA ActiveKept ==
  ASSUME TypeOK, TypeOK', NEW w \in Workers, Step(w), Fits(w)
  PROVE  KeepsActive
<1>1. CASE UNCHANGED version
  BY <1>1 DEF KeepsActive, Live
<1>2. CASE CreateTx(w)
  BY <1>2, NewRow DEF KeepsActive, Live
<1>3. CASE ActivateTx(w)
  <2>1. req[w].id \in Versions
    BY <1>3, RequestFields DEF ActivateTx, TypeOK
  <2>2. ASSUME NEW i \in Versions, Live(i)
        PROVE  version'[i] \in VersionRow
    <3>1. version'[i] = [version[i] EXCEPT !.isActive = (i = req[w].id)]
      BY <1>3, <2>2 DEF ActivateTx, Activated
    <3> QED
      BY <2>2, <3>1, LiveRow DEF VersionRow
  <2> QED
    BY <2>2, SentinelAssumption DEF KeepsActive, Live
<1>4. CASE DeleteTx(w)
  <2>1. ~ version[req[w].id].isActive
    BY <1>4 DEF DeleteTx, Fits
  <2> QED
    BY <1>4, <2>1 DEF DeleteTx, KeepsActive, Live, TypeOK
<1> QED
  BY <1>1, <1>2, <1>3, <1>4 DEF Step, Edit, CreateVersionRead, BackupRead, Snapshot,
    ReadLatest, NumberTaken, ActivateVersionRead, RollbackFetch, Fetch, RollbackRead,
    RollbackCheck, AlreadyAtVersion, VersionNotFound, DeleteVersionRead, Abort

LEMMA LaneStep ==
  ASSUME LaneInv, VersionsNext
  PROVE  LaneInv' /\ (lanes => KeepsActive /\ KeepsWork)
<1>1. PICK w \in Workers : VersionsStep(w)
  BY DEF VersionsNext
<1>2. Step(w) /\ (lanes => Starts(w)) /\ lanes' = lanes
  BY <1>1 DEF VersionsStep, Step, Starts, VersionsNext
<1>3. TypeOK /\ TypeOK'
  BY <1>2, StepType DEF LaneInv
<1>4. ASSUME lanes
      PROVE  (\A v \in Workers : Fits(v)') /\ KeepsActive /\ KeepsWork
  <2>1. \A v \in Workers : Fits(v)
    BY <1>4 DEF LaneInv
  <2>2. Fits(w)'
    BY <1>2, <1>3, <1>4, <2>1, OneFits
  <2>3. ASSUME NEW v \in Workers \ {w}
        PROVE  Fits(v)'
    BY <1>2, <1>3, <1>4, <2>1, OthersFit
  <2>4. KeepsActive
    BY <1>2, <1>3, <2>1, ActiveKept
  <2>5. KeepsWork
    BY <2>1 DEF Fits, Held, KeepsWork
  <2> QED
    BY <2>2, <2>3, <2>4, <2>5
<1> QED
  BY <1>2, <1>3, <1>4 DEF LaneInv

LEMMA InitLane ==
  ASSUME VersionsInit
  PROVE  LaneInv
BY InitType DEF VersionsInit, Init, LaneInv, Fits, Idle

LEMMA LaneInductive == VersionsSpec => []LaneInv
<1>1. LaneInv /\ [VersionsNext]_<<vars, lanes>> => LaneInv'
  <2> SUFFICES ASSUME LaneInv, [VersionsNext]_<<vars, lanes>>
               PROVE  LaneInv'
    OBVIOUS
  <2>1. CASE VersionsNext
    BY <2>1, LaneStep
  <2>2. CASE UNCHANGED <<vars, lanes>>
    BY <2>2 DEF vars, LaneInv, TypeOK, Fits, Held, LiveVersions, Live
  <2> QED
    BY <2>1, <2>2
<1> QED
  BY <1>1, InitLane, PTL DEF VersionsSpec

(* "Cannot delete the active version" holds to the commit of deleteVersion:
   what it read outside the transaction, no one but the administrator can
   change. *)
THEOREM OneAdministratorKeepsActive == VersionsSpec => ActiveVersionSurvives
<1>1. LaneInv /\ [VersionsNext]_<<vars, lanes>> => [lanes => KeepsActive]_<<vars, lanes>>
  BY LaneStep
<1> QED
  BY <1>1, LaneInductive, PTL DEF VersionsSpec, ActiveVersionSurvives

(* rollback loses no work: the copy its backup holds is the schedule it
   replaces, although the four calls are separate. *)
THEOREM OneAdministratorKeepsWork == VersionsSpec => RollbackKeepsWork
<1>1. LaneInv /\ [VersionsNext]_<<vars, lanes>> => [lanes => KeepsWork]_<<vars, lanes>>
  BY LaneStep
<1> QED
  BY <1>1, LaneInductive, PTL DEF VersionsSpec, RollbackKeepsWork
=============================================================================
