-------------------------- MODULE WaitingListProofs --------------------------
(***************************************************************************)
(* Theorems about WaitingList, beside any number of ScheduleService        *)
(* requests and of clerks that enter and remove entries.                   *)
(***************************************************************************)
EXTENDS WaitingList, ScheduleProofs

(* What a clerk carries, by the call it makes next. *)
LEMMA TaskFields ==
  ASSUME NEW k \in Task
  PROVE  /\ k.at = "insert" => k.wish \in Wishes
         /\ k.at = "write" => k.entry \in Entries /\ k.status \in NewStatuses /\ k.wish \in Wishes
         /\ k.at = "assignTx" => k.entry \in Entries /\ k.schedule \in Schedules /\ k.wish \in Wish
         /\ k.at = "remove" => k.entry \in Entries
BY DEF Task

LEMMA RevisedRow ==
  ASSUME NEW row \in EntryRow, NEW wish \in Wishes, NEW status \in NewStatuses
  PROVE  /\ Revised(row, wish, status) \in EntryRow
         /\ Revised(row, wish, status).status = Given(status, row.status)
<1>1. wish \in Wish /\ status \in EntryStatus \cup {Keep}
  BY WishAssumption
<1> QED
  BY <1>1 DEF Revised, EntryRow, Wish, Wished, Given

(* A complete wish makes a session. *)
LEMMA GrantedRow ==
  ASSUME NEW wish \in Wish, Complete(wish), NEW s \in Schedules, NEW slot \in Occurs[wish.slot]
  PROVE  [schedule |-> s, teacher |-> wish.teacher, room |-> wish.room,
          class |-> wish.class, slot |-> slot, status |-> "SCHEDULED"] \in SessionRow
BY WishAssumption DEF Wish, Complete, SessionRow, SessionStatus

LEMMA EntriesAreLive ==
  \A row \in EntryRow : row # Unused /\ row # Gone
BY WishAssumption

(***************************************************************************)
(* Type correctness                                                        *)
(***************************************************************************)

LEMMA ListStepType ==
  ASSUME TypeOK, ListTypeOK, NEW c \in Clerks, ListStep(c)
  PROVE  TypeOK' /\ ListTypeOK'
<1>0. task[c] \in Task /\ task \in [Clerks -> Task] /\ Idle \in Task
  BY DEF ListTypeOK, Task, Idle
<1>1. CASE \E wish \in Wishes : EnterCheck(c, wish)
  BY <1>0, <1>1 DEF EnterCheck, Proceed, ListTypeOK, TypeOK, vars, Task
<1>2. CASE EnterInsert(c)
  <2>1. task[c].wish \in Wish
    BY <1>0, <1>2, TaskFields, WishAssumption DEF EnterInsert
  <2>2. [wish |-> task[c].wish, status |-> "PENDING"] \in EntryRow
    BY <2>1 DEF EntryRow, EntryStatus
  <2> QED
    BY <1>0, <1>2, <2>2 DEF EnterInsert, Finish, Proceed, ListTypeOK, TypeOK, vars
<1>3. CASE \E e \in Entries, status \in NewStatuses, wish \in Wishes :
             ReviseRead(c, e, status, wish)
  BY <1>0, <1>3 DEF ReviseRead, Proceed, ListTypeOK, TypeOK, vars, Task
<1>4. CASE ReviseWrite(c)
  <2>1. task[c].entry \in Entries /\ task[c].status \in NewStatuses /\ task[c].wish \in Wishes
    BY <1>0, <1>4, TaskFields DEF ReviseWrite
  <2>2. entry[task[c].entry] \in EntryRow
    BY <1>4, <2>1 DEF ReviseWrite, LiveEntry, ListTypeOK
  <2>3. Revised(entry[task[c].entry], task[c].wish, task[c].status) \in EntryRow
    BY <2>1, <2>2, RevisedRow
  <2> QED
    BY <1>0, <1>4, <2>1, <2>3 DEF ReviseWrite, Finish, Proceed, ListTypeOK, TypeOK, vars
<1>5. CASE \E e \in Entries, s \in Schedules : AssignRead(c, e, s)
  <2>1. PICK e \in Entries, s \in Schedules : AssignRead(c, e, s)
    BY <1>5
  <2>2. entry[e].wish \in Wish
    BY <2>1 DEF AssignRead, LiveEntry, ListTypeOK, EntryRow
  <2>3. [at |-> "assignTx", entry |-> e, schedule |-> s, wish |-> entry[e].wish] \in Task
    BY <2>2 DEF Task
  <2> QED
    BY <1>0, <2>1, <2>3 DEF AssignRead, Proceed, ListTypeOK, TypeOK, vars
<1>6. CASE AssignTx(c)
  <2> DEFINE e == task[c].entry
             wish == task[c].wish
  <2>1. e \in Entries /\ wish \in Wish /\ task[c].schedule \in Schedules /\ Complete(wish)
    BY <1>0, <1>6, TaskFields DEF AssignTx
  <2>2. entry[e] \in EntryRow
    BY <1>6, <2>1 DEF AssignTx, LiveEntry, ListTypeOK
  <2>3. [wish |-> entry[e].wish, status |-> "ASSIGNED"] \in EntryRow
    BY <2>2 DEF EntryRow, EntryStatus
  <2>4. PICK x \in Sessions, slot \in Occurs[wish.slot] :
          /\ session' = [session EXCEPT ![x] =
               [schedule |-> task[c].schedule, teacher |-> wish.teacher, room |-> wish.room,
                class |-> wish.class, slot |-> slot, status |-> "SCHEDULED"]]
          /\ granted' = [granted EXCEPT ![e] = @ \cup {x}]
    BY <1>6 DEF AssignTx
  <2>5. session' \in [Sessions -> SessionRow \cup {Unused, Gone}]
    BY <2>1, <2>4, GrantedRow DEF TypeOK
  <2>6. entry' \in [Entries -> EntryRow \cup {Unused, Gone}] /\ task' \in [Clerks -> Task]
    BY <1>0, <1>6, <2>1, <2>3 DEF AssignTx, Finish, Proceed, ListTypeOK
  <2>7. granted' \in [Entries -> SUBSET Sessions]
    BY <2>1, <2>4 DEF ListTypeOK
  <2> QED
    BY <1>6, <2>5, <2>6, <2>7 DEF AssignTx, ListTypeOK, TypeOK
<1>7. CASE AssignRollback(c)
  BY <1>0, <1>7 DEF AssignRollback, Finish, Proceed, ListTypeOK, TypeOK, vars
<1>8. CASE \E e \in Entries : RemoveRead(c, e)
  BY <1>0, <1>8 DEF RemoveRead, Proceed, ListTypeOK, TypeOK, vars, Task
<1>9. CASE RemoveWrite(c)
  BY <1>0, <1>9 DEF RemoveWrite, Finish, Proceed, ListTypeOK, TypeOK, vars
<1>10. CASE EntryNotFound(c) \/ ListAbort(c)
  BY <1>0, <1>10 DEF EntryNotFound, ListAbort, Finish, Proceed, ListTypeOK, TypeOK, vars
<1> QED
  BY <1>1, <1>2, <1>3, <1>4, <1>5, <1>6, <1>7, <1>8, <1>9, <1>10 DEF ListStep

LEMMA ListInitType == ListInit => TypeOK /\ ListTypeOK
BY DEF ListInit, Init, TypeOK, ListTypeOK, Idle, Request, Task

LEMMA ListNextType ==
  TypeOK /\ ListTypeOK /\ [ListNext]_allVars => TypeOK' /\ ListTypeOK'
<1> SUFFICES ASSUME TypeOK, ListTypeOK, [ListNext]_allVars
             PROVE  TypeOK' /\ ListTypeOK'
  OBVIOUS
<1>1. CASE Next /\ UNCHANGED listVars
  <2>1. PICK w \in Workers : Step(w)
    BY <1>1 DEF Next, Step
  <2> QED
    BY <1>1, <2>1, TypeStep DEF ListTypeOK, listVars
<1>2. CASE \E c \in Clerks : ListStep(c)
  BY <1>2, ListStepType
<1>3. CASE UNCHANGED allVars
  BY <1>3 DEF allVars, vars, listVars, TypeOK, ListTypeOK
<1> QED
  BY <1>1, <1>2, <1>3 DEF ListNext

(* The entries, the histories and what the clerks carry keep their types,
   beside the requests of ScheduleService on the same sessions. *)
THEOREM ListTypeCorrect == ListSpec => []ListTypeOK
BY ListInitType, ListNextType, PTL DEF ListSpec

(* Assignments leave the schedules alone: beside them a school still has one
   active schedule at most, on the terms on which ScheduleService keeps it so. *)
THEOREM ActiveUniqueBesideList ==
  ASSUME ActivationSerialised
  PROVE  ListSpec => []AtMostOneActive
<1>1. ListInit => ActivationInv /\ ListTypeOK
  BY ActivationInvInit, ListInitType DEF ListInit
<1>2. ActivationInv /\ ListTypeOK /\ [ListNext]_allVars => ActivationInv' /\ ListTypeOK'
  <2> SUFFICES ASSUME ActivationInv, ListTypeOK, [ListNext]_allVars
               PROVE  ActivationInv' /\ ListTypeOK'
    OBVIOUS
  <2>1. TypeOK' /\ ListTypeOK'
    BY ListNextType DEF ActivationInv
  <2>2. CASE Next
    BY <2>1, <2>2, ActivationInvStep
  <2>3. CASE UNCHANGED <<schedule, req>>
    BY <2>1, <2>3 DEF ActivationInv, AtMostOneActive, Active, LiveSchedule
  <2>4. ASSUME NEW c \in Clerks, ListStep(c) PROVE UNCHANGED <<schedule, req>>
    BY <2>4 DEF ListStep, EnterCheck, EnterInsert, ReviseRead, ReviseWrite, AssignRead, AssignTx,
       AssignRollback, RemoveRead, RemoveWrite, EntryNotFound, ListAbort, vars
  <2>5. CASE UNCHANGED allVars
    BY <2>3, <2>5 DEF allVars, vars
  <2> QED
    BY <2>2, <2>3, <2>4, <2>5 DEF ListNext
<1>3. ActivationInv => AtMostOneActive
  BY DEF ActivationInv
<1> QED
  BY <1>1, <1>2, <1>3, PTL DEF ListSpec

(***************************************************************************)
(* An entry is assigned once, and ASSIGNED says so                         *)
(***************************************************************************)

(* What the lane that updates and assigns has read of an entry stands until it
   writes: nobody else takes a status back or forward, and only this lane changes
   a wish.  An identifier without a row was never granted anything. *)
LaneInv ==
  /\ \A c \in Clerks : task[c].at \in {"write", "assignTx", "remove"} =>
       entry[task[c].entry] # Unused
  /\ \A c \in Clerks : task[c].at = "write" =>
       /\ "update" \in Handles[c]
       /\ LiveEntry(task[c].entry) => entry[task[c].entry].status # "ASSIGNED"
  /\ \A c \in Clerks : task[c].at = "assignTx" =>
       /\ "assign" \in Handles[c]
       /\ LiveEntry(task[c].entry) => /\ entry[task[c].entry].status = "PENDING"
                                     /\ entry[task[c].entry].wish = task[c].wish

GrantInv ==
  /\ TypeOK /\ ListTypeOK
  /\ LaneInv
  /\ \A e \in Entries : entry[e] = Unused => granted[e] = {}
  /\ GrantMatchesStatus
  /\ GrantedOnce

LEMMA GrantInvInit == ListInit => GrantInv
<1> SUFFICES ASSUME ListInit PROVE GrantInv
  OBVIOUS
<1>1. TypeOK /\ ListTypeOK
  BY ListInitType
<1> QED
  BY <1>1 DEF ListInit, GrantInv, LaneInv, Idle, GrantMatchesStatus, GrantedOnce, LiveEntry

(* A step that leaves the entries and what was granted, and in which one clerk
   at most takes up a task, which its own lane allows. *)
LEMMA TaskKeeps ==
  ASSUME GrantInv, TypeOK', ListTypeOK', entry' = entry, granted' = granted,
         NEW c \in Clerks, \A d \in Clerks : d # c => task'[d] = task[d],
         task'[c].at \in {"write", "assignTx", "remove"} =>
           task'[c].entry \in Entries /\ LiveEntry(task'[c].entry),
         task'[c].at = "write" =>
           "update" \in Handles[c] /\ entry[task'[c].entry].status # "ASSIGNED",
         task'[c].at = "assignTx" =>
           /\ "assign" \in Handles[c]
           /\ entry[task'[c].entry].status = "PENDING"
           /\ entry[task'[c].entry].wish = task'[c].wish
  PROVE  GrantInv'
<1>1. LaneInv'
  BY DEF GrantInv, LaneInv, LiveEntry
<1> QED
  BY <1>1 DEF GrantInv, GrantMatchesStatus, GrantedOnce, LiveEntry

(* A clerk that has written is free; the tasks of the others stand if the write
   was to no entry of theirs, or was a removal. *)
LEMMA WriteKeeps ==
  ASSUME GrantInv, TypeOK', ListTypeOK', NEW c \in Clerks, task'[c] = Idle,
         \A d \in Clerks : d # c => task'[d] = task[d],
         NEW e \in Entries,
         \A f \in Entries : f # e => entry'[f] = entry[f] /\ granted'[f] = granted[f],
         entry'[e] # Unused,
         \/ entry'[e] = Gone
         \/ entry[e] = Unused
         \/ \A d \in Clerks : d # c => task[d].at \notin {"write", "assignTx"},
         LiveEntry(e)' => (entry'[e].status = "ASSIGNED" <=> granted'[e] # {}),
         \A x, y \in granted'[e] : x = y
  PROVE  GrantInv'
<1>1. \A d \in Clerks : task[d].at \in {"write", "assignTx", "remove"} => task[d].entry \in Entries
  BY TaskFields DEF GrantInv, ListTypeOK
<1>2. LaneInv'
  BY <1>1 DEF GrantInv, LaneInv, LiveEntry, Idle
<1> QED
  BY <1>2 DEF GrantInv, GrantMatchesStatus, GrantedOnce, LiveEntry

LEMMA GrantStep ==
  ASSUME RevisionSerialised, OnlyAssignAssigns, GrantInv, NEW c \in Clerks, ListStep(c)
  PROVE  GrantInv'
<1>0. /\ TypeOK' /\ ListTypeOK' /\ task \in [Clerks -> Task] /\ task[c] \in Task
      /\ \A e \in Entries : LiveEntry(e) => entry[e] \in EntryRow
  BY ListStepType DEF GrantInv, ListTypeOK, LiveEntry
<1>1. ASSUME NEW next, Proceed(c, next)
      PROVE  (\A d \in Clerks : d # c => task'[d] = task[d]) /\ task'[c] = next
  BY <1>0, <1>1 DEF Proceed
<1>2. CASE \E wish \in Wishes : EnterCheck(c, wish)
  <2>1. entry' = entry /\ granted' = granted
    BY <1>2 DEF EnterCheck
  <2>2. task'[c].at = "insert" /\ \A d \in Clerks : d # c => task'[d] = task[d]
    BY <1>1, <1>2 DEF EnterCheck
  <2> QED
    BY <1>0, <2>1, <2>2, TaskKeeps
<1>3. CASE EnterInsert(c)
  <2>1. PICK e \in Entries :
          /\ entry[e] = Unused
          /\ entry' = [entry EXCEPT ![e] = [wish |-> task[c].wish, status |-> "PENDING"]]
    BY <1>3 DEF EnterInsert
  <2>2. granted[e] = {} /\ granted' = granted
    BY <1>3, <2>1 DEF EnterInsert, GrantInv
  <2>3. entry'[e] = [wish |-> task[c].wish, status |-> "PENDING"] /\ entry'[e] # Unused
        /\ \A f \in Entries : f # e => entry'[f] = entry[f]
    <3>1. task[c].wish \in Wish
      BY <1>0, <1>3, TaskFields, WishAssumption DEF EnterInsert
    <3>2. [wish |-> task[c].wish, status |-> "PENDING"] \in EntryRow
      BY <3>1 DEF EntryRow, EntryStatus
    <3> QED
      BY <2>1, <3>2, EntriesAreLive DEF GrantInv, ListTypeOK
  <2>4. task'[c] = Idle /\ \A d \in Clerks : d # c => task'[d] = task[d]
    BY <1>1, <1>3 DEF EnterInsert, Finish
  <2> QED
    BY <1>0, <2>1, <2>2, <2>3, <2>4, WriteKeeps
<1>4. CASE \E e \in Entries, status \in NewStatuses, wish \in Wishes :
             ReviseRead(c, e, status, wish)
  <2>1. PICK e \in Entries, status \in NewStatuses, wish \in Wishes :
          ReviseRead(c, e, status, wish)
    BY <1>4
  <2>2. task'[c] = [at |-> "write", entry |-> e, status |-> status, wish |-> wish]
        /\ \A d \in Clerks : d # c => task'[d] = task[d]
    BY <1>1, <2>1 DEF ReviseRead
  <2> QED
    BY <1>0, <2>1, <2>2, TaskKeeps DEF ReviseRead, Free
<1>5. CASE ReviseWrite(c)
  <2> DEFINE e == task[c].entry
  <2>1. e \in Entries /\ task[c].status \in NewStatuses /\ task[c].wish \in Wishes
    BY <1>0, <1>5, TaskFields DEF ReviseWrite
  <2>2. /\ entry[e] \in EntryRow /\ entry[e].status # "ASSIGNED" /\ "update" \in Handles[c]
        /\ granted[e] = {}
    BY <1>0, <1>5, <2>1 DEF ReviseWrite, GrantInv, LaneInv, GrantMatchesStatus
  <2> DEFINE row == Revised(entry[e], task[c].wish, task[c].status)
  <2>3. row \in EntryRow /\ row.status # "ASSIGNED"
    BY <2>1, <2>2, RevisedRow DEF Given, OnlyAssignAssigns
  <2>4. entry'[e] = row /\ granted' = granted /\ \A f \in Entries : f # e => entry'[f] = entry[f]
    BY <1>5, <2>1 DEF ReviseWrite, GrantInv, ListTypeOK
  <2>5. task'[c] = Idle /\ \A d \in Clerks : d # c => task'[d] = task[d]
    BY <1>1, <1>5 DEF ReviseWrite, Finish
  <2>6. \A d \in Clerks : d # c => task[d].at \notin {"write", "assignTx"}
    BY <2>2 DEF GrantInv, LaneInv, RevisionSerialised
  <2>7. entry'[e] # Unused
    BY <2>3, <2>4, EntriesAreLive
  <2> HIDE DEF row, e
  <2> QED
    BY <1>0, <2>1, <2>2, <2>3, <2>4, <2>5, <2>6, <2>7, WriteKeeps
<1>6. CASE \E e \in Entries, s \in Schedules : AssignRead(c, e, s)
  <2>1. PICK e \in Entries, s \in Schedules : AssignRead(c, e, s)
    BY <1>6
  <2>2. task'[c] = [at |-> "assignTx", entry |-> e, schedule |-> s, wish |-> entry[e].wish]
        /\ \A d \in Clerks : d # c => task'[d] = task[d]
    BY <1>1, <2>1 DEF AssignRead
  <2> QED
    BY <1>0, <2>1, <2>2, TaskKeeps DEF AssignRead, Free
<1>7. CASE AssignTx(c)
  <2> DEFINE e == task[c].entry
  <2>1. e \in Entries /\ LiveEntry(e)
    BY <1>0, <1>7, TaskFields DEF AssignTx
  <2>2. /\ entry[e] \in EntryRow /\ entry[e].status = "PENDING" /\ "assign" \in Handles[c]
        /\ granted[e] = {}
    BY <1>0, <1>7, <2>1 DEF AssignTx, GrantInv, LaneInv, GrantMatchesStatus
  <2>3. PICK x \in Sessions : granted' = [granted EXCEPT ![e] = @ \cup {x}]
    BY <1>7 DEF AssignTx
  <2>4. granted'[e] = {x} /\ \A f \in Entries : f # e => granted'[f] = granted[f]
    BY <2>1, <2>2, <2>3 DEF GrantInv, ListTypeOK
  <2> DEFINE row == [wish |-> entry[e].wish, status |-> "ASSIGNED"]
  <2>5. row \in EntryRow /\ row.status = "ASSIGNED"
    BY <2>2 DEF EntryRow, EntryStatus
  <2>6. entry'[e] = row /\ \A f \in Entries : f # e => entry'[f] = entry[f]
    BY <1>7, <2>1 DEF AssignTx, GrantInv, ListTypeOK
  <2>7. entry'[e] # Unused
    BY <2>5, <2>6, EntriesAreLive
  <2>8. task'[c] = Idle /\ \A d \in Clerks : d # c => task'[d] = task[d]
    BY <1>1, <1>7 DEF AssignTx, Finish
  <2>9. \A d \in Clerks : d # c => task[d].at \notin {"write", "assignTx"}
    BY <2>2 DEF GrantInv, LaneInv, RevisionSerialised
  <2> HIDE DEF row, e
  <2> QED
    BY <1>0, <2>1, <2>4, <2>5, <2>6, <2>7, <2>8, <2>9, WriteKeeps
<1>8. CASE AssignRollback(c) \/ EntryNotFound(c) \/ ListAbort(c)
  <2>1. task'[c] = Idle /\ \A d \in Clerks : d # c => task'[d] = task[d]
    BY <1>1, <1>8 DEF AssignRollback, EntryNotFound, ListAbort, Finish
  <2>2. entry' = entry /\ granted' = granted
    BY <1>8 DEF AssignRollback, EntryNotFound, ListAbort
  <2> QED
    BY <1>0, <2>1, <2>2, TaskKeeps DEF Idle
<1>9. CASE \E e \in Entries : RemoveRead(c, e)
  <2>1. PICK e \in Entries : RemoveRead(c, e)
    BY <1>9
  <2>2. task'[c] = [at |-> "remove", entry |-> e] /\ \A d \in Clerks : d # c => task'[d] = task[d]
    BY <1>1, <2>1 DEF RemoveRead
  <2> QED
    BY <1>0, <2>1, <2>2, TaskKeeps DEF RemoveRead
<1>10. CASE RemoveWrite(c)
  <2> DEFINE e == task[c].entry
  <2>1. e \in Entries /\ LiveEntry(e)
    BY <1>0, <1>10, TaskFields DEF RemoveWrite
  <2>2. /\ entry'[e] = Gone /\ granted' = granted
        /\ \A f \in Entries : f # e => entry'[f] = entry[f]
    BY <1>10, <2>1 DEF RemoveWrite, GrantInv, ListTypeOK
  <2>3. task'[c] = Idle /\ \A d \in Clerks : d # c => task'[d] = task[d]
    BY <1>1, <1>10 DEF RemoveWrite, Finish
  <2>4. entry'[e] # Unused
    BY <2>2, SentinelAssumption
  <2>5. \A x, y \in granted'[e] : x = y
    BY <2>1, <2>2 DEF GrantInv, GrantedOnce
  <2> HIDE DEF e
  <2> QED
    BY <1>0, <2>1, <2>2, <2>3, <2>4, <2>5, WriteKeeps DEF LiveEntry
<1> QED
  BY <1>2, <1>3, <1>4, <1>5, <1>6, <1>7, <1>8, <1>9, <1>10 DEF ListStep

LEMMA GrantInvStep ==
  ASSUME RevisionSerialised, OnlyAssignAssigns
  PROVE  GrantInv /\ [ListNext]_allVars => GrantInv'
<1> SUFFICES ASSUME GrantInv, [ListNext]_allVars PROVE GrantInv'
  OBVIOUS
<1>1. CASE UNCHANGED listVars
  <2>1. TypeOK' /\ ListTypeOK'
    BY ListNextType DEF GrantInv
  <2> QED
    BY <1>1, <2>1 DEF listVars, GrantInv, LaneInv, GrantMatchesStatus, GrantedOnce, LiveEntry
<1>2. CASE \E c \in Clerks : ListStep(c)
  BY <1>2, GrantStep
<1> QED
  BY <1>1, <1>2 DEF ListNext, allVars

(* If updates and assignments are one lane and no update sets ASSIGNED by hand,
   an entry is ASSIGNED exactly when a session was inserted for it, although the
   check of its status is outside the transaction that inserts. *)
THEOREM AssignedIsGranted ==
  ASSUME RevisionSerialised, OnlyAssignAssigns
  PROVE  ListSpec => []GrantMatchesStatus
<1>1. GrantInv => GrantMatchesStatus
  BY DEF GrantInv
<1> QED
  BY <1>1, GrantInvInit, GrantInvStep, PTL DEF ListSpec

(* On the same terms no entry is ever given two sessions. *)
THEOREM GrantedAtMostOnce ==
  ASSUME RevisionSerialised, OnlyAssignAssigns
  PROVE  ListSpec => []GrantedOnce
<1>1. GrantInv => GrantedOnce
  BY DEF GrantInv
<1> QED
  BY <1>1, GrantInvInit, GrantInvStep, PTL DEF ListSpec

(***************************************************************************)
(* The session is the one the entry asks for                               *)
(***************************************************************************)

(* A session that was inserted keeps its resources as long as it is there, and
   its identifier is not used again. *)
Steady ==
  \A x \in Sessions : session[x] # Unused =>
    /\ session'[x] # Unused
    /\ LiveSession(x)' => /\ LiveSession(x)
                          /\ session'[x].teacher = session[x].teacher
                          /\ session'[x].room = session[x].room
                          /\ session'[x].class = session[x].class

LEMMA KeptResources ==
  ASSUME UpdatesKeepResources, NEW row \in SessionRow, NEW change \in SessionChanges
  PROVE  /\ Changed(row, change).teacher = row.teacher
         /\ Changed(row, change).room = row.room
         /\ Changed(row, change).class = row.class
BY DEF UpdatesKeepResources, SessionRow, Changed, Given

LEMMA SteadyStep ==
  ASSUME UpdatesKeepResources, TypeOK, NEW w \in Workers, Step(w)
  PROVE  Steady
<1>1. RowsOK /\ DOMAIN req = Workers /\ req[w] \in Request
  BY DEF TypeOK, RowsOK
<1>2. \A x \in Sessions : LiveSession(x) => session[x] \in SessionRow
  BY <1>1 DEF RowsOK, LiveSession
<1> QED
  BY <1>1, <1>2, SessionStays, KeptResources DEF Steady

WishInv ==
  /\ GrantInv
  /\ \A e \in Entries : \A x \in granted[e] : session[x] # Unused
  /\ GrantHonoursWish

LEMMA WishInvInit == ListInit => WishInv
BY GrantInvInit DEF WishInv, ListInit, GrantHonoursWish

(* The wish of an entry that was granted a session is not written any more. *)
LEMMA GrantedWish ==
  ASSUME GrantInv, NEW c \in Clerks, ListStep(c), ~ AssignTx(c)
  PROVE  \A e \in Entries :
           /\ granted'[e] = granted[e]
           /\ granted[e] # {} /\ LiveEntry(e)' => LiveEntry(e) /\ entry'[e].wish = entry[e].wish
<1>0. task[c] \in Task
  BY DEF GrantInv, ListTypeOK
<1>1. granted' = granted
  BY DEF ListStep, EnterCheck, EnterInsert, ReviseRead, ReviseWrite, AssignRead, AssignRollback,
     RemoveRead, RemoveWrite, EntryNotFound, ListAbort
<1>2. CASE EnterInsert(c)
  BY <1>1, <1>2 DEF EnterInsert, GrantInv, ListTypeOK, LiveEntry
<1>3. CASE ReviseWrite(c)
  <2>1. task[c].entry \in Entries
    BY <1>0, <1>3, TaskFields DEF ReviseWrite
  <2>2. granted[task[c].entry] = {}
    BY <1>3, <2>1 DEF ReviseWrite, GrantInv, LaneInv, GrantMatchesStatus
  <2> QED
    BY <1>1, <1>3, <2>1, <2>2 DEF ReviseWrite, GrantInv, ListTypeOK, LiveEntry
<1>4. CASE RemoveWrite(c)
  BY <1>1, <1>4 DEF RemoveWrite, GrantInv, ListTypeOK, LiveEntry
<1>5. entry' = entry \/ EnterInsert(c) \/ ReviseWrite(c) \/ RemoveWrite(c)
  BY DEF ListStep, EnterCheck, ReviseRead, AssignRead, AssignRollback, RemoveRead,
     EntryNotFound, ListAbort
<1> QED
  BY <1>1, <1>2, <1>3, <1>4, <1>5 DEF LiveEntry

LEMMA AssignHonours ==
  ASSUME WishInv, GrantInv', NEW c \in Clerks, AssignTx(c)
  PROVE  WishInv'
<1> DEFINE e == task[c].entry
           wish == task[c].wish
<1>1. e \in Entries /\ wish \in Wish /\ Complete(wish) /\ LiveEntry(e)
      /\ task[c].schedule \in Schedules
  <2>1. task[c] \in Task
    BY DEF WishInv, GrantInv, ListTypeOK
  <2> QED
    BY <2>1, TaskFields DEF AssignTx
<1>2. entry[e] \in EntryRow /\ entry[e].wish = wish /\ granted[e] = {}
  BY <1>1 DEF WishInv, GrantInv, LaneInv, GrantMatchesStatus, AssignTx, ListTypeOK, LiveEntry
<1>3. PICK x \in Sessions, slot \in Occurs[wish.slot] :
        /\ session[x] = Unused
        /\ session' = [session EXCEPT ![x] =
             [schedule |-> task[c].schedule, teacher |-> wish.teacher, room |-> wish.room,
              class |-> wish.class, slot |-> slot, status |-> "SCHEDULED"]]
        /\ granted' = [granted EXCEPT ![e] = @ \cup {x}]
  BY DEF AssignTx
<1>4. /\ session'[x].teacher = wish.teacher /\ session'[x].room = wish.room
      /\ session'[x].class = wish.class /\ session'[x] # Unused
      /\ \A y \in Sessions : y # x => session'[y] = session[y]
  BY <1>1, <1>3, GrantedRow, RowsAreLive DEF WishInv, GrantInv, TypeOK
<1>5. entry'[e].wish = wish /\ \A f \in Entries : f # e => entry'[f] = entry[f]
  BY <1>1, <1>2 DEF AssignTx, WishInv, GrantInv, ListTypeOK
<1>6. granted'[e] = {x} /\ \A f \in Entries : f # e => granted'[f] = granted[f]
  BY <1>1, <1>2, <1>3 DEF WishInv, GrantInv, ListTypeOK
<1>7. \A f \in Entries : granted[f] \subseteq Sessions /\ x \notin granted[f]
  BY <1>3 DEF WishInv, GrantInv, ListTypeOK
<1> HIDE DEF e, wish
<1> QED
  BY <1>4, <1>5, <1>6, <1>7 DEF WishInv, GrantHonoursWish, LiveEntry, LiveSession

LEMMA WishInvStep ==
  ASSUME RevisionSerialised, OnlyAssignAssigns, UpdatesKeepResources
  PROVE  WishInv /\ [ListNext]_allVars => WishInv'
<1> SUFFICES ASSUME WishInv, [ListNext]_allVars PROVE WishInv'
  OBVIOUS
<1>0. GrantInv /\ GrantInv' /\ TypeOK /\ \A e \in Entries : granted[e] \subseteq Sessions
  BY GrantInvStep DEF WishInv, GrantInv, ListTypeOK
<1>1. CASE Next /\ UNCHANGED listVars
  <2>1. PICK w \in Workers : Step(w)
    BY <1>1 DEF Next, Step
  <2>2. Steady
    BY <1>0, <2>1, SteadyStep
  <2> QED
    BY <1>0, <1>1, <2>2 DEF Steady, WishInv, GrantHonoursWish, LiveEntry, listVars
<1>2. ASSUME NEW c \in Clerks, AssignTx(c) PROVE WishInv'
  BY <1>0, <1>2, AssignHonours
<1>3. ASSUME NEW c \in Clerks, ListStep(c), ~ AssignTx(c) PROVE WishInv'
  <2>1. session' = session
    BY <1>3 DEF ListStep, EnterCheck, EnterInsert, ReviseRead, ReviseWrite, AssignRead,
       AssignRollback, RemoveRead, RemoveWrite, EntryNotFound, ListAbort, vars
  <2>2. \A e \in Entries :
          /\ granted'[e] = granted[e]
          /\ granted[e] # {} /\ LiveEntry(e)' => LiveEntry(e) /\ entry'[e].wish = entry[e].wish
    BY <1>0, <1>3, GrantedWish
  <2> QED
    BY <1>0, <2>1, <2>2 DEF WishInv, GrantHonoursWish, LiveSession
<1>4. CASE UNCHANGED allVars
  BY <1>0, <1>4 DEF allVars, vars, listVars, WishInv, GrantHonoursWish, LiveEntry, LiveSession
<1> QED
  BY <1>1, <1>2, <1>3, <1>4 DEF ListNext

(* On the same terms, if updates leave the teacher and the room of sessions
   alone, the session that was inserted for an entry is the one it asks for: the
   copy of the wish was not out of date, and neither row moves away from the
   other. *)
THEOREM GrantHonoured ==
  ASSUME RevisionSerialised, OnlyAssignAssigns, UpdatesKeepResources
  PROVE  ListSpec => []GrantHonoursWish
<1>1. WishInv => GrantHonoursWish
  BY DEF WishInv
<1> QED
  BY <1>1, WishInvInit, WishInvStep, PTL DEF ListSpec

(***************************************************************************)
(* The entries are a queue                                                 *)
(***************************************************************************)

LEMMA StagesOfRows ==
  /\ StageOf(Unused) = "absent"
  /\ StageOf(Gone) = "gone"
  /\ \A row \in EntryRow :
       StageOf(row) = IF row.status = "ASSIGNED" THEN "placed" ELSE "waiting"
BY EntriesAreLive, SentinelAssumption DEF StageOf

(* The sessions that were inserted for entries are spent: their identifiers are
   not used again. *)
QueueInv ==
  /\ GrantInv
  /\ \A e \in Entries : \A x \in granted[e] : session[x] # Unused

LEMMA QueueInvInit == ListInit => QueueInv
BY GrantInvInit DEF QueueInv, ListInit

LEMMA QueueInvStep ==
  ASSUME RevisionSerialised, OnlyAssignAssigns
  PROVE  QueueInv /\ [ListNext]_allVars => QueueInv'
<1> SUFFICES ASSUME QueueInv, [ListNext]_allVars PROVE QueueInv'
  OBVIOUS
<1>0. GrantInv /\ GrantInv' /\ \A e \in Entries : granted[e] \subseteq Sessions
  BY GrantInvStep DEF QueueInv, GrantInv, ListTypeOK
<1>1. CASE Next /\ UNCHANGED listVars
  <2>1. PICK w \in Workers : Step(w)
    BY <1>1 DEF Next, Step
  <2>2. RowsOK /\ DOMAIN req = Workers /\ req[w] \in Request
    BY <1>0 DEF GrantInv, TypeOK, RowsOK
  <2> QED
    BY <1>0, <1>1, <2>1, <2>2, SessionStays DEF QueueInv, listVars
<1>2. ASSUME NEW c \in Clerks, AssignTx(c) PROVE QueueInv'
  <2>1. PICK x \in Sessions, row \in SessionRow :
          /\ session' = [session EXCEPT ![x] = row]
          /\ granted' = [granted EXCEPT ![task[c].entry] = @ \cup {x}]
    <3>1. task[c].wish \in Wish /\ task[c].schedule \in Schedules /\ Complete(task[c].wish)
      BY <1>0, <1>2, TaskFields DEF GrantInv, ListTypeOK, AssignTx
    <3> QED
      BY <1>2, <3>1, GrantedRow DEF AssignTx
  <2>2. \A y \in Sessions : session[y] # Unused => session'[y] # Unused
    BY <1>0, <2>1, RowsAreLive DEF GrantInv, TypeOK
  <2>3. session'[x] # Unused
    BY <1>0, <2>1, RowsAreLive DEF GrantInv, TypeOK
  <2>4. \A e \in Entries : granted'[e] \subseteq granted[e] \cup {x}
    BY <1>0, <2>1 DEF GrantInv, ListTypeOK
  <2> QED
    BY <1>0, <2>2, <2>3, <2>4 DEF QueueInv
<1>3. ASSUME NEW c \in Clerks, ListStep(c), ~ AssignTx(c) PROVE QueueInv'
  <2>1. session' = session /\ granted' = granted
    BY <1>3 DEF ListStep, EnterCheck, EnterInsert, ReviseRead, ReviseWrite, AssignRead,
       AssignRollback, RemoveRead, RemoveWrite, EntryNotFound, ListAbort, vars
  <2> QED
    BY <1>0, <2>1 DEF QueueInv
<1>4. CASE UNCHANGED allVars
  BY <1>0, <1>4 DEF allVars, vars, listVars, QueueInv
<1> QED
  BY <1>1, <1>2, <1>3, <1>4 DEF ListNext

(* What a step of clerk c does to entry e, and to no other. *)
EntryChange(c, e) ==
  /\ \A f \in Entries : f # e => entry'[f] = entry[f]
  /\ \/ /\ entry[e] = Unused /\ granted' = granted
        /\ entry'[e] \in EntryRow /\ entry'[e].status # "ASSIGNED"
     \/ /\ entry[e] \in EntryRow /\ entry[e].status # "ASSIGNED" /\ granted' = granted
        /\ entry'[e] \in EntryRow /\ entry'[e].status # "ASSIGNED"
     \/ /\ entry[e] \in EntryRow /\ entry[e].status = "PENDING" /\ granted[e] = {}
        /\ entry'[e] \in EntryRow /\ entry'[e].status = "ASSIGNED"
        /\ task[c].at = "assignTx" /\ "assign" \in Handles[c]
        /\ \E x \in Sessions : session[x] = Unused /\ granted' = [granted EXCEPT ![e] = {x}]
     \/ /\ entry[e] \in EntryRow /\ entry'[e] = Gone /\ granted' = granted
        /\ task[c].at = "remove" /\ task[c].entry = e

LEMMA EntriesChange ==
  ASSUME GrantInv, OnlyAssignAssigns, NEW c \in Clerks, ListStep(c)
  PROVE  UNCHANGED <<entry, granted>> \/ \E e \in Entries : EntryChange(c, e)
<1>0. /\ task[c] \in Task /\ entry \in [Entries -> EntryRow \cup {Unused, Gone}]
      /\ \A e \in Entries : LiveEntry(e) => entry[e] \in EntryRow
  BY DEF GrantInv, ListTypeOK, LiveEntry
<1>1. CASE EnterInsert(c)
  <2>1. PICK e \in Entries :
          /\ entry[e] = Unused
          /\ entry' = [entry EXCEPT ![e] = [wish |-> task[c].wish, status |-> "PENDING"]]
    BY <1>1 DEF EnterInsert
  <2>2. [wish |-> task[c].wish, status |-> "PENDING"] \in EntryRow
    BY <1>0, <1>1, TaskFields, WishAssumption DEF EnterInsert, EntryRow, EntryStatus
  <2>3. EntryChange(c, e)
    BY <1>0, <1>1, <2>1, <2>2 DEF EnterInsert, EntryChange
  <2> QED
    BY <2>3
<1>2. CASE ReviseWrite(c)
  <2> DEFINE e == task[c].entry
             row == Revised(entry[e], task[c].wish, task[c].status)
  <2>1. e \in Entries /\ task[c].status \in NewStatuses /\ task[c].wish \in Wishes
    BY <1>0, <1>2, TaskFields DEF ReviseWrite
  <2>2. entry[e] \in EntryRow /\ entry[e].status # "ASSIGNED"
    BY <1>0, <1>2, <2>1 DEF ReviseWrite, GrantInv, LaneInv
  <2>3. row \in EntryRow /\ row.status # "ASSIGNED"
    BY <2>1, <2>2, RevisedRow DEF Given, OnlyAssignAssigns
  <2>4. entry'[e] = row /\ granted' = granted /\ \A f \in Entries : f # e => entry'[f] = entry[f]
    BY <1>0, <1>2, <2>1 DEF ReviseWrite
  <2> HIDE DEF row
  <2>5. EntryChange(c, e)
    BY <2>2, <2>3, <2>4 DEF EntryChange
  <2> QED
    BY <2>1, <2>5
<1>3. CASE AssignTx(c)
  <2> DEFINE e == task[c].entry
             row == [wish |-> entry[e].wish, status |-> "ASSIGNED"]
  <2>1. e \in Entries /\ LiveEntry(e) /\ task[c].at = "assignTx"
    BY <1>0, <1>3, TaskFields DEF AssignTx
  <2>2. /\ entry[e] \in EntryRow /\ entry[e].status = "PENDING" /\ granted[e] = {}
        /\ "assign" \in Handles[c]
    BY <1>0, <2>1 DEF GrantInv, LaneInv, GrantMatchesStatus
  <2>3. row \in EntryRow /\ row.status = "ASSIGNED"
    BY <2>2 DEF EntryRow, EntryStatus
  <2>4. entry'[e] = row /\ \A f \in Entries : f # e => entry'[f] = entry[f]
    BY <1>0, <1>3, <2>1 DEF AssignTx
  <2>5. \E x \in Sessions : session[x] = Unused /\ granted' = [granted EXCEPT ![e] = {x}]
    BY <1>3, <2>2 DEF AssignTx
  <2> HIDE DEF row
  <2>6. EntryChange(c, e)
    BY <2>1, <2>2, <2>3, <2>4, <2>5 DEF EntryChange
  <2> QED
    BY <2>1, <2>6
<1>4. CASE RemoveWrite(c)
  <2> DEFINE e == task[c].entry
  <2>1. e \in Entries /\ entry[e] \in EntryRow
    BY <1>0, <1>4, TaskFields DEF RemoveWrite
  <2>2. EntryChange(c, e)
    BY <1>0, <1>4, <2>1 DEF RemoveWrite, EntryChange
  <2> QED
    BY <2>1, <2>2
<1> QED
  BY <1>1, <1>2, <1>3, <1>4
  DEF ListStep, EnterCheck, ReviseRead, AssignRead, AssignRollback, RemoveRead, EntryNotFound,
      ListAbort

LEMMA QueueStep ==
  ASSUME QueueInv, NEW c \in Clerks, NEW e \in Entries, EntryChange(c, e)
  PROVE  Placement!Next \/ UNCHANGED Placement!queueVars
<1>1. \A f \in Entries : f # e => Stage'[f] = Stage[f]
  BY DEF Stage, EntryChange
<1>2. ASSUME NEW to, Stage'[e] = to PROVE Stage' = [Stage EXCEPT ![e] = to]
  BY <1>1, <1>2 DEF Stage
<1>3. CASE entry[e] = Unused /\ granted' = granted
           /\ entry'[e] \in EntryRow /\ entry'[e].status # "ASSIGNED"
  <2>1. Stage[e] = "absent" /\ Stage'[e] = "waiting"
    BY <1>3, StagesOfRows DEF Stage
  <2> QED
    BY <1>2, <1>3, <2>1 DEF Placement!Next, Placement!Enter
<1>4. CASE entry[e] \in EntryRow /\ entry[e].status # "ASSIGNED" /\ granted' = granted
           /\ entry'[e] \in EntryRow /\ entry'[e].status # "ASSIGNED"
  <2>1. Stage[e] = "waiting" /\ Stage'[e] = "waiting"
    BY <1>4, StagesOfRows DEF Stage
  <2>2. Stage' = Stage
    BY <1>1, <2>1 DEF Stage
  <2> QED
    BY <1>4, <2>2 DEF Placement!queueVars
<1>5. CASE entry[e] \in EntryRow /\ entry[e].status = "PENDING" /\ granted[e] = {}
           /\ entry'[e] \in EntryRow /\ entry'[e].status = "ASSIGNED"
           /\ \E x \in Sessions : session[x] = Unused /\ granted' = [granted EXCEPT ![e] = {x}]
  <2>1. Stage[e] = "waiting" /\ Stage'[e] = "placed"
    BY <1>5, StagesOfRows DEF Stage
  <2>2. PICK x \in Sessions : session[x] = Unused /\ granted' = [granted EXCEPT ![e] = {x}]
    BY <1>5
  <2>3. \A f \in Entries : x \notin granted[f]
    BY <2>2 DEF QueueInv
  <2>4. Stage' = [Stage EXCEPT ![e] = "placed"]
    BY <1>2, <2>1
  <2> QED
    BY <1>5, <2>1, <2>2, <2>3, <2>4 DEF Placement!Next, Placement!Place
<1>6. CASE entry[e] \in EntryRow /\ entry'[e] = Gone /\ granted' = granted
  <2>1. Stage[e] \in {"waiting", "placed"} /\ Stage'[e] = "gone"
    BY <1>6, StagesOfRows DEF Stage
  <2> QED
    BY <1>2, <1>6, <2>1 DEF Placement!Next, Placement!Leave
<1> QED
  BY <1>3, <1>4, <1>5, <1>6 DEF EntryChange

(* On the terms of AssignedIsGranted the waiting list is a queue: an entry waits
   until it leaves or is given one session, one that was never given before, and
   what was assigned never waits again, whatever becomes of the session. *)
THEOREM WaitingListIsQueue ==
  ASSUME RevisionSerialised, OnlyAssignAssigns
  PROVE  ListSpec => PlacementSpec
<1>1. ListInit => Placement!Init
  BY StagesOfRows DEF ListInit, Placement!Init, Stage
<1>2. QueueInv /\ [ListNext]_allVars => [Placement!Next]_(Placement!queueVars)
  <2> SUFFICES ASSUME QueueInv, [ListNext]_allVars
               PROVE  Placement!Next \/ UNCHANGED Placement!queueVars
    OBVIOUS
  <2>1. CASE UNCHANGED <<entry, granted>>
    BY <2>1 DEF Placement!queueVars, Stage
  <2>2. ASSUME NEW c \in Clerks, ListStep(c)
        PROVE  Placement!Next \/ UNCHANGED Placement!queueVars
    BY <2>1, <2>2, EntriesChange, QueueStep DEF QueueInv
  <2> QED
    BY <2>1, <2>2 DEF ListNext, allVars, listVars
<1> QED
  BY <1>1, <1>2, QueueInvInit, QueueInvStep, PTL DEF ListSpec, PlacementSpec, Placement!Spec

(***************************************************************************)
(* What is assigned is not deleted                                         *)
(***************************************************************************)

(* An entry whose removal is under way is not assigned meanwhile. *)
RemovalInv ==
  /\ GrantInv
  /\ \A c \in Clerks : task[c].at = "remove" =>
       /\ "remove" \in Handles[c]
       /\ entry[task[c].entry] \in EntryRow => entry[task[c].entry].status # "ASSIGNED"

LEMMA RemovalTask ==
  ASSUME RemovalInv, NEW c \in Clerks, ListStep(c), NEW d \in Clerks, task'[d].at = "remove"
  PROVE  \/ task'[d] = task[d]
         \/ /\ UNCHANGED <<entry, granted>> /\ "remove" \in Handles[d]
            /\ \E e \in Entries : task'[d].entry = e /\ entry[e].status # "ASSIGNED"
<1>0. task \in [Clerks -> Task]
  BY DEF RemovalInv, GrantInv, ListTypeOK
<1>1. ASSUME NEW next, Proceed(c, next) PROVE task'[d] = IF d = c THEN next ELSE task[d]
  BY <1>0, <1>1 DEF Proceed
<1>2. CASE \E e \in Entries : RemoveRead(c, e)
  BY <1>1, <1>2 DEF RemoveRead, Free
<1>3. CASE \E wish \in Wishes : EnterCheck(c, wish)
  BY <1>1, <1>3 DEF EnterCheck
<1>4. CASE \E e \in Entries, status \in NewStatuses, wish \in Wishes :
             ReviseRead(c, e, status, wish)
  BY <1>1, <1>4 DEF ReviseRead
<1>5. CASE \E e \in Entries, s \in Schedules : AssignRead(c, e, s)
  BY <1>1, <1>5 DEF AssignRead
<1>6. CASE Finish(c)
  BY <1>1, <1>6 DEF Finish, Idle
<1> QED
  BY <1>2, <1>3, <1>4, <1>5, <1>6
  DEF ListStep, EnterInsert, ReviseWrite, AssignTx, AssignRollback, RemoveWrite, EntryNotFound,
      ListAbort

LEMMA RemovalInvStep ==
  ASSUME RevisionSerialised, OnlyAssignAssigns, RemovalSerialised
  PROVE  RemovalInv /\ [ListNext]_allVars => RemovalInv'
<1> SUFFICES ASSUME RemovalInv, [ListNext]_allVars PROVE RemovalInv'
  OBVIOUS
<1>0. GrantInv /\ GrantInv' /\ task \in [Clerks -> Task]
  BY GrantInvStep DEF RemovalInv, GrantInv, ListTypeOK
<1>1. CASE UNCHANGED listVars
  BY <1>0, <1>1 DEF listVars, RemovalInv
<1>2. ASSUME NEW c \in Clerks, ListStep(c) PROVE RemovalInv'
  <2> SUFFICES ASSUME NEW d \in Clerks, task'[d].at = "remove"
               PROVE  /\ "remove" \in Handles[d]
                      /\ entry'[task'[d].entry] \in EntryRow =>
                           entry'[task'[d].entry].status # "ASSIGNED"
    BY <1>0 DEF RemovalInv
  <2>1. CASE task'[d] = task[d] /\ UNCHANGED <<entry, granted>>
    BY <2>1 DEF RemovalInv
  <2>2. CASE task'[d] # task[d]
    BY <1>2, <2>2, RemovalTask
  <2>3. ASSUME task'[d] = task[d], NEW e \in Entries, EntryChange(c, e)
        PROVE  /\ "remove" \in Handles[d]
               /\ entry'[task'[d].entry] \in EntryRow =>
                    entry'[task'[d].entry].status # "ASSIGNED"
    <3>1. /\ "remove" \in Handles[d] /\ task[d].entry \in Entries
          /\ entry[task[d].entry] # Unused
          /\ entry[task[d].entry] \in EntryRow => entry[task[d].entry].status # "ASSIGNED"
      BY <1>0, <2>3, TaskFields DEF RemovalInv, GrantInv, LaneInv
    <3>2. task[c].at = "assignTx" => "assign" \in Handles[c] /\ c # d
      BY <1>0, <2>3 DEF GrantInv, LaneInv
    <3>3. task[c].at # "assignTx"
      BY <3>1, <3>2 DEF RemovalSerialised
    <3> QED
      BY <2>3, <3>1, <3>3, EntriesAreLive DEF EntryChange
  <2> QED
    BY <1>0, <1>2, <2>1, <2>2, <2>3, EntriesChange
<1> QED
  BY <1>1, <1>2 DEF ListNext, allVars

(* If removals do not run beside assignments either, an entry that was assigned
   is never deleted ("Cannot delete assigned waiting list entry"). *)
THEOREM AssignedAreKept ==
  ASSUME RevisionSerialised, OnlyAssignAssigns, RemovalSerialised
  PROVE  ListSpec => AssignedStays
<1> DEFINE Stays ==
      \A e \in Entries : LiveEntry(e) /\ entry[e].status = "ASSIGNED" => LiveEntry(e)'
<1>1. ListInit => RemovalInv
  BY GrantInvInit DEF ListInit, RemovalInv, Idle
<1>2. ASSUME RemovalInv, [ListNext]_allVars PROVE Stays
  <2>1. CASE UNCHANGED entry
    BY <2>1 DEF LiveEntry
  <2>2. ASSUME NEW c \in Clerks, NEW e \in Entries, EntryChange(c, e) PROVE Stays
    BY <1>2, <2>2, EntriesAreLive DEF EntryChange, RemovalInv, LiveEntry
  <2> QED
    BY <1>2, <2>1, <2>2, EntriesChange DEF ListNext, allVars, listVars, RemovalInv
<1> QED
  BY <1>1, <1>2, RemovalInvStep, PTL DEF ListSpec, AssignedStays

=============================================================================
