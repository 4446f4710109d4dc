---------------------------- MODULE WaitingList ----------------------------
(***************************************************************************)
(* WaitingListService (src/backend/src/waiting-list/                       *)
(* waiting-list.service.ts): requests for a session that could not be      *)
(* placed, and their assignment to a schedule.  Assignment inserts into    *)
(* the table of sessions, beside ScheduleService.createSession and with    *)
(* none of its checks, so this module composes with Schedule: `schedule`,  *)
(* `session` and `req` are that module's, and its steps interleave here.   *)
(***************************************************************************)
EXTENDS Schedule

CONSTANTS
  Entries,         \* identifiers of waiting list rows
  Clerks,          \* the waiting list requests the server can interleave
  Handles,         \* Handles[c]: the methods clerk c may execute
  Wishes,          \* what users wait for
  NewStatuses,     \* the statuses an update may carry, Keep for none
  TimeSlots,       \* hours of the week, as an entry names them
  Occurs,          \* Occurs[t]: the dated slots t can become under `date: new Date()`
  None             \* an optional field that was not given

EntryStatus == {"PENDING", "IN_PROGRESS", "ASSIGNED", "CANCELLED"}
EntryMethods == {"create", "update", "assign", "remove"}

(* A wish names a class and may leave the other resources open. *)
Wish == [class : Classes, teacher : Teachers \cup {None},
         room : Rooms \cup {None}, slot : TimeSlots \cup {None}]
EntryRow == [wish : Wish, status : EntryStatus]

ASSUME WishAssumption ==
  /\ Wishes \subseteq Wish
  /\ NewStatuses \subseteq EntryStatus \cup {Keep}
  /\ Occurs \in [TimeSlots -> SUBSET Slots]
  /\ Handles \in [Clerks -> SUBSET EntryMethods]
  /\ Unused \notin EntryRow /\ Gone \notin EntryRow

VARIABLES
  entry,      \* entry[e]: the row of waiting list entry e
  granted,    \* granted[e]: the sessions assignments of e inserted (history)
  task        \* task[c]: the request of clerk c and the call it makes next

listVars == <<entry, granted, task>>
allVars  == <<vars, listVars>>

LiveEntry(e) == entry[e] \notin {Unused, Gone}

Task ==
  [at : {"idle"}]
  \cup [at : {"insert"}, wish : Wishes]
  \cup [at : {"write"}, entry : Entries, status : NewStatuses, wish : Wishes]
  \cup [at : {"assignTx"}, entry : Entries, schedule : Schedules, wish : Wish]
  \cup [at : {"remove"}, entry : Entries]

ListTypeOK ==
  /\ entry \in [Entries -> EntryRow \cup {Unused, Gone}]
  /\ granted \in [Entries -> SUBSET Sessions]
  /\ task \in [Clerks -> Task]

ListInit ==
  /\ Init
  /\ entry = [e \in Entries |-> Unused]
  /\ granted = [e \in Entries |-> {}]
  /\ task = [c \in Clerks |-> Idle]

Free(c, method) == task[c] = Idle /\ method \in Handles[c]
Proceed(c, next) == task' = [task EXCEPT ![c] = next]
Finish(c)        == Proceed(c, Idle)

-----------------------------------------------------------------------------
(* create: the search for a similar open entry, then the insert.  A field the
   request leaves undefined is no condition of the search. *)

Similar(wish, row) ==
  /\ row.status \in {"PENDING", "IN_PROGRESS"}
  /\ row.wish.class = wish.class
  /\ wish.teacher \in {None, row.wish.teacher}
  /\ wish.room \in {None, row.wish.room}
  /\ wish.slot \in {None, row.wish.slot}

EnterCheck(c, wish) ==
  /\ Free(c, "create")
  /\ ~ \E e \in Entries : LiveEntry(e) /\ Similar(wish, entry[e])
  /\ Proceed(c, [at |-> "insert", wish |-> wish])
  /\ UNCHANGED <<vars, entry, granted>>

EnterInsert(c) ==
  /\ task[c].at = "insert"
  /\ \E e \in Entries :
       /\ entry[e] = Unused
       /\ entry' = [entry EXCEPT ![e] = [wish |-> task[c].wish, status |-> "PENDING"]]
  /\ Finish(c)
  /\ UNCHANGED <<vars, granted>>

(* update: refused once assigned, as far as findOne saw. *)

(* Mutant: ASSIGNED entries are updated too. *)
ReviseReadAny(c, e, status, wish) ==
  /\ Free(c, "update")
  /\ LiveEntry(e)
  /\ Proceed(c, [at |-> "write", entry |-> e, status |-> status, wish |-> wish])
  /\ UNCHANGED <<vars, entry, granted>>

ReviseRead(c, e, status, wish) ==
  /\ Free(c, "update")
  /\ LiveEntry(e)
  /\ entry[e].status # "ASSIGNED"
  /\ Proceed(c, [at |-> "write", entry |-> e, status |-> status, wish |-> wish])
  /\ UNCHANGED <<vars, entry, granted>>

(* The fields the update leaves undefined keep their value. *)
Wished(new, old) == IF new = None THEN old ELSE new

(* Mutant: an update without a status clears it. *)
RevisedBlank(row, wish, status) == [wish |-> wish, status |-> status]

Revised(row, wish, status) ==
  [wish |-> [class |-> wish.class, teacher |-> Wished(wish.teacher, row.wish.teacher),
             room |-> Wished(wish.room, row.wish.room),
             slot |-> Wished(wish.slot, row.wish.slot)],
   status |-> Given(status, row.status)]

ReviseWrite(c) ==
  /\ task[c].at = "write"
  /\ LiveEntry(task[c].entry)
  /\ entry' = [entry EXCEPT ![task[c].entry] = Revised(@, task[c].wish, task[c].status)]
  /\ Finish(c)
  /\ UNCHANGED <<vars, granted>>

(* assignFromWaitingList: the status is checked outside the transaction that
   sets ASSIGNED and inserts the session. *)

(* Mutant: any status may be assigned. *)
AssignReadAny(c, e, s) ==
  /\ Free(c, "assign")
  /\ LiveEntry(e)
  /\ Proceed(c, [at |-> "assignTx", entry |-> e, schedule |-> s, wish |-> entry[e].wish])
  /\ UNCHANGED <<vars, entry, granted>>

AssignRead(c, e, s) ==
  /\ Free(c, "assign")
  /\ LiveEntry(e)
  /\ entry[e].status = "PENDING"
  /\ Proceed(c, [at |-> "assignTx", entry |-> e, schedule |-> s, wish |-> entry[e].wish])
  /\ UNCHANGED <<vars, entry, granted>>

(* The columns the insert requires. *)
Complete(wish) == None \notin {wish.teacher, wish.room, wish.slot}

(* The session keeps the time slot of the wish and takes the day of the
   assignment: "This should be calculated based on schedule dates". *)
AssignTx(c) ==
  LET e == task[c].entry  wish == task[c].wish IN
  /\ task[c].at = "assignTx"
  /\ LiveEntry(e) /\ LiveSchedule(task[c].schedule) /\ Complete(wish)
  /\ entry' = [entry EXCEPT ![e] = [wish |-> @.wish, status |-> "ASSIGNED"]]
  /\ \E x \in Sessions, now \in Occurs[wish.slot] :
       /\ session[x] = Unused
       /\ session' = [session EXCEPT ![x] =
            [schedule |-> task[c].schedule, teacher |-> wish.teacher, room |-> wish.room,
             class |-> wish.class, slot |-> now, status |-> "SCHEDULED"]]
       /\ granted' = [granted EXCEPT ![e] = @ \cup {x}]
  /\ Finish(c)
  /\ UNCHANGED <<schedule, req>>

(* Mutant: the entry is set outside the transaction that fails. *)
AssignRollbackPartly(c) ==
  /\ task[c].at = "assignTx"
  /\ ~ LiveEntry(task[c].entry) \/ ~ LiveSchedule(task[c].schedule) \/ ~ Complete(task[c].wish)
  /\ entry' = [entry EXCEPT ![task[c].entry] =
                 IF LiveEntry(task[c].entry) THEN [wish |-> @.wish, status |-> "ASSIGNED"] ELSE @]
  /\ Finish(c)
  /\ UNCHANGED <<vars, granted>>

(* A missing entry, schedule, teacher, room or time slot fails the
   transaction as a whole. *)
AssignRollback(c) ==
  /\ task[c].at = "assignTx"
  /\ ~ LiveEntry(task[c].entry) \/ ~ LiveSchedule(task[c].schedule) \/ ~ Complete(task[c].wish)
  /\ Finish(c)
  /\ UNCHANGED <<vars, entry, granted>>

(* remove: refused once assigned, as far as findOne saw. *)

RemoveRead(c, e) ==
  /\ Free(c, "remove")
  /\ LiveEntry(e)
  /\ entry[e].status # "ASSIGNED"
  /\ Proceed(c, [at |-> "remove", entry |-> e])
  /\ UNCHANGED <<vars, entry, granted>>

RemoveWrite(c) ==
  /\ task[c].at = "remove"
  /\ LiveEntry(task[c].entry)
  /\ entry' = [entry EXCEPT ![task[c].entry] = Gone]
  /\ Finish(c)
  /\ UNCHANGED <<vars, granted>>

EntryNotFound(c) ==
  /\ task[c].at \in {"write", "remove"}
  /\ ~ LiveEntry(task[c].entry)
  /\ Finish(c)
  /\ UNCHANGED <<vars, entry, granted>>

ListAbort(c) ==
  /\ task[c] # Idle
  /\ Finish(c)
  /\ UNCHANGED <<vars, entry, granted>>

ListStep(c) ==
  \/ \E wish \in Wishes : EnterCheck(c, wish)
  \/ EnterInsert(c)
  \/ \E e \in Entries, status \in NewStatuses, wish \in Wishes :
       ReviseRead(c, e, status, wish)
  \/ ReviseWrite(c)
  \/ \E e \in Entries, s \in Schedules : AssignRead(c, e, s)
  \/ AssignTx(c)
  \/ AssignRollback(c)
  \/ \E e \in Entries : RemoveRead(c, e)
  \/ RemoveWrite(c)
  \/ EntryNotFound(c)
  \/ ListAbort(c)

ListNext ==
  \/ Next /\ UNCHANGED listVars
  \/ \E c \in Clerks : ListStep(c)

ListSpec == ListInit /\ [][ListNext]_allVars

-----------------------------------------------------------------------------
(* What the properties rest on, since only the transaction is atomic: one lane
   executes update and assign, one call at a time, and users do not set
   ASSIGNED themselves, which the update DTO would let them. *)
RevisionSerialised ==
  \A c, d \in Clerks :
    Handles[c] \cap {"update", "assign"} # {} /\ Handles[d] \cap {"update", "assign"} # {}
    => c = d

OnlyAssignAssigns == "ASSIGNED" \notin NewStatuses

(* No removal runs beside an assignment. *)
RemovalSerialised ==
  \A c, d \in Clerks : "remove" \in Handles[c] /\ "assign" \in Handles[d] => c = d

(* Updates of sessions retime and cancel them and leave their resources. *)
UpdatesKeepResources ==
  \A change \in SessionChanges : change.teacher = Keep /\ change.room = Keep

(* An entry is ASSIGNED exactly when an assignment inserted a session for it:
   the transaction never leaves one without the other, and no stale update
   reverts it. *)
GrantMatchesStatus ==
  \A e \in Entries : LiveEntry(e) => (entry[e].status = "ASSIGNED" <=> granted[e] # {})

(* No entry is assigned twice: "Only pending waiting list entries can be
   assigned", a check that is outside the transaction which inserts. *)
GrantedOnce == \A e \in Entries : \A x, y \in granted[e] : x = y

(* The session an assignment inserted is the one the entry asks for: the copy
   of the wish that was read before the transaction is not out of date. *)
GrantHonoursWish ==
  \A e \in Entries : \A x \in granted[e] :
    LiveEntry(e) /\ LiveSession(x) =>
      /\ session[x].class = entry[e].wish.class
      /\ session[x].teacher = entry[e].wish.teacher
      /\ session[x].room = entry[e].wish.room

(* An assigned entry is not deleted: "Cannot delete assigned waiting list entry",
   a check that is a call away from the delete. *)
AssignedStays ==
  [][\A e \in Entries : LiveEntry(e) /\ entry[e].status = "ASSIGNED" => LiveEntry(e)']_allVars

(* The refinement: the entries are a queue, and ASSIGNED is to be placed. *)
StageOf(row) ==
  CASE row = Unused -> "absent"
    [] row = Gone -> "gone"
    [] OTHER -> IF row.status = "ASSIGNED" THEN "placed" ELSE "waiting"
Stage == [e \in Entries |-> StageOf(entry[e])]
Placement == INSTANCE PlacementQueue
               WITH Requests <- Entries, Places <- Sessions, stage <- Stage, given <- granted
PlacementSpec == Placement!Spec
=============================================================================
