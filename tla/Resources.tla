----------------------------- MODULE Resources -----------------------------
(***************************************************************************)
(* TenantService, SchoolsService, ClassesService, SubjectsService and      *)
(* RoomsService (src/backend/src/{tenant,schools,classes,subjects,rooms}): *)
(* the rows a timetable is made of, each under its parent: schools under a *)
(* tenant, classes, subjects and rooms under a school.  The five services  *)
(* have one shape: read and check, then write by identifier in a call of   *)
(* its own.  The database refuses a write to a row that is gone and        *)
(* deletes the rows below a row that is deleted.  The people a removal     *)
(* counts are the users of UsersService (src/backend/src/users), each with *)
(* a tenant, perhaps a school and, as a student, perhaps a class.          *)
(***************************************************************************)
EXTENDS Requests

CONSTANTS
  Rows,      \* identifiers of rows
  KindOf,    \* KindOf[r]: the table of row r
  Names,     \* names of rows (the code of a subject)
  People,    \* identifiers of users
  Clerks,    \* the requests that can interleave
  Offices    \* Offices[c]: the methods clerk c may execute

Members == {"class", "subject", "room"}
Kinds   == {"tenant", "school"} \cup Members
ResourceMethods ==
  {"create", "update", "remove", "assign", "unassign", "status", "enroll", "dismiss"}

ASSUME ResourceAssumption ==
  /\ KindOf \in [Rows -> Kinds]
  /\ Offices \in [Clerks -> SUBSET ResourceMethods]
  /\ Blank \notin Rows \cup Names

ResourceRow == [parent : Rows \cup {Blank}, name : Names, active : BOOLEAN]

(* Where a user is. *)
RowsOf(kind) == {r \in Rows : KindOf[r] = kind}
Seat ==
  [tenant : RowsOf("tenant"), school : RowsOf("school") \cup {Blank}, class : RowsOf("class") \cup {Blank}]

ASSUME ResourceRowAssumption == Blank \notin Seat /\ Absent \cap ResourceRow = {}

VARIABLES
  table,   \* table[r]: row r
  links,   \* the subjects assigned to classes, as pairs <<class, subject>>
  seat,    \* seat[p]: where user p is, Blank if there is no such user
  desk     \* desk[c]: what the request of clerk c does next

resVars == <<table, links, seat, desk>>

Stored(r)   == table[r] \notin Absent
Rank(kind)  == {r \in Rows : KindOf[r] = kind /\ Stored(r)}
Under(p)    == {r \in Rows : Stored(r) /\ table[r].parent = p}
Below(r)    == Under(r) \cup UNION {Under(q) : q \in Under(r)}
LinksOf(r)  == {l \in links : r \in {l[1], l[2]}}
PeopleAt(r) ==
  {p \in People : seat[p] # Blank /\ r \in {seat[p].tenant, seat[p].school, seat[p].class}}

(* What a request holds between its check and its write. *)
Deed ==
  {Idle}
  \cup [at : {"insert"}, kind : Kinds, row : ResourceRow]
  \cup [at : {"update"}, row : Rows, name : Names \cup {Blank}, active : BOOLEAN]
  \cup [at : {"delete"}, row : Rows]
  \cup [at : {"link"}, class : Rows, subject : Rows]

ResTypeOK ==
  /\ table \in [Rows -> ResourceRow \cup Absent]
  /\ links \subseteq Rows \X Rows
  /\ seat \in [People -> Seat \cup {Blank}]
  /\ desk \in [Clerks -> Deed]

ResInit ==
  /\ table = [r \in Rows |-> Unused]
  /\ links = {}
  /\ seat = [p \in People |-> Blank]
  /\ desk = [c \in Clerks |-> Idle]

Takes(c, method) == desk[c] = Idle /\ method \in Offices[c]
Turns(c, what)  == desk' = [desk EXCEPT ![c] = what]
Closes(c)        == Turns(c, Idle)

(* Another row of the table has the name under that parent. *)
Taken(kind, parent, name, but) ==
  \E r \in Rank(kind) \ {but} : table[r].parent = parent /\ table[r].name = name

-----------------------------------------------------------------------------
(* create: the parent exists and is active, and the name is free. *)

Create(c, kind, parent, name, active) ==
  /\ Takes(c, "create")
  /\ ~ Taken(kind, parent, name, Blank)
  /\ Turns(c, [at |-> "insert", kind |-> kind,
               row |-> [parent |-> parent, name |-> name, active |-> active]])
  /\ UNCHANGED <<table, links, seat>>

Open(kind) == {r \in Rank(kind) : table[r].active}

CreateTenant(c, name, active) == Create(c, "tenant", Blank, name, active)
CreateSchool(c, t, name, active) == Create(c, "school", t, name, active) /\ t \in Open("tenant")
CreateClass(c, s, name, active) == Create(c, "class", s, name, active) /\ s \in Open("school")
CreateSubject(c, s, name, active) == Create(c, "subject", s, name, active) /\ s \in Open("school")
CreateRoom(c, s, name, active) == Create(c, "room", s, name, active) /\ s \in Open("school")

(* The names of tenants are unique in the database too. *)
Insert(c) ==
  LET kind == desk[c].kind  new == desk[c].row IN
  /\ desk[c].at = "insert"
  /\ new.parent # Blank => Stored(new.parent)
  /\ kind = "tenant" => ~ Taken(kind, Blank, new.name, Blank)
  /\ \E r \in Rows : KindOf[r] = kind /\ table[r] = Unused /\ table' = [table EXCEPT ![r] = new]
  /\ Closes(c)
  /\ UNCHANGED <<links, seat>>

-----------------------------------------------------------------------------
(* update: the name is free if one is given, and the flag is written back as
   TRUE when the request leaves it out: the class of the request sets it. *)

Update(c, kind, r, name, active) ==
  /\ Takes(c, "update")
  /\ r \in Rank(kind)
  /\ ~ Taken(kind, table[r].parent, name, r)
  /\ Turns(c, [at |-> "update", row |-> r, name |-> name, active |-> active])
  /\ UNCHANGED <<table, links, seat>>

UpdateTenant(c, r, name, active)  == Update(c, "tenant", r, name, active)
UpdateSchool(c, r, name, active)  == Update(c, "school", r, name, active)
UpdateClass(c, r, name, active)   == Update(c, "class", r, name, active)
UpdateSubject(c, r, name, active) == Update(c, "subject", r, name, active)
UpdateRoom(c, r, name, active)    == Update(c, "room", r, name, active)

UpdateRow(c) ==
  LET r == desk[c].row IN
  /\ desk[c].at = "update" /\ Stored(r)
  /\ table' = [table EXCEPT
       ![r].name = Kept(desk[c].name, @), ![r].active = desk[c].active]
  /\ Closes(c)
  /\ UNCHANGED <<links, seat>>

-----------------------------------------------------------------------------
(* remove: refused while something hangs on the row or somebody is at it, as
   each service sees it. *)

Discard(c, kind, r, refused) ==
  /\ Takes(c, "remove")
  /\ r \in Rank(kind) /\ ~ refused
  /\ Turns(c, [at |-> "delete", row |-> r])
  /\ UNCHANGED <<table, links, seat>>

RemoveTenant(c, r)  == Discard(c, "tenant", r, Under(r) # {} \/ PeopleAt(r) # {})
RemoveSchool(c, r)  == Discard(c, "school", r, Under(r) # {} \/ PeopleAt(r) # {})
RemoveClass(c, r)   == Discard(c, "class", r, LinksOf(r) # {} \/ PeopleAt(r) # {})

(* Mutant: a subject is removed whatever it is assigned to. *)
RemoveSubjectFreely(c, r) == Discard(c, "subject", r, FALSE)

RemoveSubject(c, r) == Discard(c, "subject", r, LinksOf(r) # {})
RemoveRoom(c, r)    == Discard(c, "room", r, FALSE)

(* The users of a tenant go with it; a user whose school or class goes stays. *)
Unseated(place, lost) ==
  LET Left(r) == IF r \in lost THEN Blank ELSE r IN
  IF place = Blank \/ place.tenant \in lost THEN Blank
  ELSE [tenant |-> place.tenant, school |-> Left(place.school), class |-> Left(place.class)]

DeleteRow(c) ==
  LET lost == {desk[c].row} \cup Below(desk[c].row) IN
  /\ desk[c].at = "delete" /\ Stored(desk[c].row)
  /\ table' = [r \in Rows |-> IF r \in lost THEN Gone ELSE table[r]]
  /\ links' = links \ UNION {LinksOf(r) : r \in lost}
  /\ seat' = [p \in People |-> Unseated(seat[p], lost)]
  /\ Closes(c)

-----------------------------------------------------------------------------
(* activate and deactivate: one write after a read that only finds the row; a
   school takes its members with it, a tenant its schools and not their
   members. *)

SetActive(c, kind, r, rows, active) ==
  /\ Takes(c, "status")
  /\ r \in Rank(kind)
  /\ table' = [q \in Rows |-> IF q \in rows THEN [table[q] EXCEPT !.active = active] ELSE table[q]]
  /\ UNCHANGED <<links, seat, desk>>

DeactivateTenant(c, r)  == SetActive(c, "tenant", r, {r} \cup Under(r), FALSE)
ActivateTenant(c, r)    == SetActive(c, "tenant", r, {r}, TRUE)
DeactivateSchool(c, r)  == SetActive(c, "school", r, {r} \cup Under(r), FALSE)
ActivateSchool(c, r)    == SetActive(c, "school", r, {r}, TRUE)
DeactivateClass(c, r)   == SetActive(c, "class", r, {r}, FALSE)
ActivateClass(c, r)     == SetActive(c, "class", r, {r}, TRUE)
DeactivateSubject(c, r) == SetActive(c, "subject", r, {r}, FALSE)
ActivateSubject(c, r)   == SetActive(c, "subject", r, {r}, TRUE)
DeactivateRoom(c, r)    == SetActive(c, "room", r, {r}, FALSE)
ActivateRoom(c, r)      == SetActive(c, "room", r, {r}, TRUE)

-----------------------------------------------------------------------------
(* assignSubject and removeSubject of ClassesService: a subject of the same
   school, not assigned yet; the database keeps a pair once. *)

AssignSubject(c, cl, su) ==
  /\ Takes(c, "assign")
  /\ cl \in Rank("class") /\ su \in Rank("subject")
  /\ table[cl].parent = table[su].parent
  /\ <<cl, su>> \notin links
  /\ Turns(c, [at |-> "link", class |-> cl, subject |-> su])
  /\ UNCHANGED <<table, links, seat>>

Link(c) ==
  LET pair == <<desk[c].class, desk[c].subject>> IN
  /\ desk[c].at = "link"
  /\ Stored(pair[1]) /\ Stored(pair[2]) /\ pair \notin links
  /\ links' = links \cup {pair}
  /\ Closes(c)
  /\ UNCHANGED <<table, seat>>

UnassignSubject(c, cl, su) ==
  /\ Takes(c, "unassign")
  /\ <<cl, su>> \in links
  /\ links' = links \ {<<cl, su>>}
  /\ UNCHANGED <<table, seat, desk>>

-----------------------------------------------------------------------------
(* create, update and remove of UsersService, each at its write: no read before
   it is about the tenant or the school, which the database finds or refuses.
   Nothing in the backend writes the class of a student: it is written from
   outside. *)

SeatsAt(c, method, p, place) ==
  /\ Takes(c, method)
  /\ seat' = [seat EXCEPT ![p] = place]
  /\ UNCHANGED <<table, links, desk>>

EnrollUser(c, p, t, s) ==
  /\ seat[p] = Blank
  /\ t \in Rank("tenant") /\ s \in Rank("school") \cup {Blank}
  /\ SeatsAt(c, "enroll", p, [tenant |-> t, school |-> s, class |-> Blank])

MoveUser(c, p, t, s) ==
  /\ seat[p] # Blank
  /\ t \in Rank("tenant") /\ s \in Rank("school") \cup {Blank}
  /\ SeatsAt(c, "enroll", p, [tenant |-> t, school |-> s, class |-> seat[p].class])

JoinClass(c, p, cl) ==
  /\ seat[p] # Blank /\ cl \in Rank("class") \cup {Blank}
  /\ SeatsAt(c, "enroll", p, [seat[p] EXCEPT !.class = cl])

DismissUser(c, p) == seat[p] # Blank /\ SeatsAt(c, "dismiss", p, Blank)

-----------------------------------------------------------------------------
(* A write the database refuses, a database error or the end of the process. *)
ResAbort(c) ==
  /\ desk[c] # Idle
  /\ Closes(c)
  /\ UNCHANGED <<table, links, seat>>

(* What the controllers call. *)

TenantStep(c) ==
  \/ \E name \in Names, active \in BOOLEAN : CreateTenant(c, name, active)
  \/ \E r \in RowsOf("tenant") :
       \/ \E name \in Names \cup {Blank}, active \in BOOLEAN : UpdateTenant(c, r, name, active)
       \/ RemoveTenant(c, r) \/ DeactivateTenant(c, r) \/ ActivateTenant(c, r)

SchoolStep(c) ==
  \/ \E t \in RowsOf("tenant"), name \in Names, active \in BOOLEAN : CreateSchool(c, t, name, active)
  \/ \E r \in RowsOf("school") :
       \/ \E name \in Names \cup {Blank}, active \in BOOLEAN : UpdateSchool(c, r, name, active)
       \/ RemoveSchool(c, r) \/ DeactivateSchool(c, r) \/ ActivateSchool(c, r)

ClassStep(c) ==
  \/ \E s \in RowsOf("school"), name \in Names, active \in BOOLEAN : CreateClass(c, s, name, active)
  \/ \E r \in RowsOf("class") :
       \/ \E name \in Names \cup {Blank}, active \in BOOLEAN : UpdateClass(c, r, name, active)
       \/ RemoveClass(c, r) \/ DeactivateClass(c, r) \/ ActivateClass(c, r)
       \/ \E su \in RowsOf("subject") : AssignSubject(c, r, su) \/ UnassignSubject(c, r, su)

SubjectStep(c) ==
  \/ \E s \in RowsOf("school"), name \in Names, active \in BOOLEAN : CreateSubject(c, s, name, active)
  \/ \E r \in RowsOf("subject") :
       \/ \E name \in Names \cup {Blank}, active \in BOOLEAN : UpdateSubject(c, r, name, active)
       \/ RemoveSubject(c, r) \/ DeactivateSubject(c, r) \/ ActivateSubject(c, r)

RoomStep(c) ==
  \/ \E s \in RowsOf("school"), name \in Names, active \in BOOLEAN : CreateRoom(c, s, name, active)
  \/ \E r \in RowsOf("room") :
       \/ \E name \in Names \cup {Blank}, active \in BOOLEAN : UpdateRoom(c, r, name, active)
       \/ RemoveRoom(c, r) \/ DeactivateRoom(c, r) \/ ActivateRoom(c, r)

PeopleStep(c) == \E p \in People :
  \/ \E t \in RowsOf("tenant"), s \in RowsOf("school") \cup {Blank} :
       EnrollUser(c, p, t, s) \/ MoveUser(c, p, t, s)
  \/ \E cl \in RowsOf("class") \cup {Blank} : JoinClass(c, p, cl)
  \/ DismissUser(c, p)

ResStep(c) ==
  \/ TenantStep(c) \/ SchoolStep(c) \/ ClassStep(c) \/ SubjectStep(c) \/ RoomStep(c)
  \/ PeopleStep(c)
  \/ Insert(c) \/ UpdateRow(c) \/ DeleteRow(c) \/ Link(c) \/ ResAbort(c)

ResNext == \E c \in Clerks : ResStep(c)

ResSpec == ResInit /\ [][ResNext]_resVars

-----------------------------------------------------------------------------
(* A removal that was not refused destroys the row it names and nothing else:
   "Please remove all associated data first".  The database would delete what
   hangs on the row without a word, so that all rests on checks made calls
   before, beside which rows are renamed, switched on and off and taken apart
   and users are removed.  It speaks of what those checks name: schools, classes,
   subjects, rooms, the subjects of classes, the users and students.  Sessions, schedules, slots and invoices, which
   no check asks for, go with a row by the cascades of the schema. *)
RemovalDestroysNothing ==
  [][\A c \in Clerks :
       desk[c].at = "delete" /\ table'[desk[c].row] # table[desk[c].row] /\ desk'[c] = Idle =>
         /\ links' = links /\ seat' = seat
         /\ \A r \in Rows \ {desk[c].row} : table'[r] = table[r]]_resVars
=============================================================================
