---------------------------- MODULE Constraints ----------------------------
(***************************************************************************)
(* HardConstraintsService and SoftConstraintsService                       *)
(* (src/backend/src/scheduling/constraints): six hard constraints, six     *)
(* soft ones with weights, and the score out of a hundred.  They are pure  *)
(* functions of a context: the sessions, here a timetable that grows and   *)
(* comes in any order, and the slots, rooms, classes, teachers and         *)
(* preferences the caller passes, any of which it may leave out.  The dates *)
(* of the sessions are texts where the solver answers them and Date objects *)
(* where they are fetched from the database, and only texts are equal by    *)
(* value when they are the keys of a Map.                                   *)
(***************************************************************************)
EXTENDS Requests, Integers, Sequences, FiniteSets, Functions

CONSTANTS
  Lessons,      \* sessions a timetable may hold
  SlotOf,       \* SlotOf[s]: order, start hour and flag of slot s, where passed
  RoomOf,       \* RoomOf[r]: capacity and type of room r, where passed
  Enrolled,     \* Enrolled[c]: the students of class c, where passed
  Staff,        \* the teachers that are passed
  Preferences,  \* the preferences of the school
  MaxLessons    \* bound: sessions in a timetable

ASSUME ConstraintAssumption ==
  /\ MaxLessons \in Nat
  /\ \A l \in Lessons : {"teacher", "room", "class", "subject", "slot", "date", "live"} \subseteq DOMAIN l
  /\ \A s \in DOMAIN SlotOf : SlotOf[s].order \in Int
  /\ \A p \in Preferences : p.weight \in Int

VARIABLES
  timetable,
  bare,     \* the context holds sessions only, as OrToolsService makes it
  fetched   \* the sessions are rows, with Date objects, and no two are the same

conVars == <<timetable, bare, fetched>>

ConTypeOK ==
  /\ timetable \in Seq(Lessons) /\ Len(timetable) <= MaxLessons
  /\ bare \in BOOLEAN /\ fetched \in BOOLEAN

ConInit == timetable = << >> /\ bare \in BOOLEAN /\ fetched \in BOOLEAN

AddLesson(l) ==
  /\ Len(timetable) < MaxLessons
  /\ fetched => l \notin Range(timetable)
  /\ timetable' = Append(timetable, l)
  /\ UNCHANGED <<bare, fetched>>

(* Neither the solver nor the database gives the sessions in a certain order. *)
Reorder(i) ==
  /\ timetable' = [timetable EXCEPT ![i] = timetable[i + 1], ![i + 1] = timetable[i]]
  /\ UNCHANGED <<bare, fetched>>

ConNext ==
  \/ \E l \in Lessons : AddLesson(l)
  \/ \E i \in 1 .. (Len(timetable) - 1) : Reorder(i)

ConSpec == ConInit /\ [][ConNext]_conVars

Places == DOMAIN timetable
Known(i)  == ~ bare /\ timetable[i].slot \in DOMAIN SlotOf
InRoom(i) == ~ bare /\ timetable[i].room \in DOMAIN RoomOf

-----------------------------------------------------------------------------
(* The hard constraints.  The first three group the sessions by teacher, room
   or class, slot and date, and report a group of more than one, whether its
   sessions are cancelled or not; the key is one text, so that Date objects of
   one day meet in it. *)

(* Mutant: the class is part of every key. *)
TogetherInClass(i, who) ==
  {j \in Places : /\ timetable[j][who] = timetable[i][who]
                  /\ timetable[j].class = timetable[i].class
                  /\ timetable[j].slot = timetable[i].slot
                  /\ timetable[j].date = timetable[i].date}

Together(i, who) ==
  {j \in Places : /\ timetable[j][who] = timetable[i][who]
                  /\ timetable[j].slot = timetable[i].slot
                  /\ timetable[j].date = timetable[i].date}

Groups(who) == {g \in {Together(i, who) : i \in Places} : Cardinality(g) > 1}

TeacherConflict == Groups("teacher")

RoomConflict  == Groups("room")
ClassConflict == Groups("class")

TeacherAvailability ==
  {{i} : i \in {j \in Places : /\ Known(j) /\ timetable[j].teacher \in Staff
                               /\ SlotOf[timetable[j].slot].hour \notin 8 .. 17}}

RoomCapacity ==
  {{i} : i \in {j \in Places : /\ InRoom(j) /\ timetable[j].class \in DOMAIN Enrolled
                               /\ RoomOf[timetable[j].room].capacity < Enrolled[timetable[j].class]}}

SlotMissing  == {{i} : i \in {j \in Places : ~ Known(j)}}
SlotInactive == {{i} : i \in {j \in Places : Known(j) /\ ~ SlotOf[timetable[j].slot].active}}

(* validateAll: what is reported, each entry with the sessions it affects. *)
HardViolations ==
  UNION {TeacherConflict, RoomConflict, ClassConflict, TeacherAvailability, RoomCapacity,
         SlotMissing, SlotInactive}

HasViolations == HardViolations # {}

-----------------------------------------------------------------------------
(* The soft constraints: the penalty of each. *)

(* OrToolsService passes preferences on without their type. *)
Wanted(type) == {p \in Preferences : ~ bare /\ p.type = type}

(* A place that is avoided and a place that is not preferred count each. *)
Misplaced(value, p, avoided, others) ==
  p.weight * ((IF value \in p.avoid THEN avoided ELSE 0)
              + (IF p.prefer # {} /\ value \notin p.prefer THEN others ELSE 0))

TeacherPreference ==
  LET of(p) == SumFunction([i \in {j \in Places : timetable[j].teacher = p.entity} |->
                              Misplaced(timetable[i].slot, p, 10, 5)])
  IN SumFunction([p \in Wanted("TEACHER_PREFERENCE") |-> of(p)])

(* Every session that starts at one of the times to avoid or later. *)
TimePreference ==
  LET of(p) == 8 * p.weight * Cardinality({i \in Places :
                 Known(i) /\ \E h \in p.avoid : SlotOf[timetable[i].slot].hour >= h})
  IN SumFunction([p \in Wanted("TIME_PREFERENCE") |-> of(p)])

Positive(n) == IF n > 0 THEN n ELSE 0

(* What the soft constraints take for the day of a session: they key a Map with
   the date itself, and no two rows have the same Date object. *)
DayKey(l) == IF fetched THEN l ELSE l.date

(* The sessions of a teacher on a day, for every teacher and day that has one. *)
Load(key) == Cardinality({i \in Places : <<timetable[i].teacher, DayKey(timetable[i])>> = key})

WorkloadDistribution ==
  LET cost(p, n) == p.weight * (10 * Positive(n - p.max) + 5 * Positive(p.min - n)
                                + 3 * (IF n - p.target \in -1 .. 1 THEN 0
                                       ELSE IF n > p.target THEN n - p.target ELSE p.target - n))
      of(p) == SumFunction([key \in {<<timetable[i].teacher, DayKey(timetable[i])>> : i \in Places} |->
                              cost(p, Load(key))])
  IN SumFunction([p \in Wanted("WORKLOAD_DISTRIBUTION") |-> of(p)])

RoomPreference ==
  LET of(p) == SumFunction([i \in {j \in Places : InRoom(j)} |->
                              Misplaced(RoomOf[timetable[i].room].type, p, 8, 4)])
  IN SumFunction([p \in Wanted("ROOM_PREFERENCE") |-> of(p)])

SubjectPreference ==
  LET of(p) == SumFunction([i \in {j \in Places : timetable[j].subject = p.entity} |->
                              Misplaced(timetable[i].slot, p, 6, 3)])
  IN SumFunction([p \in Wanted("SUBJECT_PREFERENCE") |-> of(p)])

OnDay(date) == {i \in Places : DayKey(timetable[i]) = date}

(* Mutant: the sessions stay in the order they came in. *)
SoonerAsGiven(i, j) == i < j

(* The order of the slots, an unknown slot first; sessions of one slot stay in
   the order they came in. *)
SlotOrder(i) == IF Known(i) THEN SlotOf[timetable[i].slot].order ELSE 0
Sooner(i, j) == SlotOrder(i) < SlotOrder(j) \/ (SlotOrder(i) = SlotOrder(j) /\ i < j)

(* The sessions of a day of all classes, sorted. *)
DayOf(date) ==
  CHOOSE day \in [1 .. Cardinality(OnDay(date)) -> OnDay(date)] :
    \A k, l \in DOMAIN day : k < l => Sooner(day[k], day[l])

SchoolDays == {DayKey(timetable[i]) : i \in Places}

(* Mutant: the count goes on when the subject or teacher changes. *)
RunAtKept(day, who) ==
  LET n[k \in DOMAIN day] ==
        IF k = 1 THEN 1
        ELSE IF timetable[day[k]][who] = timetable[day[k - 1]][who] THEN n[k - 1] + 1 ELSE n[k - 1]
  IN n

(* The running count of sessions in a row with the same subject or teacher. *)
RunAt(day, who) ==
  LET n[k \in DOMAIN day] ==
        IF k > 1 /\ timetable[day[k]][who] = timetable[day[k - 1]][who] THEN n[k - 1] + 1 ELSE 1
  IN n

Over(date, who, max) ==
  LET day == DayOf(date)
      count == RunAt(day, who)
  IN  {k \in DOMAIN day : count[k] > max}

ConsecutivePeriods ==
  LET of(p) == SumFunction([d \in SchoolDays |->
                 p.weight * (10 * Cardinality(Over(d, "subject", p.subject))
                             + 8 * Cardinality(Over(d, "teacher", p.teacher)))])
  IN SumFunction([p \in Wanted("CONSECUTIVE_PERIODS") |-> of(p)])

(* calculateOptimizationScore: what is left of an estimate of the worst penalty
   of each constraint, weighted, out of a hundred. *)
Score ==
  LET n == Len(timetable)
      t == IF bare THEN 0 ELSE Cardinality(Staff)
      left(weight, worst, penalty) == weight * Positive(worst - penalty)
      got == left(8, 10 * n, TeacherPreference) + left(6, 8 * n, TimePreference)
             + left(7, 20 * t, WorkloadDistribution) + left(5, 6 * n, RoomPreference)
             + left(4, 5 * n, SubjectPreference) + left(6, 15 * n, ConsecutivePeriods)
      most == 8 * (10 * n) + 6 * (8 * n) + 7 * (20 * t) + 5 * (6 * n) + 4 * (5 * n) + 6 * (15 * n)
  IN  IF most = 0 THEN 0 ELSE (200 * got + most) \div (2 * most)

-----------------------------------------------------------------------------
(* A timetable in which the hard constraints find nothing has no double booking
   as ScheduleService sees it, and every double booking it has is reported with
   both sessions: "A teacher cannot be in two places at the same time", "A room
   cannot host multiple sessions", "A class cannot attend multiple sessions". *)
HardMeansFree ==
  \A i, j \in Places :
    LET a == timetable[i]  b == timetable[j] IN
    i # j /\ a.live /\ b.live /\ a.slot = b.slot /\ a.date = b.date
      /\ (a.teacher = b.teacher \/ a.room = b.room \/ a.class = b.class)
    => \E v \in HardViolations : {i, j} \subseteq v

(* The sessions reported as too many in a row are what exceeds the limit in each
   longest run of one subject or teacher, on every day of a timetable the solver
   answered, whose dates are texts: the running count starts again where it should
   and a run is not reported twice.  Of rows it does not speak: there every session
   is a day of its own, and no run is reported. *)
RunsCounted ==
  ~ fetched => \A d \in {timetable[i].date : i \in Places}, who \in {"subject", "teacher"} :
    LET day == DayOf(d)
        same(i, j) == \A k \in i .. j : timetable[day[k]][who] = timetable[day[i]][who]
        runs == {r \in (DOMAIN day) \X (DOMAIN day) :
                   /\ r[1] <= r[2] /\ same(r[1], r[2])
                   /\ r[1] = 1 \/ ~ same(r[1] - 1, r[1])
                   /\ r[2] = Len(day) \/ ~ same(r[2], r[2] + 1)}
    IN  \A max \in 1 .. 3 : Cardinality(Over(d, who, max)) =
          SumFunction([r \in runs |-> Positive(r[2] - r[1] + 1 - max)])

(* The score is one of the timetable and not of the order in which the solver or
   the database returns it, where no two sessions of a day are in slots of the same order
   (of rows no two share a day): the day is sorted before sessions in a row are counted. *)
ScoreOfTimetable ==
  [][(/\ timetable' # timetable /\ Len(timetable') = Len(timetable)
      /\ \A i, j \in Places :
           i # j /\ DayKey(timetable[i]) = DayKey(timetable[j]) =>
             /\ Known(i) /\ Known(j)
             /\ SlotOf[timetable[i].slot].order # SlotOf[timetable[j].slot].order)
     => Score' = Score]_conVars
=============================================================================
