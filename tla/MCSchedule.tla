----------------------------- MODULE MCSchedule -----------------------------
(***************************************************************************)
(* Instances of Schedule for TLC.  Two schedules of one or two schools and *)
(* two sessions are what every property quantifies over; two workers are   *)
(* enough for any two requests to interleave.                              *)
(***************************************************************************)
EXTENDS Schedule, TLC

CONSTANTS k1, k2, s1, s2, x1, x2, t1, t2, t3, r1, r2, r3, c1, c2, c3, slot1, w1, w2

MCCreateDtos == [school : Schools, start : {1}, end : {2}]

(* Two terms, one after the other. *)
MCTerms == {[school |-> k1, start |-> 1, end |-> 2], [school |-> k1, start |-> 2, end |-> 3]}

(* The update the generation job ends with. *)
MCUpdateDtos ==
  {[status |-> "PENDING_APPROVAL", start |-> Keep, end |-> Keep]}

(* Four bookings of one slot: the first and the third share a teacher, the
   second and the fourth a room, the last two a class, and the other pairs
   nothing. *)
Booking(s, t, r, c) ==
  [schedule |-> s, teacher |-> t, room |-> r, class |-> c, slot |-> slot1]
MCSessionDtos == {Booking(s1, t1, r1, c1), Booking(s2, t2, r2, c2),
                  Booking(s2, t1, r3, c3), Booking(s1, t3, r2, c3)}

Cancel == [teacher |-> Keep, room |-> Keep, slot |-> Keep, status |-> "CANCELLED"]
CancelOnly == {Cancel}

(* A session can also be given another teacher. *)
Retime == {Cancel, [Cancel EXCEPT !.status = Keep, !.teacher = t1]}

(* Lanes: w1 executes the lifecycle of schedules, w2 what concerns sessions
   and the deletion of schedules, each one request at a time; both delete
   sessions. *)
Lifecycle == {"create", "update", "approve", "activate", "archive"}
Lanes == w1 :> Lifecycle \cup {"deleteSession"} @@ w2 :> Methods \ Lifecycle

OneLane == [w \in Workers |-> Lifecycle]

(* Every request can overlap every other. *)
Unserialised == [w \in Workers |-> Lifecycle]

RowSymmetry == Permutations(Sessions)
=============================================================================
