--------------------------- MODULE MCWaitingList ---------------------------
(***************************************************************************)
(* Instances of WaitingList for TLC: one schedule, two entries of which    *)
(* some leave their room open, one worker of ScheduleService and two clerks. *)
(***************************************************************************)
EXTENDS WaitingList, TLC

CONSTANTS k1, s1, t1, r1, r2, c1, slot1, now, later, m1, m2, w1, a1, a2

MCCreateDtos  == {[school |-> k1, start |-> 1, end |-> 2]}
MCSessionDtos == {[schedule |-> s1, teacher |-> t1, room |-> r1, class |-> c1, slot |-> slot1]}
MCWishes      ==
  {[class |-> c1, teacher |-> t1, room |-> room, slot |-> m1] : room \in {r1, None}}
  \cup {[class |-> c1, teacher |-> t1, room |-> r2, slot |-> m2]}

(* Today's session of either time slot. *)
MCOccurs == m1 :> {now} @@ m2 :> {later}

(* A user moves and cancels a session. *)
MCSessionChanges ==
  {[teacher |-> Keep, room |-> Keep, slot |-> slot1, status |-> "CANCELLED"]}

(* The schedules and their sessions come and go beside the waiting list. *)
Tables == [w \in Workers |-> {"create", "delete", "createSession", "updateSession",
                           "deleteSession"}]

(* One clerk assigns and updates, the other enters and removes. *)
Desks == a1 :> {"assign", "update"} @@ a2 :> {"create", "remove"}

(* Two assignments can overlap. *)
OpenDesks == a1 :> {"assign"} @@ a2 :> {"create", "assign"}
=============================================================================
