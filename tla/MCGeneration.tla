---------------------------- MODULE MCGeneration ----------------------------
(***************************************************************************)
(* Instances of Generation for TLC: one school, one job of any kind,       *)
(* two handlers that may run it in turn, and one user who books, cancels   *)
(* and deletes meanwhile.                                                  *)
(***************************************************************************)
EXTENDS Generation, TLC

CONSTANTS k1, s1, x1, x2, t1, r1, r2, c1, c2, slot1, e1, u1, h1, h2

MCCreateDtos  == {[school |-> k1, start |-> 1, end |-> 2]}
MCUpdateDtos  == {StatusDto(st) : st \in {"PENDING_APPROVAL", "DRAFT", Keep}}

(* Two bookings that share their teacher: the second needs the first gone. *)
MCSessionDtos == {[schedule |-> s1, teacher |-> t1, room |-> r1, class |-> c1, slot |-> slot1],
                  [schedule |-> s1, teacher |-> t1, room |-> r2, class |-> c2, slot |-> slot1]}

CancelOnly == {[teacher |-> Keep, room |-> Keep, slot |-> Keep, status |-> "CANCELLED"]}

UserMethods == {"createSession", "updateSession", "deleteSession", "delete"}
Roles == e1 :> {"create"} @@ u1 :> UserMethods @@
         [r \in Runners |-> {"update", "updateSession"}]
=============================================================================
