--------------------------- MODULE PlacementQueue ---------------------------
(***************************************************************************)
(* What the waiting list promises, with nothing of how it is done: a       *)
(* request waits until it leaves or is given one place, a place nobody was *)
(* given before, and never waits again.                                    *)
(***************************************************************************)
CONSTANTS Requests, Places

VARIABLES
  stage,   \* stage[r]: "absent", "waiting", "placed" or "gone"
  given    \* given[r]: the places r was ever given

queueVars == <<stage, given>>

Init == stage = [r \in Requests |-> "absent"] /\ given = [r \in Requests |-> {}]

Enter(r) ==
  /\ stage[r] = "absent"
  /\ stage' = [stage EXCEPT ![r] = "waiting"]
  /\ UNCHANGED given

Place(r, x) ==
  /\ stage[r] = "waiting" /\ given[r] = {}
  /\ \A q \in Requests : x \notin given[q]
  /\ stage' = [stage EXCEPT ![r] = "placed"]
  /\ given' = [given EXCEPT ![r] = {x}]

(* A removal that began while the request waited still takes it away once it is
   placed. *)
Leave(r) ==
  /\ stage[r] \in {"waiting", "placed"}
  /\ stage' = [stage EXCEPT ![r] = "gone"]
  /\ UNCHANGED given

Next == \E r \in Requests : Enter(r) \/ Leave(r) \/ \E x \in Places : Place(r, x)

Spec == Init /\ [][Next]_queueVars
=============================================================================
