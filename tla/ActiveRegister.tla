--------------------------- MODULE ActiveRegister ---------------------------
(***************************************************************************)
(* What activation and subscribing promise, with nothing of how it is      *)
(* done: a school has a register that is empty or holds the one schedule   *)
(* in force, and another for its one live subscription.  An entry is put   *)
(* in force only in an empty register, and a change touches the register   *)
(* of one school only.                                                     *)
(***************************************************************************)
CONSTANTS Schools, Entries

VARIABLE inForce    \* inForce[k]: the entries in force at school k

Init == inForce = [k \in Schools |-> {}]

(* The schedule in force is archived, replaced or deleted, the subscription canceled. *)
Retire(k) ==
  /\ inForce[k] # {}
  /\ inForce' = [inForce EXCEPT ![k] = {}]

Enforce(k, s) ==
  /\ inForce[k] = {}
  /\ inForce' = [inForce EXCEPT ![k] = {s}]

Next == \E k \in Schools : Retire(k) \/ \E s \in Entries : Enforce(k, s)

Spec == Init /\ [][Next]_inForce
=============================================================================
