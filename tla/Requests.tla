----------------------------- MODULE Requests ------------------------------
(***************************************************************************)
(* What the models of the services share: rows of a table that may not     *)
(* exist yet or any more, and requests, which make one database call at a  *)
(* time and so interleave between any two of them.                         *)
(***************************************************************************)

CONSTANTS
  Unused,   \* an identifier that has no row yet
  Gone,     \* the row of an identifier was deleted
  Blank     \* an optional field that is not given

Absent == {Unused, Gone}

(* The local state of a worker that serves no request. *)
Idle == [at |-> "idle"]

(* A field of an update that is not given keeps its value. *)
Kept(new, old) == IF new = Blank THEN old ELSE new
=============================================================================
