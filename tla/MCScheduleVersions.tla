------------------------ MODULE MCScheduleVersions ------------------------
(***************************************************************************)
(* The instance of ScheduleVersions for TLC: four versions leave room for  *)
(* two rollbacks with their backups and for a number that is used again.   *)
(* Behaviours are of two kinds: in some every request overlaps every       *)
(* other; in some, with lanes, one administrator edits, activates, rolls   *)
(* back and deletes, and the others take versions at any time.             *)
(***************************************************************************)
EXTENDS ScheduleVersions, TLC

CONSTANTS w1, w2   \* w1 is the administrator

VARIABLE lanes

Everyone == [w \in Workers |-> Methods]

VersionsInit == Init /\ lanes \in BOOLEAN

VersionsStep(w) ==
  \/ (w = w1 \/ ~ lanes \/ req[w] # Idle) /\ Step(w)
  \/ lanes /\ CreateVersionRead(w)

VersionsNext == UNCHANGED lanes /\ \E w \in Workers : VersionsStep(w)

VersionsSpec == VersionsInit /\ [][VersionsNext]_<<vars, lanes>>

(* "Cannot delete the active version": what deleteVersion read is still so
   when its transaction deletes the row.  An activation that overlaps it can
   make it the active one. *)
ActiveVersionSurvives == [][lanes => KeepsActive]_<<vars, lanes>>

(* A rollback replaces the work of the schedule only once a version holds
   it: the backup is complete although it is read, inserted and followed by
   the activation in separate calls. *)
RollbackKeepsWork == [][lanes => KeepsWork]_<<vars, lanes>>

RowSymmetry == Permutations(Versions) \cup Permutations(Contents)
===========================================================================
