----------------------------- MODULE MCLabLoop -----------------------------
(***************************************************************************)
(* Instances of LabLoop: two sessions that may share a task, a second and  *)
(* so a run directory.                                                     *)
(***************************************************************************)
EXTENDS LabLoop, TLC

CONSTANTS s1, s2, t1

SameSessions == Permutations(Sessions)

OwnPrefix == [t \in Tasks |-> t]
=============================================================================
