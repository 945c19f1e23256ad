------------------------------- MODULE Package -------------------------------
(***************************************************************************)
(* What a caller may expect of the mlpackage at one output path: emission  *)
(* breaks the package that is there before it puts a new whole one in its  *)
(* place, an interrupted emission leaves no whole package or leaves the    *)
(* old one, and a model that was reported as emitted is there until the    *)
(* next emission begins.                                                   *)
(***************************************************************************)
CONSTANTS Models, NoModel

VARIABLES
  whole,     \* the model whose whole package is at the path, or NoModel
  reported   \* the model the last emission reported, until the next begins

Init == whole = NoModel /\ reported = NoModel

Begin == reported' = NoModel /\ UNCHANGED whole

Break == reported = NoModel /\ whole' = NoModel /\ UNCHANGED reported

Complete ==
  /\ reported = NoModel /\ whole = NoModel
  /\ whole' \in Models
  /\ UNCHANGED reported

Report == whole # NoModel /\ reported' = whole /\ UNCHANGED whole

Next == Begin \/ Break \/ Complete \/ Report

Spec == Init /\ [][Next]_<<whole, reported>>

=============================================================================
