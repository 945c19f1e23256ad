---------------------------- MODULE MCMlPackage ----------------------------
(* Instances of MlPackage for TLC.  A behaviour is either that of a builder *)
(* on its own, with the rest parked, or one of a process that emits.        *)
EXTENDS MlPackage, TLC

CONSTANTS n1, n2, n3, f16, f32, bool, empty, full, long

MCNames == {n1, n2, n3}
MCKinds == {f16, f32, bool}
MCEncodable == {f16, f32}
MCContents == {empty, full, long}

\* Lengths around the alignment of 64 bytes.
MCSize == empty :> 0 @@ full :> 64 @@ long :> 65

(* All models of up to three constants with two names and contents, and    *)
(* some with a kind that is refused, alone or beside the same name.        *)
W(n, c) == [name |-> n, kind |-> f16, content |-> c]
MCModels ==
  UNION {[1..k -> [name : {n1, n2}, kind : {f16}, content : {full, long}]] : k \in 0..3}
    \union { <<[W(n1, full) EXCEPT !.kind = bool]>>,
             <<W(n1, full), [W(n2, full) EXCEPT !.kind = bool]>>,
             <<W(n1, full), [W(n1, full) EXCEPT !.kind = bool]>> }

Emission == <<step, model, added, compilation_count, package, history>>

InitAlone ==
  /\ InitBuilder
  /\ step = "alone" /\ model = NoModel /\ added = 0
  /\ compilation_count = 0
  /\ weight_bin = NoFile /\ mlmodel = NoFile /\ manifest = NoFile
  /\ reported = NoModel /\ written = 0

MCInit == Init \/ InitAlone

MCNext ==
  \/ step # "alone" /\ Next
  \/ step = "alone" /\ NextBuilder /\ UNCHANGED Emission

MCSpec == MCInit /\ [][MCNext]_vars
=============================================================================
