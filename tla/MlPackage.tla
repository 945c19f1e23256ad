------------------------------ MODULE MlPackage ------------------------------
(***************************************************************************)
(* Proto-direct emission (crates/coreml-emit): ProtoEmitter::emit_model    *)
(* counts the emission and MlPackageWriter::write replaces the package at  *)
(* the output path, file by file, after building weight.bin with the       *)
(* builder of WeightBin.  Any step may fail, and the process may die and   *)
(* start again with a fresh count; the directory stays as it is.           *)
(*                                                                         *)
(* A model is the sequence of the constants of all its functions.  Names   *)
(* repeat when functions share a constant, or happen to call different     *)
(* constants the same.  A file remembers the model it was written for.     *)
(***************************************************************************)
EXTENDS WeightBin

CONSTANTS
  Models,             \* the models emitted: sequences of Weights
  NoModel,            \* no model
  NoFile,             \* the file does not exist
  Torn,               \* a file whose write was cut short
  COMPILATION_LIMIT,  \* emissions after which a process refuses to go on
  Faults              \* TRUE if calls may fail and the process may die

ASSUME PackageConstants ==
  /\ Models \subseteq Seq(Weights)
  /\ NoModel \notin Models
  /\ COMPILATION_LIMIT \in Nat \ {0}
  /\ Faults \in BOOLEAN

\* NoFile and Torn are not the contents of any file.
ASSUME ContentsAreOther ==
  LET Values == [inline : {TRUE}, content : Contents] \union [inline : {FALSE}, offset : Nat] IN
  \A f \in {NoFile, Torn} :
    /\ f \notin [model : Models, blobs : Seq(Blobs)]
    /\ f \notin [model : Models, values : Seq(Values), order : {1, 2}]
    /\ f \notin [model : Models, order : {1, 2}]

VARIABLES
  step,               \* what the process does next
  model,              \* the model being emitted
  added,              \* how many of its weights went to the builder
  compilation_count,  \* COMPILATION_COUNT of the process
  weight_bin,         \* weights/weight.bin
  mlmodel,            \* model.mlmodel
  manifest,           \* Manifest.json
  reported,           \* history: the model last reported, until the next emission
  written             \* history: packages this process has reported

package == <<weight_bin, mlmodel, manifest>>
history == <<reported, written>>
vars == <<builder, step, model, added, compilation_count, package, history>>

-----------------------------------------------------------------------------
(* What goes into the files.                                               *)

\* The offset build() left in an entry; add_weight puts 0 there.
entry_offset_placeholder(i) == 0
entry_offset(i) == offsets[i]

Inline(c) == [inline |-> TRUE, content |-> c]
AtOffset(o) == [inline |-> FALSE, offset |-> o]

(* The value of a const operation: a reference to the entry of its name,   *)
(* or its own bytes when no entry has the name.                            *)
const_value(c) ==
  LET Named == {i \in 1..Len(entries) : entries[i].name = c.name} IN
  IF Named = {} THEN Inline(c.content)
  ELSE AtOffset(entry_offset(CHOOSE i \in Named : TRUE))

(* Hash maps with two entries are serialized in either order: the "name"   *)
(* and "val" attributes of a const, the two items of the manifest.         *)
MapOrders(two) == IF two THEN {1, 2} ELSE {1}

ModelFiles ==
  { [model |-> model, values |-> [i \in 1..Len(model) |-> const_value(model[i])], order |-> o] :
    o \in MapOrders(model # <<>>) }

ManifestFiles == { [model |-> model, order |-> o] : o \in MapOrders(model # <<>>) }

WeightFile == [model |-> model, blobs |-> blobs]

-----------------------------------------------------------------------------
(* emit_model and write.                                                   *)

Init ==
  /\ EmptyBuilder(TRUE)
  /\ step = "idle" /\ model = NoModel /\ added = 0
  /\ compilation_count = 0
  /\ weight_bin = NoFile /\ mlmodel = NoFile /\ manifest = NoFile
  /\ reported = NoModel /\ written = 0

limit_reached(count) == count >= COMPILATION_LIMIT

(* emit_model, then write up to the test whether the path exists.  The     *)
(* count goes on with every refused emission; the guard is its bound.      *)
EmitModel(m) ==
  /\ step = "idle"
  /\ compilation_count < COMPILATION_LIMIT
  /\ compilation_count' = compilation_count + 1
  /\ reported' = NoModel
  /\ IF limit_reached(compilation_count + 1)
     THEN UNCHANGED <<step, model>>
     ELSE step' = "remove" /\ model' = m
  /\ UNCHANGED <<builder, added, package, written>>

(* remove_dir_all deletes the files of the old package in any order.       *)
RemoveFile ==
  /\ step = "remove"
  /\ \/ weight_bin # NoFile /\ weight_bin' = NoFile /\ UNCHANGED <<mlmodel, manifest>>
     \/ mlmodel # NoFile /\ mlmodel' = NoFile /\ UNCHANGED <<weight_bin, manifest>>
     \/ manifest # NoFile /\ manifest' = NoFile /\ UNCHANGED <<weight_bin, mlmodel>>
  /\ UNCHANGED <<builder, step, model, added, compilation_count, history>>

path_not_removed == TRUE

Gone == weight_bin = NoFile /\ mlmodel = NoFile /\ manifest = NoFile

\* The directories are made anew; the builder is empty.
CreateDirectories ==
  /\ step = "remove" /\ Gone
  /\ step' = "add"
  /\ UNCHANGED <<builder, model, added, compilation_count, package, history>>

AddWeight ==
  /\ step = "add" /\ added < Len(model)
  /\ LET w == model[added + 1] IN AddKnown(w) \/ AddAlias(w) \/ AddEntry(w)
  /\ added' = added + 1
  /\ UNCHANGED <<step, model, compilation_count, package, history>>

Build ==
  /\ step = "add" /\ added = Len(model)
  /\ StartBuild \/ WriteBlob \/ FinishBuild
  /\ step' = IF phase' = "built" THEN "weights" ELSE "add"
  /\ UNCHANGED <<model, added, compilation_count, package, history>>

WriteWeights ==
  /\ step = "weights"
  /\ weight_bin' = WeightFile
  /\ step' = "model"
  /\ UNCHANGED <<builder, model, added, compilation_count, mlmodel, manifest, history>>

WriteModel ==
  /\ step = "model"
  /\ mlmodel' \in ModelFiles
  /\ step' = "manifest"
  /\ UNCHANGED <<builder, model, added, compilation_count, weight_bin, manifest, history>>

WriteManifest ==
  /\ step = "manifest"
  /\ manifest' \in ManifestFiles
  /\ step' = "hash"
  /\ UNCHANGED <<builder, model, added, compilation_count, weight_bin, mlmodel, history>>

(* The call is over, and its builder is gone.                              *)
DropEmission ==
  /\ step' = "idle" /\ model' = NoModel /\ added' = 0
  /\ NewBuilder(TRUE)

(* The package is hashed and measured, and the result returned.            *)
ReturnResult ==
  /\ step = "hash"
  /\ reported' = model /\ written' = written + 1
  /\ DropEmission
  /\ UNCHANGED <<compilation_count, package>>

-----------------------------------------------------------------------------
(* Errors.                                                                 *)

\* add_weight finds the name with another shape or dtype, or build() a dtype it cannot encode.
WeightsRefused ==
  /\ step = "add"
  /\ \/ added < Len(model) /\ Mismatch(model[added + 1])
     \/ added = Len(model) /\ Unencodable
  /\ DropEmission
  /\ UNCHANGED <<compilation_count, package, history>>

(* What a write that was cut short leaves of the file under way.           *)
CutShort ==
  \/ UNCHANGED package
  \/ step = "weights" /\ weight_bin' = Torn /\ UNCHANGED <<mlmodel, manifest>>
  \/ step = "model" /\ mlmodel' = Torn /\ UNCHANGED <<weight_bin, manifest>>
  \/ step = "manifest" /\ manifest' = Torn /\ UNCHANGED <<weight_bin, mlmodel>>

\* A call fails and the error is returned, or the model does not validate.
IOError ==
  /\ Faults /\ step # "idle"
  /\ CutShort /\ DropEmission
  /\ UNCHANGED <<compilation_count, history>>

\* The process dies or ends, and another one starts.
NewProcess ==
  /\ Faults \/ step = "idle"
  /\ CutShort /\ DropEmission
  /\ compilation_count' = 0 /\ written' = 0
  /\ UNCHANGED reported

Next ==
  \/ \E m \in Models : EmitModel(m)
  \/ RemoveFile \/ CreateDirectories
  \/ AddWeight \/ Build \/ WriteWeights \/ WriteModel \/ WriteManifest \/ ReturnResult
  \/ WeightsRefused \/ IOError \/ NewProcess

Spec == Init /\ [][Next]_vars

-----------------------------------------------------------------------------
(* Properties.                                                             *)

Whole(file) == file # NoFile /\ file # Torn

(* Whatever is interrupted, the files at the path were written for one     *)
(* model: a weight.bin never meets the model.mlmodel of another emission.  *)
OneEmission ==
  /\ Whole(weight_bin) /\ Whole(mlmodel) => weight_bin.model = mlmodel.model
  /\ Whole(mlmodel) /\ Whole(manifest) => mlmodel.model = manifest.model
  /\ Whole(weight_bin) /\ Whole(manifest) => weight_bin.model = manifest.model

(* No earlier constant of the model has the same name with other bytes.    *)
Unambiguous(m, i) ==
  \A j \in 1..Len(m) : m[j].name = m[i].name => m[j].content = m[i].content

(* A reader of the package finds the bytes and the kind of constant i.     *)
Found(m, i) ==
  LET value == mlmodel.values[i] IN
  IF value.inline THEN value.content = m[i].content
  ELSE \E b \in 1..Len(weight_bin.blobs) :
         /\ weight_bin.blobs[b].at = value.offset
         /\ weight_bin.blobs[b].kind = m[i].kind
         /\ weight_bin.blobs[b].content = m[i].content

(* The model whose package is on disk, complete and readable.              *)
WholeModel ==
  IF /\ Whole(weight_bin) /\ Whole(mlmodel) /\ Whole(manifest)
     /\ OneEmission
     /\ \A i \in 1..Len(mlmodel.model) : Unambiguous(mlmodel.model, i) => Found(mlmodel.model, i)
  THEN mlmodel.model ELSE NoModel

(* Emission implements Package: what it reports is on disk, complete, one  *)
(* emission's work, and every constant is found where the model says.      *)
P == INSTANCE Package WITH whole <- WholeModel
ImplementsPackage == P!Spec

(* A process never reports as many packages as the limit of compilations   *)
(* after which the ANE fails silently.                                     *)
StaysBelowLimit == written < COMPILATION_LIMIT
=============================================================================
