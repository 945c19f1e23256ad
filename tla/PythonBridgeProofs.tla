------------------------- MODULE PythonBridgeProofs -------------------------
(***************************************************************************)
(* A call that is back has left no bridge.py running; none that crashed    *)
(* has made an emission succeed; and a package reported as saved is whole  *)
(* and the call's own, for any number of calls.  The first two are         *)
(* inductive with what IInv adds: bridge.py runs only for the call that    *)
(* waits for it, and calls not yet made have no history.  The last needs   *)
(* OwnInv, which says how far the package has got at each stage.           *)
(***************************************************************************)
EXTENDS PythonBridge, TLAPS

\* bridge.py runs only for the current call, and only while it is waited for.
ChildIsAwaited ==
  /\ \A c \in Calls : Running(c) => c = current /\ parent \in {"polling", "killing"}
  /\ parent = "collecting" => child[current] \in Ended

\* A call that is not made yet has no child and no outcome.
FutureIsBlank ==
  \A c \in Calls : c > current => child[c] = "none" /\ outcome[c] = "none"

\* A call is made before it is waited for.
CallIsMade == parent # "idle" => current \in Calls

IInv ==
  /\ TypeOK /\ CallIsMade /\ ChildIsAwaited /\ FutureIsBlank /\ CrashIsFailure

USE DEF ChildStates, SaverStates, Stages, Ended, Contents

LEMMA Constants == MaxCalls \in Nat /\ \A c \in Calls : c \in 1..MaxCalls
BY BridgeConstants DEF Calls

LEMMA InitHolds == ASSUME Init PROVE IInv
<1>1. TypeOK
  <2>0. current \in 0..MaxCalls
    BY BridgeConstants DEF Init
  <2>1. parent = "idle" /\ expired \in BOOLEAN /\ dir \in BOOLEAN
    BY Zenon DEF Init
  <2>2. /\ model \in Contents /\ manifest \in Contents /\ spec \in Calls \union {NoFile}
        /\ held \in [Calls -> Contents]
    BY DEF Init
  <2>3. /\ linked \in [Calls -> BOOLEAN] /\ alone \in [Calls -> BOOLEAN]
    BY DEF Init
  <2>4. /\ outcome \in [Calls -> {"none", "success", "error"}]
        /\ child \in [Calls -> ChildStates]
        /\ result \in [Calls -> {"none", "success", "error"}]
        /\ saver \in [Calls -> SaverStates]
    BY DEF Init
  <2> QED
    BY <2>0, <2>1, <2>2, <2>3, <2>4 DEF TypeOK
<1>2. \A c \in Calls : child[c] = "none" /\ outcome[c] = "none"
  BY DEF Init
<1>3. CallIsMade /\ ChildIsAwaited /\ FutureIsBlank /\ CrashIsFailure
  BY <1>2 DEF Init, CallIsMade, ChildIsAwaited, FutureIsBlank, CrashIsFailure, Running
<1> QED
  BY <1>1, <1>3 DEF IInv

LEMMA StutterPreserves == ASSUME IInv, UNCHANGED vars PROVE IInv'
BY DEF IInv, TypeOK, CallIsMade, ChildIsAwaited, FutureIsBlank, CrashIsFailure, Running,
  vars, calls, savers, package

(***************************************************************************)
(* execute_raw_payload.                                                    *)
(***************************************************************************)
LEMMA CallPreserves == ASSUME IInv, Call PROVE IInv'
<1> USE DEF IInv, Call, savers, package
<1>1. /\ current \in Nat /\ current' = current + 1 /\ current' \in Calls
      /\ child[current'] = "none" /\ outcome[current'] = "none"
  BY Constants DEF Calls, TypeOK, FutureIsBlank
<1>2. TypeOK'
  <2>1. alone' \in [Calls -> BOOLEAN]
    BY ZenonT(30) DEF TypeOK
  <2>2. /\ parent' \in {"idle", "polling", "killing", "collecting"}
        /\ outcome' \in [Calls -> {"none", "success", "error"}]
        /\ child' \in [Calls -> ChildStates]
    BY <1>1 DEF TypeOK
  <2>3. current' \in 0..MaxCalls
    BY <1>1, Constants DEF Calls
  <2> QED
    BY <2>1, <2>2, <2>3 DEF TypeOK
<1>3. CallIsMade'
  BY <1>1 DEF CallIsMade
<1>4. ChildIsAwaited'
  BY <1>1 DEF ChildIsAwaited, Running, TypeOK
<1>5. FutureIsBlank'
  BY <1>1, Constants DEF FutureIsBlank, TypeOK
<1>6. CrashIsFailure'
  BY <1>1 DEF CrashIsFailure, TypeOK
<1> QED
  BY <1>2, <1>3, <1>4, <1>5, <1>6

LEMMA PollPreserves == ASSUME IInv, PollExited \/ PollTimeout \/ DeadlinePasses PROVE IInv'
<1>1. /\ UNCHANGED <<calls, child, result, savers, package, spec>>
      /\ expired' \in BOOLEAN
      /\ \/ UNCHANGED parent
         \/ /\ parent = "polling"
            /\ parent' = "killing" \/ (parent' = "collecting" /\ child[current] \in Ended)
  BY DEF IInv, TypeOK, PollExited, PollTimeout, DeadlinePasses
<1>2. TypeOK'
  BY <1>1 DEF IInv, TypeOK, calls, savers, package
<1>3. CallIsMade' /\ FutureIsBlank' /\ CrashIsFailure'
  BY <1>1 DEF IInv, CallIsMade, FutureIsBlank, CrashIsFailure, calls
<1>4. ChildIsAwaited'
  BY <1>1 DEF IInv, ChildIsAwaited, Running, calls
<1> QED
  BY <1>2, <1>3, <1>4 DEF IInv

LEMMA KillPreserves == ASSUME IInv, Kill PROVE IInv'
<1> USE DEF IInv, Kill, savers, package
<1>1. current \in Calls /\ current \in Nat
  BY DEF CallIsMade, TypeOK
<1>2. /\ child' \in [Calls -> ChildStates] /\ outcome' \in [Calls -> {"none", "success", "error"}]
      /\ child'[current] \in Ended /\ outcome'[current] = "error"
      /\ \A c \in Calls \ {current} : child'[c] = child[c] /\ outcome'[c] = outcome[c]
  BY <1>1 DEF TypeOK, kill
<1>3. TypeOK'
  BY <1>2 DEF TypeOK
<1>4. CallIsMade' /\ ChildIsAwaited' /\ FutureIsBlank' /\ CrashIsFailure'
  BY <1>1, <1>2, Constants
     DEF CallIsMade, ChildIsAwaited, FutureIsBlank, CrashIsFailure, Running
<1> QED
  BY <1>3, <1>4

LEMMA CollectPreserves == ASSUME IInv, Collect PROVE IInv'
<1> USE DEF IInv, Collect, savers, package
<1>1. current \in Calls /\ current \in Nat
  BY DEF CallIsMade, TypeOK
<1>2. /\ outcome' \in [Calls -> {"none", "success", "error"}]
      /\ outcome'[current] = "success" => child[current] = "exited"
      /\ \A c \in Calls \ {current} : outcome'[c] = outcome[c]
  BY <1>1 DEF TypeOK, status_success
<1>3. TypeOK'
  BY <1>2 DEF TypeOK
<1>4. CallIsMade' /\ ChildIsAwaited' /\ FutureIsBlank' /\ CrashIsFailure'
  BY <1>1, <1>2, Constants
     DEF CallIsMade, ChildIsAwaited, FutureIsBlank, CrashIsFailure, Running
<1> QED
  BY <1>3, <1>4

(***************************************************************************)
(* A step of bridge.py goes from a stage of its own to a state that is not *)
(* "none"; it changes the child of no other call, and no call's outcome.   *)
(***************************************************************************)
FilesTyped ==
  /\ dir \in BOOLEAN /\ model \in Contents /\ manifest \in Contents
  /\ spec \in Calls \union {NoFile}
  /\ result \in [Calls -> {"none", "success", "error"}]
  /\ saver \in [Calls -> SaverStates]
  /\ held \in [Calls -> Contents] /\ linked \in [Calls -> BOOLEAN]

LEMMA ChildMoves ==
  ASSUME IInv, NEW c \in Calls, NEW from \in Stages, NEW to \in Stages \union Ended \union {"stuck"},
         ChildStep(c, from), Goto(c, to), FilesTyped'
  PROVE  IInv'
<1> USE DEF IInv, ChildStep, Goto, calls
<1>1. c = current /\ parent \in {"polling", "killing"} /\ outcome[c] # "success"
  BY DEF ChildIsAwaited, CrashIsFailure, Running
<1>2. /\ child' \in [Calls -> ChildStates] /\ child'[c] = to
      /\ \A d \in Calls \ {c} : child'[d] = child[d]
  BY DEF TypeOK
<1>3. TypeOK'
  BY <1>2 DEF TypeOK, FilesTyped
<1>4. current \in Nat /\ UNCHANGED <<current, parent, outcome>>
  BY DEF TypeOK
<1>5. CallIsMade' /\ ChildIsAwaited' /\ FutureIsBlank' /\ CrashIsFailure'
  BY <1>1, <1>2, <1>4, Constants
     DEF CallIsMade, ChildIsAwaited, FutureIsBlank, CrashIsFailure, Running
<1> QED
  BY <1>3, <1>5

LEMMA Unlinks ==
  ASSUME TypeOK, Remove \/ RemoveSome
  PROVE  /\ dir' \in BOOLEAN /\ model' \in Contents /\ manifest' \in Contents
         /\ saver' \in [Calls -> SaverStates]
         /\ held' \in [Calls -> Contents] /\ linked' \in [Calls -> BOOLEAN]
<1>1. linked' \in [Calls -> BOOLEAN]
  BY Zenon DEF Remove, RemoveSome, Unlink, TypeOK
<1> QED
  BY <1>1 DEF Remove, RemoveSome, TypeOK

LEMMA ChildPreserves == ASSUME IInv, NEW c \in Calls, Child(c) PROVE IInv'
<1> USE DEF savers, package
<1>0. TypeOK
  BY DEF IInv
<1>1. CASE Convert(c)
  <2>1. FilesTyped'
    BY <1>0, <1>1 DEF Convert, TypeOK, FilesTyped
  <2> QED
    BY <1>1, <2>1, ChildMoves DEF Convert
<1>2. CASE Clear(c)
  <2>1. FilesTyped'
    BY <1>0, <1>2, Unlinks DEF Clear, TypeOK, FilesTyped
  <2> QED
    BY <1>2, <2>1, ChildMoves DEF Clear
<1>3. CASE WriteSpec(c)
  <2>1. FilesTyped'
    BY <1>0, <1>3 DEF WriteSpec, TypeOK, FilesTyped
  <2> QED
    BY <1>3, <2>1, ChildMoves DEF WriteSpec
<1>4. ASSUME NEW from \in Stages, NEW to \in Stages, StartSaver(c, from, to) \/ SaverReturns(c, from, to)
      PROVE  IInv'
  <2>1. FilesTyped'
    BY <1>0, <1>4 DEF StartSaver, SaverReturns, TypeOK, FilesTyped
  <2> QED
    BY <1>4, <2>1, ChildMoves DEF StartSaver, SaverReturns
<1>5. ASSUME NEW from \in Stages, NEW to \in Stages, Check(c, from, to)
      PROVE  IInv'
  <2>1. FilesTyped'
    BY <1>0, <1>5, Unlinks DEF Check, TypeOK, FilesTyped
  <2> QED
    BY <1>5, <2>1, ChildMoves DEF Check
<1>6. CASE SaveInProcess(c)
  <2>1. FilesTyped'
    BY <1>0, <1>6 DEF SaveInProcess, TypeOK, FilesTyped
  <2> QED
    BY <1>6, <2>1, ChildMoves DEF SaveInProcess
<1>7. CASE SaveInProcessManifest(c)
  <2>1. FilesTyped'
    BY <1>0, <1>7 DEF SaveInProcessManifest, TypeOK, FilesTyped
  <2> QED
    BY <1>7, <2>1, ChildMoves DEF SaveInProcessManifest
<1>8. CASE Finish(c)
  <2>1. FilesTyped'
    BY <1>0, <1>8 DEF Finish, TypeOK, FilesTyped
  <2> QED
    BY <1>8, <2>1, ChildMoves DEF Finish
<1>9. ASSUME NEW from \in Stages, NEW status \in {"success", "error"}, WriteResult(c, from, status)
      PROVE  IInv'
  <2>1. FilesTyped'
    BY <1>0, <1>9 DEF WriteResult, TypeOK, FilesTyped
  <2> QED
    BY <1>9, <2>1, ChildMoves DEF WriteResult
<1>10. CASE Exit(c)
  <2>1. FilesTyped'
    BY <1>0, <1>10 DEF Exit, TypeOK, FilesTyped
  <2> QED
    BY <1>10, <2>1, ChildMoves DEF Exit
<1>11. CASE ChildDies(c) \/ ChildHangs(c)
  <2>1. FilesTyped'
    BY <1>0, <1>11 DEF ChildDies, ChildHangs, TypeOK, FilesTyped
  <2>2. child[c] \in Stages /\ ChildStep(c, child[c]) /\ (Goto(c, "failed") \/ Goto(c, "stuck"))
    BY <1>11 DEF ChildDies, ChildHangs, ChildStep
  <2> QED
    BY <2>1, <2>2, ChildMoves
<1> QED
  BY <1>1, <1>2, <1>3, <1>4, <1>5, <1>6, <1>7, <1>8, <1>9, <1>10, <1>11 DEF Child

(***************************************************************************)
(* The savers touch files only.                                            *)
(***************************************************************************)
LEMMA SaverPreserves == ASSUME IInv, NEW c \in Calls, Saver(c) PROVE IInv'
<1> USE DEF package
<1>0. TypeOK
  BY DEF IInv
<1>1. FilesTyped'
  <2>1. CASE SaverCopies(c)
    BY <1>0, <2>1 DEF SaverCopies, SaverStep, TypeOK, FilesTyped
  <2>2. CASE SaverCopied(c)
    BY <1>0, <2>2 DEF SaverCopied, SaverStep, TypeOK, FilesTyped
  <2>3. CASE SaverOpensManifest(c)
    BY <1>0, <2>3 DEF SaverOpensManifest, SaverStep, TypeOK, FilesTyped
  <2>4. CASE SaverWritesManifest(c)
    BY <1>0, <2>4 DEF SaverWritesManifest, SaverStep, TypeOK, FilesTyped
  <2>5. CASE SaverFails(c)
    BY <1>0, <2>5 DEF SaverFails, SaverStep, TypeOK, FilesTyped
  <2> QED
    BY <2>1, <2>2, <2>3, <2>4, <2>5 DEF Saver
<1>2. UNCHANGED <<calls, parent, expired, child>>
  BY DEF Saver, SaverCopies, SaverCopied, SaverOpensManifest, SaverWritesManifest, SaverFails,
         SaverStep
<1>3. TypeOK'
  BY <1>0, <1>1, <1>2 DEF TypeOK, FilesTyped, calls
<1>4. CallIsMade' /\ ChildIsAwaited' /\ FutureIsBlank' /\ CrashIsFailure'
  BY <1>2 DEF IInv, calls, CallIsMade, ChildIsAwaited, FutureIsBlank, CrashIsFailure, Running
<1> QED
  BY <1>3, <1>4 DEF IInv

LEMMA StepPreserves == ASSUME IInv, [Next]_vars PROVE IInv'
BY CallPreserves, PollPreserves, KillPreserves, CollectPreserves, ChildPreserves,
   SaverPreserves, StutterPreserves DEF Next, Parent

(* The bridge keeps the invariant that its safety rests on.                *)
THEOREM BridgeInvariant == Spec => []IInv
<1>1. Init => IInv
  BY InitHolds
<1>2. IInv /\ [Next]_vars => IInv'
  BY StepPreserves
<1> QED
  BY <1>1, <1>2, PTL DEF Spec

(* execute_raw_payload never returns while its bridge.py still runs,       *)
(* however the call ended.                                                 *)
THEOREM NoChildIsLeft == Spec => []NoChildSurvives
<1>1. IInv => NoChildSurvives
  BY DEF IInv, ChildIsAwaited, NoChildSurvives
<1> QED
  BY <1>1, BridgeInvariant, PTL

(* execute_raw_payload never reports success for a child that crashed or   *)
(* that it killed, whatever that child had written to its result file.     *)
THEOREM CrashesFail == Spec => []CrashIsFailure
<1>1. IInv => CrashIsFailure
  BY DEF IInv
<1> QED
  BY <1>1, BridgeInvariant, PTL

-----------------------------------------------------------------------------
(***************************************************************************)
(* A package reported as saved is complete and the call's own.  While the  *)
(* call runs, with no saver of an earlier call alive, what is in the       *)
(* package is determined by the stage bridge.py is in and, while it waits  *)
(* for its saver, by where the saver is.  A manifest that parses is never  *)
(* there unless both files are the call's own: this is why a partly        *)
(* written model never passes the validation that looks at its size only.  *)
(***************************************************************************)
Complete(c) == model = c /\ manifest = c

\* A package that passes the validation is the call's own, and whole.
ValidIsOwn(c) == manifest \in Calls => Complete(c)

\* The saver the call waits for has got this far with its package.
SaverIsOwn(c) ==
  /\ saver[c] \in {"start", "copying", "manifest"} => manifest \notin Calls
  /\ saver[c] = "copying" => linked[c] /\ held[c] = c
  /\ saver[c] \in {"manifest", "manifest_open"} => model = c
  /\ saver[c] = "manifest_open" => linked[c] /\ manifest = Torn
  /\ saver[c] \in {"none", "ended"} => ValidIsOwn(c)

Waits == {"wait1", "wait2"}

\* bridge.py has got this far with its package.
StageIsOwn(c) ==
  /\ child[c] \in {"none", "exited"} \union (Stages \ Waits) => ~Alive(c)
  /\ child[c] \in {"spec", "save1"} => model = NoFile /\ manifest = NoFile
  /\ child[c] \in {"save1", "check1", "save2"} \union Waits => spec = c
  /\ child[c] \in Waits => SaverIsOwn(c)
  /\ child[c] \in {"save2", "save3", "save3_manifest"} => manifest \notin Calls
  /\ child[c] = "save3_manifest" => model = c
  /\ child[c] \in {"check1", "check2", "finish"} => ValidIsOwn(c)
  /\ child[c] = "report_success" => Complete(c)
  /\ child[c] \in {"exit", "exited"} /\ result[c] = "success" => Complete(c)

\* A call that is not made yet has no saver.
FutureIsQuiet == \A c \in Calls : c > current => saver[c] = "none"

\* Success is never reported without a result file that says so.
SuccessIsWritten == \A c \in Calls : outcome[c] = "success" => result[c] = "success"

\* No saver of another call is alive, if none was when the call was made.
AloneIsAlone == \A d \in Calls \ {current} : ~Alive(d)

PackageIsOwn ==
  current \in Calls /\ alone[current] => AloneIsAlone /\ StageIsOwn(current)

OwnInv == IInv /\ FutureIsQuiet /\ SuccessIsWritten /\ PackageIsOwn

LEMMA OwnInit == ASSUME Init PROVE OwnInv
<1>1. current \notin Calls /\ \A c \in Calls : saver[c] = "none" /\ outcome[c] = "none"
  BY Constants DEF Init, Calls
<1> QED
  BY <1>1, InitHolds DEF OwnInv, FutureIsQuiet, SuccessIsWritten, PackageIsOwn

LEMMA OwnStutter == ASSUME OwnInv, UNCHANGED vars PROVE OwnInv'
<1>1. IInv'
  BY StutterPreserves DEF OwnInv
<1>2. UNCHANGED <<current, outcome, alone, child, result, saver, held, linked, model, manifest, spec>>
  BY DEF vars, calls, savers, package
<1> QED
  BY <1>1, <1>2 DEF OwnInv, FutureIsQuiet, SuccessIsWritten, PackageIsOwn, AloneIsAlone, Alive,
    StageIsOwn, SaverIsOwn, ValidIsOwn, Complete

(***************************************************************************)
(* execute_raw_payload.                                                    *)
(***************************************************************************)
LEMMA CallOwns == ASSUME OwnInv, Call PROVE OwnInv'
<1> USE DEF Call, savers, package
<1>0. IInv /\ IInv'
  BY CallPreserves DEF OwnInv
<1>1. /\ current \in Nat /\ current' = current + 1 /\ current' \in Calls
      /\ child[current'] = "none" /\ outcome[current'] = "none" /\ saver[current'] = "none"
  BY <1>0, Constants DEF Calls, IInv, TypeOK, FutureIsBlank, OwnInv, FutureIsQuiet
<1>2. FutureIsQuiet'
  BY <1>1, Constants DEF OwnInv, FutureIsQuiet
<1>3. SuccessIsWritten'
  BY <1>0, <1>1 DEF OwnInv, SuccessIsWritten, IInv, TypeOK
<1>4. ASSUME alone'[current'] PROVE AloneIsAlone' /\ StageIsOwn(current)'
  <2>1. \A d \in Calls : ~Alive(d)
    BY <1>0, <1>1, <1>4 DEF IInv, TypeOK
  <2>2. \A d \in Calls : ~Alive(d)'
    BY <2>1 DEF Alive
  <2>3. child'[current'] \in {"none", "convert"}
    BY <1>0, <1>1 DEF IInv, TypeOK
  <2> QED
    BY <1>1, <2>2, <2>3 DEF AloneIsAlone, StageIsOwn, Waits
<1> QED
  BY <1>0, <1>2, <1>3, <1>4 DEF OwnInv, PackageIsOwn

LEMMA WaitOwns == ASSUME OwnInv, PollExited \/ PollTimeout \/ DeadlinePasses PROVE OwnInv'
<1>1. IInv'
  BY PollPreserves DEF OwnInv
<1>2. UNCHANGED <<current, outcome, alone, child, result, saver, held, linked, model, manifest, spec>>
  BY DEF PollExited, PollTimeout, DeadlinePasses, calls, savers, package
<1> QED
  BY <1>1, <1>2 DEF OwnInv, FutureIsQuiet, SuccessIsWritten, PackageIsOwn, AloneIsAlone, Alive,
    StageIsOwn, SaverIsOwn, ValidIsOwn, Complete

LEMMA KillOwns == ASSUME OwnInv, Kill PROVE OwnInv'
<1>0. IInv /\ IInv'
  BY KillPreserves DEF OwnInv
<1>1. current \in Calls /\ UNCHANGED <<current, alone, result, saver, held, linked, model, manifest, spec>>
  BY <1>0 DEF IInv, CallIsMade, Kill, savers, package
<1>2. FutureIsQuiet' /\ AloneIsAlone = AloneIsAlone'
  BY <1>1 DEF OwnInv, FutureIsQuiet, AloneIsAlone, Alive
<1>3. SuccessIsWritten'
  BY <1>0, <1>1 DEF OwnInv, SuccessIsWritten, IInv, TypeOK, Kill
<1>4. child'[current] = child[current] \/ child'[current] = "killed"
  BY <1>0, <1>1 DEF IInv, TypeOK, Kill, kill
<1>5. StageIsOwn(current) => StageIsOwn(current)'
  <2>1. CASE child'[current] = "killed"
    BY <1>1, <2>1 DEF StageIsOwn, Waits
  <2>2. CASE child'[current] = child[current]
    BY <1>1, <2>2 DEF StageIsOwn, SaverIsOwn, ValidIsOwn, Complete, Alive
  <2> QED
    BY <1>4, <2>1, <2>2
<1> QED
  BY <1>0, <1>1, <1>2, <1>3, <1>5 DEF OwnInv, PackageIsOwn

LEMMA CollectOwns == ASSUME OwnInv, Collect PROVE OwnInv'
<1>0. IInv /\ IInv'
  BY CollectPreserves DEF OwnInv
<1>1. current \in Calls /\ UNCHANGED <<current, alone, child, result, saver, held, linked, model, manifest, spec>>
  BY <1>0 DEF IInv, CallIsMade, Collect, savers, package
<1>2. FutureIsQuiet' /\ PackageIsOwn'
  BY <1>1 DEF OwnInv, FutureIsQuiet, PackageIsOwn, AloneIsAlone, Alive,
    StageIsOwn, SaverIsOwn, ValidIsOwn, Complete
<1>3. SuccessIsWritten'
  BY <1>0, <1>1 DEF OwnInv, SuccessIsWritten, IInv, TypeOK, Collect
<1> QED
  BY <1>0, <1>2, <1>3 DEF OwnInv

(***************************************************************************)
(* bridge.py: only the current call's runs, and it has not succeeded yet.  *)
(***************************************************************************)
LEMMA ChildIsCurrent ==
  ASSUME OwnInv, NEW c \in Calls, Child(c)
  PROVE  /\ c = current /\ child[c] \in Stages /\ outcome[c] # "success"
         /\ UNCHANGED <<current, outcome, alone>>
         /\ \A d \in Calls \ {c} : saver'[d] = saver[d] /\ result'[d] = result[d]
<1>0. IInv
  BY DEF OwnInv
<1>1. child[c] \in Stages /\ UNCHANGED <<current, outcome, alone>>
  BY DEF Child, Convert, Clear, WriteSpec, StartSaver, SaverReturns, Check, SaveInProcess,
    SaveInProcessManifest, Finish, WriteResult, Exit, ChildDies, ChildHangs, ChildStep, calls
<1>2. c = current /\ outcome[c] # "success"
  BY <1>0, <1>1 DEF IInv, ChildIsAwaited, CrashIsFailure, Running
<1>3. /\ saver' = saver \/ \E s \in SaverStates : saver' = [saver EXCEPT ![c] = s]
      /\ result' = result \/ \E s \in {"success", "error"} : result' = [result EXCEPT ![c] = s]
  BY DEF Child, Convert, Clear, WriteSpec, StartSaver, SaverReturns, Check, SaveInProcess,
    SaveInProcessManifest, Finish, WriteResult, Exit, ChildDies, ChildHangs, Remove, RemoveSome,
    savers
<1> QED
  BY <1>0, <1>1, <1>2, <1>3 DEF IInv, TypeOK

\* What rmtree leaves behind is what was there, or nothing.
LEMMA RemoveLeaves ==
  ASSUME Remove \/ RemoveSome
  PROVE  model' \in {model, NoFile} /\ manifest' \in {manifest, NoFile} /\ saver' = saver
BY DEF Remove, RemoveSome

LEMMA ContentsDiffer == NoFile \notin Calls /\ Torn \notin Calls /\ NoFile # Torn
BY BridgeConstants DEF Calls

LEMMA ChildOwnsStage ==
  ASSUME OwnInv, NEW c \in Calls, Child(c), StageIsOwn(c)
  PROVE  StageIsOwn(c)'
<1> USE ContentsDiffer DEF StageIsOwn, Waits, Complete, ValidIsOwn
<1>0. TypeOK
  BY DEF OwnInv, IInv
<1>1. \A to : Goto(c, to) => child'[c] = to
  BY <1>0 DEF TypeOK, Goto
<1> USE DEF ChildStep, savers, package
<1>2. CASE Convert(c)
  BY <1>1, <1>2 DEF Convert, Alive
<1>3. CASE Clear(c)
  BY <1>1, <1>3, RemoveLeaves DEF Clear, Remove, Alive
<1>4. CASE WriteSpec(c)
  BY <1>1, <1>4 DEF WriteSpec, Alive
<1>5. ASSUME NEW to \in Waits, StartSaver(c, "save1", to) \/ StartSaver(c, "save2", to)
      PROVE  StageIsOwn(c)'
  BY <1>0, <1>1, <1>5 DEF StartSaver, SaverIsOwn, TypeOK
<1>6. ASSUME StartSaver(c, "save1", "wait1") \/ StartSaver(c, "save2", "wait2")
      PROVE  StageIsOwn(c)'
  BY <1>5, <1>6
<1>7. ASSUME SaverReturns(c, "wait1", "check1") \/ SaverReturns(c, "wait2", "check2")
      PROVE  StageIsOwn(c)'
  <2>1. ValidIsOwn(c)
    BY <1>0, <1>7 DEF SaverReturns, SaverIsOwn, TypeOK
  <2> QED
    BY <1>0, <1>1, <1>7, <2>1 DEF SaverReturns, Alive, TypeOK
<1>8. ASSUME Check(c, "check1", "save2") \/ Check(c, "check2", "save3")
      PROVE  StageIsOwn(c)'
  <2>1. CASE Valid
    BY <1>1, <1>8, <2>1 DEF Check, Alive
  <2>2. CASE ~Valid
    <3>1. manifest \notin Calls
      BY <1>8, <2>2 DEF Check, Valid
    <3> QED
      BY <1>1, <1>8, <2>2, <3>1, RemoveLeaves DEF Check, Alive
  <2> QED
    BY <2>1, <2>2
<1>9. CASE SaveInProcess(c)
  BY <1>1, <1>9 DEF SaveInProcess, Alive
<1>10. CASE SaveInProcessManifest(c)
  BY <1>1, <1>10 DEF SaveInProcessManifest, Alive
<1>11. CASE Finish(c)
  BY <1>1, <1>11 DEF Finish, Valid, Alive
<1>12. CASE WriteResult(c, "report_success", "success") \/ WriteResult(c, "report_error", "error")
  BY <1>0, <1>1, <1>12 DEF WriteResult, Alive, TypeOK
<1>13. CASE Exit(c)
  BY <1>1, <1>13 DEF Exit, Alive
<1>14. CASE ChildDies(c) \/ ChildHangs(c)
  BY <1>1, <1>14 DEF ChildDies, ChildHangs
<1> QED
  BY <1>2, <1>3, <1>4, <1>6, <1>7, <1>8, <1>9, <1>10, <1>11, <1>12, <1>13, <1>14 DEF Child

LEMMA ChildOwns == ASSUME OwnInv, NEW c \in Calls, Child(c) PROVE OwnInv'
<1>1. IInv /\ IInv'
  BY ChildPreserves DEF OwnInv
<1>2. /\ c = current /\ outcome[c] # "success" /\ UNCHANGED <<current, outcome, alone>>
      /\ \A d \in Calls \ {c} : saver'[d] = saver[d] /\ result'[d] = result[d]
  BY ChildIsCurrent
<1>3. current \in Nat
  BY <1>1 DEF IInv, TypeOK
<1>4. FutureIsQuiet' /\ SuccessIsWritten'
  BY <1>2, <1>3 DEF OwnInv, FutureIsQuiet, SuccessIsWritten
<1>5. AloneIsAlone => AloneIsAlone'
  BY <1>2 DEF AloneIsAlone, Alive
<1>6. StageIsOwn(current) => StageIsOwn(current)'
  BY <1>2, ChildOwnsStage
<1> QED
  BY <1>1, <1>2, <1>4, <1>5, <1>6 DEF OwnInv, PackageIsOwn

(***************************************************************************)
(* The savers.  Only a saver bridge.py waits for, or that outlived it, is  *)
(* alive; of one that outlived it nothing is claimed.                      *)
(***************************************************************************)
LEMMA SaverOwnsStage ==
  ASSUME OwnInv, NEW c \in Calls, Saver(c), StageIsOwn(c)
  PROVE  StageIsOwn(c)'
<1> USE ContentsDiffer DEF SaverStep, package
<1>0. TypeOK
  BY DEF OwnInv, IInv
<1>1. Alive(c) /\ UNCHANGED <<child, result, spec>>
  BY DEF Saver, SaverCopies, SaverCopied, SaverOpensManifest, SaverWritesManifest, SaverFails, Alive
<1>2. CASE child[c] \notin Waits
  <2>1. child[c] \in {"stuck", "failed", "killed"}
    BY <1>0, <1>1, <1>2 DEF StageIsOwn, Waits, TypeOK
  <2> QED
    BY <1>1, <2>1 DEF StageIsOwn, Waits
<1>3. CASE child[c] \in Waits
  <2> USE DEF SaverIsOwn, ValidIsOwn, Complete
  <2>0. SaverIsOwn(c) /\ spec = c
    BY <1>3 DEF StageIsOwn
  <2>6. SaverIsOwn(c)'
    <3>1. CASE SaverCopies(c)
      BY <1>0, <2>0, <3>1 DEF SaverCopies, TypeOK
    <3>2. CASE SaverCopied(c)
      BY <1>0, <2>0, <3>2 DEF SaverCopied, TypeOK
    <3>3. CASE SaverOpensManifest(c)
      BY <1>0, <2>0, <3>3 DEF SaverOpensManifest, TypeOK
    <3>4. CASE SaverWritesManifest(c)
      BY <1>0, <2>0, <3>4 DEF SaverWritesManifest, TypeOK
    <3>5. CASE SaverFails(c)
      BY <1>0, <2>0, <3>5 DEF SaverFails, Alive, TypeOK
    <3> QED
      BY <3>1, <3>2, <3>3, <3>4, <3>5 DEF Saver
  <2> QED
    BY <1>1, <1>3, <2>0, <2>6 DEF StageIsOwn, Waits
<1> QED
  BY <1>2, <1>3

LEMMA SaverOwns == ASSUME OwnInv, NEW c \in Calls, Saver(c) PROVE OwnInv'
<1>1. IInv /\ IInv'
  BY SaverPreserves DEF OwnInv
<1>2. /\ Alive(c) /\ UNCHANGED <<current, outcome, alone, result>>
      /\ \A d \in Calls \ {c} : saver'[d] = saver[d]
  BY <1>1 DEF Saver, SaverCopies, SaverCopied, SaverOpensManifest, SaverWritesManifest, SaverFails,
    SaverStep, Alive, calls, IInv, TypeOK
<1>3. ~(c > current) /\ FutureIsQuiet' /\ SuccessIsWritten'
  BY <1>2 DEF OwnInv, FutureIsQuiet, SuccessIsWritten, Alive
<1>4. ASSUME current \in Calls, alone[current] PROVE AloneIsAlone' /\ StageIsOwn(current)'
  <2>1. AloneIsAlone /\ StageIsOwn(current)
    BY <1>4 DEF OwnInv, PackageIsOwn
  <2>2. c = current
    BY <1>2, <2>1 DEF AloneIsAlone
  <2>3. AloneIsAlone'
    BY <1>2, <2>1, <2>2 DEF AloneIsAlone, Alive
  <2> QED
    BY <1>2, <2>1, <2>2, <2>3, SaverOwnsStage
<1> QED
  BY <1>1, <1>2, <1>3, <1>4 DEF OwnInv, PackageIsOwn

LEMMA OwnStep == ASSUME OwnInv, [Next]_vars PROVE OwnInv'
BY CallOwns, WaitOwns, KillOwns, CollectOwns, ChildOwns, SaverOwns, OwnStutter DEF Next, Parent

(* A package whose emission is reported as a success is whole and made by  *)
(* that call, until the next one, whichever of the three strategies of     *)
(* save_mlpackage wrote it and whatever the failed ones left behind, if no *)
(* saver of an earlier call was left running.                              *)
THEOREM SavedPackagesAreOwn == Spec => []SuccessIsOwn
<1>1. Init => OwnInv
  BY OwnInit
<1>2. OwnInv /\ [Next]_vars => OwnInv'
  BY OwnStep
<1>3. OwnInv => SuccessIsOwn
  <2> SUFFICES ASSUME OwnInv, parent = "idle", current > 0, outcome[current] = "success",
                      alone[current]
               PROVE  Complete(current)
    BY DEF SuccessIsOwn, Complete
  <2>1. current \in Calls
    BY Constants DEF OwnInv, IInv, TypeOK, Calls
  <2>2. child[current] = "exited" /\ result[current] = "success"
    BY <2>1 DEF OwnInv, IInv, CrashIsFailure, SuccessIsWritten
  <2> QED
    BY <2>1, <2>2 DEF OwnInv, PackageIsOwn, StageIsOwn
<1> QED
  BY <1>1, <1>2, <1>3, PTL DEF Spec

=============================================================================
