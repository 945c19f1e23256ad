---------------------------- MODULE PythonBridge ----------------------------
(***************************************************************************)
(* Emission through the Python bridge: PythonBridge::execute_raw_payload   *)
(* (crates/bridge) runs python/bridge.py, polls it until it exits or a     *)
(* deadline passes, and reads its result file; save_mlpackage              *)
(* (python/mil_emitter.py) writes the package by up to three strategies,   *)
(* two of them in a process of their own.                                  *)
(*                                                                         *)
(* A caller emits to one output path again and again, as when a            *)
(* compilation is repeated.  The command and result files of a call are in *)
(* a directory of its own, but the package and the spec file in .save_tmp  *)
(* beside it are shared.                                                   *)
(* A killed child does not take its saver along.  Times are abstracted: a  *)
(* timeout may strike at any moment while something is waited for.         *)
(*                                                                         *)
(* A file's content is the call it was written for.  The spec file is      *)
(* written and copied in one piece; a package file is not.                 *)
(*                                                                         *)
(* Operators that stand before the operator they vary, and that nothing    *)
(* uses, are its mutants: see the README.                                  *)
(***************************************************************************)
EXTENDS Naturals

CONSTANTS
  MaxCalls,  \* bound on the calls made
  NoFile,    \* the file does not exist
  Torn       \* the file is partly written

ASSUME BridgeConstants ==
  /\ MaxCalls \in Nat
  /\ NoFile \notin Nat /\ Torn \notin Nat /\ NoFile # Torn

Calls == 1..MaxCalls

VARIABLES
  current,  \* the last call made
  parent,   \* execute_raw_payload: "idle", "polling", "killing" or "collecting"
  expired,  \* the deadline of the current call has passed
  outcome,  \* status of the results returned
  child,    \* bridge.py of a call: what it does next, or how it ended
  result,   \* the result file of a call
  saver,    \* the process of a call that writes the package
  held,     \* what the saver of a call is copying
  linked,   \* the file it copies to is still in the package
  dir,      \* the package directory exists
  model,    \* model.mlmodel of the package
  manifest, \* Manifest.json of the package
  spec,     \* .save_tmp/model_spec.mlmodel
  alone     \* history: no earlier saver was alive when the call was made

package == <<dir, model, manifest>>
savers == <<saver, held, linked>>
calls == <<current, outcome, alone>>
vars == <<calls, parent, expired, child, result, savers, package, spec>>

Ended == {"exited", "failed", "killed"}
Stages == {"convert", "clear", "spec", "save1", "wait1", "check1", "save2", "wait2",
           "check2", "save3", "save3_manifest", "finish", "report_success",
           "report_error", "exit"}
ChildStates == {"none", "stuck"} \union Stages \union Ended
SaverStates == {"none", "start", "copying", "manifest", "manifest_open", "ended"}
Contents == Calls \union {NoFile, Torn}

Alive(c) == saver[c] \notin {"none", "ended"}
Running(c) == child[c] \in Stages \union {"stuck"}

Init ==
  /\ current = 0 /\ parent = "idle" /\ expired = FALSE
  /\ outcome = [c \in Calls |-> "none"]
  /\ child = [c \in Calls |-> "none"]
  /\ result = [c \in Calls |-> "none"]
  /\ saver = [c \in Calls |-> "none"]
  /\ held = [c \in Calls |-> NoFile] /\ linked = [c \in Calls |-> FALSE]
  /\ dir = FALSE /\ model = NoFile /\ manifest = NoFile /\ spec = NoFile
  /\ alone = [c \in Calls |-> TRUE]

-----------------------------------------------------------------------------
(* execute_raw_payload.                                                    *)

\* spawn() succeeds; otherwise the call is over.
Call ==
  /\ parent = "idle" /\ current < MaxCalls
  /\ current' = current + 1
  /\ alone' = [alone EXCEPT ![current'] = \A c \in Calls : ~Alive(c)]
  /\ expired' = FALSE
  /\ \/ /\ parent' = "polling"
        /\ child' = [child EXCEPT ![current'] = "convert"]
        /\ UNCHANGED outcome
     \/ /\ outcome' = [outcome EXCEPT ![current'] = "error"]
        /\ UNCHANGED <<parent, child>>
  /\ UNCHANGED <<result, savers, package, spec>>

\* try_wait, which cannot fail for a child of ours, finds that it has exited.
PollExited ==
  /\ parent = "polling"
  /\ child[current] \in Ended
  /\ parent' = "collecting"
  /\ UNCHANGED <<calls, expired, child, result, savers, package, spec>>

deadline_ignored == FALSE

deadline_passed == expired

kill_forgotten == child

\* child.kill() and child.wait(): it is dead and reaped.
kill == IF child[current] \in Ended THEN child ELSE [child EXCEPT ![current] = "killed"]

\* try_wait finds it running, and then the deadline has passed.
PollTimeout ==
  /\ parent = "polling"
  /\ child[current] \notin Ended
  /\ deadline_passed
  /\ parent' = "killing"
  /\ UNCHANGED <<calls, expired, child, result, savers, package, spec>>

(* The child, which may have ended in the meantime, is killed, and the     *)
(* call fails either way.                                                  *)
Kill ==
  /\ parent = "killing"
  /\ child' = kill
  /\ outcome' = [outcome EXCEPT ![current] = "error"]
  /\ parent' = "idle"
  /\ UNCHANGED <<current, alone, expired, result, savers, package, spec>>

status_unchecked == TRUE

\* output.status.success()
status_success == child[current] = "exited"

(* wait_with_output has drained the pipes; the result file counts only     *)
(* after a successful exit.                                                *)
Collect ==
  /\ parent = "collecting"
  /\ outcome' = [outcome EXCEPT ![current] =
       IF status_success /\ result[current] = "success" THEN "success" ELSE "error"]
  /\ parent' = "idle"
  /\ UNCHANGED <<current, alone, expired, child, result, savers, package, spec>>

DeadlinePasses ==
  /\ parent = "polling" /\ ~expired
  /\ expired' = TRUE
  /\ UNCHANGED <<calls, parent, child, result, savers, package, spec>>

-----------------------------------------------------------------------------
(* bridge.py and save_mlpackage.                                           *)

ChildStep(c, from) ==
  /\ child[c] = from
  /\ UNCHANGED <<calls, parent, expired>>

Goto(c, to) == child' = [child EXCEPT ![c] = to]

(* What rmtree does to the files it gets to.  A saver that still copies    *)
(* goes on writing to a file that is no longer in the package.             *)
Unlink ==
  linked' = [c \in Calls |-> /\ linked[c]
                             /\ saver[c] = "copying" => model' # NoFile
                             /\ saver[c] = "manifest_open" => manifest' # NoFile]

Remove ==
  /\ dir' = FALSE /\ model' = NoFile /\ manifest' = NoFile
  /\ Unlink
  /\ UNCHANGED <<saver, held>>

\* It fails half-way.
RemoveSome ==
  /\ dir
  /\ model' \in {model, NoFile} /\ manifest' \in {manifest, NoFile}
  /\ Unlink
  /\ UNCHANGED <<dir, saver, held>>

\* The model is converted, or an error is reported.
Convert(c) ==
  /\ ChildStep(c, "convert")
  /\ Goto(c, "clear") \/ Goto(c, "report_error")
  /\ UNCHANGED <<result, savers, package, spec>>

Clear_forgotten(c) ==
  /\ ChildStep(c, "clear")
  /\ Goto(c, "spec")
  /\ UNCHANGED <<result, savers, package, spec>>

\* The package of an earlier emission is removed, or that fails.
Clear(c) ==
  /\ ChildStep(c, "clear")
  /\ \/ Goto(c, "spec") /\ Remove
     \/ Goto(c, "report_error") /\ RemoveSome
  /\ UNCHANGED <<result, spec>>

\* The spec is written for both savers, or extracting it fails.
WriteSpec(c) ==
  /\ ChildStep(c, "spec")
  /\ \/ Goto(c, "save1") /\ spec' = c
     \/ Goto(c, "save3") /\ UNCHANGED spec
  /\ UNCHANGED <<result, savers, package>>

StartSaver(c, from, to) ==
  /\ ChildStep(c, from)
  /\ Goto(c, to)
  /\ saver' = [saver EXCEPT ![c] = "start"]
  /\ UNCHANGED <<held, linked, result, package, spec>>

(* subprocess.run returns: the saver ended, or its timeout passed and it   *)
(* is killed and reaped.                                                   *)
SaverReturns(c, from, to) ==
  /\ ChildStep(c, from)
  /\ Goto(c, to)
  /\ saver' = [saver EXCEPT ![c] = "none"]
  /\ UNCHANGED <<held, linked, result, package, spec>>

(* _validate_mlpackage_on_disk: the manifest parses and the model is not   *)
(* empty, as one partly written may be.                                    *)
Valid == manifest \in Calls /\ model # NoFile

\* Valid, or another strategy with what is there removed, unless that fails.
Check(c, from, to) ==
  /\ ChildStep(c, from)
  /\ IF Valid
     THEN Goto(c, "finish") /\ UNCHANGED <<savers, package>>
     ELSE Goto(c, to) /\ (Remove \/ RemoveSome)
  /\ UNCHANGED <<result, spec>>

(* mlmodel.save in this process writes the files, or raises before or      *)
(* after some of them.                                                     *)
SaveInProcess(c) ==
  /\ ChildStep(c, "save3")
  /\ \/ Goto(c, "finish") /\ UNCHANGED <<dir, model>>
     \/ Goto(c, "finish") /\ dir' = TRUE /\ model' = Torn
     \/ Goto(c, "save3_manifest") /\ dir' = TRUE /\ model' = c
  /\ UNCHANGED <<result, savers, manifest, spec>>

(* Then Core ML compiles the package, and the process may abort: the files *)
(* are complete, and nothing after the save is reached.                    *)
SaveInProcessManifest(c) ==
  /\ ChildStep(c, "save3_manifest")
  /\ manifest' = c
  /\ Goto(c, "finish") \/ Goto(c, "failed")
  /\ UNCHANGED <<result, savers, dir, model, spec>>

(* The spec file is removed if it was written and that works; the package  *)
(* is validated, hashed and listed.                                        *)
Finish(c) ==
  /\ ChildStep(c, "finish")
  /\ spec' \in {spec, NoFile}
  /\ Goto(c, IF Valid THEN "report_success" ELSE "report_error")
  /\ UNCHANGED <<result, savers, package>>

WriteResult(c, from, status) ==
  /\ ChildStep(c, from)
  /\ Goto(c, "exit")
  /\ result' = [result EXCEPT ![c] = status]
  /\ UNCHANGED <<savers, package, spec>>

\* A result that cannot be written ends the process with an error.
Exit(c) ==
  /\ ChildStep(c, "exit")
  /\ Goto(c, "exited")
  /\ UNCHANGED <<result, savers, package, spec>>

(* The process dies: an uncaught exception, a signal, an abort.            *)
ChildDies(c) ==
  /\ child[c] \in Stages
  /\ Goto(c, "failed")
  /\ UNCHANGED <<calls, parent, expired, result, savers, package, spec>>

(* It hangs in a library call, or on a pipe it has filled: stdout and      *)
(* stderr are read only after it has exited.                               *)
ChildHangs(c) ==
  /\ child[c] \in Stages
  /\ Goto(c, "stuck")
  /\ UNCHANGED <<calls, parent, expired, result, savers, package, spec>>

Child(c) ==
  \/ Convert(c) \/ Clear(c) \/ WriteSpec(c)
  \/ StartSaver(c, "save1", "wait1") \/ SaverReturns(c, "wait1", "check1")
  \/ Check(c, "check1", "save2")
  \/ StartSaver(c, "save2", "wait2") \/ SaverReturns(c, "wait2", "check2")
  \/ Check(c, "check2", "save3")
  \/ SaveInProcess(c) \/ SaveInProcessManifest(c) \/ Finish(c)
  \/ WriteResult(c, "report_success", "success") \/ WriteResult(c, "report_error", "error")
  \/ Exit(c) \/ ChildDies(c) \/ ChildHangs(c)

-----------------------------------------------------------------------------
(* The spec saver scripts, which run on when their parent is killed.       *)

SaverStep(c, from, to) ==
  /\ saver[c] = from
  /\ saver' = [saver EXCEPT ![c] = to]
  /\ UNCHANGED <<calls, parent, expired, child, result, spec>>

\* makedirs, then copy2 opens the spec and the model file.
SaverCopies(c) ==
  /\ spec # NoFile
  /\ SaverStep(c, "start", "copying")
  /\ held' = [held EXCEPT ![c] = spec]
  /\ linked' = [linked EXCEPT ![c] = TRUE]
  /\ dir' = TRUE /\ model' = Torn
  /\ UNCHANGED manifest

SaverCopied(c) ==
  /\ SaverStep(c, "copying", "manifest")
  /\ model' = IF linked[c] THEN held[c] ELSE model
  /\ UNCHANGED <<held, linked, dir, manifest>>

\* Opening Manifest.json fails if the directory is gone.
SaverOpensManifest(c) ==
  /\ dir
  /\ SaverStep(c, "manifest", "manifest_open")
  /\ manifest' = Torn
  /\ linked' = [linked EXCEPT ![c] = TRUE]
  /\ UNCHANGED <<held, dir, model>>

SaverWritesManifest(c) ==
  /\ SaverStep(c, "manifest_open", "ended")
  /\ manifest' = IF linked[c] THEN c ELSE manifest
  /\ UNCHANGED <<held, linked, dir, model>>

\* It fails at any point.
SaverFails(c) ==
  /\ Alive(c)
  /\ SaverStep(c, saver[c], "ended")
  /\ UNCHANGED <<held, linked, package>>

Saver(c) ==
  \/ SaverCopies(c) \/ SaverCopied(c) \/ SaverOpensManifest(c)
  \/ SaverWritesManifest(c) \/ SaverFails(c)

-----------------------------------------------------------------------------
Parent == Call \/ PollExited \/ PollTimeout \/ Kill \/ Collect

Next == Parent \/ DeadlinePasses \/ \E c \in Calls : Child(c) \/ Saver(c)

(* The parent polls every 100 ms and time passes.  Nothing is assumed of   *)
(* the processes it waits for.                                             *)
Fairness ==
  /\ WF_vars(PollExited) /\ WF_vars(PollTimeout) /\ WF_vars(Kill)
  /\ WF_vars(Collect) /\ WF_vars(DeadlinePasses)

Spec == Init /\ [][Next]_vars /\ Fairness

-----------------------------------------------------------------------------
(* Properties.                                                             *)

TypeOK ==
  /\ current \in 0..MaxCalls
  /\ parent \in {"idle", "polling", "killing", "collecting"}
  /\ expired \in BOOLEAN /\ dir \in BOOLEAN
  /\ outcome \in [Calls -> {"none", "success", "error"}]
  /\ child \in [Calls -> ChildStates]
  /\ result \in [Calls -> {"none", "success", "error"}]
  /\ saver \in [Calls -> SaverStates]
  /\ held \in [Calls -> Contents] /\ linked \in [Calls -> BOOLEAN]
  /\ model \in Contents /\ manifest \in Contents /\ spec \in Calls \union {NoFile}
  /\ alone \in [Calls -> BOOLEAN]

(* Every call comes back, whatever the child does: it may hang, block on a *)
(* full pipe, or die.                                                      *)
CallsReturn == parent # "idle" ~> parent = "idle"

(* When a call is back, its child is dead.                                 *)
NoChildSurvives == parent = "idle" => \A c \in Calls : ~Running(c)

(* A child that crashed or was killed never makes an emission succeed,     *)
(* whatever it had written to its result file before.                      *)
CrashIsFailure == \A c \in Calls : outcome[c] = "success" => child[c] = "exited"

(* A package reported as saved is complete and made from the model of this *)
(* call, and stays so until the next call, whichever strategies failed or  *)
(* timed out half-way, and whatever was at the path before, provided that  *)
(* no saver of an earlier call was left running.                           *)
(* Complete is the model and the manifest, which every strategy writes;    *)
(* the first two write no weights/weight.bin (mil_emitter.py:336-448).     *)
SuccessIsOwn ==
  parent = "idle" /\ current > 0 /\ outcome[current] = "success" /\ alone[current] =>
    model = current /\ manifest = current

=============================================================================
