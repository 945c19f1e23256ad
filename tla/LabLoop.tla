------------------------------ MODULE LabLoop ------------------------------
(***************************************************************************)
(* The lab commands of MILLer (crates/lab): LabSession::run compiles a     *)
(* task, inspects the result and records everything in a run directory;    *)
(* LabLoopSession::run does the same and also ingests what it saw into the *)
(* knowledge store.  Sessions are processes of their own that share the    *)
(* output directory and the store.                                         *)
(*                                                                         *)
(* A session is the sequence of what it still has to do: files of its run  *)
(* directory to write, and "store" for the ingestion.  A file is the       *)
(* session that wrote it.  The compiler behind the bridge, the numbers of  *)
(* a baseline and the wording of the records are left out.                 *)
(***************************************************************************)
EXTENDS Integers, Sequences, FiniteSets

CONSTANTS
  Sessions,   \* the processes
  Tasks,      \* task hashes
  Prefixes,   \* what generate_run_id keeps of a hash
  PrefixOf,   \* PrefixOf[task]: the first eight characters of the hash
  MaxSecond,  \* bound on the clock, which run ids show in seconds
  Faults,     \* TRUE if writing a file, or the store, may fail
  Crashes,    \* TRUE if a session may die
  Nobody,     \* no session: no such file, no such package
  Torn        \* a file or package cut short

ASSUME LabConstants ==
  /\ Tasks # {}
  /\ PrefixOf \in [Tasks -> Prefixes]
  /\ MaxSecond \in Nat
  /\ Faults \in BOOLEAN /\ Crashes \in BOOLEAN
  /\ Nobody \notin Sessions /\ Torn \notin Sessions /\ Nobody # Torn

Kinds == {"lab", "lab_loop"}
Files == {"manifest", "mir", "inspection", "baseline", "drift", "update", "run"}
RunIds == (0 .. MaxSecond) \X Prefixes

(* The observations of build_knowledge_update_with_drift, in their order:  *)
(* that matmul and add are legal or not, and a drift.  No session has a    *)
(* model output to compare, so the drift has evidence_count 0 and the      *)
(* pipeline's validation refuses it.                                       *)
Observations == <<"mb.matmul", "mb.add", "drift">>

validates(obs) == obs # "drift"

\* Observations have the ids obs_<task hash>_<number ingested before it>.
ObsIds == Tasks \X (0 .. Len(Observations))

VARIABLES
  clock,    \* the second that run ids take from the clock
  todo,     \* todo[s]: what session s still does; <<>> before and after
  status,   \* status[s]: "new", "compiling", "running", "done" or "failed"
  kind,     \* kind[s]: the command
  inspects, \* inspects[s]: do_inspect, always TRUE for a lab loop
  task,     \* task[s]: its task
  compiled, \* compiled[s]: the bridge reported success
  run_id,   \* run_id[s]: its run directory
  next_obs, \* next_obs[s]: position of the observation it ingests next
  ingested, \* ingested[s]: observations ingested
  dirs,     \* dirs[r][f]: who wrote file f of run directory r
  made,     \* the run directories that exist
  package,  \* who wrote <output>/mlpackage
  store,    \* store[id]: the observation below that id and its session
  failures  \* history: the tasks of which an insertion has failed

session == <<todo, status, kind, inspects, task, compiled, run_id, next_obs, ingested>>
files == <<dirs, made, package>>
vars == <<clock, session, files, store, failures>>

-----------------------------------------------------------------------------
(* What a session does after its bridge call has come back.                *)

inspection_of(s, success) == IF success /\ inspects[s] THEN <<"inspection">> ELSE <<>>

early_record(s, success) ==
  <<"manifest", "mir">> \o inspection_of(s, success) \o <<"baseline", "drift", "run", "update">>

lab_steps(s, success) ==
  <<"manifest", "mir">> \o inspection_of(s, success) \o <<"baseline", "drift", "update", "run">>

store_first(s, success) ==
  <<"mir">> \o inspection_of(s, success)
    \o <<"baseline", "drift", "store", "update", "run", "manifest">>

\* The manifest comes last: it reports how much was ingested.
lab_loop_steps(s, success) ==
  <<"mir">> \o inspection_of(s, success)
    \o <<"baseline", "drift", "update", "store", "run", "manifest">>

generate_run_id(s) == <<clock, PrefixOf[task[s]]>>

Ends(s, how) ==
  /\ status' = [status EXCEPT ![s] = how]
  /\ todo' = [todo EXCEPT ![s] = <<>>]

\* The rest of the session after its next step.
Goes(s) ==
  /\ todo' = [todo EXCEPT ![s] = Tail(@)]
  /\ status' = [status EXCEPT ![s] = IF Len(todo[s]) = 1 THEN "done" ELSE @]

-----------------------------------------------------------------------------
(* Actions of a session.                                                   *)

\* Loading the task.  Sharded tasks are refused at once and change nothing.
Start(s, k, t, inspect) ==
  /\ status[s] = "new"
  /\ k = "lab_loop" => inspect
  /\ status' = [status EXCEPT ![s] = "compiling"]
  /\ kind' = [kind EXCEPT ![s] = k]
  /\ task' = [task EXCEPT ![s] = t]
  /\ inspects' = [inspects EXCEPT ![s] = inspect]
  /\ UNCHANGED <<clock, todo, compiled, run_id, next_obs, ingested, files, store, failures>>

(* The bridge reports success and the package is at <output>/mlpackage, or *)
(* it reports an error and that path is as it was or cut short.  Both go   *)
(* on: the run directory, named after the second, is created if need be.   *)
Compile(s, success) ==
  /\ status[s] = "compiling"
  /\ compiled' = [compiled EXCEPT ![s] = success]
  /\ package' \in IF success THEN {s} ELSE {package, Torn}
  /\ run_id' = [run_id EXCEPT ![s] = generate_run_id(s)]
  /\ made' = made \union {run_id'[s]}
  /\ status' = [status EXCEPT ![s] = "running"]
  /\ todo' = [todo EXCEPT ![s] =
       IF kind[s] = "lab" THEN lab_steps(s, success) ELSE lab_loop_steps(s, success)]
  /\ UNCHANGED <<clock, kind, inspects, task, next_obs, ingested, dirs, store, failures>>

(* The bridge itself fails, or the run directory cannot be created.        *)
CompileFails(s) ==
  /\ status[s] = "compiling"
  /\ Ends(s, "failed")
  /\ package' \in {package, Torn}
  /\ UNCHANGED <<clock, kind, inspects, task, compiled, run_id, next_obs, ingested,
                 dirs, made, store, failures>>

\* The writers of LabRunWriter: each replaces one file of the run directory.
WriteFile(s) ==
  /\ todo[s] # <<>> /\ Head(todo[s]) \in Files
  /\ dirs' = [dirs EXCEPT ![run_id[s]][Head(todo[s])] = s]
  /\ Goes(s)
  /\ UNCHANGED <<clock, kind, inspects, task, compiled, run_id, next_obs, ingested,
                 made, package, store, failures>>

(* An error of a write, of the baseline or of opening the store ends the   *)
(* session where it is.                                                    *)
StepFails(s) ==
  /\ Faults
  /\ status[s] = "running"
  /\ next_obs[s] = 1
  /\ Ends(s, "failed")
  /\ UNCHANGED <<clock, kind, inspects, task, compiled, run_id, next_obs, ingested,
                 files, store, failures>>

-----------------------------------------------------------------------------
(* ingest_knowledge_observations                                           *)

unit(s) ==
  [pattern |-> Observations[next_obs[s]], ane_legal |-> compiled[s], by |-> s]

obs_id(s) == <<task[s], ingested[s]>>

Ingesting(s) == todo[s] # <<>> /\ Head(todo[s]) = "store" /\ next_obs[s] <= Len(Observations)

NextObservation(s) == next_obs' = [next_obs EXCEPT ![s] = @ + 1]

counts_always(s, ok) == [ingested EXCEPT ![s] = @ + 1]

counted(s, ok) == IF ok THEN [ingested EXCEPT ![s] = @ + 1] ELSE ingested

Ingest(s) ==
  /\ Ingesting(s)
  /\ validates(Observations[next_obs[s]])
  /\ store' = [store EXCEPT ![obs_id(s)] = unit(s)]
  /\ ingested' = counted(s, TRUE)
  /\ NextObservation(s)
  /\ UNCHANGED <<clock, todo, status, kind, inspects, task, compiled, run_id, files, failures>>

(* A refused observation and a write that fails are warnings; the failed   *)
(* write may be the one of the index, after that of the observation.       *)
IngestFails(s) ==
  /\ Ingesting(s)
  /\ \/ /\ ~ validates(Observations[next_obs[s]])
        /\ UNCHANGED <<store, failures>>
     \/ /\ Faults
        /\ validates(Observations[next_obs[s]])
        /\ store' \in {store, [store EXCEPT ![obs_id(s)] = unit(s)]}
        /\ failures' = failures \union {task[s]}
  /\ ingested' = counted(s, FALSE)
  /\ NextObservation(s)
  /\ UNCHANGED <<clock, todo, status, kind, inspects, task, compiled, run_id, files>>

IngestDone(s) ==
  /\ todo[s] # <<>> /\ Head(todo[s]) = "store"
  /\ next_obs[s] > Len(Observations)
  /\ next_obs' = [next_obs EXCEPT ![s] = 1]
  /\ Goes(s)
  /\ UNCHANGED <<clock, kind, inspects, task, compiled, run_id, ingested, files, store, failures>>

-----------------------------------------------------------------------------
(* A session dies, the file it is writing possibly cut short.              *)
Crash(s) ==
  /\ Crashes
  /\ status[s] \in {"compiling", "running"}
  /\ \/ /\ status[s] = "compiling"
        /\ package' \in {package, Torn}
        /\ dirs' = dirs
     \/ /\ status[s] = "running"
        /\ dirs' \in {dirs} \union
             {[dirs EXCEPT ![run_id[s]][f] = Torn] : f \in {Head(todo[s])} \intersect Files}
        /\ UNCHANGED package
  /\ Ends(s, "failed")
  /\ UNCHANGED <<clock, kind, inspects, task, compiled, run_id, next_obs, ingested,
                 made, store, failures>>

Tick ==
  /\ clock < MaxSecond
  /\ clock' = clock + 1
  /\ UNCHANGED <<session, files, store, failures>>

-----------------------------------------------------------------------------
NoUnit == [pattern |-> "none", ane_legal |-> FALSE, by |-> Nobody]

Init ==
  /\ clock = 0
  /\ todo = [s \in Sessions |-> <<>>]
  /\ status = [s \in Sessions |-> "new"]
  /\ kind = [s \in Sessions |-> "lab"]
  /\ inspects = [s \in Sessions |-> FALSE]
  /\ task \in {[s \in Sessions |-> CHOOSE t \in Tasks : TRUE]}
  /\ compiled = [s \in Sessions |-> FALSE]
  /\ run_id = [s \in Sessions |-> <<0, PrefixOf[task[s]]>>]
  /\ next_obs = [s \in Sessions |-> 1]
  /\ ingested = [s \in Sessions |-> 0]
  /\ dirs = [r \in RunIds |-> [f \in Files |-> Nobody]]
  /\ made = {}
  /\ package = Nobody
  /\ store = [id \in ObsIds |-> NoUnit]
  /\ failures = {}

Next ==
  \/ \E s \in Sessions :
       \/ \E k \in Kinds, t \in Tasks, inspect \in BOOLEAN : Start(s, k, t, inspect)
       \/ \E success \in BOOLEAN : Compile(s, success)
       \/ CompileFails(s) \/ WriteFile(s) \/ StepFails(s)
       \/ Ingest(s) \/ IngestFails(s) \/ IngestDone(s)
       \/ Crash(s)
  \/ Tick

Spec == Init /\ [][Next]_vars

-----------------------------------------------------------------------------
(* Properties.                                                             *)

Written(s, f) == dirs[run_id[s]][f]

\* Sessions whose run directory another session has used too.
Alone(s) ==
  \A other \in Sessions \ {s} :
    status[other] \in {"new", "compiling"} \/ run_id[other] # run_id[s]

Recorded == {s \in Sessions : status[s] \in {"running", "done", "failed"} /\ run_id[s] \in made}

(* What validate_run_directory looks for is what is written last: once     *)
(* run.json and manifest.json exist, whole or not, every other file of the *)
(* run is there and whole, the inspection if there was one, however the    *)
(* session ended.                                                          *)
ValidRunsAreComplete ==
  \A s \in Recorded :
    /\ Alone(s)
    /\ s \in {Written(s, f) : f \in Files}
    /\ Written(s, "run") # Nobody /\ Written(s, "manifest") # Nobody
    => /\ \A f \in {"mir", "baseline", "drift", "update"} : Written(s, f) = s
       /\ compiled[s] /\ inspects[s] => Written(s, "inspection") = s

(* The store never knows more than the disk can account for: the run that  *)
(* an observation in the store comes from has its knowledge update in its  *)
(* run directory, unless two runs shared that directory.                   *)
KnowledgeIsAccountedFor ==
  \A id \in ObsIds :
    LET s == store[id].by IN
    s # Nobody /\ Alone(s) => Written(s, "update") = s

(* observations_ingested in a manifest is the number of observations in    *)
(* the store: the ids below it are all taken, by observations that the     *)
(* pass pipeline's queries find.                                           *)
ReportedIsStored ==
  \A s \in Sessions :
    kind[s] = "lab_loop" /\ Written(s, "manifest") = s =>
      \A n \in 0 .. ingested[s] - 1 :
        store[<<task[s], n>>].pattern \in {"mb.matmul", "mb.add"}

(* An id stands for the same pattern in every run of a task, so that later *)
(* runs revise an observation and never replace it by one of another       *)
(* pattern, as long as no insertion of that task has failed.               *)
OneIdOnePattern ==
  \A t \in Tasks \ failures, n \in 0 .. Len(Observations) :
    LET u == store[<<t, n>>] IN u # NoUnit => u.pattern = Observations[n + 1]

(* What a run reports as ingested is in the store, each observation under  *)
(* an id that is its own.                                                  *)
IngestedIsStored == ReportedIsStored /\ OneIdOnePattern
=============================================================================
