--------------------------- MODULE KnowledgeStore ---------------------------
(***************************************************************************)
(* The file-backed knowledge store of MILLer (crates/knowledge), with the  *)
(* pipelines that write to it: the update pipeline and snapshot import.    *)
(*                                                                         *)
(* Memory is a primary index and two secondary indexes.  Disk is one file  *)
(* per seed, one file per observation and store_index.json.  An operation  *)
(* first changes memory and then writes its files one by one, so a write   *)
(* that fails leaves memory ahead of disk, and a crash leaves any prefix   *)
(* of the writes behind, the one under way possibly truncated (Torn).      *)
(*                                                                         *)
(* One process uses the store.  A secondary index, a vector of ids with    *)
(* possible repetitions, is kept as the number of times each id occurs.    *)
(*                                                                         *)
(* Operators that stand before the operator they vary, and that nothing    *)
(* uses, are its mutants: see the README.                                  *)
(***************************************************************************)
EXTENDS KnowledgeUnits, FiniteSets

CONSTANTS
  NoEntry,       \* no such entry, no such file
  Torn,          \* a file whose write was cut short: it does not parse
  Units,         \* the units callers insert as observations
  Batches,       \* the sets of units handed over in one call
  SeedDirs,      \* the seed directories: sets of units, ids may repeat
  Snapshots,     \* snapshots: records of seed entries and observed units
  Thresholds,    \* arguments of prune_below_threshold
  DecayPercents, \* arguments of apply_confidence_decay
  IOFaults,      \* TRUE if reading seed files and fs::write may fail
  Crashes,       \* TRUE if the process may die between or during writes
  MaxRevision,   \* bound on revisions
  MaxCopies      \* bound on the repetitions in a secondary index

ASSUME StoreConstants ==
  /\ NoEntry \notin KnowledgeEntry
  /\ Torn \notin KnowledgeEntry
  /\ NoEntry # Torn
  /\ {NoEntry, Torn} \intersect
       [ entry_ids : SUBSET Ids, seed_count : Nat, observation_count : Nat ] = {}
  /\ IsFiniteSet(Ids)
  /\ Units \subseteq KnowledgeUnit
  /\ Batches \subseteq SUBSET Units
  /\ \A dir \in SeedDirs : dir \subseteq KnowledgeUnit /\ IsFiniteSet(dir)
  /\ Snapshots \subseteq [seeds : SUBSET KnowledgeEntry, observations : SUBSET KnowledgeUnit]
  /\ \A s \in Snapshots : \A e \in s.seeds : e.source = "Seed"
  /\ DecayPercents \subseteq Nat
  /\ Thresholds \subseteq Int
  /\ IOFaults \in BOOLEAN /\ Crashes \in BOOLEAN

VARIABLES
  index,         \* memory: id -> entry
  type_index,    \* memory: knowledge type -> id -> occurrences
  source_index,  \* memory: evidence source -> id -> occurrences
  seed_files,    \* disk: seeds/<file>.json
  obs_files,     \* disk: observations/<file>.json
  store_index,   \* disk: store_index.json
  step,          \* what the process does next
  pending,       \* ids whose files the current operation still writes
  seeds_left,    \* snapshot seeds still to import
  units_left,    \* units still to insert
  tolerant,      \* TRUE if a failed insertion does not end the call
  compared       \* history: the pairs check_conflicts_for_entry has compared

memory == <<index, type_index, source_index>>
disk == <<seed_files, obs_files, store_index>>
loop == <<seeds_left, units_left, tolerant>>
vars == <<memory, disk, step, pending, loop, compared>>

-----------------------------------------------------------------------------
(* Helpers.                                                                *)

Present == {id \in Ids : index[id] # NoEntry}

new_entry(unit, source) ==
  [ unit |-> unit, source |-> source, conflicts |-> {}, resolved |-> FALSE, revision |-> 0 ]

\* Steps in which the process is in the middle of writing files.
Writing == {"persist_seeds", "persist_entry", "persist_index"}

NoStoreIndex == [entry_ids |-> {}, seed_count |-> 0, observation_count |-> 0]

counts(source) == Cardinality({id \in Present : index[id].source = source})

(* Occurrences after every unit of `units` has been pushed.                *)
push_types(units) ==
  [t \in Types |-> [id \in Ids |->
     type_index[t][id]
       + Cardinality({u \in units : u.knowledge_type = t /\ u.id = id})]]

push_sources(units) ==
  [s \in Sources |-> [id \in Ids |->
     source_index[s][id]
       + Cardinality({u \in units : u.evidence_source = s /\ u.id = id})]]

(* The bounds of the model, at the calls that could pass them.              *)
WithinCopies ==
  /\ \A t \in Types, id \in Ids : type_index'[t][id] <= MaxCopies
  /\ \A s \in Sources, id \in Ids : source_index'[s][id] <= MaxCopies

Room(units) ==
  \A u \in units :
    LET Keeps(field) == index[u.id] # NoEntry /\ index[u.id].unit[field] = u[field] IN
    /\ index[u.id] # NoEntry => index[u.id].revision < MaxRevision
    /\ Keeps("knowledge_type") \/ type_index[u.knowledge_type][u.id] < MaxCopies
    /\ Keeps("evidence_source") \/ source_index[u.evidence_source][u.id] < MaxCopies

ForgetPairsOf(ids) == compared' = {p \in compared : p \intersect ids = {}}

written_once(files, id, contents) ==
  IF files[FileOf[id]] # NoEntry THEN files ELSE [files EXCEPT ![FileOf[id]] = contents]

\* fs::write to the file for `id` below a directory, replacing what it held.
written(files, id, contents) == [files EXCEPT ![FileOf[id]] = contents]

\* Control returns to the import or batch loop, or to the caller.
Return ==
  step' = IF seeds_left' = {} /\ units_left' = {} THEN "idle" ELSE "loop"

(* An error ends the call, except that import_into_store counts a failed   *)
(* observation and goes on.                                                *)
ReturnError ==
  /\ pending' = {}
  /\ units_left' = IF tolerant THEN units_left ELSE {}
  /\ UNCHANGED <<seeds_left, tolerant>>
  /\ Return

-----------------------------------------------------------------------------
(* open                                                                    *)

\* The entry, if any, that the file for `id` below a directory holds.
entry_in(files, id) ==
  IF files[FileOf[id]] # NoEntry /\ files[FileOf[id]].unit.id = id
  THEN files[FileOf[id]] ELSE NoEntry

Readable ==
  /\ store_index # Torn
  /\ \A f \in Files : seed_files[f] # Torn /\ obs_files[f] # Torn

(* What load_existing builds: seeds first, then observations over them.    *)
loaded_index ==
  [id \in Ids |-> IF entry_in(obs_files, id) # NoEntry
                  THEN entry_in(obs_files, id) ELSE entry_in(seed_files, id)]

One(P) == IF P THEN 1 ELSE 0

\* Each file pushes its id: an id with a seed and an observation is pushed twice.
loaded_copies(field, values) ==
  [v \in values |-> [id \in Ids |->
     LET In(files) == /\ entry_in(files, id) # NoEntry
                      /\ entry_in(files, id).unit[field] = v
     IN One(In(seed_files)) + One(In(obs_files))]]

LoadExisting ==
  /\ step = "closed"
  /\ store_index # NoEntry
  /\ Readable
  /\ index' = loaded_index
  /\ type_index' = loaded_copies("knowledge_type", Types)
  /\ source_index' = loaded_copies("evidence_source", Sources)
  /\ compared' = {}
  /\ step' = "idle"
  /\ UNCHANGED <<disk, pending, loop>>

(* A file that does not parse makes load_existing fail, and nothing in the *)
(* store repairs or skips it.                                              *)
OpenFails ==
  /\ step = "closed"
  /\ ~ Readable
  /\ UNCHANGED vars

CreateNew ==
  /\ step = "closed"
  /\ store_index = NoEntry
  /\ store_index' = NoStoreIndex
  /\ step' = "idle"
  /\ UNCHANGED <<memory, seed_files, obs_files, pending, loop, compared>>

-----------------------------------------------------------------------------
(* load_seeds_from_directory                                               *)

(* Takes in the units read so far: the last one read of an id wins, over   *)
(* whatever entry that id had, and every one is pushed.                    *)
Absorb(units) ==
  LET ids == {u.id : u \in units} IN
  /\ \E last \in [ids -> units] :
       /\ \A id \in ids : last[id].id = id
       /\ index' = [id \in Ids |-> IF id \in ids THEN new_entry(last[id], "Seed")
                                                  ELSE index[id]]
  /\ type_index' = push_types(units)
  /\ source_index' = push_sources(units)
  /\ WithinCopies
  /\ ForgetPairsOf(ids)

LoadSeeds(dir) ==
  /\ step = "idle"
  /\ Absorb(dir)
  /\ pending' = {id \in Ids : index'[id] # NoEntry /\ index'[id].source = "Seed"}
  /\ step' = IF pending' = {} THEN "persist_index" ELSE "persist_seeds"
  /\ UNCHANGED <<disk, loop>>

(* A file that cannot be read or parsed ends the call: what was read       *)
(* before it stays in memory and nothing is written.                       *)
LoadSeedsFails(dir) ==
  /\ IOFaults
  /\ step = "idle"
  /\ \E read \in SUBSET dir : Absorb(read)
  /\ UNCHANGED <<disk, step, pending, loop>>

WriteSeed(id) ==
  /\ step = "persist_seeds"
  /\ id \in pending
  /\ seed_files' = written(seed_files, id, index[id])
  /\ pending' = pending \ {id}
  /\ step' = IF pending' = {} THEN "persist_index" ELSE "persist_seeds"
  /\ UNCHANGED <<memory, obs_files, store_index, loop, compared>>

-----------------------------------------------------------------------------
(* insert_observation, called directly, by UpdatePipeline::ingest_batch    *)
(* and by import_into_store.  The order within a batch is the caller's.    *)

IngestBatch(units) ==
  /\ step = "idle"
  /\ units # {} /\ Room(units)
  /\ units_left' = units
  /\ tolerant' = FALSE
  /\ step' = "loop"
  /\ UNCHANGED <<memory, disk, pending, seeds_left, compared>>

conflicts_of(unit) ==
  {id \in Present \ {unit.id} : conflicting(index[id].unit, unit)}

(* check_conflicts_for_entry: the entry lists what it conflicts with and,  *)
(* in memory, each of those lists the entry, unless it was resolved.       *)
flagged(entry, found) ==
  IF found = {} THEN entry
  ELSE [entry EXCEPT !.conflicts = found, !.resolved = FALSE]

one_sided(other, id) == other

back_patched(other, id) ==
  IF other.resolved THEN other
  ELSE [other EXCEPT !.conflicts = @ \union {id}]

(* The secondary index after an entry of `id` moves from `old` to `new`:   *)
(* all occurrences below the old key go, one is pushed below the new.      *)
moved_without_push(secondary, id, old, new) ==
  IF old = new THEN secondary ELSE [secondary EXCEPT ![old][id] = 0]

moved(secondary, id, old, new) ==
  IF old = new THEN secondary
  ELSE [secondary EXCEPT ![old][id] = 0, ![new][id] = @ + 1]

revised_without_count(entry, unit) ==
  [entry EXCEPT !.unit = unit, !.source = "Observation"]

revised(entry, unit) ==
  [ unit |-> unit, source |-> "Observation", conflicts |-> entry.conflicts,
    resolved |-> entry.resolved, revision |-> entry.revision + 1 ]

updated_entry(unit) ==
  IF index[unit.id] = NoEntry THEN new_entry(unit, "Observation")
  ELSE revised(index[unit.id], unit)

(* Seeds are immutable: an observation with the id of a seed is refused.   *)
no_seed_protection(id) == FALSE

is_seed(id) == index[id] # NoEntry /\ index[id].source = "Seed"

(* Memory after the insertion; the entry is then persisted.                *)
InsertObservation(unit) ==
  LET id == unit.id
      found == conflicts_of(unit)
      entry == flagged(updated_entry(unit), found)
  IN
  /\ step = "loop" /\ seeds_left = {}
  /\ unit \in units_left
  /\ tolerant \/ validate(unit)
  /\ ~ is_seed(id)
  /\ index' = [other \in Ids |->
                 IF other = id THEN entry
                 ELSE IF other \in found THEN back_patched(index[other], id)
                 ELSE index[other]]
  /\ IF index[id] = NoEntry
     THEN /\ type_index' = push_types({unit})
          /\ source_index' = push_sources({unit})
     ELSE LET old == index[id].unit IN
          /\ type_index' = moved(type_index, id, old.knowledge_type, unit.knowledge_type)
          /\ source_index' = moved(source_index, id, old.evidence_source, unit.evidence_source)
  /\ compared' = compared \union {{id, other} : other \in Present \ {id}}
  /\ units_left' = units_left \ {unit}
  /\ pending' = {id}
  /\ step' = "persist_entry"
  /\ UNCHANGED <<disk, seeds_left, tolerant>>

(* A unit that fails validation, or whose id a seed has, is refused; the   *)
(* rest of a batch is then not inserted, the rest of a snapshot is.        *)
RefuseObservation(unit) ==
  /\ step = "loop" /\ seeds_left = {}
  /\ unit \in units_left
  /\ \/ ~ tolerant /\ ~ validate(unit)
     \/ is_seed(unit.id)
  /\ units_left' = IF tolerant THEN units_left \ {unit} ELSE {}
  /\ pending' = {}
  /\ UNCHANGED <<memory, disk, seeds_left, tolerant, compared>>
  /\ Return

WriteObservation(id) ==
  /\ step = "persist_entry"
  /\ id \in pending
  /\ obs_files' = written(obs_files, id, index[id])
  /\ pending' = {}
  /\ step' = "persist_index"
  /\ UNCHANGED <<memory, seed_files, store_index, loop, compared>>

-----------------------------------------------------------------------------
(* rebuild_store_index, the last write of both operations above.           *)

WriteStoreIndex ==
  /\ step = "persist_index"
  /\ store_index' = [ entry_ids |-> Present, seed_count |-> counts("Seed"),
                      observation_count |-> counts("Observation") ]
  /\ UNCHANGED <<memory, seed_files, obs_files, pending, loop, compared>>
  /\ Return

(* fs::write returned an error: the operation stops where it is, with      *)
(* memory changed already.                                                 *)
WriteFails ==
  /\ IOFaults
  /\ step \in Writing
  /\ ReturnError
  /\ UNCHANGED <<memory, disk, compared>>

-----------------------------------------------------------------------------
(* import_into_store: seeds whose id is not taken are written straight     *)
(* into seeds/ and memory, with the metadata the snapshot gives them; then *)
(* its observations go through insert_observation.                         *)

ImportSnapshot(snapshot) ==
  /\ step = "idle"
  /\ snapshot.seeds # {} \/ snapshot.observations # {}
  /\ Room(snapshot.observations) /\ Room({e.unit : e \in snapshot.seeds})
  /\ seeds_left' = snapshot.seeds
  /\ units_left' = snapshot.observations
  /\ tolerant' = TRUE
  /\ step' = "loop"
  /\ UNCHANGED <<memory, disk, pending, compared>>

ImportSeed(entry) ==
  LET id == entry.unit.id IN
  /\ step = "loop"
  /\ entry \in seeds_left
  /\ index[id] = NoEntry
  /\ seed_files' = written(seed_files, id, entry)
  /\ index' = [index EXCEPT ![id] = entry]
  /\ type_index' = push_types({entry.unit})
  /\ source_index' = push_sources({entry.unit})
  /\ ForgetPairsOf({id})
  /\ seeds_left' = seeds_left \ {entry}
  /\ UNCHANGED <<obs_files, store_index, pending, units_left, tolerant>>
  /\ Return

SkipSeed(entry) ==
  /\ step = "loop"
  /\ entry \in seeds_left
  /\ index[entry.unit.id] # NoEntry
  /\ seeds_left' = seeds_left \ {entry}
  /\ UNCHANGED <<memory, disk, pending, units_left, tolerant, compared>>
  /\ Return

(* Failing to write a seed ends the import.                                *)
ImportSeedFails ==
  /\ IOFaults
  /\ step = "loop"
  /\ \E entry \in seeds_left : index[entry.unit.id] = NoEntry
  /\ seeds_left' = {} /\ units_left' = {}
  /\ step' = "idle"
  /\ UNCHANGED <<memory, disk, pending, tolerant, compared>>

-----------------------------------------------------------------------------
(* Operations on memory alone.                                             *)

(* A caller resolves a conflict through get_mut.                           *)
Resolve(id) ==
  /\ step = "idle"
  /\ id \in Present
  /\ index[id].conflicts # {}
  /\ index' = [index EXCEPT ![id].conflicts = {}, ![id].resolved = TRUE]
  /\ UNCHANGED <<type_index, source_index, disk, step, pending, loop, compared>>

ApplyConfidenceDecay(percent) ==
  /\ step = "idle"
  /\ index' = [id \in Ids |->
       IF index[id] = NoEntry THEN NoEntry
       ELSE [index[id] EXCEPT !.unit.confidence = apply_time_decay(@, percent)]]
  /\ UNCHANGED <<type_index, source_index, disk, step, pending, loop, compared>>

PruneBelowThreshold(threshold) ==
  LET removed == {id \in Present : index[id].unit.confidence < threshold}
      Swept(secondary, field) ==
        [v \in DOMAIN secondary |-> [id \in Ids |->
           IF id \in removed /\ index[id].unit[field] = v
           THEN 0 ELSE secondary[v][id]]]
  IN
  /\ step = "idle"
  /\ type_index' = Swept(type_index, "knowledge_type")
  /\ source_index' = Swept(source_index, "evidence_source")
  /\ index' = [id \in Ids |-> IF id \in removed THEN NoEntry ELSE index[id]]
  /\ ForgetPairsOf(removed)
  /\ UNCHANGED <<disk, step, pending, loop>>

-----------------------------------------------------------------------------
(* The process ends, in an orderly way or by a crash.                      *)

MemoryLost ==
  /\ index' = [id \in Ids |-> NoEntry]
  /\ type_index' = [t \in Types |-> [id \in Ids |-> 0]]
  /\ source_index' = [s \in Sources |-> [id \in Ids |-> 0]]
  /\ compared' = {}
  /\ step' = "closed"
  /\ pending' = {}
  /\ seeds_left' = {} /\ units_left' = {} /\ tolerant' = FALSE

Close ==
  /\ step = "idle"
  /\ MemoryLost
  /\ UNCHANGED disk

Crash ==
  /\ Crashes
  /\ step \in Writing \union {"loop"}
  /\ MemoryLost
  /\ UNCHANGED disk

(* fs::write truncates and then writes: dying in between leaves the file   *)
(* of the write under way without its contents, old or new.                *)
CrashDuringWrite ==
  /\ Crashes
  /\ MemoryLost
  /\ \/ \E id \in pending :
          /\ step = "persist_seeds"
          /\ seed_files' = written(seed_files, id, Torn)
          /\ UNCHANGED <<obs_files, store_index>>
     \/ \E entry \in seeds_left :
          /\ step = "loop"
          /\ index[entry.unit.id] = NoEntry
          /\ seed_files' = written(seed_files, entry.unit.id, Torn)
          /\ UNCHANGED <<obs_files, store_index>>
     \/ \E id \in pending :
          /\ step = "persist_entry"
          /\ obs_files' = written(obs_files, id, Torn)
          /\ UNCHANGED <<seed_files, store_index>>
     \/ /\ step = "persist_index" \/ (step = "closed" /\ store_index = NoEntry)
        /\ store_index' = Torn
        /\ UNCHANGED <<seed_files, obs_files>>

-----------------------------------------------------------------------------
Init ==
  /\ index = [id \in Ids |-> NoEntry]
  /\ type_index = [t \in Types |-> [id \in Ids |-> 0]]
  /\ source_index = [s \in Sources |-> [id \in Ids |-> 0]]
  /\ seed_files = [f \in Files |-> NoEntry]
  /\ obs_files = [f \in Files |-> NoEntry]
  /\ store_index = NoEntry
  /\ step = "closed"
  /\ pending = {}
  /\ seeds_left = {} /\ units_left = {} /\ tolerant = FALSE
  /\ compared = {}

Next ==
  \/ LoadExisting \/ OpenFails \/ CreateNew
  \/ \E dir \in SeedDirs : LoadSeeds(dir) \/ LoadSeedsFails(dir)
  \/ \E units \in Batches : IngestBatch(units)
  \/ \E snapshot \in Snapshots : ImportSnapshot(snapshot)
  \/ \E entry \in seeds_left : ImportSeed(entry) \/ SkipSeed(entry)
  \/ ImportSeedFails
  \/ \E unit \in units_left : InsertObservation(unit) \/ RefuseObservation(unit)
  \/ \E id \in pending : WriteSeed(id) \/ WriteObservation(id)
  \/ WriteStoreIndex \/ WriteFails
  \/ \E id \in Ids : Resolve(id)
  \/ \E percent \in DecayPercents : ApplyConfidenceDecay(percent)
  \/ \E threshold \in Thresholds : PruneBelowThreshold(threshold)
  \/ Close \/ Crash \/ CrashDuringWrite

Spec == Init /\ [][Next]_vars

-----------------------------------------------------------------------------
(* Properties.                                                             *)

Secondary(keys) == [keys -> [Ids -> Nat]]

(* Every variable has its type; when no call is under way nothing is left  *)
(* of the loops' work lists.                                               *)
TypeOK ==
  /\ index \in [Ids -> KnowledgeEntry \union {NoEntry}]
  /\ type_index \in Secondary(Types)
  /\ source_index \in Secondary(Sources)
  /\ seed_files \in [Files -> KnowledgeEntry \union {NoEntry, Torn}]
  /\ obs_files \in [Files -> KnowledgeEntry \union {NoEntry, Torn}]
  /\ store_index \in [ entry_ids : SUBSET Ids, seed_count : Nat,
                       observation_count : Nat ] \union {NoEntry, Torn}
  /\ step \in {"closed", "idle", "loop"} \union Writing
  /\ pending \subseteq Ids
  /\ seeds_left \subseteq KnowledgeEntry
  /\ units_left \subseteq KnowledgeUnit
  /\ tolerant \in BOOLEAN
  /\ compared \subseteq SUBSET Ids

(* A query by knowledge type or by evidence source misses no entry: the    *)
(* secondary indexes list every entry below its current type and source,   *)
(* after any mix of seed loading, updates that change type or source,      *)
(* imports, pruning, failed writes and reopening.                          *)
QueriesMissNothing ==
  \A id \in Present :
    /\ type_index[index[id].unit.knowledge_type][id] > 0
    /\ source_index[index[id].unit.evidence_source][id] > 0

(* No conflict between two entries that were compared goes unrecorded:     *)
(* each lists the other, unless it has been marked resolved.  Later        *)
(* updates of either, conflicts with third entries (which replace an       *)
(* entry's list) and decay must not lose it.                               *)
NoConflictLost ==
  \A a, b \in Present :
    /\ a # b
    /\ {a, b} \in compared
    /\ conflicting(index[a].unit, index[b].unit)
    => index[a].resolved \/ b \in index[a].conflicts

(* Within a session an entry never turns from seed into observation.       *)
SeedsStaySeeds ==
  [][ \A id \in Ids :
        index[id] # NoEntry /\ index'[id] # NoEntry /\ index[id].source = "Seed"
        => index'[id].source = "Seed" ]_vars

(* What the commands have put into the store is what the next process to   *)
(* open it gets: between calls, reloading would give the same ids, with    *)
(* the same units, sources and revisions. So it is for seed loading,       *)
(* batches, imports and crashes; a write that fails, pruning and decay can *)
(* leave memory and files apart, and are no part of the runs and theorems  *)
(* that claim this.                                                        *)
ReloadAgrees ==
  step = "idle" /\ Readable =>
    \A id \in Ids :
      IF index[id] = NoEntry THEN loaded_index[id] = NoEntry
      ELSE /\ loaded_index[id] # NoEntry
           /\ loaded_index[id].unit = index[id].unit
           /\ loaded_index[id].source = index[id].source
           /\ loaded_index[id].revision = index[id].revision

(* The file of an observation is only ever replaced by a later revision of *)
(* the same observation, across crashes, reopening and seed loading.       *)
RevisionsNeverRegress ==
  [][ \A f \in Files :
        obs_files[f] \notin {NoEntry, Torn} /\ obs_files'[f] \notin {obs_files[f], Torn}
        => /\ obs_files'[f] # NoEntry
           /\ obs_files'[f].unit.id = obs_files[f].unit.id
           /\ obs_files'[f].revision > obs_files[f].revision ]_vars

(* store_index.json, which exists to look entries up without loading their *)
(* files, lists only ids whose files were written before it.               *)
IndexedIdsHaveFiles ==
  store_index \notin {NoEntry, Torn} =>
    \A id \in store_index.entry_ids :
      \E file \in {seed_files[FileOf[id]], obs_files[FileOf[id]]} :
        file = Torn \/ (file # NoEntry /\ file.unit.id = id)

(* What memory, the index file and the files of the entries say agrees     *)
(* wherever the next process may start from, as long as no write fails and *)
(* nothing is pruned or decays.                                            *)
DiskAgrees == ReloadAgrees /\ IndexedIdsHaveFiles
=============================================================================
