# A verification project for MILLer

MILLer compiles model descriptions to Core ML packages (`.mlpackage`) and keeps
what it learns about the Apple Neural Engine in a knowledge store. This
directory holds TLA+ models of it, TLC runs on small instances of them, and
proofs checked by TLAPS. `PROJECT.json` maps every definition to the lines it
models and lists components, runs, mutants, hazards and theorems.

Two halves of the program ask for two kinds of models. What keeps state, writes
files or runs other processes (store, package, bridge, lab) is modelled as
machines with failures and crashes. The compiler proper is a sequence of pure
functions over graphs, with one case for each of some 200 operations in every
function; there the model is a machine of passes whose input is chosen at the
start, and the hazards are those of agreement: between passes that find each
other's nodes by name, between tables written by hand for the same operations,
and between copies of the same rules.

## The system

| Part | State | Operations | What is hard about it |
|---|---|---|---|
| Knowledge store (`crates/knowledge`: `store.rs`, `update.rs`, `snapshot.rs`, `util.rs`) | a primary index and two secondary indexes in memory; one JSON file per entry and `store_index.json` on disk | open, load seeds, ingest (one unit or a batch), import a snapshot, decay, prune, resolve | memory changes before the files do; several files per operation; three places keep the secondary indexes; conflict lists of two entries must agree |
| Weight file builder (`crates/coreml-emit/src/weights.rs`) | entries, maps from name and content to an entry, savings; in `build()` a buffer and a position beside it | `add_weight`, `build`, `estimated_size` | two deduplications that feed each other; offsets computed next to the buffer they describe |
| Proto-direct emission (`package.rs`, `emitter.rs`) | the package directory; a compilation count per process | `emit_model`, `write` | the package is removed and rewritten in place; offsets exist only after `build()`; hash maps reach the files |
| Python bridge (`crates/bridge/src/subprocess.rs`, `python/bridge.py`, `python/mil_emitter.py`) | a child process, its result file, processes of its own that write the package, a spec file they share | `execute_raw_payload`, `main`, `save_mlpackage` | hangs, crashes and timeouts of three generations of processes; three save strategies on one path |
| Lab (`crates/lab/src/session.rs`, `run_dir.rs`) | run directories, a package, the store | `LabSession::run`, `LabLoopSession::run`, ingest, validate | a run spans the bridge, the store and many files; ids and directory names repeat |
| Tracing (`python/trace_model.py`, `crates/trace`) | a graph of the model's operations, the files of its weights | load, trace symbolically or write the graph from the configuration, build SIR, report what a family supports | classes and fields differ between models; operations name each other by strings that are resolved at the end; two ways to the same graph |
| Passes (`crates/passes`: canonicalize, static tables, precision, legality rewrite, risk, shard plan, MIR lowering) | a graph: SIR, then AIR, then MIR | graph to graph | one node becomes many, found again by formatted ids; decisions made on one graph are about the nodes of the next |
| Decode functions (`static_table_resolver.rs` and the nodes of a decode step) | two caches | one call per token | slots are selected by arithmetic on 16-bit floats |
| Conversions (`mil_lower.rs`, `bridge/src/mir_to_compat.rs`, `bridge/src/unify.rs`, `coreml-proto/src/lib.rs`, `coreml-emit/src/mir_to_proto.rs`) | one operation in five forms; constants of a function | one arm per operation and conversion | operands are renamed by hand; lists of what is supported stand beside the arms |
| Shape inference (`ir/src/shape_ops.rs`, `mil_lower.rs`, `bridge/src/shape_inference.rs`) | shapes by id | infer, propagate, fill reshape targets | three copies of the same rules; unknown shapes |
| Placement (`ir/src/ane_*.rs`, `passes/src/placement_validate.rs`, `op_constraints.rs`, `fusability.rs`) | none | place an operation, fuse, check budgets | limits for a dozen revisions, inherited by hand; several lists of the same operations |
| Command line (`crates/cli/src/main.rs`) | the two functions of a package | `compile-full`, `trace-compile` and smaller commands | the prompt's function and the decode step must fit each other |
| Weight search (`trace_model.py`, `bridge/src/safetensors_resolver.rs`) | the hub's cache on disk, shared with other programs | find files, load them | search strategies that replace each other silently |
| Artifacts, reports, task families, Core ML FFI | none, or stubs | formatting, archiving, parameters | order of writes |

A compilation starts from a task specification or a traced model. The passes
take the SIR graph to AIR and MIR; from there it goes either to `ProtoEmitter`
(which calls `MlPackageWriter`, which calls `WeightBinBuilder`) or through
`PythonBridge` to coremltools. The lab loop compiles, inspects the result,
compares it with a baseline and ingests what it saw into the knowledge store,
which later compilations query. Nothing in the Rust crates runs in threads; the
concurrency of the system is that of its processes, and its failures are those
of files and processes.

What makes each part correct: a store must answer queries completely, protect
its seeds, keep both sides of a conflict, and come back from disk as it was
acknowledged; a weight file must lead every name to its own bytes; a package
that is reported must be whole and of one emission; a bridge call must come
back, leave nothing running, and never take a crash or an old package for a
success; a lab run must not be half recorded. A pass must leave a well-formed
graph whose outputs depend on what they depended on before; a decode step must
write the token, the whole token and nothing but the token into its slot; an
operand must reach the argument that plays its part; an inferred shape must be
the tensor's; a placement that is promised must have an engine, and a newer
device must not take less than an older one; the graph of a traced model must
compute its layers, from weights of one revision.

## Modules

| Module | Models |
|---|---|
| `KnowledgeUnits` | units, scopes, claims, entries; `scopes_overlap`, `claims_contradict`, validation, decay |
| `KnowledgeStore` | the store and the pipelines that write to it |
| `WeightBin` | `WeightBinBuilder`, on its own (`SpecBuilder`) |
| `Package` | what a caller may expect of the package at a path (abstract) |
| `MlPackage` | `emit_model` and `write`, with the builder of `WeightBin`; implements `Package` |
| `PythonBridge` | `execute_raw_payload`, `bridge.py` and the savers of `save_mlpackage` |
| `LabLoop` | lab sessions as processes that share an output directory and the store |
| `SirPasses` | graphs and ids; canonicalization, static tables, precision policy, shard plan |
| `LegalityRewrite` | SIR to AIR with all decompositions; risk annotation |
| `MilLower` | AIR to MIR and the rewrites of the lowered list |
| `CompilePipeline` | both compile commands as a machine of these passes |
| `DecodeLoop` | calls of a decode function, with the arithmetic of its masks |
| `TokenCache` | what a key/value cache promises (abstract); `DecodeLoop` implements it |
| `OpFields` | the operands of every operation of SIR, AIR and MIR |
| `OpConvert` | the conversions SIR to AIR to MIR to protobuf operations, and the second conversion of the last step |
| `ProtoOps` | the operands of every protobuf operation |
| `ProtoEmit` | the instructions of both message formats |
| `OpJourney` | one operation on its way through all of them, with its weights |
| `ShapeOps` | the shape functions |
| `ShapeRules` | the three copies of shape inference |
| `OpShapes` | small graphs lowered, bridged, propagated and emitted, with the gates before emission |
| `AneTarget` | families, revisions, chips, limits, layouts |
| `OpEngines` | engines by operation, CPU-only lists, converters by family |
| `OpConstraints` | what data types, attributes and shapes the accelerator takes; fusion and memory |
| `OpPlacement` | the placement of operations and of short programs |
| `TraceGraphs` | what the tracer makes of a model |
| `SirBuild` | the construction of SIR from a traced graph |
| `OpSupport` | the report on what a family supports |
| `WeightFiles` | where tracer and compiler look for weights |
| `TracePipeline` | the traced compile: tracer, builder, weights, tables, functions |
| `KnowledgeStoreProofs`, `MlPackageProofs` (with the theorems about `WeightBin`), `PythonBridgeProofs`, `LabLoopProofs`, `DecodeLoopProofs`, `OpPlacementProofs`, `TracePipelineProofs`, `CompilePipelineProofs` | theorems |
| `MCKnowledgeStore`, `MCMlPackage`, `MCLabLoop`, `MCDecodeLoop`, `MCCompilePipeline`, `MCOpShapes`, `MCOpPlacement`, `MCTracePipeline` | instances for TLC (`PythonBridge` and `OpJourney` need none: their cfg gives the constants) |

Compositions: `MlPackage` contains the builder of `WeightBin`;
`CompilePipeline` runs the three pass modules one after another;
`TracePipeline` composes the tracer, the builder, the report and the weight
search; `OpJourney` composes the tables of all conversions; `OpPlacement` sets
the placement against the legality of the rewrite; `OpSupport` uses the engines
of `OpEngines` for its own question.

Some operators stand before the operator they vary, take the same parameters
and are used by nothing (`no_padding` before `padding`). They are the mutants:
replacing the second by the first is a plausible bug, and the run of the
property named in `PROJECT.json` then fails. This shows that the property
depends on that line of the code.

### KnowledgeStore

`index`, `type_index` and `source_index` are the fields of the same names; a
secondary index, a vector with possible repetitions in the code, is the number
of times an id occurs. `seed_files`, `obs_files` and `store_index` are the
files. `step`, `pending` and the loop variables are the program counter of the
call under way: each `fs::write` is a step of its own, so that a failure
(`IOFaults`) or a crash (`Crashes`) may fall between any two, or into one and
leave the file `Torn`. `FileOf` is `sanitize_id`. Confidences are integers;
only their order, their difference and their decay matter. `compared` is a
history of the pairs that `check_conflicts_for_entry` has seen.

### WeightBin and MlPackage

A shape with its dtype is a kind, the bytes of a tensor (and their SHA-256) a
content with a size. `current_pos` is the position `build()` computes with,
`buf_len` the real length of the buffer; `blobs` is what lies in the buffer.
`MlPackage` adds the files, each with the model it was written for, the order
in which a hash map with two entries happened to be serialized, and the
compilation count. `remove_dir_all` removes files in any order. Every step may
fail, and the process may die at every step, with the file under way cut short.

### PythonBridge

`parent` is the control state of `execute_raw_payload`, `child[c]` that of the
`bridge.py` of call `c`, `saver[c]` that of the process it runs to write the
package. A file's content is the call it was written for. Timeouts may strike
at any moment while something is waited for. `try_wait` and `kill` are two
steps, so a child may finish in between. Killing `bridge.py` does not kill its
saver. What coremltools does in `mlmodel.save` is external: it writes the
model, then the manifest, raises or aborts in between or after.

### LabLoop

A session is the sequence of what it still has to do: files of its run
directory to write and, for the loop, the ingestion into the store. A file is
the session that wrote it. Two sessions started in one second for tasks whose
hashes begin alike have one run id and write into one directory. Files fail or
tear, an ingestion is refused in the middle, and a session may die between any
two steps. `store` keeps for every observation id who put it there and for
which pattern, because ids are built from a counter that starts again.

### The passes: SirPasses, LegalityRewrite, MilLower, CompilePipeline

A graph is a sequence of nodes with an id, an operation, the ids it reads and
what else its value depends on (weight, state, table, attributes the passes
test). An id is a tuple of what the code formats into a string, so that two ids
are equal exactly when the strings are. `CompilePipeline` has one action per
pass in the order of each command, and keeps the source in `src`; "what an
output depends on" (`Upstream`, `Meaning`) compares the graph after every pass
with it. Numbers, axes and shapes are left out except where a rewrite tests
them. `Degree` computes by which power of its input's magnitude a value scales.

### DecodeLoop

The two caches as functions of slots, and one action, a call of the function at
a position with a token. `fl`, a constant operator, rounds every number of the
tables and every intermediate result as fp16 does; all the module assumes of it
is that it keeps integers and their order, is exact up to `Exact` and at most
doubles a number. Nothing bounds the length of the context by `Exact`, as nothing
in the code does. A key is the token with the rows of the rotary tables that
rotated it. `TokenCache` is the promise; the refinement mapping forgets the
rotation, and `Kept` is the number of slots that only their own position
changes. `CausalMask` is what the comments promise of the mask, written down
without looking at how it is computed.

### One operation: OpFields, OpConvert, ProtoOps, ProtoEmit, OpJourney

The enumerations and the arms of the conversions are tables: kind to operands,
and kind to the kind it becomes with the operand every field is copied from,
one definition per section of the code, regular arms by a common operator.
`OpJourney` takes one operation with named operands from where it enters to the
instructions of the package, through the rewrites, the materialisation of its
weights, the two gates and the emission. What surrounds it (which operands are
nodes, inputs, or weights the resolver knows) is chosen at the start. Emission
sanitises every identifier (`sanitize_mil_ident`) and then validates some
messages. Those three validations see the shapes of operands that are given as
immediate values only; an operand the message names is never compared, so none
of them can refuse a row of the tables (`Compared`).

### Shapes: ShapeOps, ShapeRules, OpShapes

`truth` holds the shapes at run time and is computed by the definitions of the
operations, not by the code's rules. Which kinds keep the shape of their first
operand is decided by what they compute (`SameShape`: element by element, a
normalisation, a rearrangement within an axis, a tensor written over another);
pixels move between channels and image (`ToSpace`, `ToDepth`), attention has the
shape of two matrix products (`TrueAttention`), padding is a pair for every axis
as Core ML and `op_constraints.rs:808` have it (`AroundAxis`). Where a rule of the
code differs, the properties name it (`LowerGuesses`, `BridgeGuesses`). `mir` and `compat` are what the lowering
and the bridge believe, `targets` what reshapes are emitted with. A graph grows
by one operation at a time, either lowered from AIR or built in MIR without
shapes, and is then bridged. `Emit` is the way from there to a package: the
operations that are turned away, the checks of every message's shapes, the sizes
and uniformity of the surfaces the accelerator is handed (`surfaces`), and what
each check does under the two validation policies: strict, or a warning, which
is what the commands ask for. A graph ends as "emitted" or "rejected".

### Placement: AneTarget, OpEngines, OpConstraints, OpPlacement

Families, revisions and limits are tables; the validators are predicates that
hold where the code returns `Ok`. A step places one operation, with attributes,
shapes and context, on the target chosen at the start; a program of such
operations is then fused and checked against the memory of the chips. The
properties quantify over older and newer targets and over what the caller may
not have known.

### Tracing: TraceGraphs, SirBuild, OpSupport, WeightFiles, TracePipeline

A model is its configuration (which optional fields it has), its declared class
and what its modules are. `DecoderLayer` states what a layer of the model
computes, with the model's own norm, of either kind, and the biases its
projections have, as a term over parameters and the layer before; `Computed`
reads the same term off the graph that was built. What the builder is known to
drop is not left out of the layer but named beside it (`Losses`), and only for
models that have it. References between operations are kept as the strings the
code makes, as tuples, and resolved as it resolves them.

`TracePipeline` is `run_trace_compile` from the name of the target on, one action
per step that may fail or that others may get between:

| Phase | Code | Actions |
|---|---|---|
| `target` | `parse_ane_family`, `main.rs` | `ParseTarget`: the names of the eight families, anything else is refused |
| `load`, `trace` | `_load_model`, `trace_model.py` | `LoadModel`, `LoadFails` (the next class is tried), `TraceSymbolically`, `TraceStructurally` |
| `saved` | `load_pre_traced` | a trace on disk, of either kind, possibly of another length and without parameters |
| `locate_1a` to `locate_4` | the tracer's strategies | one action each; `Download` fetches all of what is missing or some of it |
| `traced` to `tabled` | `main.rs`, `sir_build.rs`, `versioned.rs`, `static_tables.rs` | `ResolveArchitecture`, `BuildSir`, `Validate`, `StaticTables` |
| `rewritten`, `resolved` | `safetensors_resolver.rs`, `static_table_resolver.rs` | `ResolveWeights`, `Prepare`: input shapes, tables and their shapes for both functions |
| `lowered` to `complete` | `main.rs` | one function or two, the package's check, five artifacts |

In any phase before the weights are read another program may remove a snapshot
(`Evict`), and while it runs the tracer may die (`TracerFails`). The passes
between are `CompilePipeline`'s and here succeed or fail. The cache of the hub is
a set of snapshots of different ages whose files may be partial or unreadable.

## Runs

| Run | Instance | What it shows |
|---|---|---|
| `ks_all` | two ids, all operations, failing writes, crashes | indexes stay complete (`QueriesMissNothing`); no seed becomes an observation in a session (`SeedsStaySeeds`) |
| `ks_reload` | three ids, seed loading, batches, import, crashes | conflicts between compared entries stay on both sides (`NoConflictLost`); reopening gives what was acknowledged and the file index lists only written files (`DiskAgrees`); revisions on disk only grow (`RevisionsNeverRegress`) |
| `mp_all` | all models of up to three constants, limit 3, faults; the builder alone with three names, three kinds, sizes 0, 64 and 65 | files never mix two emissions (`OneEmission`) and `MlPackage` implements `Package` (`ImplementsPackage`); names lead to their data (`NamesResolve`), blobs lie where offsets say, apart from each other (`LayoutIsSound`), and buffer, estimate and savings add up (`SizesAddUp`) |
| `pb_all` | two calls to one path | `NoChildSurvives`, `CrashIsFailure`, `SuccessIsOwn`, and every call returns (`CallsReturn`) |
| `ll_all` | two sessions of either kind, one or two seconds, faults, crashes | what validates as a run is complete (`ValidRunsAreComplete`); knowledge has a run directory that accounts for it (`KnowledgeIsAccountedFor`); what is reported as ingested is in the store, one pattern per id (`IngestedIsStored`) |
| `cp_all` | pairs of operations with identities between them, three routes; decode graphs of one and two layers; calls of the smallest decode graph | graphs are well formed (`SingleAssignment`), outputs depend on what they did (`OutputsKeepMeaning`), and the pieces of a decode step, of attention, norms and the vocabulary projection are wired as meant (`CachesAreUpdated`, `HeadsPaired`, `NormsScaleFree`, `LogitsOfLastToken`); precision and shard decisions hold of the final nodes (`DecisionsReachGraph`); at seven positions and one past the end, with numbers exact to four only, a slot holds the key and value of one token (`SlotsAreSound`) and the cache is a `TokenCache` (`ImplementsTokenCache`) |
| `dl_causal` | eight positions, numbers exact to four | finds `CausalMask` violated by the first call |
| `em_all` | every operation kind of three representations, every choice of optional operands and weights | `OperandsReachTheirArgument`, `ProgramIsClosed`, `NoSilentZeros`, `SupportedIsEmitted` |
| `sh_all` | every kind shape inference has a rule for, alone and in pairs | but for the rules that are named as wrong, shapes the lowering infers are the tensors' (`LoweredShapesAreTrue`), and so are the bridge's and the targets of its reshapes, and what the gates let through fits: no emitted reshape changes the number of elements, surfaces under the strict policy are uniform and large enough (`EmittedShapesAreTrue`, whose last part is `PackageFits`) |
| `pl_all` | every kind and context, every family and revision, values on both sides of each limit, programs of three | what the CPU-only list names is a likely fallback for the legality gate (`GateAgrees`), newer or less-known never means refused where older or better-known is accepted (`AcceptanceIsMonotone`), groups and budgets agree (`ProgramsAddUp`) |
| `pl_cpu` | the same | finds `CpuOnlyNeverAllowed` violated: the validator gives CPU-only operations to the accelerator |
| `tr_all` | every class of model, configuration field, symbolic call and state of the cache that the code tells apart | `LayersKeepTheirMeaning`, `GatedOpsAreDecomposed`, `FunctionsFit`, `OneRevision`, `NotFoundIsNotThere` |

Several properties are conjunctions of named parts (`LayoutIsSound`,
`DiskAgrees`, `FunctionsFit` and others), stated next to each other. `dl_causal` and
`pl_cpu` are runs that TLC ends with a counterexample: they set a comment of the
code against the code, and `PROJECT.json` lists them as findings.

How far some of them reach: `SeedsStaySeeds` is about one session, since reopening
may bring an observation back over a seed; `ks_reload` has no failing writes, no
pruning and no decay; for `SuccessIsOwn` a package is whole when model and manifest
are, and two of the three save strategies write no `weights/weight.bin`;
`KnowledgeIsAccountedFor` guarantees a knowledge update, not a `run.json`;
`IngestedIsStored` lets two observations of one pattern have one id after a
failed ingestion; `ValidRunsAreComplete` leaves shared run directories out;
`NormsScaleFree` leaves `decompose_rms_norm` out.

### Bounds

- `MaxRevision` (1) and `MaxCopies` (2) bound revisions and repetitions in the
  store. One update of an existing entry, and one repeated id, are the cases the
  code distinguishes; further ones repeat them. The bounds are guards of the
  calls that would pass them (`Room`, `WithinCopies`). Three ids are needed for
  an entry to conflict with a second and a third; two for everything else.
- `MaxNameHits` bounds how often a known name is added again. Three names and
  three kinds allow a chain of name, alias and a forgotten content. Sizes 0, 64
  and 65 are the edges of the alignment.
- `COMPILATION_LIMIT` is 3 instead of the code's constant; the count stops at
  the limit, where every further emission is refused in the same way. Two names
  and two contents in three constants cover repeated, aliased and ambiguous
  names.
- `MaxCalls` is 2: a call meets what one earlier call left behind.
- `MaxSecond` is 1 and there are two sessions: they start in one second or not.
  A third would meet what the second met.
- `cp_all` takes two operations of every kind with up to three identities
  (`MaxChain` 2 lets a reference into the middle of a chain be rewritten in
  steps), and one or two layers, and head counts that are missing, grouped,
  shared by all, and not divisible. Passes look at a node and at those it names,
  so a pair shows every neighbourhood they test.
- `Exact` is 4 where fp16 has 2048, and `SeqLen` 7 (8 in `dl_causal`), so that most
  slots lie where numbers are rounded: `HalfFloat` of `MCDecodeLoop` is a format
  with that many significant bits, to nearest and ties to even. Slots 4 and 5
  there are selected by one position, as 2048 and 2049 are. The proofs bound
  neither.
- `em_all` takes one operation at a time: the conversions are per operation, and
  what lies around it is `env`. It has no numeric bound.
- `MaxNodes` 2 and `MaxSeqLen` 7 in `sh_all`: a wrong shape must pass one further
  rule. Ranks one to three, axes from both ends, dimensions that divide and do
  not; images of rank four for the kinds that move pixels, queries, keys and values
  of rank three, and paddings that read differently as pairs and as halves.
  `Emit` takes elements of one size (`ElementSize` 2) and one state, and
  results that include the last node; `MIN_IOSURFACE_BYTES` is 8 instead of the
  code's constant, so that surfaces lie on both sides of it. `Written`, the kinds
  that are written into messages, is given as a set because TLC would recompute
  the tables at every state; an `ASSUME` compares it with them.
- `pl_all` has `MaxOps` 3, the shortest chain whose ends are not neighbours, for
  kinds that represent each engine; every other kind alone.
- `tr_all` has no layer, one, or two where layers must be told apart, two or four
  heads, RMS and layer norms, projections with and without biases, and two `Commits` with snapshots of two files. Configurations, calls and
  caches are crossed only where the code brings them together: a job with many
  configurations starts on an empty cache, and the caches are searched for two
  jobs. `QuadraticLimit` is 4 instead of the code's constant, so that the prompt
  (3) is below it and the cache of the decode step (8 or 192) above.

Deadlock is not checked in runs where the system comes to an end: the calls of
`PythonBridge`, the sessions of `LabLoop`, and the passes of a compilation, the
journey of an operation, the growth of a graph or program (`cp_all`, `em_all`,
`sh_all`, `pl_all`, `pl_cpu`, `tr_all`).

### Fairness

Only `PythonBridge` has a liveness property. Weak fairness is assumed of the
steps of `execute_raw_payload`, which polls every 100 ms in a loop of its own,
and of the passing of time. Nothing is assumed of the processes it waits for:
they may hang, fill a pipe nobody reads, or die. The caller need not make
another call. The compiler's passes are finite by construction.

## Proofs

All theorems hold for every value of the constants that satisfies the `ASSUME`s
of the modules: any number of ids, weights, calls, sessions and tasks. The
assumptions on constants say that sentinels (`NoEntry`, `Torn`, `NoFile`, ...)
are no contents of files (`StoreConstants`, `ContentsAreOther`,
`BridgeConstants`, `LabConstants`), that a disk is one (`DisksAssumption`), that
inputs are of the types the code gives them (`UnitsAssumption`: an operation to
be placed is of a kind of the lowered graph, and extents are numbers;
`JobsAssumption`: heads, layers and lengths are numbers no less than zero, which
the code reads into unsigned integers, and a symbolic trace is a sequence;
`SourcesAssumption`: a graph to be compiled has passed `verify`, so that its ids
are different, and only reads and writes of states have caches;
`ContextsAssumption`: numbers of heads are no less than zero), that rounding is
as weak as described above (`DecodeAssumption`), that sets of ids
are finite, and that the lab has a task. Some results need more and say so in
their statements: `PlainUse` and `NamedPlainly` below.

- `KnowledgeStoreProofs`: `TypeCorrect`, `Completeness` (`[]QueriesMissNothing`)
  and `SeedImmutability` (`SeedsStaySeeds`), from `InductiveInvariant`. The
  invariant adds to types and completeness that the memory of a closed store is
  empty (`ClosedIsEmpty`): opening starts from it, and without it reloading
  could meet entries that its new indexes do not list. The seed theorem rests
  on the guard of `insert_observation`; steps that lose memory remove an entry
  and do not change one. `ConflictsAreKept` (`[]NoConflictLost`) needs nothing
  else: that one entry contradicts another is symmetric (`ConflictIsMutual`),
  decay can end a contradiction but not begin one (`DecayClosesGaps`), and every
  other step only adds to the lists of entries it keeps (`ListsKept`).
- The same module: `StoredIsReloaded` (`[]DiskAgrees`) and
  `FilesMoveForward` (`RevisionsNeverRegress`) under `PlainUse`: no pruning, no
  decay, no failed write, no id both a seed's and an observation's, and ids that
  `sanitize_id` keeps apart. No command prunes or decays; the others fail only in
  the cases listed under the limits below, and for each of them there is a
  behaviour of the model that breaks the result. Processes may die anywhere.
  `ReloadInv` says which file belongs to which id (`FilesAreOwn`), that memory
  and files agree but for what is `pending` (`OthersAgree`), and that what is
  pending is later than what it replaces (`PendingIsLater`); the second theorem
  is that part, read at the step that writes.
- `MlPackageProofs`, about the builder alone: `NamesAlwaysResolve` and `LayoutCorrect`
  (`[]LayoutIsSound`), from `BuilderInvariant`. It adds `IndexesLead` (a content
  in the map leads to an entry with that content, without which an alias could
  lead anywhere) and `BufferInStep` (while building, the position equals the
  length of the buffer, is aligned and lies behind the header; the code never
  compares the two). Two lemmas about `align_up` and `padding` carry the
  arithmetic. `SizesAlwaysAddUp` (`[]SizesAddUp`) is about sums over all entries.
  Its invariant `SizesInStep` relates every running total to the totals of the
  entries seen so far; that a running sum is the sum of its prefix (`RunningSum`)
  is proved with induction in the form of sets (`SetInduction`: a set of numbers
  that contains 0 and the successor of each of its elements contains all),
  which follows from the library's theorem on well-founded relations.
- The same module, about emissions: `NeverMixed` (`OneEmission`) and `BelowLimit`
  (`StaysBelowLimit`, which no run checks any more because the theorem covers
  it). The first adds `FilesInStep`: when `write` reaches a file, every file that
  an earlier emission could have left is gone, which `OneEmission` does not say.
  The second adds `CountLeads`: an emission under way was let in below the limit
  and is counted before it is reported. `EmissionImplementsPackage`
  (`Spec => ImplementsPackage`) is the refinement of `Package`. A reported
  package is whole there, so `EmissionInv` has to follow the weights from the
  model through the builder into the files: what `add_weight` has taken in is
  the model's constants up to the current one (`TakenIn`), the offsets are those
  of the built file (`BuilderInStep`), and each file written so far holds what
  the emission meant for it. Every step then maps to an emission, a break of the
  package, or a stutter (`PackageStep`).
- `PythonBridgeProofs`: `NoChildIsLeft` and `CrashesFail`, from
  `BridgeInvariant`: `bridge.py` runs only for the current call while it is
  waited for (`ChildIsAwaited`), and calls not yet made have no child and no
  outcome (`FutureIsBlank`). `SavedPackagesAreOwn` (`[]SuccessIsOwn`) is from
  `OwnInv`: at each stage of `save_mlpackage`, for a call that started alone, the
  model and manifest at the path are absent, cut short or this call's own, and
  both are complete before a stage may answer success.
- `LabLoopProofs`: `AcceptedRunsAreComplete` (`ValidRunsAreComplete`),
  `KnowledgeHasItsUpdate` (`KnowledgeIsAccountedFor`) and
  `ReportedKnowledgeIsStored` (`IngestedIsStored`), from `LabInvariant`. A failed
  session forgets what it had to do, so its progress is read off the directory:
  while a session runs, a file is there exactly if it is behind it
  (`ProgressShows`); after a failure, whatever comes before a file that is there
  is whole (`FailureShows`). Both are claimed of sessions that have a directory
  to themselves. That every plan is in one order (`PlansDescend`) makes "before"
  meaningful.
- `DecodeLoopProofs`: `Typed`, `SlotsSound` (`[]SlotsAreSound`) and `CacheRefinement`
  (`Spec => TokenCache's Spec`), for contexts of every length, rounding included.
  The argument is that the difference of two rounded numbers rounds to less than
  one only if they are equal, so that the write mask is one exactly at the slots
  whose number rounds to what the position rounds to (`WriteMask`). That is the
  position's own slot and, since rounding keeps order and is exact up to `Exact`,
  no other of the slots below it. The blend `cache * (1 - mask) + new * mask` then
  replaces whole slots. `SlotsAreSound` follows from an invariant that is exact about
  rotations (`KeysRotatedTogether`): a key is rotated by the rows of all slots that
  round like its own. What a key in a slot beyond `Exact` was
  rotated by, the sum of several rows, is not excluded, because the code does it.
- `TracePipelineProofs`: `WeightsAreOfOneRevision` (`OneRevision`) and
  `NothingFoundIsNothingThere` (`NotFoundIsNotThere`), from `WeightsInv`: the
  files the tracer wrote down are of one directory (`LocatedAlike`), and what is
  loaded is what the compiler's strategies yield on the disk as it stays from
  then on (`LoadedOnce`). The proof needs an exception that the run had not shown
  to be needed: a local directory whose files are all unreadable is searched
  further down as one without files is, and may mix checkpoints there.
- The same module: `GatedOpsAreAlwaysDecomposed` (`[]GatedOpsAreDecomposed`) and
  `FunctionsAlwaysFit` (`[]FunctionsFit`, with its parts `TablesAlwaysFitHeads`
  and `TablesAreAlwaysThere`), for models of any number of layers and heads, any
  symbolic trace and any target.
  - `CompileInv` follows the compile from the target to the package. The
    properties speak of the report and of tables, which are computed from the
    built nodes, which are computed from the traced graph; so the invariant says
    of the graph that its nodes are of the types a tracer writes, with heads of
    one dimension (`Traced`), and of the built nodes that each is of a kind the
    family can have, names the one set of tables, and lays out heads in the rows
    of the prompt (`Noded`, `OfKind`). That `BuildSir` establishes the second from
    the first is proved for every operation it writes, one lemma per part of
    `map_traced_op` (`AttentionKinds`, `MlpKinds`, `SmallKinds`, `GatedKinds`,
    ...), then for the nodes of all traced nodes (`AllKinds`), with induction up
    to a length (`UpTo`). `BuildableIsCounted` and `BuildableHasEngine` go through
    the report's tables once, for kinds instead of graphs.
  - `ReadingInv` is about which parameters are read, and only for the models
    `FunctionsShareWeights` speaks of: the nodes of the graph read what the
    configuration names (`GraphWhole`), and so do the operations built from it
    (`PromptWhole`). It needs that every block reads its own modules under the
    names `named_parameters` listed (`AttentionReads`, `MlpReads`, `ModulesRead`),
    that resolving references leaves weights alone (`ResolvedReads`), and that
    tables read no weights (`TablesReadNothing`). `DecodeReads` then compares the
    set with the one the decode step is written with, name by name
    (`WhichAreNorms`); of models with query and key norms it leaves open whether the
    step reads those norms, which the code drops and should not. That the prefix of a saved trace is the same needs the
    conjunct that a trace in the making is not a saved one. Neither invariant
    follows from the other: the kinds hold for every model, the reads do not.

- `CompilePipelineProofs`: `DecisionsAlwaysReachGraph` (`[]DecisionsReachGraph`)
  and `HeadsAlwaysPaired` (`[]HeadsPaired`), for any graph, head counts and
  answers of the store.

  For the first, the policy decides about
  nodes of the SIR graph, and the property is about MIR nodes with ids formatted
  from theirs. `DecisionsInv` therefore fixes the bases of the operations with a
  hazard by the source (`Marked`) and says of every graph after the policy that
  its nodes are in fp32 if their id begins with such a base (`Meets`). Each
  function of the two rewrites is shown to make only such nodes from such a node:
  because `make_air_node` and `lower_node` hand the override on (`OwnMade`,
  `PartMade`, `PerHeadMade`), because constants shared by all nodes have a base of
  their own (`SharedMade`), and because the rewrites of the lowered list copy
  nodes or cut rows out of them. Rows are the exception: they carry the base of
  the operand and the precision of the vocabulary projection. Sequences are built
  with `FlattenSeq`, a recursive function; that what it returns consists of its
  arguments' elements is proved with induction up to a length (`Flattened`). For
  the shard plan the invariant says that nodes come from the source or are tables
  (`Comes`), so that a node with a cache is always the decoder's.

  For the second, `HeadsInv` says of every node of both graphs how it stands to
  the heads (`Meets`, with the head counts in place of the precisions): a product
  of a query head reads that head, its second operand is a slice of the key/value
  head `head \div (heads \div kv)`, and it transposes the keys if and only if no
  node before it did. Each function of the two rewrites keeps it: the three that
  take attention apart because of how they number heads, all others because they
  make no node of those suffixes. Folding a transpose into a product could undo it;
  it cannot, because it folds transposes that swap heads and rows, and no node
  with the id of a key/value head is one of those. The property speaks of
  the first node of an id where the invariant speaks of each. `NamedPlainly` is
  the hypothesis that only products of the source are named for logits: the
  lowering recognises the product of a query head by `_logits_` in its name
  (`mil_lower.rs:4047`, marked TODO there) and would transpose it again. The
  graphs of `cp_all` satisfy it, and so does every graph the builders make.
- `OpPlacementProofs`: `AcceptedStaysAccepted` (`[]AcceptanceIsMonotone`),
  `PlansAddUp` (`[]ProgramsAddUp`) and `CpuOnlyIsFallback` (`[]GateAgrees`), for
  operations of any shapes, attributes and contexts and programs of any length.
  - The first rests on one fact about the tables: from one phone to the next no
    limit shrinks (`PhonesGrow`). The lemmas that follow it show, validator by
    validator, that each reads the target only through what grows (`GatesGrow`,
    `ConvGrows`, `OpGrows`), and the context only through tests that a missing
    value passes (`SaysLess`, `GatesOfLess`).
  - The second needs `Cut`: after each operation the groups are a partition of the
    program so far into runs of neighbours, and the last one may be extended.
    That a layer holds more than the pairs that were checked (`LayerGrows`) is
    because the compatibility of engines is what a group has in common. The
    budgets agree because footprints are not negative, so that running sums grow
    (`SumsGrow`). Sums, products and groups are recursive functions; what they
    return is proved with induction up to a length (`UpTo`, `Recursion`), which
    again comes from the library's theorem on well-founded relations.
  - The third is that every arm of the legality gate is reached only behind the
    CPU-only list, whatever the knowledge store answers (`JudgedInv`). That the
    validator keeps such operations off the accelerator too is not true, which
    `pl_cpu` shows.

Every invariant and action property of the store, the weight file, the package,
the bridge, the lab, the decode loop, the placement and the weight search is a
theorem, and so is every property of the traced compile but one. Only
model-checked are `CallsReturn`, because it is liveness, `LayersKeepTheirMeaning`,
the properties of conversions and shapes (`em_all` and `sh_all`), and five of
`cp_all` that are about paths through a graph: `SingleAssignment`,
`OutputsKeepMeaning`, `CachesAreUpdated`, `NormsScaleFree` and
`LogitsOfLastToken`. What `OpJourney` says is about tables of some 200 operations each
and the names in them: its `Entries` are all there are, so that TLC enumerates
them completely and a proof would be the same enumeration. What else `CompilePipeline`
and `OpShapes` say is about graphs of any size, built by folds whose steps add
and rename nodes, and `LayersKeepTheirMeaning` evaluates a term by a fold over a
selection of the nodes; the provers cannot instantiate the library's induction
theorems, which take an operator as a parameter, and `SetInduction` and `UpTo`,
which cover sets of numbers, would be needed once for every fold of every
rewrite.

## Known limits of the code the properties allow for

The properties hold under conditions. Each is a case the code does not handle,
met while modelling; guards or exceptions in the properties name them. Two are
shown by a run of their own: the mask that is not causal (`dl_causal`) and the
CPU-only operations that are placed on the accelerator (`pl_cpu`).

Store, package, bridge and lab:

- ids that `sanitize_id` maps to one file name overwrite each other
  (`util.rs:15`); the runs give every id its own file;
- a crash inside `fs::write` leaves a truncated file, and `load_existing`
  refuses the store from then on (`store.rs:617`);
- after a failed write an entry stays in memory and is listed by the next
  rebuilt `store_index.json` (`store.rs:461`); `ks_reload` has no failing writes;
- `load_seeds_from_directory` may list an id repeatedly or below an old type
  (`store.rs:315`), so queries are complete but not exact;
- a seed loaded over an observation is an observation again after reopening
  (`store.rs:267`, `:277`); the other side of a conflict is recorded in memory
  and not written (`store.rs:592`, `:561`); an update that contradicts the entry
  it replaces is not flagged (`store.rs:570`, though SPEC.md:536 asks for it);
- a content stored with another shape takes the place of the first in
  `content_hash_to_index` (`weights.rs:355`), so equal weights may be stored
  twice; two functions' constants of one name share the first's bytes
  (`weights.rs:299`, though `mir_to_proto.rs:11` speaks of distinct data);
- a constant whose name became an alias is written inline into the model
  (`coreml-proto/src/lib.rs:4515`): `Found` accepts both forms;
- manifest items and attributes of operations are serialized in hash-map order
  (`package.rs:177`, `coreml-proto/src/lib.rs:4523`);
- a saver that outlives a timed-out call may write into the package of the next
  one (`subprocess.rs:106`): `SuccessIsOwn` holds for calls that start alone; an
  abort after a complete in-process save fails the call (`mil_emitter.py:492`);
- the lab writes one package per output directory, not per run directory.

Passes and decode functions:

- the row that is cut out for the vocabulary projection is named after the
  projection's operand and gets the projection's data type (`mil_lower.rs:3113`,
  `:3273`): `PrecisionReachesMir` excepts it (`Rows`);
- some operations are not rewired when canonicalization removes an identity they
  read, and a sampler names a node that is not made (`KnownDangling`);
  operations without a pattern in the store are unknown, so that a populated
  store still rejects (`risk_annotate.rs:287`);
- a decode step with rotary tables but no position, or the other way round,
  ignores the new key and value (`LosesToken`); without a context it has no
  heads; heads that are no multiple of the key/value heads are not handled;
- the write mask puts a position into the slot of its number while the
  attention mask opens the slots counted from the end
  (`legality_rewrite.rs:3017`), so that it is not the causal mask its comments
  name (`legality_rewrite.rs:3013`, `static_table_resolver.rs:195-196`): the call
  at position 0 blocks the slot it wrote. `dl_causal` shows it;
- the rotation of an attention block is an operand of it for verification and
  canonicalization (`sir.rs:1179`, `canonicalize.rs:179`), and its decomposition
  drops it (`legality_rewrite.rs:478`): `OutputsKeepMeaning` excepts that operand,
  and no other (`WithoutRotations`);
- `decompose_rms_norm` (not the query/key norms) multiplies its input by both
  the reciprocal root and the maximum (`legality_rewrite.rs:3531`), so
  `NormsScaleFree` is stated for the others;
- beyond 2048 numbers collide, although `static_table_resolver.rs:222-224` says the
  tables work for any length: a token is written into the slots of its
  neighbours too, and its key is rotated by the sum of their rows.
  `SlotsAreSound` and `TokenCache` say what is left of a cache then;
- a prefill mask table is the mirror image of a causal one
  (`static_table_resolver.rs:191`).

Conversions:

- twelve fallback kinds pass the gate for unsupported operations
  (`mir_to_proto.rs:112`) and become identities; `From` turns the fused `Anec`
  operations into unsupported ones; `is_proto_supported` denies some kinds that
  convert; the exceptions are the named sets of `OpJourney`;
- a constant whose own path is unknown becomes zeros whatever
  `allow_missing_weights` says (`mir_to_compat.rs:1034-1046`), against the contract
  at `mir_to_compat.rs:177-180` that missing weights are an error; and `Fill` is
  lowered to a constant of a path that no resolver knows
  (`mil_lower.rs:2086-2089`), so that every filling is zeros. `UnresolvedConsts`
  names both, and nothing else may be zeros;
- only dense layers and normalisations demand their weights; others may name a
  weight that is defined nowhere. Names under `static_tables/` are skipped when
  unresolved (`mir_to_compat.rs:285`), which the model has no branch for: none of
  the operations that demand weights names one;
- `OperandsReachTheirArgument` leaves out the kinds that read their operands by
  themselves and those only the older message format has;
- the older message format loses constants' names and data.

Shapes:

- 67 AIR kinds have no rule, and lowering them fails (`mil_lower.rs:2644`);
- rules ignore negative axes of some operations, strides and negative begins of
  slices, vectors in matrix products, transposed operands, and operands of a
  selection, a division or an attention that are wider than the first, and take
  an empty shape for a scalar; `resolve_reshape_shape` can fill in too many elements
  (`mir_to_compat.rs:945`); names with `input_ids` get `[1, max_seq_len]`;
- `DepthToSpace`, `SpaceToDepth`, `PixelShuffle` and `PixelUnshuffle` get the shape
  of their input (`shape_inference.rs:650-661`);
- padding is read as all that goes before, then all that goes after
  (`shape_ops.rs:277-279`), while the constraints and Core ML read it as pairs
  (`op_constraints.rs:808-810`).

These are named in `LowerGuesses` and `BridgeGuesses`; everywhere else the shapes
are the true ones.

Placement:

- the legality gate misses a few CPU-only names (`legality_rewrite.rs:1103`), the
  lists spell some names differently from those that ask
  (`dtype_constraints.rs:240`), and the arms for kinds without a validator allow
  operations that have no engine (`placement_validate.rs:1222-1320`), where the
  comment at `:1174-1177` has them fall through to the CPU-only classification:
  `pl_cpu` shows it;
- the validators are not called by the commands; the fusion of an activation
  into a convolution never applies; limits of the first Mac chips exceed those
  of newer families.

Tracing:

- a symbolic trace with a KV cache ends in an undefined name, and most torch
  functions map to `Unknown`, which the builder refuses: in practice the graph
  written from the configuration is compiled. It has no layer norms
  (only RMS norms are written, though the comment at `trace_model.py:1523-1531` has a
  norm before every block) and no cross attention, and gives gated MLPs SiLU;
- blocks built from that graph have no biases, neither of the projections
  (`sir_build.rs:876-890`, `:1276`, `:1348-1375`) nor elsewhere. `Losses` names these
  and the layer norms; a norm of unknown kind is taken for an RMS norm
  (`trace_model.py:1541-1553`);
- function targets are matched by substring (`addmm` is an addition);
- configuration fields that are not copied get the Rust side's defaults, so that
  the decode step may rotate with another base or lack the query and key norms
  that the prompt applies (`main.rs:4691`, `:5086-5089`, against `graph.rs:120-124`):
  `StepLosses` allows all of those norms to be missing, or none. The step is written
  for a gated decoder with RMS norms whatever was traced, so `FunctionsShareWeights`
  speaks of those models;
- attention that is taken apart for old families has no mask, and the native one
  names a mask nothing defines; tied models name a weight no file has;
- saved traces get tables of the length on the command line; `FunctionsFit`
  speaks of traces made at that length;
- models that do not rotate, and prompts longer than `QuadraticLimit`, have no
  mask table, which is then filled with zeros (`sir_build.rs:1083` names it, the
  tables of `static_table_resolver.rs:183` are made for sets that rotations
  read): `TablesAreThere` speaks of models that rotate and shorter prompts;
- inputs are given shapes by name, and `decoder_input_ids` contains `input_ids`
  (`main.rs:4396`), so that a decoder's input gets the shape of the encoder's;
- a snapshot removed before the weights are read makes the compiler fall back to another revision only when
  none of the tracer's files is left, a newest snapshot with unreadable files
  hides an older one, and a directory with readable files only further down
  may mix checkpoints: the exceptions of `OneRevision` and `NotFoundIsNotThere`.

## Not modelled

- Encodings, formatting, hashing and logging, unless a property is about them;
  immediate values (axes, modes, scales) in instructions.
- The shape-related constructors of `role_mir.rs`, palettization, state topology
  and multi-accelerator plans, which the modelled commands do not run; the
  sharded command; the other subcommands, which print or archive.
- Task families, artifacts and reports: data and formatting. Core ML FFI: stubs.
- Knowledge queries other than the two lookups the compiler makes, and transfer:
  they read the store and change nothing.
- Several processes on one store or one output path at a time, except lab
  sessions: nothing in the code locks, and nothing documents that this is
  supported.
- Core ML, coremltools and torch, beyond what the code expects of them.

## Plan

1. Proofs about paths through the rewritten graphs (that references stay closed
   first), and about the shape rules for shapes of any rank.
2. The sharded command with the hand-offs between functions, and palettization
   with its weights.
3. Knowledge queries and transfer, whose answers must not depend on the order of
   a hash map.
