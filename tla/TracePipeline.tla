--------------------------- MODULE TracePipeline ---------------------------
(* The traced compile (run_trace_compile of src/crates/cli/src/main.rs): the
   tracer runs as a child (src/crates/trace/src/subprocess.rs, main of
   src/python/trace_model.py) or a saved trace is read, the first graph is
   built and reported on, the tables of the rotation, the weights and the input
   shapes are prepared for the passes, one function or, with a KV cache, two
   are emitted, and the package is checked and the intermediate graphs written
   beside it. The passes are CompilePipeline's: here they fail or not. The
   cache of the hub is shared with other programs, which may remove a snapshot
   until the compiler has read the weights.

   A job is a model, the target and the architecture the command line names,
   how the model is named (saved: as a trace on disk), what symbolic tracing
   would see (fx), batch, seq, with_kv_cache, ane_only and the sequence lengths
   the cache may get: max_seq_len, 0 when it is not given, and max_positions,
   the configuration's. A saved trace was made at saved_seq.                  *)
EXTENDS SirBuild, OpSupport, WeightFiles

CONSTANTS Starts,        \* the jobs, each with the disk it starts with
          QuadraticLimit \* the longest sequence with tables of its square

(* Numbers of heads and layers are no less than zero, nor are lengths. *)
IsJob(start_job) ==
    /\ start_job.seq \in Nat /\ start_job.max_positions \in Nat
    /\ start_job.fx \in Seq(Range(start_job.fx))
    /\ \A cfg \in {start_job.model.text, Defaults} : cfg.heads \in Nat /\ cfg.layers \in Nat

ASSUME DisksAssumption == \A start \in Starts : IsDisk(start.disk)
ASSUME JobsAssumption == \A start \in Starts : IsJob(start.job)

VARIABLES job, disk, phase, attempt, graph, located, sir, report, loaded, prepared, package, artifacts
vars == <<job, disk, phase, attempt, graph, located, sir, report, loaded, prepared, package, artifacts>>

tracer == <<attempt, graph, located>>
compiler == <<sir, report, loaded, prepared, package, artifacts>>

NoGraph == {}
NoSir == [failed |-> FALSE, nodes |-> <<>>, inputs |-> {}, outputs |-> {}]
NoReport == [ane_supported |-> {}, violations |-> {}, is_faithful |-> TRUE]
Unprepared == [inputs |-> <<>>, tables |-> <<>>, decode_tables |-> <<>>, shapes |-> <<>>,
               decode_shapes |-> <<>>]

Init ==
    /\ \E start \in Starts : job = start.job /\ disk = start.disk
    /\ phase = "target"
    /\ attempt = 1
    /\ graph = NoGraph
    /\ located = NotLocated
    /\ sir = NoSir
    /\ report = NoReport
    /\ loaded = {}
    /\ prepared = Unprepared
    /\ package = <<>>
    /\ artifacts = 0

Goto(p) == phase' = p
Fail == Goto("failed")

(* The families and the devices that have them, as the command line names them. *)
NamesOf(family) ==
    CASE family = 11 -> {"a11legacy", "a11", "iphone8", "iphonex"}
      [] family = 12 -> {"a12", "iphonexs", "iphonexr"}
      [] family = 13 -> {"a13", "iphone11", "iphone11pro"}
      [] family = 14 -> {"a14", "iphone12", "iphone12pro",
                         "m1", "m1pro", "m1_max", "m1max", "m1ultra"}
      [] family = 15 -> {"a15", "iphone13", "iphone13pro",
                         "m2", "m2pro", "m2_max", "m2max", "m2ultra"}
      [] family = 16 -> {"a16", "iphone14pro", "m3", "m3pro", "m3_max", "m3max"}
      [] family = 17 -> {"a17", "iphone15pro", "vu1", "uane"}
      [] family = 18 -> {"a18", "iphone16", "iphone16pro", "m4", "m4pro", "m4_max", "m4max"}

Targeted(family) == job.target \in NamesOf(family)
target_family == CHOOSE family \in Families : Targeted(family)

ParseTarget ==
    /\ phase = "target"
    /\ IF \E family \in Families : Targeted(family)
       THEN Goto(IF job.saved THEN "saved" ELSE "load")
       ELSE Fail
    /\ UNCHANGED <<job, disk, tracer, compiler>>

-----------------------------------------------------------------------------
(* The tracer. *)

Attempts == _load_model(job.model)
Trying == Attempts[attempt]

\* What a library may fetch of the current revision, all of it or some.
Downloads ==
    {Downloaded(disk, top, nested) :
        top \in SUBSET MissingTop(disk), nested \in SUBSET MissingNested(disk)}

\* The class that is tried loads the model, from the cache or the hub.
LoadModel ==
    /\ phase = "load"
    /\ disk' \in {disk} \cup Downloads
    /\ Goto("trace")
    /\ UNCHANGED <<job, tracer, compiler>>

\* It does not: the next one is tried, unless the tracer exits.
LoadFails ==
    /\ phase = "load"
    /\ IF Trying.last \/ attempt = Len(Attempts)
       THEN Fail /\ UNCHANGED attempt
       ELSE attempt' = attempt + 1 /\ UNCHANGED phase
    /\ UNCHANGED <<job, disk, graph, located, compiler>>

\* Symbolic tracing succeeds. With a KV cache the tracer then stops on a name
\* it has not defined.
TraceSymbolically ==
    /\ phase = "trace"
    /\ IF job.with_kv_cache
       THEN Fail /\ UNCHANGED graph
       ELSE /\ graph' = trace_model_fx(job.model, job.fx, Trying, job.batch, job.seq)
            /\ Goto("locate_1a")
    /\ UNCHANGED <<job, disk, attempt, located, compiler>>

TraceStructurally ==
    /\ phase = "trace"
    /\ graph' = build_fallback_graph(job.model, Trying, job.seq)
    /\ Goto("locate_1a")
    /\ UNCHANGED <<job, disk, attempt, located, compiler>>

(* A strategy that fails leaves what an earlier one wrote; one that finds no
   files still writes the directory it looked in.                             *)
Locate(found, next) ==
    /\ located' = IF found = NotLocated THEN located ELSE found
    /\ Goto(IF located'.files # {} THEN "traced" ELSE next)
    /\ UNCHANGED <<job, attempt, graph, compiler>>

SnapshotLocally ==
    /\ phase = "locate_1a"
    /\ \E found \in {snapshot_download_local(disk), NotLocated} : Locate(found, "locate_1b")
    /\ UNCHANGED disk

\* A graph from the configuration has no second strategy.
AfterDownload == IF graph.fallback THEN "locate_3" ELSE "locate_2"

\* The hub is reached: what is missing of the current revision is fetched, and
\* the snapshot is returned when all of it is.
Download ==
    /\ phase = "locate_1b"
    /\ disk' \in Downloads
    /\ Locate(IF MissingTop(disk') = {} /\ MissingNested(disk') = {}
              THEN [dir |-> Snapshot(disk.current), files |-> TopFiles(disk', Snapshot(disk.current))]
              ELSE NotLocated, AfterDownload)

\* It is not: what the cache has of the revision is returned, if anything.
DownloadOffline ==
    /\ phase = "locate_1b"
    /\ \E found \in {snapshot_download_local(disk), NotLocated} : Locate(found, AfterDownload)
    /\ UNCHANGED disk

ScanCache ==
    /\ phase = "locate_2"
    /\ \E found \in {NotLocated} \cup scan_cache_dir(disk) : Locate(found, "locate_3")
    /\ UNCHANGED disk

ScanLocal ==
    /\ phase = "locate_3"
    /\ Locate(scan_local(disk), "locate_4")
    /\ UNCHANGED disk

WalkCache ==
    /\ phase = "locate_4"
    /\ Locate(discover_hf_safetensors(disk), "traced")
    /\ UNCHANGED disk

(* The tracer dies, or what it writes is no graph. A walk over the cache ends
   it too when a snapshot disappears under it.                                *)
TracerFails ==
    /\ phase \in {"load", "trace", "locate_1a", "locate_1b", "locate_2", "locate_3", "locate_4"}
    /\ Fail
    /\ UNCHANGED <<job, disk, tracer, compiler>>

(* A saved trace: nothing is traced or searched. It is of either kind, may lack
   the parameters and the head dimension, and the files it names may have gone. *)
SavedGraphs ==
    {[g EXCEPT !.weights = IF known THEN @ ELSE {}, !.config.head_dim = IF sized THEN @ ELSE 0] :
        g \in {build_fallback_graph(job.model, Causal, job.saved_seq),
               trace_model_fx(job.model, job.fx, Causal, job.batch, job.saved_seq)},
        known \in BOOLEAN, sized \in BOOLEAN}

SavedFiles ==
    {NotLocated}
    \cup {[dir |-> Snapshot(k), files |-> {<<Snapshot(k), f.name>> : f \in disk.repo.top}] : k \in Commits}

load_pre_traced ==
    /\ phase = "saved"
    /\ graph' \in SavedGraphs
    /\ located' \in SavedFiles
    /\ Goto("traced")
    /\ UNCHANGED <<job, disk, attempt, compiler>>

\* The file is not there, or is no graph.
LoadTraceFails ==
    /\ phase = "saved"
    /\ Fail
    /\ UNCHANGED <<job, disk, tracer, compiler>>

-----------------------------------------------------------------------------
(* The compiler. *)

\* The phases after the weights have been read. The disk is not read again.
WeightsRead == {"resolved", "prepared", "lowered", "emitted", "packed", "complete"}

\* Another program frees a snapshot of the cache.
Evict ==
    /\ phase \notin WeightsRead \cup {"failed"}
    /\ \E k \in DOMAIN disk.hub :
           disk' = [disk EXCEPT !.hub = [l \in DOMAIN @ \ {k} |-> @[l]]]
    /\ UNCHANGED <<job, phase, tracer, compiler>>

\* The command line knows one architecture by name.
ResolveArchitecture ==
    /\ phase = "traced"
    /\ IF job.architecture \in {"auto", "qwen3"} THEN Goto("named") ELSE Fail
    /\ UNCHANGED <<job, disk, tracer, compiler>>

BuildSir ==
    /\ phase = "named"
    /\ sir' = build_sir_from_trace(graph, target_family)
    /\ Goto(IF sir'.failed THEN "failed" ELSE "built")
    /\ UNCHANGED <<job, disk, tracer, report, loaded, prepared, package, artifacts>>

\* The first axis of a gather is the only one the builder writes.
ReportKinds == {[kind |-> sir.nodes[i].op.kind, axis |-> 0] : i \in DOMAIN sir.nodes}

\* The report stops nothing.
Validate ==
    /\ phase = "built"
    /\ report' = validate_sir(ReportKinds, target_family, job.ane_only)
    /\ Goto("reported")
    /\ UNCHANGED <<job, disk, tracer, sir, loaded, prepared, package, artifacts>>

(* The names of the sets of tables that rotations read. *)
rope_tables_refs ==
    {sir.nodes[i].op.attr[1] : i \in {i \in DOMAIN sir.nodes : sir.nodes[i].op.kind = "RoPETransform"}}

Linear == <<"sin_tab", "cos_tab", "arange_tab", "arange_fp16_tab">>
Quadratic == <<"eye_tab", "mask_tab">>

(* The tables of every set are put before the nodes. *)
run_static_tables_pass ==
    LET const(table, ref) ==
            [id |-> <<"static", table, ref>>, op |-> Op("Const", <<>>, NoWeight, <<table, ref>>),
             name |-> <<table, <<>>, ref>>, from |-> <<"static">>]
        refs == SetToSeq(rope_tables_refs)
    IN  FlattenSeq([r \in DOMAIN refs |-> [t \in DOMAIN Linear |-> const(Linear[t], refs[r])]])
            \o sir.nodes

StaticTables ==
    /\ phase = "reported"
    /\ sir' = [sir EXCEPT !.nodes = run_static_tables_pass]
    /\ Goto("tabled")
    /\ UNCHANGED <<job, disk, tracer, report, loaded, prepared, package, artifacts>>

(* A step that yields what the next one needs, or an error. *)
MayFail(from, to) ==
    /\ phase = from
    /\ Goto(to) \/ Fail
    /\ UNCHANGED <<job, disk, tracer, compiler>>

Rewrite == MayFail("tabled", "rewritten")

ResolveWeights ==
    /\ phase = "rewritten"
    /\ loaded' = from_traced_graph(disk, located)
    /\ Goto("resolved")
    /\ UNCHANGED <<job, disk, tracer, sir, report, prepared, package, artifacts>>

\* A mutant for FunctionsFit: the heads share the hidden size.
head_dim_shared(g) == g.config.hidden \div g.config.heads

(* The configuration may lack the dimension of the heads; nodes have it. *)
head_dim(g) ==
    LET told == {i \in DOMAIN g.nodes : g.nodes[i].op.type \in {"RopeTransform", "AttentionBlock"}}
    IN  IF g.config.head_dim # 0 THEN g.config.head_dim
        ELSE IF told # {} THEN g.nodes[Min(told)].op.head_dim
        ELSE g.config.hidden \div g.config.heads

\* What is named like token ids, or comes first, is the traced graph's first
\* input, the others are hidden states.
InputShape(id) ==
    IF id[2] = 0 \/ id[3] \in {<<"input_ids">>, <<"decoder_input_ids">>}
    THEN IF graph.inputs # <<>> /\ Len(graph.inputs[1]) >= 2 THEN graph.inputs[1]
         ELSE <<job.batch, job.seq>>
    ELSE <<job.batch, job.seq, graph.config.hidden>>

actual_max_seq_len ==
    IF job.max_seq_len # 0 THEN job.max_seq_len ELSE Max({job.max_positions, 64 * job.seq})

Shape(table, seq, dim) ==
    CASE table \in {"sin_tab", "cos_tab"} -> <<1, 1, seq, dim>>
      [] table \in {"arange_tab", "arange_fp16_tab"} -> <<seq>>
      [] table \in {"eye_tab", "mask_tab"} -> <<seq, seq>>

(* The tables that are computed, with their shapes. *)
ensure_tables_computed(seq, dim) ==
    [table \in Range(IF seq <= QuadraticLimit THEN Linear \o Quadratic ELSE Linear) \X rope_tables_refs |->
        Shape(table[1], seq, dim)]

(* The shapes of tables that inference is told. *)
weight_shapes(seq, dim) ==
    [table \in Range(Linear) \X rope_tables_refs |-> Shape(table[1], seq, dim)]

\* The prompt's tables are made for the sequence of the command line, those of
\* the decode step for the whole cache.
Prepare ==
    /\ phase = "resolved"
    /\ LET dim == head_dim(graph)
       IN  prepared' = [inputs |-> [id \in sir.inputs |-> InputShape(id)],
                        tables |-> ensure_tables_computed(job.seq, dim),
                        decode_tables |-> ensure_tables_computed(actual_max_seq_len, dim),
                        shapes |-> weight_shapes(job.seq, dim),
                        decode_shapes |-> weight_shapes(actual_max_seq_len, dim)]
    /\ Goto("prepared")
    /\ UNCHANGED <<job, disk, tracer, sir, report, loaded, package, artifacts>>

Lower == MayFail("prepared", "lowered")

\* The weights an operation reads, as its own or as an operand.
WeightsOf(op) ==
    ({op.weight} \cup {op.refs[k][2] : k \in {k \in DOMAIN op.refs : op.refs[k][1] = "weight"}})
        \ {NoWeight}

embedding_weights == UNION {WeightsOf(sir.nodes[i].op) : i \in DOMAIN sir.nodes}

(* The tables its operations read: those of constants, and those a rotation is
   rewritten to read.                                                         *)
embedding_tables ==
    {sir.nodes[i].op.attr : i \in {i \in DOMAIN sir.nodes :
        sir.nodes[i].op.kind = "Const" /\ sir.nodes[i].op.attr[1] \in Range(Linear \o Quadratic)}}
    \cup {"sin_tab", "cos_tab"} \X rope_tables_refs

(* The decode step is written for a gated decoder with RMS norms, whatever was
   traced. It names norms of queries and keys too, and leaves them out: the
   configuration a tracer writes does not say has_qk_norm.                    *)
decode_weights(g) ==
    {<<"model", "layers", i>> \o name \o <<"weight">> :
        i \in 0..g.config.layers - 1,
        name \in {<<"self_attn", p>> : p \in Projections}
                 \cup {<<"mlp", p>> : p \in {"gate_proj", "up_proj", "down_proj"}}
                 \cup {<<"input_layernorm">>, <<"post_attention_layernorm">>}}
    \cup {<<"model", "norm", "weight">>, <<"lm_head", "weight">>}

(* A function of the package: its weights, the tables it reads, those there are
   for it, and the shapes its operations were inferred from.                  *)
Embedding ==
    [name |-> "embedding", weights |-> embedding_weights, reads |-> embedding_tables,
     tables |-> prepared.tables, shapes |-> prepared.shapes]

decode_step ==
    [name |-> "decode_step", weights |-> decode_weights(graph),
     reads |-> IF graph.config.uses_rope THEN Range(Linear) \X {"rope_tables_shared"} ELSE {},
     tables |-> prepared.decode_tables, shapes |-> prepared.decode_shapes]

Emit(functions) ==
    /\ \/ package' = functions /\ Goto("emitted")
       \/ Fail /\ UNCHANGED package
    /\ UNCHANGED <<job, disk, tracer, sir, report, loaded, prepared, artifacts>>

\* A decode step without states, of a model without layers, is refused.
EmitMultiFunction ==
    /\ phase = "lowered"
    /\ job.with_kv_cache
    /\ IF graph.config.layers = 0
       THEN Fail /\ UNCHANGED <<job, disk, tracer, compiler>>
       ELSE Emit(<<Embedding, decode_step>>)

EmitSingleFunction ==
    /\ phase = "lowered"
    /\ ~job.with_kv_cache
    /\ Emit(<<Embedding>>)

\* A package that is not valid is reported, one that cannot be read an error.
ValidatePackage == MayFail("emitted", "packed")

\* The traced graph, the three intermediate graphs and the report.
WriteArtifact ==
    /\ phase = "packed"
    /\ \/ artifacts' = artifacts + 1 /\ Goto(IF artifacts' = 5 THEN "complete" ELSE "packed")
       \/ Fail /\ UNCHANGED artifacts
    /\ UNCHANGED <<job, disk, tracer, sir, report, loaded, prepared, package>>

Next ==
    \/ ParseTarget \/ LoadModel \/ LoadFails
    \/ TraceSymbolically \/ TraceStructurally \/ load_pre_traced \/ LoadTraceFails
    \/ SnapshotLocally \/ Download \/ DownloadOffline
    \/ ScanCache \/ ScanLocal \/ WalkCache \/ TracerFails
    \/ Evict \/ ResolveArchitecture \/ BuildSir \/ Validate \/ StaticTables \/ Rewrite
    \/ ResolveWeights \/ Prepare \/ Lower
    \/ EmitMultiFunction \/ EmitSingleFunction \/ ValidatePackage \/ WriteArtifact

Spec == Init /\ [][Next]_vars

-----------------------------------------------------------------------------
(* What the operations of a block compute, as a term over what they are given.
   Reshapes and the transposition of heads only lay the data out.            *)

Term(op, args) ==
    CASE op.kind \in {"Reshape", "ExpandDims"} \/ op.attr = <<0, 2, 1, 3>> -> args[1]
      [] op.kind = "Transpose" -> <<"swapped", args[1]>>
      [] op.kind = "SliceByIndex" -> <<"head", op.attr[1], args[1]>>
      [] op.kind = "Const" -> <<op.attr[1]>>
      [] op.weight # NoWeight -> <<op.kind, op.weight>> \o args
      [] OTHER -> <<op.kind>> \o args

Own(block) == SelectSeq(sir.nodes, LAMBDA n : n.from \in block)

Computed(block) ==
    LET own == Own(block)
        known(terms, ref) == IF ref \in DOMAIN terms THEN terms[ref] ELSE ref
        extend(terms, n) ==
            n.id :> Term(n.op, [k \in DOMAIN n.op.refs |-> known(terms, n.op.refs[k])]) @@ terms
    IN  FoldLeft(extend, <<>>, own)[Last(own).id]

LayerIds(i) == {<<"layer", i, part>> : part \in {"input_norm", "self_attn", "post_attn_norm", "mlp"}}

Before(i) ==
    LET first == CHOOSE k \in DOMAIN sir.nodes :
                     /\ sir.nodes[k].from \in LayerIds(i)
                     /\ \A l \in 1..k - 1 : sir.nodes[l].from \notin LayerIds(i)
    IN  sir.nodes[first - 1].id

(* The layer as the model has it, over its parameters, without what is lost:
   "biases", those of its projections, or "norms", layer norms, which are left
   out if the configuration tells of them and else taken for RMS norms.       *)
DecoderLayer(i, x, lost) ==
    LET m == job.model
        cfg == m.text
        path == <<"model", "layers", i>>
        rms(p, v) == <<"RMSNorm", path \o p \o <<"weight">>, v>>
        norm(p, v) == IF "norms" \notin lost THEN <<m.norm, path \o <<p, "weight">>, v>>
                      ELSE IF "layer_norm_eps" \in cfg.has THEN v ELSE rms(<<p>>, v)
        linear(p, v) == LET product == <<"LinearProjection", path \o p \o <<"weight">>, v>>
                        IN  IF p \in m.biased /\ "biases" \notin lost
                            THEN <<"Add", product, path \o p \o <<"bias">>>> ELSE product
        qk(p, n, v) == IF m.qk_norm THEN rms(<<"self_attn", n>>, linear(<<"self_attn", p>>, v))
                       ELSE linear(<<"self_attn", p>>, v)
        rope(v) == IF _detect_rope(cfg) THEN <<"RoPETransform", v>> ELSE v
        h == norm("input_layernorm", x)
        q == rope(qk("q_proj", "q_norm", h))
        k == rope(qk("k_proj", "k_norm", h))
        v == linear(<<"self_attn", "v_proj">>, h)
        shared(j) == (j * KvHeads(cfg)) \div cfg.heads
        logits(j) == <<"MatMul", <<"head", j, q>>, <<"swapped", <<"head", shared(j), k>>>>>>
        head(j) == <<"MatMul", <<"Softmax", <<"Add", <<"Mul", logits(j), <<"scale">>>>, <<"mask_tab">>>>>>,
                               <<"head", shared(j), v>>>>
        y == <<"Add", linear(<<"self_attn", "o_proj">>,
                             <<"Concat">> \o [j \in 1..cfg.heads |-> head(j - 1)]), x>>
        g == norm("post_attention_layernorm", y)
        up == linear(<<"mlp", "up_proj">>, g)
    IN  <<"Add", linear(<<"mlp", "down_proj">>,
                        IF m.gated THEN <<"Mul", <<"Silu", linear(<<"mlp", "gate_proj">>, g)>>, up>>
                        ELSE <<Activations[cfg.act], up>>), y>>

(* A model whose names and configuration the tracer sees whole, with an
   activation the builder has and, if it is gated, gated by SiLU.            *)
SeenWhole ==
    /\ graph.fallback
    /\ graph.weights # {}
    /\ job.saved \/ Trying.what = "CausalLM"
    /\ job.model.nest # "thinker_config"
    /\ job.model.text.act \in DOMAIN Activations
    /\ job.model.gated => job.model.text.act = "silu"

\* What the graph may lose of a layer: it has no layer norms, and no operation
\* of it that was made for a block has a bias.
Losses ==
    (IF job.model.biased # {} THEN {"biases"} ELSE {})
    \cup (IF job.model.norm = "LayerNorm" THEN {"norms"} ELSE {})

(* The graph written from the configuration of such a model builds, and every
   layer of it computes what the layer of the model does: heads that share
   keys and values read the right ones, norms, rotation, scale, mask and gate
   are where they belong and read the model's own parameters, and the residual
   stream bypasses the norms. Two losses are known and nothing else may be
   missing: layer norms (build_fallback_graph of trace_model.py) and the biases
   of projections (decompose_attention and decompose_mlp of sir_build.rs). A
   model without them loses nothing.                                          *)
LayersKeepTheirMeaning ==
    (sir # NoSir /\ SeenWhole) =>
        /\ ~sir.failed
        /\ phase \in {"built", "tabled"} =>
               \A i \in 0..job.model.text.layers - 1 :
                   \E lost \in SUBSET Losses : Computed(LayerIds(i)) = DecoderLayer(i, Before(i), lost)

(* What the builder does not take apart for a family, the report has a
   converter for there: nothing of a graph that builds falls back but the
   division of the oldest families, and what counts as supported has an
   engine on the family's revision. (A gather is counted and has none.)      *)
GatedOpsAreDecomposed ==
    report # NoReport =>
        /\ report.violations \subseteq IF target_family <= 12 THEN {"RealDiv"} ELSE {}
        /\ \A kind \in report.ane_supported \ {"RMSNorm", "RoPETransform", "Const", "Gather"} :
               engine_for_op(IF kind = "LinearProjection" THEN "Linear" ELSE kind,
                             family_to_default_revision[target_family]) # Nothing

(* The tables the rotation and the mask read have the sequence and head
   dimensions the heads are laid out in, unless a saved trace is compiled for
   another sequence length.                                                   *)
TablesFitHeads ==
    (prepared # Unprepared /\ (job.saved => job.saved_seq = job.seq)) =>
        \A i \in DOMAIN sir.nodes :
            LET n == sir.nodes[i]
                rows == n.op.attr[2]
            IN  n.name \in {Name("q_reshape_4d"), Name("k_reshape_4d")} =>
                    \A ref \in rope_tables_refs :
                        /\ prepared.tables[<<"sin_tab", ref>>] = <<1, 1, rows, n.op.attr[4]>>
                        /\ prepared.tables[<<"cos_tab", ref>>] = <<1, 1, rows, n.op.attr[4]>>
                        /\ rows <= QuadraticLimit =>
                               prepared.tables[<<"mask_tab", ref>>] = <<rows, rows>>

(* Every table a function reads is among those that are computed for it, with
   the shape its operations were inferred from, when the model rotates and the
   prompt is short enough for a mask.                                         *)
TablesAreThere ==
    (package # <<>> /\ rope_tables_refs # {} /\ job.seq <= QuadraticLimit) =>
        \A f \in Range(package) :
            /\ f.reads \subseteq DOMAIN f.tables
            /\ \A table \in DOMAIN f.shapes : f.shapes[table] = f.tables[table]

\* The decode step may lose the norms of queries and keys of a model that has
\* them: what the tracer writes does not say so.
QkNormsOf(weights) == {w \in weights : Len(w) > 1 /\ w[Len(w) - 1] \in {"q_norm", "k_norm"}}
StepLosses(weights) == IF job.model.qk_norm THEN {{}, QkNormsOf(weights)} ELSE {{}}

(* The two functions of a package are the same model: the decode step of a
   gated decoder with RMS norms reads the parameters the prompt's function
   does, all of them but for the embedding, done by the caller. One loss is
   known: of a model with norms of queries and keys the step may read all or
   none. Its tables are of the same heads and, unless the command line shortens
   the cache, at least as long as the prompt.                                 *)
FunctionsShareWeights ==
    (Len(package) = 2 /\ SeenWhole /\ job.model.gated /\ graph.config.uses_rms_norm) =>
        LET prompt == package[1]
            decode == package[2]
        IN  /\ \E lost \in StepLosses(prompt.weights) :
                   decode.weights = prompt.weights \ (lost \cup {<<"model", "embed_tokens", "weight">>})
            /\ \A ref \in rope_tables_refs :
                   LET ours == prompt.tables[<<"sin_tab", ref>>]
                       theirs == decode.tables[<<"sin_tab", ref>>]
                   IN  /\ theirs[4] = ours[4]
                       /\ job.max_seq_len = 0 => theirs[3] >= ours[3]

(* The functions of a package fit each other and the heads they work on. *)
FunctionsFit == TablesFitHeads /\ TablesAreThere /\ FunctionsShareWeights

-----------------------------------------------------------------------------
(* The weights. *)

Revision(path) == IF path[1][1] = "snapshot" THEN <<path[1][1], path[1][2]>> ELSE path[1]

(* All weights are of one revision of the model, whichever searches failed and
   whatever was downloaded or removed in between; a local directory with
   readable files only further down may mix the checkpoints in it.           *)
OneRevision ==
    \/ located.dir = Local /\ \A f \in disk.local.top : ~f.readable
    \/ \A p, q \in loaded : Revision(p) = Revision(q)

(* A compile that goes on without weights found none it could have read: no
   snapshot of the model has a readable file, unless a younger one has only
   unreadable ones.                                                           *)
NotFoundIsNotThere ==
    (phase \in WeightsRead /\ loaded = {}) =>
        \A k \in DOMAIN disk.hub :
            (\E f \in disk.hub[k].top : f.readable) =>
                \E l \in DOMAIN disk.hub \ {k} :
                    disk.hub[l].top # {} /\ disk.hub[l].age <= disk.hub[k].age
=============================================================================
