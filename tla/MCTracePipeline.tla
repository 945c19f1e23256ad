-------------------------- MODULE MCTracePipeline --------------------------
(* The jobs, models and caches TracePipeline is checked on.                  *)
EXTENDS TracePipeline

Config(has, heads, kv, act) ==
    [has |-> has, hidden |-> 4, heads |-> heads, kv |-> kv, layers |-> 1, inter |-> 8, vocab |-> 6,
     act |-> act, head_dim |-> 3, eps |-> 5, uses_rope |-> TRUE]

\* The literals of getattr.
MCDefaults ==
    [has |-> {}, hidden |-> 8, heads |-> 2, kv |-> 2, layers |-> 1, inter |-> 16, vocab |-> 12,
     act |-> "gelu", head_dim |-> 4, eps |-> StandardEpsilon, uses_rope |-> FALSE]

Model(arch, nest, text, qk_norm, gated) ==
    [architectures |-> arch, is_encoder_decoder |-> FALSE, nest |-> nest, text |-> text,
     qk_norm |-> qk_norm, gated |-> gated, tied |-> FALSE, biased |-> {},
     norm |-> IF "layer_norm_eps" \in text.has THEN "LayerNorm" ELSE "RMSNorm"]

CausalLM == <<"ForCausalLM">>

\* One of the names of each family, and an unknown one.
Device ==
    11 :> "iphone8" @@ 12 :> "a12" @@ 13 :> "a13" @@ 14 :> "m1" @@ 15 :> "m2pro" @@ 16 :> "a16"
    @@ 17 :> "uane" @@ 18 :> "m4" @@ 0 :> "h100"

Job(model, fx, family) ==
    [model |-> model, saved |-> FALSE, saved_seq |-> 3, fx |-> fx, batch |-> 2, seq |-> 3,
     with_kv_cache |-> FALSE, target |-> Device[family], architecture |-> "auto", ane_only |-> FALSE,
     max_seq_len |-> 0, max_positions |-> 8]

-----------------------------------------------------------------------------
(* Graphs of torch.fx: three placeholders, one call of them and the output.  *)

FxIn(name) == [op |-> "placeholder", name |-> <<name>>, args |-> <<>>]
FxCall(op, call) ==
    [op |-> op, name |-> <<"call">>, args |-> <<<<"a">>, <<"b">>, <<"c">>, <<"literal">>>>, call |-> call]

Fx(call) ==
    <<FxIn("a"), FxIn("b"), FxIn("c"), call,
      [op |-> "output", name |-> <<"output">>, args |-> <<<<"call">>>>]>>

Module(says, class, has_bias) ==
    FxCall("call_module", [says |-> says, class |-> class, has_weight |-> TRUE, has_bias |-> has_bias,
                           path |-> <<"model", "module">>])

Calls ==
    {Fx(Module({"q_proj"}, "Linear", FALSE)), Fx(Module({"embed"}, "Embedding", FALSE)),
     Fx(Module({"norm"}, "RMSNorm", FALSE)), Fx(Module({"ln"}, "LayerNorm", TRUE)),
     Fx(Module({"attn"}, "Attention", FALSE)), Fx(Module({"mlp"}, "MLP", FALSE)),
     Fx(Module({"dropout"}, "Dropout", FALSE))}
    \cup {Fx(FxCall("call_function", [says |-> {func_map[i][1]}])) : i \in DOMAIN func_map}
    \cup {Fx(FxCall("call_method", [method |-> method])) :
             method \in {"view", "permute", "size", "half", "to", "unsqueeze", "squeeze", "chunk",
                         "index_select", "mean"}}
    \cup {Fx([op |-> "get_attr", name |-> <<"call">>, args |-> <<>>])}

NoFx == Fx(FxCall("call_function", [says |-> {"add"}]))

-----------------------------------------------------------------------------
(* The models. *)

Fields ==
    { {"rms_norm_eps", "rope_theta", "head_dim", "num_key_value_heads"},
      {"rms_norm_eps", "num_key_value_heads"}, {"layer_norm_eps", "rope_scaling"},
      {"layer_norm_eps", "uses_rope"}, {} }

Texts ==
    {Config(has, heads[1], heads[2], act) :
        has \in Fields, heads \in {<<2, 2>>, <<2, 1>>, <<4, 2>>},
        act \in {"silu", "gelu", "relu", "tanh"}}

Plain == Config({"rms_norm_eps", "rope_theta", "num_key_value_heads"}, 2, 1, "silu")

CausalModels ==
    {Model(CausalLM, "flat", text, qk_norm, gated) :
        text \in Texts, qk_norm \in BOOLEAN, gated \in BOOLEAN}

(* Biases of some projections or of all, and norms no field tells of. *)
Attention == {<<"self_attn", p>> : p \in {"q_proj", "k_proj", "v_proj"}}
OtherModels ==
    {[m EXCEPT !.biased = biased] :
        m \in {m \in CausalModels : m.text.act \in {"silu", "relu"} /\ m.text.kv = 1},
        biased \in {Attention, Attention \cup {<<"self_attn", "o_proj">>, <<"mlp", "up_proj">>, <<"mlp", "down_proj">>}}}
    \cup {[m EXCEPT !.norm = "LayerNorm"] : m \in {m \in CausalModels : m.text.has = {} /\ m.text.act = "gelu"}}

CausalJobs == {Job(m, NoFx, 16) : m \in CausalModels \cup OtherModels}

(* With a KV cache. *)
CacheJobs ==
    {[Job(Model(CausalLM, "flat", [text EXCEPT !.layers = layers], qk_norm, TRUE), NoFx, 16) EXCEPT
         !.with_kv_cache = TRUE, !.max_seq_len = given] :
        text \in {t \in Texts : t.act = "silu"}, qk_norm \in BOOLEAN, layers \in 0..1, given \in {0, 2}}

(* Every way a class is chosen, over one configuration of two layers. *)
Chosen ==
    {[Model(arch, nest, [Plain EXCEPT !.layers = 2], TRUE, TRUE) EXCEPT !.is_encoder_decoder = encdec] :
        arch \in {<<>>, CausalLM, <<"ForSeq2SeqLM">>, <<"VisionEncoderDecoder">>,
                  <<"ForConditionalGeneration">>, <<"Other">>},
        nest \in {"flat", "text_config", "thinker_config", "decoder", "language_model"},
        encdec \in BOOLEAN}

ChosenJobs == {Job(m, NoFx, 16) : m \in Chosen}

FxJobs ==
    {[Job(Model(CausalLM, "flat", text, FALSE, FALSE), fx, family) EXCEPT
         !.with_kv_cache = (family = 14)] :
        text \in {Plain, [Plain EXCEPT !.has = {"layer_norm_eps"}, !.act = "tanh"]},
        fx \in Calls, family \in {11, 13, 14, 15, 16, 18}}

SavedJobs ==
    {[Job(Model(CausalLM, "flat", Plain, FALSE, gated), NoFx, family) EXCEPT
         !.saved = TRUE, !.saved_seq = saved_seq, !.ane_only = (family = 12)] :
        gated \in BOOLEAN, family \in {12, 17}, saved_seq \in {3, 5}}

-----------------------------------------------------------------------------
(* The caches. *)

File(name, readable) == [name |-> name, readable |-> readable]
Empty == [top |-> {}, nested |-> {}]
Full == [Empty EXCEPT !.top = {File("one", TRUE), File("two", TRUE)}]
Part == [Empty EXCEPT !.top = {File("one", TRUE), File("two", FALSE)}]
Broken == [Empty EXCEPT !.top = {File("one", FALSE)}]
Deep == [Empty EXCEPT !.nested = {[name |-> "one", readable |-> TRUE, sub |-> s] : s \in {"x", "y"}}]

DeepOnly == [Deep EXCEPT !.top = {File("two", FALSE)}]

Kept(directory, age) == [top |-> directory.top, nested |-> directory.nested, age |-> age]

MCDisk(hub, ref, current, is_dir, local, repo) ==
    [hub |-> hub, ref |-> ref, current |-> current, is_dir |-> is_dir, local |-> local, repo |-> repo]

\* Nothing is cached and nothing is to be had.
NoCache == MCDisk(<<>>, "a", "a", FALSE, Empty, Empty)

(* Two snapshots, of which the hub and the cache take either for the current
   one, and a directory the model was named by, with or without a cache.      *)
MCDisks ==
    {MCDisk("a" :> Kept(young, 0) @@ "b" :> Kept(old, 1), ref, current, FALSE, Empty, Full) :
        young \in {Empty, Full, Part, Broken, Deep}, old \in {Empty, Part, Deep},
        ref \in {"a", "b"}, current \in {"a", "b"}}
    \cup {MCDisk(<<>>, "a", "a", TRUE, local, Empty) : local \in {Empty, Full, Part, Deep, DeepOnly}}
    \cup {MCDisk("b" :> Kept(old, 0), "b", "a", TRUE, local, Deep) :
             old \in {Empty, Full}, local \in {Full, Deep}}

Cached == {Job(Model(CausalLM, "flat", [Plain EXCEPT !.act = "gelu"], FALSE, FALSE), NoFx, 14)}

(* Names the command line does not know. *)
RefusedJobs ==
    {Job(Model(CausalLM, "flat", Plain, FALSE, FALSE), NoFx, 0)}
    \cup {[Job(Model(CausalLM, "flat", Plain, FALSE, TRUE), NoFx, 17) EXCEPT !.architecture = name] :
             name \in {"qwen3", "other"}}

MCStarts ==
    {[job |-> j, disk |-> NoCache] :
        j \in CausalJobs \cup CacheJobs \cup ChosenJobs \cup FxJobs \cup SavedJobs \cup RefusedJobs}
    \cup {[job |-> j, disk |-> d] :
             j \in Cached \cup {CHOOSE s \in SavedJobs : s.saved_seq = 3}, d \in MCDisks}
=============================================================================
