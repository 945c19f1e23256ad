----------------------------- MODULE TraceGraphs -----------------------------
(* What the tracer (src/python/trace_model.py) makes of a Hugging Face model:
   which class it loads, what it reads from the configuration, the operation
   it sees in each node of a torch.fx graph, and the graph it writes from the
   configuration alone when symbolic tracing fails.

   A model is a record: its declared architectures, whether it says it is an
   encoder-decoder, where its text configuration lies (nest), that
   configuration (text), and what its modules are: gated (an MLP with
   gate_proj and up_proj), qk_norm, norm (the class of the norms of a layer)
   and biased (the projections with a bias, by their path in the layer). A configuration lists the optional
   fields it has in has. A call of a torch.fx graph carries says, the words
   the tracer would find in its target, so that substrings need no strings.
   Ids, module paths and parameter names are tuples.                         *)
EXTENDS Integers, Sequences, SequencesExt, FiniteSets, FiniteSetsExt

CONSTANTS Defaults    \* the literals getattr falls back on, as a configuration

Nowhere == <<>>       \* no module path
Unknown == [type |-> "Unknown"]
Simple(type) == [type |-> type]
StandardEpsilon == 6  \* 1e-6; an epsilon is written as its exponent, 0 is zero

-----------------------------------------------------------------------------
(* The configuration. *)

_find_text_config(m) == m.nest \in {"text_config", "thinker_config", "decoder"}

_resolve_effective_config(m) ==
    IF m.nest \in {"flat", "text_config", "decoder", "language_model", "text_model"}
    THEN m.text
    ELSE Defaults

_detect_rope(cfg) ==
    IF "uses_rope" \in cfg.has THEN cfg.uses_rope
    ELSE cfg.has \cap {"rope_theta", "rope_scaling", "rotary_emb_base",
                       "rope_parameters", "rope_position_embedding"} # {}

_detect_norm_type(cfg) ==
    CASE "rms_norm_eps" \in cfg.has -> "rms_norm"
      [] "layer_norm_eps" \in cfg.has -> "layer_norm"
      [] OTHER -> "unknown"

HeadDim(cfg) == IF "head_dim" \in cfg.has THEN cfg.head_dim ELSE cfg.hidden \div cfg.heads
RmsEpsilon(cfg) == IF "rms_norm_eps" \in cfg.has THEN cfg.eps ELSE StandardEpsilon
KvHeads(cfg) == IF "num_key_value_heads" \in cfg.has THEN cfg.kv ELSE cfg.heads

(* has_qk_norm and rope_theta are no fields of what this returns. *)
extract_model_config(m) ==
    LET cfg == _resolve_effective_config(m)
    IN  [hidden |-> cfg.hidden, heads |-> cfg.heads, kv |-> KvHeads(cfg),
         layers |-> cfg.layers, inter |-> cfg.inter, vocab |-> cfg.vocab,
         hidden_act |-> cfg.act,
         layer_norm_epsilon |-> IF _detect_norm_type(cfg) = "layer_norm" THEN cfg.eps
                                ELSE RmsEpsilon(cfg),
         uses_rope |-> _detect_rope(cfg),
         uses_rms_norm |-> _detect_norm_type(cfg) # "layer_norm",
         uses_gqa |-> KvHeads(cfg) < cfg.heads,
         head_dim |-> HeadDim(cfg)]

discover_model_features(m) ==
    [has_qk_norm |-> m.qk_norm,
     uses_gqa |-> LET cfg == _resolve_effective_config(m) IN KvHeads(cfg) < cfg.heads]

-----------------------------------------------------------------------------
(* The nodes of a torch.fx graph. *)

Projections == {"q_proj", "k_proj", "v_proj", "o_proj"}

map_module_call(call, cfg) ==
    LET says == call.says IN
    CASE \/ call.class = "Linear"
         \/ says \cap ({"linear", "gate_proj", "up_proj", "down_proj"} \cup Projections) # {} ->
             [type |-> "Linear", has_bias |-> says \cap ({"bias"} \cup Projections) # {}]
      [] call.class = "Embedding" \/ says \cap {"embed", "wte"} # {} -> Simple("Embedding")
      [] says \cap {"norm", "ln"} # {} ->
             IF call.class = "RMSNorm" \/ (call.has_weight /\ ~call.has_bias)
                                       \/ _detect_norm_type(cfg) = "rms_norm"
             THEN [type |-> "RmsNorm", epsilon |-> RmsEpsilon(cfg)]
             ELSE Simple("LayerNorm")
      [] says \cap {"attention", "attn"} # {} ->
             [type |-> "AttentionBlock", heads |-> cfg.heads, head_dim |-> HeadDim(cfg),
              has_qk_norm |-> FALSE]
      [] says \cap {"mlp", "feed_forward"} # {} ->
             [type |-> "MlpBlock", activation |-> cfg.act]
      [] OTHER -> Unknown

(* The keys of func_map in its order: the first one the target contains wins. *)
func_map ==
    << <<"scaled_dot_product_attention", "ScaledDotProductAttention">>,
       <<"rms_norm", "RmsNorm">>, <<"layer_norm", "LayerNorm">>, <<"gelu", "Gelu">>,
       <<"silu", "Silu">>, <<"relu", "Relu">>, <<"softmax", "Softmax">>,
       <<"matmul", "MatMul">>, <<"add", "Add">>, <<"mul", "Mul">>, <<"div", "Div">>,
       <<"exp", "Exp">>, <<"cos", "Cos">>, <<"sin", "Sin">>, <<"tanh", "Tanh">>,
       <<"sigmoid", "Sigmoid">>, <<"where", "Where">>, <<"gather", "Gather">> >>

map_function_call(call, cfg) ==
    LET found == {i \in DOMAIN func_map : func_map[i][1] \in call.says}
        type == func_map[Min(found)][2]
    IN  IF found = {} THEN Unknown
        ELSE IF type = "RmsNorm" THEN [type |-> type, epsilon |-> RmsEpsilon(cfg)]
        ELSE Simple(type)

(* The arguments of view, transpose, unsqueeze and their like are not read. *)
map_method_call(call) ==
    LET type == CASE call.method \in {"view", "reshape"} -> "Reshape"
                  [] call.method \in {"transpose", "permute"} -> "Transpose"
                  [] call.method \in {"contiguous", "size"} -> "Identity"
                  [] call.method \in {"float", "half", "to"} -> "Cast"
                  [] call.method = "unsqueeze" -> "ExpandDims"
                  [] call.method = "squeeze" -> "Squeeze"
                  [] call.method \in {"split", "chunk"} -> "Split"
                  [] call.method = "index_select" -> "IndexSelect"
                  [] OTHER -> "Unknown"
    IN  IF type = "Cast" THEN [type |-> type, known |-> call.method # "to"] ELSE Simple(type)

map_fx_node_to_traced_op(node, cfg) ==
    CASE node.op = "placeholder" -> Simple("Placeholder")
      [] node.op = "output" -> Simple("Output")
      [] node.op = "call_module" -> map_module_call(node.call, cfg)
      [] node.op = "call_function" -> map_function_call(node.call, cfg)
      [] node.op = "call_method" -> map_method_call(node.call)
      [] OTHER -> Unknown

-----------------------------------------------------------------------------
(* The traced graphs the tracer writes (src/python/trace_model.py): from the
   nodes of a torch.fx graph, or from the configuration alone, and the classes
   it tries to load the model with first.

   A node is [id, op, in (ids), path (module path), dims, dtype]; ids and paths
   are tuples, and a parameter name is its module's path with the leaf added.
   A graph has the nodes, the configuration, the names of the parameters, the
   map from nodes to parameters, the input specifications and whether it is
   the structural one.                                                       *)

Node(id, op, in, path, dims, dtype) ==
    [id |-> id, op |-> op, in |-> in, path |-> path, dims |-> dims, dtype |-> dtype]

-----------------------------------------------------------------------------
(* Loading. An attempt names what is loaded, the class the graph reports and,
   for the last resort of an extraction, that its failure ends the program.   *)

Attempt(what, class) == [what |-> what, class |-> class, last |-> FALSE]

ExtractPlan ==
    << Attempt("CausalLM", "decoder_only"),
       Attempt("VisionEncoderDecoder.decoder", "decoder_only"),
       [Attempt("AutoModel.submodule", "decoder_only") EXCEPT !.last = TRUE] >>

Causal == Attempt("CausalLM", "causal_lm")
Seq2Seq == Attempt("Seq2SeqLM", "seq2seq_lm")

OfArchitecture(arch, m) ==
    CASE arch = "ForCausalLM" -> <<Causal>>
      [] arch = "ForSeq2SeqLM" -> <<Seq2Seq>>
      [] arch = "VisionEncoderDecoder" -> <<Seq2Seq>> \o ExtractPlan
      [] arch = "ForConditionalGeneration" ->
             CASE m.is_encoder_decoder -> <<Seq2Seq>>
               [] _find_text_config(m) -> ExtractPlan
               [] OTHER -> <<Causal>>
      [] OTHER -> <<>>

(* What _load_model tries, in order. An extraction never returns to it: it
   loads a decoder or exits, and its exit is not an Exception.               *)
_load_model(m) ==
    FlattenSeq([i \in DOMAIN m.architectures |-> OfArchitecture(m.architectures[i], m)])
    \o (IF m.is_encoder_decoder THEN <<Seq2Seq>> ELSE <<>>)
    \o (IF _find_text_config(m) THEN ExtractPlan ELSE <<Causal, Seq2Seq>>)

(* The prefix of the names of the parameters: an extracted sub-module loses
   the prefix it had in the whole model.                                      *)
Prefix(attempt) ==
    CASE attempt.what = "CausalLM" -> "model"
      [] attempt.what = "Seq2SeqLM" -> "model.decoder"
      [] OTHER -> "submodule"

BlockNames(m) ==
    {<<"self_attn", p>> : p \in Projections}
    \cup (IF m.qk_norm THEN {<<"self_attn", "q_norm">>, <<"self_attn", "k_norm">>} ELSE {})
    \cup (IF m.gated THEN {<<"mlp", "gate_proj">>} ELSE {})
    \cup {<<"mlp", "up_proj">>, <<"mlp", "down_proj">>,
          <<"input_layernorm">>, <<"post_attention_layernorm">>}

named_parameters(m, cfg, prefix) ==
    {<<prefix, "layers", i>> \o name \o <<"weight">> :
        i \in 0..cfg.layers - 1, name \in BlockNames(m)}
    \cup {<<prefix, "layers", i>> \o name \o <<"bias">> : i \in 0..cfg.layers - 1, name \in m.biased}
    \cup {<<prefix, "embed_tokens", "weight">>, <<prefix, "norm", "weight">>}
    \cup (IF m.tied THEN {} ELSE {<<"lm_head", "weight">>})

-----------------------------------------------------------------------------
(* The graph from the configuration. *)

Placeholder(id, dims, dtype) == Node(id, Simple("Placeholder"), <<>>, Nowhere, dims, dtype)

Layer(i) == <<"model", "layers", i>>
Norm(id, in, path, config, seq) ==
    IF config.uses_rms_norm
    THEN <<Node(id, [type |-> "RmsNorm", epsilon |-> config.layer_norm_epsilon], <<in>>, path,
                <<1, seq, config.hidden>>, "fp16")>>
    ELSE <<>>
NormedBy(id, in, config) == IF config.uses_rms_norm THEN id ELSE in

FallbackInputs(config, encdec, seq) ==
    IF encdec
    THEN <<Placeholder(<<"encoder_hidden_states">>, <<1, seq, config.hidden>>, "fp16"),
           Placeholder(<<"decoder_input_ids">>, <<1, seq>>, "int32")>>
    ELSE <<Placeholder(<<"input_ids">>, <<1, seq>>, "int32")>>

FallbackEmbedding(config, encdec, seq) ==
    Node(<<"embed_tokens">>, Simple("Embedding"),
         <<IF encdec THEN <<"decoder_input_ids">> ELSE <<"input_ids">>>>,
         <<"model", "embed_tokens">>, <<1, seq, config.hidden>>, "fp16")

FallbackLayer(i, prev, config, features, seq) ==
    LET id(part) == <<"layer", i, part>>
        shape == <<1, seq, config.hidden>>
        normed == NormedBy(id("input_norm"), prev, config)
        attn == id("self_attn")
        normed2 == NormedBy(id("post_attn_norm"), attn, config)
    IN  Norm(id("input_norm"), prev, Layer(i) \o <<"input_layernorm">>, config, seq)
        \o <<Node(attn, [type |-> "AttentionBlock", heads |-> config.heads,
                         head_dim |-> config.head_dim, has_qk_norm |-> features.has_qk_norm],
                  <<normed, prev>>, Layer(i) \o <<"self_attn">>, shape, "fp16")>>
        \o Norm(id("post_attn_norm"), attn, Layer(i) \o <<"post_attention_layernorm">>,
                config, seq)
        \o <<Node(id("mlp"), [type |-> "MlpBlock", activation |-> config.hidden_act],
                  <<normed2, attn>>, Layer(i) \o <<"mlp">>, shape, "fp16")>>

FallbackHead(prev, config, seq) ==
    LET token == <<"hidden_state_last_token">>
        one == <<1, 1, config.vocab>>
    IN  Norm(<<"final_norm">>, prev, <<"model", "norm">>, config, seq)
        \o << Node(token, [type |-> "Slice", begin |-> <<0, seq - 1, 0>>,
                           end |-> <<1, seq, config.hidden>>],
                   <<NormedBy(<<"final_norm">>, prev, config)>>, <<"model", "norm">>,
                   <<1, 1, config.hidden>>, "fp16"),
              Node(<<"lm_head">>, [type |-> "Linear", has_bias |-> FALSE], <<token>>,
                   <<"lm_head">>, one, "fp16"),
              Node(<<"output">>, Simple("Output"), <<<<"lm_head">>>>, Nowhere, one, "fp16") >>

build_fallback_graph(m, attempt, seq) ==
    LET config == extract_model_config(m)
        encdec == attempt.class = "seq2seq_lm"
        inputs == FallbackInputs(config, encdec, seq)
        before(i) == IF i = 0 THEN <<"embed_tokens">> ELSE <<"layer", i - 1, "mlp">>
        layer(i) == FallbackLayer(i, before(i), config, discover_model_features(m), seq)
    IN  [nodes |-> inputs \o <<FallbackEmbedding(config, encdec, seq)>>
                   \o FlattenSeq([i \in 1..config.layers |-> layer(i - 1)])
                   \o FallbackHead(before(config.layers), config, seq),
         config |-> config,
         weights |-> named_parameters(m, config, Prefix(attempt)),
         weight_name_map |-> {},        \* keyed by module path, looked up by node
         inputs |-> [i \in DOMAIN inputs |-> inputs[i].dims],
         fallback |-> TRUE]

-----------------------------------------------------------------------------
(* The graph from torch.fx. Inputs are the positional arguments that are nodes;
   no shape propagation has run, so a node knows no shape.                    *)

FxNode(node, cfg) ==
    Node(node.name, map_fx_node_to_traced_op(node, cfg),
         SelectSeq(node.args, LAMBDA arg : arg # <<"literal">>),
         IF node.op = "call_module" THEN node.call.path ELSE Nowhere, <<>>, "fp16")

_build_input_specs(attempt, cfg, batch, seq) ==
    IF attempt.class = "seq2seq_lm"
    THEN <<<<batch, seq>>, <<batch, seq, cfg.hidden>>>>
    ELSE <<<<batch, seq>>>>

trace_model_fx(m, fx, attempt, batch, seq) ==
    LET cfg == _resolve_effective_config(m)
        modules == SelectSeq(fx, LAMBDA node : node.op = "call_module" /\ node.call.has_weight)
    IN  [nodes |-> [i \in DOMAIN fx |-> FxNode(fx[i], cfg)],
         config |-> extract_model_config(m),
         weights |-> {Append(modules[i].call.path, "weight") : i \in DOMAIN modules},
         weight_name_map |-> {modules[i].name : i \in DOMAIN modules},
         inputs |-> _build_input_specs(attempt, cfg, batch, seq),
         fallback |-> FALSE]
=============================================================================
