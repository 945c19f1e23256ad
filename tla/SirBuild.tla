------------------------------ MODULE SirBuild ------------------------------
(* The construction of the first graph of the compiler, the SIR, from a traced
   graph (src/crates/trace/src/sir_build.rs): each traced operation becomes one
   or several operations, which name each other by aliases that are resolved
   when the whole graph is there, and the result is checked for single
   assignment.

   An operation's name is <<base, numbers, rest>>, so that <<"q_proj", <<8>>, "">>
   is q_proj_8 and <<"k_head", <<0>>, "transpose">> is k_head_0_transpose. A
   reference is one of
     <<"id", n, t>>        sir_<n>_<t>, the n-th operation, made for node t
     <<"alias", name, t>>  sir_<name>_<t>
     <<"weight", path>>, <<"unresolved", k>>, <<"placeholder">>,
     <<"causal_mask", t>>  strings that do not begin with sir_.
   An operation is its kind, its references, its weight (a path, <<>> without
   one) and the attributes that matter.                                      *)
EXTENDS TraceGraphs, AneTarget

Op(kind, refs, weight, attr) == [kind |-> kind, refs |-> refs, weight |-> weight, attr |-> attr]
NoWeight == <<>>
Name(base) == <<base, <<>>, "">>
Numbered(base, n) == <<base, <<n>>, "">>
Named(op, name) == [op |-> op, name |-> name]
Error == <<>>          \* the builder refuses the node
Failed(ops) == ops = Error

(* What resolve_input yields for the k-th input. *)
resolve_input(node, k, node_map) ==
    IF k \in DOMAIN node.in /\ node.in[k] \in DOMAIN node_map THEN node_map[node.in[k]]
    ELSE <<"unresolved", k>>

resolve_weight_name(node) ==
    IF node.path = Nowhere THEN <<"synthetic", node.id>> ELSE Append(node.path, "weight")

hf_param_name(node, module) ==
    IF node.path = Nowhere THEN <<"synthetic", module, node.id>>
    ELSE node.path \o <<module, "weight">>

effective_epsilon(epsilon, config) ==
    CASE epsilon > 0 -> epsilon
      [] config.layer_norm_epsilon > 0 -> config.layer_norm_epsilon
      [] OTHER -> StandardEpsilon

-----------------------------------------------------------------------------
(* The decompositions. *)

A(node, name) == <<"alias", name, node.id>>

(* The operations on the way from a projection to the heads of q, k and v. *)
Projected(node, x, config, heads, head_dim) ==
    LET proj(p, n) == Named(Op("LinearProjection", <<x>>, hf_param_name(node, p), <<>>),
                            Numbered(p, n * head_dim))
    IN  <<proj("q_proj", heads), proj("k_proj", config.kv), proj("v_proj", config.kv)>>

QkNormed(node, config) ==
    LET normed(p, of) == Named(Op("RMSNorm", <<A(node, Name(of))>>, hf_param_name(node, p),
                                  <<effective_epsilon(0, config), 3>>), Name(p))
    IN  IF node.op.has_qk_norm
        THEN <<normed("q_norm", "q_proj"), normed("k_norm", "k_proj")>>
        ELSE <<>>

Laid(node, config, batch, seq, heads, head_dim) ==
    LET after(norm, proj) == A(node, Name(IF node.op.has_qk_norm THEN norm ELSE proj))
        reshape(x, n, name) == Named(Op("Reshape", <<x>>, NoWeight, <<batch, seq, n, head_dim>>),
                                     Name(name))
        transpose(of, name) == Named(Op("Transpose", <<A(node, Name(of))>>, NoWeight, <<0, 2, 1, 3>>),
                                     Name(name))
    IN  << reshape(after("q_norm", "q_proj"), heads, "q_reshape_4d"),
           reshape(after("k_norm", "k_proj"), config.kv, "k_reshape_4d"),
           reshape(A(node, Name("v_proj")), config.kv, "v_reshape_4d"),
           transpose("q_reshape_4d", "q_transpose"),
           transpose("k_reshape_4d", "k_transpose"),
           transpose("v_reshape_4d", "v_transpose") >>

Rotated(node, config) ==
    LET rope(of, name) == Named(Op("RoPETransform", <<A(node, Name(of))>>, NoWeight,
                                   <<"rope_tables_shared">>), Name(name))
    IN  IF config.uses_rope
        THEN <<rope("q_transpose", "q_rope"), rope("k_transpose", "k_rope")>>
        ELSE <<>>

(* fan_out query heads read one key and value head. *)
fan_out(heads, kv) == IF kv < heads THEN heads \div kv ELSE 1

\* A mutant for LayersKeepTheirMeaning: heads take the key heads in turn.
kv_idx_in_turn(h, heads, kv) == h % kv

kv_idx(h, heads, kv) == h \div fan_out(heads, kv)

Slice(of, h, name) == Named(Op("SliceByIndex", <<of>>, NoWeight, <<h>>), name)

HeadOps(h, node, config, heads) ==
    LET k == kv_idx(h, heads, config.kv)
        first == \A g \in 0..h - 1 : kv_idx(g, heads, config.kv) # k
        q4 == A(node, Name(IF config.uses_rope THEN "q_rope" ELSE "q_transpose"))
        k4 == A(node, Name(IF config.uses_rope THEN "k_rope" ELSE "k_transpose"))
        of(base) == A(node, Numbered(base, h))
        op(kind, refs, attr, base) == Named(Op(kind, refs, NoWeight, attr), Numbered(base, h))
        transposed == <<"k_head", <<k>>, "transpose">>
    IN  <<Slice(q4, h, Numbered("q_head", h))>>
        \o (IF first
            THEN << Slice(k4, k, Numbered("k_head", k)),
                    Slice(A(node, Name("v_transpose")), k, Numbered("v_head", k)),
                    Named(Op("Transpose", <<A(node, Numbered("k_head", k))>>, NoWeight, <<0, 2, 1>>),
                          transposed) >>
            ELSE <<>>)
        \o << op("MatMul", <<of("q_head"), A(node, transposed)>>, <<>>, "logits"),
              op("Mul", <<of("logits"), A(node, Name("attn_scale_const"))>>, <<>>, "scaled_logits"),
              op("Add", <<of("scaled_logits"), A(node, Name("causal_mask_4d"))>>, <<>>,
                 "masked_logits"),
              op("Softmax", <<of("masked_logits")>>, <<-1>>, "weights"),
              op("MatMul", <<of("weights"), A(node, Numbered("v_head", k))>>, <<>>, "ctx"),
              op("ExpandDims", <<of("ctx")>>, <<1>>, "ctx_exp") >>

(* The residual is added when the node has a second input. *)
Residual(node, node_map, from, name) ==
    IF Len(node.in) >= 2
    THEN <<Named(Op("Add", <<A(node, Name(from)), resolve_input(node, 2, node_map)>>, NoWeight, <<>>),
                 Name(name))>>
    ELSE <<>>

decompose_attention(node, config, node_map, batch, seq) ==
    LET heads == node.op.heads
        dim == node.op.head_dim
        x == resolve_input(node, 1, node_map)
    IN  Projected(node, x, config, heads, dim)
        \o QkNormed(node, config)
        \o Laid(node, config, batch, seq, heads, dim)
        \o Rotated(node, config)
        \o << Named(Op("Const", <<>>, NoWeight, <<"scale", dim>>), Name("attn_scale_const")),
              Named(Op("Const", <<>>, NoWeight, <<"mask_tab", "rope_tables_shared">>), Name("causal_mask")),
              Named(Op("Reshape", <<A(node, Name("causal_mask"))>>, NoWeight, <<1, 1, seq, seq>>),
                    Name("causal_mask_4d")) >>
        \o FlattenSeq([h \in 1..heads |-> HeadOps(h - 1, node, config, heads)])
        \o << Named(Op("Concat", [h \in 1..heads |-> A(node, Numbered("ctx_exp", h - 1))], NoWeight,
                       <<1>>), Name("ctx_concat")),
              Named(Op("Reshape", <<A(node, Name("ctx_concat"))>>, NoWeight, <<batch, seq, heads * dim>>),
                    Name("attn_reshape_3d")),
              Named(Op("LinearProjection", <<A(node, Name("attn_reshape_3d"))>>,
                       hf_param_name(node, "o_proj"), <<>>), Numbered("out_proj", 0)) >>
        \o Residual(node, node_map, "out_proj", "attn_residual_add")

Activations == [silu |-> "Silu", swish |-> "Silu", gelu |-> "Gelu", gelu_new |-> "Gelu",
                relu |-> "Relu"]

(* A gate is used when the parameters show one and the activation is SiLU or
   there is an up projection too.                                             *)
is_swiglu(node, config, weights) ==
    LET has(p) == node.path # Nowhere /\ hf_param_name(node, p) \in weights
    IN  (config.hidden_act = "silu" \/ has("up_proj")) /\ has("gate_proj")

decompose_mlp(node, config, weights, node_map) ==
    LET x == resolve_input(node, 1, node_map)
        linear(of, p, name) == Named(Op("LinearProjection", <<of>>, hf_param_name(node, p), <<>>),
                                     Numbered(name, 0))
        has_gate == node.path # Nowhere /\ hf_param_name(node, "gate_proj") \in weights
        gated == << linear(x, "gate_proj", "gate_proj"),
                    Named(Op("Silu", <<A(node, Name("gate_proj"))>>, NoWeight, <<>>),
                          Name("mlp_gate_silu")),
                    linear(x, "up_proj", "up_proj"),
                    Named(Op("Mul", <<A(node, Name("mlp_gate_silu")), A(node, Name("up_proj"))>>, NoWeight,
                             <<>>), Name("mlp_swiglu_mul")),
                    linear(A(node, Name("mlp_swiglu_mul")), "down_proj", "down_proj") >>
        plain == << linear(x, IF has_gate THEN "gate_proj" ELSE "up_proj", "up_proj"),
                    Named(Op(Activations[node.op.activation], <<A(node, Name("up_proj"))>>, NoWeight,
                             <<>>), Name("mlp_act")),
                    linear(A(node, Name("mlp_act")), "down_proj", "down_proj") >>
        residual == Residual(node, node_map, "down_proj", "mlp_residual_add")
    IN  IF is_swiglu(node, config, weights) THEN gated \o residual
        ELSE IF node.op.activation \in DOMAIN Activations THEN plain \o residual
        ELSE Error

decompose_rope(node, node_map) ==
    LET x == resolve_input(node, 1, node_map)
        op(kind, refs, base) == Named(Op(kind, refs, NoWeight, <<>>), Name(base))
    IN  << op("Mul", <<x, A(node, Name("rope_cos"))>>, "rope_cos_mul"),
           op("SliceByIndex", <<x>>, "rope_rotate_first_half"),
           op("SliceByIndex", <<x>>, "rope_rotate_second_half"),
           op("Mul", <<A(node, Name("rope_rotated")), A(node, Name("rope_sin"))>>, "rope_sin_mul"),
           op("Add", <<A(node, Name("rope_cos_mul")), A(node, Name("rope_sin_mul"))>>, "rope_add") >>

decompose_rms_norm(node, config, node_map) ==
    <<Named(Op("RMSNorm", <<resolve_input(node, 1, node_map)>>, resolve_weight_name(node),
               <<effective_epsilon(node.op.epsilon, config), 2>>), Numbered("rms_norm", 0))>>

decompose_sdpa(node, node_map) ==
    LET in(k) == resolve_input(node, k, node_map)
        op(kind, refs, attr, base) == Named(Op(kind, refs, NoWeight, attr), Name(base))
    IN  << op("Transpose", <<in(2)>>, <<0, 1, 3, 2>>, "sdpa_k_transpose"),
           op("MatMul", <<in(1), A(node, Name("sdpa_k_t"))>>, <<>>, "sdpa_qk"),
           op("Const", <<>>, <<"scale">>, "sdpa_scale_const"),
           op("Mul", <<A(node, Name("sdpa_qk")), A(node, Name("sdpa_scale_const"))>>, <<>>, "sdpa_scale"),
           op("Softmax", <<A(node, Name("sdpa_scaled"))>>, <<-1>>, "sdpa_softmax"),
           op("MatMul", <<A(node, Name("sdpa_softmax")), in(3)>>, <<>>, "sdpa_sv") >>

(* where(cond, x, y) is cond * x + (1 - cond) * y. *)
decompose_where(node, node_map) ==
    LET in(k) == resolve_input(node, k, node_map)
        op(kind, refs, base) == Named(Op(kind, refs, NoWeight, <<>>), Name(base))
    IN  << Named(Op("Const", <<>>, NoWeight, <<"one">>), Name("where_one")),
           op("Sub", <<A(node, Name("where_one")), in(1)>>, "where_sub"),
           op("Mul", <<in(1), in(2)>>, "where_mul_x"),
           op("Mul", <<A(node, Name("where_sub")), in(3)>>, "where_mul_y"),
           op("Add", <<A(node, Name("where_mul_x")), A(node, Name("where_mul_y"))>>, "where_add") >>

-----------------------------------------------------------------------------
(* Which operations a traced operation becomes, the graph of all of them, the
   resolution of the aliases and the check for single assignment.             *)

(* One traced operation. *)

(* The operations mapped one to one, with the number of inputs they read. *)
Direct ==
    [MatMul |-> <<"MatMul", 2>>, Softmax |-> <<"Softmax", 1>>, Gelu |-> <<"Gelu", 1>>,
     Silu |-> <<"Silu", 1>>, Relu |-> <<"Relu", 1>>, Reshape |-> <<"Reshape", 1>>,
     Transpose |-> <<"Transpose", 1>>, Split |-> <<"Split", 1>>, Add |-> <<"Add", 2>>,
     Mul |-> <<"Mul", 2>>, Div |-> <<"RealDiv", 2>>, Rsqrt |-> <<"Rsqrt", 1>>,
     Tanh |-> <<"Tanh", 1>>, Sigmoid |-> <<"Sigmoid", 1>>, Exp |-> <<"Exp", 1>>,
     Cos |-> <<"Cos", 1>>, Sin |-> <<"Sin", 1>>, Gather |-> <<"Gather", 2>>,
     IndexSelect |-> <<"Gather", 2>>, Output |-> <<"Identity", 1>>,
     GetItem |-> <<"Identity", 1>>, Identity |-> <<"Identity", 1>>,
     ExpandDims |-> <<"ExpandDims", 1>>, Squeeze |-> <<"Squeeze", 1>>]

MapDirect(node, node_map) ==
    LET to == Direct[node.op.type]
    IN  <<Named(Op(to[1], [k \in 1..to[2] |-> resolve_input(node, k, node_map)], NoWeight, <<>>),
                Name(node.op.type))>>

MapWeighted(node, node_map) ==
    LET x == resolve_input(node, 1, node_map)
        weight == resolve_weight_name(node)
    IN  IF node.op.type = "Linear"
        THEN <<Named(Op("LinearProjection", <<x>>, weight, <<>>), Numbered("linear", 0))>>
        ELSE <<Named(Op("Gather", <<<<"weight", weight>>, x>>, NoWeight, <<0>>),
                     Numbered("embedding", 0))>>

MapLayerNorm(node, family, node_map) ==
    IF supports_layernorm(family)
    THEN <<Named(Op("LayerNorm", <<resolve_input(node, 1, node_map)>>, resolve_weight_name(node),
                    <<>>), Name("layernorm"))>>
    ELSE Error

\* A mutant for GatedOpsAreDecomposed: the gate of the layer norm is used.
MapSdpaFromA15(node, family, node_map) ==
    IF supports_layernorm(family)
    THEN <<Named(Op("ScaledDotProductAttention",
                    [k \in 1..3 |-> resolve_input(node, k, node_map)]
                    \o <<<<"causal_mask", node.id>>>>, NoWeight, <<"scale">>), Name("sdpa"))>>
    ELSE decompose_sdpa(node, node_map)

MapSdpa(node, family, node_map) ==
    IF supports_sdpa(family)
    THEN <<Named(Op("ScaledDotProductAttention",
                    [k \in 1..3 |-> resolve_input(node, k, node_map)]
                    \o <<<<"causal_mask", node.id>>>>, NoWeight, <<"scale">>), Name("sdpa"))>>
    ELSE decompose_sdpa(node, node_map)

MapSlice(node, node_map) ==
    <<Named(Op("SliceByIndex", <<resolve_input(node, 1, node_map)>>, NoWeight,
               <<node.op.begin, node.op.end>>), Name("slice"))>>

MapCast(node, node_map) ==
    IF node.op.known
    THEN <<Named(Op("Cast", <<resolve_input(node, 1, node_map)>>, NoWeight, <<>>), Name("cast"))>>
    ELSE Error

MapConcat(node, node_map) ==
    LET known == SelectSeq(node.in, LAMBDA id : id \in DOMAIN node_map)
    IN  <<Named(Op("Concat", [k \in DOMAIN known |-> node_map[known[k]]], NoWeight, <<>>),
                Name("concat"))>>

map_traced_op(node, graph, family, node_map, batch, seq) ==
    LET type == node.op.type IN
    CASE type = "AttentionBlock" -> decompose_attention(node, graph.config, node_map, batch, seq)
      [] type = "MlpBlock" -> decompose_mlp(node, graph.config, graph.weights, node_map)
      [] type = "RopeTransform" -> decompose_rope(node, node_map)
      [] type = "RmsNorm" -> decompose_rms_norm(node, graph.config, node_map)
      [] type \in {"Linear", "Embedding"} -> MapWeighted(node, node_map)
      [] type = "LayerNorm" -> MapLayerNorm(node, family, node_map)
      [] type = "ScaledDotProductAttention" -> MapSdpa(node, family, node_map)
      [] type = "Where" -> decompose_where(node, node_map)
      [] type = "Slice" -> MapSlice(node, node_map)
      [] type = "Cast" -> MapCast(node, node_map)
      [] type = "Concat" -> MapConcat(node, node_map)
      [] type = "Placeholder" ->
             <<Named(Op("Identity", <<<<"placeholder">>>>, NoWeight, <<>>), Name("placeholder"))>>
      [] type \in DOMAIN Direct -> MapDirect(node, node_map)
      [] OTHER -> Error

-----------------------------------------------------------------------------
(* All of them. A node is [id, op, name, from], from the traced node's id. *)

AddNode(made, node, graph, family, batch, seq) ==
    LET ops == map_traced_op(node, graph, family, made.node_map, batch, seq)
        next == Len(made.nodes)
        id(k) == <<"id", next + k - 1, node.id>>
    IN  IF made.failed \/ Failed(ops) THEN [made EXCEPT !.failed = TRUE]
        ELSE [made EXCEPT
                 !.nodes = @ \o [k \in DOMAIN ops |-> [id |-> id(k), op |-> ops[k].op,
                                                       name |-> ops[k].name, from |-> node.id]],
                 !.node_map = [t \in DOMAIN @ \cup {node.id} |->
                                  IF t = node.id THEN id(Len(ops)) ELSE @[t]]]

AllNodes(graph, family, batch, seq) ==
    LET made[i \in 0..Len(graph.nodes)] ==
            IF i = 0 THEN [nodes |-> <<>>, node_map |-> <<>>, failed |-> FALSE]
            ELSE AddNode(made[i - 1], graph.nodes[i], graph, family, batch, seq)
    IN  made[Len(graph.nodes)]

strip_trailing_dim_suffix(name) ==
    IF name[3] = "" /\ name[2] # <<>> THEN Name(name[1]) ELSE name

semantic_prefix_to_position ==
    [q_proj |-> 0, k_proj |-> 1, v_proj |-> 2, q_norm |-> 3, k_norm |-> 4, q_reshape_4d |-> 5,
     k_reshape_4d |-> 6, v_reshape_4d |-> 7, q_transpose |-> 8, k_transpose |-> 9,
     v_transpose |-> 10, q_split |-> 11, k_split |-> 12, v_split |-> 13,
     attn_scale_const |-> 14, gate_proj |-> 0, mlp_gate_silu |-> 1,
     up_proj |-> 2, mlp_swiglu_mul |-> 3, down_proj |-> 4, mlp_act |-> 1, rope_cos |-> 0,
     rope_sin |-> 1, rope_rotated |-> 2, rope_cos_mul |-> 3, rope_sin_mul |-> 4,
     sdpa_k_t |-> 0, sdpa_qk |-> 1, sdpa_scale_const |-> 2, sdpa_scaled |-> 3,
     sdpa_softmax |-> 4]

(* By position among the operations of the traced node, when no operation has
   the name.                                                                  *)
resolve_alias(alias, nodes) ==
    LET own == {i \in DOMAIN nodes : nodes[i].from = alias[3]}
        base == alias[2][1]
        at == {i \in own : Cardinality({j \in own : j < i}) = semantic_prefix_to_position[base]}
    IN  IF alias[2] = Name(base) /\ base \in DOMAIN semantic_prefix_to_position /\ at # {}
        THEN nodes[Min(at)].id
        ELSE alias

(* By name: the first operation of the traced node with that name, or with
   that name when its numbers are stripped.                                   *)
Resolve(ref, nodes) ==
    LET named == {i \in DOMAIN nodes :
                     /\ nodes[i].from = ref[3]
                     /\ ref[2] \in {nodes[i].name, strip_trailing_dim_suffix(nodes[i].name)}}
    IN  IF ref[1] # "alias" THEN ref
        ELSE IF named # {} THEN nodes[Min(named)].id
        ELSE resolve_alias(ref, nodes)

Resolved(nodes) ==
    [i \in DOMAIN nodes |->
        [nodes[i] EXCEPT !.op.refs = [k \in DOMAIN @ |-> Resolve(@[k], nodes)]]]

(* Every reference that begins with sir_ is to an input or an earlier
   operation, never to the operation itself.                                  *)
SsaHolds(nodes, inputs) ==
    \A i \in DOMAIN nodes :
        \A k \in DOMAIN nodes[i].op.refs :
            LET ref == nodes[i].op.refs[k]
            IN  ref[1] \in {"id", "alias"} =>
                    /\ ref # nodes[i].id
                    /\ ref \in inputs \cup {nodes[j].id : j \in 1..i - 1}

IdsOf(nodes, graph, type) ==
    LET traced == SelectSeq(graph.nodes, LAMBDA node : node.op.type = type)
        ids == {traced[j].id : j \in DOMAIN traced}
        own == SelectSeq(nodes, LAMBDA n : n.from \in ids)
    IN  {own[i].id : i \in DOMAIN own}

build_sir_from_trace(graph, family) ==
    LET dims == graph.inputs[1]
        known == graph.inputs # <<>> /\ Len(dims) >= 2
        made == AllNodes(graph, family, IF known THEN dims[1] ELSE 1,
                                        IF known THEN dims[2] ELSE 32)
        nodes == Resolved(made.nodes)
        inputs == IdsOf(nodes, graph, "Placeholder")
        outputs == IdsOf(nodes, graph, "Output")
    IN  [failed |-> made.failed \/ ~SsaHolds(nodes, inputs),
         nodes |-> nodes, inputs |-> inputs,
         outputs |-> IF outputs # {} THEN outputs ELSE {nodes[Len(nodes)].id}]
=============================================================================
