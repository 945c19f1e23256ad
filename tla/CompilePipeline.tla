-------------------------- MODULE CompilePipeline --------------------------
(* The commands that compile a graph, as one machine of passes. compile-full
   (run_compile_full) canonicalizes the SIR graph, inserts the static tables,
   applies the precision policy, rewrites to AIR, annotates the risk behind
   the legality gate, plans the shards and lowers to MIR. trace-compile
   (run_trace_compile) inserts the tables, rewrites and lowers; with a KV cache
   it also builds a decode graph and rewrites and lowers that.

   The graph, the context and what the knowledge store answers are chosen in
   the initial state: k.store says whether there is a store, k.known what it
   holds on every pattern, k.hazards the operations with a precision hazard
   and k.risky the roles with a high fallback risk.                          *)
EXTENDS MilLower

CONSTANTS
    Sources,   \* the inputs: [route, nodes, inputs, outputs, c, k]
    MaxChain   \* how many identities in a row are resolved (100 in the code)

ASSUME ChainAssumption == MaxChain \in Nat \ {0}
(* A graph: verify() of the builder has found its ids different, none is one
   that the passes make, and only operations on states have caches.          *)
IsGraph(nodes) ==
    /\ nodes \in Seq(Range(nodes))
    /\ \A n \in Range(nodes) :
           /\ n = SirNode(n.id, n.op, n.refs, n.leaves, n.attr, n.prec)
           /\ n.id = SirId(n.id[1]) /\ n.id[1] \notin {"shared", "static"}
           /\ "kv_cache" \in n.attr => n.op \in {"StateRead", "StateWrite"}
           /\ IsFiniteSet(n.leaves)
    /\ \A i, j \in DOMAIN nodes : nodes[i].id = nodes[j].id => i = j

ASSUME SourcesAssumption == \A source \in Sources : IsGraph(source.nodes)
ASSUME ContextsAssumption == \A source \in Sources : source.c \in DecompositionContext

VARIABLES
    src,       \* the source
    stage,     \* the pass that ran last
    sir,       \* the SIR nodes
    all_air,   \* the AIR nodes before duplicates are dropped
    air,       \* the AIR nodes
    plan,      \* the shard plan, one record in a sequence, or none
    mir,       \* the MIR nodes
    outputs    \* the ids of the graph's outputs

vars == <<src, stage, sir, all_air, air, plan, mir, outputs>>

Init ==
    /\ src \in Sources
    /\ stage = "built"
    /\ sir = src.nodes
    /\ outputs = src.outputs
    /\ all_air = <<>> /\ air = <<>> /\ plan = <<>> /\ mir = <<>>

Fail == stage' = "failed" /\ UNCHANGED <<src, sir, all_air, air, plan, mir, outputs>>

(* CanonicalizePass::run: a chain that is too long is an error; the outputs
   are rewired like the operands.                                            *)
Canonicalize ==
    /\ stage = "built" /\ src.route = "full"
    /\ LET subst == Substitution(sir, src.inputs)
           end == resolve_subst_chain(subst, MaxChain)
       IN  \/ ChainError(subst, MaxChain) /\ Fail
           \/ /\ ~ChainError(subst, MaxChain)
              /\ sir' = eliminate_identities(sir, end)
              /\ outputs' = [i \in DOMAIN outputs |-> resolve_id(outputs[i], end)]
              /\ stage' = "canonical"
              /\ UNCHANGED <<src, all_air, air, plan, mir>>

StaticTables ==
    /\ stage = IF src.route = "full" THEN "canonical" ELSE "built"
    /\ src.route # "decode"
    /\ sir' = run_static_tables_pass(sir)
    /\ stage' = "tables"
    /\ UNCHANGED <<src, all_air, air, plan, mir, outputs>>

PrecisionPolicy ==
    /\ stage = "tables" /\ src.route = "full"
    /\ sir' = precision_policy(sir, src.k.hazards)
    /\ stage' = "precision"
    /\ UNCHANGED <<src, all_air, air, plan, mir, outputs>>

LegalityRewrite ==
    /\ stage = CASE src.route = "full" -> "precision" [] src.route = "trace" -> "tables" [] OTHER -> "built"
    /\ \/ RewritePanics(sir, src.c) /\ Fail
       \/ /\ ~RewritePanics(sir, src.c)
          /\ LET all == rewrite_all(sir, src.c)
             IN  /\ all_air' = all.nodes
                 /\ air' = dedup(all.nodes)
                 /\ outputs' = [i \in DOMAIN outputs |->
                                   IF outputs[i] \in DOMAIN all.air THEN all.air[outputs[i]] ELSE outputs[i]]
          /\ stage' = "legal"
          /\ UNCHANGED <<src, sir, plan, mir>>

(* RiskAnnotatePass: the gate is off when there is no store. *)
RiskAnnotate ==
    /\ stage = "legal" /\ src.route = "full"
    /\ stage' = IF src.k.store /\ UnknownNodes(air, src.k.known) # {} THEN "rejected" ELSE "annotated"
    /\ UNCHANGED <<src, sir, all_air, air, plan, mir, outputs>>

ShardPlan ==
    /\ stage = "annotated"
    /\ plan' = <<shard_plan(sir, src.k.risky)>>
    /\ stage' = "planned"
    /\ UNCHANGED <<src, sir, all_air, air, mir, outputs>>

Lower ==
    /\ stage = IF src.route = "full" THEN "planned" ELSE "legal"
    /\ \/ (SdpaPanics(air, src.c) \/ LoweringPanics(air)) /\ Fail
       \/ /\ ~SdpaPanics(air, src.c) /\ ~LoweringPanics(air)
          /\ mir' = MilLowerRun(air, src.c)
          /\ stage' = "lowered"
          /\ UNCHANGED <<src, sir, all_air, air, plan, outputs>>

Next == \/ Canonicalize \/ StaticTables \/ PrecisionPolicy \/ LegalityRewrite
        \/ RiskAnnotate \/ ShardPlan \/ Lower

Spec == Init /\ [][Next]_vars

-----------------------------------------------------------------------------
(* build_decode_step_sir: the decode graph of a traced model. Its inputs are
   the hidden state and the position, which no node defines.                 *)
HiddenInput == SirId("sir_hidden_input")
PositionInput == SirId("sir_position_input")

LayerId(s, l) == SirId(s \o ToString(l))

LayerNode(s, l, op, refs, leaves, attr) ==
    SirNode(LayerId(s, l), op, refs, {<<s \o ToString(l), w>> : w \in leaves}, attr, "none")

(* Norm, attention over the caches and the residual of layer l. *)
AttentionHalf(l) ==
    LET id(s) == LayerId(s, l)
        hidden == IF l = 0 THEN HiddenInput ELSE LayerId("residual2_", l - 1)
        node(s, op, refs, leaves, attr) == LayerNode(s, l, op, refs, leaves, attr)
    IN  <<node("input_norm_", "RMSNorm", <<hidden>>, {"gamma"}, {}),
          [node("attn_", "DecodeStep", <<id("input_norm_"), PositionInput>>,
                {"w_q", "w_k", "w_v", "w_out", "q_norm", "k_norm", "k_cache", "v_cache"},
                {"separate", "qk_norm", "rope"})
             EXCEPT !.leaves = @ \cup {<<"table", "cos_tab">>, <<"table", "sin_tab">>}],
          node("residual1_", "Add", <<hidden, id("attn_")>>, {}, {})>>

(* Norm, the gated projections and the residual of layer l. *)
MlpHalf(l) ==
    LET id(s) == LayerId(s, l)
        node(s, op, refs, leaves, attr) == LayerNode(s, l, op, refs, leaves, attr)
    IN  <<node("post_attn_norm_", "RMSNorm", <<id("residual1_")>>, {"gamma"}, {}),
          node("gate_", "LinearProjection", <<id("post_attn_norm_")>>, {"w"}, {}),
          node("up_", "LinearProjection", <<id("post_attn_norm_")>>, {"w"}, {}),
          node("gate_silu_", "Silu", <<id("gate_")>>, {}, {}),
          node("mlp_hidden_", "Mul", <<id("gate_silu_"), id("up_")>>, {}, {}),
          node("mlp_out_", "LinearProjection", <<id("mlp_hidden_")>>, {"w"}, {}),
          node("residual2_", "Add", <<id("residual1_"), id("mlp_out_")>>, {}, {})>>

build_decode_step_sir(num_layers) ==
    FlattenSeq([l \in 1..num_layers |-> AttentionHalf(l - 1) \o MlpHalf(l - 1)])
    \o <<SirNode(SirId("final_norm"), "RMSNorm", <<LayerId("residual2_", num_layers - 1)>>,
                 {<<"final_norm", "gamma">>}, {}, "none"),
         SirNode(SirId("lm_head"), "LinearProjection", <<SirId("final_norm")>>, {<<"lm_head", "w">>},
                 {"lm_head"}, "none")>>

-----------------------------------------------------------------------------
(* The current graph, and the graph the source stands for. *)
Nodes == IF mir # <<>> THEN mir ELSE IF air # <<>> THEN air ELSE sir

(* Identities that went although an operation canonicalization does not rewire
   still reads them, and the indices of a sampler: the references the passes
   are known to leave behind.                                                *)
KnownDangling ==
    {r \in UNION {node_refs(src.nodes[i]) : i \in {j \in DOMAIN src.nodes : src.nodes[j].op \notin Rewired}} :
        r \in DOMAIN Substitution(src.nodes, src.inputs) /\ src.route = "full"}
    \cup {<<src.nodes[i].id[1], "", "topk_idx", 0>> : i \in {j \in DOMAIN src.nodes : src.nodes[j].op = "Sampler"}}

(* Whatever passes ran, every operand is defined by an earlier node: the nodes
   made in place of one node refer to each other, to what their operands
   became and to shared constants in an order that works.                    *)
DefinedBeforeUse ==
    \A i \in DOMAIN Nodes : Undefined(Nodes, i) \subseteq src.inputs \cup KnownDangling

(* No id is defined twice, although the ids are formatted from those of the
   source nodes and the shared constants are emitted by every layer; and a
   duplicate that is dropped would have computed the same: same operation on
   the same operands and data.                                               *)
UniqueIds ==
    /\ DefinedOnce(Nodes)
    /\ \A i \in DOMAIN all_air :
           LET kept == NodeOf(air, all_air[i].id)
           IN  kept.op = all_air[i].op /\ kept.refs = all_air[i].refs /\ kept.leaves = all_air[i].leaves

(* The graph stays in single-assignment form through all passes. *)
SingleAssignment == DefinedBeforeUse /\ UniqueIds

(* The data a value depends on, without the index tables, whose use is the
   rewrite's own affair, and without the biases, which are dropped.          *)
Meaning(leaves) ==
    {l \in leaves : l \notin {<<"table", "arange_tab">>, <<"table", "arange_fp16_tab">>} /\ l[2] # "bias"}

(* Decode steps that have no write mask ignore the token's key and value. *)
LosesToken(n) == n.op = "DecodeStep" /\ ~(UsesTables(n) /\ Len(n.refs) = 2)

(* The source without the rotations of attention blocks, an operand that
   verification and canonicalization count and the rewrite drops.            *)
WithoutRotations ==
    [i \in DOMAIN src.nodes |->
        LET n == src.nodes[i]
        IN  IF n.op = "AttentionBlock" /\ "rope_ref" \in n.attr THEN [n EXCEPT !.refs = Front(@)] ELSE n]

(* The outputs depend on the same weights, states and tables as in the source:
   no pass loses an operand, the rotation of an attention block excepted, or
   reads another node's. A decode step rewritten without a context has no heads
   to attend with.                                                           *)
OutputsKeepMeaning ==
    (/\ KnownDangling = {}
     /\ \A i \in DOMAIN src.nodes : src.nodes[i].op = "DecodeStep" => ~LosesToken(src.nodes[i]) /\ src.c.heads > 0)
    => \A i \in DOMAIN outputs :
           stage # "failed" =>
               LET meaning == Meaning(Upstream(Nodes, outputs[i]))
               IN  /\ meaning \subseteq Meaning(Upstream(src.nodes, src.outputs[i]))
                   /\ Meaning(Upstream(WithoutRotations, src.outputs[i])) \subseteq meaning

(* What a decode step with tables and a position writes back to each cache is
   computed from the cache and from the token's projection; the value cache
   never sees the key's, nor the other way round.                            *)
CachesAreUpdated ==
    \A i \in DOMAIN src.nodes :
        LET n == src.nodes[i]
            own(w) == <<n.id[1], w>>
            written(cache) == Upstream(Nodes, <<n.id[1], "", cache, 0>>)
        IN  n.op = "DecodeStep" /\ ~LosesToken(n) /\ air # <<>> /\ KnownDangling = {} =>
              /\ {own("w_k"), own("k_cache")} \subseteq written("k_cache_write")
              /\ {own("w_v"), own("v_cache")} \subseteq written("v_cache_write")
              /\ own("v_cache") \notin written("k_cache_write")
              /\ own("k_cache") \notin written("v_cache_write")

(* Nodes of one suffix. *)
Suffixed(nodes, s) == {i \in DOMAIN nodes : nodes[i].id[3] = s}

(* Every query head takes its logits and its context from the same key/value
   head, every key/value head serves equally many query heads, none is left
   out, and the heads are stacked in order.                                  *)
SharedHeads ==
    (src.c.kv > 0 /\ src.c.heads % src.c.kv = 0) =>
    \A i \in Suffixed(Nodes, "ctx"), j \in Suffixed(Nodes, "logits") :
        LET ctx == Nodes[i]
            logits == Nodes[j]
        IN  ctx.id[1] = logits.id[1] /\ ctx.id[2] = logits.id[2] /\ ctx.id[4] = logits.id[4] =>
              /\ ctx.refs[2][4] = logits.refs[2][4]
              /\ logits.refs[1][4] = logits.id[4]
              /\ ctx.refs[2][4] = logits.id[4] \div (src.c.heads \div src.c.kv)

(* The keys are transposed once on the way into the logits, by a transpose or
   by the product.                                                           *)
KeysTransposedOnce ==
    \A j \in Suffixed(mir, "logits") :
        mir[j].op = "MatMul" =>
            (mir[j].refs[2][3] = "k_head_t") # ("transpose_y" \in mir[j].attr)

(* Every query head is multiplied with the transposed keys, and then with the
   values, of the one key/value head it shares.                              *)
HeadsPaired == SharedHeads /\ KeysTransposedOnce

(* How the value of each node scales with the node at from: the degree of
   homogeneity, small added constants left aside, in halves. Nodes that do
   not depend on it have degree 0.                                           *)
Degree(nodes, from) ==
    LET degree(d, n) ==
            LET of(r) == IF r \in DOMAIN d THEN d[r] ELSE 0
                sum == of(n.refs[1]) + (IF Len(n.refs) > 1 THEN of(n.refs[2]) ELSE 0)
            IN  CASE n.refs = <<>> -> 0
                  [] n.op = "Mul" -> sum
                  [] n.op = "RealDiv" -> of(n.refs[1]) - of(n.refs[2])
                  [] n.op = "Rsqrt" -> -(of(n.refs[1]) \div 2)
                  [] OTHER -> of(n.refs[1])
        upto[i \in 0..Len(nodes)] ==
            IF i = 0 THEN (from :> 2)
            ELSE LET d == upto[i - 1] IN (nodes[i].id :> degree(d, nodes[i])) @@ d
    IN  upto[Len(nodes)]

(* The normalisations of a decode step's query and key, and a lowered layer
   normalisation, do not depend on the magnitude of what they normalise.     *)
NormsScaleFree ==
    /\ \A i \in Suffixed(Nodes, "flat") :
           LET x == NodeOf(Nodes, [Nodes[i].id EXCEPT ![3] = "reshape_4d"])
           IN  Degree(Tail(SubSeq(Nodes, CHOOSE j \in DOMAIN Nodes : Nodes[j] = x, i)), x.id)[Nodes[i].id] = 0
    /\ \A i \in DOMAIN src.nodes :
           src.nodes[i].op = "LayerNorm" /\ mir # <<>> =>
               LET abs == NodeOf(mir, Derived(src.nodes[i].id, "abs"))
                   at(id) == CHOOSE j \in DOMAIN mir : mir[j].id = id
               IN  Degree(SubSeq(mir, at(abs.id), at(src.nodes[i].id)), abs.refs[1])[src.nodes[i].id] = 0

(* The projection to the vocabulary sees one token, and an identity that hands
   out its result hands it out in fp32.                                      *)
LogitsOfLastToken ==
    \A i \in DOMAIN mir :
        "vocab" \in mir[i].attr =>
            LET source == NodeOf(src.nodes, mir[i].id)
                row == NodeOf(mir, mir[i].refs[1])
            IN  /\ "long" \in source.attr => row.op = "Reshape" /\ row.refs[1][3] = "last_token"
                /\ (\E j \in DOMAIN src.nodes : src.nodes[j].op = "Identity" /\ src.nodes[j].refs[1] = source.id)
                   /\ src.route = "trace"
                   => \E j \in DOMAIN mir : mir[j].op = "Identity" /\ mir[j].prec = "fp32"
                                            /\ mir[j].refs[1] = Derived(source.id, "fp32")

(* The rows that the projection to the vocabulary is given, cut out of its
   operand and named for it.                                                 *)
Rows == {"last_token", "2d"}

(* A dtype the policy recommends for an operation reaches every MIR node that
   computes it, through the two rewrites in between. What is cut out of its
   result for the projection to the vocabulary is the projection's.          *)
PrecisionReachesMir ==
    stage = "lowered" =>
        \A i \in DOMAIN mir, j \in DOMAIN sir :
            /\ mir[i].id[1] = sir[j].id[1] /\ mir[i].id[3] \notin Rows /\ src.route = "full"
            /\ sir[j].op \in src.k.hazards /\ sir[j].op # "Const"
            => mir[i].prec = "fp32"

(* The plan's shards are those its nodes are assigned to: a node's shard has
   the name of its role, a role known to fall back avoids the neural engine,
   and the shard that keeps a cache is the one of the nodes that use it.     *)
PlanMatchesGraph ==
    plan # <<>> =>
        LET p == plan[1]
        IN  /\ \A i \in DOMAIN sir : p.shard_names[p.layer_assignment[i] + 1] = RoleOf(sir[i])
            /\ Len(p.compute_units) = Len(p.shard_names)
            /\ \A r \in src.k.risky : \A s \in DOMAIN p.shard_names :
                   (p.shard_names[s] = r) => p.compute_units[s] = "CPU_AND_GPU"
            /\ p.num_shards >= Len(p.shard_names)
            /\ \A i \in DOMAIN sir, h \in DOMAIN p.handoffs :
                   (p.handoffs[h][3] \cap sir[i].leaves # {} /\ "kv_cache" \in sir[i].attr)
                   => p.shard_names[p.layer_assignment[i] + 1] = p.handoffs[h][1]

(* What is decided about the source's operations, their precision and where
   they run, holds of the nodes that are made from them.                     *)
DecisionsReachGraph == PrecisionReachesMir /\ PlanMatchesGraph
=============================================================================
