------------------------------ MODULE SirPasses ------------------------------
(* The passes from SIR to SIR and the shard plan made from the SIR graph:
   CanonicalizePass, the static tables pass, PrecisionPolicyPass and
   ShardPlanPass of the passes crate.

   The graphs the compiler's passes rewrite (SirGraph, AirGraph and MirGraph
   of the ir crate have one form): a sequence of nodes, each with an id, an
   operation, the ids it reads, and what else its value depends on.

   An id is <<base, stem, suffix, index>>. The passes build ids by string
   formatting from the id of the node they rewrite: format!("{base}_q_head_{i}")
   is <<base, "", "q_head", i>>, format!("{base}_q_norm_mean") is
   <<base, "q_norm", "mean", 0>>, and the id of a source node is
   <<base, "", "", 0>>. "shared" is the base of the ids that all layers of a
   function share.                                                           *)
EXTENDS Integers, Sequences, FiniteSets, SequencesExt, FiniteSetsExt, TLC

SirId(base) == <<base, "", "", 0>>

(* The input of the Identity that stands for a graph input. *)
Placeholder == SirId("__placeholder__")

(* A node. leaves: the weights, states and tables it names; attr: the
   attributes the passes look at; name and prec: SirNode.name and
   SirMetadata.precision_override, which all nodes made from it inherit.     *)
SirNode(id, op, refs, leaves, attr, prec) ==
    [id |-> id, op |-> op, refs |-> refs, leaves |-> leaves, attr |-> attr,
     name |-> id[1], prec |-> prec]

Ids(nodes) == {nodes[i].id : i \in DOMAIN nodes}

(* The ids a node reads. *)
node_refs(n) == {n.refs[k] : k \in DOMAIN n.refs}

AllRefs(nodes) == UNION {node_refs(nodes[i]) : i \in DOMAIN nodes}

HasOp(nodes, op) == \E i \in DOMAIN nodes : nodes[i].op = op

NodeOf(nodes, id) == nodes[CHOOSE i \in DOMAIN nodes : nodes[i].id = id]

(* The leaves the value of id is computed from, in one pass from the last
   node to the first: those of every node somebody needs. The pass goes block
   by block, which only keeps the recursion shallow.                         *)
Upstream(nodes, id) ==
    LET block == 20
        pass(later, first, last) ==
            LET needed[i \in first..(last + 1)] ==
                    IF i > last THEN later
                    ELSE LET after == needed[i + 1]
                         IN  IF nodes[i].id \in after THEN after \cup node_refs(nodes[i]) ELSE after
            IN  needed[first]
        before[b \in 0..(Len(nodes) \div block + 1)] ==
            IF b > Len(nodes) \div block THEN {id}
            ELSE LET later == before[b + 1]
                 IN  IF later = {} THEN {} ELSE pass(later, b * block + 1, Min({Len(nodes), (b + 1) * block}))
        ids == before[0]
    IN  UNION {nodes[i].leaves : i \in {j \in DOMAIN nodes : nodes[j].id \in ids}}

(* References to ids no node defines, or defined only later. *)
Undefined(nodes, i) ==
    node_refs(nodes[i]) \ ({Placeholder} \cup {nodes[j].id : j \in 1..(i - 1)})

(* verify() of the graphs: an id is defined once. *)
DefinedOnce(nodes) == Cardinality(Ids(nodes)) = Len(nodes)

-----------------------------------------------------------------------------
(* CanonicalizePass: pass-through identities are removed. *)

(* The identities eliminate_identities removes, with their inputs. *)
Substitution(nodes, inputs) ==
    LET removed == {i \in DOMAIN nodes : /\ nodes[i].op = "Identity"
                                         /\ nodes[i].refs[1] # Placeholder
                                         /\ nodes[i].id \notin inputs}
    IN  [id \in {nodes[i].id : i \in removed} |-> NodeOf(nodes, id).refs[1]]

(* The id a chain of substitutions ends in; MaxChain steps are followed, and
   a longer chain is an error (a cycle, or a chain that is merely long).     *)
resolve_subst_chain(subst, MaxChain) ==
    LET follow(id, k) == FoldLeft(LAMBDA t, j : IF t \in DOMAIN subst THEN subst[t] ELSE t,
                                  id, [j \in 1..k |-> j])
    IN  [id \in DOMAIN subst |-> follow(subst[id], MaxChain)]

ChainError(subst, MaxChain) ==
    LET end == resolve_subst_chain(subst, MaxChain)
    IN  \E id \in DOMAIN end : end[id] \in DOMAIN subst

(* The operations whose operands rewrite_op_refs rewires. Every other one is
   cloned as it is (the arms with op.clone()).                               *)
Rewired ==
    {"Identity", "LinearProjection", "RMSNorm", "RoPETransform",
     "ScaledDotProductAttention", "AttentionBlock", "Add", "Mul", "MatMul", "RealDiv",
     "Gather", "Reshape", "Transpose", "Tile", "ReduceMean", "ReduceSum", "Rsqrt",
     "Sqrt", "Softmax", "Silu", "Relu", "Gelu", "Sigmoid", "Tanh", "Exp", "Log", "Cos",
     "Sin", "Abs", "Neg", "Topk", "SliceByIndex", "ExpandDims", "Squeeze", "Concat",
     "Pad", "Where", "Fill", "FillLike", "Sampler", "StateRead", "StateWrite"}

resolve_id(id, subst) == IF id \in DOMAIN subst THEN subst[id] ELSE id

(* A mutant that rewires the first operand only. *)
rewrites_first_only(n, subst) ==
    IF n.op \in Rewired /\ n.refs # <<>>
    THEN [n EXCEPT !.refs[1] = resolve_id(n.refs[1], subst)]
    ELSE n

rewrite_op_refs(n, subst) ==
    IF n.op \in Rewired
    THEN [n EXCEPT !.refs = [k \in DOMAIN n.refs |-> resolve_id(n.refs[k], subst)]]
    ELSE n

eliminate_identities(nodes, subst) ==
    FlattenSeq([i \in DOMAIN nodes |->
        IF nodes[i].id \in DOMAIN subst THEN <<>> ELSE <<rewrite_op_refs(nodes[i], subst)>>])

-----------------------------------------------------------------------------
(* The static tables pass: constants for the tables of the rotary embedding,
   one set per tables reference, in front of the other nodes.                *)
UsesTables(n) == "rope" \in n.attr

StaticTab(t) == <<"static", "", t, 0>>

run_static_tables_pass(nodes) ==
    LET users == {i \in DOMAIN nodes : UsesTables(nodes[i])}
        tables == <<"sin_tab", "cos_tab", "arange_tab", "arange_fp16_tab">>
    IN  IF users = {} THEN nodes
        ELSE [k \in 1..4 |-> [SirNode(StaticTab(tables[k]), "Const", <<>>, {<<"table", tables[k]>>}, {},
                                      nodes[Min(users)].prec) EXCEPT !.name = tables[k]]] \o nodes

-----------------------------------------------------------------------------
(* What the knowledge store is asked about: each kind of operation has a name
   of its own there, which stands for nothing else.                          *)
op_pattern_for_node(n) == n.op

(* PrecisionPolicyPass: operations with a known precision hazard of enough
   confidence get the recommended dtype as their override.                   *)
precision_policy(nodes, hazards) ==
    [i \in DOMAIN nodes |-> IF op_pattern_for_node(nodes[i]) \in hazards
                            THEN [nodes[i] EXCEPT !.prec = "fp32"] ELSE nodes[i]]

-----------------------------------------------------------------------------
(* ShardPlanPass: lookups form an IO shard, samplers a sampler shard, and the
   rest is one decoder shard between them.                                   *)
RoleOf(n) == CASE n.op \in {"Gather", "GatherAlongAxis", "GatherNd"} -> "io_model"
               [] n.op = "Sampler" -> "sampler"
               [] OTHER -> "decoder_interior"

(* determine_compute_units: CPU_AND_NE unless the store knows a high
   fallback risk for the pattern of the shard.                               *)
determine_compute_units(role, risky) ==
    IF role \in risky THEN "CPU_AND_GPU" ELSE "CPU_AND_NE"

(* The caches that nodes of the graph read or write, each once. *)
kv_cache_state_ids(nodes) ==
    UNION {nodes[i].leaves : i \in {j \in DOMAIN nodes : nodes[j].op \in {"StateRead", "StateWrite"}
                                                         /\ "kv_cache" \in nodes[j].attr}}

(* Each shard hands its tensor to the next, and the decoder every cache to
   itself for the next step.                                                 *)
shard_handoffs(names, states) ==
    [k \in 1..(Len(names) - 1) |-> <<names[k], names[k + 1], {}>>]
    \o [k \in 1..Cardinality(states) |-> <<"decoder_interior", "decoder_interior", {SetToSeq(states)[k]}>>]

HasRole(nodes, role) == \E i \in DOMAIN nodes : RoleOf(nodes[i]) = role

decoder_shard_start(nodes) == IF HasRole(nodes, "io_model") THEN 1 ELSE 0

layer_assignment(nodes) ==
    [i \in DOMAIN nodes |-> CASE RoleOf(nodes[i]) = "io_model" -> 0
                              [] RoleOf(nodes[i]) = "sampler" -> decoder_shard_start(nodes) + 1
                              [] OTHER -> decoder_shard_start(nodes)]

(* The shards in order, their number as the plan states it, the units of
   each, the shard of each node, the declared states and the handoffs.       *)
shard_plan(nodes, risky) ==
    LET names == (IF HasRole(nodes, "io_model") THEN <<"io_model">> ELSE <<>>)
                 \o <<"decoder_interior">>
                 \o (IF HasRole(nodes, "sampler") THEN <<"sampler">> ELSE <<>>)
    IN  [num_shards |-> IF HasRole(nodes, "io_model") \/ HasRole(nodes, "sampler")
                        THEN decoder_shard_start(nodes) + 2 ELSE 1,
         shard_names |-> names,
         compute_units |-> [k \in DOMAIN names |-> determine_compute_units(names[k], risky)],
         layer_assignment |-> layer_assignment(nodes),
         state_declarations |-> kv_cache_state_ids(nodes),
         handoffs |-> shard_handoffs(names, kv_cache_state_ids(nodes))]
=============================================================================
