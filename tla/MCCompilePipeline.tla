------------------------- MODULE MCCompilePipeline -------------------------
(* Small sources for CompilePipeline: an input, two operations of every kind
   with up to three identities between them, and an output identity, as the
   tracer and the task families build them; and the decode graph of one or
   two layers. Once the smallest decode graph is lowered, it is called.      *)
EXTENDS CompilePipeline, MCDecodeLoop

Kind(op, arity, leaves, attr) == [op |-> op, arity |-> arity, leaves |-> leaves, attr |-> attr]

(* What the tracer's SIR builder makes, and what only task families make. *)
TracedKinds ==
    {Kind("Silu", 1, {}, {}), Kind("Cast", 1, {}, {}), Kind("RMSNorm", 1, {"gamma"}, {}),
     Kind("RMSNorm", 1, {"gamma"}, {"axes3"}), Kind("LayerNorm", 1, {"gamma", "beta"}, {}),
     Kind("LinearProjection", 1, {"w", "bias"}, {}), Kind("LinearProjection", 1, {"w"}, {"lm_head", "long"}),
     Kind("LinearProjection", 1, {"w"}, {"lm_head"}), Kind("RoPETransform", 1, {}, {"rope"}),
     Kind("ScaledDotProductAttention", 3, {}, {"4d"}), Kind("MatMul", 2, {}, {}),
     Kind("Transpose", 1, {}, {"perm0213"}), Kind("Gather", 2, {"table"}, {}), Kind("StateWrite", 1, {"kv_cache"}, {"kv_cache"})}

TaskKinds ==
    {Kind("Select", 3, {}, {}), Kind("Where", 3, {}, {}), Kind("Tile", 1, {}, {"reps"}), Kind("Tile", 1, {}, {}),
     Kind("AttentionBlock", 3, {"w_out"}, {}), Kind("AttentionBlock", 4, {"w_out"}, {"mask"}),
     Kind("AttentionBlock", 4, {"w_out"}, {"rope_ref"}), Kind("AttentionBlock", 5, {"w_out"}, {"mask", "rope_ref"}),
     Kind("Sampler", 1, {}, {}),
     Kind("DecodeStep", 2, {"w_q", "w_k", "w_v", "w_out", "q_norm", "k_norm", "k_cache", "v_cache"},
          {"separate", "qk_norm", "rope"}),
     Kind("DecodeStep", 1, {"w_q", "w_k", "w_v", "w_out", "k_cache", "v_cache", "mask_ref"}, {"mask_ref"})}

(* A node of a kind: its first operand is from, the others other; but the
   rotation of an attention block, its last operand, is from and the first
   other.                                                                    *)
NodeOfKind(base, kind, from, other) ==
    LET main == IF "rope_ref" \in kind.attr THEN kind.arity ELSE 1
        tables == IF "rope" \in kind.attr THEN {<<"table", "cos_tab">>, <<"table", "sin_tab">>} ELSE {}
    IN  SirNode(SirId(base), kind.op, [i \in 1..kind.arity |-> IF i = main THEN from ELSE other],
                {<<base, w>> : w \in kind.leaves} \cup tables, kind.attr, "none")

Wire(base, from) == SirNode(SirId(base), "Identity", <<SirId(from)>>, {}, {}, "none")

Chain(via) == SubSeq(<<Wire("i1", "n1"), Wire("i2", "i1"), Wire("i3", "i2")>>, 1, via)

Graph(k1, k2, via) ==
    <<SirNode(SirId("x"), "Identity", <<Placeholder>>, {<<"x", "input">>}, {"int_input"}, "none"),
      NodeOfKind("n1", k1, SirId("x"), SirId("x"))>>
    \o Chain(via)
    \o <<NodeOfKind("n2", k2, SirId(<<"n1", "i1", "i2", "i3">>[via + 1]), SirId(IF via = 0 THEN "x" ELSE "i1")),
         Wire("out", "n2")>>

Ctx(heads, kv) == [heads |-> heads, kv |-> kv]

(* The head counts that matter to a kind: none given, grouped, equal, one key/
   value head more, and a number of heads the key/value heads do not divide. *)
Contexts(k1, k2) ==
    IF {k1.op, k2.op} \cap {"AttentionBlock", "DecodeStep", "ScaledDotProductAttention"} # {}
    THEN {Ctx(0, 0), Ctx(4, 2), Ctx(3, 2), Ctx(1, 2)} ELSE {Ctx(0, 0), Ctx(2, 1)}

Evidence(placement, legality, survival) ==
    [plan |-> placement, legality |-> legality, risk |-> query_risk(legality, survival)]

NoStore == [store |-> FALSE, known |-> NoEvidence, hazards |-> {}, risky |-> {}]

Stores ==
    {[store |-> TRUE, known |-> Evidence("none", "proven", "none"), risky |-> {"io_model"},
      hazards |-> {"LinearProjection", "AttentionBlock", "LayerNorm", "Tile"}],
     [store |-> TRUE, known |-> Evidence("not_ane", "strong", "high"), risky |-> {"decoder_interior"}, hazards |-> {"LayerNorm", "Gather"}],
     [store |-> TRUE, known |-> NoEvidence, risky |-> {}, hazards |-> {}]}

Compiled(route, nodes, c, k) ==
    [route |-> route, nodes |-> nodes, c |-> c, k |-> k,
     inputs |-> IF route = "decode" THEN {HiddenInput, PositionInput} ELSE {SirId("x")},
     outputs |-> IF route = "decode" THEN <<SirId("lm_head")>> ELSE <<SirId("out")>>]

(* Few first operations when identities follow. *)
FirstKinds(kinds, via) == IF via = 0 THEN kinds ELSE {k \in kinds : k.op \in {"Silu", "DecodeStep"}}

Graphs(route, kinds, stores) ==
    UNION {{Compiled(route, Graph(k1, k2, via), c, k) : c \in Contexts(k1, k2), k \in stores} :
               <<k1, k2, via>> \in {t \in kinds \X kinds \X {0, 1, 3} : t[1] \in FirstKinds(kinds, t[3])}}

MCSources ==
    Graphs("trace", TracedKinds, {NoStore})
    \cup Graphs("full", TracedKinds \cup TaskKinds, {NoStore})
    \cup Graphs("full", {k \in TracedKinds \cup TaskKinds : k.op \in {"LinearProjection", "LayerNorm", "Gather", "Tile", "AttentionBlock", "Sampler", "StateWrite"}}, Stores)
    \cup {Compiled("decode", build_decode_step_sir(layers), c, NoStore) : layers \in 1..2, c \in {Ctx(2, 1), Ctx(4, 2), Ctx(3, 2)}}

-----------------------------------------------------------------------------
(* The decode function that is called. *)
Called == Compiled("decode", build_decode_step_sir(1), Ctx(2, 1), NoStore)

MCInit == Init /\ LoopInit

MCNext ==
    \/ Next /\ UNCHANGED loop
    \/ src = Called /\ stage = "lowered" /\ LoopNext /\ UNCHANGED vars

MCSpec == MCInit /\ [][MCNext]_<<vars, loop>>
=============================================================================
