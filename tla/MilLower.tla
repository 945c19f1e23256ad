------------------------------ MODULE MilLower ------------------------------
(* MilLowerPass of the passes crate: AIR to MIR. Every AIR node becomes one
   MIR node of the same id; then a series of rewrites works on the whole list.
   Of the shapes the pass infers, the rewrites look at the rank and the length
   of the projected hidden state ("rank3", "long") and at the heads of a fused
   attention ("4d": q and k have the heads of the context).                  *)
EXTENDS LegalityRewrite

(* The id {id}_{s} of a node made from one with a final id. *)
Derived(id, s) == <<id[1], id[3], s, id[4]>>

(* The main loop: the dtype is the override, or the hint of an input, or fp16;
   a projection is a linear operation, without a bias.                       *)
lower_node(n) ==
    [n EXCEPT !.op = IF @ = "Conv1x1AsLinear" THEN "MILLinear" ELSE @,
              !.prec = IF @ # "none" THEN @
                       ELSE IF n.op = "Identity" /\ "int_input" \in n.attr THEN "int32" ELSE "fp16"]

HeadId(n, s, i) == <<n.id[1], n.id[3], s, i>>

HeadOp(n, s, i, op, refs) ==
    [n EXCEPT !.id = HeadId(n, s, i), !.op = op, !.refs = refs, !.leaves = {}, !.attr = {}]

(* Query head i is cut out of the queries; the key/value head it shares with
   its group is cut out once, by the first query head of the group.          *)
head_slices(n, i, fanout) ==
    <<HeadOp(n, "q_head", i, "SliceByIndex", <<n.refs[1]>>)>>
    \o (IF i % fanout = 0
        THEN <<HeadOp(n, "k_head", i \div fanout, "SliceByIndex", <<n.refs[2]>>),
               HeadOp(n, "v_head", i \div fanout, "SliceByIndex", <<n.refs[3]>>)>>
        ELSE <<>>)

(* The attention of one head: scores, scale, the mask if there is one, softmax
   and the weighted sum of the values.                                       *)
head_attention(n, i, j) ==
    LET mask == SubSeq(n.refs, 4, Len(n.refs))
        h(s) == HeadId(n, s, i)
    IN  <<[HeadOp(n, "logits", i, "MatMul", <<h("q_head"), HeadId(n, "k_head", j)>>) EXCEPT !.attr = {"transpose_y"}],
          HeadOp(n, "scale", i, "Const", <<>>), HeadOp(n, "scaled", i, "Mul", <<h("logits"), h("scale")>>)>>
        \o (IF mask # <<>> THEN <<HeadOp(n, "masked", i, "Add", <<h("scaled")>> \o mask)>> ELSE <<>>)
        \o <<HeadOp(n, "weights", i, "Softmax", <<h(IF mask # <<>> THEN "masked" ELSE "scaled")>>),
             HeadOp(n, "ctx", i, "MatMul", <<h("weights"), HeadId(n, "v_head", j)>>)>>

(* A fused attention whose heads are known is split by head; a key/value head
   is sliced at the first query head of its group.                           *)
decompose_sdpa(n, hq, hk) ==
    LET fanout == hq \div hk
        head(i) == head_slices(n, i, fanout) \o head_attention(n, i, i \div fanout)
    IN  FlattenSeq([i \in 1..hq |-> head(i - 1)])
        \o <<HeadOp(n, "ctx_stack", 0, "Stack", [i \in 1..hq |-> HeadId(n, "ctx", i - 1)]),
             HeadOp(n, "ctx_reshape", 0, "Reshape", <<HeadId(n, "ctx_stack", 0)>>),
             [n EXCEPT !.op = "Identity", !.refs = <<HeadId(n, "ctx_reshape", 0)>>, !.leaves = {}, !.attr = {}]>>

SplitsSdpa(n, c) == n.op = "ScaledDotProductAttention" /\ "4d" \in n.attr /\ c.heads > 0 /\ c.kv > 0

(* More key/value heads than query heads: a division by zero. *)
SdpaPanics(nodes, c) == \E i \in DOMAIN nodes : SplitsSdpa(nodes[i], c) /\ c.heads < c.kv

(* Replace the nodes that Hit by what Make makes of them, in place. *)
ReplaceEach(nodes, Hit(_), Make(_)) ==
    IF \A i \in DOMAIN nodes : ~Hit(nodes[i]) THEN nodes
    ELSE FlattenSeq([i \in DOMAIN nodes |-> IF Hit(nodes[i]) THEN Make(nodes[i]) ELSE <<nodes[i]>>])

-----------------------------------------------------------------------------
(* The projection to the vocabulary: the first linear operation whose weight
   is named for lm_head (attr "lm_head").                                    *)
IsLmHead(n) == n.op = "MILLinear" /\ "lm_head" \in n.attr

FirstIndex(nodes, P(_)) == CHOOSE i \in DOMAIN nodes : P(nodes[i]) /\ \A j \in 1..(i - 1) : ~P(nodes[j])

(* A mutant that leaves the projection reading the whole sequence. *)
slices_aside(nodes) ==
    IF ~\E i \in DOMAIN nodes : IsLmHead(nodes[i]) /\ "long" \in nodes[i].attr THEN nodes
    ELSE LET k == FirstIndex(nodes, IsLmHead)
             n == nodes[k]
         IN  SubSeq(nodes, 1, k - 1)
             \o <<[n EXCEPT !.id = Derived(n.refs[1], "last_token"), !.op = "SliceByIndex", !.leaves = {}, !.attr = {}]>>
             \o SubSeq(nodes, k, Len(nodes))

(* A hidden state of several tokens is cut to the last before the projection. *)
lm_head_pre_slice(nodes) ==
    IF ~\E i \in DOMAIN nodes : IsLmHead(nodes[i]) THEN nodes
    ELSE LET k == FirstIndex(nodes, IsLmHead)
             n == nodes[k]
             slice == Derived(n.refs[1], "last_token")
         IN  IF "long" \notin n.attr THEN nodes
             ELSE SubSeq(nodes, 1, k - 1)
                  \o <<[n EXCEPT !.id = slice, !.op = "SliceByIndex", !.leaves = {}, !.attr = {}],
                       [n EXCEPT !.refs = <<slice>>]>>
                  \o SubSeq(nodes, k + 1, Len(nodes))

(* The projection becomes a matrix product of a row, and a cast to fp32
   follows it.                                                               *)
lm_head_matmul(nodes) ==
    LET k == FirstIndex(nodes, IsLmHead)
        n == nodes[k]
        flat == "rank3" \in n.attr \/ "long" \in n.attr
        row == Derived(n.refs[1], "2d")
    IN  SubSeq(nodes, 1, k - 1)
        \o (IF flat THEN <<[n EXCEPT !.id = row, !.op = "Reshape", !.leaves = {}, !.attr = {}]>> ELSE <<>>)
        \o <<[n EXCEPT !.op = "MatMul", !.attr = {"transpose_y", "vocab"}, !.refs = IF flat THEN <<row>> ELSE @],
             [n EXCEPT !.id = Derived(n.id, "fp32"), !.op = "Cast", !.refs = <<n.id>>,
                       !.leaves = {}, !.attr = {}, !.prec = "fp32"]>>
        \o SubSeq(nodes, k + 1, Len(nodes))

(* The first identity that reads the product reads the cast instead. *)
reads_the_cast(nodes, product) ==
    LET reads(m) == m.op = "Identity" /\ m.refs[1] = product
    IN  IF ~\E i \in DOMAIN nodes : reads(nodes[i]) THEN nodes
        ELSE [nodes EXCEPT ![FirstIndex(nodes, reads)] =
                  [@ EXCEPT !.refs = <<Derived(product, "fp32")>>, !.prec = "fp32"]]

lm_head_in_fp32(nodes) ==
    IF ~\E i \in DOMAIN nodes : IsLmHead(nodes[i]) THEN nodes
    ELSE reads_the_cast(lm_head_matmul(nodes), nodes[FirstIndex(nodes, IsLmHead)].id)

-----------------------------------------------------------------------------
(* Linear operations become convolutions. *)
linear_to_conv(nodes) ==
    [i \in DOMAIN nodes |-> IF nodes[i].op = "MILLinear" THEN [nodes[i] EXCEPT !.op = "MILConv"] ELSE nodes[i]]

NormOp(n, s, op, refs) ==
    [n EXCEPT !.id = Derived(n.id, s), !.op = op, !.refs = refs, !.leaves = {}, !.attr = {}]

(* The input divided by the clipped maximum of its absolute values. *)
scaled_by_maximum(n) ==
    LET y(s) == Derived(n.id, s)
    IN  <<NormOp(n, "abs", "Abs", n.refs), NormOp(n, "rmax", "ReduceMax", <<y("abs")>>),
          NormOp(n, "clip", "Clip", <<y("rmax")>>), NormOp(n, "norm", "RealDiv", n.refs \o <<y("clip")>>)>>

(* That, divided by its own root mean square. *)
by_root_mean_square(n) ==
    LET y(s) == Derived(n.id, s)
    IN  <<NormOp(n, "sq", "Mul", <<y("norm"), y("norm")>>), NormOp(n, "mean", "ReduceMean", <<y("sq")>>),
          NormOp(n, "eps", "Const", <<>>), NormOp(n, "add_eps", "Add", <<y("mean"), y("eps")>>),
          NormOp(n, "rsqrt", "Rsqrt", <<y("add_eps")>>), NormOp(n, "normed", "Mul", <<y("norm"), y("rsqrt")>>)>>

(* A layer normalisation is replaced by the primitives of a root mean square
   one, scaled by gamma and shifted by beta: the mean is not subtracted.     *)
decompose_layer_norm(n) ==
    LET y(s) == Derived(n.id, s)
        leaf(s) == [NormOp(n, s, "Const", <<>>) EXCEPT !.leaves = {<<n.id[1], s>>}]
        beta == <<n.id[1], "beta">> \in n.leaves
    IN  scaled_by_maximum(n) \o by_root_mean_square(n)
        \o <<leaf("gamma"), NormOp(n, "result", "Mul", <<y("normed"), y("gamma")>>)>>
        \o (IF beta THEN <<leaf("beta"), NormOp(n, "biased", "Add", <<y("result"), y("beta")>>)>> ELSE <<>>)
        \o <<[n EXCEPT !.op = "Identity", !.refs = <<y(IF beta THEN "biased" ELSE "result")>>, !.leaves = {}, !.attr = {}]>>

(* A product with a transpose of axes 1 and 2 reads the transpose's input and
   transposes its last two axes instead. transpose_to_fold keeps one product
   per transpose, by name, the last; products of that name are folded. The
   transposes to remove are looked up under the wrong ids, so none is.       *)
fold_transposes(nodes) ==
    LET swaps == {i \in DOMAIN nodes : nodes[i].op = "Transpose" /\ "perm0213" \in nodes[i].attr}
        multiplies(i, t) == /\ nodes[i].op = "MatMul" /\ "transpose_y" \notin nodes[i].attr
                            /\ Len(nodes[i].refs) = 2 /\ nodes[i].refs[2] = nodes[t].id
        last_name(t) == nodes[CHOOSE i \in DOMAIN nodes :
                                  multiplies(i, t) /\ \A j \in DOMAIN nodes : multiplies(j, t) => j <= i].name
        folds(i, t) == multiplies(i, t) /\ nodes[i].name = last_name(t)
    IN  [i \in DOMAIN nodes |->
            IF \E t \in swaps : folds(i, t)
            THEN LET t == CHOOSE t \in swaps : folds(i, t)
                 IN  [nodes[i] EXCEPT !.refs[2] = nodes[t].refs[1], !.attr = @ \cup {"transpose_y"}]
            ELSE nodes[i]]

(* Products of a source node named for logits transpose their right operand. *)
logits_transpose_y(nodes) ==
    [i \in DOMAIN nodes |-> IF nodes[i].op = "MatMul" /\ nodes[i].name = "logits_name"
                            THEN [nodes[i] EXCEPT !.attr = @ \cup {"transpose_y"}] ELSE nodes[i]]

(* The hard block on operations the legality rewrite must have removed. *)
LoweringPanics(nodes) == HasOp(nodes, "Where") \/ HasOp(nodes, "Select")

MilLowerRun(nodes, c) ==
    LET lowered == [i \in DOMAIN nodes |-> lower_node(nodes[i])]
        split == ReplaceEach(lowered, LAMBDA n : SplitsSdpa(n, c), LAMBDA n : decompose_sdpa(n, c.heads, c.kv))
        vocab == linear_to_conv(lm_head_in_fp32(lm_head_pre_slice(split)))
        primitive == ReplaceEach(vocab, LAMBDA n : n.op = "LayerNorm", decompose_layer_norm)
    IN  logits_transpose_y(fold_transposes(primitive))
=============================================================================
