-------------------------- MODULE LegalityRewrite --------------------------
(* AneLegalityRewritePass and RiskAnnotatePass of the passes crate. The
   rewrite replaces every SIR node by the AIR nodes that compute it, ids in
   place of values; shapes, axes and slice bounds are left out.

   A context c stands for DecompositionContext: the number of query heads and
   of key/value heads, 0 heads when there is no context.                     *)
EXTENDS SirPasses

(* A mutant that forgets the precision override. *)
air_node_without_override(n, id, op, refs, leaves) ==
    [id |-> id, op |-> op, refs |-> refs, leaves |-> leaves, attr |-> {}, name |-> n.name, prec |-> "none"]

(* make_air_node: a node made from SIR node n. *)
make_air_node(n, id, op, refs, leaves) ==
    [id |-> id, op |-> op, refs |-> refs, leaves |-> leaves, attr |-> {}, name |-> n.name, prec |-> n.prec]

(* One named for n by a suffix, with a stem before it, and one per head. *)
Own(n, suffix, op, refs, leaves) == make_air_node(n, <<n.id[1], "", suffix, 0>>, op, refs, leaves)

Part(n, stem, suffix, op, refs, leaves) == make_air_node(n, <<n.id[1], stem, suffix, 0>>, op, refs, leaves)

PerHead(n, suffix, i, op, refs, leaves) == make_air_node(n, <<n.id[1], "", suffix, i>>, op, refs, leaves)

(* A constant all layers share; it still inherits n's name and precision. *)
Shared(n, suffix, leaves) == make_air_node(n, <<"shared", "", suffix, 0>>, "Const", <<>>, leaves)

SharedId(suffix) == <<"shared", "", suffix, 0>>

-----------------------------------------------------------------------------
(* What the command knows of the attention it compiles: the numbers of query
   and of key/value heads, 0 when they are not given.                        *)
DecompositionContext == [heads : Nat, kv : Nat]

(* A mutant that gives the first key/value heads one query head too many. *)
fan_out_rounded_up(heads, kv) == IF kv > 0 /\ kv < heads THEN (heads \div kv) + 1 ELSE 1

(* fan_out of the two attention decompositions: how many query heads share a
   key/value head. Division is the integers'.                                *)
fan_out(heads, kv) == IF kv > 0 /\ kv < heads THEN heads \div kv ELSE 1

(* Indexing the sliced key/value heads with head / fan_out panics when the
   query heads are not a multiple of the key/value heads.                    *)
IndexPanics(heads, kv) == heads > 0 /\ (heads - 1) \div fan_out(heads, kv) >= kv

(* The key/value heads, sliced once each, the keys transposed. *)
kv_head_slices(n, k, v, kv) ==
    LET per_kv(s, op, ref(_)) == [i \in 1..kv |-> PerHead(n, s, i - 1, op, <<ref(i - 1)>>, {})]
    IN  per_kv("k_head", "SliceByIndex", LAMBDA i : k) \o per_kv("v_head", "SliceByIndex", LAMBDA i : v)
        \o per_kv("k_head_t", "Transpose", LAMBDA i : <<n.id[1], "", "k_head", i>>)

(* Query head i with key/value head j: logits, weights and context. The mask
   is a node, reshaped for the head when it is a row, or one that the weights
   file names (leaves).                                                      *)
attend_head(n, q, mask, is_row, leaves, i, j) ==
    LET h(s, k) == <<n.id[1], "", s, k>>
        masked == mask # <<>> \/ leaves # {}
        row == IF is_row THEN <<h("mask_4d", i)>> ELSE mask
    IN  <<PerHead(n, "q_head", i, "SliceByIndex", <<q>>, {}),
          PerHead(n, "logits", i, "MatMul", <<h("q_head", i), h("k_head_t", j)>>, {}),
          PerHead(n, "scaled_logits", i, "Mul", <<h("logits", i), SharedId("attn_scale")>>, {})>>
        \o (IF is_row THEN <<PerHead(n, "mask_4d", i, "Reshape", mask, {})>> ELSE <<>>)
        \o (IF masked
            THEN <<PerHead(n, "masked_logits", i, "Add", <<h("scaled_logits", i)>> \o row, leaves)>>
            ELSE <<>>)
        \o <<PerHead(n, "weights", i, "Softmax",
                     <<h(IF masked THEN "masked_logits" ELSE "scaled_logits", i)>>, {}),
             PerHead(n, "ctx", i, "MatMul", <<h("weights", i), h("v_head", j)>>, {})>>

(* Every query head in turn, with the key/value head of its group. *)
attend_heads(n, q, mask, is_row, leaves, heads, kv) ==
    FlattenSeq([i \in 1..heads |->
        attend_head(n, q, mask, is_row, leaves, i - 1, (i - 1) \div fan_out(heads, kv))])

(* The contexts of the heads, stacked and flattened. *)
stack_heads(n, heads) ==
    <<Own(n, "ctx_stack", "Stack", [i \in 1..heads |-> <<n.id[1], "", "ctx", i - 1>>], {}),
      Own(n, "attn_flat", "Reshape", <<<<n.id[1], "", "ctx_stack", 0>>>>, {})>>

per_head_attention(n, q, k, v, mask, is_row, leaves, heads, kv) ==
    <<Shared(n, "attn_scale", {})>> \o kv_head_slices(n, k, v, kv)
    \o attend_heads(n, q, mask, is_row, leaves, heads, kv) \o stack_heads(n, heads)

(* Without the number of heads the fused operation is kept. *)
fused_attention(n, q, k, v, mask) ==
    <<Own(n, "attn", "ScaledDotProductAttention", <<q, k, v>> \o mask, {}),
      Own(n, "attn_flat", "Reshape", <<<<n.id[1], "", "attn", 0>>>>, {})>>

(* decompose_attention_block: refs are q, k, v and, when there are, the mask and
   the rotation (attr). The rotation is not passed on.                       *)
decompose_attention_block(n, refs, c) ==
    LET x(s) == <<n.id[1], "", s, 0>>
        mask == IF "mask" \in n.attr THEN <<refs[4]>> ELSE <<>>
        kv == IF c.kv = 0 THEN 1 ELSE c.kv
    IN  [i \in 1..3 |-> Own(n, <<"q_4d", "k_4d", "v_4d">>[i], "Reshape", <<refs[i]>>, {})]
        \o [i \in 1..3 |-> Own(n, <<"q_t", "k_t", "v_t">>[i], "Transpose",
                               <<x(<<"q_4d", "k_4d", "v_4d">>[i])>>, {})]
        \o (IF c.heads > 0
            THEN per_head_attention(n, x("q_t"), x("k_t"), x("v_t"), mask, FALSE, {}, c.heads, kv)
            ELSE fused_attention(n, x("q_t"), x("k_t"), x("v_t"), mask))
        \o <<Own(n, "", "Conv1x1AsLinear", <<x("attn_flat")>>, {<<n.id[1], "w_out">>})>>

-----------------------------------------------------------------------------
(* apply_rotary_half: x * cos + rotate_half(x) * sin. *)
apply_rotary_half(n, s, x, cos, sin) ==
    LET y(t) == <<n.id[1], s, t, 0>>
        mk(t, op, refs) == Part(n, s, t, op, refs, {})
    IN  <<mk("x1", "SliceByIndex", <<x>>), mk("x2", "SliceByIndex", <<x>>),
          mk("neg_x2", "Neg", <<y("x2")>>), mk("stack", "Stack", <<y("neg_x2"), y("x1")>>),
          mk("rotated", "Reshape", <<y("stack")>>), mk("x_cos", "Mul", <<x, cos>>),
          mk("rot_sin", "Mul", <<y("rotated"), sin>>), mk("out", "Add", <<y("x_cos"), y("rot_sin")>>)>>

(* A table: the constant of the static tables pass when it ran, otherwise one
   that the layers share.                                                    *)
TabId(t, present) == IF StaticTab(t) \in present THEN StaticTab(t) ELSE SharedId(t)

Table(n, t, present) ==
    IF StaticTab(t) \in present THEN <<>> ELSE <<Shared(n, t, {<<"table", t>>})>>

(* The one-hot of the position's slot, 1 - min(|slot - position|, 1). *)
position_one_hot(n, position, present) ==
    LET x(s) == <<n.id[1], "", s, 0>>
        mk(s, op, refs) == Own(n, s, op, refs, {})
        one == SharedId("scalar_one")
    IN  <<mk("pos_fp16", "Cast", position)>> \o Table(n, "arange_fp16_tab", present)
        \o <<mk("kv_mask_diff", "Sub", <<TabId("arange_fp16_tab", present), x("pos_fp16")>>),
             mk("kv_mask_abs", "Abs", <<x("kv_mask_diff")>>), Shared(n, "scalar_one", {}),
             mk("kv_mask_clipped", "Minimum", <<x("kv_mask_abs"), one>>),
             mk("kv_mask_gathered", "Sub", <<one, x("kv_mask_clipped")>>)>>

(* The row of the rotary tables that the one-hot selects. *)
gathered_row(n, present) ==
    LET x(s) == <<n.id[1], "", s, 0>>
        mk(s, op, refs) == Own(n, s, op, refs, {})
    IN  <<mk("kv_one_hot_4d", "Reshape", <<x("kv_mask_gathered")>>),
          mk("cos_masked", "Mul", <<TabId("cos_tab", present), x("kv_one_hot_4d")>>),
          mk("cos_gathered", "ReduceSum", <<x("cos_masked")>>),
          mk("sin_masked", "Mul", <<TabId("sin_tab", present), x("kv_one_hot_4d")>>),
          mk("sin_gathered", "ReduceSum", <<x("sin_masked")>>)>>

(* The attention mask of the position: minus infinity where
   1 - clamp(slot - (seq - 1 - position) + 1, 0, 1) is 1.                    *)
causal_mask(n, present) ==
    LET x(s) == <<n.id[1], "", s, 0>>
        mk(s, op, refs) == Own(n, s, op, refs, {})
        one == SharedId("scalar_one")
    IN  <<Shared(n, "seq_minus_1", {}), mk("mask_offset", "Sub", <<SharedId("seq_minus_1"), x("pos_fp16")>>),
          mk("mask_distance", "Sub", <<TabId("arange_fp16_tab", present), x("mask_offset")>>),
          mk("mask_shifted", "Add", <<x("mask_distance"), one>>), Shared(n, "scalar_zero", {}),
          mk("mask_clamped_pos", "Maximum", <<x("mask_shifted"), SharedId("scalar_zero")>>),
          mk("mask_is_allowed", "Minimum", <<x("mask_clamped_pos"), one>>),
          mk("mask_is_blocked", "Sub", <<one, x("mask_is_allowed")>>), Shared(n, "fp16_neg_inf", {}),
          mk("mask_gathered", "Mul", <<x("mask_is_blocked"), SharedId("fp16_neg_inf")>>)>>

(* The query and the new key are rotated by that row, or without a position
   by the whole tables.                                                      *)
rotate_both(n, q, k_new, position, present) ==
    LET row(t, gathered) == IF position = <<>> THEN TabId(t, present) ELSE <<n.id[1], "", gathered, 0>>
        cos == row("cos_tab", "cos_gathered")
        sin == row("sin_tab", "sin_gathered")
    IN  apply_rotary_half(n, "q_rope", q, cos, sin) \o apply_rotary_half(n, "k_new_rope", k_new, cos, sin)

(* apply_rope_decode: the tables, with a position its masks, and the rotation. *)
apply_rope_decode(n, q, k_new, position, present) ==
    Table(n, "cos_tab", present) \o Table(n, "sin_tab", present) \o Table(n, "arange_tab", present)
    \o (IF position = <<>> THEN <<>>
        ELSE position_one_hot(n, position, present) \o gathered_row(n, present) \o causal_mask(n, present))
    \o rotate_both(n, q, k_new, position, present)

(* A mutant without the reciprocal root. *)
qk_norm_unrooted(n, s, x) ==
    LET y(t) == <<n.id[1], s, t, 0>>
        mk(t, op, refs) == Part(n, s, t, op, refs, {})
    IN  <<mk("reshape_4d", "Reshape", <<x>>), mk("x_sq", "Mul", <<y("reshape_4d"), y("reshape_4d")>>),
          mk("mean", "ReduceMean", <<y("x_sq")>>), mk("normed", "Mul", <<y("reshape_4d"), y("mean")>>),
          Part(n, s, "weighted", "Mul", <<y("normed")>>, {<<n.id[1], s>>}), mk("flat", "Reshape", <<y("weighted")>>)>>

(* apply_qk_norm_decode: x * rsqrt(mean(x^2) + eps) * weight. *)
apply_qk_norm_decode(n, s, x) ==
    LET y(t) == <<n.id[1], s, t, 0>>
        mk(t, op, refs) == Part(n, s, t, op, refs, {})
    IN  <<mk("reshape_4d", "Reshape", <<x>>), mk("x_sq", "Mul", <<y("reshape_4d"), y("reshape_4d")>>),
          mk("mean", "ReduceMean", <<y("x_sq")>>), mk("eps_scalar", "Const", <<>>),
          mk("biased", "Add", <<y("mean"), y("eps_scalar")>>), mk("rsqrt", "Rsqrt", <<y("biased")>>),
          mk("normed", "Mul", <<y("reshape_4d"), y("rsqrt")>>),
          Part(n, s, "weighted", "Mul", <<y("normed")>>, {<<n.id[1], s>>}),
          mk("flat", "Reshape", <<y("weighted")>>)>>

(* The projections of the step's token: separate ones, or one that is sliced. *)
projections(n, token) ==
    LET w(s) == {<<n.id[1], s>>}
        qkv == <<n.id[1], "", "qkv_proj", 0>>
    IN  IF "separate" \in n.attr
        THEN [i \in 1..3 |-> Own(n, <<"q", "k_new", "v_new">>[i], "Conv1x1AsLinear", <<token>>,
                                 w(<<"w_q", "w_k", "w_v">>[i]))]
        ELSE <<Own(n, "qkv_proj", "Conv1x1AsLinear", <<token>>,
                   w("w_q") \cup w("w_k") \cup w("w_v"))>>
             \o [i \in 1..3 |-> Own(n, <<"q", "k_new", "v_new">>[i], "SliceByIndex", <<qkv>>, {})]

(* A mutant that keeps the old cache. *)
blends_nothing(n, s, old, new) ==
    <<Part(n, s, "next", "Identity", <<old>>, {})>>

(* A cache with the new value in the slot the write mask names:
   old * (1 - mask) + new * mask.                                            *)
masked_blend(n, s, old, new) ==
    LET x(t) == <<n.id[1], s, t, 0>>
        mk(t, op, refs) == Part(n, s, t, op, refs, {})
    IN  <<mk("old_masked", "Mul", <<old, <<n.id[1], "", "mask_keep", 0>>>>),
          mk("new_masked", "Mul", <<new, <<n.id[1], "", "mask_write", 0>>>>),
          mk("next", "Add", <<x("old_masked"), x("new_masked")>>)>>

(* The caches are read, and everything is given its head axis. *)
cache_reads(n, q, k_new) ==
    LET x(s) == <<n.id[1], "", s, 0>>
        mk(s, ref) == Own(n, s, "Reshape", <<ref>>, {})
    IN  <<Own(n, "k_cache_read", "StateReadFixed", <<>>, {<<n.id[1], "k_cache">>}),
          Own(n, "v_cache_read", "StateReadFixed", <<>>, {<<n.id[1], "v_cache">>}),
          mk("q_4d", q), mk("k_4d", x("k_cache_read")), mk("v_4d", x("v_cache_read")),
          mk("k_new_4d", k_new), mk("v_new_4d", x("v_new"))>>

(* decompose_decode_step: refs are the token and, when there is one, the
   position. Without tables and a position there is no write mask, and the
   step writes back the cache it read.                                       *)
decompose_decode_step(n, refs, c, present) ==
    LET x(s) == <<n.id[1], "", s, 0>>
        mk(s, op, r) == Own(n, s, op, r, {})
        position == SubSeq(refs, 2, Len(refs))
        kv == IF c.kv > 0 THEN c.kv ELSE c.heads
        rope == UsesTables(n)
        written == rope /\ position # <<>>
        normed(s) == IF "qk_norm" \in n.attr THEN <<n.id[1], s, "flat", 0>> ELSE x(IF s = "q_norm" THEN "q" ELSE "k_new")
        q == IF rope THEN <<n.id[1], "q_rope", "out", 0>> ELSE x("q_4d")
        k_new == IF rope THEN <<n.id[1], "k_new_rope", "out", 0>> ELSE x("k_new_4d")
        next(s, old) == IF written THEN <<n.id[1], s, "next", 0>> ELSE x(old)
        mask_ref == IF ~written /\ "mask_ref" \in n.attr THEN {<<n.id[1], "mask_ref">>} ELSE {}
    IN  projections(n, refs[1])
        \o (IF "qk_norm" \in n.attr
            THEN apply_qk_norm_decode(n, "q_norm", x("q")) \o apply_qk_norm_decode(n, "k_norm", x("k_new"))
            ELSE <<>>)
        \o cache_reads(n, normed("q_norm"), normed("k_norm"))
        \o (IF rope THEN apply_rope_decode(n, x("q_4d"), x("k_new_4d"), position, present) ELSE <<>>)
        \o (IF written
            THEN <<mk("mask_write", "Reshape", <<x("kv_mask_gathered")>>), Shared(n, "scalar_one", {}),
                   mk("mask_keep", "Sub", <<SharedId("scalar_one"), x("mask_write")>>)>>
                 \o masked_blend(n, "k", x("k_4d"), k_new) \o masked_blend(n, "v", x("v_4d"), x("v_new_4d"))
            ELSE <<>>)
        \o per_head_attention(n, q, next("k", "k_4d"), next("v", "v_4d"),
               IF written THEN <<x("mask_gathered")>> ELSE <<>>, written, mask_ref, c.heads, kv)
        \o <<Own(n, "out_proj", "Conv1x1AsLinear", <<x("attn_flat")>>, {<<n.id[1], "w_out">>}),
             mk("k_cache_write", "StateWriteFixed", <<next("k", "k_4d")>>),
             mk("v_cache_write", "StateWriteFixed", <<next("v", "v_4d")>>)>>
-----------------------------------------------------------------------------
(* x divided by its largest magnitude, and the reciprocal root of the mean of
   the squares of that.                                                      *)
stabilized_rsqrt(n, x) ==
    LET y(s) == <<n.id[1], "", s, 0>>
        mk(s, op, r) == Own(n, s, op, r, {})
    IN  <<mk("abs_x", "Abs", <<x>>), mk("max_abs", "ReduceMax", <<y("abs_x")>>),
          mk("eps_for_max_scalar", "Const", <<>>),
          mk("safe_max", "Maximum", <<y("max_abs"), y("eps_for_max_scalar")>>),
          mk("x_norm", "RealDiv", <<x, y("safe_max")>>), mk("x_sq", "Mul", <<y("x_norm"), y("x_norm")>>),
          mk("mean", "ReduceMean", <<y("x_sq")>>), mk("eps_scalar", "Const", <<>>),
          mk("mean_plus_eps", "Add", <<y("mean"), y("eps_scalar")>>), mk("rsqrt", "Rsqrt", <<y("mean_plus_eps")>>)>>

(* A mutant that forgets the weight. *)
rescaled_unweighted(n, x, out) ==
    LET y(s) == <<n.id[1], "", s, 0>>
    IN  <<Own(n, "normed_raw", "Mul", <<x, y("rsqrt")>>, {}),
          Own(n, out, "Mul", <<y("normed_raw"), y("safe_max")>>, {})>>

(* The comment of step 5 has the quotient times the reciprocal root; the code
   multiplies the input itself, and then by its magnitude.                   *)
rescaled_and_weighted(n, x, out) ==
    LET y(s) == <<n.id[1], "", s, 0>>
    IN  <<Own(n, "normed_raw", "Mul", <<x, y("rsqrt")>>, {}),
          Own(n, "normed", "Mul", <<y("normed_raw"), y("safe_max")>>, {}),
          Own(n, out, "Mul", <<y("normed")>>, {<<n.id[1], "gamma">>})>>

(* decompose_rms_norm: with per-head axes and a context the input is reshaped
   around it.                                                                *)
decompose_rms_norm(n, refs, c) ==
    LET y(s) == <<n.id[1], "", s, 0>>
    IN  IF "axes3" \in n.attr /\ c.heads > 0
        THEN <<Own(n, "reshape_4d", "Reshape", refs, {})>>
             \o stabilized_rsqrt(n, y("reshape_4d")) \o rescaled_and_weighted(n, y("reshape_4d"), "normed_weighted")
             \o <<Own(n, "", "Reshape", <<y("normed_weighted")>>, {})>>
        ELSE stabilized_rsqrt(n, refs[1]) \o rescaled_and_weighted(n, refs[1], "")

(* The tables of the static tables pass, or two constants of n's own. *)
OwnTabId(n, t, present) == IF StaticTab(t) \in present THEN StaticTab(t) ELSE <<n.id[1], "", t, 0>>

own_tables(n, present) ==
    LET own(t) == IF StaticTab(t) \in present THEN <<>>
                  ELSE <<Own(n, t, "Const", <<>>, {<<"table", t>>})>>
    IN  own("cos_tab") \o own("sin_tab")

decompose_rope(n, refs, present) ==
    LET y(s) == <<n.id[1], "", s, 0>>
        mk(s, op, r) == Own(n, s, op, r, {})
    IN  own_tables(n, present)
        \o <<mk("x1", "SliceByIndex", refs), mk("x2", "SliceByIndex", refs), mk("neg_x2", "Neg", <<y("x2")>>),
             mk("stack", "Stack", <<y("neg_x2"), y("x1")>>), mk("rotated", "Reshape", <<y("stack")>>),
             mk("x_cos", "Mul", <<refs[1], OwnTabId(n, "cos_tab", present)>>),
             mk("rotated_sin", "Mul", <<y("rotated"), OwnTabId(n, "sin_tab", present)>>),
             mk("", "Add", <<y("x_cos"), y("rotated_sin")>>)>>

(* decompose_sampler: the indices it gathers with are named and never defined. *)
decompose_sampler(n, refs) ==
    LET y(s) == <<n.id[1], "", s, 0>>
    IN  <<Own(n, "topk", "Topk", refs, {}), Own(n, "softmax", "Softmax", <<y("topk")>>, {}),
          Own(n, "", "Gather", <<y("softmax"), y("topk_idx")>>, {})>>

(* The arms of run for the operations the hardware does not run: a tile is a
   product with ones, or an identity when nothing is repeated, and a choice
   is cond * x + (1 - cond) * y.                                             *)
tile(n, refs) ==
    LET y(s) == <<n.id[1], "", s, 0>>
    IN  IF "reps" \notin n.attr THEN <<Own(n, "", "Identity", refs, {})>>
        ELSE <<Own(n, "tile_reshape", "Reshape", refs, {}), Own(n, "tile_ones", "Const", <<>>, {}),
               Own(n, "tile_mul", "Mul", <<y("tile_reshape"), y("tile_ones")>>, {}),
               Own(n, "", "Reshape", <<y("tile_mul")>>, {})>>

select(n, refs) ==
    LET s == IF n.op = "Select" THEN "sel" ELSE "where"
        y(t) == <<n.id[1], s, t, 0>>
    IN  <<Part(n, s, "one", "Const", <<>>, {}), Part(n, s, "sub", "Sub", <<y("one"), refs[1]>>, {}),
          Part(n, s, "mul_x", "Mul", <<refs[1], refs[2]>>, {}), Part(n, s, "mul_y", "Mul", <<y("sub"), refs[3]>>, {}),
          Own(n, "", "Add", <<y("mul_x"), y("mul_y")>>, {})>>

(* sir_to_air_passthrough and the arms of run that only rename: the operation
   under its own id. A projection's bias is not carried over.                *)
passthrough(n, refs) ==
    LET op == CASE n.op = "LinearProjection" -> "Conv1x1AsLinear"
                [] n.op = "StateRead" -> "StateReadFixed"
                [] n.op = "StateWrite" -> "StateWriteFixed"
                [] OTHER -> n.op
    IN  <<[n EXCEPT !.op = op, !.refs = refs,
                    !.leaves = IF op = "Conv1x1AsLinear" THEN @ \ {<<n.id[1], "bias">>} ELSE @]>>

rewrite_node(n, refs, c, present) ==
    CASE n.op = "AttentionBlock" -> decompose_attention_block(n, refs, c)
      [] n.op = "DecodeStep" -> decompose_decode_step(n, refs, c, present)
      [] n.op = "RMSNorm" -> decompose_rms_norm(n, refs, c)
      [] n.op = "RoPETransform" -> decompose_rope(n, refs, present)
      [] n.op = "Sampler" -> decompose_sampler(n, refs)
      [] n.op = "Tile" -> tile(n, refs)
      [] n.op \in {"Select", "Where"} -> select(n, refs)
      [] OTHER -> passthrough(n, refs)

(* The id under which later nodes find a rewritten node. *)
final_air_id(n) == IF n.op = "DecodeStep" THEN <<n.id[1], "", "out_proj", 0>> ELSE n.id

(* The first node of each id is kept. The sequence is put together in blocks,
   which only keeps the recursion shallow.                                   *)
dedup(nodes) ==
    LET block == 20
        first(i) == IF \E j \in 1..(i - 1) : nodes[j].id = nodes[i].id THEN <<>> ELSE <<nodes[i]>>
        firsts(b) == FlattenSeq([k \in 1..block |->
                                    IF b * block + k > Len(nodes) THEN <<>> ELSE first(b * block + k)])
    IN  FlattenSeq([b \in 1..(Len(nodes) \div block + 1) |-> firsts(b - 1)])

(* run, before the duplicates are dropped. sir_to_air holds the nodes before
   the one rewritten; an id it lacks is used as it is.                       *)
rewrite_all(nodes, c) ==
    LET sir_to_air(i) == [id \in Ids(SubSeq(nodes, 1, i - 1)) |-> final_air_id(NodeOf(nodes, id))]
        rewritten(i) ==
            LET air == sir_to_air(i)
                ref(r) == IF r \in DOMAIN air THEN air[r] ELSE r
            IN  rewrite_node(nodes[i], [k \in DOMAIN nodes[i].refs |-> ref(nodes[i].refs[k])], c, DOMAIN air)
    IN  [nodes |-> FlattenSeq([i \in DOMAIN nodes |-> rewritten(i)]), air |-> sir_to_air(Len(nodes) + 1)]

(* Whether the rewrite panics: it divides the heads among the key/value heads. *)
RewritePanics(nodes, c) ==
    \E i \in DOMAIN nodes :
        /\ nodes[i].op \in {"AttentionBlock", "DecodeStep"}
        /\ IndexPanics(c.heads, IF c.kv > 0 THEN c.kv ELSE IF nodes[i].op = "DecodeStep" THEN c.heads ELSE 1)

-----------------------------------------------------------------------------
(* RiskAnnotatePass. The operations with a pattern of their own; every other
   one is asked for under the pattern "unknown".                             *)
Structural == {"Identity", "Const", "Fill", "Range1d"}

Patterned ==
    {"MatMul", "Add", "Mul", "Abs", "Maximum", "Minimum", "Reshape", "Transpose", "Split",
     "Concat", "Softmax", "ReduceMean", "Rsqrt", "RealDiv", "LayerNorm", "Topk", "Gather",
     "Cos", "Sin", "Conv1x1AsLinear", "ScaledDotProductAttention", "SliceByIndex", "Gelu",
     "Relu", "StateReadFixed", "StateWriteFixed", "SliceUpdate", "Exp", "Sigmoid", "Tanh", "Where"}

(* StoreKnowledgeQuery::query_risk: the survival matrix's risk, or one derived
   from the legality rule.                                                   *)
query_risk(legality, survival) ==
    CASE survival # "none" -> survival
      [] legality \in {"strong", "proven"} -> "low"
      [] legality = "illegal" -> "high"
      [] legality = "weak" -> "middling"
      [] OTHER -> "none"

NoEvidence == [plan |-> "none", legality |-> "none", risk |-> "none"]

(* legality: an illegal rule counts from 0.5, a legal one is strong from 0.95,
   and proven when two observations support it too.                          *)
determine_legality_status(e) ==
    CASE e.plan = "not_ane" -> "LikelyFallback"
      [] e.legality = "illegal" -> "LikelyFallback"
      [] e.legality = "none" /\ e.risk = "none" -> "Unknown"
      [] e.risk = "high" -> "LikelyFallback"
      [] e.legality = "proven" -> "Verified"
      [] e.legality = "strong" /\ e.risk = "low" -> "Verified"
      [] OTHER -> "Unverified"

(* The status of a node of operation op, when known is what the store holds
   on every pattern of the table.                                            *)
legality_status(op, known) ==
    IF op \in Structural THEN "Verified"
    ELSE determine_legality_status(IF op \in Patterned THEN known ELSE NoEvidence)

(* validate_legality_status: the nodes the gate rejects. *)
UnknownNodes(nodes, known) ==
    {i \in DOMAIN nodes : legality_status(nodes[i].op, known) = "Unknown"}
=============================================================================
