---------------------------- MODULE OpPlacement ----------------------------
(***************************************************************************)
(* Where operations run: the decision validate_placement_with_context      *)
(* takes for an operation of the lowered graph and a target                *)
(* (passes/src/placement_validate.rs), the engine it is annotated with     *)
(* (ir/src/mir.rs), the fusion groups and the memory of a short program,   *)
(* and the legality the earlier rewrite gives an operation of the same     *)
(* kind (passes/src/legality_rewrite.rs).                                  *)
(*                                                                         *)
(* A unit is what the caller asks about: an operation with the attributes  *)
(* some validator reads, the shapes of its operands and the context the    *)
(* caller knows. In a context Nothing, 0 for the interleave and -1 for the *)
(* channels stand for what it does not know.                               *)
(***************************************************************************)
EXTENDS OpConstraints

CONSTANTS
    Units,      \* what the validator may be asked about
    Chains,     \* the sets of units that make programs of more than one
    Infos,      \* what the knowledge store may say of a pattern
    MaxOps

\* All operations that are asked about.
Asked == Units \cup UNION Chains

VARIABLES
    target,     \* the family, the revision where it is known, and whether shapes are dynamic
    prog,       \* the operations placed, with the decision for each
    groups,     \* fusion groups of prog, once they are made
    checked,    \* whether prog exceeds the memory of a chip, once that is checked
    air         \* an operation of the graph before lowering and its legality
vars == <<target, prog, groups, checked, air>>

Attributes ==
    [kind |-> "", axis |-> 1, axes |-> <<>>, keep_dims |-> TRUE, mode |-> "constant",
     pads |-> <<>>, transpose_y |-> FALSE, strides |-> <<2, 2>>, dilations |-> <<1, 1>>,
     groups |-> 1, kernels |-> <<2, 2>>, dtype |-> "Fp16"]

PlacementContext ==
    [dtype |-> Nothing, interleave |-> 0, layout |-> Nothing, is_const |-> FALSE,
     is_int4 |-> FALSE, channels |-> -1, is_depthwise_conv |-> FALSE,
     is_asymmetric_quant |-> FALSE, is_blockwise_scale |-> FALSE,
     is_vector_palettized |-> FALSE, has_per_channel_palettize |-> FALSE,
     has_aliasing |-> FALSE]

\* An operation is of a kind the lowered graph has, has its shapes and says of
\* its context what the caller knows.
ASSUME UnitsAssumption ==
    \A unit \in Asked :
        /\ DOMAIN unit = {"op", "shapes", "out", "ctx"}
        /\ unit.op.kind \in DOMAIN MirOps
        /\ unit.shapes \in Seq(Seq(Nat)) /\ unit.out \in Seq(Nat)
        /\ DOMAIN unit.ctx = DOMAIN PlacementContext

AneAllowed == [on |-> "ane", from |-> 0]
AneConditional(family) == [on |-> "later", from |-> family]
CpuOnly == [on |-> "cpu", from |-> 0]

-----------------------------------------------------------------------------
(* What every operation is asked.                                          *)

extract_whdc(s) ==
    LET Dims(w, h, d, c) == [w |-> w, h |-> h, d |-> d, c |-> c]
    IN  CASE Len(s) = 0 -> Dims(0, 0, 0, 0)
          [] Len(s) = 1 -> Dims(s[1], 1, 1, 1)
          [] Len(s) = 2 -> Dims(s[2], s[1], 1, 1)
          [] Len(s) = 3 -> Dims(s[3], s[2], 1, s[1])
          [] Len(s) = 4 -> Dims(s[4], s[3], 1, s[2])
          [] Len(s) >= 5 -> Dims(FromEnd(s, 1), FromEnd(s, 2), FromEnd(s, 3), FromEnd(s, 4))

BroadcastOps == {"Add", "Mul", "Sub", "Maximum", "Minimum"}

is_compute_op ==
    {"Conv", "ConvTranspose", "Linear", "MatMul", "Add", "Mul", "Sub", "RealDiv", "Maximum",
     "Minimum", "ReduceMean", "ReduceSum", "ReduceMax", "ReduceMin", "Softmax", "LayerNorm",
     "BatchNorm", "InstanceNorm", "ScaledDotProductAttention", "Relu", "Sigmoid", "Tanh",
     "Gelu", "Silu", "Abs", "Neg", "Sqrt", "Rsqrt", "Exp", "Log"}

DtypeFits(kind, ctx, family) ==
    ctx.dtype # Nothing =>
        /\ is_dtype_ane_legal(ctx.dtype, family)
        /\ ctx.dtype = "UInt16" => validate_uint16_constraints(op_name(kind), TRUE)
        /\ ctx.dtype = "Bool" => validate_bool_constraints(op_name(kind), TRUE)
        /\ validate_int4_uint4_ane_constraints(ctx.dtype, ctx.interleave)
        /\ ctx.dtype = "Fp32" /\ kind \in is_compute_op \ BroadcastOps =>
              is_fp32_compute_supported(family)

\* Without the channels everything but their divisibility is checked.
InterleaveFits(ctx) ==
    ctx.interleave # 0 =>
        IF ctx.channels # -1
        THEN validate_interleave_constraints(ctx.interleave, ctx.is_const, ctx.is_int4, ctx.channels)
        ELSE /\ ctx.is_const => ctx.interleave = 1
             /\ ctx.is_int4 => ctx.interleave = 8

LayoutFits(ctx) ==
    validate_channellast_constraints(ctx.layout, ctx.is_depthwise_conv,
                                     IF ctx.interleave = 0 THEN 1 ELSE ctx.interleave)

DimsFit(shapes, revision) ==
    revision # Nothing =>
        \A i \in DOMAIN shapes :
            validate_tensor_dims(for_revision[revision], extract_whdc(shapes[i]), Rank(shapes[i]))

QuantFits(ctx) == ~ctx.is_blockwise_scale /\ ~ctx.is_asymmetric_quant

UniversalGates(unit, to) ==
    /\ ~to.dynamic
    /\ \A i \in DOMAIN unit.shapes : Rank(unit.shapes[i]) <= 5
    /\ DtypeFits(unit.op.kind, unit.ctx, to.family)
    /\ InterleaveFits(unit.ctx)
    /\ LayoutFits(unit.ctx)
    /\ QuantFits(unit.ctx)
    /\ DimsFit(unit.shapes, to.revision)

-----------------------------------------------------------------------------
(* What one kind is asked.                                                 *)

LimitsOf(revision) == for_revision[IF revision = Nothing THEN "V7" ELSE revision]

LinearFits(s) ==
    s # <<>> => validate_linear_constraints(Rank(s[1]), Rank(s[Min({2, Len(s)})]))

SdpaFits(s) ==
    /\ Len(s) \in 3 .. 4
    /\ validate_sdpa_constraints(s)
    /\ LastTwo(s[2]) = LastTwo(s[3])

Reductions ==
    {"ReduceSum", "ReduceMean", "ReduceMax", "ReduceProd", "ReduceSumSquare",
     "ReduceL2Norm", "ReduceL1Norm", "ReduceLogSumExp", "ReduceLogSum"}

ReductionFits(op, s, family) ==
    validate_reduction_constraints(op, IF s = <<>> THEN 0 ELSE Rank(s[1]), family)

ReduceMinFits(dtype, family) ==
    dtype \notin {Nothing, "Fp16", "Fp32"} => supports_reducemin_all_dtypes(family)

CastFits(op, dtype) == dtype # Nothing => validate_cast_constraints(dtype, op.dtype)

BroadcastFits(s, dtype, family) ==
    /\ dtype # Nothing => is_broadcast_dtype_legal(dtype, family)
    /\ validate_elementwise_broadcast_constraints(s)

MatMulFits(op, s) == Len(s) >= 2 => validate_matmul_constraints(s[1], s[2], op.transpose_y)

PadFits(op, s) == s # <<>> => validate_pad_constraints(op.mode, op.pads, Rank(s[1]))

\* The extents of a kernel, from the shape of the weights.
DeconvKernel(s) ==
    IF Len(s) < 2 \/ Rank(s[Min({2, Len(s)})]) < 4 THEN [w |-> 0, h |-> 0, d |-> 1]
    ELSE [w |-> FromEnd(s[2], 1), h |-> FromEnd(s[2], 2),
          d |-> IF Rank(s[2]) >= 5 THEN FromEnd(s[2], 3) ELSE 1]

DeconvFits(op, s, ctx, to) ==
    /\ to.family # 11
    /\ validate_deconv_constraints(op, DeconvKernel(s), ctx.is_vector_palettized,
                                   LimitsOf(to.revision))

ConvKernel(weights) ==
    IF Rank(weights) >= 4 THEN <<FromEnd(weights, 1), FromEnd(weights, 2)>> ELSE <<0, 0>>

ConvFits(op, s, ctx, revision) ==
    /\ validate_cross_constraint_combinations(op, ctx)
    /\ revision # Nothing =>
          /\ Len(s) >= 2 =>
                validate_conv_dims(for_revision[revision], ConvKernel(s[2])[1],
                                   ConvKernel(s[2])[2], ctx.dtype \in {"Int8", "UInt8"})
          /\ s # <<>> => validate_conv_channels(for_revision[revision], extract_whdc(s[1]).c)

TransposeFits(s, revision) ==
    revision # Nothing /\ s # <<>> =>
        validate_transpose_c_max(for_revision[revision], extract_whdc(s[1]).c)

PoolFits(op, revision) ==
    validate_pooling_constraints(op.kind, Largest(op.strides, 1), Largest(op.kernels, 0),
                                 LimitsOf(revision))

GatherFits(s) ==
    s # <<>> =>
        validate_gather_constraints(IF s[1] = <<>> THEN 0 ELSE s[1][1],
                                    IF Rank(s[1]) >= 5 THEN s[1][3] ELSE 1)

BlockwiseScales == {"ConstexprBlockwiseShiftScale", "ConstexprSparseBlockwiseShiftScale"}

Controls ==
    {"Rnn", "Gru", "Lstm", "Cond", "WhileLoop", "MakeList", "ListLength", "ListWrite",
     "ListRead", "ListGather", "ListScatter", "RandomBernoulli", "RandomNormal",
     "RandomUniform", "RandomCategorical", "ReadState", "CoremlUpdateState", "StateWrite",
     "Classify"}

\* The kinds without a line of their own here are allowed unseen, those without
\* an engine and those on the CPU-only list too.
OpFits(unit, to) ==
    LET op == unit.op  s == unit.shapes  ctx == unit.ctx  kind == unit.op.kind
    IN  /\ kind = "Linear" => LinearFits(s)
        /\ kind = "ScaledDotProductAttention" => SdpaFits(s)
        /\ kind = "Concat" => op.axis = 1
        /\ kind \in {"ReduceArgmax", "ReduceArgmin"} => supports_argminmax(to.family)
        /\ kind = "ReduceMin" => ReduceMinFits(ctx.dtype, to.family)
        /\ kind \in Reductions => ReductionFits(op, s, to.family)
        /\ kind = "Cast" => CastFits(op, ctx.dtype)
        /\ kind \in BroadcastOps => BroadcastFits(s, ctx.dtype, to.family)
        /\ kind = "MatMul" => MatMulFits(op, s)
        /\ kind = "Pad" => PadFits(op, s)
        /\ kind = "ConvTranspose" => DeconvFits(op, s, ctx, to)
        /\ kind \in ArchitectureGated => validate_architecture_gated_constraints(kind, to.family)
        /\ kind = "Conv" => ConvFits(op, s, ctx, to.revision)
        /\ kind = "Transpose" => TransposeFits(s, to.revision)
        /\ kind \in {"MaxPool", "AvgPool", "L2Pool"} => PoolFits(op, to.revision)
        /\ kind = "Gather" => GatherFits(s)
        /\ kind \notin BlockwiseScales
        /\ kind \in Controls => ~is_cpu_only_unified(kind) /\ ~is_cpu_only(mil_op_name(kind))

validate_placement(unit, to) ==
    IF ~UniversalGates(unit, to) \/ ~OpFits(unit, to) THEN CpuOnly
    ELSE IF unit.op.kind = "ScaledDotProductAttention" /\ ~supports_sdpa(to.family)
         THEN AneConditional(16)
    ELSE IF unit.op.kind = "LayerNorm" /\ ~supports_layernorm(to.family)
         THEN AneConditional(15)
    ELSE AneAllowed

-----------------------------------------------------------------------------
\* The callers know the family, and the revision or not.
Targets ==
    {[family |-> f, revision |-> Nothing, dynamic |-> d] : f \in Families, d \in BOOLEAN}
    \cup {[family |-> Family[r], revision |-> r, dynamic |-> FALSE] : r \in Revisions}

Init ==
    /\ target \in Targets
    /\ prog = <<>>
    /\ groups = <<>>
    /\ checked = {}
    /\ air = {}

Fresh == prog = <<>> /\ air = {}

\* Legality is decided long before an operation is placed.
Judge(kind, info) ==
    /\ air' = {[kind |-> kind, legality |-> LegalityOf(op_pattern(kind), info)]}
    /\ UNCHANGED <<target, prog, groups, checked>>

Placed(unit) ==
    [kind |-> unit.op.kind, dtype |-> unit.op.dtype, shapes |-> unit.shapes, out |-> unit.out,
     unit |-> unit, decision |-> validate_placement(unit, target),
     engine |-> engine_for_op(unit.op.kind, target.revision)]

PartOf(chain) == air = {} /\ \A i \in DOMAIN prog : prog[i].unit \in chain
IsProgram == prog # <<>> /\ \E chain \in Chains : PartOf(chain)

Place(unit) ==
    /\ groups = <<>> /\ checked = {}
    /\ Len(prog) < MaxOps
    /\ prog' = Append(prog, Placed(unit))
    /\ UNCHANGED <<target, groups, checked, air>>

Fuse ==
    /\ IsProgram /\ groups = <<>>
    /\ groups' = identify_fusion_groups(prog)
    /\ UNCHANGED <<target, prog, checked, air>>

\* The limits a caller can pass: those of the revision and of its chips.
ChipLimits(revision) ==
    {for_revision[r] : r \in {revision} \cap Revisions} \cup
    {for_hal_sub_variant[v] :
        v \in {w \in DOMAIN for_hal_sub_variant : revision_for_hal_sub_variant[w] = revision}}

Budget(limits) ==
    /\ checked' = {[limits |-> limits, exceeded |-> check_l2_budget(prog, limits)]}
    /\ UNCHANGED <<target, prog, groups, air>>

Next ==
    \/ Fresh /\ \E kind \in DOMAIN AirOps, info \in Infos : Judge(kind, info)
    \/ Fresh /\ \E unit \in Units : Place(unit)
    \/ \E chain \in Chains : PartOf(chain) /\ \E unit \in chain : Place(unit)
    \/ Fuse
    \/ IsProgram /\ checked = {} /\ \E limits \in ChipLimits(target.revision) : Budget(limits)

Spec == Init /\ [][Next]_vars

-----------------------------------------------------------------------------
(* Properties.                                                             *)

\* What placement_validate.rs:1174-1177 says of the operations that have no
\* validator, that they fall through to the unified CPU-only classification,
\* and cpu_only_ops.rs:1-5 of those on its list, that they never land on the
\* accelerator: nothing that has no engine or is on the list is accepted.
CpuOnlyNeverAllowed ==
    \A i \in DOMAIN prog :
        LET kind == prog[i].kind
        IN  is_cpu_only_unified(kind) \/ is_cpu_only(mil_op_name(kind)) => prog[i].decision = CpuOnly

\* The revisions of phones, oldest first; a Mac's are of an older family than
\* its width is.
Phones == <<"V4", "V5", "V6", "V7", "V8", "V10", "V11", "V19", "V20", "V26">>

Newer(old, new) ==
    /\ old.dynamic = new.dynamic
    /\ IF old.revision = Nothing
       THEN new.revision = Nothing /\ old.family <= new.family
       ELSE \E i, j \in DOMAIN Phones :
                i <= j /\ Phones[i] = old.revision /\ Phones[j] = new.revision

\* What the accelerator takes it keeps taking: allowed, an operation is
\* allowed on every newer target as well, and conditional on a family, it is
\* allowed from that family on. Only ArgMax and ArgMin are lost, with A18.
PromisesKept ==
    \A i \in DOMAIN prog, new \in Targets :
        LET was == prog[i].decision
        IN  /\ was # CpuOnly
            /\ Newer(target, new)
            /\ new.family >= was.from
            /\ ~(prog[i].kind \in {"ReduceArgmax", "ReduceArgmin"} /\ ~supports_argminmax(new.family))
            => validate_placement(prog[i].unit, new) = AneAllowed

Forgetful(ctx) ==
    {[ctx EXCEPT !.dtype = Nothing], [ctx EXCEPT !.interleave = 0], [ctx EXCEPT !.layout = Nothing],
     [ctx EXCEPT !.channels = -1]}

\* To know more of an operation's context, or the revision, never makes the
\* validator accept what it would refuse knowing less. A 4-bit type is the
\* exception: it is refused until the interleave is known.
ContextOnlyRestricts ==
    \A i \in DOMAIN prog :
        LET unit == prog[i].unit
            loses4(ctx) == dtype_requires_interleave_8(ctx.dtype) /\ ctx.interleave = 0
        IN  prog[i].decision # CpuOnly =>
                /\ \A ctx \in Forgetful(unit.ctx) :
                       ~loses4(ctx) => validate_placement([unit EXCEPT !.ctx = ctx], target) # CpuOnly
                /\ validate_placement(unit, [target EXCEPT !.revision = Nothing]) # CpuOnly

Neighbours(group) ==
    /\ group # <<>>
    /\ \A k \in 2 .. Len(group) : group[k] = group[k - 1] + 1

EnginesOf(group) == {prog[group[k]].engine : k \in DOMAIN group}

OneLayer(group) ==
    Len(group) > 1 =>
        /\ Nothing \notin EnginesOf(group)
        /\ "PE" \in EnginesOf(group) => EnginesOf(group) = {"PE"}

\* The groups cut the program into runs of neighbours, each of which one
\* engine layer can hold: nothing that has no engine shares one, and what runs
\* on the elementwise engine shares one only with its like.
GroupsAreLayers ==
    groups # <<>> =>
        /\ groups[1][1] = 1 /\ Last(Last(groups)) = Len(prog)
        /\ \A g \in 2 .. Len(groups) : groups[g][1] = Last(groups[g - 1]) + 1
        /\ \A g \in DOMAIN groups : Neighbours(groups[g]) /\ OneLayer(groups[g])

\* The check of the whole program and the check of one operation more agree:
\* the program is over budget just when some operation was, on top of those
\* before it.
BudgetsAgree ==
    \A check \in checked :
        check.exceeded <=>
            \E i \in DOMAIN prog :
                check_op_l2_fit(prog[i], Total(SubSeq(prog, 1, i - 1)), check.limits)

\* An operation whose lowered form is on the CPU-only list is a likely
\* fallback, whatever the knowledge store says of it. Three kinds slip through:
\* the legality rewrite spells their patterns otherwise than the list.
GateAgrees ==
    \A op \in air :
        is_cpu_only(mil_op_name(op.kind)) /\ op.kind \notin {"Mod", "Clip", "Range1d"}
            => op.legality = "LikelyFallback"

\* A newer target accepts whatever an older one did, and a target known in
\* part whatever it accepts known in full.
AcceptanceIsMonotone == PromisesKept /\ ContextOnlyRestricts

\* The plan of a program adds up: its layers are the program cut in pieces, and
\* its memory is what the pieces were checked to take.
ProgramsAddUp == GroupsAreLayers /\ BudgetsAgree
=============================================================================
