---- MODULE OpConstraints ----
(***************************************************************************)
(* What an operation's data type, attributes and operand shapes must be    *)
(* for the accelerator to take it: the validators of                       *)
(* passes/src/dtype_constraints.rs and passes/src/op_constraints.rs that   *)
(* the placement asks. Each holds where the code returns Ok. A shape is a  *)
(* sequence of extents, batch first.                                       *)
(***************************************************************************)
EXTENDS OpEngines, Sequences, SequencesExt

-----------------------------------------------------------------------------
(* Data types.                                                             *)

is_dtype_ane_legal(dtype, family) ==
    /\ dtype \notin {"E5M2", "Int32", "Fp64"}
    /\ dtype = "E4M3" => supports_e4m3(family)

\* The list holds the names of the operations, and the placement asks with
\* the names of the variants, whose prefix no name of the list has.
UINT16_ALLOWED_OPS == {<<"Topk">>, <<"Sort">>, <<"ReduceArgmax">>, <<"ReduceArgmin">>}
op_name(kind) == <<"MIL", kind>>
validate_uint16_constraints(name, is_output) == is_output /\ name \in UINT16_ALLOWED_OPS

BOOL_MASK_INPUT_OPS == {<<"Select">>, <<"Where">>}
validate_bool_constraints(name, is_output) == ~is_output /\ name \in BOOL_MASK_INPUT_OPS

dtype_requires_interleave_8(dtype) == dtype \in {"Int4", "UInt4"}

validate_int4_uint4_ane_constraints(dtype, interleave) ==
    dtype_requires_interleave_8(dtype) => interleave = 8

is_broadcast_dtype_legal(dtype, family) ==
    broadcast_fp16_only(family) => dtype = "Fp16"

is_fp32_compute_supported(family) == family >= 13

CastDtypes == {"Fp16", "Fp32", "Int8", "UInt8"}
validate_cast_constraints(from, to) == from \in CastDtypes /\ to \in CastDtypes

-----------------------------------------------------------------------------
(* Linear algebra and convolutions.                                        *)

Rank(shape) == Len(shape)
FromEnd(shape, n) == shape[Len(shape) + 1 - n]
Largest(numbers, otherwise) ==
    IF numbers = <<>> THEN otherwise ELSE Max(ToSet(numbers))

validate_linear_constraints(input_rank, output_rank) ==
    input_rank < 5 /\ output_rank <= 5

validate_matmul_constraints(x, y, transpose_y) ==
    /\ Rank(x) \in 2 .. 4
    /\ Rank(y) \in 2 .. 4
    /\ FromEnd(x, 1) = FromEnd(y, IF transpose_y THEN 1 ELSE 2)
    /\ FromEnd(x, 2) % 2 = 0

validate_sdpa_constraints(shapes) ==
    \A i \in DOMAIN shapes : Rank(shapes[i]) <= 4

LastTwo(shape) == SubSeq(shape, Max({1, Len(shape) - 1}), Len(shape))

validate_cross_constraint_combinations(op, ctx) ==
    op.kind = "Conv" =>
        /\ ctx.is_vector_palettized =>
              /\ Largest(op.dilations, 0) <= 1
              /\ ~ctx.has_aliasing
              /\ Largest(op.strides, 0) <= 4
        /\ op.groups > 1 => ~ctx.has_per_channel_palettize

validate_deconv_constraints(op, kernel, is_vector_palettized, limits) ==
    /\ Largest(op.dilations, 0) <= 1
    /\ op.strides # <<>> /\ Last(op.strides) = 2
    /\ kernel.w <= limits.large_kernel_mode
    /\ kernel.h <= limits.large_kernel_mode
    /\ ~is_vector_palettized
    /\ Largest(op.strides, 1) > 2 => kernel.d <= 1

validate_pooling_constraints(pool_type, stride, kernel_size, limits) ==
    /\ kernel_size \in 1 .. limits.pooling
    /\ stride > 2 => pool_type = "AvgPool"

-----------------------------------------------------------------------------
(* Reductions, normalisations, data movement.                              *)

validate_reduction_constraints(op, input_rank, family) ==
    /\ op.kind \in {"ReduceLogSum", "ReduceLogSumExp"} => ~uses_a14minus_converters(family)
    /\ op.kind = "ReduceProd" /\ Len(op.axes) = input_rank =>
          ~uses_a14minus_converters(family)
    /\ input_rank >= 4 =>
          /\ 0 \notin ToSet(op.axes)
          /\ 1 \in ToSet(op.axes) => op.keep_dims

ArchitectureGated == {"Softmax", "LocalResponseNorm", "InstanceNorm"}
validate_architecture_gated_constraints(kind, family) ==
    kind \in ArchitectureGated => ~uses_a14minus_converters(family)

validate_gather_constraints(batch, depth) == batch = 1 /\ depth = 1

\* Amounts come before and after each axis in turn. From rank 4 on the first
\* axis is the batch and the second the channels; below, the first is.
validate_pad_constraints(mode, amounts, rank) ==
    LET Unpadded(axis) ==
            Len(amounts) >= 2 * axis + 2 =>
                amounts[2 * axis + 1] = 0 /\ amounts[2 * axis + 2] = 0
    IN  /\ mode \notin {"replicate", "replication", "symmetric"}
        /\ Len(amounts) >= 2 * rank
        /\ \A i \in DOMAIN amounts : amounts[i] >= 0
        /\ Unpadded(0)
        /\ rank >= 4 => Unpadded(1)
        /\ rank >= 5 => Unpadded(2)

\* Every extent is 1 or the largest of those that line up with it.
validate_elementwise_broadcast_constraints(shapes) ==
    LET ranks == {Rank(shapes[i]) : i \in DOMAIN shapes}
        At(n) == {FromEnd(shapes[i], n) : i \in {j \in DOMAIN shapes : Rank(shapes[j]) >= n}}
    IN  Len(shapes) >= 2 =>
            \A n \in 1 .. Max(ranks) : \A extent \in At(n) : extent \in {1, Max(At(n) \cup {1})}

-----------------------------------------------------------------------------
(***************************************************************************)
(* What becomes of a program once its operations have engines: the groups  *)
(* of neighbours one engine layer can hold (passes/src/fusability.rs) and  *)
(* the memory the whole takes (passes/src/l2_budget.rs). An operation is a *)
(* record with its kind, its engine, the shapes of its operands and of its *)
(* result, and a constant's data type; the shape of a tensor nobody knows  *)
(* is Unknown.                                                             *)
(***************************************************************************)

Conv == {"Conv"}
MatMul == {"Linear", "MatMul"}
Pool == {"MaxPool", "AvgPool", "L2Pool"}
ElementWiseBinary ==
    {"Add", "Sub", "Mul", "Maximum", "Minimum", "RealDiv", "FloorDiv", "Pow"}
Activation ==
    {"Relu", "Relu6", "Sigmoid", "Tanh", "SigmoidHard", "Softsign", "Elu", "Softplus",
     "Gelu", "Prelu", "ThresholdedRelu", "LinearActivation"}
Transpose == {"Reshape", "Transpose", "ExpandDims", "Squeeze", "Flatten2d", "Tile"}
GOC == {"ReduceSum", "ReduceMean", "ReduceMax", "ReduceMin", "ReduceProd"}

\* The other atoms of the code's table are the atom of no operation.
Fusable == Conv \cup MatMul \cup Pool \cup ElementWiseBinary \cup Activation \cup Transpose \cup GOC

\* A mutant for ProgramsAddUp: a transpose also goes with elementwise work.
check_engines_but_dma(producer, consumer) ==
    Nothing \notin {producer, consumer} /\ {producer, consumer} # {"NE", "PE"}

check_engine_compatibility(producer, consumer) ==
    /\ Nothing \notin {producer, consumer}
    /\ producer = consumer \/ {producer, consumer} = {"NE", "TransposeEngine"}

\* Every pair the table allows; a transpose goes with everything.
check_atom_compatibility(producer, consumer) ==
    \/ producer \in Transpose
    \/ consumer \in Transpose
    \/ producer \in Conv \cup MatMul \cup ElementWiseBinary
         /\ consumer \in Activation \cup ElementWiseBinary \cup GOC
    \/ producer \in Activation /\ consumer \in ElementWiseBinary \cup GOC
    \/ producer \in GOC /\ consumer \in Activation \cup ElementWiseBinary
    \/ producer \in Pool /\ consumer \in Activation \cup GOC

check_fusability(producer, consumer) ==
    /\ check_engine_compatibility(producer.engine, consumer.engine)
    /\ {producer.kind, consumer.kind} \subseteq Fusable
    /\ check_atom_compatibility(producer.kind, consumer.kind)

\* An operation joins its neighbour's group or opens one.
Joined(ops, groups, i) ==
    IF i > 1 /\ check_fusability(ops[i - 1], ops[i])
    THEN [groups EXCEPT ![Len(groups)] = Append(@, i)]
    ELSE Append(groups, <<i>>)

\* One pass over the program.
identify_fusion_groups(ops) ==
    LET grouped[i \in 0 .. Len(ops)] ==
            IF i = 0 THEN <<>> ELSE Joined(ops, grouped[i - 1], i)
    IN  grouped[Len(ops)]

-----------------------------------------------------------------------------
Unknown == <<0>>
Elements(shape) ==
    LET product[i \in 0 .. Len(shape)] == IF i = 0 THEN 1 ELSE product[i - 1] * shape[i]
    IN  product[Len(shape)]
Bytes(dtype) ==
    IF dtype \in {"Fp32", "Int32"} THEN 4 ELSE IF dtype \in {"UInt8", "Bool"} THEN 1 ELSE 2

\* The sums of the first values, of which the last is the sum of all.
running_sum(values) ==
    LET sum[i \in 0 .. Len(values)] == IF i = 0 THEN 0 ELSE sum[i - 1] + values[i]
    IN  sum

estimate_op_l2_footprint(op) ==
    LET inputs == [i \in DOMAIN op.shapes |-> Elements(op.shapes[i])]
    IN  IF op.kind = "Const" THEN Elements(op.out) * Bytes(op.dtype)
        ELSE 2 * (running_sum(inputs)[Len(inputs)] + Elements(op.out))

Footprints(ops) == [i \in DOMAIN ops |-> estimate_op_l2_footprint(ops[i])]
Total(ops) == running_sum(Footprints(ops))[Len(ops)]

check_l2_budget(ops, limits) == Total(ops) > total_l2_budget(limits)

check_op_l2_fit(op, cumulative, limits) ==
    cumulative + estimate_op_l2_footprint(op) > total_l2_budget(limits)
====
