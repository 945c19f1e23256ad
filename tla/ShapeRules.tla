----------------------------- MODULE ShapeRules -----------------------------
(***************************************************************************)
(* The three copies of shape inference: infer_shape of the lowering from   *)
(* AIR to MIR (passes/src/mil_lower.rs), and compat_output_shape and its   *)
(* fallible twin of the bridge (bridge/src/shape_inference.rs).            *)
(*                                                                         *)
(* An operation is a record: its kind (without the prefix of its           *)
(* representation), in, the operands, the one whose shape a rule follows   *)
(* first, and p, its parameters. A map of shapes gives what is known: an   *)
(* operand that is not in its domain is not known at all, one with an      *)
(* empty shape was recorded without a shape.                               *)
(***************************************************************************)
EXTENDS ShapeOps

Get(m, id) == IF id \in DOMAIN m THEN m[id] ELSE <<>>
Operands(m, op) == [i \in DOMAIN op.in |-> Get(m, op.in[i])]
First(m, op) == Get(m, op.in[1])
Knows(m, op, i) == op.in[i] \in DOMAIN m

----
\* Kinds by the rule infer_shape has for them.
AirBroadcasts ==
    {"Add", "Mul", "Sub", "Maximum", "Minimum", "Equal", "NotEqual", "Greater",
     "GreaterEqual", "Less", "LessEqual", "FloorDiv", "Mod", "Pow", "LogicalAnd",
     "LogicalOr", "LogicalXor"}
AirReductions ==
    {"ReduceMean", "ReduceSum", "ReduceMax", "ReduceMin", "ReduceProd", "ReduceSumSquare",
     "ReduceL2Norm", "ReduceL1Norm", "ReduceLogSumExp", "ReduceLogSum", "ReduceArgmax",
     "ReduceArgmin"}
AirFollowers ==
    {"Softmax", "Rsqrt", "Cos", "Sin", "Exp", "Sigmoid", "Tanh", "Gelu", "Relu",
     "SliceUpdate", "LayerNorm", "Relu6", "Erf", "Atanh", "BatchNorm", "InstanceNorm",
     "L2Norm", "RealDiv", "ScaledDotProductAttention", "Where", "Select", "Linear"}
AirUnary ==
    {"FillLike", "Silu", "Neg", "Sqrt", "Cast", "Abs", "Ceil", "Floor", "Round", "Log",
     "Sign", "Square", "Inverse", "Softsign", "Elu", "Softplus", "Clip", "Threshold",
     "LeakyRelu", "SigmoidHard", "ThresholdedRelu", "ClampedRelu", "LinearActivation",
     "Prelu", "ScaledTanh", "SoftplusParametric", "Tan", "Acos", "Asin", "Atan", "Cosh",
     "Sinh", "Exp2", "LogicalNot"}
AirShaped ==
    AirBroadcasts \cup AirReductions \cup AirFollowers \cup AirUnary
    \cup {"Identity", "MatMul", "Conv1x1AsLinear", "Reshape", "Transpose", "Split", "Concat",
          "StateReadFixed", "StateWriteFixed", "Topk", "Gather", "Tile", "SliceByIndex",
          "Fill", "Const", "ExpandDims", "Squeeze", "Stack"}

----
\* Leading dimensions broadcast; those of the left operand when they do not.
Batch(a, b) ==
    LET lead(s) == SubSeq(s, 1, Len(s) - 2)
        both == broadcast_shape(lead(a), lead(b))
    IN  IF both = Fails THEN lead(a) ELSE CHOOSE s \in both : TRUE
Product(a, b) == Batch(a, b) \o <<a[Len(a) - 1], b[Len(b)]>>

AirMatMul(a, b) ==
    IF Len(a) >= 2 /\ Len(b) >= 2
    THEN LET cols == a[Len(a)]  rows == b[Len(b) - 1]
         IN  IF cols > 0 /\ rows > 0 /\ cols # rows THEN Fails ELSE Ok(Product(a, b))
    ELSE Ok(CASE Len(a) = 1 /\ Len(b) = 2 -> <<b[2]>>
              [] Len(a) = 2 /\ Len(b) = 1 -> <<a[1]>>
              [] OTHER -> <<>>)

AirConv1x1(x, output_dim) ==
    IF output_dim = 0 \/ x = <<>> THEN x ELSE [x EXCEPT ![Len(x)] = output_dim]

Broadcast(a, b) ==
    IF a = <<>> THEN b
    ELSE IF b = <<>> THEN a
    ELSE LET both == broadcast_shape(a, b)
         IN  IF both = Fails THEN a ELSE CHOOSE s \in both : TRUE

\* A negative axis is added to the rank as a huge unsigned number.
AirTopk(x, p) == IF p.axis < 0 THEN x ELSE topk_shape(x, p.k, p.axis)
AirGather_from_front(x, indices, axis) == gather_shape(x, indices, Larger(0, axis))
AirGather(x, indices, axis) ==
    gather_shape(x, indices, IF axis >= 0 THEN axis ELSE Larger(0, Len(x) + axis))

\* Begin and end of each axis, read with their masks; negative ends count from
\* behind, negative begins are zero. Strides are not looked at.
Sliced(x, p) ==
    LET extent(i) == IF i \in DOMAIN x THEN x[i] ELSE 0
        from(i) == IF p.begin_mask[i] THEN 0 ELSE Larger(0, p.begin[i])
        to(i) == IF p.end_mask[i] THEN extent(i)
                 ELSE IF p.end[i] < 0 THEN Larger(0, extent(i) + p.end[i]) ELSE p.end[i]
    IN  Without([i \in DOMAIN p.begin |-> Larger(0, to(i) - from(i))],
                {i - 1 : i \in {j \in DOMAIN p.begin : p.squeeze_mask[j]}})
\* Of an input never heard of, only slices between plain indices.
SlicedBlind(p) ==
    IF \A i \in DOMAIN p.begin : p.begin[i] >= 0 /\ p.end[i] >= 0
    THEN Without([i \in DOMAIN p.begin |-> Larger(0, p.end[i] - p.begin[i])],
                 {i - 1 : i \in {j \in DOMAIN p.begin : p.squeeze_mask[j]}})
    ELSE <<>>

\* A constant by the path of its value.
AirConst(m, op) ==
    IF op.in # <<>> /\ Knows(m, op, 1) THEN First(m, op)
    ELSE IF op.p.scalar THEN <<1>> ELSE <<>>

\* Rules that need the input: an input not heard of gives no shape.
AirLayout(m, op) ==
    LET x == First(m, op)
        p == op.p
    IN  IF ~Knows(m, op, 1) THEN Ok(IF op.kind = "SliceByIndex" THEN SlicedBlind(p)
                                    ELSE IF op.kind = "Reshape" THEN p.target ELSE <<>>)
        ELSE CASE op.kind = "Reshape" -> resolve_reshape_zeros(x, p.target)
               [] op.kind = "Transpose" -> Ok(transpose_shape(x, p.perm))
               [] op.kind = "Split" -> Ok(split_shape(x, p.axis, p.num_splits))
               [] op.kind = "Topk" -> Ok(AirTopk(x, p))
               [] op.kind = "Tile" -> Ok(tile_shape(x, p.reps))
               [] op.kind = "SliceByIndex" -> Ok(Sliced(x, p))
               [] op.kind = "ExpandDims" -> Ok(expand_dims_shape(x, p.axes))
               [] op.kind = "Squeeze" -> Ok(squeeze_shape(x, p.axes))
               [] op.kind = "Conv1x1AsLinear" -> Ok(AirConv1x1(x, p.output_dim))

\* The operands of a list that are known at all.
KnownList(m, op) == SelectSeq(op.in, LAMBDA id : id \in DOMAIN m)
AirList(m, op) ==
    IF ~Knows(m, op, 1) THEN <<>>
    ELSE IF op.kind = "Stack" THEN stack_shape(First(m, op), op.p.axis, Len(op.in))
    ELSE LET known == KnownList(m, op)
         IN  concat_shape([i \in DOMAIN known |-> m[known[i]]], op.p.axis)

infer_shape(op, m) ==
    CASE op.kind = "Identity" -> Ok(IF op.p.hint # {} THEN CHOOSE s \in op.p.hint : TRUE
                                                     ELSE First(m, op))
      [] op.kind \in AirBroadcasts -> Ok(Broadcast(First(m, op), Get(m, op.in[2])))
      [] op.kind \in AirFollowers \cup AirUnary -> Ok(First(m, op))
      [] op.kind \in AirReductions -> Ok(reduce_shape(First(m, op), op.p.axes, op.p.keep_dims))
      [] op.kind = "MatMul" -> IF Knows(m, op, 1) /\ Knows(m, op, 2)
                               THEN AirMatMul(First(m, op), m[op.in[2]]) ELSE Ok(<<>>)
      [] op.kind = "Gather" -> Ok(IF ~Knows(m, op, 1) THEN <<>>
                                  ELSE IF ~Knows(m, op, 2) THEN First(m, op)
                                  ELSE AirGather(First(m, op), m[op.in[2]], op.p.axis))
      [] op.kind \in {"Concat", "Stack"} -> Ok(AirList(m, op))
      [] op.kind \in {"StateReadFixed", "Fill"} -> Ok(op.p.shape)
      [] op.kind = "StateWriteFixed" -> Ok(<<>>)
      [] op.kind = "Const" -> Ok(AirConst(m, op))
      [] op.kind \in AirShaped -> AirLayout(m, op)
      [] OTHER -> Fails

----
\* Kinds by the rule the bridge has for them.
BridgeBroadcasts ==
    {"Add", "Mul", "Sub", "Maximum", "Minimum", "RealDiv", "Pow", "FloorDiv", "Mod",
     "Equal", "NotEqual", "Greater", "GreaterEqual", "Less", "LessEqual", "LogicalAnd",
     "LogicalOr", "AnecScaledElementwise"}
BridgeReductions == AirReductions
BridgeUnary ==
    {"Rsqrt", "Silu", "Abs", "Relu", "Sigmoid", "Tanh", "Gelu", "Exp", "Cos", "Sin", "Cast",
     "Softmax", "Neg", "Sqrt", "LogicalNot", "Ceil", "Floor", "Round", "Sign", "Log",
     "LeakyRelu", "Clip", "FillLike", "LayerNorm"}
BridgeFollowers ==
    {"BatchNorm", "InstanceNorm", "L2Norm", "LocalResponseNorm", "Quantize", "Dequantize",
     "Square", "Prelu", "Softsign", "Elu", "Reverse", "DepthToSpace", "SpaceToDepth",
     "PixelShuffle", "PixelUnshuffle", "Cumsum", "Relu6", "SigmoidHard", "ThresholdedRelu",
     "ClampedRelu", "LinearActivation", "ScaledTanh", "SoftplusParametric", "Threshold",
     "Inverse", "Exp2", "ReshapeLike", "Linear", "Select", "ScaledDotProductAttention",
     "CoremlUpdateState", "StateWrite"}
BridgeConvs == {"Conv", "AnecFusedConvActivate"}
BridgeShaped ==
    BridgeBroadcasts \cup BridgeReductions \cup BridgeUnary \cup BridgeFollowers \cup BridgeConvs
    \cup {"Identity", "MatMul", "Gather", "Reshape", "Transpose", "Tile", "Fill", "ExpandDims",
          "Squeeze", "Pad", "Concat", "Where", "Topk", "ReadState", "Split", "SliceByIndex",
          "Stack", "Const", "ConvTranspose", "Flatten2d"}

\* Graph inputs the code finds by their name.
Placeholder == 0
IsPlaceholder(op) == op.kind = "Identity" /\ op.in[1] = Placeholder
NameDecides(op) == op.ids \/ IsPlaceholder(op)

BridgeMatMul(a, b) ==
    IF b = <<>> \/ Len(a) < 2 \/ Len(b) < 2 THEN a ELSE Product(a, b)

BridgeWhere(x, y, condition) ==
    IF <<>> \notin {x, y, condition}
    THEN LET xy == broadcast_shape(x, y)
             all == UNION {broadcast_shape(s, condition) : s \in xy}
         IN  IF all = Fails THEN x ELSE CHOOSE s \in all : TRUE
    ELSE IF x # <<>> THEN x ELSE IF condition # <<>> THEN condition ELSE y

\* Of a convolution: as many spatial axes as strides, those the input or the
\* kernel lacks count as one.
conv_undilated(x, weight, p) ==
    LET at(s, i, default) == IF i \in DOMAIN s THEN s[i] ELSE default
        pad(i) == at(p.pad_amounts, 2 * i - 1, 0) + at(p.pad_amounts, 2 * i, 0)
        out(i) == Larger(0, at(x, 2 + i, 1) + pad(i) - at(weight, 2 + i, 1)) \div p.strides[i] + 1
    IN  <<x[1], weight[1]>> \o [i \in DOMAIN p.strides |-> out(i)]
conv_output_shape_fallible(x, weight, p) ==
    LET at(s, i, default) == IF i \in DOMAIN s THEN s[i] ELSE default
        spatial == 1..Larger(1, Len(p.strides))
        pad(i) == IF Len(p.pad_amounts) >= 2 * Cardinality(spatial)
                  THEN at(p.pad_amounts, 2 * i - 1, 0) + at(p.pad_amounts, 2 * i, 0)
                  ELSE at(p.pad_amounts, 2 * i - 1, 0)
        kernel(i) == at(p.dilations, i, 1) * (at(weight, 2 + i, 1) - 1) + 1
        out(i) == Larger(0, at(x, 2 + i, 1) + pad(i) - kernel(i)) \div at(p.strides, i, 1) + 1
    IN  <<x[1], weight[1]>> \o [i \in spatial |-> out(i)]

conv_output_shape(m, op) ==
    IF Knows(m, op, 1) /\ Knows(m, op, 2)
    THEN conv_output_shape_fallible(m[op.in[1]], m[op.in[2]], op.p)
    ELSE First(m, op)

BridgeLayout(x, op) ==
    LET p == op.p
    IN  CASE op.kind = "Transpose" -> transpose_shape(x, p.perm)
          [] op.kind = "Tile" -> tile_shape(x, p.reps)
          [] op.kind = "ExpandDims" -> expand_dims_shape(x, p.axes)
          [] op.kind = "Squeeze" -> squeeze_shape(x, p.axes)
          [] op.kind = "Pad" -> pad_shape(x, p.pad_amounts)
          [] op.kind = "Split" -> split_shape(x, p.axis, p.num_splits)
          [] op.kind = "SliceByIndex" -> Sliced(x, p)
          [] op.kind = "Topk" -> topk_shape(x, p.k, IF p.axis < 0 THEN Len(x) + p.axis ELSE p.axis)
          [] op.kind = "Flatten2d" -> SubSeq(x, 1, p.axis)
                                      \o <<Elements(SubSeq(x, p.axis + 1, Len(x)))>>

BridgeGather(m, op) ==
    IF Knows(m, op, 2) THEN gather_shape(First(m, op), m[op.in[2]], op.p.axis) ELSE First(m, op)

BridgeConst(m, id, op) == IF id \in DOMAIN m THEN m[id] ELSE IF op.p.scalar THEN <<1>> ELSE <<>>

\* What is known of the operands decides, name and parameters aside.
Propagated(id, op, m) ==
    CASE op.kind \in BridgeBroadcasts -> Broadcast(First(m, op), Get(m, op.in[2]))
      [] op.kind \in BridgeUnary \cup BridgeFollowers \cup {"Identity"} -> First(m, op)
      [] op.kind \in BridgeReductions -> reduce_shape(First(m, op), op.p.axes, op.p.keep_dims)
      [] op.kind \in BridgeConvs -> conv_output_shape(m, op)
      [] op.kind = "MatMul" -> BridgeMatMul(First(m, op), Get(m, op.in[2]))
      [] op.kind = "Gather" -> BridgeGather(m, op)
      [] op.kind = "Where" -> BridgeWhere(First(m, op), Get(m, op.in[2]), Get(m, op.in[3]))
      [] op.kind \in {"Concat", "Stack"} -> AirList(m, op)
      [] op.kind = "Reshape" -> op.p.target
      [] op.kind \in {"Fill", "ReadState"} -> op.p.shape
      [] op.kind = "Const" -> BridgeConst(m, id, op)
      [] op.kind = "ConvTranspose" -> IF op.p.output_shape # <<>> THEN op.p.output_shape
                                                                  ELSE First(m, op)
      [] op.kind \notin BridgeShaped -> <<>>
      [] OTHER -> IF Knows(m, op, 1) THEN BridgeLayout(m[op.in[1]], op) ELSE <<>>

\* The shape of node id when it carries none of its own.
compat_output_shape(id, op, m, max_seq_len) ==
    IF NameDecides(op) THEN <<1, max_seq_len>> ELSE Propagated(id, op, m)

----
\* The fallible twin refuses what it would guess by name, and what it lacks an
\* operand for, where the other returns what it has.
FallibleByAny == BridgeBroadcasts \cup {"Where"}
FallibleByBoth == {"Gather"} \cup BridgeConvs
FallibleAlways(id, op, m) ==
    \/ op.kind \in {"Reshape", "Fill", "ReadState"}
    \/ op.kind = "ConvTranspose" /\ op.p.output_shape # <<>>
    \/ op.kind = "Const" /\ (op.p.scalar \/ id \in DOMAIN m)
FallibleKnows(id, op, m) ==
    \/ FallibleAlways(id, op, m)
    \/ op.kind \in FallibleByAny /\ \E i \in DOMAIN op.in : Knows(m, op, i)
    \/ op.kind \in FallibleByBoth /\ \A i \in {1, 2} : Knows(m, op, i)
    \/ op.kind \in BridgeShaped \ (FallibleByAny \cup FallibleByBoth \cup {"Const"}) /\ Knows(m, op, 1)

compat_output_shape_fallible(id, op, m) ==
    IF ~NameDecides(op) /\ FallibleKnows(id, op, m) THEN Ok(Propagated(id, op, m)) ELSE Fails

----
\* A graph input without a shape is taken for token ids by its name, or one element.
compat_input_shape(shape, ids, max_seq_len) ==
    IF shape # <<>> THEN shape ELSE IF ids THEN <<1, max_seq_len>> ELSE <<1>>

\* The bridge's own way to fill a target's zeros: the input's first dimension
\* goes to the first of several zeros, what is left to the last.
FirstZero(target) == CHOOSE i \in Zeros(target) : \A j \in Zeros(target) : i <= j
BatchInFirstZero(target, batch, elements) ==
    LET left == IF batch > 0 /\ elements % batch = 0 THEN elements \div batch ELSE elements
    IN  [AllInLastZero(target, left) EXCEPT ![FirstZero(target)] = batch]
resolve_reshape_shape(target, shape, batch) ==
    IF Elements(shape) = 0 \/ (PositionalFits(shape, target) /\ Zeros(target) # {})
    THEN IF Elements(shape) = 0 THEN target ELSE Positional(shape, target)
    ELSE LET remaining == Elements(shape) \div NonZero(target)
         IN  IF remaining * NonZero(target) # Elements(shape) THEN target
             ELSE IF Zeros(target) = {} THEN target
             ELSE IF Zeros(target) = {LastZero(target)} THEN AllInLastZero(target, remaining)
             ELSE BatchInFirstZero(target, batch, remaining)
=============================================================================
