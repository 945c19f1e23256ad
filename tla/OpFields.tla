---- MODULE OpFields ----
(***************************************************************************)
(* The operands of every operation of the three intermediate               *)
(* representations: SIR (ir/src/sir.rs), AIR (ir/src/air.rs) and MIR       *)
(* (ir/src/mir.rs), one definition per section of each enumeration.        *)
(*                                                                         *)
(* An operation maps its kind to what it reads: "nodes", the fields that   *)
(* name other operations, and "names", the strings that name a weight, a   *)
(* state or a sub-graph; "opt" are those of both an operation may lack.    *)
(* Scalars, shapes, axes, modes and data types are left out, and so is the *)
(* prefix MIL of the MIR kinds.                                            *)
(***************************************************************************)
EXTENDS TLC

Operands(nodes, names, opt) == [nodes |-> nodes, names |-> names, opt |-> opt]
Nodes(nodes) == Operands(nodes, {}, {})
Ops(kinds, operands) == [k \in kinds |-> operands]

\* Tables with nothing in common as one table.
Together(tables) ==
    [k \in UNION {DOMAIN t : t \in tables} |-> (CHOOSE t \in tables : k \in DOMAIN t)[k]]

Operand(o) == o.nodes \cup o.names

Renamed(ops, from, to) ==
    [k \in DOMAIN ops |->
        [ops[k] EXCEPT !.nodes = {IF f = from THEN to ELSE f : f \in @}]]

\* SIR: what the model builder writes and the legality rewrite reads. The
\* rewrite takes the composites apart before it converts the rest.

SirComposite == Together({
    Ops({"LinearProjection"}, Operands({"input"}, {"weight", "bias"}, {"bias"})),
    Ops({"AttentionBlock"}, Operands({"q", "k", "v", "mask", "rope"}, {}, {"mask", "rope"})),
    Ops({"RMSNorm"}, Operands({"input"}, {"weight"}, {})),
    Ops({"RoPETransform"}, Operands({"input"}, {"tables"}, {})),
    Ops({"DecodeStep"}, Operands({"token", "position"}, {"state_map", "q_weight",
        "k_weight", "v_weight", "out_weight", "rope_tables", "q_norm_weight", "k_norm_weight",
        "mask_ref"}, {"q_weight", "k_weight", "v_weight", "out_weight", "rope_tables",
        "position", "q_norm_weight", "k_norm_weight", "mask_ref"})),
    Ops({"Sampler"}, Nodes({"logits"})),
    Ops({"StateRead"}, Operands({}, {"state_id"}, {})),
    Ops({"StateWrite"}, Operands({"value"}, {"state_id"}, {}))})

SirConst ==
     Ops({"Const"}, Operands({}, {"value_path"}, {}))

SirLinear == Together({
    Ops({"MatMul"}, Nodes({"a", "b"})),
    Ops({"Einsum"}, Nodes({"inputs"}))})

SirConv ==
     Ops({"Conv", "ConvTranspose"}, Nodes({"input", "weight"}))

SirBinary ==
     Ops({"Add", "Mul", "Sub", "Maximum", "Minimum", "RealDiv", "FloorDiv", "Mod", "Pow",
         "Equal", "NotEqual", "Greater", "GreaterEqual", "Less", "LessEqual", "LogicalAnd",
         "LogicalOr", "LogicalXor"}, Nodes({"x", "y"}))

SirActivation == Together({
    Ops({"Abs", "Neg", "Sigmoid", "Tanh", "Relu", "Relu6", "LeakyRelu", "SigmoidHard",
        "ThresholdedRelu", "ClampedRelu", "LinearActivation", "Softsign", "Silu", "ScaledTanh",
        "Elu", "Softplus", "Gelu", "Clip", "Square", "Threshold"}, Nodes({"input"})),
    Ops({"Prelu"}, Operands({"input"}, {"alpha"}, {})),
    Ops({"SoftplusParametric"}, Operands({"input"}, {"alpha", "beta"}, {}))})

SirMath == Together({
    Ops({"Sqrt", "Rsqrt", "Inverse", "Ceil", "Floor", "Round", "Exp", "Exp2", "Log", "Sign",
        "Cos", "Sin", "Tan", "Acos", "Asin", "Atan", "Cosh", "Sinh", "Atanh", "Erf",
        "LogicalNot", "Cast", "Softmax"}, Nodes({"input"})),
    Ops({"Select", "Where"}, Nodes({"condition", "x", "y"}))})

SirReduction ==
     Ops({"ReduceSum", "ReduceMean", "ReduceMax", "ReduceMin", "ReduceProd", "ReduceSumSquare",
         "ReduceL2Norm", "ReduceL1Norm", "ReduceLogSumExp", "ReduceLogSum", "ReduceArgmax",
         "ReduceArgmin"}, Nodes({"input"}))

SirNorm == Together({
    Ops({"BatchNorm"}, Operands({"input"}, {"mean", "variance", "gamma", "beta"}, {"gamma",
        "beta"})),
    Ops({"InstanceNorm"}, Operands({"input"}, {"gamma", "beta"}, {"gamma", "beta"})),
    Ops({"LayerNorm"}, Operands({"input"}, {"weight", "bias"}, {"bias"})),
    Ops({"L2Norm", "LocalResponseNorm"}, Nodes({"input"}))})

SirPool ==
     Ops({"MaxPool", "AvgPool", "L2Pool"}, Nodes({"input"}))

SirResize == Together({
    Ops({"Resize", "ResizeNearestNeighbor", "ResizeBilinear", "UpsampleNearestNeighbor",
        "UpsampleBilinear"}, Nodes({"input"})),
    Ops({"CropResize"}, Nodes({"input", "boxes", "box_indices"})),
    Ops({"Affine"}, Nodes({"input", "transform"})),
    Ops({"Resample"}, Nodes({"input", "coordinates"}))})

SirShape == Together({
    Ops({"Reshape", "Transpose", "Split", "ExpandDims", "Squeeze", "Flatten2d", "Reverse",
        "SliceByIndex", "SliceBySize", "SlidingWindows"}, Nodes({"input"})),
    Ops({"ReshapeLike"}, Nodes({"input", "ref_tensor"})),
    Ops({"Concat"}, Nodes({"inputs"})),
    Ops({"ReverseSequence"}, Nodes({"input", "lengths"}))})

SirLayout == Together({
    Ops({"DepthToSpace", "SpaceToDepth", "PixelShuffle", "PixelUnshuffle", "BatchToSpace",
        "SpaceToBatch", "Pad", "Tile", "Cumsum", "Identity", "NonZero", "Argsort", "BandPart",
        "Shape", "Crop"}, Nodes({"input"})),
    Ops({"Stack"}, Nodes({"values"})),
    Ops({"Fill", "Range1d"}, Nodes({})),
    Ops({"FillLike"}, Nodes({"ref_tensor"})),
    Ops({"OneHot"}, Nodes({"indices"}))})

SirGather == Together({
    Ops({"Gather", "GatherAlongAxis", "GatherNd"}, Nodes({"input", "indices"})),
    Ops({"Scatter", "ScatterAlongAxis", "ScatterNd"}, Nodes({"input", "indices",
        "updates"})),
    Ops({"NonMaximumSuppression"}, Nodes({"boxes", "scores"}))})

SirAttention ==
     Ops({"ScaledDotProductAttention"}, Operands({"query", "key", "value", "attention_mask"},
         {}, {"attention_mask"}))

SirQuant ==
     Ops({"Quantize", "Dequantize"}, Nodes({"input"}))

SirConstexpr == Together({
    Ops({"ConstexprAffineDequantize"}, Operands({}, {"quantized_data"}, {})),
    Ops({"ConstexprBlockwiseShiftScale", "ConstexprSparseBlockwiseShiftScale"}, Operands({},
        {"data", "scale", "offset"}, {})),
    Ops({"ConstexprLutToDense"}, Operands({}, {"indices", "lut"}, {})),
    Ops({"ConstexprSparseToDense"}, Operands({}, {"nonzero_data"}, {})),
    Ops({"ConstexprCast", "ConstexprLutToSparse"}, Operands({}, {"data"}, {}))})

SirRecurrent == Together({
    Ops({"Rnn", "Gru"}, Operands({"input", "initial_h"}, {"weight_ih", "weight_hh", "bias"},
        {"bias"})),
    Ops({"Lstm"}, Operands({"input", "initial_h", "initial_c"}, {"weight_ih", "weight_hh",
        "bias"}, {"bias"}))})

SirControl == Together({
    Ops({"Cond"}, Operands({"pred"}, {"true_graph", "false_graph"}, {})),
    Ops({"WhileLoop"}, Operands({"loop_vars"}, {"condition", "body"}, {})),
    Ops({"MakeList"}, Nodes({"elems"})),
    Ops({"ListLength"}, Nodes({"ls"})),
    Ops({"ListWrite"}, Nodes({"ls", "index", "value"})),
    Ops({"ListRead"}, Nodes({"ls", "index"})),
    Ops({"ListGather"}, Nodes({"ls", "indices"})),
    Ops({"ListScatter"}, Nodes({"ls", "indices", "values"}))})

SirRandom == Together({
    Ops({"RandomBernoulli", "RandomNormal", "RandomUniform"}, Nodes({})),
    Ops({"RandomCategorical"}, Nodes({"logits"}))})

SirClassify ==
     Ops({"Topk", "Classify"}, Nodes({"input"}))

\* All of SIR. Of each operation, node_refs returns the fields in "nodes".
SirOps ==
    Together({SirComposite, SirConst, SirLinear, SirConv, SirBinary, SirActivation, SirMath,
              SirReduction, SirNorm, SirPool, SirResize, SirShape, SirLayout, SirGather,
              SirAttention, SirQuant, SirConstexpr, SirRecurrent, SirControl, SirRandom,
              SirClassify})

\* AIR: no composites; fully connected layers, fixed state accesses and
\* in-place slices are operations of their own.
AirConst == SirConst
AirLinear == Together({
    SirLinear,
    Ops({"Linear"}, Operands({"input"}, {"weight", "bias"}, {"bias"})),
    Ops({"Conv1x1AsLinear"}, Operands({"input"}, {"weight"}, {}))})
AirConv == SirConv
AirBinary == SirBinary
AirActivation == SirActivation
AirMath == SirMath
AirReduction == SirReduction
AirNorm == SirNorm
AirPool == SirPool
AirResize == SirResize
AirShape == Together({
    SirShape,
    Ops({"SliceUpdate"}, Nodes({"input", "update"}))})
AirLayout == SirLayout
AirGather == SirGather
AirAttention == SirAttention
AirQuant == SirQuant
AirConstexpr == SirConstexpr
AirRecurrent == SirRecurrent
AirControl == SirControl
AirRandom == SirRandom
AirState == Together({
    Ops({"StateReadFixed"}, Operands({}, {"state_id"}, {})),
    Ops({"StateWriteFixed"}, Operands({"value"}, {"state_id"}, {}))})
AirClassify == SirClassify

\* All of AIR. Of each operation, node_refs returns the fields in "nodes".
AirOps ==
    Together({AirConst, AirLinear, AirConv, AirBinary, AirActivation, AirMath, AirReduction,
              AirNorm, AirPool, AirResize, AirShape, AirLayout, AirGather, AirAttention,
              AirQuant, AirConstexpr, AirRecurrent, AirControl, AirRandom, AirState,
              AirClassify})

\* MIR: the first operand is called x.
WithX(ops) == Renamed(ops, "input", "x")

MirConst == AirConst
MirLinear == Together({
    Ops({"Linear"}, Operands({"x"}, {"weight", "bias"}, {"bias"})),
    Ops({"MatMul"}, Nodes({"x", "y"})),
    Ops({"Einsum"}, Nodes({"inputs"}))})
MirConv == WithX(AirConv)
MirBinary == AirBinary
MirActivation == WithX(AirActivation)
MirMath == WithX(AirMath)
MirReduction == WithX(AirReduction)
MirNorm == WithX(AirNorm)
MirPool == WithX(AirPool)
MirResize == WithX(AirResize)
MirShape == [WithX(AirShape) EXCEPT !["Concat"] = Nodes({"values"})]
MirLayout == WithX(AirLayout)
MirGather == WithX(AirGather)
MirAttention == AirAttention
MirQuant == WithX(AirQuant)
MirConstexpr == AirConstexpr
MirRecurrent == WithX(AirRecurrent)
MirControl == AirControl
MirRandom == AirRandom
MirState == Together({
    Ops({"ReadState"}, Operands({}, {"state_id"}, {})),
    Ops({"CoremlUpdateState"}, Operands({"value"}, {"state_id"}, {})),
    Ops({"StateWrite"}, Operands({"value"}, {"state_ref"}, {}))})
MirClassify == WithX(AirClassify)
MirAnec == Together({
    Ops({"AnecFusedConvActivate"}, Nodes({"x", "weight"})),
    Ops({"AnecFusedLinearActivate"}, Operands({"x"}, {"weight"}, {})),
    Ops({"AnecScaledElementwise"}, Nodes({"x", "y"})),
    Ops({"AnecBroadcast", "AnecGlobalArgMinMax", "AnecDegamma", "AnecDirac",
        "AnecGainOffsetControl", "AnecNRelu", "AnecHighPrecisionSigmoid", "AnecLog2",
        "AnecTrunc", "AnecInvert", "AnecUnflatten", "AnecChannelToSpace", "AnecSpaceToChannel"},
        Nodes({"x"}))})

\* All of MIR. Of each operation, node_refs returns the fields in "nodes".
MirOps ==
    Together({MirConst, MirLinear, MirConv, MirBinary, MirActivation, MirMath, MirReduction,
              MirNorm, MirPool, MirResize, MirShape, MirLayout, MirGather, MirAttention,
              MirQuant, MirConstexpr, MirRecurrent, MirControl, MirRandom, MirState,
              MirClassify, MirAnec})
====
