---- MODULE OpConvert ----
(***************************************************************************)
(* The conversions of one operation along the compiler: SIR to AIR         *)
(* (sir_to_air_passthrough, passes/src/legality_rewrite.rs), AIR to MIR    *)
(* (the match of mil_lower, passes/src/mil_lower.rs) and MIR to the        *)
(* operations of the protobuf layer (mir_op_to_compat_with_quant,          *)
(* bridge/src/mir_to_compat.rs), one definition per section of each match. *)
(*                                                                         *)
(* A conversion maps a kind to the kind it becomes and, for every operand  *)
(* of the result, the operand it is copied from. A kind without an arm is  *)
(* not in the domain.                                                      *)
(***************************************************************************)
EXTENDS OpFields

Same(fields) == [f \in fields |-> f]
Become(kind, from) == [to |-> kind, from |-> from]

Copied(ops, kinds) == [k \in kinds |-> Become(k, Same(Operand(ops[k])))]

\* The operand "input" is called x in the result.
InputToX(ops, kinds) ==
    [k \in kinds |->
        Become(k, [f \in (Operand(ops[k]) \ {"input"}) \cup {"x"} |->
                      IF f = "x" /\ "input" \in Operand(ops[k]) THEN "input" ELSE f])]

Every(ops) == Copied(ops, DOMAIN ops)

----
\* SIR to AIR. Composites, selections and tiles are rewritten before and
\* refused here.
RewrittenBefore == DOMAIN SirComposite \cup {"Select", "Where", "Tile"}
PassConst == Every(SirConst)
PassLinear == Every(SirLinear)
PassConv == Every(SirConv)
PassBinary == Every(SirBinary)
PassUnary == Copied(SirActivation @@ SirMath,
                    DOMAIN (SirActivation @@ SirMath) \ RewrittenBefore)
PassReduction == Every(SirReduction)
PassNorm == Every(SirNorm)
PassPool == Every(SirPool)
PassResize == Every(SirResize)
PassShape == Every(SirShape)
PassLayout == Copied(SirLayout, DOMAIN SirLayout \ RewrittenBefore)
PassGather == Every(SirGather)
PassAttention == Every(SirAttention)
PassQuant == Every(SirQuant)
PassConstexpr == Every(SirConstexpr)
PassRecurrent == Every(SirRecurrent)
PassControl == Every(SirControl)
PassRandom == Every(SirRandom)
PassClassify == Every(SirClassify)

Passthrough ==
       PassConst @@ PassLinear @@ PassConv @@ PassBinary @@ PassUnary @@ PassReduction
    @@ PassNorm @@ PassPool @@ PassResize @@ PassShape @@ PassLayout @@ PassGather
    @@ PassAttention @@ PassQuant @@ PassConstexpr @@ PassRecurrent @@ PassControl
    @@ PassRandom @@ PassClassify

----
\* AIR to MIR, in the order of the match.
LowerCore ==
       "MatMul" :> Become("MatMul", "x" :> "a" @@ "y" :> "b")
    @@ "Conv1x1AsLinear" :> Become("Linear", "x" :> "input" @@ "weight" :> "weight")
    @@ InputToX(AirOps, {"Abs", "Add", "Mul", "Maximum", "Minimum", "Reshape", "Transpose",
                         "Softmax", "ReduceMean", "ReduceSum", "Rsqrt", "RealDiv",
                         "LayerNorm"})
LowerAttention ==
       InputToX(AirOps, {"Topk", "Gather", "Cos", "Sin", "ScaledDotProductAttention",
                         "SliceByIndex", "Gelu", "Relu", "Split"})
    @@ "StateReadFixed" :> Become("ReadState", Same({"state_id"}))
    @@ "StateWriteFixed" :> Become("CoremlUpdateState", Same({"state_id", "value"}))
LowerMixed ==
       "Concat" :> Become("Concat", "values" :> "inputs")
    @@ InputToX(AirOps, {"SliceUpdate", "Exp", "Sigmoid", "Tanh", "Neg", "Const", "Linear"})
LowerConv == InputToX(AirOps, {"Einsum", "Conv", "ConvTranspose"})
LowerBinary ==
    InputToX(AirOps, {"Sub", "FloorDiv", "Mod", "Pow", "Equal", "NotEqual", "Greater",
                      "GreaterEqual", "Less", "LessEqual", "LogicalAnd", "LogicalOr",
                      "LogicalXor"})
LowerActivation ==
    InputToX(AirOps, {"Relu6", "LeakyRelu", "SigmoidHard", "ThresholdedRelu", "ClampedRelu",
                      "LinearActivation", "Prelu", "Softsign", "Silu", "ScaledTanh", "Elu",
                      "Softplus", "SoftplusParametric", "Clip", "Square", "Threshold"})
LowerMath ==
    InputToX(AirOps, {"Sqrt", "Inverse", "Ceil", "Floor", "Round", "Exp2", "Log", "Sign",
                      "Tan", "Acos", "Asin", "Atan", "Cosh", "Sinh", "Atanh", "Erf",
                      "LogicalNot", "Cast"})
LowerReduction ==
    InputToX(AirOps, {"ReduceMax", "ReduceMin", "ReduceProd", "ReduceSumSquare",
                      "ReduceL2Norm", "ReduceL1Norm", "ReduceLogSumExp", "ReduceLogSum",
                      "ReduceArgmax", "ReduceArgmin"})
LowerNorm ==
    InputToX(AirOps, {"BatchNorm", "InstanceNorm", "L2Norm", "LocalResponseNorm",
                      "MaxPool", "AvgPool", "L2Pool"})
LowerResize ==
    InputToX(AirOps, {"Resize", "ResizeNearestNeighbor", "ResizeBilinear",
                      "UpsampleNearestNeighbor", "UpsampleBilinear", "CropResize",
                      "Affine", "Resample"})
LowerShape ==
    InputToX(AirOps, {"ReshapeLike", "ExpandDims", "Squeeze", "Flatten2d", "Reverse",
                      "ReverseSequence", "SliceBySize", "SlidingWindows", "DepthToSpace",
                      "SpaceToDepth", "PixelShuffle", "PixelUnshuffle", "BatchToSpace",
                      "SpaceToBatch"})
\* A fill becomes a constant whose path is made up: no weight file holds it.
MadeUp == "made up"
LowerLayout ==
       "Fill" :> Become("Const", "value_path" :> MadeUp)
    @@ InputToX(AirOps, {"Pad", "Stack", "Tile", "Cumsum", "FillLike", "Identity"})
LowerIndex ==
    InputToX(AirOps, {"OneHot", "NonZero", "Argsort", "BandPart", "Range1d", "Shape", "Crop"})
LowerGather ==
    InputToX(AirOps, {"GatherAlongAxis", "GatherNd", "Scatter", "ScatterAlongAxis",
                      "ScatterNd", "NonMaximumSuppression"})
LowerWeights == InputToX(AirOps, DOMAIN AirQuant \cup DOMAIN AirConstexpr)
LowerRecurrent == InputToX(AirOps, DOMAIN AirRecurrent)
LowerControl == InputToX(AirOps, DOMAIN AirControl)
LowerRandom == InputToX(AirOps, DOMAIN AirRandom \cup {"Classify"})

Lowering ==
       LowerCore @@ LowerAttention @@ LowerMixed @@ LowerConv @@ LowerBinary
    @@ LowerActivation @@ LowerMath @@ LowerReduction @@ LowerNorm @@ LowerResize
    @@ LowerShape @@ LowerLayout @@ LowerIndex @@ LowerGather @@ LowerWeights
    @@ LowerRecurrent @@ LowerControl @@ LowerRandom

\* The legality pass behind the match turns a fully connected layer into a
\* convolution whose weight is its second operand, and drops the bias.
Convolved == "Linear" :> Become("Conv", Same({"x", "weight"}))

----
\* MIR to the operations of the protobuf layer, in the order of the match.
\* The weights of a dense layer and of a normalisation get names of their own,
\* the bytes of a constant are looked up at once, and what has no arm becomes
\* an Unsupported operation that remembers its inputs.
Kept(kinds) == Copied(MirOps, kinds)
Weighted(kind) ==
    kind :> Become(kind, "x" :> "x" @@ "weight_name" :> "weight" @@ "bias_name" :> "bias")

CompatCore ==
       "Const" :> Become("Const", <<>>)
    @@ Weighted("Linear")
    @@ Kept({"MatMul", "Add", "Mul", "Sub", "Abs", "Maximum", "Minimum", "Reshape",
             "Transpose", "SliceByIndex"})
CompatLayers ==
       Weighted("LayerNorm")
    @@ Kept({"Concat", "Stack", "Softmax", "Gelu", "ScaledDotProductAttention", "ReadState",
             "CoremlUpdateState", "Gather", "ReduceMean", "Rsqrt", "RealDiv", "Topk", "Cos",
             "Sin", "Cast", "SliceUpdate", "Exp", "Sigmoid", "Tanh", "Relu", "Where"})
conv_arms_without_tile ==
    Kept({"Conv", "Split", "StateWrite", "ReduceSum", "Silu", "Identity", "Fill", "FillLike",
          "Neg"})
CompatConv ==
    Kept({"Conv", "Split", "StateWrite", "ReduceSum", "Silu", "Identity", "Tile", "Fill",
          "FillLike", "Neg"})
CompatMath ==
    Kept({"ExpandDims", "Squeeze", "Sqrt", "Pow", "Clip", "Equal", "NotEqual", "Greater",
          "GreaterEqual", "Less", "LessEqual", "LogicalNot", "LogicalAnd", "LogicalOr", "Pad",
          "ReduceMax", "ReduceMin", "ReduceProd", "Select", "LeakyRelu", "FloorDiv", "Mod",
          "Ceil", "Floor", "Round", "Sign", "Log"})
CompatPool ==
    Kept({"MaxPool", "AvgPool", "L2Pool", "DepthToSpace", "SpaceToDepth", "PixelShuffle",
          "PixelUnshuffle"})
CompatNorm ==
    Kept({"BatchNorm", "InstanceNorm", "L2Norm", "Quantize", "Dequantize",
          "AnecFusedConvActivate", "AnecScaledElementwise"})
CompatConstexpr == Kept(DOMAIN MirConstexpr)

Compat ==
       CompatCore @@ CompatLayers @@ CompatConv @@ CompatMath @@ CompatPool @@ CompatNorm
    @@ CompatConstexpr

\* The kinds the fallback of that match declares impossible, because an arm
\* above it handles them: it panics if one arrives there.
ImpossibleScalars ==
    {"FloorDiv", "Mod", "Pow", "Equal", "NotEqual", "Greater", "GreaterEqual", "Less",
     "LessEqual", "LogicalAnd", "LogicalOr", "Neg", "Sigmoid", "Tanh", "LeakyRelu", "Silu",
     "Clip", "Sqrt", "Ceil", "Floor", "Round", "Log", "Sign", "LogicalNot", "Select",
     "ReduceMax", "ReduceMin", "ReduceProd", "BatchNorm", "InstanceNorm", "L2Norm",
     "MaxPool", "AvgPool", "L2Pool"}
ImpossibleTensors ==
    {"ExpandDims", "Squeeze", "DepthToSpace", "SpaceToDepth", "PixelShuffle",
     "PixelUnshuffle", "Pad", "Stack", "Tile", "Fill", "FillLike", "Identity", "Quantize",
     "Dequantize"} \cup DOMAIN MirConstexpr
Impossible == ImpossibleScalars \cup ImpossibleTensors

\* Kinds that have an operation of the protobuf layer and are turned away at the
\* conversion to messages: the passes replace them before.
IllegalKinds == {"Fill", "Select", "Where"}

-----------------------------------------------------------------------------
(***************************************************************************)
(* The second conversion from MIR to the operations of the protobuf layer: *)
(* the From implementation of coreml-proto/src/lib.rs, which tools and     *)
(* tests use where no weights have to be resolved. One definition per      *)
(* section of its match; what has no row here becomes Unsupported.         *)
(***************************************************************************)

UnifyCore == "Const" :> Become("Const", <<>>) @@ Weighted("Linear") @@ Kept({"MatMul"})
UnifyConv == Kept({"Conv"})
UnifyBinary == Kept(DOMAIN MirBinary \ {"LogicalXor"})
UnifyUnary ==
    Kept({"Abs", "Neg", "Sigmoid", "Tanh", "Relu", "LeakyRelu", "Silu", "Gelu", "Clip"})
UnifyMath ==
    Kept({"Sqrt", "Rsqrt", "Ceil", "Floor", "Round", "Exp", "Log", "Sign", "Cos", "Sin",
          "LogicalNot", "Cast", "Select", "Where", "Softmax"})
UnifyReduction ==
    Kept({"ReduceSum", "ReduceMean", "ReduceMax", "ReduceMin", "ReduceProd"})
UnifyNorm == Kept({"BatchNorm", "InstanceNorm", "L2Norm"}) @@ Weighted("LayerNorm")
UnifyPool == Kept(DOMAIN MirPool)
UnifyShape ==
    Kept({"Reshape", "Transpose", "Split", "Concat", "ExpandDims", "Squeeze", "SliceByIndex",
          "SliceUpdate"})
UnifyLayout ==
    Kept({"DepthToSpace", "SpaceToDepth", "PixelShuffle", "PixelUnshuffle", "Pad", "Stack",
          "Tile", "Fill", "FillLike", "Identity"})
UnifyGather == Kept({"Gather", "ScaledDotProductAttention"})
UnifyQuant == Kept(DOMAIN MirQuant)
UnifyConstexpr == Kept(DOMAIN MirConstexpr)
UnifyState == Kept(DOMAIN MirState \cup {"Topk"})

Unify ==
       UnifyCore @@ UnifyConv @@ UnifyBinary @@ UnifyUnary @@ UnifyMath @@ UnifyReduction
    @@ UnifyNorm @@ UnifyPool @@ UnifyShape @@ UnifyLayout @@ UnifyGather @@ UnifyQuant
    @@ UnifyConstexpr @@ UnifyState

\* What the fused operations become in the conversion that emits packages but
\* not here.
OnlyEmitted == {"AnecFusedConvActivate", "AnecScaledElementwise"}
====
