---- MODULE OpEngines ----
(***************************************************************************)
(* Which engine of the accelerator an operation of the lowered graph runs  *)
(* on, and the two lists that keep operations off it: the engines          *)
(* themselves (base_engine of ir/src/mir.rs, engine_for_op of              *)
(* ir/src/ane_placement.rs) and the names of CPU_ONLY_OPS                  *)
(* (passes/src/cpu_only_ops.rs), which the legality rewrite looks up by    *)
(* the pattern it gives the operation.                                     *)
(*                                                                         *)
(* A name is written as the kind it spells, Add for "add". The few that    *)
(* spell no kind are written out, and the names of CPU_ONLY_OPS that no    *)
(* operation has are left out.                                             *)
(***************************************************************************)
EXTENDS AneTarget, OpFields

NeuralEngine ==
    {"Linear", "MatMul", "Conv", "ConvTranspose", "ScaledDotProductAttention",
     "AnecFusedConvActivate", "AnecScaledElementwise", "MaxPool", "AvgPool",
     "L2Pool", "Resample", "Resize", "ResizeNearestNeighbor", "ResizeBilinear",
     "UpsampleNearestNeighbor", "UpsampleBilinear", "CropResize", "Affine",
     "DepthToSpace", "SpaceToDepth", "PixelShuffle", "PixelUnshuffle",
     "BatchToSpace", "SpaceToBatch"}

ProcessingElement ==
    {"Add", "Mul", "Sub", "Maximum", "Minimum", "RealDiv", "FloorDiv", "Pow",
     "Equal", "NotEqual", "Greater", "GreaterEqual", "Less", "LessEqual", "Abs",
     "Sigmoid", "Tanh", "Relu", "LeakyRelu", "Silu", "Elu", "Gelu", "Square",
     "Sqrt", "Rsqrt", "Ceil", "Floor", "Round", "Exp", "Exp2", "Log", "Sign",
     "Cos", "Sin", "Erf", "Cast", "Softmax", "ReduceSum", "ReduceMean",
     "ReduceMax", "ReduceMin", "ReduceProd", "ReduceSumSquare", "ReduceL2Norm",
     "ReduceL1Norm", "ReduceLogSumExp", "ReduceLogSum", "ReduceArgmax",
     "ReduceArgmin", "BatchNorm", "InstanceNorm", "LayerNorm", "L2Norm",
     "LocalResponseNorm", "Reshape", "ReshapeLike", "ExpandDims", "Squeeze",
     "Flatten2d", "Concat", "Split", "Stack", "Tile", "Pad", "SliceByIndex",
     "SliceBySize", "Quantize", "Dequantize", "Topk", "Identity", "Crop"}

TransposeEngine == {"Transpose"}

base_engine(kind) ==
    IF kind \in NeuralEngine THEN "NE"
    ELSE IF kind \in ProcessingElement THEN "PE"
    ELSE IF kind \in TransposeEngine THEN "TransposeEngine"
    ELSE Nothing

\* What a family cannot do of what the engines do.
Overridden(kind, family) ==
    \/ kind \in {"ReduceArgmax", "ReduceArgmin"} /\ ~supports_argminmax(family)
    \/ kind \in {"ReduceL2Norm", "Square"} /\ uses_a14minus_converters(family)
    \/ kind = "ScaledDotProductAttention" /\ ~supports_sdpa(family)
    \/ kind = "LayerNorm" /\ ~supports_layernorm(family)

engine_for_op(kind, revision) ==
    IF revision # Nothing /\ Overridden(kind, Family[revision]) THEN Nothing
    ELSE base_engine(kind)

is_cpu_only_unified(kind) == engine_for_op(kind, Nothing) = Nothing

-----------------------------------------------------------------------------
(* By name. The MIR and the patterns of the legality rewrite spell three   *)
(* kinds differently.                                                      *)

CpuOnlyFirst ==
    {"Acos", "Asin", "Atan", "Atanh", "Tan", "Sinh", "Cosh", "Gru", "Lstm", "Rnn",
     "Cumsum", "RandomNormal", "RandomUniform", "RandomCategorical",
     "RandomBernoulli", "WhileLoop", "Cond", "Scatter", "ScatterAlongAxis",
     "ScatterNd", "Shape", "BandPart", "OneHot", "Softplus", "Softsign", "Modulo",
     "NonZero", "Range1d", "Clamp", "Prelu", "Fill", "FillLike", "Select", "Where",
     "Gather", "GatherAlongAxis", "GatherNd", "ConstexprBlockwiseShiftScale",
     "ConstexprSparseBlockwiseShiftScale", "LogicalAnd", "LogicalOr", "LogicalXor",
     "LogicalNot", "NonMaximumSuppression", "ListRead", "ListWrite", "ListGather",
     "ListScatter", "MakeList", "ListLength", "ReverseSequence"}

CpuOnlyAdded ==
    {"Relu6", "SigmoidHard", "ThresholdedRelu", "ClampedRelu", "LinearActivation",
     "ScaledTanh", "SoftplusParametric", "Threshold", "Inverse", "Einsum",
     "SliceUpdate", "SlidingWindows", "Reverse", "Argsort", "Neg", "Round", "Tile",
     "MaxPool", "AvgPool", "L2Pool", "Resize", "ResizeNearestNeighbor",
     "ResizeBilinear", "UpsampleNearestNeighbor", "UpsampleBilinear", "CropResize",
     "Affine", "Resample", "DepthToSpace", "SpaceToDepth", "PixelShuffle",
     "PixelUnshuffle", "BatchToSpace", "SpaceToBatch", "BatchNorm", "InstanceNorm",
     "L2Norm", "Quantize", "Dequantize"}

CPU_ONLY_OPS == CpuOnlyFirst \cup CpuOnlyAdded

mil_op_name(kind) ==
    IF kind = "Mod" THEN "Modulo" ELSE IF kind = "Clip" THEN "Clamp" ELSE kind

op_pattern(kind) == IF kind = "Range1d" THEN "Range_1d" ELSE kind

is_cpu_only(name) == name \in CPU_ONLY_OPS

NoInfo == [ane_legal |-> FALSE, confidence |-> -1]

\* A mutant for GateAgrees: the store is asked first.
LegalityByStore(pattern, info) ==
    IF info.ane_legal /\ info.confidence >= 95 THEN "Verified"
    ELSE IF is_cpu_only(pattern) THEN "LikelyFallback"
    ELSE IF ~info.ane_legal /\ info.confidence >= 50 THEN "LikelyFallback"
    ELSE "Unverified"

\* The gate of make_air_node: the knowledge store is not asked about a pattern
\* that never reaches the accelerator. Confidences are in percent.
LegalityOf(pattern, info) ==
    IF is_cpu_only(pattern) THEN "LikelyFallback"
    ELSE IF info = NoInfo THEN "Unverified"
    ELSE IF info.ane_legal /\ info.confidence >= 95 THEN "Verified"
    ELSE IF ~info.ane_legal /\ info.confidence >= 50 THEN "LikelyFallback"
    ELSE IF info.confidence < 10 THEN "Unknown"
    ELSE "Unverified"
====
