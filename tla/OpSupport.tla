----------------------------- MODULE OpSupport -----------------------------
(* The report of the traced compile on what will run on the accelerator
   (src/crates/trace/src/versioned.rs): for each operation of the SIR whether
   it has a converter, has none, or has one only from some family on.        *)
EXTENDS OpEngines, FiniteSets, Sequences

Supported == [support |-> "AneSupported"]
CpuOnly == [support |-> "CpuOnly"]
NoSupport == [support |-> "Unsupported"]
FamilyGated(minimum) == [support |-> "FamilyGated", minimum |-> minimum]
SupportedIf(condition) == IF condition THEN Supported ELSE CpuOnly

-----------------------------------------------------------------------------
(* By section of the operations. *)

LinearSupport(kind) ==
    SupportedIf(kind \in {"LinearProjection", "MatMul", "Conv"})

BinarySupport(kind, family) ==
    CASE kind = "RealDiv" -> IF family <= 12 THEN FamilyGated(14) ELSE Supported
      [] kind = "Pow" -> IF family <= 12 THEN CpuOnly ELSE FamilyGated(14)
      [] OTHER -> SupportedIf(kind \notin {"FloorDiv", "Mod", "LogicalAnd", "LogicalOr", "LogicalXor"})

UnarySupport(kind) ==
    SupportedIf(kind \notin {"ThresholdedRelu", "ScaledTanh", "SoftplusParametric", "Threshold",
                             "Inverse", "Tan", "Acos", "Asin", "Atan", "Cosh", "Sinh", "Atanh",
                             "LogicalNot", "Select", "Where"})

ReductionSupport(kind, family) ==
    CASE kind = "ReduceMin" ->
             IF supports_reducemin_all_dtypes(family) THEN Supported ELSE FamilyGated(14)
      [] kind \in {"ReduceArgmax", "ReduceArgmin"} -> SupportedIf(supports_argminmax(family))
      [] OTHER -> SupportedIf(kind \notin {"ReduceProd", "ReduceLogSumExp", "ReduceLogSum"})

NormSupport(kind, family) ==
    IF kind = "LayerNorm"
    THEN IF supports_layernorm(family) THEN Supported ELSE FamilyGated(15)
    ELSE SupportedIf(kind \in {"InstanceNorm", "L2Norm"})

ImageSupport(kind, family) ==
    CASE kind \in DOMAIN SirPool -> SupportedIf(kind # "L2Pool")
      [] kind \in {"CropResize", "Affine", "Resample"} -> CpuOnly
      [] OTHER -> SupportedIf(family > 12)

AttentionSupport(family) == IF supports_sdpa(family) THEN Supported ELSE FamilyGated(16)

TransformSupport(kind) ==
    SupportedIf(kind \notin {"Reverse", "ReverseSequence", "SlidingWindows", "BatchToSpace",
                             "SpaceToBatch"})

(* A Gather along a negative axis is left to the CPU. *)
GatherSupport(kind, axis) ==
    CASE kind = "Gather" -> SupportedIf(axis >= 0)
      [] kind = "ScatterNd" -> NoSupport
      [] OTHER -> CpuOnly

ConstexprSupport(kind) ==
    SupportedIf(kind \notin {"ConstexprLutToSparse", "ConstexprSparseBlockwiseShiftScale"})

UtilitySupport(kind) ==
    CASE kind \in DOMAIN SirRandom \cup DOMAIN SirControl -> NoSupport
      [] OTHER -> SupportedIf(kind \in {"Const", "Identity", "Crop", "StateRead", "StateWrite",
                                        "RMSNorm", "RoPETransform", "DecodeStep", "AttentionBlock",
                                        "Quantize", "Dequantize"})

Utilities ==
    {"Fill", "FillLike", "Range1d", "Shape", "OneHot", "NonZero", "Argsort", "BandPart", "Crop",
     "Identity", "Cumsum"}

check_op(kind, axis, family) ==
    CASE kind \in {"LinearProjection", "ConvTranspose", "Conv"} \cup DOMAIN SirLinear -> LinearSupport(kind)
      [] kind \in DOMAIN SirBinary -> BinarySupport(kind, family)
      [] kind \in DOMAIN SirActivation \cup DOMAIN SirMath -> UnarySupport(kind)
      [] kind \in DOMAIN SirReduction -> ReductionSupport(kind, family)
      [] kind \in DOMAIN SirNorm -> NormSupport(kind, family)
      [] kind \in DOMAIN SirPool \cup DOMAIN SirResize -> ImageSupport(kind, family)
      [] kind \in DOMAIN SirAttention -> AttentionSupport(family)
      [] kind \in DOMAIN SirGather -> GatherSupport(kind, axis)
      [] kind \in (DOMAIN SirShape \cup DOMAIN SirLayout) \ Utilities -> TransformSupport(kind)
      [] kind \in DOMAIN SirConstexpr -> ConstexprSupport(kind)
      [] OTHER -> UtilitySupport(kind)

-----------------------------------------------------------------------------
(* The report. *)

family_meets_minimum(actual, minimum) == actual >= minimum

family_to_default_revision ==
    [family \in Families |-> <<"V4", "V5", "V6", "V7", "V8", "V10", "V11", "V19">>[family - 10]]

Counted(support, family) ==
    \/ support = Supported
    \/ support.support = "FamilyGated" /\ family_meets_minimum(family, support.minimum)

(* The kinds counted as supported, those that violate, and whether the graph
   is called faithful: an unsupported operation always spoils it, another one
   only when everything must run on the accelerator.                          *)
validate_sir(kinds, family, ane_only) ==
    LET of(k) == check_op(k.kind, k.axis, family)
        violations == {k \in kinds : ~Counted(of(k), family)}
    IN  [ane_supported |-> {k.kind : k \in kinds \ violations},
         violations |-> {k.kind : k \in violations},
         is_faithful |-> IF ane_only THEN violations = {}
                         ELSE \A k \in violations : of(k) # NoSupport]
=============================================================================
