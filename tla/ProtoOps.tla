---- MODULE ProtoOps ----
(***************************************************************************)
(* The operations of the protobuf layer, MirOpCompat of                    *)
(* coreml-proto/src/lib.rs: every kind with the operands it names, one     *)
(* definition per section of the enumeration. An Unsupported operation     *)
(* keeps the inputs of whatever it stands for.                             *)
(***************************************************************************)
EXTENDS OpFields

Unary(kinds) == Ops(kinds, Nodes({"x"}))
Binary(kinds) == Ops(kinds, Nodes({"x", "y"}))
Selecting(kinds) == Ops(kinds, Nodes({"condition", "x", "y"}))
WeightNames == Operands({"x"}, {"weight_name", "bias_name"}, {"bias_name"})

ProtoCore ==
     Ops({"Const"}, Nodes({}))
  @@ Ops({"Linear"}, WeightNames)
  @@ Binary({"MatMul", "Add", "Mul", "Sub", "Maximum", "Minimum"})
  @@ Unary({"Abs", "Reshape", "Transpose", "SliceByIndex", "Softmax", "Gelu"})
  @@ Ops({"SliceUpdate"}, Nodes({"x", "update"}))
  @@ Ops({"Concat", "Stack"}, Nodes({"values"}))
  @@ Ops({"ScaledDotProductAttention"},
         Operands({"query", "key", "value", "attention_mask"}, {}, {"attention_mask"}))
  @@ Ops({"ReadState"}, Operands({}, {"state_id"}, {}))

ProtoLayers ==
     Ops({"CoremlUpdateState"}, Operands({"value"}, {"state_id"}, {}))
  @@ Ops({"StateWrite"}, Operands({"value"}, {"state_ref"}, {}))
  @@ Ops({"Gather"}, Nodes({"x", "indices"}))
  @@ Ops({"Conv"}, Nodes({"x", "weight"}))
  @@ Ops({"LayerNorm"}, WeightNames)
  @@ Binary({"RealDiv"})
  @@ Unary({"ReduceMean", "ReduceSum", "Rsqrt", "Topk", "Cos", "Sin", "Cast", "Split", "Exp",
            "Sigmoid", "Tanh", "Relu", "Silu"})
  @@ Selecting({"Where"})

ProtoTensors ==
     Unary({"Identity", "Tile", "Neg", "ExpandDims", "Squeeze", "Sqrt", "Clip"})
  @@ Ops({"Placeholder", "Fill"}, Nodes({}))
  @@ Ops({"FillLike"}, Nodes({"ref_tensor"}))
  @@ Binary({"Pow"})

ProtoScalars ==
     Binary({"Equal", "NotEqual", "Greater", "GreaterEqual", "Less", "LessEqual", "LogicalAnd",
             "LogicalOr", "FloorDiv", "Mod"})
  @@ Unary({"LogicalNot", "Pad", "ReduceMax", "ReduceMin", "ReduceProd", "LeakyRelu", "Ceil",
            "Floor", "Round", "Sign", "Log"})
  @@ Selecting({"Select"})

ProtoConstexpr == MirConstexpr

ProtoPool ==
     Unary({"MaxPool", "AvgPool", "L2Pool", "DepthToSpace", "SpaceToDepth", "PixelShuffle",
            "PixelUnshuffle", "L2Norm", "Quantize", "Dequantize"})
  @@ Ops({"BatchNorm"}, Operands({"x"}, {"mean", "variance", "gamma", "beta"}, {"gamma", "beta"}))
  @@ Ops({"InstanceNorm"}, Operands({"x"}, {"gamma", "beta"}, {"gamma", "beta"}))

ProtoAnec ==
     Ops({"AnecFusedConvActivate"}, Nodes({"x", "weight"}))
  @@ Binary({"AnecScaledElementwise"})

MirOpCompat ==
       ProtoCore @@ ProtoLayers @@ ProtoTensors @@ ProtoScalars @@ ProtoConstexpr @@ ProtoPool
    @@ ProtoAnec
====
