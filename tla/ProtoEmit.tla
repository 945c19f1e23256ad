---- MODULE ProtoEmit ----
(***************************************************************************)
(* The instructions the protobuf layer emits for one operation:            *)
(* mir_op_to_apple_ops of coreml-proto/src/lib.rs, one definition per      *)
(* region of its match.                                                    *)
(*                                                                         *)
(* An instruction has a type, an output and arguments that name values.    *)
(* In the table an argument is the operand of the operation it is copied   *)
(* from, or the suffix of a value the operation defines itself; "" is the  *)
(* output of the operation. Immediate arguments (shapes, axes, modes) and  *)
(* attributes are left out.                                                *)
(***************************************************************************)
EXTENDS Sequences, TLC

Instr(type, args, out) == [type |-> type, args |-> args, out |-> out]
PrivateConst(suffix) == Instr("const", <<>>, suffix)
Single(kinds, args) == [k \in kinds |-> <<Instr(k, args, "")>>]

X == "x" :> "x"
XY == "x" :> "x" @@ "y" :> "y"

EmitConst == Single({"Const"}, <<>>)
EmitLinear ==
       Single({"Linear"}, X @@ "weight" :> "weight_name" @@ "bias" :> "bias_name")
    @@ "MatMul" :> <<PrivateConst("_transpose_x_0"), PrivateConst("_transpose_y_0"),
                     Instr("MatMul", XY @@ "transpose_x" :> "_transpose_x_0"
                                        @@ "transpose_y" :> "_transpose_y_0", "")>>
EmitElementwise ==
    Single({"Add", "Mul", "Sub", "Maximum", "Minimum"}, XY) @@ Single({"Abs"}, X)
EmitShape == Single({"Reshape", "Transpose", "SliceByIndex"}, X)
update_forgotten ==
    Single({"SliceUpdate"}, X) @@ Single({"Concat", "Stack"}, "values" :> "values")
EmitConcat ==
       Single({"SliceUpdate"}, X @@ "update" :> "update")
    @@ Single({"Concat", "Stack"}, "values" :> "values")
EmitAttention ==
       Single({"Softmax", "Gelu"}, X)
    @@ Single({"ScaledDotProductAttention"},
              "query" :> "query" @@ "key" :> "key" @@ "value" :> "value"
                                 @@ "attn_mask" :> "attention_mask")
    @@ Single({"ReadState"}, "input" :> "state_id")
    @@ "CoremlUpdateState" :> <<Instr("write_state", "state" :> "state_id"
                                                  @@ "value" :> "value", "")>>
EmitGather ==
    Single({"Gather"}, X @@ "indices" :> "indices") @@ Single({"ReduceMean", "ReduceSum"}, X)

\* The scales of a quantised kernel never arrive here: the conversion of a
\* whole graph passes no quantisation along.
ConvArgs ==
    X @@ "weight" :> "weight" @@ "strides" :> "_stride" @@ "pad" :> "_pad"
      @@ "dilations" :> "_dilation"
EmitConv ==
    "Conv" :> <<PrivateConst("_stride"), PrivateConst("_pad"), PrivateConst("_dilation"),
                Instr("Conv", ConvArgs, "")>>
EmitNorm ==
       "StateWrite" :> <<Instr("write_state", "state" :> "state_ref" @@ "value" :> "value", "")>>
    @@ Single({"Rsqrt", "Topk"}, X)
    @@ Single({"RealDiv"}, XY)
    @@ Single({"LayerNorm"}, X @@ "gamma" :> "weight_name" @@ "beta" :> "bias_name")
EmitCast ==
       Single({"Cos", "Sin", "Split"}, X)
    @@ "Cast" :> <<PrivateConst("_dtype_0"), Instr("Cast", X @@ "dtype" :> "_dtype_0", "")>>

Selection == <<Instr("select", "cond" :> "condition" @@ "a" :> "x" @@ "b" :> "y", "")>>
EmitActivation ==
       Single({"Exp", "Sigmoid", "Tanh", "Relu", "Silu", "Identity"}, X)
    @@ "Where" :> Selection
    @@ "Placeholder" :> <<>>
EmitFill ==
       Single({"Tile"}, X)
    @@ "Fill" :> <<PrivateConst("__zero"), Instr("add", "x" :> "__zero", "")>>
    @@ "FillLike" :> <<Instr("mul", "x" :> "ref_tensor", "__zero"),
                       Instr("add", "x" :> "__zero", "")>>
    @@ "Neg" :> <<Instr("mul", X, "")>>
EmitRounding ==
    Single({"Sqrt", "LogicalNot", "Ceil", "Floor", "Round", "Sign", "Log"}, X)
EmitComparison ==
    Single({"Pow", "Equal", "NotEqual", "Greater", "GreaterEqual", "Less", "LessEqual",
            "LogicalAnd", "LogicalOr", "FloorDiv", "Mod"}, XY)
EmitAxes == Single({"ExpandDims", "Squeeze", "Clip", "Pad"}, X)
EmitReduce ==
       Single({"ReduceMax", "ReduceMin", "ReduceProd", "LeakyRelu"}, X)
    @@ "Select" :> Selection
EmitConstexpr ==
       Single({"ConstexprAffineDequantize"}, "quantized_data" :> "quantized_data")
    @@ Single({"ConstexprBlockwiseShiftScale", "ConstexprSparseBlockwiseShiftScale"},
              "data" :> "data" @@ "scale" :> "scale" @@ "offset" :> "offset")
    @@ Single({"ConstexprLutToDense"}, "indices" :> "indices" @@ "lut" :> "lut")
    @@ Single({"ConstexprSparseToDense"}, "nonzero_data" :> "nonzero_data")
    @@ Single({"ConstexprCast", "ConstexprLutToSparse"}, "data" :> "data")

\* A fused convolution is a convolution and an activation, a scaled
\* elementwise operation two products and their sum.
EmitFused ==
    "AnecFusedConvActivate" :>
        <<PrivateConst("_stride"), PrivateConst("_pad"), PrivateConst("_dilation"),
          PrivateConst("_groups"),
          Instr("Conv", ConvArgs @@ "groups" :> "_groups", "_conv"),
          Instr("activation", "x" :> "_conv", "")>>
EmitScaled ==
    "AnecScaledElementwise" :>
        <<PrivateConst("_scale_a"), PrivateConst("_scale_b"),
          Instr("mul", "x" :> "x" @@ "y" :> "_scale_a", "_scaled_x"),
          Instr("mul", "x" :> "y" @@ "y" :> "_scale_b", "_scaled_y"),
          Instr("add", "x" :> "_scaled_x" @@ "y" :> "_scaled_y", "")>>

\* The kinds with an arm of the match but no instruction of their own: an
\* "identity__unsupported" instruction that reads its own output.
Unwritten ==
    {"MaxPool", "AvgPool", "L2Pool", "DepthToSpace", "SpaceToDepth", "PixelShuffle",
     "PixelUnshuffle", "BatchNorm", "InstanceNorm", "L2Norm", "Quantize", "Dequantize"}
EmitUnwritten == [k \in Unwritten |-> <<Instr("identity__unsupported", "x" :> "", "")>>]

Emission ==
       EmitConst @@ EmitLinear @@ EmitElementwise @@ EmitShape @@ EmitConcat @@ EmitAttention
    @@ EmitGather @@ EmitConv @@ EmitNorm @@ EmitCast @@ EmitActivation @@ EmitFill
    @@ EmitRounding @@ EmitComparison @@ EmitAxes @@ EmitReduce @@ EmitConstexpr @@ EmitFused
    @@ EmitScaled @@ EmitUnwritten

-----------------------------------------------------------------------------
(***************************************************************************)
(* The older message format of the protobuf layer: mir_op_to_proto_op of   *)
(* coreml-proto/src/lib.rs, one message per operation. A kind without a    *)
(* message of its own is written as an identity that reads one operand, or *)
(* its own result where it has none to read.                               *)
(***************************************************************************)

Message(kinds, args) == Single(kinds, args)

\* The name of an operand goes into the field of the same name.
LegacyConst ==
    Message({"Const"}, <<>>)
    @@ Message({"Linear"}, X @@ "weight" :> "weight_name" @@ "bias" :> "bias_name")
LegacyBinary ==
    Message({"MatMul", "Add", "Mul", "Sub", "Maximum", "Minimum"}, XY)
    @@ Message({"Abs", "Reshape", "Transpose"}, X)
LegacySlices ==
    Message({"SliceByIndex", "Softmax", "Gelu"}, X)
    @@ Message({"SliceUpdate"}, X @@ "update" :> "update")
    @@ Message({"Concat", "Stack"}, "values" :> "values")
LegacyAttention ==
    Message({"ScaledDotProductAttention"},
            "query" :> "query" @@ "key" :> "key" @@ "value" :> "value"
                               @@ "attn_mask" :> "attention_mask")
    @@ Message({"ReadState"}, "state_id" :> "state_id")
    @@ Message({"CoremlUpdateState"}, "state_id" :> "state_id" @@ "value" :> "value")
    @@ Message({"Gather"}, X @@ "indices" :> "indices")
    @@ Message({"ReduceMean", "ReduceSum"}, X)
LegacyLayers ==
    Message({"Conv"}, X @@ "weight" :> "weight")
    @@ Message({"StateWrite"}, "state_ref" :> "state_ref" @@ "value" :> "value")
    @@ Message({"Rsqrt"}, X)
    @@ Message({"RealDiv"}, XY)
    @@ Message({"LayerNorm"}, X @@ "weight" :> "weight_name" @@ "bias" :> "bias_name")
LegacyUnary ==
    Message({"Topk", "Cos", "Sin", "Cast", "Split", "Exp", "Sigmoid", "Tanh", "Relu", "Silu",
             "Identity"}, X)
    @@ Message({"Where"}, "condition" :> "condition" @@ XY)

\* No message: an identity of the first operand.
PassesThrough(kinds, operand) == [k \in kinds |-> <<Instr("Identity", "x" :> operand, "")>>]
LegacyFill ==
    PassesThrough({"Tile", "Neg"}, "x")
    @@ PassesThrough({"FillLike"}, "ref_tensor")
    @@ PassesThrough({"Placeholder", "Fill"}, "")
LegacyUnwritten ==
    PassesThrough({"ExpandDims", "Squeeze", "Sqrt", "Pow", "Clip", "Equal", "NotEqual", "Greater",
                   "GreaterEqual", "Less", "LessEqual", "LogicalNot", "LogicalAnd", "LogicalOr",
                   "Pad", "ReduceMax", "ReduceMin", "ReduceProd", "Select", "LeakyRelu",
                   "FloorDiv", "Mod", "Ceil", "Floor", "Round", "Sign", "Log"}, "x")

\* A compressed constant is marked by a suffix to the name of the operation.
Marked(kind, operand) == kind :> <<Instr("Identity", "x" :> operand, "__constexpr")>>
LegacyConstexpr ==
    Marked("ConstexprAffineDequantize", "quantized_data")
    @@ Marked("ConstexprBlockwiseShiftScale", "data")
    @@ Marked("ConstexprSparseBlockwiseShiftScale", "data")
    @@ Marked("ConstexprLutToDense", "indices")
    @@ Marked("ConstexprSparseToDense", "nonzero_data")
    @@ Marked("ConstexprCast", "data")
    @@ Marked("ConstexprLutToSparse", "data")
LegacyUnsupported ==
    [k \in Unwritten \cup {"AnecFusedConvActivate", "AnecScaledElementwise"} |->
        <<Instr("Identity", "x" :> "", "__unsupported")>>]

\* The kinds that have a message of their own.
Messages ==
    LegacyConst @@ LegacyBinary @@ LegacySlices @@ LegacyAttention @@ LegacyLayers @@ LegacyUnary

Legacy ==
    Messages @@ LegacyFill @@ LegacyUnwritten @@ LegacyConstexpr @@ LegacyUnsupported
====
