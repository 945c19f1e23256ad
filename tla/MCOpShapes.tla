---------------------------- MODULE MCOpShapes ----------------------------
(* Every kind of operation once, and those with a rule of their own with the *)
(* parameters their rules tell apart.                                        *)
EXTENDS OpShapes

MCWritten ==
    {"Add", "Mul", "Sub", "Maximum", "Minimum", "Equal", "NotEqual", "Greater",
     "GreaterEqual", "Less", "LessEqual", "FloorDiv", "Mod", "Pow", "LogicalAnd",
     "LogicalOr", "ReduceMean", "ReduceSum", "ReduceMax", "ReduceMin",
     "ReduceProd", "Softmax", "Rsqrt", "Cos", "Sin", "Exp", "Sigmoid", "Tanh",
     "Gelu", "Relu", "SliceUpdate", "LayerNorm", "BatchNorm", "InstanceNorm",
     "L2Norm", "RealDiv", "ScaledDotProductAttention", "Linear", "FillLike",
     "Silu", "Neg", "Sqrt", "Cast", "Abs", "Ceil", "Floor", "Round", "Log", "Sign",
     "Clip", "LeakyRelu", "LogicalNot", "Identity", "MatMul", "Reshape",
     "Transpose", "Split", "Concat", "Topk", "Gather", "Tile", "SliceByIndex",
     "Const", "ExpandDims", "Squeeze", "Stack", "AnecScaledElementwise",
     "Quantize", "Dequantize", "DepthToSpace", "SpaceToDepth", "PixelShuffle",
     "PixelUnshuffle", "CoremlUpdateState", "StateWrite", "Conv",
     "AnecFusedConvActivate", "Pad", "ReadState", "MaxPool", "AvgPool", "L2Pool",
     "ConstexprAffineDequantize", "ConstexprBlockwiseShiftScale",
     "ConstexprSparseBlockwiseShiftScale", "ConstexprLutToDense",
     "ConstexprSparseToDense", "ConstexprCast", "ConstexprLutToSparse"}

MCShapes == {<<2>>, <<1, 2>>, <<2, 3>>, <<2, 1, 2>>}
MCStandings ==
    {<<"input", "input">>, <<"input", "blank">>, <<"blank", "input">>, <<"weight", "input">>,
     <<"late", "input">>, <<"input", "hidden">>}

Of(kinds, ins, ps) == [kind : kinds, in : ins, p : ps, ids : {FALSE}]
None == [none |-> 0]

Ones == {<<1>>, <<3>>}
Twos == {<<1, 2>>, <<3, 1>>}
Axis(a) == [axis |-> a]
Reduced == {[axes |-> {0}, keep_dims |-> TRUE], [axes |-> {1}, keep_dims |-> FALSE]}
Targets == {[target |-> t] : t \in {<<2, 2>>, <<0, 2>>, <<0, 0>>, <<0, 3>>, <<6, 0, 0>>}}
Slice(b, e, r, m, q) ==
    [begin |-> <<b, 0>>, end |-> <<e, 0>>, stride |-> <<r, 1>>, begin_mask |-> <<FALSE, FALSE>>,
     end_mask |-> <<m, TRUE>>, squeeze_mask |-> <<q, FALSE>>]
Slices ==
    {Slice(0, 1, 1, FALSE, TRUE), Slice(0, -1, 1, FALSE, FALSE), Slice(1, 0, 1, TRUE, TRUE),
     Slice(-1, 0, 1, TRUE, FALSE), Slice(0, 0, 2, TRUE, FALSE)}

\* Tensors with channels and an image, and what moves the one into the other.
Images == {<<1, 4, 1, 1>>, <<1, 1, 2, 2>>}
Pixels == {"DepthToSpace", "SpaceToDepth", "PixelShuffle", "PixelUnshuffle"}
Attended == {<<1, 1, 1>>, <<1, 1, 2>>}

\* Operations both representations have.
Shared ==
    UNION {
        Of({"Identity"}, Ones, {[hint |-> {}]}),
        Of({"Add"}, Twos, {None}),
        Of(AirBroadcasts \ {"Add", "LogicalXor"}, {<<1, 2>>}, {None}),
        Of({"RealDiv"}, Twos, {None}),
        Of({"Where"}, {<<1, 1, 2>>, <<2, 1, 1>>}, {None}),
        Of({"ReduceSum"}, Ones, Reduced),
        Of(AirReductions \ {"ReduceSum"}, {<<1>>}, Reduced),
        Of({"Silu"}, Ones, {None}),
        Of({"MatMul"}, Twos, {None}),
        Of({"Gather"}, Twos, {Axis(0), Axis(1), Axis(-1)}),
        Of({"Concat", "Stack"}, {<<1, 2>>, <<3, 3>>}, {Axis(0), Axis(1)}),
        Of({"Reshape"}, Ones, Targets),
        Of({"Transpose"}, Ones, {[perm |-> <<1, 0>>], [perm |-> <<0, 2, 1>>]}),
        Of({"Split"}, Ones, {[axis |-> 0, num_splits |-> 2], [axis |-> 1, num_splits |-> 2]}),
        Of({"Topk"}, Ones, {[axis |-> a, k |-> 1] : a \in {0, -1}}),
        Of({"Tile"}, Ones, {[reps |-> <<1, 2>>]}),
        Of({"SliceByIndex"}, {<<1>>}, Slices),
        Of({"ExpandDims", "Squeeze"}, Ones, {[axes |-> {0}], [axes |-> {1}], [axes |-> {0, 2}]}),
        Of({"Conv"}, {<<1, 2>>},
           {[strides |-> <<r>>, dilations |-> <<d>>, pad_amounts |-> <<1, 0>>] : r \in {1, 2}, d \in {1, 2}}),
        Of({"Pad"}, Ones, {[pad_amounts |-> a] : a \in {<<0, 1, 1, 0>>, <<1, 1, 0, 0>>}}),
        Of({"Const"}, {<<1>>}, {[scalar |-> FALSE]}),
        Of({"Const"}, {<<>>}, {[scalar |-> TRUE]}) }

AirOnly ==
    UNION {
        Of({"Identity"}, {<<1>>}, {[hint |-> {s}] : s \in MCShapes}),
        Of((AirFollowers \ {"RealDiv", "Where", "Linear", "Select", "ScaledDotProductAttention"})
               \cup AirUnary, {<<1>>}, {None}),
        Of({"ScaledDotProductAttention"}, Attended, {None}),
        Of({"LogicalXor", "Select"}, {<<1, 2>>}, {None}),
        Of({"Linear"}, Ones, {[out |-> 4]}),
        Of({"Conv1x1AsLinear"}, Ones, {[out |-> 4, output_dim |-> d] : d \in {0, 4}}),
        Of({"StateReadFixed", "Fill"}, {<<>>}, {[shape |-> <<2, 2>>]}),
        Of({"StateWriteFixed"}, {<<1>>}, {None}) }

MirOnly ==
    UNION {
        Of((BridgeUnary \cup BridgeFollowers)
               \ ({"Silu", "Linear", "Select", "ReshapeLike", "ScaledDotProductAttention"} \cup Pixels),
           {<<1>>}, {None}),
        Of({"ScaledDotProductAttention"}, Attended, {None}),
        Of({"ReshapeLike"}, Twos, {None}),
        Of({"Reshape"}, {<<1>>}, {[target |-> t] : t \in Images}),
        Of(Pixels, {<<3>>}, {[block |-> 2]}),
        Of({"AnecScaledElementwise"}, {<<1, 2>>}, {None}),
        Of({"AnecFusedConvActivate"}, {<<1, 2>>},
           {[strides |-> <<1>>, dilations |-> <<1>>, pad_amounts |-> <<1, 0>>]}),
        Of({"ReadState"}, {<<>>}, {[shape |-> <<2, 2>>]}) }

MCLowerOps == Shared \cup AirOnly
MCBuildOps == Shared \cup MirOnly
=============================================================================
