--------------------------- MODULE MCOpPlacement ---------------------------
(* Every kind of operation in every context, the kinds with a check of their *)
(* own with attributes and shapes on either side of it, and programs of      *)
(* three operations for the groups and the budget.                           *)
EXTENDS OpPlacement

Plain(kind) == [Attributes EXCEPT !.kind = kind]
Unit(op, shapes, ctx) == [op |-> op, shapes |-> shapes, out |-> Unknown, ctx |-> ctx]

Dtypes ==
    {Nothing, "Fp16", "Fp32", "Fp64", "Int8", "UInt8", "UInt16", "Int32", "Bool", "Int4",
     "E4M3", "E5M2"}

Typed ==
    {[PlacementContext EXCEPT !.dtype = d] : d \in Dtypes}
    \cup {[PlacementContext EXCEPT !.dtype = d, !.interleave = 8] : d \in {"Fp16", "Int4"}}

Laid ==
    {[PlacementContext EXCEPT !.interleave = i, !.layout = l, !.channels = c,
                              !.is_const = k, !.is_int4 = q, !.is_depthwise_conv = w] :
        i \in {0} \cup Interleaves, l \in {Nothing, "ChannelFirst", "ChannelLast"},
        c \in {-1, 6, 8}, k \in BOOLEAN, q \in BOOLEAN, w \in BOOLEAN}

Flagged ==
    {[PlacementContext EXCEPT !.is_asymmetric_quant = TRUE],
     [PlacementContext EXCEPT !.is_blockwise_scale = TRUE]}

Palettized ==
    {[c EXCEPT !.dtype = d] : d \in {Nothing, "Int8"},
        c \in {PlacementContext,
               [PlacementContext EXCEPT !.has_per_channel_palettize = TRUE],
               [PlacementContext EXCEPT !.is_vector_palettized = TRUE],
               [PlacementContext EXCEPT !.is_vector_palettized = TRUE, !.has_aliasing = TRUE]}}

Image == <<1, 4, 8, 8>>

OfEveryKind ==
    {Unit(Plain(k), <<Image, Image, Image>>, c) : k \in DOMAIN MirOps, c \in Typed}

OfEveryContext == {Unit(Plain("Conv"), <<Image>>, c) : c \in Laid \cup Flagged}

\* Extents on both sides of what the chips can do.
Wide ==
    {<<1, 4, 8, w>> : w \in {16384, 16385, 32769, 65537, 131073, 262145}}
    \cup {<<1, 4, h, 8>> : h \in {4097, 8193, 16385}}
    \cup {<<1, c, 8, 8>> : c \in {16385, 32769, 65537}}
    \cup {<<>>, <<4>>, <<4, 8>>, <<4, 8, 8>>, <<1, 4, 2049, 8, 8>>, <<1, 1, 1, 1, 1, 1>>,
          <<2, 4, 8, 8>>, <<1, 4, 1, 8, 8>>}

OfEveryShape ==
    {Unit(Plain(k), <<s>>, PlacementContext) :
        k \in {"Relu", "Linear", "LayerNorm", "Transpose", "Conv", "Gather"}, s \in Wide}
    \cup {Unit(Plain("Linear"), <<Image, s>>, PlacementContext) : s \in Wide}
    \cup {Unit(Plain("Relu"), <<>>, PlacementContext)}

Attentions ==
    {Unit(Plain("ScaledDotProductAttention"), s, PlacementContext) :
        s \in {<<Image, Image>>, <<Image, Image, Image>>, <<Image, Image, Image, <<8, 8>>>>,
               <<Image, Image, <<1, 4, 8, 4>>>>, <<Image, Image, <<8>>>>,
               <<<<1, 1, 4, 8, 8>>, Image, Image>>}}

Axes == {<<>>, <<0>>, <<1>>, <<2, 3>>, <<0, 1, 2, 3>>}
Reduced ==
    {Unit([Plain(k) EXCEPT !.axes = a, !.keep_dims = h], s, PlacementContext) :
        k \in Reductions, a \in Axes, h \in BOOLEAN, s \in {<<>>, <<Image>>, <<<<4, 8>>>>}}

Concats == {Unit([Plain("Concat") EXCEPT !.axis = a], <<Image>>, PlacementContext) : a \in {-1, 0, 1}}

Casts ==
    {Unit([Plain("Cast") EXCEPT !.dtype = d], <<Image>>, [PlacementContext EXCEPT !.dtype = from]) :
        d \in Dtypes \ {Nothing}, from \in Dtypes}

Pairs ==
    {<<Image, Image>>, <<Image, <<8>>>>, <<<<4, 1>>, <<1, 8>>>>, <<<<4, 2>>, <<4, 8>>>>,
     <<<<4, 8>>, <<8, 4>>>>, <<<<3, 8>>, <<8, 4>>>>, <<<<4, 8>>, <<4, 8>>>>, <<<<8>>, <<8>>>>,
     <<Image>>}
Binaries ==
    {Unit([Plain(k) EXCEPT !.transpose_y = t], s, [PlacementContext EXCEPT !.dtype = d]) :
        k \in {"MatMul", "Add", "Maximum"}, t \in BOOLEAN, s \in Pairs, d \in {Nothing, "Fp32"}}

Amounts ==
    {<<>>, <<0, 0, 0, 0>>, <<0, 0, 1, 0>>, <<1, 0, 0, 0>>, <<0, 0, 0, 0, 1, 1, 0, 0>>,
     <<0, 0, 1, 0, 0, 0, 0, 0>>, <<0, 0, 0, 0, -1, 0, 0, 0>>,
     <<0, 0, 0, 0, 1, 0, 1, 0, 0, 0>>}
Pads ==
    {Unit([Plain("Pad") EXCEPT !.mode = m, !.pads = a], <<s>>, PlacementContext) :
        m \in {"constant", "reflect", "replicate"}, a \in Amounts,
        s \in {<<8, 8>>, Image, <<1, 4, 2, 8, 8>>}}

Weights == {<<4, 4>>, <<4, 4, 7, 7>>, <<4, 4, 8, 3>>, <<4, 4, 17, 3>>, <<4, 4, 3, 8>>, <<4, 4, 2, 3, 3>>}
Strides == {<<>>, <<1, 1>>, <<2, 2>>, <<3, 2>>, <<8, 8>>}
Convolutions ==
    {Unit([Plain(k) EXCEPT !.strides = r, !.dilations = d, !.groups = g], <<Image, w>>, c) :
        k \in {"Conv", "ConvTranspose"}, r \in Strides, d \in {<<1, 1>>, <<2, 1>>},
        g \in {1, 4}, w \in Weights, c \in Palettized}

Poolings ==
    {Unit([Plain(k) EXCEPT !.strides = r, !.kernels = s], <<Image>>, PlacementContext) :
        k \in {"MaxPool", "AvgPool", "L2Pool"}, r \in Strides,
        s \in {<<>>, <<27, 3>>, <<28, 3>>}}

MCUnits ==
    UNION {OfEveryKind, OfEveryContext, OfEveryShape, Attentions, Reduced, Concats, Casts, Binaries,
           Pads, Convolutions, Poolings}

\* One kind of each atom and engine, and constants that take a part of a
\* budget.
Links == {"Conv", "MatMul", "MaxPool", "Add", "Relu", "Reshape", "Transpose", "ReduceSum", "Relu6"}
Linked == {Unit(Plain(k), <<Image, Image>>, PlacementContext) : k \in Links}
Constant(d, s) == [Unit([Plain("Const") EXCEPT !.dtype = d], <<>>, PlacementContext) EXCEPT !.out = s]
Stored == {Constant("Fp16", Unknown)} \cup {Constant(d, s) : d \in {"Fp32", "UInt8"}, s \in {<<8192>>, <<131072>>}}
Added == {[Unit(Plain("Add"), <<s, s>>, PlacementContext) EXCEPT !.out = s] : s \in {<<64, 256>>}}
MCChains == {Linked, Stored \cup Added}

MCInfos ==
    {NoInfo} \cup [ane_legal : BOOLEAN, confidence : {9, 10, 50, 95}]
=============================================================================
