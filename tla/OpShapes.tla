------------------------------ MODULE OpShapes ------------------------------
(***************************************************************************)
(* The shapes of a small graph on their way to the package: inferred while *)
(* the graph is lowered node by node (passes/src/mil_lower.rs), then used  *)
(* by the bridge to fill the targets of reshapes and propagated once more  *)
(* to nodes that carry none (mir_graph_to_compat_with_arch of              *)
(* bridge/src/mir_to_compat.rs), and last checked when the function is put *)
(* into messages (coreml-emit/src/mir_to_proto.rs). A graph may also be    *)
(* built in MIR, with no shapes but a reshape's raw target                 *)
(* (passes/src/role_mir.rs).                                               *)
(*                                                                         *)
(* truth holds the shapes the tensors have when the model runs. What the   *)
(* compiler knows of its inputs depends on what they are:                  *)
(*   "input"   a graph input whose shape is given,                         *)
(*   "blank"   a graph input with a node but without a shape,              *)
(*   "hidden"  a graph input that has neither,                             *)
(*   "weight"  a weight the lowering is told the shape of,                 *)
(*   "late"    a weight only the bridge's resolver knows.                  *)
(***************************************************************************)
EXTENDS ShapeRules

CONSTANTS
    Shapes,         \* the shapes inputs can have
    Standings,      \* what the two inputs can be
    LowerOps,       \* the AIR operations a graph can hold
    BuildOps,       \* the MIR operations of a graph built without shapes
    MaxNodes,
    MaxSeqLen,
    Written,                \* the MIR kinds that are written into messages
    MIN_IOSURFACE_BYTES,    \* the engine reads no smaller result
    ElementSize             \* bytes of an element of the inputs and results

Inputs == 1..2

Tables == INSTANCE OpConvert

ASSUME ShapesAssumption ==
    /\ \A s \in Shapes : s \in Seq(Nat \ {0}) /\ s # <<>>
    /\ Standings \subseteq [Inputs -> {"input", "blank", "hidden", "weight", "late"}]
    /\ MaxNodes \in Nat /\ MaxSeqLen \in Nat
    /\ Written = DOMAIN Tables!Compat \ Tables!IllegalKinds
    /\ MIN_IOSURFACE_BYTES \in Nat /\ ElementSize \in Nat \ {0}

VARIABLES
    entry,      \* the representation the graph enters in, "air" or "mir"
    stage,
    standing,   \* of each input
    truth,      \* the true shape of each input and node
    ops,        \* the nodes; node n has the id n + 2
    air,        \* node_shapes of the lowering
    mir,        \* the shape each MIR node carries
    targets,    \* the target a reshape is emitted with, by id
    compat,     \* node_shapes of the bridge
    surfaces    \* the results whose surfaces were held to the engine's limits
vars == <<entry, stage, standing, truth, ops, air, mir, targets, compat, surfaces>>

Id(n) == n + Cardinality(Inputs)
NodeIds == {Id(n) : n \in DOMAIN ops}

----
\* What the tensors are, by the definition of the operations.
Join(shapes) ==
    LET rank == Max({Len(s) : s \in shapes})
        dims(i) == {Aligned(s, rank)[i] : s \in shapes} \ {1}
    IN  IF \A i \in 1..rank : Cardinality(dims(i)) <= 1
        THEN Ok([i \in 1..rank |-> IF dims(i) = {} THEN 1 ELSE CHOOSE d \in dims(i) : TRUE])
        ELSE Fails

Kept(s, axes) ==
    LET kept == SetToSortSeq(Axes(s) \ axes, <)
    IN  [i \in DOMAIN kept |-> s[kept[i] + 1]]

Legal(condition, shape) == IF condition THEN {shape} ELSE {}

\* Every way to fill a target's zeros that keeps the number of elements.
Fills(s, target) ==
    {f \in [DOMAIN target -> 1..Elements(s)] :
        /\ \A i \in DOMAIN target : target[i] # 0 => f[i] = target[i]
        /\ Elements(f) = Elements(s)}

TrueMatMul(a, b) ==
    CASE Len(a) = 1 /\ Len(b) = 1 -> Legal(a = b, <<>>)
      [] Len(a) = 1 /\ Len(b) = 2 -> Legal(a[1] = b[1], <<b[2]>>)
      [] Len(a) = 2 /\ Len(b) = 1 -> Legal(a[2] = b[1], <<a[1]>>)
      [] Len(a) >= 2 /\ Len(b) >= 2 ->
            IF a[Len(a)] # b[Len(b) - 1] THEN {}
            ELSE {lead \o <<a[Len(a) - 1], b[Len(b)]>> :
                     lead \in Join({SubSeq(a, 1, Len(a) - 2), SubSeq(b, 1, Len(b) - 2)})}
      [] OTHER -> {}

TrueSlice(s, p) ==
    LET from(i) == IF p.begin_mask[i] THEN 0 ELSE IF p.begin[i] < 0 THEN s[i] + p.begin[i] ELSE p.begin[i]
        to(i) == IF p.end_mask[i] THEN s[i] ELSE IF p.end[i] < 0 THEN s[i] + p.end[i] ELSE p.end[i]
        taken(i) == {j \in 0..(s[i] - 1) : from(i) <= j /\ j < to(i) /\ (j - from(i)) % p.stride[i] = 0}
        size == [i \in DOMAIN s |-> Cardinality(taken(i))]
        squeezed == {i - 1 : i \in {j \in DOMAIN s : p.squeeze_mask[j]}}
    IN  Legal(/\ DOMAIN p.begin = DOMAIN s
              /\ \A i \in DOMAIN s : size[i] > 0 /\ (p.squeeze_mask[i] => size[i] = 1),
              Kept(size, squeezed))

\* Padding is given as in Core ML, a pair (before, after) for each axis.
AroundAxis(amounts, i) == amounts[2 * i - 1] + amounts[2 * i]

TrueLayout(op, s) ==
    LET p == op.p
        rank == Len(s)
    IN  CASE op.kind = "Transpose" -> Legal(Len(p.perm) = rank, [i \in DOMAIN s |-> s[p.perm[i] + 1]])
          [] op.kind = "Split" ->
                Legal(p.axis < rank /\ Dim(s, p.axis) % p.num_splits = 0,
                      WithDim(s, p.axis, Dim(s, p.axis) \div p.num_splits))
          [] op.kind = "Topk" -> Legal(p.axis < rank /\ -rank <= p.axis,
                                       WithDim(s, p.axis % rank, p.k))
          [] op.kind = "Tile" -> Legal(Len(p.reps) = rank, [i \in DOMAIN s |-> s[i] * p.reps[i]])
          [] op.kind = "SliceByIndex" -> TrueSlice(s, p)
          [] op.kind = "ExpandDims" ->
                Legal(\A a \in p.axes : a < rank + Cardinality(p.axes),
                      [i \in 1..(rank + Cardinality(p.axes)) |->
                          IF i - 1 \in p.axes THEN 1
                          ELSE s[i - Cardinality({a \in p.axes : a < i - 1})]])
          [] op.kind = "Squeeze" -> Legal(\A a \in p.axes : a < rank /\ Dim(s, a) = 1, Kept(s, p.axes))
          [] op.kind = "Pad" -> Legal(Len(p.pad_amounts) = 2 * rank,
                                      [i \in DOMAIN s |-> s[i] + AroundAxis(p.pad_amounts, i)])
          [] op.kind \in {"Linear", "Conv1x1AsLinear"} -> {WithDim(s, rank - 1, p.out)}
          [] op.kind = "Reshape" ->
                IF PositionalFits(s, p.target) THEN {Positional(s, p.target)} ELSE Fills(s, p.target)

TrueConv(s, p) ==
    LET extent(i) == s[1][2 + i] + p.pad_amounts[2 * i - 1] + p.pad_amounts[2 * i]
        starts(i) == {j \in 0..(extent(i) - 1) :
                         /\ j % p.strides[i] = 0
                         /\ j + p.dilations[i] * (s[2][2 + i] - 1) < extent(i)}
        spatial == DOMAIN p.strides
    IN  IF Len(s[1]) # 2 + Len(p.strides) \/ Len(s[2]) # Len(s[1]) THEN {}
        ELSE Legal(s[1][2] = s[2][2] /\ \A i \in spatial : starts(i) # {},
                   <<s[1][1], s[2][1]>> \o [i \in spatial |-> Cardinality(starts(i))])

\* Operations that keep the shape of the operand listed first, by what they
\* compute: one element from one element, a normalisation, a rearrangement
\* within an axis, a copy of a shape or a tensor written over another.
Elementwise ==
    {"Abs", "Acos", "Asin", "Atan", "Atanh", "Cast", "Ceil", "ClampedRelu", "Clip", "Cos", "Cosh",
     "Dequantize", "Elu", "Erf", "Exp", "Exp2", "Floor", "Gelu", "Inverse", "LeakyRelu",
     "LinearActivation", "Log", "LogicalNot", "Neg", "Prelu", "Quantize", "Relu", "Relu6", "Round",
     "Rsqrt", "ScaledTanh", "Sigmoid", "SigmoidHard", "Sign", "Silu", "Sin", "Sinh", "Softplus",
     "SoftplusParametric", "Softsign", "Sqrt", "Square", "Tan", "Tanh", "Threshold", "ThresholdedRelu"}
Normalisations == {"BatchNorm", "InstanceNorm", "L2Norm", "LayerNorm", "LocalResponseNorm", "Softmax"}
SameShape ==
    Elementwise \cup Normalisations
    \cup {"Cumsum", "Reverse", "FillLike", "SliceUpdate", "StateWriteFixed", "CoremlUpdateState", "StateWrite"}

\* Blocks of channels become squares of the image, or the other way round.
ToSpace(s, b) ==
    Legal(Len(s) = 4 /\ s[2] % (b * b) = 0, <<s[1], s[2] \div (b * b), s[3] * b, s[4] * b>>)
ToDepth(s, b) ==
    Legal(Len(s) = 4 /\ s[3] % b = 0 /\ s[4] % b = 0, <<s[1], s[2] * b * b, s[3] \div b, s[4] \div b>>)

\* Queries, keys and values: as many keys as values, a row for each query.
TrueAttention(q, k, v) ==
    UNION {TrueMatMul(scores, v) :
              scores \in UNION {TrueMatMul(q, kt) :
                  kt \in Legal(Len(k) >= 2 /\ Len(q) >= 2 /\ Len(v) >= 2,
                               SubSeq(k, 1, Len(k) - 2) \o <<k[Len(k)], k[Len(k) - 1]>>)}}

\* The shapes the result may have, none when the operation is not legal.
TrueShapes(op, s) ==
    CASE op.kind = "Identity" -> {t \in {s[1]} : op.p.hint \subseteq {t}}
      [] op.kind \in AirBroadcasts \cup BridgeBroadcasts \cup {"Where", "Select"} -> Join(ToSet(s))
      [] op.kind \in {"StateReadFixed", "ReadState", "Fill"} -> {op.p.shape}
      [] op.kind = "Const" -> IF op.p.scalar THEN {<<1>>} ELSE {s[1]}
      [] op.kind \in SameShape -> {s[1]}
      [] op.kind = "ReshapeLike" -> Legal(Elements(s[1]) = Elements(s[2]), s[1])
      [] op.kind \in {"DepthToSpace", "PixelShuffle"} -> ToSpace(s[1], op.p.block)
      [] op.kind \in {"SpaceToDepth", "PixelUnshuffle"} -> ToDepth(s[1], op.p.block)
      [] op.kind = "ScaledDotProductAttention" -> TrueAttention(s[1], s[2], s[3])
      [] op.kind \in AirReductions ->
            Legal(op.p.axes \subseteq Axes(s[1]),
                  IF op.p.keep_dims THEN [i \in DOMAIN s[1] |-> IF i - 1 \in op.p.axes THEN 1 ELSE s[1][i]]
                  ELSE Kept(s[1], op.p.axes))
      [] op.kind = "MatMul" -> TrueMatMul(s[1], s[2])
      [] op.kind = "Gather" ->
            Legal(op.p.axis < Len(s[1]) /\ -Len(s[1]) <= op.p.axis,
                  LET axis == op.p.axis % Len(s[1])
                  IN  SubSeq(s[1], 1, axis) \o s[2] \o SubSeq(s[1], axis + 2, Len(s[1])))
      [] op.kind = "Concat" ->
            Legal(/\ op.p.axis < Len(s[1])
                  /\ \A t \in ToSet(s) : Len(t) = Len(s[1]) /\ WithDim(t, op.p.axis, 1) = WithDim(s[1], op.p.axis, 1),
                  WithDim(s[1], op.p.axis, FoldLeft(LAMBDA n, t : n + Dim(t, op.p.axis), 0, s)))
      [] op.kind = "Stack" ->
            Legal(op.p.axis <= Len(s[1]) /\ ToSet(s) = {s[1]},
                  SubSeq(s[1], 1, op.p.axis) \o <<Len(s)>> \o SubSeq(s[1], op.p.axis + 1, Len(s[1])))
      [] op.kind \in BridgeConvs -> TrueConv(s, op.p)
      [] OTHER -> TrueLayout(op, s[1])

----
Node(id) == ops[id - Cardinality(Inputs)]

TypeOK ==
    /\ entry \in {"air", "mir"} /\ stage \in {"open", "refused", "bridged", "rejected", "emitted"}
    /\ standing \in Standings
    /\ DOMAIN truth = Inputs \cup NodeIds
    /\ Len(ops) <= MaxNodes /\ Len(mir) = Len(ops)
    /\ DOMAIN air \subseteq DOMAIN truth /\ DOMAIN compat \subseteq DOMAIN truth
    /\ DOMAIN targets = IF stage \in {"open", "refused"} THEN {}
                        ELSE {n \in NodeIds : Node(n).kind = "Reshape"}
    /\ surfaces \subseteq NodeIds /\ (surfaces # {} => stage = "emitted")

Init ==
    /\ entry \in {"air", "mir"} /\ stage = "open"
    /\ standing \in Standings
    /\ truth \in [Inputs -> Shapes]
    /\ air = [i \in {j \in Inputs : standing[j] \in {"input", "blank", "weight"}} |->
                 IF standing[i] = "blank" THEN <<>> ELSE truth[i]]
    /\ ops = <<>> /\ mir = <<>>
    /\ targets = <<>> /\ compat = <<>> /\ surfaces = {}

\* Weights are read by constants, and by nothing else; the graph is a chain,
\* each node reads the one before.
Wired(op) ==
    /\ ops # <<>> => Id(Len(ops)) \in ToSet(op.in)
    /\ \A i \in DOMAIN op.in :
        /\ op.in[i] \in DOMAIN truth
        /\ (op.in[i] \in Inputs /\ standing[op.in[i]] \in {"weight", "late"}) <=> op.kind = "Const"

Appended(op, t, shape) ==
    /\ ops' = Append(ops, op)
    /\ truth' = truth @@ (Id(Len(ops) + 1) :> t)
    /\ mir' = Append(mir, shape)

\* One more node is lowered; its shape is remembered for those after it. The
\* nodes of graph inputs keep the shapes they start with.
Lower(op) ==
    /\ entry = "air" /\ stage = "open" /\ Len(ops) < MaxNodes /\ Wired(op)
    /\ \E t \in TrueShapes(op, Operands(truth, op)) :
         LET inferred == infer_shape(op, air)
         IN  IF inferred = Fails
             THEN stage' = "refused" /\ UNCHANGED <<truth, ops, air, mir>>
             ELSE \E shape \in inferred :
                     /\ Appended(op, t, shape)
                     /\ air' = air @@ (Id(Len(ops) + 1) :> shape)
                     /\ UNCHANGED stage
    /\ UNCHANGED <<entry, standing, targets, compat, surfaces>>

\* Or built in MIR, where only a reshape gets a shape: its target as it is.
Build(op) ==
    /\ entry = "mir" /\ stage = "open" /\ Len(ops) < MaxNodes /\ Wired(op)
    /\ \E t \in TrueShapes(op, Operands(truth, op)) :
         Appended(op, t, IF op.kind = "Reshape" THEN op.p.target ELSE <<>>)
    /\ UNCHANGED <<entry, stage, standing, air, targets, compat, surfaces>>

----
\* The MIR operation an AIR operation became, as far as shapes are concerned.
\* A convolution's weight is a file, not a node.
NoNode == -1
ToMir(op) ==
    CASE op.kind \in {"Linear", "Conv1x1AsLinear"} -> [op EXCEPT !.kind = "Conv", !.in = Append(@, NoNode)]
      [] op.kind = "StateReadFixed" -> [op EXCEPT !.kind = "ReadState"]
      [] op.kind = "StateWriteFixed" -> [op EXCEPT !.kind = "CoremlUpdateState"]
      [] op.kind = "Fill" -> [kind |-> "Const", in |-> <<>>, p |-> [scalar |-> FALSE], ids |-> FALSE]
      [] OTHER -> op
MirNode(n) == IF entry = "air" THEN ToMir(ops[n]) ELSE ops[n]

\* Shapes that MIR nodes carry, graph inputs included.
InputShape(i) == IF standing[i] = "input" THEN truth[i] ELSE <<>>
shape_map ==
    [i \in {j \in Inputs : standing[j] = "input"} |-> truth[i]]
        @@ [id \in {Id(n) : n \in {m \in DOMAIN ops : mir[m] # <<>>}} |-> mir[id - Cardinality(Inputs)]]

\* The target a reshape is emitted with. Zeros may be left.
Filled(target, shape) ==
    [i \in DOMAIN target |-> IF target[i] = 0 THEN shape[i] ELSE target[i]]
ResolvedTarget(n) ==
    LET target == ops[n].p.target
        x == ops[n].in[1]
    IN  IF 0 \notin ToSet(target) THEN target
        ELSE IF Len(mir[n]) = Len(target) /\ 0 \notin ToSet(mir[n]) THEN mir[n]
        ELSE IF x \in DOMAIN shape_map THEN resolve_reshape_shape(target, shape_map[x], shape_map[x][1])
        ELSE IF Len(mir[n]) = Len(target) THEN Filled(target, mir[n])
        ELSE target

\* Shapes before the forward pass: of graph inputs, and of constants the MIR
\* has none for.
GraphInputs == {i \in Inputs : standing[i] \in {"input", "blank", "hidden"}}
SeedInputs ==
    [i \in {j \in GraphInputs : standing[j] # "hidden"} |->
        compat_input_shape(InputShape(i), FALSE, MaxSeqLen)]
SeedConsts ==
    LET blank == {n \in DOMAIN ops : MirNode(n).kind = "Const" /\ mir[n] = <<>>}
        read(n) == MirNode(n).in # <<>>
    IN  [id \in {Id(n) : n \in {m \in blank : read(m) \/ MirNode(m).p.scalar}} |->
            IF read(id - Cardinality(Inputs)) THEN truth[Node(id).in[1]] ELSE <<1>>]

Forward ==
    LET visit(m, n) ==
            LET shape == IF mir[n] # <<>> THEN mir[n]
                         ELSE compat_output_shape(Id(n), MirNode(n), m, MaxSeqLen)
            IN  IF Id(n) \in DOMAIN m \/ shape = <<>> THEN m ELSE m @@ (Id(n) :> shape)
    IN  FoldLeftDomain(visit, SeedInputs @@ SeedConsts, ops)

\* The bridge converts the nodes, refusing a target it cannot complete, then
\* the inputs, refusing one it knows no shape of, then propagates.
Reshapes == {n \in DOMAIN ops : ops[n].kind = "Reshape"}
Bridge ==
    /\ stage = "open" /\ ops # <<>>
    /\ IF \/ \E n \in Reshapes : 0 \in ToSet(ResolvedTarget(n))
          \/ \E i \in Inputs : standing[i] = "hidden"
       THEN stage' = "refused" /\ UNCHANGED <<targets, compat>>
       ELSE /\ stage' = "bridged"
            /\ targets' = [id \in {Id(n) : n \in Reshapes} |-> ResolvedTarget(id - Cardinality(Inputs))]
            /\ compat' = Forward
    /\ UNCHANGED <<entry, standing, truth, ops, air, mir, surfaces>>

----
\* The gates before the messages are written. Kinds that have no message, kinds
\* the engine cannot take, and a state written by a function that never reads
\* it; the graph has one state.
Kinds == {MirNode(n).kind : n \in DOMAIN ops}
TurnedAway ==
    \/ ~(Kinds \subseteq Written)
    \/ Kinds \cap {"CoremlUpdateState", "StateWrite"} # {} /\ "ReadState" \notin Kinds

\* A reshape whose operand is known to have another number of elements.
Impossible(id) ==
    LET x == Node(id).in[1]
        wanted == Elements([i \in DOMAIN targets[id] |-> Max({targets[id][i], 1})])
    IN  x \in DOMAIN compat /\ Elements(compat[x]) \notin {0, wanted}

\* A concatenation that was given no shape although an operand has one.
ScalarConcat(n) ==
    /\ MirNode(n).kind = "Concat" /\ Get(compat, Id(n)) = <<>>
    /\ \E x \in ToSet(ops[n].in) : Get(compat, x) # <<>>

ZeroTarget(id) == 0 \in ToSet(targets[id])

\* The shape a result is declared with: the one recorded, or inferred again.
OutputShape(id) ==
    LET n == id - Cardinality(Inputs)
    IN  IF id \in DOMAIN compat THEN compat[id]
        ELSE IF mir[n] # <<>> THEN mir[n]
        ELSE compat_output_shape(id, MirNode(n), compat, MaxSeqLen)

\* What the engine asks of the buffers of a function's results and inputs: a
\* least size, one size for all, and [1, C, 1, S] if the rank is four. Sorting
\* them by name, which the emitter does, changes none of this.
Bytes(shape) == Max({Elements(shape), 1}) * ElementSize
validate_iosurface_sizes(results) == \A s \in results : Bytes(s) >= MIN_IOSURFACE_BYTES
Uniform(shapes) == \A s, t \in shapes : Bytes(s) = Bytes(t)
validate_surface_uniformity(results, inputs) == Uniform(results) /\ Uniform(inputs)
validate_flat_buffer_layout(results) ==
    \A s \in results : Len(s) = 4 => s[1] = 1 /\ s[3] = 1
validate_surface_constraints(results, inputs) ==
    /\ validate_iosurface_sizes(results)
    /\ validate_surface_uniformity(results, inputs)
    /\ validate_flat_buffer_layout(results)

\* Emission is strict unless its caller asks to be warned only, as the command
\* line does. The last node is a result, others may be.
ValidationPolicy == {"strict", "warn_only"}
Results == {NodeIds \cap (others \cup {Id(Len(ops))}) : others \in SUBSET NodeIds}

Malformed ==
    \/ TurnedAway
    \/ \E id \in DOMAIN targets : Impossible(id) \/ ZeroTarget(id)
    \/ \E n \in DOMAIN ops : ScalarConcat(n)

Usable(results) ==
    validate_surface_constraints({OutputShape(id) : id \in results},
                                 {SeedInputs[i] : i \in DOMAIN SeedInputs})

Reject == stage' = "rejected" /\ UNCHANGED surfaces
Emit ==
    /\ stage = "bridged"
    /\ IF Malformed THEN Reject
       ELSE \E policy \in ValidationPolicy :
               IF policy = "warn_only" THEN stage' = "emitted" /\ UNCHANGED surfaces
               ELSE \E results \in Results :
                       IF Usable(results) THEN stage' = "emitted" /\ surfaces' = results
                       ELSE Reject
    /\ UNCHANGED <<entry, standing, truth, ops, air, mir, targets, compat>>

Next ==
    \/ \E op \in LowerOps : Lower(op)
    \/ \E op \in BuildOps : Build(op)
    \/ Bridge
    \/ Emit
Spec == Init /\ [][Next]_vars

----
\* Every operand of node n is recorded with the shape it has.
Sound(m, n) ==
    \A i \in DOMAIN ops[n].in : Knows(m, ops[n], i) /\ m[ops[n].in[i]] = truth[ops[n].in[i]]
Right(n) == TrueShapes(ops[n], Operands(truth, ops[n]))
Narrow(op, s) ==
    \/ op.kind \in {"RealDiv", "Where", "Select"} /\ s[1] \notin Join(ToSet(s))
    \/ op.kind = "ScaledDotProductAttention" /\ s[1] \notin TrueShapes(op, s)

\* Rules that do not follow the operation they are for: a slice's stride and a
\* begin counted from behind are not looked at, an axis counted from behind is
\* not understood, a dense layer's width is not used, and an operand wider than
\* the first is not seen. Padding is read as all that goes before, then all that
\* goes after, and the operations that move channels into the image follow their
\* input.
SliceGuesses(op) ==
    op.kind = "SliceByIndex" /\ \E i \in DOMAIN op.p.begin : op.p.begin[i] < 0 \/ op.p.stride[i] > 1
PadsTheSame(amounts, rank) ==
    \A i \in 1..rank : AroundAxis(amounts, i) = amounts[i] + amounts[i + rank]
LowerGuesses(op, s) ==
    \/ op.kind = "Topk" /\ op.p.axis < 0
    \/ op.kind = "Linear"
    \/ op.kind = "Conv1x1AsLinear" /\ op.p.output_dim = 0
    \/ Narrow(op, s) \/ SliceGuesses(op)
BridgeGuesses(op, s) ==
    \/ op.kind = "Gather" /\ op.p.axis < 0
    \/ op.kind = "MatMul" /\ \E i \in {1, 2} : Len(s[i]) < 2
    \/ op.kind = "Conv" /\ op.in[2] = NoNode
    \/ op.kind \in {"Select", "ScaledDotProductAttention"} /\ Narrow(op, s)
    \/ op.kind \in {"DepthToSpace", "SpaceToDepth", "PixelShuffle", "PixelUnshuffle"}
    \/ op.kind = "Pad" /\ ~PadsTheSame(op.p.pad_amounts, Len(s[1]))
    \/ SliceGuesses(op)

\* Operations whose shape is left open: there is no rule, or what the rule
\* needs is a file.
LowerOpens(op) == op.kind \in {"StateWriteFixed", "Const"}
BridgeOpens(op) == op.kind \notin BridgeShaped \/ (op.kind = "Const" /\ op.in = <<>>)

\* When the lowering knows the shapes of a node's operands, the shape it gives
\* the node is the one the operation has, for every rule but those named above
\* (infer_shape and shape_ops; the shape is what later nodes, the validator and
\* the package are built from).
LoweredShapesAreTrue ==
    entry = "air" /\ stage = "open" => \A n \in DOMAIN ops :
        Sound(air, n) => \/ mir[n] \in Right(n)
                         \/ mir[n] = <<>> /\ LowerOpens(ops[n])
                         \/ LowerGuesses(ops[n], Operands(truth, ops[n]))

\* The same of the bridge, for the nodes it has to find a shape for: the two
\* copies of the rules may differ, both follow the operations.
BridgeShapesAreTrue ==
    \A n \in DOMAIN ops :
        mir[n] = <<>> /\ stage = "bridged" /\ Sound(compat, n) =>
            \/ Get(compat, Id(n)) \in Right(n)
            \/ Id(n) \notin DOMAIN compat /\ BridgeOpens(MirNode(n))
            \/ BridgeGuesses(MirNode(n), Operands(truth, ops[n]))

\* The first dimension is put into the first of several zeros even when what is
\* left to fill is no multiple of it.
BatchIsLeftOver(target, s) ==
    Cardinality(Zeros(target)) > 1 /\ (Elements(s) \div NonZero(target)) % s[1] # 0

\* A reshape whose operand carries its true shape is emitted with a target that
\* has as many elements, however the zeros of the target were filled, that one
\* way aside (mir_op_to_compat_with_shapes, resolve_reshape_shape).
ReshapeKeepsElements ==
    stage = "bridged" => \A id \in DOMAIN targets :
        LET x == Node(id).in[1]
        IN  x \in DOMAIN shape_map /\ shape_map[x] = truth[x] =>
                \/ Elements(targets[id]) = Elements(truth[x])
                \/ BatchIsLeftOver(Node(id).p.target, truth[x])

\* No reshape whose operand has its true shape anywhere, given or inferred, is
\* written into a package with another number of elements, and the results of a
\* package emitted strictly have buffers the engine can use if their shapes are
\* recorded as they are (convert_mir_to_proto_multifunction_with_policy).
PackageFits ==
    stage = "emitted" =>
        /\ \A id \in DOMAIN targets :
              LET x == Node(id).in[1]
              IN  x \in DOMAIN compat /\ compat[x] = truth[x] =>
                      Elements(targets[id]) = Elements(truth[x])
        /\ LET known == {truth[id] : id \in {i \in surfaces : Get(compat, i) = truth[i]}}
           IN  /\ Uniform(known)
               /\ \A s \in known : Bytes(s) >= MIN_IOSURFACE_BYTES

\* What the bridge emits has the shapes it says: those it infers are true, the
\* targets it completes keep the elements, and what the package is written with
\* fits the tensors.
EmittedShapesAreTrue == BridgeShapesAreTrue /\ ReshapeKeepsElements /\ PackageFits
=============================================================================
