------------------------------ MODULE ShapeOps ------------------------------
(***************************************************************************)
(* Shapes of tensors and how operations compute them (ir/src/shape_ops.rs, *)
(* the pure functions both passes of shape inference call).                *)
(*                                                                         *)
(* A shape is a sequence of dimensions; axes count from zero, as in the    *)
(* code. The empty shape is a scalar's and stands for "unknown" as well: a *)
(* result that may fail is a set with the shape, or the empty set.         *)
(***************************************************************************)
EXTENDS Integers, SequencesExt

Ok(shape) == {shape}
Fails == {}

Elements(shape) == FoldLeft(LAMBDA n, d : n * d, 1, shape)
Axes(shape) == 0..(Len(shape) - 1)
Dim(shape, axis) == IF axis \in Axes(shape) THEN shape[axis + 1] ELSE 1
WithDim(shape, axis, d) ==
    IF axis \in Axes(shape) THEN [shape EXCEPT ![axis + 1] = d] ELSE shape
Larger(a, b) == IF a < b THEN b ELSE a

\* The shape without the axes given, in order.
Without(shape, axes) ==
    FoldLeftDomain(LAMBDA s, i : IF i - 1 \in axes THEN s ELSE Append(s, shape[i]), <<>>, shape)

----
\* Aligned at the last axis, a missing dimension counts as one.
Aligned(shape, rank) == [i \in 1..(rank - Len(shape)) |-> 1] \o shape

broadcast_shape(a, b) ==
    LET rank == Larger(Len(a), Len(b))
        da == Aligned(a, rank)
        db == Aligned(b, rank)
    IN  IF \A i \in 1..rank : da[i] = db[i] \/ da[i] = 1 \/ db[i] = 1
        THEN Ok([i \in 1..rank |-> Larger(da[i], db[i])])
        ELSE Fails

reduce_shape(shape, axes, keep_dims) ==
    IF keep_dims THEN [i \in DOMAIN shape |-> IF i - 1 \in axes THEN 1 ELSE shape[i]]
                 ELSE Without(shape, axes)

tile_shape(shape, reps) ==
    [i \in 1..Larger(Len(shape), Len(reps)) |-> Dim(shape, i - 1) * Dim(reps, i - 1)]

\* Axes are positions of the result and inserted in ascending order; one past
\* the end is the end.
expand_dims_shape(shape, axes) ==
    FoldLeft(LAMBDA s, axis : InsertAt(s, 1 + (IF axis > Len(s) THEN Len(s) ELSE axis), 1),
             shape, SetToSortSeq(axes, <))

squeeze_shape(shape, axes) == Without(shape, axes)

\* A position the input does not have becomes zero.
transpose_shape(shape, perm) ==
    [i \in DOMAIN perm |-> IF perm[i] \in Axes(shape) THEN shape[perm[i] + 1] ELSE 0]

----
\* A target's zeros stand for dimensions to be found: those of the input at
\* the same positions when that keeps the number of elements, or else what is
\* left of them, all of it in the last zero.
Zeros(target) == {i \in DOMAIN target : target[i] = 0}
Positional(shape, target) ==
    [i \in DOMAIN target |-> IF target[i] = 0 /\ i \in DOMAIN shape THEN shape[i] ELSE target[i]]
PositionalFits(shape, target) ==
    /\ Zeros(target) \subseteq DOMAIN shape
    /\ Elements(Positional(shape, target)) = Elements(shape)
NonZero(target) == Elements(SelectSeq(target, LAMBDA d : d # 0))
LastZero(target) == CHOOSE i \in Zeros(target) : \A j \in Zeros(target) : j <= i
AllInLastZero(target, elements) ==
    [i \in DOMAIN target |->
        IF target[i] # 0 THEN target[i] ELSE IF i = LastZero(target) THEN elements ELSE 1]

\* What the second attempt starts from: the zeros the first one filled stay
\* filled when it stopped at a zero the input has no dimension for.
Restarted(shape, target) ==
    IF Zeros(target) \subseteq DOMAIN shape THEN target ELSE Positional(shape, target)

resolve_reshape_zeros(shape, target) ==
    IF Zeros(target) = {} \/ Elements(shape) = 0 THEN Ok(target)
    ELSE IF PositionalFits(shape, target) THEN Ok(Positional(shape, target))
    ELSE LET left == Restarted(shape, target)
             remaining == Elements(shape) \div NonZero(left)
         IN  IF remaining * NonZero(left) = Elements(shape)
             THEN Ok(AllInLastZero(left, remaining))
             ELSE Fails

----
\* Padding before the axes comes first, then that behind them.
pad_shape(shape, pad_amounts) ==
    [i \in DOMAIN shape |->
        LET at(j) == IF j \in DOMAIN pad_amounts THEN pad_amounts[j] ELSE 0
        IN  shape[i] + at(i) + at(i + Len(shape))]

concat_shape(shapes, axis) ==
    LET along(n, s) == n + (IF axis \in Axes(s) THEN s[axis + 1] ELSE 0)
    IN  WithDim(shapes[1], axis, FoldLeft(along, 0, shapes))

split_shape(shape, axis, num_splits) == WithDim(shape, axis, Dim(shape, axis) \div num_splits)

stack_shape(shape, axis, num_values) ==
    InsertAt(shape, 1 + (IF axis > Len(shape) THEN Len(shape) ELSE axis), num_values)

gather_shape(shape, indices, axis) ==
    IF axis \in Axes(shape)
    THEN SubSeq(shape, 1, axis) \o indices \o SubSeq(shape, axis + 2, Len(shape))
    ELSE shape

topk_shape(shape, k, axis) == WithDim(shape, axis, k)
=============================================================================
