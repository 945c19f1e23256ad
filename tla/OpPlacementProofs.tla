------------------------- MODULE OpPlacementProofs -------------------------
(***************************************************************************)
(* What the accelerator takes it keeps taking: for operations of any       *)
(* shapes, attributes and contexts, a newer target accepts what an older   *)
(* one did, and a target or a context known in part accepts what is        *)
(* accepted when it is known in full. The argument is that every validator *)
(* reads the target only through what grows along the revisions.           *)
(*                                                                         *)
(* The plan of a program of any length adds up: its fusion groups cut it   *)
(* into layers one engine can hold, and its memory is the sum of what its  *)
(* operations were checked to take.                                        *)
(*                                                                         *)
(* The legality the rewrite gives an operation respects the CPU-only list, *)
(* whatever the knowledge store says.                                      *)
(***************************************************************************)
EXTENDS OpPlacement, WellFoundedInduction, TLAPS

\* The limits that no revision changes.
SameModes(l, m) == l.large_kernel_mode = m.large_kernel_mode /\ l.pooling = m.pooling

AtMost(a, b) == a \in Nat /\ b \in Nat /\ a <= b

Within(l, m) ==
    /\ AtMost(l.width, m.width) /\ AtMost(l.height, m.height) /\ AtMost(l.depth, m.depth)
    /\ AtMost(l.channels, m.channels) /\ AtMost(l.rank, m.rank)
    /\ AtMost(l.kernel_x_8b, m.kernel_x_8b) /\ AtMost(l.kernel_x_f16, m.kernel_x_f16)
    /\ AtMost(l.kernel_y, m.kernel_y) /\ AtMost(l.conv_channels, m.conv_channels)
    /\ AtMost(l.transpose_c, m.transpose_c)

(* The target has not got smaller. *)
Grown(old, new) ==
    /\ old.dynamic = new.dynamic
    /\ old.family \in Families /\ new.family \in Families /\ old.family <= new.family
    /\ old.revision = Nothing <=> new.revision = Nothing
    /\ old.revision # Nothing => Within(for_revision[old.revision], for_revision[new.revision])
    /\ SameModes(LimitsOf(old.revision), LimitsOf(new.revision))

-----------------------------------------------------------------------------
(* The tables. *)

LEMMA RevisionsAre ==
    /\ Nothing \notin Revisions
    /\ \A r \in Revisions : Family[r] \in Families
BY DEF Revisions, Family, Families, Nothing

\* What no chip changes of what the oldest has.
Inherited(chip) ==
    /\ DOMAIN chip = DOMAIN a11_legacy
    /\ chip.depth = 2048 /\ chip.channels = 65536 /\ chip.rank = 5
    /\ chip.kernel_x_8b = 7 /\ chip.kernel_x_f16 = 7 /\ chip.kernel_y = 7
    /\ chip.large_kernel_mode = 16 /\ chip.pooling = 27
    /\ chip.conv_channels = 32768 /\ chip.transpose_c = 16384

LEMMA AllInherit == \A r \in Revisions : Inherited(for_revision[r])
<1>1. Inherited(a11_legacy)
  BY DEF Inherited, a11_legacy
<1>2. Inherited(a12)
  BY <1>1 DEF Inherited, a12
<1>3. Inherited(a13)
  BY <1>1 DEF Inherited, a13
<1>4. Inherited(a14)
  BY <1>3 DEF Inherited, a14
<1>5. Inherited(a15)
  BY <1>4 DEF Inherited, a15
<1>6. Inherited(a16)
  BY <1>5 DEF Inherited, a16
<1>7. Inherited(a17)
  BY <1>6 DEF Inherited, a17
<1>8. Inherited(a18)
  BY <1>7 DEF Inherited, a18
<1>9. Inherited(a18_pro)
  BY <1>8 DEF Inherited, a18_pro
<1>10. Inherited(a18_max)
  BY <1>9 DEF Inherited, a18_max
<1>11. Inherited(future)
  BY <1>10 DEF Inherited, future
<1>12. Inherited(m1)
  BY <1>4 DEF Inherited, m1
<1>13. Inherited(vu1)
  BY <1>7 DEF Inherited, vu1
<1> QED
  BY <1>1, <1>2, <1>3, <1>4, <1>5, <1>6, <1>7, <1>8, <1>9, <1>10, <1>11, <1>12, <1>13 DEF Revisions, Family, for_revision

LEMMA Sizes ==
    /\ a11_legacy.width = 16384 /\ a12.width = 16384 /\ a13.width = 32768 /\ a14.width = 65536
    /\ a15.width = 65536 /\ a16.width = 131072 /\ a17.width = 131072 /\ a18_pro.width = 262144
    /\ a18_max.width = 262144 /\ future.width = 262144
    /\ a11_legacy.height = 4096 /\ a12.height = 4096 /\ a13.height = 8192 /\ a14.height = 8192
    /\ a15.height = 8192 /\ a16.height = 16384 /\ a17.height = 16384 /\ a18_pro.height = 16384
    /\ a18_max.height = 16384 /\ future.height = 16384
BY DEF a11_legacy, a12, a13, a14, a15, a16, a17, m1, a18, a18_pro, a18_max, future, vu1

Widths == <<16384, 16384, 32768, 65536, 65536, 131072, 131072, 262144, 262144, 262144>>
Heights == <<4096, 4096, 8192, 8192, 8192, 16384, 16384, 16384, 16384, 16384>>
Generations == <<11, 12, 13, 14, 15, 16, 17, 18, 18, 18>>

LEMMA PhonesAre ==
    /\ DOMAIN Phones = 1..10
    /\ \A i \in 1..10 : /\ Phones[i] \in Revisions
                         /\ Family[Phones[i]] = Generations[i]
                         /\ for_revision[Phones[i]].width = Widths[i]
                         /\ for_revision[Phones[i]].height = Heights[i]
<1>1. DOMAIN Phones = 1..10
  BY DEF Phones
<1>2. ASSUME NEW i \in 1..10 PROVE Phones[i] \in Revisions /\ Family[Phones[i]] = Generations[i]
  BY DEF Phones, Revisions, Family, Generations
<1>3. ASSUME NEW i \in 1..10
      PROVE  /\ for_revision[Phones[i]].width = Widths[i]
             /\ for_revision[Phones[i]].height = Heights[i]
  <2>1. /\ for_revision["V4"] = a11_legacy /\ for_revision["V5"] = a12 /\ for_revision["V6"] = a13
        /\ for_revision["V7"] = a14 /\ for_revision["V8"] = a15 /\ for_revision["V10"] = a16
        /\ for_revision["V11"] = a17 /\ for_revision["V19"] = a18_pro
        /\ for_revision["V20"] = a18_max /\ for_revision["V26"] = future
    BY DEF for_revision
  <2> QED
    BY <2>1, Sizes DEF Phones, Widths, Heights
<1> QED
  BY <1>1, <1>2, <1>3

LEMMA PhonesGrow ==
    ASSUME NEW i \in DOMAIN Phones, NEW j \in DOMAIN Phones, i <= j
    PROVE  /\ Family[Phones[i]] <= Family[Phones[j]]
           /\ Within(for_revision[Phones[i]], for_revision[Phones[j]])
<1>1. i \in 1..10 /\ j \in 1..10
  BY PhonesAre
<1>2. /\ Generations[i] <= Generations[j]
      /\ Widths[i] \in Nat /\ Widths[j] \in Nat /\ Widths[i] <= Widths[j]
      /\ Heights[i] \in Nat /\ Heights[j] \in Nat /\ Heights[i] <= Heights[j]
  BY <1>1 DEF Generations, Widths, Heights
<1>3. Inherited(for_revision[Phones[i]]) /\ Inherited(for_revision[Phones[j]])
  BY <1>1, PhonesAre, AllInherit
<1> QED
  BY <1>1, <1>2, <1>3, PhonesAre DEF Within, AtMost, Inherited

LEMMA SameModesAlways ==
    ASSUME NEW r \in Revisions \cup {Nothing}, NEW q \in Revisions \cup {Nothing}
    PROVE  SameModes(LimitsOf(r), LimitsOf(q))
<1>1. "V7" \in Revisions
  BY DEF Revisions, Family
<1> QED
  BY <1>1, AllInherit DEF LimitsOf, SameModes, Inherited

LEMMA TargetsAre ==
    ASSUME NEW to \in Targets
    PROVE  /\ to = [family |-> to.family, revision |-> to.revision, dynamic |-> to.dynamic]
           /\ to.family \in Families /\ to.revision \in Revisions \cup {Nothing}
           /\ to.revision # Nothing => to.family = Family[to.revision]
BY RevisionsAre DEF Targets

LEMMA NewerIsGrown ==
    ASSUME NEW old \in Targets, NEW new \in Targets, Newer(old, new)
    PROVE  Grown(old, new)
<1>1. SameModes(LimitsOf(old.revision), LimitsOf(new.revision))
  BY TargetsAre, SameModesAlways
<1>2. CASE old.revision = Nothing
  BY <1>1, <1>2, TargetsAre DEF Newer, Grown
<1>3. CASE old.revision # Nothing
  <2>1. PICK i, j \in DOMAIN Phones : i <= j /\ Phones[i] = old.revision /\ Phones[j] = new.revision
    BY <1>3 DEF Newer
  <2>2. new.revision # Nothing
    BY <2>1, PhonesAre, RevisionsAre
  <2>3. /\ old.family <= new.family
        /\ Within(for_revision[old.revision], for_revision[new.revision])
    BY <1>3, <2>1, <2>2, PhonesGrow, TargetsAre
  <2> QED
    BY <1>1, <1>3, <2>2, <2>3, TargetsAre DEF Grown, Newer
<1> QED
  BY <1>2, <1>3

-----------------------------------------------------------------------------
(* The validators. *)

\* The extents of a shape, whatever its rank, are numbers.
LEMMA ExtentsAre ==
    ASSUME NEW s \in Seq(Nat)
    PROVE  extract_whdc(s) \in [w : Nat, h : Nat, d : Nat, c : Nat]
<1>0. Len(s) \in Nat
  OBVIOUS
<1>1. CASE Len(s) >= 5
  <2>1. \A n \in 1..4 : FromEnd(s, n) \in Nat
    BY <1>1 DEF FromEnd
  <2> QED
    BY <1>0, <1>1, <2>1 DEF extract_whdc
<1>2. CASE Len(s) \in 0..4
  <2>1. \A n \in 1..Len(s) : s[n] \in Nat
    OBVIOUS
  <2>2. CASE Len(s) = 0
    BY <2>2 DEF extract_whdc
  <2>3. CASE Len(s) = 1
    BY <2>1, <2>3 DEF extract_whdc
  <2>4. CASE Len(s) = 2
    BY <2>1, <2>4 DEF extract_whdc
  <2>5. CASE Len(s) = 3
    BY <2>1, <2>5 DEF extract_whdc
  <2>6. CASE Len(s) = 4
    BY <2>1, <2>6 DEF extract_whdc
  <2>7. Len(s) = 0 \/ Len(s) = 1 \/ Len(s) = 2 \/ Len(s) = 3 \/ Len(s) = 4
    BY <1>2
  <2> QED
    BY <2>2, <2>3, <2>4, <2>5, <2>6, <2>7, Zenon
<1>3. \A n \in Nat : n >= 5 \/ n \in 0..4
  OBVIOUS
<1>4. Len(s) >= 5 \/ Len(s) \in 0..4
  BY <1>0, <1>3, Zenon
<1> QED
  BY <1>1, <1>2, <1>4, Zenon

LEMMA ExtentsAreNumbers ==
    ASSUME NEW s \in Seq(Nat)
    PROVE  /\ extract_whdc(s).w \in Nat /\ extract_whdc(s).h \in Nat
           /\ extract_whdc(s).d \in Nat /\ extract_whdc(s).c \in Nat
<1> DEFINE dims == extract_whdc(s)
<1>1. dims \in [w : Nat, h : Nat, d : Nat, c : Nat]
  BY ExtentsAre
<1> HIDE DEF dims
<1>2. dims.w \in Nat /\ dims.h \in Nat /\ dims.d \in Nat /\ dims.c \in Nat
  BY <1>1
<1> QED
  BY <1>2 DEF dims

\* What is within a limit is within a larger one.
LEMMA StaysWithin ==
    ASSUME NEW n \in Nat, NEW a, NEW b, AtMost(a, b), n <= a
    PROVE  n <= b
BY DEF AtMost

LEMMA KernelIsNumbers ==
    ASSUME NEW s \in Seq(Nat)
    PROVE  ConvKernel(s)[1] \in Nat /\ ConvKernel(s)[2] \in Nat
<1>1. Len(s) >= 4 => FromEnd(s, 1) \in Nat /\ FromEnd(s, 2) \in Nat
  BY DEF FromEnd
<1> QED
  BY <1>1 DEF ConvKernel, Rank

LEMMA GatesGrow ==
    ASSUME NEW unit \in Asked, NEW old, NEW new, Grown(old, new), UniversalGates(unit, old)
    PROVE  UniversalGates(unit, new)
<1>1. unit.shapes \in Seq(Seq(Nat))
  BY UnitsAssumption
<1>2. DtypeFits(unit.op.kind, unit.ctx, new.family)
  <2>1. old.family \in 11..18 /\ new.family \in 11..18 /\ old.family <= new.family
    BY DEF Grown, Families
  <2>2. DtypeFits(unit.op.kind, unit.ctx, old.family)
    BY DEF UniversalGates
  <2>3. /\ supports_e4m3(old.family) => supports_e4m3(new.family)
        /\ is_fp32_compute_supported(old.family) => is_fp32_compute_supported(new.family)
    BY <2>1 DEF supports_e4m3, is_fp32_compute_supported
  <2> QED
    BY <2>2, <2>3 DEF DtypeFits, is_dtype_ane_legal
<1>3. DimsFit(unit.shapes, new.revision)
  <2> SUFFICES ASSUME new.revision # Nothing, NEW i \in DOMAIN unit.shapes
               PROVE  validate_tensor_dims(for_revision[new.revision], extract_whdc(unit.shapes[i]),
                                           Rank(unit.shapes[i]))
    BY DEF DimsFit
  <2>1. Within(for_revision[old.revision], for_revision[new.revision]) /\ old.revision # Nothing
    BY DEF Grown
  <2>2. validate_tensor_dims(for_revision[old.revision], extract_whdc(unit.shapes[i]),
                             Rank(unit.shapes[i]))
    BY <2>1 DEF UniversalGates, DimsFit
  <2>3. unit.shapes[i] \in Seq(Nat) /\ Rank(unit.shapes[i]) \in Nat
    BY <1>1 DEF Rank
  <2> QED
    BY <2>1, <2>2, <2>3, ExtentsAreNumbers, StaysWithin DEF validate_tensor_dims, Within
<1> QED
  BY <1>2, <1>3 DEF UniversalGates, Grown

LEMMA ConvGrows ==
    ASSUME NEW unit \in Asked, NEW old, NEW new, Grown(old, new),
           ConvFits(unit.op, unit.shapes, unit.ctx, old.revision)
    PROVE  ConvFits(unit.op, unit.shapes, unit.ctx, new.revision)
<1> DEFINE s == unit.shapes
<1>1. s \in Seq(Seq(Nat))
  BY UnitsAssumption
<1> SUFFICES ASSUME new.revision # Nothing
             PROVE  /\ Len(s) >= 2 =>
                          validate_conv_dims(for_revision[new.revision], ConvKernel(s[2])[1],
                                             ConvKernel(s[2])[2], unit.ctx.dtype \in {"Int8", "UInt8"})
                    /\ s # <<>> => validate_conv_channels(for_revision[new.revision],
                                                           extract_whdc(s[1]).c)
  BY DEF ConvFits
<1>2. Within(for_revision[old.revision], for_revision[new.revision]) /\ old.revision # Nothing
  BY DEF Grown
<1>3. ASSUME Len(s) >= 2
      PROVE  validate_conv_dims(for_revision[new.revision], ConvKernel(s[2])[1],
                                ConvKernel(s[2])[2], unit.ctx.dtype \in {"Int8", "UInt8"})
  <2>1. s[2] \in Seq(Nat)
    BY <1>1, <1>3
  <2>2. validate_conv_dims(for_revision[old.revision], ConvKernel(s[2])[1],
                           ConvKernel(s[2])[2], unit.ctx.dtype \in {"Int8", "UInt8"})
    BY <1>2, <1>3 DEF ConvFits
  <2> QED
    BY <1>2, <2>1, <2>2, KernelIsNumbers, StaysWithin DEF validate_conv_dims, Within
<1>4. ASSUME s # <<>>
      PROVE  validate_conv_channels(for_revision[new.revision], extract_whdc(s[1]).c)
  <2>1. s[1] \in Seq(Nat)
    BY <1>1, <1>4
  <2>2. validate_conv_channels(for_revision[old.revision], extract_whdc(s[1]).c)
    BY <1>2, <1>4 DEF ConvFits
  <2> QED
    BY <1>2, <2>1, <2>2, ExtentsAreNumbers, StaysWithin DEF validate_conv_channels, Within
<1> QED
  BY <1>3, <1>4

LEMMA TransposeGrows ==
    ASSUME NEW unit \in Asked, NEW old, NEW new, Grown(old, new),
           TransposeFits(unit.shapes, old.revision)
    PROVE  TransposeFits(unit.shapes, new.revision)
<1> SUFFICES ASSUME new.revision # Nothing, unit.shapes # <<>>
             PROVE  validate_transpose_c_max(for_revision[new.revision], extract_whdc(unit.shapes[1]).c)
  BY DEF TransposeFits
<1>1. Within(for_revision[old.revision], for_revision[new.revision]) /\ old.revision # Nothing
  BY DEF Grown
<1>2. unit.shapes[1] \in Seq(Nat)
  BY UnitsAssumption
<1>3. validate_transpose_c_max(for_revision[old.revision], extract_whdc(unit.shapes[1]).c)
  BY <1>1 DEF TransposeFits
<1> QED
  BY <1>1, <1>2, <1>3, ExtentsAreNumbers, StaysWithin DEF validate_transpose_c_max, Within

\* What one kind is asked reads the family through what later families can do
\* as well, but for ArgMax and ArgMin, which A18 lost.
LEMMA OpGrows ==
    ASSUME NEW unit \in Asked, NEW old, NEW new, Grown(old, new), OpFits(unit, old),
           unit.op.kind \in {"ReduceArgmax", "ReduceArgmin"} => supports_argminmax(new.family)
    PROVE  OpFits(unit, new)
<1> DEFINE op == unit.op
           s == unit.shapes
           ctx == unit.ctx
<1>1. old.family \in 11..18 /\ new.family \in 11..18 /\ old.family <= new.family
  BY DEF Grown, Families
<1>2. op.kind \in {"ReduceArgmax", "ReduceArgmin"} => supports_argminmax(new.family)
  OBVIOUS
<1>3. op.kind = "ReduceMin" => ReduceMinFits(ctx.dtype, new.family)
  BY <1>1 DEF OpFits, ReduceMinFits, supports_reducemin_all_dtypes
<1>4. op.kind \in Reductions => ReductionFits(op, s, new.family)
  <2> SUFFICES ASSUME op.kind \in Reductions PROVE ReductionFits(op, s, new.family)
    OBVIOUS
  <2>1. ReductionFits(op, s, old.family)
    BY DEF OpFits
  <2>2. ~uses_a14minus_converters(old.family) => ~uses_a14minus_converters(new.family)
    BY <1>1 DEF uses_a14minus_converters
  <2> QED
    BY <2>1, <2>2 DEF ReductionFits, validate_reduction_constraints
<1>5. op.kind \in BroadcastOps => BroadcastFits(s, ctx.dtype, new.family)
  BY <1>1 DEF OpFits, BroadcastFits, is_broadcast_dtype_legal, broadcast_fp16_only
<1>6. op.kind = "ConvTranspose" => DeconvFits(op, s, ctx, new)
  <2> SUFFICES ASSUME op.kind = "ConvTranspose" PROVE DeconvFits(op, s, ctx, new)
    OBVIOUS
  <2>1. DeconvFits(op, s, ctx, old)
    BY DEF OpFits
  <2>2. LimitsOf(old.revision).large_kernel_mode = LimitsOf(new.revision).large_kernel_mode
    BY DEF Grown, SameModes
  <2> QED
    BY <1>1, <2>1, <2>2 DEF DeconvFits, validate_deconv_constraints
<1>7. op.kind \in ArchitectureGated => validate_architecture_gated_constraints(op.kind, new.family)
  BY <1>1 DEF OpFits, validate_architecture_gated_constraints, uses_a14minus_converters
<1>8. op.kind = "Conv" => ConvFits(op, s, ctx, new.revision)
  BY ConvGrows DEF OpFits
<1>9. op.kind = "Transpose" => TransposeFits(s, new.revision)
  BY TransposeGrows DEF OpFits
<1>10. op.kind \in {"MaxPool", "AvgPool", "L2Pool"} => PoolFits(op, new.revision)
  BY DEF OpFits, PoolFits, Grown, SameModes, validate_pooling_constraints
<1> QED
  BY <1>2, <1>3, <1>4, <1>5, <1>6, <1>7, <1>8, <1>9, <1>10 DEF OpFits

-----------------------------------------------------------------------------
(* The decision. *)

LEMMA Decided ==
    ASSUME NEW unit, NEW to
    PROVE  /\ validate_placement(unit, to) # CpuOnly <=> UniversalGates(unit, to) /\ OpFits(unit, to)
           /\ validate_placement(unit, to) = AneAllowed <=>
                 /\ UniversalGates(unit, to) /\ OpFits(unit, to)
                 /\ unit.op.kind = "ScaledDotProductAttention" => supports_sdpa(to.family)
                 /\ unit.op.kind = "LayerNorm" => supports_layernorm(to.family)
           /\ unit.op.kind = "ScaledDotProductAttention" /\ ~supports_sdpa(to.family)
              /\ validate_placement(unit, to) # CpuOnly => validate_placement(unit, to).from = 16
           /\ unit.op.kind = "LayerNorm" /\ ~supports_layernorm(to.family)
              /\ validate_placement(unit, to) # CpuOnly => validate_placement(unit, to).from = 15
<1>1. /\ AneAllowed # CpuOnly
      /\ \A f : AneConditional(f) # CpuOnly /\ AneConditional(f) # AneAllowed
      /\ \A f : AneConditional(f).from = f
  BY DEF AneAllowed, AneConditional, CpuOnly
<1> QED
  BY <1>1 DEF validate_placement

LEMMA KeptByNewer ==
    ASSUME NEW unit \in Asked, NEW old \in Targets, NEW new \in Targets, Newer(old, new),
           validate_placement(unit, old) # CpuOnly,
           new.family >= validate_placement(unit, old).from,
           unit.op.kind \in {"ReduceArgmax", "ReduceArgmin"} => supports_argminmax(new.family)
    PROVE  validate_placement(unit, new) = AneAllowed
<1>1. Grown(old, new)
  BY NewerIsGrown
<1>2. UniversalGates(unit, old) /\ OpFits(unit, old)
  BY Decided
<1>3. UniversalGates(unit, new) /\ OpFits(unit, new)
  BY <1>1, <1>2, GatesGrow, OpGrows
<1>4. old.family \in 11..18 /\ new.family \in 11..18 /\ old.family <= new.family
  BY <1>1 DEF Grown, Families
<1>5. unit.op.kind = "ScaledDotProductAttention" => supports_sdpa(new.family)
  <2>1. CASE supports_sdpa(old.family)
    BY <1>4, <2>1 DEF supports_sdpa
  <2>2. CASE ~supports_sdpa(old.family) /\ unit.op.kind = "ScaledDotProductAttention"
    <3>1. new.family >= 16
      BY <2>2, Decided
    <3> QED
      BY <3>1 DEF supports_sdpa
  <2> QED
    BY <2>1, <2>2
<1>6. unit.op.kind = "LayerNorm" => supports_layernorm(new.family)
  <2>1. CASE supports_layernorm(old.family)
    BY <1>4, <2>1 DEF supports_layernorm
  <2>2. CASE ~supports_layernorm(old.family) /\ unit.op.kind = "LayerNorm"
    <3>1. new.family >= 15
      BY <2>2, Decided
    <3> QED
      BY <3>1 DEF supports_layernorm
  <2> QED
    BY <2>1, <2>2
<1> QED
  BY <1>3, <1>5, <1>6, Decided

\* Without the revision, fewer limits are looked at and none is smaller.
LEMMA KeptByFamily ==
    ASSUME NEW unit, NEW to \in Targets, validate_placement(unit, to) # CpuOnly
    PROVE  validate_placement(unit, [to EXCEPT !.revision = Nothing]) # CpuOnly
<1> DEFINE less == [to EXCEPT !.revision = Nothing]
<1>1. less.family = to.family /\ less.dynamic = to.dynamic /\ less.revision = Nothing
  BY TargetsAre
<1>2. UniversalGates(unit, to) /\ OpFits(unit, to)
  BY Decided
<1>3. SameModes(LimitsOf(to.revision), LimitsOf(Nothing))
  BY TargetsAre, SameModesAlways
<1> HIDE DEF less
<1>4. UniversalGates(unit, less)
  BY <1>1, <1>2 DEF UniversalGates, DimsFit
<1>5. unit.op.kind = "ConvTranspose" => DeconvFits(unit.op, unit.shapes, unit.ctx, less)
  <2> SUFFICES ASSUME unit.op.kind = "ConvTranspose"
               PROVE  DeconvFits(unit.op, unit.shapes, unit.ctx, less)
    OBVIOUS
  <2>1. DeconvFits(unit.op, unit.shapes, unit.ctx, to)
    BY <1>2 DEF OpFits
  <2> QED
    BY <1>1, <1>3, <2>1 DEF DeconvFits, validate_deconv_constraints, SameModes
<1>6. /\ unit.op.kind = "Conv" => ConvFits(unit.op, unit.shapes, unit.ctx, Nothing)
      /\ unit.op.kind = "Transpose" => TransposeFits(unit.shapes, Nothing)
  BY <1>2 DEF OpFits, ConvFits, TransposeFits
<1>7. unit.op.kind \in {"MaxPool", "AvgPool", "L2Pool"} => PoolFits(unit.op, Nothing)
  BY <1>2, <1>3 DEF OpFits, PoolFits, validate_pooling_constraints, SameModes
<1>8. OpFits(unit, less)
  BY <1>1, <1>2, <1>5, <1>6, <1>7 DEF OpFits
<1>9. validate_placement(unit, less) # CpuOnly
  BY <1>4, <1>8, Decided
<1> QED
  BY <1>9 DEF less

(* A context that says of some things nothing and of the others the same. *)
SaysLess(ctx, full) ==
    /\ ctx.dtype \in {Nothing, full.dtype} /\ ctx.interleave \in {0, full.interleave}
    /\ ctx.layout \in {Nothing, full.layout} /\ ctx.channels \in {-1, full.channels}
    /\ ctx.is_const = full.is_const /\ ctx.is_int4 = full.is_int4
    /\ ctx.is_depthwise_conv = full.is_depthwise_conv
    /\ ctx.is_asymmetric_quant = full.is_asymmetric_quant
    /\ ctx.is_blockwise_scale = full.is_blockwise_scale
    /\ ctx.is_vector_palettized = full.is_vector_palettized
    /\ ctx.has_per_channel_palettize = full.has_per_channel_palettize
    /\ ctx.has_aliasing = full.has_aliasing

LEMMA ForgetfulSaysLess ==
    ASSUME NEW unit \in Asked, NEW ctx \in Forgetful(unit.ctx)
    PROVE  SaysLess(ctx, unit.ctx)
<1> DEFINE full == unit.ctx
<1>1. DOMAIN full = {"dtype", "interleave", "layout", "is_const", "is_int4", "channels",
                     "is_depthwise_conv", "is_asymmetric_quant", "is_blockwise_scale",
                     "is_vector_palettized", "has_per_channel_palettize", "has_aliasing"}
  BY UnitsAssumption DEF PlacementContext
<1> HIDE DEF full
<1>2. /\ SaysLess([full EXCEPT !.dtype = Nothing], full)
      /\ SaysLess([full EXCEPT !.interleave = 0], full)
      /\ SaysLess([full EXCEPT !.layout = Nothing], full)
      /\ SaysLess([full EXCEPT !.channels = -1], full)
  BY <1>1 DEF SaysLess
<1> QED
  BY <1>2 DEF Forgetful, full

LEMMA ConvFitsLess ==
    ASSUME NEW unit \in Asked, NEW ctx, SaysLess(ctx, unit.ctx),
           NEW revision \in Revisions \cup {Nothing},
           ConvFits(unit.op, unit.shapes, unit.ctx, revision)
    PROVE  ConvFits(unit.op, unit.shapes, ctx, revision)
<1>1. validate_cross_constraint_combinations(unit.op, ctx)
  BY DEF ConvFits, validate_cross_constraint_combinations, SaysLess
<1>2. ASSUME revision # Nothing, Len(unit.shapes) >= 2
      PROVE  validate_conv_dims(for_revision[revision], ConvKernel(unit.shapes[2])[1],
                                ConvKernel(unit.shapes[2])[2], ctx.dtype \in {"Int8", "UInt8"})
  BY <1>2, AllInherit DEF ConvFits, validate_conv_dims, Inherited
<1> QED
  BY <1>1, <1>2 DEF ConvFits

\* A 4-bit type is legal at one interleave only, and is not to be said without.
LEMMA GatesOfLess ==
    ASSUME NEW unit, NEW other, NEW to,
           other.op = unit.op, other.shapes = unit.shapes, SaysLess(other.ctx, unit.ctx),
           ~(dtype_requires_interleave_8(other.ctx.dtype) /\ other.ctx.interleave = 0),
           UniversalGates(unit, to)
    PROVE  UniversalGates(other, to)
<1> DEFINE ctx == other.ctx
           full == unit.ctx
<1>1. DtypeFits(unit.op.kind, ctx, to.family)
  <2>1. DtypeFits(unit.op.kind, full, to.family)
    BY DEF UniversalGates
  <2>2. CASE ctx.dtype = Nothing
    BY <2>2 DEF DtypeFits
  <2>3. CASE ctx.dtype # Nothing
    <3>1. ctx.dtype = full.dtype /\ ctx.interleave \in {0, full.interleave}
      BY <2>3 DEF SaysLess
    <3>2. validate_int4_uint4_ane_constraints(ctx.dtype, ctx.interleave)
      BY <2>1, <2>3, <3>1 DEF DtypeFits, validate_int4_uint4_ane_constraints
    <3> QED
      BY <2>1, <3>1, <3>2 DEF DtypeFits
  <2> QED
    BY <2>2, <2>3
<1>2. InterleaveFits(ctx)
  <2>1. InterleaveFits(full)
    BY DEF UniversalGates
  <2> QED
    BY <2>1 DEF InterleaveFits, validate_interleave_constraints, SaysLess
<1>3. LayoutFits(ctx)
  <2>1. LayoutFits(full)
    BY DEF UniversalGates
  <2> QED
    BY <2>1 DEF LayoutFits, validate_channellast_constraints, SaysLess, Nothing
<1>4. QuantFits(ctx)
  BY DEF UniversalGates, QuantFits, SaysLess
<1> QED
  BY <1>1, <1>2, <1>3, <1>4 DEF UniversalGates

\* To say less of the context never makes an accepted operation refused.
LEMMA KeptByLess ==
    ASSUME NEW unit \in Asked, NEW to \in Targets, validate_placement(unit, to) # CpuOnly,
           NEW ctx \in Forgetful(unit.ctx),
           ~(dtype_requires_interleave_8(ctx.dtype) /\ ctx.interleave = 0)
    PROVE  validate_placement([unit EXCEPT !.ctx = ctx], to) # CpuOnly
<1> DEFINE other == [unit EXCEPT !.ctx = ctx]
           full == unit.ctx
<1>1. other.op = unit.op /\ other.shapes = unit.shapes /\ other.ctx = ctx
  BY UnitsAssumption
<1>2. SaysLess(ctx, full)
  BY ForgetfulSaysLess
<1>3. UniversalGates(unit, to) /\ OpFits(unit, to)
  BY Decided
<1>4. to.revision \in Revisions \cup {Nothing}
  BY TargetsAre
<1> HIDE DEF other
<1>5. UniversalGates(other, to)
  BY <1>1, <1>2, <1>3, GatesOfLess
<1>6. unit.op.kind = "Conv" => ConvFits(unit.op, unit.shapes, ctx, to.revision)
  BY <1>2, <1>3, <1>4, ConvFitsLess DEF OpFits
<1>7. unit.op.kind = "ConvTranspose" => DeconvFits(unit.op, unit.shapes, ctx, to)
  <2>1. ctx.is_vector_palettized = full.is_vector_palettized
    BY <1>2 DEF SaysLess
  <2> QED
    BY <1>3, <2>1 DEF OpFits, DeconvFits
<1>8. /\ unit.op.kind = "ReduceMin" => ReduceMinFits(ctx.dtype, to.family)
      /\ unit.op.kind = "Cast" => CastFits(unit.op, ctx.dtype)
      /\ unit.op.kind \in BroadcastOps => BroadcastFits(unit.shapes, ctx.dtype, to.family)
  <2>1. ctx.dtype \in {Nothing, full.dtype}
    BY <1>2 DEF SaysLess
  <2> QED
    BY <1>3, <2>1 DEF OpFits, ReduceMinFits, CastFits, BroadcastFits
<1>9. OpFits(other, to)
  BY <1>1, <1>3, <1>6, <1>7, <1>8 DEF OpFits
<1>10. validate_placement(other, to) # CpuOnly
  BY <1>5, <1>9, Decided
<1> QED
  BY <1>10 DEF other

-----------------------------------------------------------------------------
(* Programs. *)

(* What is placed was asked about, and decided for the target that still is. *)
PlacedInv == target \in Targets /\ prog \in Seq({Placed(unit) : unit \in Asked})

LEMMA PlacedStep == PlacedInv /\ [Next]_vars => PlacedInv'
<1> SUFFICES ASSUME PlacedInv, [Next]_vars PROVE PlacedInv'
  OBVIOUS
<1>1. target' = target
  BY DEF Next, vars, Judge, Place, Fuse, Budget
<1>2. {Placed(unit) : unit \in Asked}' = {Placed(unit) : unit \in Asked}
  BY <1>1 DEF Placed
<1>3. ASSUME NEW unit \in Asked, Place(unit) PROVE PlacedInv'
  <2> DEFINE All == {Placed(asked) : asked \in Asked}
  <2>1. prog \in Seq(All) /\ Placed(unit) \in All
    BY DEF PlacedInv
  <2>2. prog' = Append(prog, Placed(unit))
    BY <1>3 DEF Place
  <2>3. prog' \in Seq(All)
    <3> HIDE DEF All
    <3> QED
      BY <2>1, <2>2
  <2> QED
    BY <1>1, <1>2, <2>3 DEF PlacedInv
<1>4. CASE prog' = prog
  BY <1>1, <1>2, <1>4 DEF PlacedInv
<1> QED
  BY <1>3, <1>4 DEF Next, vars, Judge, Fuse, Budget, Asked

LEMMA PlacedKeep == PlacedInv => AcceptanceIsMonotone
<1> SUFFICES ASSUME PlacedInv, NEW i \in DOMAIN prog
             PROVE  LET was == prog[i].decision
                        unit == prog[i].unit
                    IN  /\ \A new \in Targets :
                              /\ was # CpuOnly
                              /\ Newer(target, new)
                              /\ new.family >= was.from
                              /\ ~(prog[i].kind \in {"ReduceArgmax", "ReduceArgmin"}
                                   /\ ~supports_argminmax(new.family))
                              => validate_placement(prog[i].unit, new) = AneAllowed
                        /\ was # CpuOnly =>
                              /\ \A ctx \in Forgetful(unit.ctx) :
                                     ~(dtype_requires_interleave_8(ctx.dtype) /\ ctx.interleave = 0)
                                     => validate_placement([unit EXCEPT !.ctx = ctx], target) # CpuOnly
                              /\ validate_placement(unit, [target EXCEPT !.revision = Nothing]) # CpuOnly
  BY DEF AcceptanceIsMonotone, PromisesKept, ContextOnlyRestricts
<1>1. PICK unit \in Asked : prog[i] = Placed(unit)
  BY DEF PlacedInv
<1>2. /\ prog[i].unit = unit /\ prog[i].kind = unit.op.kind
      /\ prog[i].decision = validate_placement(unit, target)
  BY <1>1 DEF Placed
<1>3. target \in Targets
  BY DEF PlacedInv
<1>4. ASSUME NEW new \in Targets, validate_placement(unit, target) # CpuOnly, Newer(target, new),
             new.family >= validate_placement(unit, target).from,
             ~(unit.op.kind \in {"ReduceArgmax", "ReduceArgmin"} /\ ~supports_argminmax(new.family))
      PROVE  validate_placement(unit, new) = AneAllowed
  BY <1>3, <1>4, KeptByNewer
<1>5. ASSUME validate_placement(unit, target) # CpuOnly, NEW ctx \in Forgetful(unit.ctx),
             ~(dtype_requires_interleave_8(ctx.dtype) /\ ctx.interleave = 0)
      PROVE  validate_placement([unit EXCEPT !.ctx = ctx], target) # CpuOnly
  BY <1>3, <1>5, KeptByLess
<1>6. validate_placement(unit, target) # CpuOnly =>
         validate_placement(unit, [target EXCEPT !.revision = Nothing]) # CpuOnly
  BY <1>3, KeptByFamily
<1> QED
  BY <1>2, <1>4, <1>5, <1>6

(* What the validator of placement_validate.rs gives to the accelerator on     *)
(* one target it gives to it on every newer one, but for ArgMax and ArgMin;    *)
(* and it accepts with less known of the context, or of the revision, whatever *)
(* it accepts with more, but for 4-bit types without their interleave: for     *)
(* operations of any shapes, attributes and contexts.                          *)
THEOREM AcceptedStaysAccepted == Spec => []AcceptanceIsMonotone
<1>1. Init => PlacedInv
  BY DEF Init, PlacedInv
<1> QED
  BY <1>1, PlacedStep, PlacedKeep, PTL DEF Spec

-----------------------------------------------------------------------------
(* Recursive functions over the prefixes of a sequence.  Induction is over    *)
(* the numbers up to a length, from the least one left out.                   *)

LEMMA UpTo ==
    ASSUME NEW n \in Nat, NEW S, 0 \in S, \A i \in 1..n : i - 1 \in S => i \in S
    PROVE  \A i \in 0..n : i \in S
<1> DEFINE T == (0..n) \ S
<1> SUFFICES ASSUME T # {} PROVE FALSE
  OBVIOUS
<1>1. PICK x \in T : \A y \in T : ~ (<<y, x>> \in OpToRel(<, Nat))
  <2> HIDE DEF T
  <2>1. T \subseteq Nat
    BY DEF T
  <2> QED
    BY <2>1, NatLessThanWellFounded, WFMin
<1>2. x \in 1..n /\ x - 1 \in T
  OBVIOUS
<1>3. <<x - 1, x>> \in OpToRel(<, Nat)
  BY <1>2 DEF OpToRel
<1> QED
  BY <1>1, <1>2, <1>3

(* A rule for the next value from each step and value. *)
IsRule(step, start, X, n) == n \in Nat /\ start \in X /\ step \in [1..n -> [X -> X]]

Follows(f, step, start, X, n) ==
    /\ f \in [0..n -> X]
    /\ f[0] = start /\ \A i \in 1..n : f[i] = step[i][f[i - 1]]

LEMMA Recursion ==
    ASSUME NEW n, NEW X, NEW start, NEW step, IsRule(step, start, X, n)
    PROVE  \E f : Follows(f, step, start, X, n)
<1> DEFINE S == {m \in 0..n : \E f : Follows(f, step, start, X, m)}
<1> USE DEF IsRule
<1>1. 0 \in S
  <2>1. Follows([i \in 0..0 |-> start], step, start, X, 0) /\ 0 \in 0..n
    BY DEF Follows
  <2> QED
    BY <2>1
<1>2. ASSUME NEW m \in 1..n, m - 1 \in S PROVE m \in S
  <2>1. PICK f : Follows(f, step, start, X, m - 1)
    BY <1>2
  <2> DEFINE g == [i \in 0..m |-> IF i = m THEN step[m][f[m - 1]] ELSE f[i]]
  <2>2. f[m - 1] \in X
    BY <2>1 DEF Follows
  <2>3. step[m][f[m - 1]] \in X
    BY <2>2
  <2>4. g \in [0..m -> X]
    <3>1. \A i \in 0..m : i # m => i \in 0..(m - 1)
      OBVIOUS
    <3> QED
      BY <2>1, <2>3, <3>1 DEF Follows
  <2>5. g[0] = start
    BY <2>1 DEF Follows
  <2>6. ASSUME NEW i \in 1..m PROVE g[i] = step[i][g[i - 1]]
    <3>1. g[i - 1] = f[i - 1]
      OBVIOUS
    <3>2. CASE i = m
      BY <3>1, <3>2
    <3>3. CASE i # m
      <4>1. i \in 1..(m - 1) /\ g[i] = f[i]
        BY <3>3
      <4> QED
        BY <2>1, <3>1, <4>1 DEF Follows
    <3> QED
      BY <3>2, <3>3
  <2>7. Follows(g, step, start, X, m)
    <3> HIDE DEF g
    <3> QED
      BY <2>4, <2>5, <2>6 DEF Follows
  <2> HIDE DEF g
  <2> QED
    BY <2>7
<1>3. \A m \in 0..n : m \in S
  <2> HIDE DEF S, IsRule
  <2>1. n \in Nat
    BY DEF IsRule
  <2> QED
    BY <1>1, <1>2, <2>1, UpTo
<1> QED
  BY <1>3

LEMMA RunningSum ==
    ASSUME NEW values \in Seq(Nat)
    PROVE  LET sum == running_sum(values)
           IN  /\ sum \in [0..Len(values) -> Nat]
               /\ sum[0] = 0 /\ \A i \in 1..Len(values) : sum[i] = sum[i - 1] + values[i]
<1> DEFINE n == Len(values)
           Rule(f) == [i \in 0..n |-> IF i = 0 THEN 0 ELSE f[i - 1] + values[i]]
           sum == CHOOSE f : f = Rule(f)
           step == [i \in 1..n |-> [x \in Nat |-> x + values[i]]]
<1>1. IsRule(step, 0, Nat, n)
  <2>1. n \in Nat /\ step \in [1..n -> [Nat -> Nat]]
    OBVIOUS
  <2> QED
    BY <2>1 DEF IsRule
<1>2. PICK f : Follows(f, step, 0, Nat, n)
  <2> HIDE DEF step, n, sum
  <2> QED
    BY <1>1, Recursion
<1>3. f \in [0..n -> Nat] /\ f[0] = 0 /\ \A i \in 1..n : f[i] = f[i - 1] + values[i]
  <2>1. f \in [0..n -> Nat] /\ f[0] = 0 /\ \A i \in 1..n : f[i] = step[i][f[i - 1]]
    BY <1>2 DEF Follows
  <2>2. ASSUME NEW i \in 1..n PROVE f[i - 1] \in Nat
    <3>1. n \in Nat
      OBVIOUS
    <3> HIDE DEF n
    <3> QED
      BY <2>1, <3>1
  <2>3. \A i \in 1..n, x \in Nat : step[i][x] = x + values[i]
    OBVIOUS
  <2> HIDE DEF step, n
  <2> QED
    BY <2>1, <2>2, <2>3
<1>4. f = Rule(f)
  BY <1>3
<1>5. sum = Rule(sum)
  BY <1>4
<1>6. running_sum(values) = sum
  BY DEF running_sum
<1> HIDE DEF sum, step
<1>7. sum[0] = 0 /\ \A i \in 1..n : sum[i] = sum[i - 1] + values[i]
  <2>1. \A g : \A i \in 0..n : Rule(g)[i] = IF i = 0 THEN 0 ELSE g[i - 1] + values[i]
    OBVIOUS
  <2> HIDE DEF Rule
  <2>2. \A i \in 0..n : sum[i] = IF i = 0 THEN 0 ELSE sum[i - 1] + values[i]
    BY <1>5, <2>1
  <2> QED
    BY <2>2
<1>8. sum = [i \in 0..n |-> sum[i]]
  BY <1>5
<1> HIDE DEF Rule
<1> DEFINE S == {i \in 0..n : sum[i] \in Nat}
<1>9. \A i \in 0..n : i \in S
  <2>1. n \in Nat /\ \A i \in 1..n : values[i] \in Nat
    OBVIOUS
  <2>2. 0 \in S /\ \A i \in 1..n : i - 1 \in S => i \in S
    BY <1>7, <2>1
  <2> HIDE DEF S, n
  <2> QED
    BY <2>1, <2>2, UpTo
<1> QED
  BY <1>6, <1>7, <1>8, <1>9

\* Sums of a longer sequence begin with those of a shorter one.
LEMMA SumsAgree ==
    ASSUME NEW shorter \in Seq(Nat), NEW longer \in Seq(Nat), Len(shorter) <= Len(longer),
           \A i \in 1..Len(shorter) : shorter[i] = longer[i]
    PROVE  running_sum(shorter)[Len(shorter)] = running_sum(longer)[Len(shorter)]
<1> DEFINE n == Len(shorter)
           f == running_sum(shorter)
           g == running_sum(longer)
           S == {i \in 0..n : f[i] = g[i]}
<1>1. /\ f[0] = 0 /\ \A i \in 1..n : f[i] = f[i - 1] + shorter[i]
      /\ g[0] = 0 /\ \A i \in 1..n : g[i] = g[i - 1] + longer[i]
  BY RunningSum
<1> HIDE DEF f, g
<1>2. n \in Nat /\ 0 \in S /\ \A i \in 1..n : i - 1 \in S => i \in S
  BY <1>1
<1>3. \A i \in 0..n : i \in S
  <2> HIDE DEF S, n
  <2> QED
    BY <1>2, UpTo
<1> QED
  BY <1>2, <1>3 DEF f, g

LEMMA SumsGrow ==
    ASSUME NEW values \in Seq(Nat), NEW k \in 0..Len(values)
    PROVE  running_sum(values)[k] <= running_sum(values)[Len(values)]
<1> DEFINE n == Len(values)
           f == running_sum(values)
           S == {i \in 0..n : k <= i => f[k] <= f[i]}
<1>1. f \in [0..n -> Nat] /\ \A i \in 1..n : f[i] = f[i - 1] + values[i]
  BY RunningSum
<1>2. \A i \in 1..n : values[i] \in Nat
  OBVIOUS
<1> HIDE DEF f
<1>3. n \in Nat /\ 0 \in S
  BY <1>1
<1>4. ASSUME NEW i \in 1..n, i - 1 \in S PROVE i \in S
  <2>0. n \in Nat /\ k \in 0..n /\ i \in 0..n /\ i - 1 \in 0..n
    OBVIOUS
  <2>1. f[i] = f[i - 1] + values[i] /\ f[i] \in Nat /\ f[i - 1] \in Nat /\ f[k] \in Nat
    <3> HIDE DEF n
    <3> QED
      BY <1>1, <2>0
  <2>2. k <= i => k = i \/ k <= i - 1
    OBVIOUS
  <2> QED
    BY <1>2, <1>4, <2>1, <2>2
<1>5. \A i \in 0..n : i \in S
  <2>1. \A i \in 1..n : i - 1 \in S => i \in S
    BY <1>4
  <2> HIDE DEF S, n
  <2> QED
    BY <1>3, <2>1, UpTo
<1> QED
  BY <1>5 DEF f

LEMMA ElementsIsNumber ==
    ASSUME NEW shape \in Seq(Nat)
    PROVE  Elements(shape) \in Nat
<1> DEFINE n == Len(shape)
           Rule(f) == [i \in 0..n |-> IF i = 0 THEN 1 ELSE f[i - 1] * shape[i]]
           product == CHOOSE f : f = Rule(f)
           step == [i \in 1..n |-> [x \in Nat |-> x * shape[i]]]
<1>1. n \in Nat /\ \A i \in 1..n : shape[i] \in Nat
  OBVIOUS
<1>2. \A i \in 1..n, x \in Nat : x * shape[i] \in Nat
  <2>1. \A x \in Nat, y \in Nat : x * y \in Nat
    OBVIOUS
  <2> QED
    BY <1>1, <2>1, Zenon
<1>3. step \in [1..n -> [Nat -> Nat]]
  BY <1>2, Zenon
<1>4. \A i \in 1..n, x \in Nat : step[i][x] = x * shape[i]
  BY Zenon
<1> HIDE DEF step, n
<1>5. PICK f : Follows(f, step, 1, Nat, n)
  <2>1. IsRule(step, 1, Nat, n)
    BY <1>1, <1>3 DEF IsRule
  <2> HIDE DEF product
  <2> QED
    BY <2>1, Recursion
<1>6. ASSUME NEW i \in 1..n PROVE i - 1 \in 0..n /\ i \in 0..n /\ i # 0
  BY <1>1
<1>7. /\ f \in [0..n -> Nat] /\ f[0] = 1
      /\ \A i \in 1..n : f[i] = f[i - 1] * shape[i]
  BY <1>4, <1>5, <1>6, Zenon DEF Follows
<1>8. \A i \in 0..n : i = 0 \/ i \in 1..n
  BY <1>1
<1>9. f = [i \in 0..n |-> IF i = 0 THEN 1 ELSE f[i - 1] * shape[i]]
  <2>1. \A i \in 0..n : f[i] = IF i = 0 THEN 1 ELSE f[i - 1] * shape[i]
    BY <1>7, <1>8, Zenon
  <2> QED
    BY <1>7, <2>1, Zenon
<1>10. product = [i \in 0..n |-> IF i = 0 THEN 1 ELSE product[i - 1] * shape[i]]
  BY <1>9, Zenon DEF n
<1>11. Elements(shape) = product[n]
  BY Zenon DEF Elements, n
<1> HIDE DEF product, Rule
<1>12. product[0] = 1 /\ \A i \in 1..n : product[i] = product[i - 1] * shape[i]
  <2>1. 0 \in 0..n
    BY <1>1
  <2>2. \A i \in 0..n : product[i] = IF i = 0 THEN 1 ELSE product[i - 1] * shape[i]
    BY <1>10, Zenon
  <2> QED
    BY <1>6, <2>1, <2>2, Zenon
<1> DEFINE S == {i \in 0..n : product[i] \in Nat}
<1>13. 0 \in S
  BY <1>1, <1>12
<1>14. ASSUME NEW i \in 1..n, i - 1 \in S PROVE i \in S
  BY <1>2, <1>6, <1>12, <1>14, Zenon
<1> HIDE DEF S
<1>15. \A i \in 0..n : i \in S
  BY <1>1, <1>13, <1>14, UpTo
<1>16. n \in S
  BY <1>1, <1>15
<1> QED
  BY <1>11, <1>16 DEF S

-----------------------------------------------------------------------------
(* Fusion groups. *)

LEMMA LayerGrows ==
    ASSUME NEW group \in Seq(Nat), group # <<>>, OneLayer(group), NEW i \in Nat,
           check_engine_compatibility(prog[Last(group)].engine, prog[i].engine)
    PROVE  OneLayer(Append(group, i))
<1> DEFINE before == prog[Last(group)].engine
           engine == prog[i].engine
<1>1. EnginesOf(Append(group, i)) = EnginesOf(group) \cup {engine}
  <2>1. DOMAIN Append(group, i) = DOMAIN group \cup {Len(group) + 1}
    OBVIOUS
  <2>2. \A k \in DOMAIN group : Append(group, i)[k] = group[k]
    OBVIOUS
  <2>3. Append(group, i)[Len(group) + 1] = i
    OBVIOUS
  <2> QED
    BY <2>1, <2>2, <2>3 DEF EnginesOf
<1>2. before \in EnginesOf(group)
  <2>1. Len(group) \in DOMAIN group
    OBVIOUS
  <2> QED
    BY <2>1, Zenon DEF EnginesOf, Last
<1>3. /\ before # Nothing /\ engine # Nothing
      /\ before = engine \/ {before, engine} = {"NE", "TransposeEngine"}
  BY DEF check_engine_compatibility
<1>4. before = "PE" <=> engine = "PE"
  BY <1>3
<1>5. CASE Len(group) = 1
  <2>1. DOMAIN group = {1} /\ Last(group) = group[1]
    BY <1>5 DEF Last
  <2>2. EnginesOf(group) = {before}
    BY <2>1 DEF EnginesOf
  <2> QED
    BY <1>1, <1>3, <1>4, <2>2 DEF OneLayer
<1>6. CASE Len(group) > 1
  <2>1. /\ Nothing \notin EnginesOf(group)
        /\ "PE" \in EnginesOf(group) => EnginesOf(group) = {"PE"}
    BY <1>6 DEF OneLayer
  <2> HIDE DEF before, engine
  <2> QED
    BY <1>1, <1>2, <1>3, <1>4, <2>1 DEF OneLayer
<1>7. Len(group) = 1 \/ Len(group) > 1
  OBVIOUS
<1> QED
  BY <1>5, <1>6, <1>7

(* The first m operations of the program cut into layers. *)
Cut(gs, m) ==
    /\ gs \in Seq(Seq(Nat))
    /\ m = 0 => gs = <<>>
    /\ m # 0 => gs # <<>> /\ gs[1][1] = 1 /\ Last(Last(gs)) = m
    /\ \A g \in 2..Len(gs) : gs[g][1] = Last(gs[g - 1]) + 1
    /\ \A g \in 1..Len(gs) : Neighbours(gs[g]) /\ OneLayer(gs[g])

LEMMA Opens ==
    ASSUME NEW i \in Nat \ {0}, NEW gs, Cut(gs, i - 1),
           ~(i > 1 /\ check_fusability(prog[i - 1], prog[i]))
    PROVE  Cut(Joined(prog, gs, i), i)
<1> DEFINE new == Append(gs, <<i>>)
           n == Len(gs)
<1>1. gs \in Seq(Seq(Nat)) /\ <<i>> \in Seq(Nat)
  BY DEF Cut
<1>2. Joined(prog, gs, i) = new
  BY DEF Joined
<1>3. /\ Len(new) = n + 1 /\ new[n + 1] = <<i>> /\ n \in Nat
      /\ \A g \in 1..n : new[g] = gs[g]
  BY <1>1
<1>4. new \in Seq(Seq(Nat))
  BY <1>1
<1>5. Last(<<i>>) = i /\ <<i>>[1] = i /\ <<i>> # <<>> /\ Len(<<i>>) = 1
  BY DEF Last
<1>6. Neighbours(<<i>>) /\ OneLayer(<<i>>)
  BY <1>5 DEF Neighbours, OneLayer
<1>7. n = 0 <=> i = 1
  BY DEF Cut
<1>8. n # 0 => gs[1][1] = 1 /\ Last(gs[n]) = i - 1
  BY <1>7 DEF Cut, Last
<1> HIDE DEF new
<1>9. new # <<>> /\ Last(new) = <<i>>
  BY <1>3, <1>4 DEF Last
<1>10. \A g \in 2..n : gs[g][1] = Last(gs[g - 1]) + 1
  BY DEF Cut
<1>11. \A g \in 1..n : Neighbours(gs[g]) /\ OneLayer(gs[g])
  BY DEF Cut
<1> HIDE DEF n
<1>12. new[1][1] = 1
  BY <1>3, <1>5, <1>7, <1>8
<1>13. ASSUME NEW g \in 2..(n + 1) PROVE new[g][1] = Last(new[g - 1]) + 1
  <2>1. CASE g = n + 1
    <3>1. n # 0 /\ g - 1 = n /\ new[n] = gs[n] /\ new[g][1] = i
      BY <1>3, <1>5, <2>1
    <3> QED
      BY <1>8, <3>1
  <2>2. CASE g # n + 1
    <3>1. g \in 2..n /\ new[g] = gs[g] /\ new[g - 1] = gs[g - 1]
      BY <1>3, <2>2
    <3> QED
      BY <1>10, <3>1
  <2> QED
    BY <2>1, <2>2
<1>14. ASSUME NEW g \in 1..(n + 1) PROVE Neighbours(new[g]) /\ OneLayer(new[g])
  <2>1. CASE g = n + 1
    BY <1>3, <1>6, <2>1
  <2>2. CASE g # n + 1
    <3>1. g \in 1..n /\ new[g] = gs[g]
      BY <1>3, <2>2
    <3> QED
      BY <1>11, <3>1
  <2> QED
    BY <2>1, <2>2
<1>15. Cut(new, i)
  BY <1>3, <1>5, <1>9, <1>12, <1>13, <1>14, <1>4 DEF Cut
<1> QED
  BY <1>2, <1>15

LEMMA Joins ==
    ASSUME NEW i \in Nat, i > 1, NEW gs, Cut(gs, i - 1),
           check_fusability(prog[i - 1], prog[i])
    PROVE  Cut(Joined(prog, gs, i), i)
<1> DEFINE n == Len(gs)
           group == gs[n]
           longer == Append(group, i)
           new == [gs EXCEPT ![n] = Append(@, i)]
<1>1. gs \in Seq(Seq(Nat)) /\ gs # <<>> /\ n \in Nat \ {0}
  BY DEF Cut
<1>2. group \in Seq(Nat) /\ Neighbours(group) /\ OneLayer(group) /\ Last(group) = i - 1
  BY <1>1 DEF Cut, Last
<1>3. group # <<>>
  BY <1>2 DEF Neighbours
<1>4. longer \in Seq(Nat) /\ longer # <<>> /\ Last(longer) = i /\ longer[1] = group[1]
  BY <1>2, <1>3 DEF Last
<1>5. Neighbours(longer)
  <2>1. Len(longer) = Len(group) + 1 /\ Len(group) \in Nat \ {0}
    BY <1>2, <1>3
  <2>2. ASSUME NEW k \in 2..Len(longer) PROVE longer[k] = longer[k - 1] + 1
    <3>1. CASE k = Len(group) + 1
      <4>1. longer[k] = i /\ longer[k - 1] = group[Len(group)]
        BY <1>2, <2>1, <3>1
      <4> QED
        BY <1>2, <4>1 DEF Last
    <3>2. CASE k # Len(group) + 1
      <4>1. k \in 2..Len(group) /\ longer[k] = group[k] /\ longer[k - 1] = group[k - 1]
        BY <1>2, <2>1, <3>2
      <4> QED
        BY <1>2, <4>1 DEF Neighbours
    <3> QED
      BY <3>1, <3>2
  <2> QED
    BY <1>4, <2>2 DEF Neighbours
<1>6. OneLayer(longer)
  BY <1>2, <1>3, LayerGrows DEF check_fusability
<1>7. /\ new \in Seq(Seq(Nat)) /\ Len(new) = n /\ new[n] = longer
      /\ \A g \in 1..n : g # n => new[g] = gs[g]
  <2> HIDE DEF longer
  <2>1. new = [gs EXCEPT ![n] = longer]
    BY DEF longer
  <2> QED
    BY <1>1, <1>4, <2>1
<1>8. Joined(prog, gs, i) = new
  BY DEF Joined
<1> HIDE DEF new, longer
<1>9. new # <<>> /\ Last(Last(new)) = i
  BY <1>1, <1>4, <1>7 DEF Last
<1>10. \A g \in 1..n : new[g][1] = gs[g][1]
  BY <1>4, <1>7
<1>11. new[1][1] = 1
  BY <1>1, <1>10 DEF Cut
<1>12. ASSUME NEW g \in 2..n PROVE new[g][1] = Last(new[g - 1]) + 1
  <2>1. g \in 1..n /\ g - 1 \in 1..n /\ g - 1 # n
    BY <1>1
  <2>2. new[g - 1] = gs[g - 1] /\ new[g][1] = gs[g][1]
    BY <1>7, <1>10, <2>1
  <2>3. gs[g][1] = Last(gs[g - 1]) + 1
    BY DEF Cut
  <2> QED
    BY <2>2, <2>3
<1>13. ASSUME NEW g \in 1..n PROVE Neighbours(new[g]) /\ OneLayer(new[g])
  BY <1>5, <1>6, <1>7 DEF Cut
<1>14. Cut(new, i)
  BY <1>7, <1>9, <1>11, <1>12, <1>13 DEF Cut
<1> QED
  BY <1>14, <1>8

LEMMA CutKept ==
    ASSUME NEW i \in Nat \ {0}, NEW gs, Cut(gs, i - 1)
    PROVE  Cut(Joined(prog, gs, i), i)
BY Opens, Joins

LEMMA ProgramIsCut ==
    ASSUME Len(prog) \in Nat
    PROVE  Cut(identify_fusion_groups(prog), Len(prog))
<1> DEFINE n == Len(prog)
           X == Seq(Seq(Nat))
           Rule(f) == [i \in 0..n |-> IF i = 0 THEN <<>> ELSE Joined(prog, f[i - 1], i)]
           grouped == CHOOSE f : f = Rule(f)
           step == [i \in 1..n |-> [gs \in X |->
                       IF Cut(gs, i - 1) THEN Joined(prog, gs, i) ELSE <<>>]]
<1>1. n \in Nat
  OBVIOUS
<1>2. <<>> \in X /\ Cut(<<>>, 0)
  BY DEF Cut
<1>3. identify_fusion_groups(prog) = grouped[n]
  BY DEF identify_fusion_groups
<1> HIDE DEF n
<1>4. ASSUME NEW i \in 1..n, NEW gs, Cut(gs, i - 1)
      PROVE  Cut(Joined(prog, gs, i), i) /\ Joined(prog, gs, i) \in X
  <2>1. i \in Nat \ {0}
    BY <1>1
  <2>2. Cut(Joined(prog, gs, i), i)
    BY <1>4, <2>1, CutKept
  <2> QED
    BY <2>2 DEF Cut
<1> HIDE DEF X
<1>5. IsRule(step, <<>>, X, n)
  BY <1>1, <1>2, <1>4 DEF IsRule
<1>6. PICK f : Follows(f, step, <<>>, X, n)
  <2> HIDE DEF step
  <2> QED
    BY <1>5, Recursion
<1>7. ASSUME NEW i \in 1..n
      PROVE  f[i - 1] \in X /\ f[i] = step[i][f[i - 1]]
  <2>1. i - 1 \in 0..n
    BY <1>1
  <2> QED
    BY <1>6, <2>1, Zenon DEF Follows
<1>8. ASSUME NEW i \in 1..n, Cut(f[i - 1], i - 1)
      PROVE  f[i] = Joined(prog, f[i - 1], i)
  BY <1>7, <1>8, Zenon
<1>9. \A i \in 0..n : Cut(f[i], i)
  <2> DEFINE S == {i \in 0..n : Cut(f[i], i)}
  <2>1. 0 \in S
    BY <1>1, <1>2, <1>6 DEF Follows
  <2>2. ASSUME NEW i \in 1..n, i - 1 \in S PROVE i \in S
    <3>1. Cut(f[i - 1], i - 1)
      BY <2>2, Zenon
    <3>2. f[i] = Joined(prog, f[i - 1], i)
      BY <1>8, <3>1, Zenon
    <3>3. Cut(f[i], i)
      BY <1>4, <3>1, <3>2
    <3>4. i \in 0..n
      BY <1>1
    <3> QED
      BY <3>3, <3>4, Zenon
  <2>3. \A i \in 0..n : i \in S
    <3> HIDE DEF S
    <3> QED
      BY <1>1, <2>1, <2>2, UpTo
  <2> QED
    BY <2>3, Zenon
<1>10. f = Rule(f)
  <2>1. \A i \in 0..n : f[i] = IF i = 0 THEN <<>> ELSE Joined(prog, f[i - 1], i)
    <3> SUFFICES ASSUME NEW i \in 0..n, i # 0 PROVE f[i] = Joined(prog, f[i - 1], i)
      BY <1>6, Zenon DEF Follows
    <3>1. i \in 1..n /\ i - 1 \in 0..n
      BY <1>1
    <3> QED
      BY <1>8, <1>9, <3>1, Zenon
  <2>2. f = [i \in 0..n |-> f[i]]
    BY <1>6 DEF Follows
  <2> QED
    BY <2>1, <2>2, Zenon
<1>11. grouped = Rule(grouped)
  <2> HIDE DEF Rule
  <2> QED
    BY <1>10, Zenon
<1> HIDE DEF grouped, step
<1>12. \A i \in 0..n : grouped[i] = IF i = 0 THEN <<>> ELSE Joined(prog, grouped[i - 1], i)
  <2>1. \A g : \A i \in 0..n : Rule(g)[i] = IF i = 0 THEN <<>> ELSE Joined(prog, g[i - 1], i)
    BY Zenon
  <2> HIDE DEF Rule
  <2> QED
    BY <1>11, <2>1, Zenon
<1>13. \A i \in 0..n : Cut(grouped[i], i)
  <2> DEFINE S == {i \in 0..n : Cut(grouped[i], i)}
  <2> HIDE DEF Rule
  <2>1. 0 \in S
    BY <1>1, <1>2, <1>12
  <2>2. ASSUME NEW i \in 1..n, i - 1 \in S PROVE i \in S
    <3>1. Cut(grouped[i - 1], i - 1)
      BY <2>2, Zenon
    <3>2. i \in 0..n /\ i # 0
      BY <1>1
    <3>3. grouped[i] = Joined(prog, grouped[i - 1], i)
      BY <1>12, <3>2, Zenon
    <3>4. Cut(grouped[i], i)
      BY <1>4, <3>1, <3>3
    <3> QED
      BY <3>2, <3>4, Zenon
  <2>3. \A i \in 0..n : i \in S
    <3> HIDE DEF S
    <3> QED
      BY <1>1, <2>1, <2>2, UpTo
  <2> QED
    BY <2>3, Zenon
<1>14. Cut(grouped[n], n)
  BY <1>1, <1>13
<1> QED
  BY <1>3, <1>14 DEF n

LEMMA FootprintIsNumber ==
    ASSUME NEW op, op.shapes \in Seq(Seq(Nat)), op.out \in Seq(Nat)
    PROVE  estimate_op_l2_footprint(op) \in Nat
<1> DEFINE inputs == [i \in DOMAIN op.shapes |-> Elements(op.shapes[i])]
           sum == running_sum(inputs)[Len(inputs)]
<1>1. inputs \in Seq(Nat)
  <2>1. DOMAIN op.shapes = 1..Len(op.shapes) /\ Len(op.shapes) \in Nat
    OBVIOUS
  <2>2. \A i \in DOMAIN op.shapes : Elements(op.shapes[i]) \in Nat
    BY ElementsIsNumber
  <2> QED
    BY <2>1, <2>2
<1>2. sum \in Nat
  <2> HIDE DEF inputs
  <2>1. Len(inputs) \in 0..Len(inputs)
    BY <1>1
  <2> QED
    BY <1>1, <2>1, RunningSum
<1>3. Elements(op.out) \in Nat /\ Bytes(op.dtype) \in {1, 2, 4}
  BY ElementsIsNumber DEF Bytes
<1>4. estimate_op_l2_footprint(op) =
         IF op.kind = "Const" THEN Elements(op.out) * Bytes(op.dtype)
         ELSE 2 * (sum + Elements(op.out))
  BY DEF estimate_op_l2_footprint
<1> HIDE DEF inputs, sum
<1>5. /\ 2 * (sum + Elements(op.out)) \in Nat
      /\ Elements(op.out) * Bytes(op.dtype) \in Nat
  BY <1>2, <1>3
<1> QED
  BY <1>4, <1>5

LEMMA BudgetIsNumber ==
    ASSUME NEW r, NEW limits \in ChipLimits(r)
    PROVE  total_l2_budget(limits) \in Nat
<1> DEFINE Sized(chip) == /\ DOMAIN chip = DOMAIN a11_legacy
                          /\ chip.l2_per_ne \in Nat /\ chip.num_nes \in Nat
<1>1. Sized(a11_legacy) /\ Sized(a12)
  BY DEF a11_legacy, a12
<1>2. Sized(a13)
  BY <1>1 DEF a13
<1>3. Sized(a14) /\ Sized(a15)
  BY <1>2 DEF a14, a15
<1>4. Sized(a16) /\ Sized(a17)
  BY <1>3 DEF a16, a17
<1>5. Sized(a18)
  BY <1>4 DEF a18
<1>6. Sized(a18_pro)
  BY <1>5 DEF a18_pro
<1>7. Sized(a18_max) /\ Sized(future)
  BY <1>6 DEF a18_max, future
<1>8. Sized(m1)
  BY <1>3 DEF m1
<1>9. Sized(vu1)
  BY <1>4 DEF vu1
<1>10. \A chip : Sized(chip) => Sized(OneEngine(chip)) /\ Sized(TwoEngines(chip))
  <2>1. {"num_nes", "l2_per_ne"} \subseteq DOMAIN a11_legacy
    BY DEF a11_legacy
  <2> QED
    BY <2>1 DEF OneEngine, TwoEngines
<1> HIDE DEF Sized
<1>11. \A q \in Revisions : Sized(for_revision[q])
  BY <1>1, <1>2, <1>3, <1>4, <1>6, <1>7, <1>8, <1>9 DEF Revisions, Family, for_revision
<1>12. \A v \in DOMAIN for_hal_sub_variant : Sized(for_hal_sub_variant[v])
  BY <1>2, <1>3, <1>4, <1>10 DEF for_hal_sub_variant
<1>13. Sized(limits)
  BY <1>11, <1>12 DEF ChipLimits
<1>14. \A x \in Nat, y \in Nat : x * y \in Nat
  OBVIOUS
<1> QED
  BY <1>13, <1>14 DEF Sized, total_l2_budget

LEMMA ProgramsAreNumbers ==
    ASSUME PlacedInv
    PROVE  /\ Footprints(prog) \in Seq(Nat)
           /\ Len(Footprints(prog)) = Len(prog) /\ Len(prog) \in Nat
<1>1. \A i \in DOMAIN prog : \E unit \in Asked : prog[i] = Placed(unit)
  BY DEF PlacedInv
<1>2. ASSUME NEW i \in DOMAIN prog PROVE estimate_op_l2_footprint(prog[i]) \in Nat
  <2>1. PICK unit \in Asked : prog[i] = Placed(unit)
    BY <1>1
  <2>2. prog[i].shapes = unit.shapes /\ prog[i].out = unit.out
    BY <2>1 DEF Placed
  <2> QED
    BY <2>2, UnitsAssumption, FootprintIsNumber
<1>3. prog \in Seq({Placed(unit) : unit \in Asked})
  BY DEF PlacedInv
<1>4. DOMAIN prog = 1..Len(prog) /\ Len(prog) \in Nat
  <2> DEFINE All == {Placed(unit) : unit \in Asked}
  <2>1. prog \in Seq(All)
    BY <1>3
  <2> HIDE DEF All
  <2> QED
    BY <2>1
<1> QED
  BY <1>2, <1>4 DEF Footprints
(* The plan is the one of the program that still is. *)
PlanInv ==
    /\ groups # <<>> => prog # <<>> /\ groups = identify_fusion_groups(prog)
    /\ \A check \in checked :
          /\ prog # <<>> /\ check.limits \in ChipLimits(target.revision)
          /\ check.exceeded = check_l2_budget(prog, check.limits)

LEMMA PlanStep == PlanInv /\ [Next]_vars => PlanInv'
<1> SUFFICES ASSUME PlanInv, [Next]_vars PROVE PlanInv'
  OBVIOUS
<1>1. ASSUME NEW unit, Place(unit) PROVE PlanInv'
  BY <1>1 DEF PlanInv, Place
<1>2. CASE Fuse
  <2>1. prog # <<>> /\ prog' = prog /\ target' = target /\ checked' = checked
        /\ groups' = identify_fusion_groups(prog)
    BY <1>2 DEF Fuse, IsProgram
  <2>2. identify_fusion_groups(prog)' = identify_fusion_groups(prog)
    BY <2>1
  <2> QED
    BY <2>1, <2>2 DEF PlanInv
<1>3. ASSUME IsProgram, NEW limits \in ChipLimits(target.revision), Budget(limits) PROVE PlanInv'
  <2>1. prog # <<>> /\ prog' = prog /\ target' = target /\ groups' = groups
        /\ checked' = {[limits |-> limits, exceeded |-> check_l2_budget(prog, limits)]}
    BY <1>3 DEF Budget, IsProgram
  <2>2. identify_fusion_groups(prog)' = identify_fusion_groups(prog)
    BY <2>1
  <2> QED
    BY <1>3, <2>1, <2>2 DEF PlanInv
<1>4. CASE UNCHANGED <<target, prog, groups, checked>>
  <2>1. identify_fusion_groups(prog)' = identify_fusion_groups(prog)
    BY <1>4
  <2> QED
    BY <1>4, <2>1 DEF PlanInv
<1> QED
  BY <1>1, <1>2, <1>3, <1>4 DEF Next, vars, Judge

\* What a part of the program takes is a running sum of what the whole takes.
LEMMA PartsTotal ==
    ASSUME PlacedInv, NEW i \in 1..Len(prog)
    PROVE  Total(SubSeq(prog, 1, i - 1)) = running_sum(Footprints(prog))[i - 1]
<1> DEFINE part == SubSeq(prog, 1, i - 1)
           n == Len(prog)
<1>1. n \in Nat /\ Footprints(prog) \in Seq(Nat) /\ Len(Footprints(prog)) = n
  BY ProgramsAreNumbers
<1>2. DOMAIN part = 1..(i - 1) /\ Len(part) = i - 1 /\ \A k \in 1..(i - 1) : part[k] = prog[k]
  <2> DEFINE All == {Placed(unit) : unit \in Asked}
  <2>1. prog \in Seq(All)
    BY DEF PlacedInv
  <2> HIDE DEF All
  <2> QED
    BY <2>1
<1> HIDE DEF part
<1>3. DOMAIN Footprints(prog) = 1..n /\ DOMAIN prog = 1..n
  BY <1>1 DEF Footprints
<1>4. ASSUME NEW k \in 1..(i - 1)
      PROVE  Footprints(part)[k] = Footprints(prog)[k] /\ Footprints(prog)[k] \in Nat
  <2>1. k \in DOMAIN prog /\ k \in DOMAIN part /\ k \in 1..n
    BY <1>1, <1>2, <1>3
  <2> QED
    BY <1>1, <1>2, <2>1 DEF Footprints
<1>5. Footprints(part) = [k \in 1..(i - 1) |-> Footprints(part)[k]]
  BY <1>2 DEF Footprints
<1>6. Footprints(part) \in Seq(Nat) /\ Len(Footprints(part)) = i - 1
  BY <1>4, <1>5
<1>7. running_sum(Footprints(part))[i - 1] = running_sum(Footprints(prog))[i - 1]
  <2>1. i - 1 <= n
    BY <1>1
  <2> QED
    BY <1>1, <1>4, <1>6, <2>1, SumsAgree
<1> QED
  BY <1>2, <1>7 DEF Total, part

LEMMA PlanKeeps == PlacedInv /\ PlanInv => ProgramsAddUp
<1> SUFFICES ASSUME PlacedInv, PlanInv PROVE ProgramsAddUp
  OBVIOUS
<1> DEFINE n == Len(prog)
           prints == Footprints(prog)
           sum == running_sum(prints)
<1>1. /\ prints \in Seq(Nat) /\ Len(prints) = n /\ n \in Nat
      /\ DOMAIN prog = 1..n /\ (prog # <<>> => n # 0)
  <2>1. /\ Footprints(prog) \in Seq(Nat) /\ Len(Footprints(prog)) = Len(prog) /\ Len(prog) \in Nat
    BY ProgramsAreNumbers
  <2> DEFINE All == {Placed(unit) : unit \in Asked}
  <2>2. prog \in Seq(All)
    BY DEF PlacedInv
  <2> HIDE DEF All
  <2>3. DOMAIN prog = 1..Len(prog) /\ (prog # <<>> => Len(prog) # 0)
    BY <2>2
  <2> QED
    BY <2>1, <2>3
<1>2. GroupsAreLayers
  <2> SUFFICES ASSUME groups # <<>>
               PROVE  /\ groups[1][1] = 1 /\ Last(Last(groups)) = Len(prog)
                      /\ \A g \in 2..Len(groups) : groups[g][1] = Last(groups[g - 1]) + 1
                      /\ \A g \in DOMAIN groups : Neighbours(groups[g]) /\ OneLayer(groups[g])
    BY DEF GroupsAreLayers
  <2>1. groups = identify_fusion_groups(prog) /\ prog # <<>>
    BY DEF PlanInv
  <2>2. Cut(groups, n) /\ n # 0
    BY <1>1, <2>1, ProgramIsCut
  <2>3. DOMAIN groups = 1..Len(groups)
    BY <2>2 DEF Cut
  <2> QED
    BY <2>2, <2>3 DEF Cut
<1>3. ASSUME NEW check \in checked
      PROVE  check.exceeded <=>
                \E i \in DOMAIN prog :
                    check_op_l2_fit(prog[i], Total(SubSeq(prog, 1, i - 1)), check.limits)
  <2> DEFINE budget == total_l2_budget(check.limits)
  <2>1. budget \in Nat
    BY BudgetIsNumber DEF PlanInv
  <2>2. n # 0
    BY <1>1 DEF PlanInv
  <2>3. check.exceeded <=> sum[n] > budget
    BY <1>1 DEF PlanInv, check_l2_budget, Total
  <2>4. ASSUME NEW i \in 1..n
        PROVE  /\ check_op_l2_fit(prog[i], Total(SubSeq(prog, 1, i - 1)), check.limits)
                     <=> sum[i] > budget
               /\ sum[i] \in Nat /\ sum[i] <= sum[n] /\ sum[n] \in Nat
    <3>1. Total(SubSeq(prog, 1, i - 1)) = sum[i - 1]
      BY PartsTotal
    <3>2. prints[i] = estimate_op_l2_footprint(prog[i])
      BY <1>1 DEF Footprints
    <3>3. sum \in [0..n -> Nat] /\ sum[i] = sum[i - 1] + prints[i]
      BY <1>1, RunningSum
    <3>4. sum[i] <= sum[n]
      <4>1. i \in 0..Len(prints)
        BY <1>1
      <4> QED
        BY <1>1, <4>1, SumsGrow
    <3>5. sum[i] \in Nat /\ sum[n] \in Nat
      <4>1. i \in 0..n /\ n \in 0..n
        BY <1>1
      <4> QED
        BY <3>3, <4>1
    <3> HIDE DEF sum
    <3> QED
      BY <3>1, <3>2, <3>3, <3>4, <3>5 DEF check_op_l2_fit
  <2> HIDE DEF sum, budget
  <2>5. n \in 1..n
    BY <1>1, <2>2
  <2>6. ASSUME sum[n] > budget
        PROVE  \E i \in 1..n : check_op_l2_fit(prog[i], Total(SubSeq(prog, 1, i - 1)), check.limits)
    BY <2>4, <2>5, <2>6
  <2>7. ASSUME NEW i \in 1..n,
               check_op_l2_fit(prog[i], Total(SubSeq(prog, 1, i - 1)), check.limits)
        PROVE  sum[n] > budget
    BY <2>1, <2>4, <2>7
  <2> QED
    BY <1>1, <2>3, <2>6, <2>7
<1> QED
  BY <1>2, <1>3 DEF ProgramsAddUp, BudgetsAgree

(* The fusion groups that fusability.rs finds cut a program of any length into *)
(* runs of neighbours that share an engine layer, and the check of l2_budget.rs *)
(* of a whole program agrees with its check of one operation on top of those    *)
(* before it.                                                                   *)
THEOREM PlansAddUp == Spec => []ProgramsAddUp
<1>1. Init => PlacedInv /\ PlanInv
  BY DEF Init, PlacedInv, PlanInv
<1> QED
  BY <1>1, PlacedStep, PlanStep, PlanKeeps, PTL DEF Spec

-----------------------------------------------------------------------------
(* The legality gate.                                                      *)

\* The legality the rewrite gave is the gate's, whatever the store said.
JudgedInv ==
    \A op \in air : \E info : op.legality = LegalityOf(op_pattern(op.kind), info)

LEMMA JudgedStep == JudgedInv /\ [Next]_vars => JudgedInv'
<1> SUFFICES ASSUME JudgedInv, [Next]_vars PROVE JudgedInv'
  OBVIOUS
<1>1. ASSUME NEW kind, NEW info, Judge(kind, info) PROVE JudgedInv'
  BY <1>1 DEF Judge, JudgedInv
<1>2. CASE air' = air
  BY <1>2 DEF JudgedInv
<1> QED
  BY <1>1, <1>2 DEF Next, vars, Place, Fuse, Budget

LEMMA JudgedKeep == JudgedInv => GateAgrees
<1> SUFFICES ASSUME JudgedInv, NEW op \in air, is_cpu_only(mil_op_name(op.kind)),
                    op.kind \notin {"Mod", "Clip", "Range1d"}
             PROVE  op.legality = "LikelyFallback"
  BY DEF GateAgrees
<1>1. op_pattern(op.kind) = mil_op_name(op.kind)
  BY DEF op_pattern, mil_op_name
<1>2. PICK info : op.legality = LegalityOf(op_pattern(op.kind), info)
  BY DEF JudgedInv
<1> QED
  BY <1>1, <1>2 DEF LegalityOf

(* An operation whose lowered form is on the CPU-only list is a likely        *)
(* fallback to the gate of make_air_node, but for the three kinds it spells    *)
(* otherwise, whatever the knowledge store says of the pattern.                *)
THEOREM CpuOnlyIsFallback == Spec => []GateAgrees
<1>1. Init => JudgedInv
  BY DEF Init, JudgedInv
<1> QED
  BY <1>1, JudgedStep, JudgedKeep, PTL DEF Spec
=============================================================================
