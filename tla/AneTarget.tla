---- MODULE AneTarget ----
(***************************************************************************)
(* The hardware the compiler knows: silicon families, revisions of the     *)
(* neural engine and chip variants, what each can do, the limits it sets   *)
(* and the layouts it takes (ir/src/ane_target.rs, ane_hw_limits.rs,       *)
(* ane_layout.rs). Family n is the code's A<n>; 11 is A11Legacy. Limits    *)
(* that no validator reads are left out.                                   *)
(***************************************************************************)
EXTENDS Integers, TLC, FiniteSetsExt

Families == 11 .. 18

broadcast_fp16_only(family) == family <= 12
uses_a14minus_converters(family) == family <= 13
supports_sdpa(family) == family >= 16
supports_layernorm(family) == family >= 15
supports_reducemin_all_dtypes(family) == family >= 14
supports_argminmax(family) == family # 18
supports_e4m3(family) == family >= 17

Nothing == "none"

Family ==
    [V4 |-> 11, V5 |-> 12, V6 |-> 13, V7 |-> 14, V8 |-> 15, V10 |-> 16, V11 |-> 17,
     V17 |-> 14, Vu1 |-> 17, V19 |-> 18, V20 |-> 18, V26 |-> 18]

Revisions == DOMAIN Family

-----------------------------------------------------------------------------
(* Limits: each chip's are an older chip's with some of them changed.      *)

a11_legacy ==
    [width |-> 16384, height |-> 4096, depth |-> 2048, channels |-> 65536, rank |-> 5,
     kernel_x_8b |-> 7, kernel_x_f16 |-> 7, kernel_y |-> 7, large_kernel_mode |-> 16,
     pooling |-> 27, conv_channels |-> 32768, transpose_c |-> 16384,
     num_nes |-> 1, l2_per_ne |-> 32768]

a12 == a11_legacy

a13 == [a11_legacy EXCEPT !.width = 32768, !.height = 8192, !.l2_per_ne = 65536]

a14 == [a13 EXCEPT !.width = 65536, !.num_nes = 2, !.l2_per_ne = 131072]

a15 == a14

\* A mutant for AcceptanceIsMonotone: a revision given an older one's width.
a16_as_wide_as_a13 ==
    [a15 EXCEPT !.width = 32768, !.height = 16384, !.num_nes = 4, !.l2_per_ne = 262144]

a16 == [a15 EXCEPT !.width = 131072, !.height = 16384, !.num_nes = 4, !.l2_per_ne = 262144]

a17 == a16

m1 == [a14 EXCEPT !.width = 262144, !.num_nes = 6]

a18 == [a17 EXCEPT !.width = 262144, !.num_nes = 6]
a18_pro == [a18 EXCEPT !.num_nes = 8]
a18_max == [a18_pro EXCEPT !.num_nes = 16]
future == a18_max

vu1 == [a17 EXCEPT !.width = 262144, !.num_nes = 8]

for_revision ==
    [V4 |-> a11_legacy, V5 |-> a12, V6 |-> a13, V7 |-> a14, V8 |-> a15, V10 |-> a16,
     V11 |-> a17, V17 |-> m1, V19 |-> a18_pro, V20 |-> a18_max, V26 |-> future, Vu1 |-> vu1]

\* Compact chips have fewer engines than their family; the others differ from
\* it in nothing a validator reads.
OneEngine(parent) == [parent EXCEPT !.num_nes = 1]
TwoEngines(parent) == [parent EXCEPT !.num_nes = 2]

for_hal_sub_variant ==
    [H13g |-> a13, H14c |-> OneEngine(a14), H14g |-> a14, H15c |-> OneEngine(a15),
     H15g |-> a15, H16c |-> TwoEngines(a16), H16g |-> a16, H16s |-> a16, H17a |-> a17]

revision_for_hal_sub_variant ==
    [H13g |-> "V6", H14c |-> "V7", H14g |-> "V7", H15c |-> "V8", H15g |-> "V8",
     H16c |-> "V10", H16g |-> "V10", H16s |-> "V10", H17a |-> "V11"]

validate_tensor_dims(limits, dims, rank) ==
    /\ dims.w <= limits.width
    /\ dims.h <= limits.height
    /\ dims.d <= limits.depth
    /\ dims.c <= limits.channels
    /\ rank <= limits.rank

validate_conv_channels(limits, c) == c <= limits.conv_channels

validate_conv_dims(limits, kernel_x, kernel_y, is_8bit) ==
    /\ kernel_x <= IF is_8bit THEN limits.kernel_x_8b ELSE limits.kernel_x_f16
    /\ kernel_y <= limits.kernel_y

validate_transpose_c_max(limits, c) == c <= limits.transpose_c

total_l2_budget(limits) == limits.l2_per_ne * limits.num_nes

-----------------------------------------------------------------------------
(* Layouts.                                                                *)

Interleaves == {1, 2, 3, 4, 8}

validate_interleave_constraints(interleave, is_const, is_int4, c) ==
    /\ is_const => interleave = 1
    /\ is_int4 => interleave = 8
    /\ c % interleave = 0

validate_channellast_constraints(layout, is_depthwise_conv, interleave) ==
    layout = "ChannelLast" => is_depthwise_conv /\ interleave = 1
====
