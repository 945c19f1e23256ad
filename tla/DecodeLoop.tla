----------------------------- MODULE DecodeLoop -----------------------------
(* A compiled decode function, called once per token: what the operations that
   apply_rope_decode and decompose_decode_step emit compute from the position.
   The position is compared with a table of slot numbers in floating point;
   the comparison is the write mask of the caches and the selector of the row
   of the rotary tables, and a second one is the attention mask.

   Numbers are integers as fp16 holds them: exact up to Exact (2048 for fp16),
   rounded beyond, and nothing bounds the length of the context by Exact. Head,
   layer and feature axes are left out: a key is the token it was projected
   from with the rows of the tables that rotated it, a value the token.      *)
EXTENDS Integers

CONSTANTS
    SeqLen,  \* the length of the cache and of the tables (kv_len)
    Exact,   \* the largest integer below which all are representable
    Tokens,  \* the tokens
    Empty,   \* what a slot of a new cache holds
    fl(_)    \* the floating point number next to an integer: f16::from_f64 of
             \* the tables, and what an operation makes of its result

Magnitude(n) == IF n >= 0 THEN n ELSE -n

(* More than what the operations on slots and positions come to. *)
Numbers == -(16 * SeqLen)..(16 * SeqLen)

(* Rounding to nearest, as weakly as it is needed: integers stay integers, small
   ones are exact, none is doubled, and order is kept. (A context reaches 40960
   positions, so nothing overflows fp16.)                                    *)
ASSUME DecodeAssumption ==
    /\ SeqLen \in Nat \ {0} /\ Exact \in Nat \ {0}
    /\ Empty \notin Tokens
    /\ \A n \in Numbers : fl(n) \in Int /\ Magnitude(fl(n)) <= 2 * Magnitude(n)
    /\ \A n \in Numbers : Magnitude(n) <= Exact => fl(n) = n
    /\ \A m, n \in Numbers : m <= n => fl(m) <= fl(n)

VARIABLES
    k_cache,  \* the key in each slot: its token and the rows that rotated it
    v_cache,  \* the token whose value is in each slot
    last      \* the last call: its position, the rows that rotated its query,
              \* and for each slot whether the mask blocked it

loop == <<k_cache, v_cache, last>>

Slots == 0..(SeqLen - 1)

(* Positions the caller may pass: those of the context, and the one after. *)
Positions == 0..SeqLen

EmptyKey == [token |-> Empty, rows |-> {}]

-----------------------------------------------------------------------------
Lesser(a, b) == IF a <= b THEN a ELSE b
Greater(a, b) == IF a >= b THEN a ELSE b

-----------------------------------------------------------------------------
(* arange_fp16_tab: the slot numbers. *)
arange_fp16_tab == [s \in Slots |-> fl(s)]

(* A mutant that takes the neighbours of the slot too. *)
one_hot_of_two(p) ==
    [s \in Slots |-> 1 - Lesser(Magnitude(fl(arange_fp16_tab[s] - fl(p))) \div 2, 1)]

(* The write mask of position p: 1 - min(|slot - p|, 1). *)
kv_mask_gathered(p) ==
    [s \in Slots |-> 1 - Lesser(Magnitude(fl(arange_fp16_tab[s] - fl(p))), 1)]

(* The rows that the product of a rotary table with the write mask, summed,
   adds up: one row when the mask is one-hot.                                *)
gathered_rows(p) == {s \in Slots : kv_mask_gathered(p)[s] = 1}

(* The attention mask of position p, 1 where a slot is blocked:
   1 - min(max(slot - (SeqLen - 1 - p) + 1, 0), 1).                          *)
mask_is_blocked(p) ==
    LET mask_offset == fl(fl(SeqLen - 1) - fl(p))
        shifted(s) == fl(fl(arange_fp16_tab[s] - mask_offset) + 1)
    IN  [s \in Slots |-> 1 - Lesser(Greater(shifted(s), 0), 1)]

(* A mutant that writes where it should keep. *)
append_swapped(old, new, w) == IF w = 1 THEN old ELSE new

(* old * (1 - w) + new * w. *)
append(old, new, w) == IF w = 1 THEN new ELSE old

-----------------------------------------------------------------------------
LoopInit ==
    /\ k_cache = [s \in Slots |-> EmptyKey]
    /\ v_cache = [s \in Slots |-> Empty]
    /\ last = [pos |-> -1, rows |-> {}, blocked |-> [s \in Slots |-> 1]]

(* One call: the new key is rotated, both caches are blended with the write
   mask, the blended caches are attended under the mask and written back.    *)
DecodeStep(p, t) ==
    LET mask_write == kv_mask_gathered(p)
        k_new_rope == [token |-> t, rows |-> gathered_rows(p)]
    IN  /\ k_cache' = [s \in Slots |-> append(k_cache[s], k_new_rope, mask_write[s])]
        /\ v_cache' = [s \in Slots |-> append(v_cache[s], t, mask_write[s])]
        /\ last' = [pos |-> p, rows |-> gathered_rows(p), blocked |-> mask_is_blocked(p)]

LoopNext == \E p \in Positions, t \in Tokens : DecodeStep(p, t)

LoopSpec == LoopInit /\ [][LoopNext]_loop

-----------------------------------------------------------------------------
(* The masks are bits, and keys are rotated by rows of the tables. *)
LoopTypeOK ==
    /\ k_cache \in [Slots -> [token : Tokens \cup {Empty}, rows : SUBSET Slots]]
    /\ v_cache \in [Slots -> Tokens \cup {Empty}]
    /\ last \in [pos : Positions \cup {-1}, rows : SUBSET Slots, blocked : [Slots -> {0, 1}]]

(* Whatever positions were fed in whatever order, at any length, a slot holds
   the key and the value of one token; its key was rotated by the row of its
   slot, and below Exact by no other; and the query of the last call is rotated
   like the key in the slot of its position. (apply_rope_decode selects rows and
   slots by one mask, which beyond Exact can select several.)                *)
SlotsAreSound ==
    /\ \A s \in Slots :
        /\ k_cache[s].token = v_cache[s]
        /\ v_cache[s] # Empty => s \in k_cache[s].rows
        /\ v_cache[s] # Empty /\ s < Exact => k_cache[s].rows = {s}
    /\ last.pos \in Slots => last.rows = k_cache[last.pos].rows

(* The value cache is a cache of tokens: a call writes the slot of its position
   and, of those it keeps exactly, no other. Slots from Exact on may take the
   token of a position that rounds to the same number.                       *)
Abstract == INSTANCE TokenCache WITH stored <- v_cache, Kept <- Exact

ImplementsTokenCache == Abstract!Spec

(* What the comments on the mask promise, static_table_resolver.rs:195-196 and
   legality_rewrite.rs:3013: a causal mask. The call at a position attends to
   the slots of the positions up to its own and to no later one.             *)
CausalMask ==
    last.pos \in Slots =>
        \A s \in Slots : last.blocked[s] = IF s <= last.pos THEN 0 ELSE 1
=============================================================================
