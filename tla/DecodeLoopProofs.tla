-------------------------- MODULE DecodeLoopProofs --------------------------
(* Proofs about DecodeLoop, for contexts of every length: what rounding does to
   the slots from Exact on is part of what is proved.                        *)
EXTENDS DecodeLoop, TLAPS

(* A slot or position rounds to a number that is not negative and not more than
   doubled.                                                                  *)
LEMMA PositionRounds ==
    ASSUME NEW p \in Positions
    PROVE  fl(p) \in Int /\ 0 <= fl(p) /\ fl(p) <= 2 * SeqLen
<1>1. SeqLen \in Nat /\ p \in Int /\ 0 <= p /\ p <= SeqLen
  BY DecodeAssumption DEF Positions
<1>2. p \in Numbers /\ 0 \in Numbers
  BY <1>1 DEF Numbers
<1>3. fl(p) \in Int /\ Magnitude(fl(p)) <= 2 * Magnitude(p)
  BY <1>2, DecodeAssumption
<1>4. fl(0) = 0
  BY <1>2, DecodeAssumption DEF Magnitude
<1>5. fl(0) <= fl(p)
  BY <1>1, <1>2, DecodeAssumption
<1> QED BY <1>1, <1>3, <1>4, <1>5 DEF Magnitude

LEMMA SlotsArePositions == Slots \subseteq Positions
BY DecodeAssumption DEF Slots, Positions

(* Subtraction in floating point tells numbers apart: it is zero only between
   equals, since 1 is exact and order is kept.                               *)
LEMMA DifferenceIsZero ==
    ASSUME NEW d \in Numbers
    PROVE  /\ fl(d) \in Int
           /\ d = 0 => fl(d) = 0
           /\ d > 0 => fl(d) >= 1
           /\ d < 0 => fl(d) <= -1
<1>1. SeqLen \in Nat /\ SeqLen >= 1 /\ Exact >= 1 /\ Exact \in Nat /\ d \in Int
  BY DecodeAssumption DEF Numbers
<1>2. 0 \in Numbers /\ 1 \in Numbers /\ -1 \in Numbers
  BY <1>1 DEF Numbers
<1>3. fl(0) = 0 /\ fl(1) = 1 /\ fl(-1) = -1
  BY <1>1, <1>2, DecodeAssumption DEF Magnitude
<1>4. d > 0 => fl(1) <= fl(d)
  BY <1>1, <1>2, DecodeAssumption
<1>5. d < 0 => fl(d) <= fl(-1)
  BY <1>1, <1>2, DecodeAssumption
<1>6. fl(d) \in Int
  BY DecodeAssumption
<1> QED BY <1>1, <1>3, <1>4, <1>5, <1>6

(* The write mask of a position holds the slots that round to its number. *)
LEMMA WriteMask ==
    ASSUME NEW p \in Positions
    PROVE  /\ \A s \in Slots : kv_mask_gathered(p)[s] = IF fl(s) = fl(p) THEN 1 ELSE 0
           /\ gathered_rows(p) = {s \in Slots : fl(s) = fl(p)}
<1>1. \A s \in Slots : 1 - Lesser(Magnitude(fl(arange_fp16_tab[s] - fl(p))), 1)
                        = IF fl(s) = fl(p) THEN 1 ELSE 0
  <2>1. SUFFICES ASSUME NEW s \in Slots
                 PROVE  1 - Lesser(Magnitude(fl(arange_fp16_tab[s] - fl(p))), 1)
                        = IF fl(s) = fl(p) THEN 1 ELSE 0
    OBVIOUS
  <2>2. arange_fp16_tab[s] = fl(s)
    BY DEF arange_fp16_tab
  <2>3. /\ fl(s) \in Int /\ 0 <= fl(s) /\ fl(s) <= 2 * SeqLen
        /\ fl(p) \in Int /\ 0 <= fl(p) /\ fl(p) <= 2 * SeqLen
    BY PositionRounds, SlotsArePositions
  <2> DEFINE d == fl(s) - fl(p)
  <2>4. d \in Numbers
    BY <2>3, DecodeAssumption DEF Numbers
  <2>5. /\ fl(d) \in Int
        /\ d = 0 => fl(d) = 0
        /\ d > 0 => fl(d) >= 1
        /\ d < 0 => fl(d) <= -1
    BY <2>4, DifferenceIsZero
  <2>6. /\ d \in Int
        /\ d = 0 <=> fl(s) = fl(p)
    BY <2>3
  <2>7. 1 - Lesser(Magnitude(fl(d)), 1) = IF d = 0 THEN 1 ELSE 0
    <3> HIDE DEF d
    <3> QED BY <2>5, <2>6 DEF Lesser, Magnitude
  <2> QED BY <2>2, <2>6, <2>7
<1>2. \A s \in Slots : kv_mask_gathered(p)[s] = IF fl(s) = fl(p) THEN 1 ELSE 0
  BY <1>1 DEF kv_mask_gathered
<1> QED BY <1>2 DEF gathered_rows

(* A slot below Exact rounds to the number of no other position. *)
LEMMA SmallSlotsAreApart ==
    ASSUME NEW s \in Slots, s < Exact, NEW p \in Positions, fl(s) = fl(p)
    PROVE  s = p
<1>1. /\ SeqLen \in Nat /\ Exact \in Nat /\ Exact >= 1
      /\ s \in Int /\ 0 <= s /\ s < SeqLen /\ p \in Int /\ 0 <= p /\ p <= SeqLen
  BY DecodeAssumption DEF Slots, Positions
<1>2. s \in Numbers /\ p \in Numbers
  BY <1>1 DEF Numbers
<1>3. fl(s) = s
  BY <1>1, <1>2, DecodeAssumption DEF Magnitude
<1>4. CASE p <= Exact
  <2>1. fl(p) = p
    BY <1>1, <1>2, <1>4, DecodeAssumption DEF Magnitude
  <2> QED BY <1>3, <2>1
<1>5. CASE Exact < p
  <2>1. Exact \in Numbers /\ Exact <= p
    BY <1>1, <1>5 DEF Numbers
  <2>2. fl(Exact) = Exact
    BY <1>1, <2>1, DecodeAssumption DEF Magnitude
  <2>3. fl(Exact) <= fl(p)
    BY <1>2, <2>1, DecodeAssumption
  <2> QED BY <1>1, <1>3, <2>2, <2>3
<1> QED BY <1>1, <1>4, <1>5

(* The attention mask is a bit for each slot. *)
LEMMA AttentionMaskIsBits ==
    ASSUME NEW p \in Positions
    PROVE  mask_is_blocked(p) \in [Slots -> {0, 1}]
<1> DEFINE A == fl(SeqLen - 1)
           offset == fl(A - fl(p))
           distance(s) == fl(arange_fp16_tab[s] - offset)
           shifted(s) == fl(distance(s) + 1)
<1>1. SeqLen \in Nat /\ SeqLen >= 1 /\ SeqLen - 1 \in Positions
  BY DecodeAssumption DEF Positions
<1>2. /\ A \in Int /\ 0 <= A /\ A <= 2 * SeqLen
      /\ fl(p) \in Int /\ 0 <= fl(p) /\ fl(p) <= 2 * SeqLen
  BY <1>1, PositionRounds
<1>3. offset \in Int /\ -(4 * SeqLen) <= offset /\ offset <= 4 * SeqLen
  <2>1. A - fl(p) \in Numbers
    BY <1>1, <1>2 DEF Numbers
  <2>2. fl(A - fl(p)) \in Int /\ Magnitude(fl(A - fl(p))) <= 2 * Magnitude(A - fl(p))
    BY <2>1, DecodeAssumption
  <2> HIDE DEF A
  <2> QED BY <1>1, <1>2, <2>2 DEF Magnitude
<1>4. ASSUME NEW s \in Slots
      PROVE  1 - Lesser(Greater(shifted(s), 0), 1) \in {0, 1}
  <2>1. arange_fp16_tab[s] = fl(s) /\ fl(s) \in Int /\ 0 <= fl(s) /\ fl(s) <= 2 * SeqLen
    BY PositionRounds, SlotsArePositions DEF arange_fp16_tab
  <2> HIDE DEF offset
  <2>2. /\ fl(s) - offset \in Numbers /\ fl(s) - offset \in Int
        /\ -(6 * SeqLen) <= fl(s) - offset /\ fl(s) - offset <= 6 * SeqLen
    BY <1>1, <1>3, <2>1 DEF Numbers
  <2>3. distance(s) \in Int /\ -(12 * SeqLen) <= distance(s) /\ distance(s) <= 12 * SeqLen
    <3>1. fl(fl(s) - offset) \in Int /\ Magnitude(fl(fl(s) - offset)) <= 2 * Magnitude(fl(s) - offset)
      BY <2>2, DecodeAssumption
    <3> QED BY <1>1, <2>1, <2>2, <3>1 DEF Magnitude
  <2> HIDE DEF distance
  <2>4. distance(s) + 1 \in Numbers
    BY <1>1, <2>3 DEF Numbers
  <2>5. shifted(s) \in Int
    BY <2>4, DecodeAssumption
  <2> HIDE DEF shifted
  <2> QED BY <2>5 DEF Lesser, Greater
<1> QED BY <1>4 DEF mask_is_blocked

-----------------------------------------------------------------------------
(* The slots after a call: those that round to its position hold the token. *)
LEMMA CachesAfterStep ==
    ASSUME NEW p \in Positions, NEW t \in Tokens, DecodeStep(p, t)
    PROVE  LET rows == {r \in Slots : fl(r) = fl(p)}
           IN  /\ k_cache' = [s \in Slots |-> IF fl(s) = fl(p) THEN [token |-> t, rows |-> rows] ELSE k_cache[s]]
               /\ v_cache' = [s \in Slots |-> IF fl(s) = fl(p) THEN t ELSE v_cache[s]]
               /\ last' = [pos |-> p, rows |-> rows, blocked |-> mask_is_blocked(p)]
<1>1. \A s \in Slots : (kv_mask_gathered(p)[s] = 1) <=> (fl(s) = fl(p))
  BY WriteMask
<1>2. gathered_rows(p) = {r \in Slots : fl(r) = fl(p)}
  BY WriteMask
<1> QED BY <1>1, <1>2 DEF DecodeStep, append

(* Type correctness, at every length: caches hold tokens, keys are rotated by
   rows of the tables, and the masks that apply_rope_decode computes are bits. *)
THEOREM Typed == LoopSpec => []LoopTypeOK
<1>1. LoopInit => LoopTypeOK
  BY DecodeAssumption DEF LoopInit, LoopTypeOK, EmptyKey, Positions
<1>2. LoopTypeOK /\ [LoopNext]_loop => LoopTypeOK'
  <2>1. CASE UNCHANGED loop
    BY <2>1 DEF LoopTypeOK, loop
  <2>2. ASSUME LoopTypeOK, NEW p \in Positions, NEW t \in Tokens, DecodeStep(p, t)
        PROVE  LoopTypeOK'
    <3> DEFINE rows == {r \in Slots : fl(r) = fl(p)}
    <3>1. rows \in SUBSET Slots
      OBVIOUS
    <3>2. /\ k_cache' = [s \in Slots |-> IF fl(s) = fl(p) THEN [token |-> t, rows |-> rows] ELSE k_cache[s]]
          /\ v_cache' = [s \in Slots |-> IF fl(s) = fl(p) THEN t ELSE v_cache[s]]
          /\ last' = [pos |-> p, rows |-> rows, blocked |-> mask_is_blocked(p)]
      BY <2>2, CachesAfterStep
    <3> HIDE DEF rows
    <3>3. k_cache' \in [Slots -> [token : Tokens \cup {Empty}, rows : SUBSET Slots]]
      BY <2>2, <3>1, <3>2 DEF LoopTypeOK
    <3>4. v_cache' \in [Slots -> Tokens \cup {Empty}]
      BY <2>2, <3>2 DEF LoopTypeOK
    <3> QED BY <3>1, <3>2, <3>3, <3>4, AttentionMaskIsBits DEF LoopTypeOK
  <2> QED BY <2>1, <2>2 DEF LoopNext
<1> QED BY <1>1, <1>2, PTL DEF LoopSpec

-----------------------------------------------------------------------------
(* What is inductive: the key in a written slot was rotated by the slots that
   round to the same number, which below Exact is the slot alone.            *)
KeysRotatedTogether ==
    /\ \A s \in Slots :
        /\ k_cache[s].token = v_cache[s]
        /\ v_cache[s] # Empty => k_cache[s].rows = {r \in Slots : fl(r) = fl(s)}
    /\ last.pos \in Positions \cup {-1}
    /\ last.pos \in Slots =>
        /\ v_cache[last.pos] # Empty
        /\ last.rows = {r \in Slots : fl(r) = fl(last.pos)}

LEMMA RotatedTogether == LoopSpec => []KeysRotatedTogether
<1>1. LoopInit => KeysRotatedTogether
  BY DecodeAssumption DEF LoopInit, KeysRotatedTogether, EmptyKey, Slots
<1>2. KeysRotatedTogether /\ [LoopNext]_loop => KeysRotatedTogether'
  <2>1. CASE UNCHANGED loop
    BY <2>1 DEF KeysRotatedTogether, loop
  <2>2. ASSUME KeysRotatedTogether, NEW p \in Positions, NEW t \in Tokens, DecodeStep(p, t)
        PROVE  KeysRotatedTogether'
    <3> DEFINE rows == {r \in Slots : fl(r) = fl(p)}
    <3>1. /\ k_cache' = [s \in Slots |-> IF fl(s) = fl(p) THEN [token |-> t, rows |-> rows] ELSE k_cache[s]]
          /\ v_cache' = [s \in Slots |-> IF fl(s) = fl(p) THEN t ELSE v_cache[s]]
          /\ last' = [pos |-> p, rows |-> rows, blocked |-> mask_is_blocked(p)]
      BY <2>2, CachesAfterStep
    <3>2. ASSUME NEW s \in Slots
          PROVE  /\ k_cache'[s].token = v_cache'[s]
                 /\ v_cache'[s] # Empty => k_cache'[s].rows = {r \in Slots : fl(r) = fl(s)}
      <4>1. CASE fl(s) = fl(p)
        BY <3>1, <4>1
      <4>2. CASE fl(s) # fl(p)
        <5>1. k_cache'[s] = k_cache[s] /\ v_cache'[s] = v_cache[s]
          BY <3>1, <4>2
        <5> QED BY <2>2, <5>1 DEF KeysRotatedTogether
      <4> QED BY <4>1, <4>2
    <3>3. last'.pos = p /\ last'.rows = rows
      BY <3>1
    <3>4. p \in Slots => v_cache'[p] = t /\ t # Empty
      BY <3>1, DecodeAssumption
    <3> QED BY <3>2, <3>3, <3>4 DEF KeysRotatedTogether
  <2> QED BY <2>1, <2>2 DEF LoopNext
<1> QED BY <1>1, <1>2, PTL DEF LoopSpec

(* At every length a slot holds key and value of one token, the key rotated by
   the row of the slot and below Exact by no other, and the query of the last
   call like the key of its position: apply_rope_decode selects rows and slots
   by one mask.                                                              *)
THEOREM SlotsSound == LoopSpec => []SlotsAreSound
<1>1. ASSUME KeysRotatedTogether
      PROVE  SlotsAreSound
  <2>1. ASSUME NEW s \in Slots
        PROVE  /\ k_cache[s].token = v_cache[s]
               /\ v_cache[s] # Empty => s \in k_cache[s].rows
               /\ v_cache[s] # Empty /\ s < Exact => k_cache[s].rows = {s}
    <3>1. /\ k_cache[s].token = v_cache[s]
          /\ v_cache[s] # Empty => k_cache[s].rows = {r \in Slots : fl(r) = fl(s)}
      BY <1>1 DEF KeysRotatedTogether
    <3>2. s < Exact => {r \in Slots : fl(r) = fl(s)} = {s}
      BY SmallSlotsAreApart, SlotsArePositions
    <3> QED BY <3>1, <3>2
  <2>2. last.pos \in Slots => last.rows = k_cache[last.pos].rows
    BY <1>1 DEF KeysRotatedTogether
  <2> QED BY <2>1, <2>2 DEF SlotsAreSound
<1> QED BY <1>1, RotatedTogether, PTL

(* The value cache is a cache of tokens at every length: a call writes the slot
   of its position, and of the slots below Exact no other.                   *)
THEOREM CacheRefinement == LoopSpec => ImplementsTokenCache
<1>1. LoopInit => Abstract!Init
  BY DEF LoopInit, Abstract!Init, Slots
<1>2. [LoopNext]_loop => [Abstract!Next]_v_cache
  <2>1. CASE UNCHANGED loop
    BY <2>1 DEF loop
  <2>2. ASSUME NEW p \in Positions, NEW t \in Tokens, DecodeStep(p, t)
        PROVE  Abstract!Next
    <3> DEFINE taken == {s \in Slots : fl(s) = fl(p)}
    <3>1. v_cache' = [s \in Slots |-> IF s \in taken THEN t ELSE v_cache[s]]
      BY <2>2, CachesAfterStep
    <3>2. \A s \in taken : s = p \/ s >= Exact
      BY SmallSlotsAreApart, DecodeAssumption DEF Slots
    <3>3. p \in Slots => p \in taken
      OBVIOUS
    <3>4. taken \in SUBSET {s \in Slots : s = p \/ s >= Exact}
      BY <3>2
    <3> HIDE DEF taken
    <3>5. Abstract!Feed(p, t)
      BY <3>1, <3>3, <3>4 DEF Abstract!Feed, Slots
    <3> QED BY <3>5 DEF Abstract!Next, Positions
  <2> QED BY <2>1, <2>2 DEF LoopNext
<1> QED BY <1>1, <1>2, PTL DEF LoopSpec, ImplementsTokenCache, Abstract!Spec
=============================================================================
