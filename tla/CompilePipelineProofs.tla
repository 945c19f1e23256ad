------------------------ MODULE CompilePipelineProofs ------------------------
(* The passes of a compile, for any sources: what was decided about the
   source's operations holds of the nodes made from them (DecisionsReachGraph),
   and heads are paired wherever attention is taken apart (HeadsPaired).

   The precision policy marks the operations with a hazard. Their bases are
   fixed by the source (Marked), and every graph from then on is a sequence of
   nodes that are in fp32 if their id is formatted from a decided base (Meets).
   So each function of the two rewrites is shown to turn a node that meets the
   decision into nodes that do; the rows cut out for the projection to the
   vocabulary are the exception, and remain rows. The plan is made from the SIR
   graph, whose nodes come from the source or are tables (Comes).             *)
EXTENDS CompilePipeline, FiniteSetTheorems, SequenceTheorems, WellFoundedInduction, TLAPS

(* A least member of a set of numbers. *)
LEMMA LeastExists ==
    ASSUME NEW S \in SUBSET Nat, S # {}
    PROVE  \E least \in S : \A n \in S : least <= n
<1>1. PICK least \in S : \A n \in S : ~ (<<n, least>> \in OpToRel(<, Nat))
  BY NatLessThanWellFounded, WFMin
<1>2. \A n \in S : least <= n
  <2> SUFFICES ASSUME NEW n \in S, n < least PROVE FALSE
    OBVIOUS
  <2>1. <<n, least>> \in OpToRel(<, Nat)
    BY DEF OpToRel
  <2> QED
    BY <1>1, <2>1
<1> QED
  BY <1>2

(* Induction over the numbers up to one, from the least one left out. *)
LEMMA UpTo ==
    ASSUME NEW n \in Nat, NEW S, 0 \in S, \A i \in 1..n : i - 1 \in S => i \in S
    PROVE  \A i \in 0..n : i \in S
<1> DEFINE T == (0..n) \ S
<1> SUFFICES ASSUME T # {} PROVE FALSE
  OBVIOUS
<1>1. PICK x \in T : \A y \in T : x <= y
  <2> HIDE DEF T
  <2>1. T \in SUBSET Nat
    BY DEF T
  <2> QED
    BY <2>1, LeastExists
<1>2. x \in 1..n /\ x - 1 \in T
  OBVIOUS
<1> QED
  BY <1>1, <1>2

(* Sequences one after the other. *)
LEMMA FlatSteps ==
    ASSUME NEW S, NEW seqs \in Seq(Seq(S))
    PROVE  \E flat :
               /\ \A i \in 1..Len(seqs) : flat[i] = IF i = 1 THEN seqs[i] ELSE flat[i - 1] \o seqs[i]
               /\ FlattenSeq(seqs) = IF Len(seqs) = 0 THEN seqs ELSE flat[Len(seqs)]
<1> DEFINE n == Len(seqs)
           IsFlat(f, m) == f = [i \in 1..m |-> IF i = 1 THEN seqs[i] ELSE f[i - 1] \o seqs[i]]
           Flat == CHOOSE f : IsFlat(f, n)
<1>1. n \in Nat /\ \A i \in 1..n : seqs[i] \in Seq(S)
  OBVIOUS
<1>2. \E f : IsFlat(f, n)
  <2> DEFINE Numbers == {m \in 0..n : \E f : IsFlat(f, m)}
  <2>1. 0 \in Numbers
    <3> DEFINE g == [i \in 1..0 |-> IF i = 1 THEN seqs[i] ELSE <<>>]
    <3>1. IsFlat(g, 0)
      OBVIOUS
    <3> HIDE DEF IsFlat, g
    <3>2. 0 \in 0..n /\ \E f : IsFlat(f, 0)
      BY <1>1, <3>1
    <3> QED
      BY <3>2
  <2>2. ASSUME NEW m \in 1..n, m - 1 \in Numbers PROVE m \in Numbers
    <3>1. PICK f : IsFlat(f, m - 1)
      BY <2>2
    <3> DEFINE g == [i \in 1..m |-> IF i = m THEN (IF m = 1 THEN seqs[1] ELSE f[m - 1] \o seqs[m]) ELSE f[i]]
    <3>2. \A i \in 1..m : g[i] = IF i = 1 THEN seqs[i] ELSE g[i - 1] \o seqs[i]
      <4> SUFFICES ASSUME NEW i \in 1..m
                   PROVE  g[i] = IF i = 1 THEN seqs[i] ELSE g[i - 1] \o seqs[i]
        OBVIOUS
      <4>1. CASE i = m
        BY <4>1
      <4>2. CASE i # m
        <5>1. i \in 1..m - 1 /\ g[i] = f[i] /\ (i # 1 => g[i - 1] = f[i - 1])
          BY <4>2
        <5>2. f[i] = IF i = 1 THEN seqs[i] ELSE f[i - 1] \o seqs[i]
          BY <3>1, <5>1
        <5> QED
          BY <5>1, <5>2
      <4> QED
        BY <4>1, <4>2
    <3>3. g = [i \in 1..m |-> g[i]]
      OBVIOUS
    <3> HIDE DEF g
    <3>4. IsFlat(g, m)
      BY <3>2, <3>3
    <3> HIDE DEF IsFlat
    <3>5. m \in 0..n /\ \E h : IsFlat(h, m)
      BY <1>1, <3>4
    <3> QED
      BY <3>5
  <2>3. \A m \in 0..n : m \in Numbers
    <3> HIDE DEF Numbers
    <3> QED
      BY <1>1, <2>1, <2>2, UpTo
  <2>4. n \in Numbers
    <3> HIDE DEF Numbers, n
    <3> QED
      BY <1>1, <2>3
  <2> HIDE DEF IsFlat
  <2> QED
    BY <2>4
<1>3. IsFlat(Flat, n)
  <2> HIDE DEF IsFlat
  <2> QED
    BY <1>2
<1>4. FlattenSeq(seqs) = IF n = 0 THEN seqs ELSE Flat[n]
  BY Zenon DEF FlattenSeq
<1> HIDE DEF Flat
<1>5. \A i \in 1..n : Flat[i] = IF i = 1 THEN seqs[i] ELSE Flat[i - 1] \o seqs[i]
  BY <1>3
<1> QED
  BY <1>4, <1>5

LEMMA Flattened ==
    ASSUME NEW S, NEW seqs \in Seq(Seq(S))
    PROVE  FlattenSeq(seqs) \in Seq(S)
<1> DEFINE n == Len(seqs)
<1>1. n \in Nat /\ \A i \in 1..n : seqs[i] \in Seq(S)
  OBVIOUS
<1>2. PICK flat : /\ \A i \in 1..n : flat[i] = IF i = 1 THEN seqs[i] ELSE flat[i - 1] \o seqs[i]
                  /\ FlattenSeq(seqs) = IF n = 0 THEN seqs ELSE flat[n]
  BY FlatSteps
<1> DEFINE Numbers == {i \in 0..n : i = 0 \/ flat[i] \in Seq(S)}
<1>3. 0 \in Numbers
  BY <1>1
<1>4. ASSUME NEW i \in 1..n, i - 1 \in Numbers PROVE i \in Numbers
  <2>1. flat[i] = IF i = 1 THEN seqs[i] ELSE flat[i - 1] \o seqs[i]
    BY <1>2
  <2>2. seqs[i] \in Seq(S) /\ (i # 1 => flat[i - 1] \in Seq(S)) /\ i \in 0..n
    BY <1>1, <1>4
  <2>3. i # 1 => flat[i - 1] \o seqs[i] \in Seq(S)
    BY <2>2
  <2>4. flat[i] \in Seq(S)
    BY <2>1, <2>2, <2>3
  <2> QED
    BY <2>2, <2>4
<1>5. \A i \in 0..n : i \in Numbers
  <2> HIDE DEF Numbers
  <2> QED
    BY <1>1, <1>3, <1>4, UpTo
<1>6. n # 0 => flat[n] \in Seq(S)
  BY <1>1, <1>5
<1>7. n = 0 => seqs \in Seq(S)
  OBVIOUS
<1> QED
  BY <1>2, <1>6, <1>7

-----------------------------------------------------------------------------
(* A node with all its fields. *)
IsNode(n) == n = [id |-> n.id, op |-> n.op, refs |-> n.refs, leaves |-> n.leaves,
                  attr |-> n.attr, name |-> n.name, prec |-> n.prec]

(* What is decided of the nodes is a record: the bases of the operations in
   fp32, whether heads are looked at, and the numbers c of heads. Key/value
   head j is the one that query head i shares with its group.                 *)
Serves(j, i, c) ==
    /\ c.heads > 0
    /\ c.kv > 0 /\ c.heads % c.kv = 0 => j = i \div (c.heads \div c.kv)

KeyValue == {"k_head", "k_head_t", "v_head"}

(* A node that multiplies a head does so with the key/value head it shares,
   which no product can be folded with, and transposes keys just once.        *)
Paired(n, c) ==
    /\ n.op # "MatMul" => n.name # "logits_name"
    /\ "perm0213" \in n.attr => n.id[3] \notin KeyValue
    /\ n.id[3] \in {"logits", "ctx"} =>
           /\ n.op = "MatMul" /\ n.name # "logits_name"
           /\ n.refs[2][3] \in KeyValue /\ Serves(n.refs[2][4], n.id[4], c)
    /\ n.id[3] = "logits" =>
           /\ n.refs[1][4] = n.id[4]
           /\ (n.refs[2][3] = "k_head_t") # ("transpose_y" \in n.attr)

(* A node that is in fp32 if its base is one of those, or a row.              *)
Meets(n, decided) ==
    /\ IsNode(n)
    /\ n.id[1] \in decided.fp32 /\ n.id[3] \notin Rows => n.prec = "fp32"
    /\ n.id[3] \in Rows => n.op \in {"SliceByIndex", "Reshape"}
    /\ decided.paired => Paired(n, decided.c)

\* One that is neither a row nor a product of heads, and is named as others may be.
Given(n, decided) ==
    /\ Meets(n, decided) /\ n.id[3] \notin Rows
    /\ decided.paired => n.id[3] \notin {"logits", "ctx"} /\ n.name # "logits_name"

\* The suffixes of rows and of products of heads.
Reserved == Rows \cup {"logits", "ctx"}

\* A sequence of nodes that all do.
Meeting(nodes, decided) == \E S : nodes \in Seq(S) /\ \A n \in S : Meets(n, decided)

LEMMA MeetingBy ==
    ASSUME NEW decided, NEW S, NEW nodes \in Seq(S), \A n \in S : Meets(n, decided)
    PROVE  Meeting(nodes, decided)
BY Zenon DEF Meeting

LEMMA MeetingNone == ASSUME NEW decided PROVE Meeting(<<>>, decided)
<1> DEFINE S == {}
<1>1. <<>> \in Seq(S) /\ \A n \in S : Meets(n, decided)
  OBVIOUS
<1> HIDE DEF S
<1> QED
  BY <1>1, MeetingBy

LEMMA MeetingOne ==
    ASSUME NEW decided, NEW a, Meets(a, decided)
    PROVE  Meeting(<<a>>, decided)
<1> DEFINE S == {a}
<1>1. <<a>> \in Seq(S) /\ \A n \in S : Meets(n, decided)
  OBVIOUS
<1> HIDE DEF S
<1> QED
  BY <1>1, MeetingBy

LEMMA MeetingTwo ==
    ASSUME NEW decided, NEW a, NEW b, Meets(a, decided), Meets(b, decided)
    PROVE  Meeting(<<a, b>>, decided)
<1> DEFINE S == {a, b}
<1>1. <<a, b>> \in Seq(S) /\ \A n \in S : Meets(n, decided)
  OBVIOUS
<1> HIDE DEF S
<1> QED
  BY <1>1, MeetingBy

LEMMA MeetingThree ==
    ASSUME NEW decided, NEW a, NEW b, NEW c, Meets(a, decided), Meets(b, decided),
           Meets(c, decided)
    PROVE  Meeting(<<a, b, c>>, decided)
<1> DEFINE S == {a, b, c}
<1>1. <<a, b, c>> \in Seq(S) /\ \A n \in S : Meets(n, decided)
  OBVIOUS
<1> HIDE DEF S
<1> QED
  BY <1>1, MeetingBy

LEMMA MeetingFour ==
    ASSUME NEW decided, NEW a, NEW b, NEW c, NEW d, Meets(a, decided), Meets(b, decided),
           Meets(c, decided), Meets(d, decided)
    PROVE  Meeting(<<a, b, c, d>>, decided)
<1> DEFINE S == {a, b, c, d}
<1>1. <<a, b, c, d>> \in Seq(S) /\ \A n \in S : Meets(n, decided)
  OBVIOUS
<1> HIDE DEF S
<1> QED
  BY <1>1, MeetingBy

LEMMA MeetingFive ==
    ASSUME NEW decided, NEW a, NEW b, NEW c, NEW d, NEW e, Meets(a, decided), Meets(b, decided),
           Meets(c, decided), Meets(d, decided), Meets(e, decided)
    PROVE  Meeting(<<a, b, c, d, e>>, decided)
<1> DEFINE S == {a, b, c, d, e}
<1>1. <<a, b, c, d, e>> \in Seq(S) /\ \A n \in S : Meets(n, decided)
  OBVIOUS
<1> HIDE DEF S
<1> QED
  BY <1>1, MeetingBy

LEMMA MeetingSix ==
    ASSUME NEW decided, NEW a, NEW b, NEW c, NEW d, NEW e, NEW f, Meets(a, decided),
           Meets(b, decided), Meets(c, decided), Meets(d, decided), Meets(e, decided),
           Meets(f, decided)
    PROVE  Meeting(<<a, b, c, d, e, f>>, decided)
<1> DEFINE S == {a, b, c, d, e, f}
<1>1. <<a, b, c, d, e, f>> \in Seq(S) /\ \A n \in S : Meets(n, decided)
  OBVIOUS
<1> HIDE DEF S
<1> QED
  BY <1>1, MeetingBy

LEMMA MeetingSeven ==
    ASSUME NEW decided, NEW a, NEW b, NEW c, NEW d, NEW e, NEW f, NEW g, Meets(a, decided),
           Meets(b, decided), Meets(c, decided), Meets(d, decided), Meets(e, decided),
           Meets(f, decided), Meets(g, decided)
    PROVE  Meeting(<<a, b, c, d, e, f, g>>, decided)
<1> DEFINE S == {a, b, c, d, e, f, g}
<1>1. <<a, b, c, d, e, f, g>> \in Seq(S) /\ \A n \in S : Meets(n, decided)
  OBVIOUS
<1> HIDE DEF S
<1> QED
  BY <1>1, MeetingBy

LEMMA MeetingEight ==
    ASSUME NEW decided, NEW a, NEW b, NEW c, NEW d, NEW e, NEW f, NEW g, NEW h,
           Meets(a, decided), Meets(b, decided), Meets(c, decided), Meets(d, decided),
           Meets(e, decided), Meets(f, decided), Meets(g, decided), Meets(h, decided)
    PROVE  Meeting(<<a, b, c, d, e, f, g, h>>, decided)
<1> DEFINE S == {a, b, c, d, e, f, g, h}
<1>1. <<a, b, c, d, e, f, g, h>> \in Seq(S) /\ \A n \in S : Meets(n, decided)
  OBVIOUS
<1> HIDE DEF S
<1> QED
  BY <1>1, MeetingBy

LEMMA MeetingNine ==
    ASSUME NEW decided, NEW a, NEW b, NEW c, NEW d, NEW e, NEW f, NEW g, NEW h, NEW i,
           Meets(a, decided), Meets(b, decided), Meets(c, decided), Meets(d, decided),
           Meets(e, decided), Meets(f, decided), Meets(g, decided), Meets(h, decided),
           Meets(i, decided)
    PROVE  Meeting(<<a, b, c, d, e, f, g, h, i>>, decided)
<1> DEFINE S == {a, b, c, d, e, f, g, h, i}
<1>1. <<a, b, c, d, e, f, g, h, i>> \in Seq(S) /\ \A n \in S : Meets(n, decided)
  OBVIOUS
<1> HIDE DEF S
<1> QED
  BY <1>1, MeetingBy

LEMMA MeetingTen ==
    ASSUME NEW decided, NEW a, NEW b, NEW c, NEW d, NEW e, NEW f, NEW g, NEW h, NEW i, NEW j,
           Meets(a, decided), Meets(b, decided), Meets(c, decided), Meets(d, decided),
           Meets(e, decided), Meets(f, decided), Meets(g, decided), Meets(h, decided),
           Meets(i, decided), Meets(j, decided)
    PROVE  Meeting(<<a, b, c, d, e, f, g, h, i, j>>, decided)
<1> DEFINE S == {a, b, c, d, e, f, g, h, i, j}
<1>1. <<a, b, c, d, e, f, g, h, i, j>> \in Seq(S) /\ \A n \in S : Meets(n, decided)
  OBVIOUS
<1> HIDE DEF S
<1> QED
  BY <1>1, MeetingBy

LEMMA MeetingConcat ==
    ASSUME NEW decided, NEW s, NEW t, Meeting(s, decided), Meeting(t, decided)
    PROVE  Meeting(s \o t, decided)
<1>1. PICK S : s \in Seq(S) /\ \A n \in S : Meets(n, decided)
  BY DEF Meeting
<1>2. PICK T : t \in Seq(T) /\ \A n \in T : Meets(n, decided)
  BY DEF Meeting
<1>3. s \in Seq(S \cup T) /\ t \in Seq(S \cup T)
  BY <1>1, <1>2
<1>4. s \o t \in Seq(S \cup T)
  BY <1>3
<1>5. \A n \in S \cup T : Meets(n, decided)
  BY <1>1, <1>2
<1> QED
  BY <1>4, <1>5, MeetingBy

LEMMA MeetingEach ==
    ASSUME NEW decided, NEW n \in Nat, NEW nodes, nodes = [i \in 1..n |-> nodes[i]],
           \A i \in 1..n : Meets(nodes[i], decided)
    PROVE  Meeting(nodes, decided)
<1> DEFINE S == {nodes[i] : i \in 1..n}
<1>1. nodes \in Seq(S) /\ \A x \in S : Meets(x, decided)
  OBVIOUS
<1> HIDE DEF S
<1> QED
  BY <1>1, MeetingBy

LEMMA MeetingFlattened ==
    ASSUME NEW decided, NEW n \in Nat, NEW seqs, seqs = [i \in 1..n |-> seqs[i]],
           \A i \in 1..n : Meeting(seqs[i], decided)
    PROVE  Meeting(FlattenSeq(seqs), decided)
<1> DEFINE Parts == UNION {{seqs[i][k] : k \in DOMAIN seqs[i]} : i \in 1..n}
           S == {x \in Parts : Meets(x, decided)}
<1>1. ASSUME NEW i \in 1..n PROVE seqs[i] \in Seq(S)
  <2>1. PICK T : seqs[i] \in Seq(T) /\ \A x \in T : Meets(x, decided)
    BY DEF Meeting
  <2>2. \A k \in DOMAIN seqs[i] : seqs[i][k] \in S
    BY <2>1
  <2>3. DOMAIN seqs[i] = 1..Len(seqs[i]) /\ Len(seqs[i]) \in Nat
        /\ seqs[i] = [k \in 1..Len(seqs[i]) |-> seqs[i][k]]
    BY <2>1
  <2> HIDE DEF S
  <2> QED
    BY <2>2, <2>3
<1>2. seqs \in Seq(Seq(S))
  <2> HIDE DEF S
  <2> QED
    BY <1>1
<1>3. \A x \in S : Meets(x, decided)
  OBVIOUS
<1> HIDE DEF S
<1> QED
  BY <1>2, <1>3, Flattened, MeetingBy

LEMMA MeetingAt ==
    ASSUME NEW decided, NEW nodes, Meeting(nodes, decided)
    PROVE  /\ Len(nodes) \in Nat /\ DOMAIN nodes = 1..Len(nodes)
           /\ nodes = [i \in 1..Len(nodes) |-> nodes[i]]
           /\ \A i \in DOMAIN nodes : Meets(nodes[i], decided)
BY DEF Meeting

LEMMA MeetingPart ==
    ASSUME NEW decided, NEW nodes, Meeting(nodes, decided), NEW k \in DOMAIN nodes
    PROVE  /\ Meeting(SubSeq(nodes, 1, k - 1), decided)
           /\ Meeting(SubSeq(nodes, k + 1, Len(nodes)), decided)
<1>1. PICK S : nodes \in Seq(S) /\ \A n \in S : Meets(n, decided)
  BY DEF Meeting
<1>2. k \in 1..Len(nodes) /\ Len(nodes) \in Nat
  BY <1>1
<1>3. SubSeq(nodes, 1, k - 1) \in Seq(S) /\ SubSeq(nodes, k + 1, Len(nodes)) \in Seq(S)
  BY <1>1, <1>2
<1> QED
  BY <1>1, <1>3, MeetingBy

-----------------------------------------------------------------------------
(* A node made in place of one has its precision, under any other suffix; a
   shared constant has no decided base.                                        *)
LEMMA OwnMade ==
    ASSUME NEW decided, NEW n, Given(n, decided)
    PROVE  \A suffix, op, refs, leaves :
               suffix \notin Reserved => Meets(Own(n, suffix, op, refs, leaves), decided)
<1> SUFFICES ASSUME NEW suffix, NEW op, NEW refs, NEW leaves, suffix \notin Reserved
             PROVE  Meets(Own(n, suffix, op, refs, leaves), decided)
  OBVIOUS
<1> DEFINE m == Own(n, suffix, op, refs, leaves)
<1>1. IsNode(m) /\ m.id[1] = n.id[1] /\ m.id[3] = suffix /\ m.prec = n.prec /\ m.attr = {} /\ m.name = n.name
  BY DEF IsNode, make_air_node, Own
<1> HIDE DEF m
<1>2. Meets(m, decided)
  BY <1>1 DEF Given, Meets, Paired, Reserved
<1> QED
  BY <1>2 DEF m

LEMMA PartMade ==
    ASSUME NEW decided, NEW n, Given(n, decided)
    PROVE  \A stem, suffix, op, refs, leaves :
               suffix \notin Reserved => Meets(Part(n, stem, suffix, op, refs, leaves), decided)
<1> SUFFICES ASSUME NEW stem, NEW suffix, NEW op, NEW refs, NEW leaves, suffix \notin Reserved
             PROVE  Meets(Part(n, stem, suffix, op, refs, leaves), decided)
  OBVIOUS
<1> DEFINE m == Part(n, stem, suffix, op, refs, leaves)
<1>1. IsNode(m) /\ m.id[1] = n.id[1] /\ m.id[3] = suffix /\ m.prec = n.prec /\ m.attr = {} /\ m.name = n.name
  BY DEF IsNode, make_air_node, Part
<1> HIDE DEF m
<1>2. Meets(m, decided)
  BY <1>1 DEF Given, Meets, Paired, Reserved
<1> QED
  BY <1>2 DEF m

LEMMA PerHeadMade ==
    ASSUME NEW decided, NEW n, Given(n, decided)
    PROVE  \A suffix, i, op, refs, leaves :
               suffix \notin Reserved => Meets(PerHead(n, suffix, i, op, refs, leaves), decided)
<1> SUFFICES ASSUME NEW suffix, NEW i, NEW op, NEW refs, NEW leaves, suffix \notin Reserved
             PROVE  Meets(PerHead(n, suffix, i, op, refs, leaves), decided)
  OBVIOUS
<1> DEFINE m == PerHead(n, suffix, i, op, refs, leaves)
<1>1. IsNode(m) /\ m.id[1] = n.id[1] /\ m.id[3] = suffix /\ m.prec = n.prec /\ m.attr = {} /\ m.name = n.name
  BY DEF IsNode, make_air_node, PerHead
<1> HIDE DEF m
<1>2. Meets(m, decided)
  BY <1>1 DEF Given, Meets, Paired, Reserved
<1> QED
  BY <1>2 DEF m

LEMMA SharedMade ==
    ASSUME NEW decided, NEW n, Given(n, decided), "shared" \notin decided.fp32
    PROVE  \A suffix, leaves :
               suffix \notin Reserved => Meets(Shared(n, suffix, leaves), decided)
<1> SUFFICES ASSUME NEW suffix, NEW leaves, suffix \notin Reserved
             PROVE  Meets(Shared(n, suffix, leaves), decided)
  OBVIOUS
<1> DEFINE m == Shared(n, suffix, leaves)
<1>1. IsNode(m) /\ m.id[1] = "shared" /\ m.id[3] = suffix /\ m.attr = {} /\ m.name = n.name
  BY DEF IsNode, make_air_node, Shared
<1> HIDE DEF m
<1>2. Meets(m, decided)
  BY <1>1 DEF Given, Meets, Paired, Reserved
<1> QED
  BY <1>2 DEF m

-----------------------------------------------------------------------------
(* The attention decompositions. *)
LEMMA kv_head_slicesMeet ==
    ASSUME NEW decided, NEW n, Given(n, decided), NEW k, NEW v, NEW kv \in Nat
    PROVE  Meeting(kv_head_slices(n, k, v, kv), decided)
<1> DEFINE keys == [i \in 1..kv |-> PerHead(n, "k_head", i - 1, "SliceByIndex", <<k>>, {})]
           values == [i \in 1..kv |-> PerHead(n, "v_head", i - 1, "SliceByIndex", <<v>>, {})]
           turned == [i \in 1..kv |-> PerHead(n, "k_head_t", i - 1, "Transpose", <<<<n.id[1], "", "k_head", i - 1>>>>, {})]
<1>1. \A s, i, op, refs : s \notin Reserved => Meets(PerHead(n, s, i, op, refs, {}), decided)
  BY PerHeadMade
<1>2. {"k_head", "v_head", "k_head_t"} \cap Reserved = {}
  BY DEF Reserved, Rows
<1>3. \A i \in 1..kv : Meets(keys[i], decided) /\ Meets(values[i], decided) /\ Meets(turned[i], decided)
  BY <1>1, <1>2
<1>4. keys = [i \in 1..kv |-> keys[i]] /\ values = [i \in 1..kv |-> values[i]] /\ turned = [i \in 1..kv |-> turned[i]]
  OBVIOUS
<1>5. kv_head_slices(n, k, v, kv) = keys \o values \o turned
  BY DEF kv_head_slices
<1> HIDE DEF keys, values, turned
<1>6. Meeting(keys, decided) /\ Meeting(values, decided) /\ Meeting(turned, decided)
  BY <1>3, <1>4, MeetingEach
<1> QED
  BY <1>5, <1>6, MeetingConcat

LEMMA attend_headMeets ==
    ASSUME NEW decided, NEW n, Given(n, decided), NEW q, NEW mask, NEW is_row, NEW leaves, NEW i, NEW j,
           decided.paired => Serves(j, i, decided.c)
    PROVE  Meeting(attend_head(n, q, mask, is_row, leaves, i, j), decided)
<1> DEFINE mk(s, op, refs, l) == PerHead(n, s, i, op, refs, l)
<1>1. \A s, op, refs, l : s \notin Reserved => Meets(mk(s, op, refs, l), decided)
  BY PerHeadMade
<1>2. {"q_head", "scaled_logits", "mask_4d", "masked_logits", "weights"} \cap Reserved = {}
  BY DEF Reserved, Rows
<1> HIDE DEF mk
<1>3. \A op, refs, l :
          /\ Meets(mk("q_head", op, refs, l), decided)
          /\ Meets(mk("scaled_logits", op, refs, l), decided) /\ Meets(mk("mask_4d", op, refs, l), decided)
          /\ Meets(mk("masked_logits", op, refs, l), decided) /\ Meets(mk("weights", op, refs, l), decided)
  BY <1>1, <1>2
<1> DEFINE h(s, k) == <<n.id[1], "", s, k>>
           masked == mask # <<>> \/ leaves # {}
           row == IF is_row THEN <<h("mask_4d", i)>> ELSE mask
           first == <<mk("q_head", "SliceByIndex", <<q>>, {}),
                      mk("logits", "MatMul", <<h("q_head", i), h("k_head_t", j)>>, {}),
                      mk("scaled_logits", "Mul", <<h("logits", i), SharedId("attn_scale")>>, {})>>
           laid == IF is_row THEN <<mk("mask_4d", "Reshape", mask, {})>> ELSE <<>>
           added == IF masked THEN <<mk("masked_logits", "Add", <<h("scaled_logits", i)>> \o row, leaves)>>
                    ELSE <<>>
           last == <<mk("weights", "Softmax", <<h(IF masked THEN "masked_logits" ELSE "scaled_logits", i)>>, {}),
                     mk("ctx", "MatMul", <<h("weights", i), h("v_head", j)>>, {})>>
           logits == mk("logits", "MatMul", <<h("q_head", i), h("k_head_t", j)>>, {})
           ctx == mk("ctx", "MatMul", <<h("weights", i), h("v_head", j)>>, {})
<1>9. Meets(logits, decided) /\ Meets(ctx, decided)
  <2> DEFINE made(m, s, refs) ==
          /\ IsNode(m) /\ m.id[1] = n.id[1] /\ m.id[3] = s /\ m.id[4] = i /\ m.op = "MatMul"
          /\ m.refs = refs /\ m.prec = n.prec /\ m.attr = {} /\ m.name = n.name
  <2>1. \A s, refs : made(mk(s, "MatMul", refs, {}), s, refs)
    BY DEF IsNode, make_air_node, PerHead, mk
  <2>2. ASSUME NEW m, made(m, "logits", <<h("q_head", i), h("k_head_t", j)>>) PROVE Meets(m, decided)
    <3> DEFINE query == h("q_head", i)
               key == h("k_head_t", j)
    <3>1. m.refs = <<query, key>> /\ query[4] = i /\ key[3] = "k_head_t" /\ key[4] = j
      BY <2>2
    <3> HIDE DEF made, query, key
    <3>2. m.refs[1] = query /\ m.refs[2] = key
      BY <3>1
    <3> USE DEF made
    <3> QED
      BY <2>2, <3>1, <3>2 DEF Given, Meets, Paired, KeyValue, Rows
  <2>3. ASSUME NEW m, made(m, "ctx", <<h("weights", i), h("v_head", j)>>) PROVE Meets(m, decided)
    <3> DEFINE weights == h("weights", i)
               value == h("v_head", j)
    <3>1. m.refs = <<weights, value>> /\ value[3] = "v_head" /\ value[4] = j
      BY <2>3
    <3> HIDE DEF made, weights, value
    <3>2. m.refs[2] = value
      BY <3>1
    <3> USE DEF made
    <3> QED
      BY <2>3, <3>1, <3>2 DEF Given, Meets, Paired, KeyValue, Rows
  <2> HIDE DEF made, h
  <2> QED
    BY <2>1, <2>2, <2>3
<1> HIDE DEF h, masked, row
<1>4. Meeting(first, decided)
  <2>1. first = <<mk("q_head", "SliceByIndex", <<q>>, {}), logits,
                  mk("scaled_logits", "Mul", <<h("logits", i), SharedId("attn_scale")>>, {})>>
    OBVIOUS
  <2> HIDE DEF logits, first
  <2> QED
    BY <1>3, <1>9, <2>1, MeetingThree
<1>5. Meeting(laid, decided)
  <2>1. Meets(mk("mask_4d", "Reshape", mask, {}), decided)
    BY <1>3
  <2> QED
    BY <2>1, MeetingOne, MeetingNone
<1>6. Meeting(added, decided)
  <2> DEFINE a == mk("masked_logits", "Add", <<h("scaled_logits", i)>> \o row, leaves)
  <2>1. Meets(a, decided)
    BY <1>3
  <2> HIDE DEF a
  <2>2. Meeting(<<a>>, decided) /\ Meeting(<<>>, decided)
    BY <2>1, MeetingOne, MeetingNone
  <2> QED
    BY <2>2 DEF a
<1>7. Meeting(last, decided)
  <2> DEFINE a == mk("weights", "Softmax", <<h(IF masked THEN "masked_logits" ELSE "scaled_logits", i)>>, {})
             b == ctx
  <2>1. Meets(a, decided) /\ Meets(b, decided)
    BY <1>3, <1>9
  <2> HIDE DEF a, b
  <2>2. Meeting(<<a, b>>, decided)
    BY <2>1, MeetingTwo
  <2> QED
    BY <2>2 DEF a, b
<1>8. attend_head(n, q, mask, is_row, leaves, i, j) = first \o laid \o added \o last
  BY Zenon DEF attend_head, mk, h, masked, row
<1> HIDE DEF first, laid, added, last
<1> QED
  BY <1>4, <1>5, <1>6, <1>7, <1>8, MeetingConcat

(* The key/value head that attend_heads gives query head i.                   *)
LEMMA SharedHead ==
    ASSUME NEW c \in DecompositionContext, NEW kv \in Nat, c.kv > 0 => kv = c.kv, NEW i \in 1..c.heads
    PROVE  Serves((i - 1) \div fan_out(c.heads, kv), i - 1, c)
<1>1. c.heads \in Nat /\ c.kv \in Nat /\ c.heads > 0
  BY DEF DecompositionContext
<1> DEFINE heads == c.heads
           group == heads \div kv
<1>2. ASSUME kv > 0, heads % kv = 0 PROVE fan_out(heads, kv) = group
  <2>1. CASE kv < heads
    BY <1>2, <2>1 DEF fan_out
  <2>2. CASE ~(kv < heads)
    <3>1. heads = kv
      BY <1>1, <1>2, <2>2
    <3>2. group = 1
      BY <1>2, <3>1
    <3> QED
      BY <2>2, <3>2 DEF fan_out
  <2> QED
    BY <2>1, <2>2
<1> HIDE DEF group
<1>3. ASSUME c.kv > 0, heads % c.kv = 0 PROVE fan_out(heads, kv) = heads \div c.kv
  BY <1>2, <1>3 DEF group
<1> QED
  BY <1>1, <1>3 DEF Serves

LEMMA per_head_attentionMeets ==
    ASSUME NEW decided, NEW n, Given(n, decided), "shared" \notin decided.fp32, NEW q, NEW k, NEW v, NEW mask,
           NEW is_row, NEW leaves, decided.c \in DecompositionContext, NEW heads, heads = decided.c.heads,
           NEW kv \in Nat, decided.c.kv > 0 => kv = decided.c.kv
    PROVE  Meeting(per_head_attention(n, q, k, v, mask, is_row, leaves, heads, kv), decided)
<1> DEFINE each == [i \in 1..heads |->
                       attend_head(n, q, mask, is_row, leaves, i - 1, (i - 1) \div fan_out(heads, kv))]
<1>1. ASSUME NEW i \in 1..heads PROVE Meeting(each[i], decided)
  <2>1. Serves((i - 1) \div fan_out(heads, kv), i - 1, decided.c)
    BY SharedHead
  <2> QED
    BY <2>1, attend_headMeets
<1>0. heads \in Nat
  BY DEF DecompositionContext
<1>2. each = [i \in 1..heads |-> each[i]]
  OBVIOUS
<1>3. attend_heads(n, q, mask, is_row, leaves, heads, kv) = FlattenSeq(each)
  BY DEF attend_heads
<1> HIDE DEF each
<1>4. Meeting(attend_heads(n, q, mask, is_row, leaves, heads, kv), decided)
  BY <1>0, <1>1, <1>2, <1>3, MeetingFlattened
<1>5. Meeting(stack_heads(n, heads), decided)
  <2>1. \A op, refs : /\ Meets(Own(n, "ctx_stack", op, refs, {}), decided)
                      /\ Meets(Own(n, "attn_flat", op, refs, {}), decided)
    BY OwnMade DEF Reserved, Rows
  <2> QED
    BY <2>1, MeetingTwo DEF stack_heads
<1>6. Meeting(<<Shared(n, "attn_scale", {})>>, decided)
  <2>1. Meets(Shared(n, "attn_scale", {}), decided)
    BY SharedMade DEF Reserved, Rows
  <2> QED
    BY <2>1, MeetingOne
<1>7. Meeting(kv_head_slices(n, k, v, kv), decided)
  BY kv_head_slicesMeet
<1> QED
  BY <1>4, <1>5, <1>6, <1>7, MeetingConcat DEF per_head_attention

LEMMA decompose_attention_blockMeets ==
    ASSUME NEW decided, NEW n, Given(n, decided), "shared" \notin decided.fp32, NEW refs, NEW c \in DecompositionContext,
           decided.c = c
    PROVE  Meeting(decompose_attention_block(n, refs, c), decided)
<1> DEFINE x(s) == <<n.id[1], "", s, 0>>
           mask == IF "mask" \in n.attr THEN <<refs[4]>> ELSE <<>>
           kv == IF c.kv = 0 THEN 1 ELSE c.kv
           laid == [i \in 1..3 |-> Own(n, <<"q_4d", "k_4d", "v_4d">>[i], "Reshape", <<refs[i]>>, {})]
           turned == [i \in 1..3 |-> Own(n, <<"q_t", "k_t", "v_t">>[i], "Transpose",
                                         <<x(<<"q_4d", "k_4d", "v_4d">>[i])>>, {})]
           split == per_head_attention(n, x("q_t"), x("k_t"), x("v_t"), mask, FALSE, {}, c.heads, kv)
           fused == fused_attention(n, x("q_t"), x("k_t"), x("v_t"), mask)
           out == Own(n, "", "Conv1x1AsLinear", <<x("attn_flat")>>, {<<n.id[1], "w_out">>})
<1>1. kv \in Nat /\ (c.kv > 0 => kv = c.kv)
  BY DEF DecompositionContext
<1>2. Meeting(laid, decided)
  <2>1. \A i \in 1..3 : <<"q_4d", "k_4d", "v_4d">>[i] \notin Reserved
    BY DEF Reserved, Rows
  <2>2. \A i \in 1..3 : Meets(laid[i], decided)
    BY <2>1, OwnMade
  <2>3. laid = [i \in 1..3 |-> laid[i]] /\ 3 \in Nat
    OBVIOUS
  <2> HIDE DEF laid
  <2> QED
    BY <2>2, <2>3, MeetingEach
<1>3. Meeting(turned, decided)
  <2>1. \A i \in 1..3 : <<"q_t", "k_t", "v_t">>[i] \notin Reserved
    BY DEF Reserved, Rows
  <2>2. \A i \in 1..3 : Meets(turned[i], decided)
    BY <2>1, OwnMade
  <2>3. turned = [i \in 1..3 |-> turned[i]] /\ 3 \in Nat
    OBVIOUS
  <2> HIDE DEF turned
  <2> QED
    BY <2>2, <2>3, MeetingEach
<1>4. Meeting(split, decided)
  <2> HIDE DEF x, mask, kv
  <2> QED
    BY <1>1, per_head_attentionMeets
<1>5. Meeting(fused, decided)
  <2>1. \A op, r : /\ Meets(Own(n, "attn", op, r, {}), decided)
                   /\ Meets(Own(n, "attn_flat", op, r, {}), decided)
    BY OwnMade DEF Reserved, Rows
  <2> HIDE DEF x, mask
  <2> QED
    BY <2>1, MeetingTwo DEF fused_attention
<1>6. Meeting(<<out>>, decided)
  <2>1. Meets(out, decided)
    BY OwnMade DEF Reserved, Rows
  <2> HIDE DEF out
  <2> QED
    BY <2>1, MeetingOne
<1>7. decompose_attention_block(n, refs, c) = laid \o turned \o (IF c.heads > 0 THEN split ELSE fused) \o <<out>>
  BY DEF decompose_attention_block
<1> HIDE DEF laid, turned, split, fused, out
<1>8. Meeting(IF c.heads > 0 THEN split ELSE fused, decided)
  BY <1>4, <1>5
<1> QED
  BY <1>2, <1>3, <1>6, <1>7, <1>8, MeetingConcat

-----------------------------------------------------------------------------
(* The decode step and its parts. *)
LEMMA apply_rotary_halfMeets ==
    ASSUME NEW decided, NEW n, Given(n, decided), NEW s, NEW x, NEW cos, NEW sin
    PROVE  Meeting(apply_rotary_half(n, s, x, cos, sin), decided)
<1>1. \A op, refs, l :
          /\ Meets(Part(n, s, "x1", op, refs, l), decided) /\ Meets(Part(n, s, "x2", op, refs, l), decided)
          /\ Meets(Part(n, s, "neg_x2", op, refs, l), decided) /\ Meets(Part(n, s, "stack", op, refs, l), decided)
          /\ Meets(Part(n, s, "rotated", op, refs, l), decided) /\ Meets(Part(n, s, "x_cos", op, refs, l), decided)
          /\ Meets(Part(n, s, "rot_sin", op, refs, l), decided) /\ Meets(Part(n, s, "out", op, refs, l), decided)
  BY PartMade DEF Reserved, Rows
<1> QED
  BY <1>1, MeetingEight DEF apply_rotary_half

LEMMA TableMeets ==
    ASSUME NEW decided, NEW n, Given(n, decided), "shared" \notin decided.fp32, NEW t, t \notin Reserved, NEW present
    PROVE  Meeting(Table(n, t, present), decided)
<1>1. Meets(Shared(n, t, {<<"table", t>>}), decided)
  BY SharedMade
<1>2. Meeting(<<Shared(n, t, {<<"table", t>>})>>, decided) /\ Meeting(<<>>, decided)
  BY <1>1, MeetingOne, MeetingNone
<1> QED
  BY <1>2 DEF Table

LEMMA position_one_hotMeets ==
    ASSUME NEW decided, NEW n, Given(n, decided), "shared" \notin decided.fp32, NEW position, NEW present
    PROVE  Meeting(position_one_hot(n, position, present), decided)
<1> DEFINE x(s) == <<n.id[1], "", s, 0>>
           mk(s, op, refs) == Own(n, s, op, refs, {})
           one == SharedId("scalar_one")
           cast == <<mk("pos_fp16", "Cast", position)>>
           hot == <<mk("kv_mask_diff", "Sub", <<TabId("arange_fp16_tab", present), x("pos_fp16")>>),
                    mk("kv_mask_abs", "Abs", <<x("kv_mask_diff")>>), Shared(n, "scalar_one", {}),
                    mk("kv_mask_clipped", "Minimum", <<x("kv_mask_abs"), one>>),
                    mk("kv_mask_gathered", "Sub", <<one, x("kv_mask_clipped")>>)>>
<1>1. \A op, refs :
          /\ Meets(mk("pos_fp16", op, refs), decided) /\ Meets(mk("kv_mask_diff", op, refs), decided)
          /\ Meets(mk("kv_mask_abs", op, refs), decided) /\ Meets(mk("kv_mask_clipped", op, refs), decided)
          /\ Meets(mk("kv_mask_gathered", op, refs), decided)
  BY OwnMade DEF Reserved, Rows
<1>2. Meets(Shared(n, "scalar_one", {}), decided)
  BY SharedMade DEF Reserved, Rows
<1>3. Meeting(Table(n, "arange_fp16_tab", present), decided)
  BY TableMeets DEF Reserved, Rows
<1>4. position_one_hot(n, position, present) = cast \o Table(n, "arange_fp16_tab", present) \o hot
  BY Zenon DEF position_one_hot
<1> HIDE DEF mk, x, one
<1>5. Meeting(cast, decided)
  BY <1>1, MeetingOne
<1>6. Meeting(hot, decided)
  BY <1>1, <1>2, MeetingFive
<1> HIDE DEF cast, hot
<1> QED
  BY <1>3, <1>4, <1>5, <1>6, MeetingConcat

LEMMA gathered_rowMeets ==
    ASSUME NEW decided, NEW n, Given(n, decided), NEW present
    PROVE  Meeting(gathered_row(n, present), decided)
<1>1. \A op, refs, l :
          /\ Meets(Own(n, "kv_one_hot_4d", op, refs, l), decided) /\ Meets(Own(n, "cos_masked", op, refs, l), decided)
          /\ Meets(Own(n, "cos_gathered", op, refs, l), decided) /\ Meets(Own(n, "sin_masked", op, refs, l), decided)
          /\ Meets(Own(n, "sin_gathered", op, refs, l), decided)
  BY OwnMade DEF Reserved, Rows
<1> QED
  BY <1>1, MeetingFive DEF gathered_row

LEMMA causal_maskMeets ==
    ASSUME NEW decided, NEW n, Given(n, decided), "shared" \notin decided.fp32, NEW present
    PROVE  Meeting(causal_mask(n, present), decided)
<1>1. \A op, refs, l :
          /\ Meets(Own(n, "mask_offset", op, refs, l), decided) /\ Meets(Own(n, "mask_distance", op, refs, l), decided)
          /\ Meets(Own(n, "mask_shifted", op, refs, l), decided) /\ Meets(Own(n, "mask_clamped_pos", op, refs, l), decided)
          /\ Meets(Own(n, "mask_is_allowed", op, refs, l), decided) /\ Meets(Own(n, "mask_is_blocked", op, refs, l), decided)
          /\ Meets(Own(n, "mask_gathered", op, refs, l), decided)
  BY OwnMade DEF Reserved, Rows
<1>2. \A l :
          /\ Meets(Shared(n, "seq_minus_1", l), decided) /\ Meets(Shared(n, "scalar_zero", l), decided)
          /\ Meets(Shared(n, "fp16_neg_inf", l), decided)
  BY SharedMade DEF Reserved, Rows
<1> QED
  BY <1>1, <1>2, MeetingTen DEF causal_mask

LEMMA rotate_bothMeets ==
    ASSUME NEW decided, NEW n, Given(n, decided), NEW q, NEW k_new, NEW position, NEW present
    PROVE  Meeting(rotate_both(n, q, k_new, position, present), decided)
<1>1. \A s, x, cos, sin : Meeting(apply_rotary_half(n, s, x, cos, sin), decided)
  BY apply_rotary_halfMeets
<1> QED
  BY <1>1, MeetingConcat DEF rotate_both

LEMMA apply_rope_decodeMeets ==
    ASSUME NEW decided, NEW n, Given(n, decided), "shared" \notin decided.fp32, NEW q, NEW k_new, NEW position, NEW present
    PROVE  Meeting(apply_rope_decode(n, q, k_new, position, present), decided)
<1>1. /\ Meeting(Table(n, "cos_tab", present), decided) /\ Meeting(Table(n, "sin_tab", present), decided)
      /\ Meeting(Table(n, "arange_tab", present), decided)
  BY TableMeets DEF Reserved, Rows
<1> DEFINE masks == IF position = <<>> THEN <<>>
                    ELSE position_one_hot(n, position, present) \o gathered_row(n, present) \o causal_mask(n, present)
<1>2. Meeting(masks, decided)
  BY MeetingNone, position_one_hotMeets, gathered_rowMeets, causal_maskMeets, MeetingConcat
<1>3. Meeting(rotate_both(n, q, k_new, position, present), decided)
  BY rotate_bothMeets
<1>4. apply_rope_decode(n, q, k_new, position, present) =
        Table(n, "cos_tab", present) \o Table(n, "sin_tab", present) \o Table(n, "arange_tab", present)
        \o masks \o rotate_both(n, q, k_new, position, present)
  BY Zenon DEF apply_rope_decode
<1> HIDE DEF masks
<1> QED
  BY <1>1, <1>2, <1>3, <1>4, MeetingConcat

LEMMA apply_qk_norm_decodeMeets ==
    ASSUME NEW decided, NEW n, Given(n, decided), NEW s, NEW x
    PROVE  Meeting(apply_qk_norm_decode(n, s, x), decided)
<1>1. \A op, refs, l :
          /\ Meets(Part(n, s, "reshape_4d", op, refs, l), decided) /\ Meets(Part(n, s, "x_sq", op, refs, l), decided)
          /\ Meets(Part(n, s, "mean", op, refs, l), decided) /\ Meets(Part(n, s, "eps_scalar", op, refs, l), decided)
          /\ Meets(Part(n, s, "biased", op, refs, l), decided) /\ Meets(Part(n, s, "rsqrt", op, refs, l), decided)
          /\ Meets(Part(n, s, "normed", op, refs, l), decided) /\ Meets(Part(n, s, "weighted", op, refs, l), decided)
          /\ Meets(Part(n, s, "flat", op, refs, l), decided)
  BY PartMade DEF Reserved, Rows
<1> QED
  BY <1>1, MeetingNine DEF apply_qk_norm_decode

LEMMA projectionsMeets ==
    ASSUME NEW decided, NEW n, Given(n, decided), NEW token
    PROVE  Meeting(projections(n, token), decided)
<1> DEFINE w(s) == {<<n.id[1], s>>}
           qkv == <<n.id[1], "", "qkv_proj", 0>>
           separate == [i \in 1..3 |-> Own(n, <<"q", "k_new", "v_new">>[i], "Conv1x1AsLinear", <<token>>,
                                           w(<<"w_q", "w_k", "w_v">>[i]))]
           joint == Own(n, "qkv_proj", "Conv1x1AsLinear", <<token>>, w("w_q") \cup w("w_k") \cup w("w_v"))
           sliced == [i \in 1..3 |-> Own(n, <<"q", "k_new", "v_new">>[i], "SliceByIndex", <<qkv>>, {})]
<1>1. \A i \in 1..3 : <<"q", "k_new", "v_new">>[i] \notin Reserved
  BY DEF Reserved, Rows
<1>2. \A i \in 1..3 : Meets(separate[i], decided) /\ Meets(sliced[i], decided)
  BY <1>1, OwnMade
<1>3. Meets(joint, decided)
  BY OwnMade DEF Reserved, Rows
<1>4. separate = [i \in 1..3 |-> separate[i]] /\ sliced = [i \in 1..3 |-> sliced[i]] /\ 3 \in Nat
  OBVIOUS
<1>5. projections(n, token) = IF "separate" \in n.attr THEN separate ELSE <<joint>> \o sliced
  BY Zenon DEF projections
<1> HIDE DEF separate, joint, sliced
<1>6. Meeting(separate, decided) /\ Meeting(sliced, decided) /\ Meeting(<<joint>>, decided)
  BY <1>2, <1>3, <1>4, MeetingEach, MeetingOne
<1> QED
  BY <1>5, <1>6, MeetingConcat

LEMMA masked_blendMeets ==
    ASSUME NEW decided, NEW n, Given(n, decided), NEW s, NEW old, NEW new
    PROVE  Meeting(masked_blend(n, s, old, new), decided)
<1>1. \A op, refs, l :
          /\ Meets(Part(n, s, "old_masked", op, refs, l), decided) /\ Meets(Part(n, s, "new_masked", op, refs, l), decided)
          /\ Meets(Part(n, s, "next", op, refs, l), decided)
  BY PartMade DEF Reserved, Rows
<1> QED
  BY <1>1, MeetingThree DEF masked_blend

LEMMA cache_readsMeets ==
    ASSUME NEW decided, NEW n, Given(n, decided), NEW q, NEW k_new
    PROVE  Meeting(cache_reads(n, q, k_new), decided)
<1>1. \A op, refs, l :
          /\ Meets(Own(n, "k_cache_read", op, refs, l), decided) /\ Meets(Own(n, "v_cache_read", op, refs, l), decided)
          /\ Meets(Own(n, "q_4d", op, refs, l), decided) /\ Meets(Own(n, "k_4d", op, refs, l), decided)
          /\ Meets(Own(n, "v_4d", op, refs, l), decided) /\ Meets(Own(n, "k_new_4d", op, refs, l), decided)
          /\ Meets(Own(n, "v_new_4d", op, refs, l), decided)
  BY OwnMade DEF Reserved, Rows
<1> QED
  BY <1>1, MeetingSeven DEF cache_reads

LEMMA decompose_decode_stepMeets ==
    ASSUME NEW decided, NEW n, Given(n, decided), "shared" \notin decided.fp32, NEW refs, NEW c \in DecompositionContext,
           decided.c = c, NEW present
    PROVE  Meeting(decompose_decode_step(n, refs, c, present), decided)
<1> DEFINE x(s) == <<n.id[1], "", s, 0>>
           mk(s, op, r) == Own(n, s, op, r, {})
           position == SubSeq(refs, 2, Len(refs))
           kv == IF c.kv > 0 THEN c.kv ELSE c.heads
           rope == UsesTables(n)
           written == rope /\ position # <<>>
           normed(s) == IF "qk_norm" \in n.attr THEN <<n.id[1], s, "flat", 0>>
                        ELSE x(IF s = "q_norm" THEN "q" ELSE "k_new")
           q == IF rope THEN <<n.id[1], "q_rope", "out", 0>> ELSE x("q_4d")
           k_new == IF rope THEN <<n.id[1], "k_new_rope", "out", 0>> ELSE x("k_new_4d")
           next(s, old) == IF written THEN <<n.id[1], s, "next", 0>> ELSE x(old)
           mask_ref == IF ~written /\ "mask_ref" \in n.attr THEN {<<n.id[1], "mask_ref">>} ELSE {}
           norms == IF "qk_norm" \in n.attr
                    THEN apply_qk_norm_decode(n, "q_norm", x("q")) \o apply_qk_norm_decode(n, "k_norm", x("k_new"))
                    ELSE <<>>
           reads == cache_reads(n, normed("q_norm"), normed("k_norm"))
           rotation == IF rope THEN apply_rope_decode(n, x("q_4d"), x("k_new_4d"), position, present) ELSE <<>>
           keep == <<mk("mask_write", "Reshape", <<x("kv_mask_gathered")>>), Shared(n, "scalar_one", {}),
                     mk("mask_keep", "Sub", <<SharedId("scalar_one"), x("mask_write")>>)>>
           blend == IF written
                    THEN keep \o masked_blend(n, "k", x("k_4d"), k_new) \o masked_blend(n, "v", x("v_4d"), x("v_new_4d"))
                    ELSE <<>>
           attention == per_head_attention(n, q, next("k", "k_4d"), next("v", "v_4d"),
                            IF written THEN <<x("mask_gathered")>> ELSE <<>>, written, mask_ref, c.heads, kv)
           last == <<Own(n, "out_proj", "Conv1x1AsLinear", <<x("attn_flat")>>, {<<n.id[1], "w_out">>}),
                     mk("k_cache_write", "StateWriteFixed", <<next("k", "k_4d")>>),
                     mk("v_cache_write", "StateWriteFixed", <<next("v", "v_4d")>>)>>
<1>1. decompose_decode_step(n, refs, c, present) =
        projections(n, refs[1]) \o norms \o reads \o rotation \o blend \o attention \o last
  BY Zenon DEF decompose_decode_step
<1>2. kv \in Nat /\ (c.kv > 0 => kv = c.kv)
  BY DEF DecompositionContext
<1>3. \A op, r, l :
          /\ Meets(Own(n, "mask_write", op, r, l), decided) /\ Meets(Own(n, "mask_keep", op, r, l), decided)
          /\ Meets(Own(n, "out_proj", op, r, l), decided) /\ Meets(Own(n, "k_cache_write", op, r, l), decided)
          /\ Meets(Own(n, "v_cache_write", op, r, l), decided) /\ Meets(Shared(n, "scalar_one", {}), decided)
  BY OwnMade, SharedMade DEF Reserved, Rows
<1> HIDE DEF x, position, kv, rope, written, normed, q, k_new, next, mask_ref
<1>4. Meeting(projections(n, refs[1]), decided) /\ Meeting(reads, decided)
  BY projectionsMeets, cache_readsMeets
<1>5. Meeting(norms, decided)
  BY apply_qk_norm_decodeMeets, MeetingConcat, MeetingNone
<1>6. Meeting(rotation, decided)
  BY apply_rope_decodeMeets, MeetingNone
<1>7. Meeting(keep, decided) /\ Meeting(last, decided)
  BY <1>3, MeetingThree
<1> HIDE DEF keep
<1>8. Meeting(blend, decided)
  BY <1>7, masked_blendMeets, MeetingConcat, MeetingNone
<1>9. Meeting(attention, decided)
  BY <1>2, per_head_attentionMeets
<1> HIDE DEF norms, reads, rotation, blend, attention, last
<1> QED
  BY <1>1, <1>4, <1>5, <1>6, <1>7, <1>8, <1>9, MeetingConcat

-----------------------------------------------------------------------------
(* The other decompositions. *)
LEMMA decompose_rms_normMeets ==
    ASSUME NEW decided, NEW n, Given(n, decided), NEW refs, NEW c
    PROVE  Meeting(decompose_rms_norm(n, refs, c), decided)
<1>1. \A x : Meeting(stabilized_rsqrt(n, x), decided)
  <2>1. \A op, r, l :
            /\ Meets(Own(n, "abs_x", op, r, l), decided) /\ Meets(Own(n, "max_abs", op, r, l), decided)
            /\ Meets(Own(n, "eps_for_max_scalar", op, r, l), decided) /\ Meets(Own(n, "safe_max", op, r, l), decided)
            /\ Meets(Own(n, "x_norm", op, r, l), decided) /\ Meets(Own(n, "x_sq", op, r, l), decided)
            /\ Meets(Own(n, "mean", op, r, l), decided) /\ Meets(Own(n, "eps_scalar", op, r, l), decided)
            /\ Meets(Own(n, "mean_plus_eps", op, r, l), decided) /\ Meets(Own(n, "rsqrt", op, r, l), decided)
    BY OwnMade DEF Reserved, Rows
  <2> QED
    BY <2>1, MeetingTen DEF stabilized_rsqrt
<1>2. \A op, r, l :
          /\ Meets(Own(n, "normed_raw", op, r, l), decided) /\ Meets(Own(n, "normed", op, r, l), decided)
          /\ Meets(Own(n, "normed_weighted", op, r, l), decided) /\ Meets(Own(n, "reshape_4d", op, r, l), decided)
          /\ Meets(Own(n, "", op, r, l), decided)
  BY OwnMade DEF Reserved, Rows
<1>3. \A x : \A out \in {"normed_weighted", ""} : Meeting(rescaled_and_weighted(n, x, out), decided)
  BY <1>2, MeetingThree DEF rescaled_and_weighted
<1>4. \A r : Meeting(<<Own(n, "reshape_4d", "Reshape", r, {})>>, decided) /\ Meeting(<<Own(n, "", "Reshape", r, {})>>, decided)
  BY <1>2, MeetingOne
<1> QED
  BY <1>1, <1>3, <1>4, MeetingConcat DEF decompose_rms_norm

LEMMA decompose_ropeMeets ==
    ASSUME NEW decided, NEW n, Given(n, decided), NEW refs, NEW present
    PROVE  Meeting(decompose_rope(n, refs, present), decided)
<1> DEFINE y(s) == <<n.id[1], "", s, 0>>
           mk(s, op, r) == Own(n, s, op, r, {})
           own(t) == IF StaticTab(t) \in present THEN <<>> ELSE <<Own(n, t, "Const", <<>>, {<<"table", t>>})>>
           rest == <<mk("x1", "SliceByIndex", refs), mk("x2", "SliceByIndex", refs), mk("neg_x2", "Neg", <<y("x2")>>),
                     mk("stack", "Stack", <<y("neg_x2"), y("x1")>>), mk("rotated", "Reshape", <<y("stack")>>),
                     mk("x_cos", "Mul", <<refs[1], OwnTabId(n, "cos_tab", present)>>),
                     mk("rotated_sin", "Mul", <<y("rotated"), OwnTabId(n, "sin_tab", present)>>),
                     mk("", "Add", <<y("x_cos"), y("rotated_sin")>>)>>
<1>1. \A t \in {"cos_tab", "sin_tab"} : Meeting(own(t), decided)
  <2> SUFFICES ASSUME NEW t \in {"cos_tab", "sin_tab"} PROVE Meeting(own(t), decided)
    OBVIOUS
  <2>1. Meets(Own(n, t, "Const", <<>>, {<<"table", t>>}), decided)
    BY OwnMade DEF Reserved, Rows
  <2>2. Meeting(<<Own(n, t, "Const", <<>>, {<<"table", t>>})>>, decided) /\ Meeting(<<>>, decided)
    BY <2>1, MeetingOne, MeetingNone
  <2> QED
    BY <2>2
<1>2. \A op, r, l :
          /\ Meets(Own(n, "x1", op, r, l), decided) /\ Meets(Own(n, "x2", op, r, l), decided)
          /\ Meets(Own(n, "neg_x2", op, r, l), decided) /\ Meets(Own(n, "stack", op, r, l), decided)
          /\ Meets(Own(n, "rotated", op, r, l), decided) /\ Meets(Own(n, "x_cos", op, r, l), decided)
          /\ Meets(Own(n, "rotated_sin", op, r, l), decided) /\ Meets(Own(n, "", op, r, l), decided)
  BY OwnMade DEF Reserved, Rows
<1> HIDE DEF y
<1>3. Meeting(rest, decided)
  BY <1>2, MeetingEight
<1> USE DEF y
<1>4. decompose_rope(n, refs, present) = (own("cos_tab") \o own("sin_tab")) \o rest
  BY Zenon DEF decompose_rope, own_tables
<1> HIDE DEF own, rest
<1> QED
  BY <1>1, <1>3, <1>4, MeetingConcat

LEMMA SmallOnesMeet ==
    ASSUME NEW decided, NEW n, Given(n, decided), NEW refs
    PROVE  /\ Meeting(decompose_sampler(n, refs), decided)
           /\ Meeting(tile(n, refs), decided)
           /\ Meeting(select(n, refs), decided)
<1>1. \A op, r, l :
          /\ Meets(Own(n, "", op, r, l), decided) /\ Meets(Own(n, "topk", op, r, l), decided)
          /\ Meets(Own(n, "softmax", op, r, l), decided) /\ Meets(Own(n, "tile_reshape", op, r, l), decided)
          /\ Meets(Own(n, "tile_ones", op, r, l), decided) /\ Meets(Own(n, "tile_mul", op, r, l), decided)
  BY OwnMade DEF Reserved, Rows
<1>2. Meeting(decompose_sampler(n, refs), decided)
  BY <1>1, MeetingThree DEF decompose_sampler
<1>3. Meeting(tile(n, refs), decided)
  BY <1>1, MeetingOne, MeetingFour DEF tile
<1>4. Meeting(select(n, refs), decided)
  <2>1. \A s, op, r, l :
            /\ Meets(Part(n, s, "one", op, r, l), decided) /\ Meets(Part(n, s, "sub", op, r, l), decided)
            /\ Meets(Part(n, s, "mul_x", op, r, l), decided) /\ Meets(Part(n, s, "mul_y", op, r, l), decided)
    BY PartMade DEF Reserved, Rows
  <2> QED
    BY <1>1, <2>1, MeetingFive DEF select
<1> QED
  BY <1>2, <1>3, <1>4

LEMMA passthroughMeets ==
    ASSUME NEW decided, NEW n, Meets(n, decided), n.id[3] \notin Reserved, NEW refs
    PROVE  Meeting(passthrough(n, refs), decided)
<1> DEFINE op == CASE n.op = "LinearProjection" -> "Conv1x1AsLinear"
                   [] n.op = "StateRead" -> "StateReadFixed"
                   [] n.op = "StateWrite" -> "StateWriteFixed"
                   [] OTHER -> n.op
           leaves == IF op = "Conv1x1AsLinear" THEN n.leaves \ {<<n.id[1], "bias">>} ELSE n.leaves
           m == [n EXCEPT !.op = op, !.refs = refs, !.leaves = leaves]
<1>1. passthrough(n, refs) = <<m>>
  BY Zenon DEF passthrough
<1>4. n.op = "MatMul" => op = "MatMul"
  <2>1. "LinearProjection" # "MatMul" /\ "StateRead" # "MatMul" /\ "StateWrite" # "MatMul"
    OBVIOUS
  <2> QED
    BY <2>1, Zenon
<1> HIDE DEF op, leaves
<1>2. IsNode(m) /\ m.id = n.id /\ m.op = op /\ m.prec = n.prec /\ m.attr = n.attr /\ m.name = n.name
  <2>1. IsNode(n)
    BY DEF Meets
  <2>2. m = [n EXCEPT !.op = op, !.refs = refs, !.leaves = leaves]
    OBVIOUS
  <2> HIDE DEF m
  <2> QED
    BY <2>1, <2>2 DEF IsNode
<1> HIDE DEF m
<1>3. Meets(m, decided)
  BY <1>2, <1>4 DEF Meets, Paired, Reserved
<1> QED
  BY <1>1, <1>3, MeetingOne

LEMMA rewrite_nodeMeets ==
    ASSUME NEW decided, NEW n, Meets(n, decided), n.id[3] \notin Reserved, "shared" \notin decided.fp32, NEW refs,
           NEW c \in DecompositionContext, decided.c = c, NEW present
    PROVE  Meeting(rewrite_node(n, refs, c, present), decided)
<1>0. Meeting(passthrough(n, refs), decided)
  BY passthroughMeets
<1>1. CASE n.op = "MatMul"
  <2>1. rewrite_node(n, refs, c, present) = passthrough(n, refs)
    <3>1. n.op \notin {"AttentionBlock", "DecodeStep", "RMSNorm", "RoPETransform", "Sampler", "Tile", "Select", "Where"}
      BY <1>1
    <3> QED
      BY <3>1, Zenon DEF rewrite_node
  <2> QED
    BY <1>0, <2>1
<1>2. CASE n.op # "MatMul"
  <2>1. Given(n, decided)
    BY <1>2 DEF Given, Meets, Paired, Reserved
  <2>2. /\ Meeting(decompose_attention_block(n, refs, c), decided)
        /\ Meeting(decompose_decode_step(n, refs, c, present), decided)
        /\ Meeting(decompose_rms_norm(n, refs, c), decided)
        /\ Meeting(decompose_rope(n, refs, present), decided)
    BY <2>1, decompose_attention_blockMeets, decompose_decode_stepMeets, decompose_rms_normMeets, decompose_ropeMeets
  <2>3. /\ Meeting(decompose_sampler(n, refs), decided) /\ Meeting(tile(n, refs), decided)
        /\ Meeting(select(n, refs), decided)
    BY <2>1, SmallOnesMeet
  <2> QED
    BY <1>0, <2>2, <2>3 DEF rewrite_node
<1> QED
  BY <1>1, <1>2

\* All nodes of a graph, none of which has such a suffix, rewritten in turn.
LEMMA rewrite_allMeets ==
    ASSUME NEW decided, "shared" \notin decided.fp32, NEW nodes, Meeting(nodes, decided),
           \A i \in DOMAIN nodes : nodes[i].id[3] \notin Reserved, NEW c \in DecompositionContext, decided.c = c
    PROVE  Meeting(rewrite_all(nodes, c).nodes, decided)
<1> DEFINE sir_to_air(i) == [id \in Ids(SubSeq(nodes, 1, i - 1)) |-> final_air_id(NodeOf(nodes, id))]
           rewritten(i) ==
               LET air_of == sir_to_air(i)
                   ref(r) == IF r \in DOMAIN air_of THEN air_of[r] ELSE r
               IN  rewrite_node(nodes[i], [k \in DOMAIN nodes[i].refs |-> ref(nodes[i].refs[k])], c, DOMAIN air_of)
           parts == [i \in 1..Len(nodes) |-> rewritten(i)]
<1>1. Len(nodes) \in Nat /\ DOMAIN nodes = 1..Len(nodes) /\ \A i \in DOMAIN nodes : Meets(nodes[i], decided)
  BY MeetingAt
<1>2. \A i \in 1..Len(nodes) : Meets(nodes[i], decided) /\ nodes[i].id[3] \notin Reserved
  BY <1>1
<1>3. \A i \in 1..Len(nodes) : Meeting(rewritten(i), decided)
  BY <1>2, rewrite_nodeMeets
<1>4. rewrite_all(nodes, c).nodes = FlattenSeq([i \in DOMAIN nodes |-> rewritten(i)])
  BY Zenon DEF rewrite_all
<1>5. rewrite_all(nodes, c).nodes = FlattenSeq(parts)
  <2> HIDE DEF rewritten
  <2> QED
    BY <1>1, <1>4
<1>6. parts = [i \in 1..Len(nodes) |-> parts[i]] /\ \A i \in 1..Len(nodes) : Meeting(parts[i], decided)
  <2> HIDE DEF rewritten
  <2> QED
    BY <1>3
<1> HIDE DEF parts
<1> QED
  BY <1>1, <1>5, <1>6, MeetingFlattened

LEMMA dedupMeets ==
    ASSUME NEW decided, NEW nodes, Meeting(nodes, decided)
    PROVE  Meeting(dedup(nodes), decided)
<1> DEFINE first(i) == IF \E j \in 1..(i - 1) : nodes[j].id = nodes[i].id THEN <<>> ELSE <<nodes[i]>>
           part(b, k) == IF b * 20 + k > Len(nodes) THEN <<>> ELSE first(b * 20 + k)
           parts(b) == [k \in 1..20 |-> part(b, k)]
           n == Len(nodes) \div 20 + 1
           blocks == [b \in 1..n |-> FlattenSeq(parts(b - 1))]
<1>1. Len(nodes) \in Nat /\ DOMAIN nodes = 1..Len(nodes) /\ \A i \in DOMAIN nodes : Meets(nodes[i], decided)
  BY MeetingAt
<1>2. \A i \in 1..Len(nodes) : Meeting(<<nodes[i]>>, decided) /\ Meeting(<<>>, decided)
  BY <1>1, MeetingOne, MeetingNone
<1>3. \A i \in 1..Len(nodes) : Meeting(first(i), decided)
  BY <1>2
<1>4. dedup(nodes) = FlattenSeq(blocks)
  BY Zenon DEF dedup
<1> HIDE DEF first
<1>5. \A b \in Nat, k \in 1..20 : Meeting(part(b, k), decided)
  BY <1>1, <1>3, MeetingNone
<1> HIDE DEF part
<1>6. ASSUME NEW b \in Nat PROVE Meeting(FlattenSeq(parts(b)), decided)
  <2>1. parts(b) = [k \in 1..20 |-> parts(b)[k]] /\ \A k \in 1..20 : Meeting(parts(b)[k], decided)
    BY <1>5
  <2> HIDE DEF parts
  <2> QED
    BY <2>1, MeetingFlattened
<1> HIDE DEF parts
<1>7. n \in Nat
  BY <1>1
<1> HIDE DEF n
<1>8. blocks = [b \in 1..n |-> blocks[b]] /\ \A b \in 1..n : Meeting(blocks[b], decided)
  BY <1>6, <1>7
<1> HIDE DEF blocks
<1> QED
  BY <1>4, <1>7, <1>8, MeetingFlattened

-----------------------------------------------------------------------------
(* The lowering. What is made from a node with a final id has its precision. *)
LEMMA HeadOpMeets ==
    ASSUME NEW decided, NEW n, Given(n, decided)
    PROVE  \A s, i, op, refs : s \notin Reserved => Meets(HeadOp(n, s, i, op, refs), decided)
<1> SUFFICES ASSUME NEW s, NEW i, NEW op, NEW refs, s \notin Reserved
             PROVE  Meets(HeadOp(n, s, i, op, refs), decided)
  OBVIOUS
<1> DEFINE m == HeadOp(n, s, i, op, refs)
           id == HeadId(n, s, i)
<1>1. m = [n EXCEPT !.id = id, !.op = op, !.refs = refs, !.leaves = {}, !.attr = {}]
  BY DEF HeadOp
<1>2. id[1] = n.id[1] /\ id[3] = s
  BY DEF HeadId
<1> HIDE DEF m, id
<1>3. IsNode(n)
  BY DEF Given, Meets
<1>4. IsNode(m) /\ m.id = id /\ m.prec = n.prec /\ m.attr = {} /\ m.name = n.name
  BY <1>1, <1>3 DEF IsNode
<1>5. Meets(m, decided)
  BY <1>2, <1>4 DEF Given, Meets, Paired, Reserved
<1> QED
  BY <1>5 DEF m

LEMMA head_slicesMeets ==
    ASSUME NEW decided, NEW n, Given(n, decided), NEW i, NEW fanout
    PROVE  Meeting(head_slices(n, i, fanout), decided)
<1>1. \A k, op, refs : /\ Meets(HeadOp(n, "q_head", k, op, refs), decided)
                       /\ Meets(HeadOp(n, "k_head", k, op, refs), decided)
                       /\ Meets(HeadOp(n, "v_head", k, op, refs), decided)
  BY HeadOpMeets DEF Reserved, Rows
<1> DEFINE query == HeadOp(n, "q_head", i, "SliceByIndex", <<n.refs[1]>>)
           key == HeadOp(n, "k_head", i \div fanout, "SliceByIndex", <<n.refs[2]>>)
           value == HeadOp(n, "v_head", i \div fanout, "SliceByIndex", <<n.refs[3]>>)
           shared == IF i % fanout = 0 THEN <<key, value>> ELSE <<>>
<1>2. Meets(query, decided) /\ Meets(key, decided) /\ Meets(value, decided)
  BY <1>1
<1>3. head_slices(n, i, fanout) = <<query>> \o shared
  BY Zenon DEF head_slices
<1> HIDE DEF query, key, value
<1>4. Meeting(<<query>>, decided) /\ Meeting(<<key, value>>, decided) /\ Meeting(<<>>, decided)
  BY <1>2, MeetingOne, MeetingTwo, MeetingNone
<1>5. Meeting(shared, decided)
  BY <1>4
<1> HIDE DEF shared
<1> QED
  BY <1>3, <1>4, <1>5, MeetingConcat

LEMMA head_attentionMeets ==
    ASSUME NEW decided, NEW n, Given(n, decided), NEW i, NEW j,
           decided.paired => Serves(j, i, decided.c)
    PROVE  Meeting(head_attention(n, i, j), decided)
<1> DEFINE mask == SubSeq(n.refs, 4, Len(n.refs))
           h(s) == HeadId(n, s, i)
           query == h("q_head")
           key == HeadId(n, "k_head", j)
           shares == h("weights")
           value == HeadId(n, "v_head", j)
           plain == HeadOp(n, "logits", i, "MatMul", <<query, key>>)
           logits == [plain EXCEPT !.attr = {"transpose_y"}]
           scale == HeadOp(n, "scale", i, "Const", <<>>)
           scaled == HeadOp(n, "scaled", i, "Mul", <<h("logits"), h("scale")>>)
           added == HeadOp(n, "masked", i, "Add", <<h("scaled")>> \o mask)
           masked == IF mask # <<>> THEN <<added>> ELSE <<>>
           weights == HeadOp(n, "weights", i, "Softmax", <<h(IF mask # <<>> THEN "masked" ELSE "scaled")>>)
           ctx == HeadOp(n, "ctx", i, "MatMul", <<shares, value>>)
<1>1. head_attention(n, i, j) = <<logits, scale, scaled>> \o masked \o <<weights, ctx>>
  BY Zenon DEF head_attention
<1>2. /\ Meets(scale, decided) /\ Meets(scaled, decided)
      /\ Meets(added, decided) /\ Meets(weights, decided)
  BY HeadOpMeets DEF Reserved, Rows
<1>3. logits = [plain EXCEPT !.attr = {"transpose_y"}]
  OBVIOUS
<1>4. /\ query[4] = i /\ key[3] = "k_head" /\ key[4] = j
      /\ value[3] = "v_head" /\ value[4] = j
  BY DEF HeadId
<1>5. IsNode(n)
  BY DEF Given, Meets
<1> HIDE DEF query, key, shares, value
<1>6. \A s, refs : \A m :
          m = HeadOp(n, s, i, "MatMul", refs) =>
              /\ IsNode(m) /\ m.id[1] = n.id[1] /\ m.id[3] = s /\ m.id[4] = i /\ m.op = "MatMul"
              /\ m.refs = refs /\ m.attr = {} /\ m.name = n.name /\ m.prec = n.prec
  <2> SUFFICES ASSUME NEW s, NEW refs, NEW m, m = HeadOp(n, s, i, "MatMul", refs)
               PROVE  /\ IsNode(m) /\ m.id[1] = n.id[1] /\ m.id[3] = s /\ m.id[4] = i /\ m.op = "MatMul"
                      /\ m.refs = refs /\ m.attr = {} /\ m.name = n.name /\ m.prec = n.prec
    OBVIOUS
  <2> DEFINE id == HeadId(n, s, i)
  <2>1. m = [n EXCEPT !.id = id, !.op = "MatMul", !.refs = refs, !.leaves = {}, !.attr = {}]
    BY DEF HeadOp
  <2>2. id[1] = n.id[1] /\ id[3] = s /\ id[4] = i
    BY DEF HeadId
  <2> HIDE DEF id
  <2>3. /\ IsNode(m) /\ m.id = id /\ m.op = "MatMul" /\ m.refs = refs /\ m.attr = {}
        /\ m.name = n.name /\ m.prec = n.prec
    BY <1>5, <2>1 DEF IsNode
  <2> QED
    BY <2>2, <2>3
<1>7. /\ IsNode(plain) /\ plain.id[1] = n.id[1] /\ plain.id[3] = "logits" /\ plain.id[4] = i
      /\ plain.op = "MatMul" /\ plain.refs = <<query, key>> /\ plain.name = n.name /\ plain.prec = n.prec
  BY <1>6
<1>8. /\ IsNode(ctx) /\ ctx.id[1] = n.id[1] /\ ctx.id[3] = "ctx" /\ ctx.id[4] = i
      /\ ctx.op = "MatMul" /\ ctx.refs = <<shares, value>> /\ ctx.attr = {} /\ ctx.name = n.name
      /\ ctx.prec = n.prec
  BY <1>6
<1> HIDE DEF plain, logits, scale, scaled, added, weights, ctx
<1>9. Meets(logits, decided)
  <2>1. /\ IsNode(logits) /\ logits.id = plain.id /\ logits.op = plain.op /\ logits.refs = plain.refs
        /\ logits.attr = {"transpose_y"} /\ logits.name = plain.name /\ logits.prec = plain.prec
    BY <1>3, <1>7 DEF IsNode
  <2>2. logits.refs[1] = query /\ logits.refs[2] = key
    BY <1>7, <2>1
  <2> QED
    BY <1>4, <1>7, <2>1, <2>2 DEF Given, Meets, Paired, KeyValue, Rows
<1>10. Meets(ctx, decided)
  <2>1. ctx.refs[2] = value
    BY <1>8
  <2> QED
    BY <1>4, <1>8, <2>1 DEF Given, Meets, Paired, KeyValue, Rows
<1>11. /\ Meeting(<<logits, scale, scaled>>, decided) /\ Meeting(<<weights, ctx>>, decided)
       /\ Meeting(<<added>>, decided) /\ Meeting(<<>>, decided)
  BY <1>2, <1>9, <1>10, MeetingThree, MeetingTwo, MeetingOne, MeetingNone
<1>12. Meeting(masked, decided)
  BY <1>11
<1> HIDE DEF masked
<1> QED
  BY <1>1, <1>11, <1>12, MeetingConcat

\* A node of its own id that is not a row is replaced by an identity.
LEMMA Replaced ==
    ASSUME NEW decided, NEW n, Given(n, decided), NEW refs, NEW m,
           m = [n EXCEPT !.op = "Identity", !.refs = refs, !.leaves = {}, !.attr = {}]
    PROVE  Meets(m, decided)
<1>1. IsNode(n)
  BY DEF Given, Meets
<1>2. IsNode(m) /\ m.id = n.id /\ m.prec = n.prec /\ m.attr = {} /\ m.name = n.name
  BY <1>1 DEF IsNode
<1> QED
  BY <1>2 DEF Given, Meets, Paired

LEMMA decompose_sdpaMeets ==
    ASSUME NEW decided, NEW n, Given(n, decided), decided.c \in DecompositionContext,
           NEW hq, hq = decided.c.heads, NEW hk, hk = decided.c.kv, hk > 0
    PROVE  Meeting(decompose_sdpa(n, hq, hk), decided)
<1> DEFINE fanout == hq \div hk
           head(i) == head_slices(n, i, fanout) \o head_attention(n, i, i \div fanout)
           heads == [i \in 1..hq |-> head(i - 1)]
           stack == HeadOp(n, "ctx_stack", 0, "Stack", [i \in 1..hq |-> HeadId(n, "ctx", i - 1)])
           flat == HeadOp(n, "ctx_reshape", 0, "Reshape", <<HeadId(n, "ctx_stack", 0)>>)
           last == [n EXCEPT !.op = "Identity", !.refs = <<HeadId(n, "ctx_reshape", 0)>>, !.leaves = {}, !.attr = {}]
<1>1. decompose_sdpa(n, hq, hk) = FlattenSeq(heads) \o <<stack, flat, last>>
  BY Zenon DEF decompose_sdpa
<1>0. hq \in Nat
  BY DEF DecompositionContext
<1>2. ASSUME NEW i \in 1..hq PROVE Meeting(head(i - 1), decided)
  <2>1. Serves((i - 1) \div fanout, i - 1, decided.c)
    BY <1>0 DEF Serves
  <2>2. Meeting(head_attention(n, i - 1, (i - 1) \div fanout), decided)
    BY <2>1, head_attentionMeets
  <2> QED
    BY <2>2, head_slicesMeets, MeetingConcat
<1> HIDE DEF head
<1>3. heads = [i \in 1..hq |-> heads[i]] /\ \A i \in 1..hq : Meeting(heads[i], decided)
  BY <1>2
<1>4. Meets(stack, decided) /\ Meets(flat, decided)
  BY HeadOpMeets DEF Reserved, Rows
<1>5. Meets(last, decided)
  BY Replaced
<1> HIDE DEF heads, stack, flat, last
<1>6. Meeting(FlattenSeq(heads), decided)
  BY <1>0, <1>3, MeetingFlattened
<1>7. Meeting(<<stack, flat, last>>, decided)
  BY <1>4, <1>5, MeetingThree
<1> QED
  BY <1>1, <1>6, <1>7, MeetingConcat

LEMMA AttentionSplitMeets ==
    ASSUME NEW decided, NEW nodes, Meeting(nodes, decided), NEW c \in DecompositionContext,
           decided.c = c
    PROVE  Meeting(ReplaceEach(nodes, LAMBDA n : SplitsSdpa(n, c), LAMBDA n : decompose_sdpa(n, c.heads, c.kv)), decided)
<1> DEFINE parts == [i \in 1..Len(nodes) |-> IF SplitsSdpa(nodes[i], c) THEN decompose_sdpa(nodes[i], c.heads, c.kv)
                                             ELSE <<nodes[i]>>]
<1>1. Len(nodes) \in Nat /\ DOMAIN nodes = 1..Len(nodes) /\ \A i \in DOMAIN nodes : Meets(nodes[i], decided)
  BY MeetingAt
<1>2. ASSUME NEW i \in 1..Len(nodes) PROVE Meeting(parts[i], decided)
  <2>1. CASE SplitsSdpa(nodes[i], c)
    <3>1. nodes[i].op = "ScaledDotProductAttention" /\ c.kv > 0
      BY <2>1 DEF SplitsSdpa
    <3>2. Given(nodes[i], decided)
      BY <1>1, <3>1 DEF Given, Meets, Paired
    <3>3. Meeting(decompose_sdpa(nodes[i], c.heads, c.kv), decided)
      BY <3>1, <3>2, decompose_sdpaMeets
    <3> QED
      BY <2>1, <3>3
  <2>2. CASE ~SplitsSdpa(nodes[i], c)
    BY <1>1, <2>2, MeetingOne
  <2> QED
    BY <2>1, <2>2
<1>3. ReplaceEach(nodes, LAMBDA n : SplitsSdpa(n, c), LAMBDA n : decompose_sdpa(n, c.heads, c.kv)) \in {nodes, FlattenSeq(parts)}
  BY <1>1 DEF ReplaceEach
<1>4. parts = [i \in 1..Len(nodes) |-> parts[i]]
  OBVIOUS
<1> HIDE DEF parts
<1>5. Meeting(FlattenSeq(parts), decided)
  BY <1>1, <1>2, <1>4, MeetingFlattened
<1> QED
  BY <1>3, <1>5

\* The primitives of a layer normalisation.
LEMMA NormOpMeets ==
    ASSUME NEW decided, NEW n, Given(n, decided)
    PROVE  \A s, op, refs : s \notin Reserved => Meets(NormOp(n, s, op, refs), decided)
<1> SUFFICES ASSUME NEW s, NEW op, NEW refs, s \notin Reserved
             PROVE  Meets(NormOp(n, s, op, refs), decided)
  OBVIOUS
<1> DEFINE m == NormOp(n, s, op, refs)
           id == Derived(n.id, s)
<1>1. m = [n EXCEPT !.id = id, !.op = op, !.refs = refs, !.leaves = {}, !.attr = {}]
  BY DEF NormOp
<1>2. id[1] = n.id[1] /\ id[3] = s
  BY DEF Derived
<1> HIDE DEF m, id
<1>3. IsNode(n)
  BY DEF Given, Meets
<1>4. IsNode(m) /\ m.id = id /\ m.prec = n.prec /\ m.attr = {} /\ m.name = n.name
  BY <1>1, <1>3 DEF IsNode
<1>5. Meets(m, decided)
  BY <1>2, <1>4 DEF Given, Meets, Paired, Reserved
<1> QED
  BY <1>5 DEF m

LEMMA decompose_layer_normMeets ==
    ASSUME NEW decided, NEW n, Given(n, decided)
    PROVE  Meeting(decompose_layer_norm(n), decided)
<1> DEFINE y(s) == Derived(n.id, s)
           plain(s) == NormOp(n, s, "Const", <<>>)
           leaf(s) == [NormOp(n, s, "Const", <<>>) EXCEPT !.leaves = {<<n.id[1], s>>}]
           beta == <<n.id[1], "beta">> \in n.leaves
           result == NormOp(n, "result", "Mul", <<y("normed"), y("gamma")>>)
           biased == NormOp(n, "biased", "Add", <<y("result"), y("beta")>>)
           shifted == IF beta THEN <<leaf("beta"), biased>> ELSE <<>>
           from == <<y(IF beta THEN "biased" ELSE "result")>>
           last == [n EXCEPT !.op = "Identity", !.refs = from, !.leaves = {}, !.attr = {}]
<1>1. decompose_layer_norm(n) =
        scaled_by_maximum(n) \o by_root_mean_square(n) \o <<leaf("gamma"), result>> \o shifted \o <<last>>
  BY Zenon DEF decompose_layer_norm
<1>2. \A op, refs :
          /\ Meets(NormOp(n, "abs", op, refs), decided) /\ Meets(NormOp(n, "rmax", op, refs), decided)
          /\ Meets(NormOp(n, "clip", op, refs), decided) /\ Meets(NormOp(n, "norm", op, refs), decided)
          /\ Meets(NormOp(n, "sq", op, refs), decided) /\ Meets(NormOp(n, "mean", op, refs), decided)
          /\ Meets(NormOp(n, "eps", op, refs), decided) /\ Meets(NormOp(n, "add_eps", op, refs), decided)
          /\ Meets(NormOp(n, "rsqrt", op, refs), decided) /\ Meets(NormOp(n, "normed", op, refs), decided)
          /\ Meets(NormOp(n, "gamma", op, refs), decided) /\ Meets(NormOp(n, "beta", op, refs), decided)
          /\ Meets(NormOp(n, "result", op, refs), decided) /\ Meets(NormOp(n, "biased", op, refs), decided)
  BY NormOpMeets DEF Reserved, Rows
<1>3. Meeting(scaled_by_maximum(n), decided)
  BY <1>2, MeetingFour DEF scaled_by_maximum
<1>4. Meeting(by_root_mean_square(n), decided)
  BY <1>2, MeetingSix DEF by_root_mean_square
<1>5. ASSUME NEW s \in {"gamma", "beta"} PROVE Meets(leaf(s), decided)
  <2> DEFINE a == plain(s)
             l == {<<n.id[1], s>>}
             m == leaf(s)
  <2>1. Meets(a, decided) /\ m = [a EXCEPT !.leaves = l]
    BY <1>2
  <2> HIDE DEF a, l, m
  <2>2. IsNode(a)
    BY <2>1 DEF Meets
  <2>3. /\ IsNode(m) /\ m.id = a.id /\ m.op = a.op /\ m.prec = a.prec
        /\ m.refs = a.refs /\ m.attr = a.attr /\ m.name = a.name
    BY <2>1, <2>2 DEF IsNode
  <2>4. Meets(m, decided)
    BY <2>1, <2>3 DEF Meets, Paired
  <2> QED
    BY <2>4 DEF m
<1>6. Meets(result, decided) /\ Meets(biased, decided)
  BY <1>2
<1>7. Meets(last, decided)
  <2> HIDE DEF from
  <2> QED
    BY Replaced
<1>8. Meets(leaf("gamma"), decided) /\ Meets(leaf("beta"), decided)
  BY <1>5
<1> HIDE DEF y, leaf, beta, result, biased, last
<1>9. /\ Meeting(<<leaf("gamma"), result>>, decided) /\ Meeting(<<leaf("beta"), biased>>, decided)
      /\ Meeting(<<last>>, decided) /\ Meeting(<<>>, decided)
  BY <1>6, <1>7, <1>8, MeetingTwo, MeetingOne, MeetingNone
<1>10. Meeting(shifted, decided)
  BY <1>9
<1> HIDE DEF shifted
<1> QED
  BY <1>1, <1>3, <1>4, <1>9, <1>10, MeetingConcat

LEMMA NormsSplitMeet ==
    ASSUME NEW decided, NEW nodes, Meeting(nodes, decided)
    PROVE  Meeting(ReplaceEach(nodes, LAMBDA n : n.op = "LayerNorm", decompose_layer_norm), decided)
<1> DEFINE parts == [i \in 1..Len(nodes) |-> IF nodes[i].op = "LayerNorm" THEN decompose_layer_norm(nodes[i])
                                             ELSE <<nodes[i]>>]
<1>1. Len(nodes) \in Nat /\ DOMAIN nodes = 1..Len(nodes) /\ \A i \in DOMAIN nodes : Meets(nodes[i], decided)
  BY MeetingAt
<1>2. ASSUME NEW i \in 1..Len(nodes) PROVE Meeting(parts[i], decided)
  <2>1. CASE nodes[i].op = "LayerNorm"
    <3>1. Given(nodes[i], decided)
      BY <1>1, <2>1 DEF Given, Meets, Paired
    <3>2. Meeting(decompose_layer_norm(nodes[i]), decided)
      BY <3>1, decompose_layer_normMeets
    <3> QED
      BY <2>1, <3>2
  <2>2. CASE nodes[i].op # "LayerNorm"
    BY <1>1, <2>2, MeetingOne
  <2> QED
    BY <2>1, <2>2
<1>3. ReplaceEach(nodes, LAMBDA n : n.op = "LayerNorm", decompose_layer_norm) \in {nodes, FlattenSeq(parts)}
  BY <1>1 DEF ReplaceEach
<1>4. parts = [i \in 1..Len(nodes) |-> parts[i]]
  OBVIOUS
<1> HIDE DEF parts
<1>5. Meeting(FlattenSeq(parts), decided)
  BY <1>1, <1>2, <1>4, MeetingFlattened
<1> QED
  BY <1>3, <1>5

-----------------------------------------------------------------------------
(* The projection to the vocabulary. *)
LEMMA FirstLmHead ==
    ASSUME NEW decided, NEW nodes, Meeting(nodes, decided), \E i \in DOMAIN nodes : IsLmHead(nodes[i])
    PROVE  LET k == FirstIndex(nodes, IsLmHead) IN k \in DOMAIN nodes /\ IsLmHead(nodes[k])
<1> DEFINE Heads == {i \in DOMAIN nodes : IsLmHead(nodes[i])}
<1>1. Len(nodes) \in Nat /\ DOMAIN nodes = 1..Len(nodes)
  BY MeetingAt
<1>2. PICK k \in Heads : \A i \in Heads : k <= i
  <2>1. Heads \in SUBSET Nat /\ Heads # {}
    BY <1>1
  <2> HIDE DEF Heads
  <2> QED
    BY <2>1, LeastExists
<1>3. k \in DOMAIN nodes /\ IsLmHead(nodes[k]) /\ \A j \in 1..(k - 1) : ~IsLmHead(nodes[j])
  BY <1>1, <1>2
<1> QED
  BY <1>3 DEF FirstIndex

LEMMA lm_head_pre_sliceMeets ==
    ASSUME NEW decided, NEW nodes, Meeting(nodes, decided)
    PROVE  Meeting(lm_head_pre_slice(nodes), decided)
<1> DEFINE k == FirstIndex(nodes, IsLmHead)
           n == nodes[k]
           slice == Derived(n.refs[1], "last_token")
           row == [n EXCEPT !.id = slice, !.op = "SliceByIndex", !.leaves = {}, !.attr = {}]
           head == [n EXCEPT !.refs = <<slice>>]
           before == SubSeq(nodes, 1, k - 1)
           after == SubSeq(nodes, k + 1, Len(nodes))
<1> SUFFICES ASSUME \E i \in DOMAIN nodes : IsLmHead(nodes[i]), "long" \in n.attr
             PROVE  Meeting(before \o <<row, head>> \o after, decided)
  BY Zenon DEF lm_head_pre_slice
<1>1. k \in DOMAIN nodes /\ IsLmHead(n)
  BY FirstLmHead
<1>2. Meets(n, decided) /\ n.op = "MILLinear"
  BY <1>1, MeetingAt DEF IsLmHead
<1>3. Meeting(before, decided) /\ Meeting(after, decided)
  <2> HIDE DEF k
  <2> QED
    BY <1>1, MeetingPart
<1>4. Meets(row, decided)
  <2>1. slice[3] \in Rows /\ slice[3] \notin {"logits", "ctx"}
    BY DEF Derived, Rows
  <2>2. row = [n EXCEPT !.id = slice, !.op = "SliceByIndex", !.leaves = {}, !.attr = {}]
    OBVIOUS
  <2>3. IsNode(n)
    BY <1>2 DEF Meets
  <2> HIDE DEF row, n, slice
  <2>4. IsNode(row) /\ row.id = slice /\ row.op = "SliceByIndex" /\ row.attr = {} /\ row.name = n.name
    BY <2>2, <2>3 DEF IsNode
  <2> QED
    BY <1>2, <2>1, <2>4 DEF Meets, Paired
<1>5. Meets(head, decided)
  <2>1. head = [n EXCEPT !.refs = <<slice>>]
    OBVIOUS
  <2>2. IsNode(n)
    BY <1>2 DEF Meets
  <2> HIDE DEF head, n, slice
  <2>3. /\ IsNode(head) /\ head.id = n.id /\ head.op = n.op /\ head.prec = n.prec
        /\ head.attr = n.attr /\ head.name = n.name
    BY <2>1, <2>2 DEF IsNode
  <2> QED
    BY <1>2, <2>3 DEF Meets, Paired
<1> HIDE DEF before, row, head, after
<1>6. Meeting(<<row, head>>, decided)
  BY <1>4, <1>5, MeetingTwo
<1> QED
  BY <1>3, <1>6, MeetingConcat

LEMMA lm_head_matmulMeets ==
    ASSUME NEW decided, NEW nodes, Meeting(nodes, decided), \E i \in DOMAIN nodes : IsLmHead(nodes[i])
    PROVE  Meeting(lm_head_matmul(nodes), decided)
<1> DEFINE k == FirstIndex(nodes, IsLmHead)
           n == nodes[k]
           flat == "rank3" \in n.attr \/ "long" \in n.attr
           slice == Derived(n.refs[1], "2d")
           row == [n EXCEPT !.id = slice, !.op = "Reshape", !.leaves = {}, !.attr = {}]
           rows == IF flat THEN <<row>> ELSE <<>>
           refs == IF flat THEN <<slice>> ELSE n.refs
           product == [n EXCEPT !.op = "MatMul", !.attr = {"transpose_y", "vocab"}, !.refs = refs]
           own == Derived(n.id, "fp32")
           from == <<n.id>>
           cast == [n EXCEPT !.id = own, !.op = "Cast", !.refs = from, !.leaves = {}, !.attr = {}, !.prec = "fp32"]
           before == SubSeq(nodes, 1, k - 1)
           after == SubSeq(nodes, k + 1, Len(nodes))
<1>1. lm_head_matmul(nodes) = before \o rows \o <<product, cast>> \o after
  BY Zenon DEF lm_head_matmul
<1>2. k \in DOMAIN nodes /\ IsLmHead(n)
  BY FirstLmHead
<1>3. Meets(n, decided) /\ n.op = "MILLinear"
  BY <1>2, MeetingAt DEF IsLmHead
<1>4. Meeting(before, decided) /\ Meeting(after, decided)
  <2> HIDE DEF k
  <2> QED
    BY <1>2, MeetingPart
<1>5. IsNode(n) /\ n.id[3] \notin Rows
  BY <1>3 DEF Meets
<1>6. Meets(row, decided)
  <2>1. slice[3] \in Rows /\ slice[3] \notin {"logits", "ctx"}
    BY DEF Derived, Rows
  <2>2. row = [n EXCEPT !.id = slice, !.op = "Reshape", !.leaves = {}, !.attr = {}]
    OBVIOUS
  <2> HIDE DEF row, n, slice
  <2>3. IsNode(row) /\ row.id = slice /\ row.op = "Reshape" /\ row.attr = {} /\ row.name = n.name
    BY <1>5, <2>2 DEF IsNode
  <2> QED
    BY <1>3, <2>1, <2>3 DEF Meets, Paired
<1>7. Meets(product, decided)
  <2>1. product = [n EXCEPT !.op = "MatMul", !.attr = {"transpose_y", "vocab"}, !.refs = refs]
    OBVIOUS
  <2> HIDE DEF product, n, refs
  <2>2. /\ IsNode(product) /\ product.id = n.id /\ product.prec = n.prec
        /\ product.attr = {"transpose_y", "vocab"} /\ product.name = n.name
    BY <1>5, <2>1 DEF IsNode
  <2> QED
    BY <1>3, <1>5, <2>2 DEF Meets, Paired
<1>8. Meets(cast, decided)
  <2>1. own[3] \notin Rows /\ own[3] \notin {"logits", "ctx"}
    BY DEF Derived, Rows
  <2>2. cast = [n EXCEPT !.id = own, !.op = "Cast", !.refs = from, !.leaves = {}, !.attr = {}, !.prec = "fp32"]
    OBVIOUS
  <2> HIDE DEF cast, n, own, from
  <2>3. IsNode(cast) /\ cast.id = own /\ cast.prec = "fp32" /\ cast.attr = {} /\ cast.name = n.name
    BY <1>5, <2>2 DEF IsNode
  <2> QED
    BY <1>3, <2>1, <2>3 DEF Meets, Paired
<1> HIDE DEF before, row, product, cast, after
<1>9. Meeting(<<row>>, decided) /\ Meeting(<<>>, decided) /\ Meeting(<<product, cast>>, decided)
  BY <1>6, <1>7, <1>8, MeetingOne, MeetingNone, MeetingTwo
<1>10. Meeting(rows, decided)
  BY <1>9
<1> HIDE DEF rows
<1> QED
  BY <1>1, <1>4, <1>9, <1>10, MeetingConcat

LEMMA reads_the_castMeets ==
    ASSUME NEW decided, NEW nodes, Meeting(nodes, decided), NEW product
    PROVE  Meeting(reads_the_cast(nodes, product), decided)
<1> DEFINE any == \E i \in DOMAIN nodes : nodes[i].op = "Identity" /\ nodes[i].refs[1] = product
           reads(m) == m.op = "Identity" /\ m.refs[1] = product
           k == FirstIndex(nodes, reads)
           refs == <<Derived(product, "fp32")>>
           m == [nodes[k] EXCEPT !.refs = refs, !.prec = "fp32"]
           recast == [nodes EXCEPT ![k] = m]
<1>1. reads_the_cast(nodes, product) = IF ~any THEN nodes ELSE recast
  BY Zenon DEF reads_the_cast
<1>2. /\ Len(nodes) \in Nat /\ nodes = [i \in 1..Len(nodes) |-> nodes[i]]
      /\ DOMAIN nodes = 1..Len(nodes) /\ \A i \in DOMAIN nodes : Meets(nodes[i], decided)
  BY MeetingAt
<1>7. ASSUME any PROVE k \in DOMAIN nodes /\ nodes[k].op = "Identity"
  <2> DEFINE Readers == {i \in DOMAIN nodes : nodes[i].op = "Identity" /\ nodes[i].refs[1] = product}
  <2>1. PICK first \in Readers : \A i \in Readers : first <= i
    <3>1. Readers \in SUBSET Nat /\ Readers # {}
      BY <1>2, <1>7
    <3> HIDE DEF Readers
    <3> QED
      BY <3>1, LeastExists
  <2>2. first \in DOMAIN nodes /\ reads(nodes[first]) /\ \A j \in 1..(first - 1) : ~reads(nodes[j])
    BY <1>2, <2>1
  <2>3. k \in DOMAIN nodes /\ reads(nodes[k])
    BY <2>2 DEF FirstIndex
  <2> QED
    BY <2>3
<1> HIDE DEF reads, k, refs, any
<1>3. ASSUME any PROVE Meets(m, decided)
  <2> DEFINE n == nodes[k]
  <2>1. Meets(n, decided) /\ IsNode(n) /\ n.op = "Identity"
    BY <1>2, <1>3, <1>7 DEF Meets
  <2>2. m = [n EXCEPT !.refs = refs, !.prec = "fp32"]
    OBVIOUS
  <2> HIDE DEF n, m
  <2>3. /\ IsNode(m) /\ m.id = n.id /\ m.op = n.op /\ m.prec = "fp32"
        /\ m.attr = n.attr /\ m.name = n.name
    BY <2>1, <2>2 DEF IsNode
  <2> QED
    BY <2>1, <2>3 DEF Meets, Paired
<1> HIDE DEF m
<1>4. recast = [i \in 1..Len(nodes) |-> recast[i]] /\ \A i \in 1..Len(nodes) : recast[i] \in {nodes[i], m}
  BY <1>2
<1>5. ASSUME any PROVE \A i \in 1..Len(nodes) : Meets(recast[i], decided)
  BY <1>2, <1>3, <1>4, <1>5
<1> HIDE DEF recast
<1>6. any => Meeting(recast, decided)
  BY <1>2, <1>4, <1>5, MeetingEach
<1> QED
  BY <1>1, <1>6

LEMMA lm_head_in_fp32Meets ==
    ASSUME NEW decided, NEW nodes, Meeting(nodes, decided)
    PROVE  Meeting(lm_head_in_fp32(nodes), decided)
<1>1. CASE ~ \E i \in DOMAIN nodes : IsLmHead(nodes[i])
  BY <1>1 DEF lm_head_in_fp32
<1>2. CASE \E i \in DOMAIN nodes : IsLmHead(nodes[i])
  <2>1. Meeting(lm_head_matmul(nodes), decided)
    BY <1>2, lm_head_matmulMeets
  <2>2. \A product : Meeting(reads_the_cast(lm_head_matmul(nodes), product), decided)
    BY <2>1, reads_the_castMeets
  <2> QED
    BY <1>2, <2>2 DEF lm_head_in_fp32
<1> QED
  BY <1>1, <1>2

-----------------------------------------------------------------------------
(* The rewrites of single nodes. *)
LEMMA lower_nodeMeets ==
    ASSUME NEW decided, NEW n, Meets(n, decided)
    PROVE  Meets(lower_node(n), decided)
<1> DEFINE op == IF n.op = "Conv1x1AsLinear" THEN "MILLinear" ELSE n.op
           prec == IF n.prec # "none" THEN n.prec
                   ELSE IF n.op = "Identity" /\ "int_input" \in n.attr THEN "int32" ELSE "fp16"
           m == lower_node(n)
<1>1. IsNode(n)
  BY DEF Meets
<1>2. m = [n EXCEPT !.op = op, !.prec = prec]
  BY Zenon DEF lower_node
<1>3. (n.id[3] \in Rows => op = n.op) /\ (op = "MatMul" <=> n.op = "MatMul")
  BY DEF Meets
<1>4. n.prec = "fp32" => prec = "fp32"
  OBVIOUS
<1> HIDE DEF m, op, prec
<1>5. /\ IsNode(m) /\ m.id = n.id /\ m.op = op /\ m.prec = prec
      /\ m.refs = n.refs /\ m.attr = n.attr /\ m.name = n.name
  BY <1>1, <1>2 DEF IsNode
<1>6. Meets(m, decided)
  BY <1>3, <1>4, <1>5 DEF Meets, Paired
<1> QED
  BY <1>6 DEF m

LEMMA linear_to_convMeets ==
    ASSUME NEW decided, NEW nodes, Meeting(nodes, decided)
    PROVE  Meeting(linear_to_conv(nodes), decided)
<1> DEFINE made == linear_to_conv(nodes)
           conv(n) == [n EXCEPT !.op = "MILConv"]
<1>1. /\ Len(nodes) \in Nat /\ DOMAIN nodes = 1..Len(nodes)
      /\ \A i \in DOMAIN nodes : Meets(nodes[i], decided)
  BY MeetingAt
<1>2. made = [i \in 1..Len(nodes) |-> IF nodes[i].op = "MILLinear" THEN conv(nodes[i]) ELSE nodes[i]]
  BY <1>1 DEF linear_to_conv
<1>3. ASSUME NEW n, Meets(n, decided), n.op = "MILLinear" PROVE Meets(conv(n), decided)
  <2> DEFINE m == conv(n)
  <2>1. m = [n EXCEPT !.op = "MILConv"]
    OBVIOUS
  <2>2. IsNode(n) /\ n.id[3] \notin Rows
    BY <1>3 DEF Meets
  <2> HIDE DEF m
  <2>3. IsNode(m) /\ m.id = n.id /\ m.prec = n.prec /\ m.attr = n.attr /\ m.name = n.name
    BY <2>1, <2>2 DEF IsNode
  <2>4. Meets(m, decided)
    BY <1>3, <2>2, <2>3 DEF Meets, Paired
  <2> QED
    BY <2>4 DEF m
<1> HIDE DEF made, conv
<1>4. made = [i \in 1..Len(nodes) |-> made[i]] /\ \A i \in 1..Len(nodes) : Meets(made[i], decided)
  BY <1>1, <1>2, <1>3
<1>5. Meeting(made, decided)
  BY <1>1, <1>4, MeetingEach
<1> QED
  BY <1>5 DEF made

LEMMA logits_transpose_yMeets ==
    ASSUME NEW decided, NEW nodes, Meeting(nodes, decided)
    PROVE  Meeting(logits_transpose_y(nodes), decided)
<1> DEFINE made == logits_transpose_y(nodes)
           turned(n) == [n EXCEPT !.attr = n.attr \cup {"transpose_y"}]
<1>1. /\ Len(nodes) \in Nat /\ DOMAIN nodes = 1..Len(nodes)
      /\ \A i \in DOMAIN nodes : Meets(nodes[i], decided)
  BY MeetingAt
<1>2. made = [i \in 1..Len(nodes) |-> IF nodes[i].op = "MatMul" /\ nodes[i].name = "logits_name"
                                      THEN turned(nodes[i]) ELSE nodes[i]]
  BY <1>1 DEF logits_transpose_y
<1>3. ASSUME NEW n, Meets(n, decided), n.op = "MatMul", n.name = "logits_name" PROVE Meets(turned(n), decided)
  <2> DEFINE m == turned(n)
             attr == n.attr \cup {"transpose_y"}
  <2>1. m = [n EXCEPT !.attr = attr] /\ ("perm0213" \in attr => "perm0213" \in n.attr)
    OBVIOUS
  <2>2. IsNode(n)
    BY <1>3 DEF Meets
  <2> HIDE DEF m, attr
  <2>3. IsNode(m) /\ m.id = n.id /\ m.op = n.op /\ m.prec = n.prec /\ m.attr = attr /\ m.name = n.name
    BY <2>1, <2>2 DEF IsNode
  <2>4. Meets(m, decided)
    BY <1>3, <2>1, <2>3 DEF Meets, Paired
  <2> QED
    BY <2>4 DEF m
<1> HIDE DEF made, turned
<1>4. made = [i \in 1..Len(nodes) |-> made[i]] /\ \A i \in 1..Len(nodes) : Meets(made[i], decided)
  BY <1>1, <1>2, <1>3
<1>5. Meeting(made, decided)
  BY <1>1, <1>4, MeetingEach
<1> QED
  BY <1>5 DEF made

LEMMA fold_transposesMeets ==
    ASSUME NEW decided, NEW nodes, Meeting(nodes, decided)
    PROVE  Meeting(fold_transposes(nodes), decided)
<1> DEFINE swaps == {i \in DOMAIN nodes : nodes[i].op = "Transpose" /\ "perm0213" \in nodes[i].attr}
           multiplies(i, t) == /\ nodes[i].op = "MatMul" /\ "transpose_y" \notin nodes[i].attr
                               /\ Len(nodes[i].refs) = 2 /\ nodes[i].refs[2] = nodes[t].id
           last_name(t) == nodes[CHOOSE i \in DOMAIN nodes :
                                     multiplies(i, t) /\ \A j \in DOMAIN nodes : multiplies(j, t) => j <= i].name
           folds(i, t) == multiplies(i, t) /\ nodes[i].name = last_name(t)
           read(i) == LET t == CHOOSE t \in swaps : folds(i, t) IN nodes[t].refs[1]
           folded(n, r) == [n EXCEPT !.refs[2] = r, !.attr = @ \cup {"transpose_y"}]
           made == fold_transposes(nodes)
<1>1. made = [i \in DOMAIN nodes |-> IF \E t \in swaps : folds(i, t) THEN folded(nodes[i], read(i)) ELSE nodes[i]]
  BY Zenon DEF fold_transposes
<1>2. /\ Len(nodes) \in Nat /\ DOMAIN nodes = 1..Len(nodes)
      /\ \A i \in DOMAIN nodes : Meets(nodes[i], decided)
  BY MeetingAt
<1>6. ASSUME NEW i \in DOMAIN nodes, NEW t \in swaps, folds(i, t), decided.paired
      PROVE  nodes[i].id[3] \notin {"logits", "ctx"}
  <2>1. nodes[i].refs[2] = nodes[t].id /\ "perm0213" \in nodes[t].attr /\ t \in DOMAIN nodes
    BY <1>6
  <2>2. Paired(nodes[i], decided.c) /\ Paired(nodes[t], decided.c)
    BY <1>2, <1>6, <2>1 DEF Meets
  <2>3. nodes[i].refs[2][3] \notin KeyValue
    BY <2>1, <2>2 DEF Paired
  <2> HIDE DEF folds, swaps
  <2> QED
    BY <2>2, <2>3 DEF Paired
<1> HIDE DEF swaps, folds, read
<1>3. ASSUME NEW n, Meets(n, decided), decided.paired => n.id[3] \notin {"logits", "ctx"}, NEW r
      PROVE  Meets(folded(n, r), decided)
  <2> DEFINE m == folded(n, r)
             attr == n.attr \cup {"transpose_y"}
  <2>1. m = [n EXCEPT !.refs[2] = r, !.attr = @ \cup {"transpose_y"}]
    OBVIOUS
  <2>5. "perm0213" \in attr => "perm0213" \in n.attr
    OBVIOUS
  <2>2. IsNode(n)
    BY <1>3 DEF Meets
  <2> HIDE DEF m
  <2>3. IsNode(m) /\ m.id = n.id /\ m.op = n.op /\ m.prec = n.prec /\ m.attr = attr /\ m.name = n.name
    BY <2>1, <2>2 DEF IsNode
  <2> HIDE DEF attr
  <2>4. Meets(m, decided)
    BY <1>3, <2>3, <2>5 DEF Meets, Paired
  <2> QED
    BY <2>4 DEF m
<1> HIDE DEF made, folded
<1>4. made = [i \in 1..Len(nodes) |-> made[i]] /\ \A i \in 1..Len(nodes) : Meets(made[i], decided)
  BY <1>1, <1>2, <1>3, <1>6
<1>5. Meeting(made, decided)
  BY <1>2, <1>4, MeetingEach
<1> QED
  BY <1>5 DEF made

LEMMA MilLowerMeets ==
    ASSUME NEW decided, NEW nodes, Meeting(nodes, decided), NEW c \in DecompositionContext,
           decided.c = c
    PROVE  Meeting(MilLowerRun(nodes, c), decided)
<1> DEFINE lowered == [i \in DOMAIN nodes |-> lower_node(nodes[i])]
           split == ReplaceEach(lowered, LAMBDA n : SplitsSdpa(n, c), LAMBDA n : decompose_sdpa(n, c.heads, c.kv))
           vocab == linear_to_conv(lm_head_in_fp32(lm_head_pre_slice(split)))
           primitive == ReplaceEach(vocab, LAMBDA n : n.op = "LayerNorm", decompose_layer_norm)
<1>1. MilLowerRun(nodes, c) = logits_transpose_y(fold_transposes(primitive))
  BY Zenon DEF MilLowerRun
<1>2. Meeting(lowered, decided)
  <2>1. /\ Len(nodes) \in Nat /\ DOMAIN nodes = 1..Len(nodes)
        /\ \A i \in DOMAIN nodes : Meets(nodes[i], decided)
    BY MeetingAt
  <2>2. lowered = [i \in 1..Len(nodes) |-> lowered[i]] /\ \A i \in 1..Len(nodes) : Meets(lowered[i], decided)
    BY <2>1, lower_nodeMeets
  <2> HIDE DEF lowered
  <2> QED
    BY <2>1, <2>2, MeetingEach
<1>3. Meeting(split, decided)
  <2> HIDE DEF lowered
  <2> QED
    BY <1>2, AttentionSplitMeets
<1> HIDE DEF split
<1>4. Meeting(lm_head_pre_slice(split), decided)
  BY <1>3, lm_head_pre_sliceMeets
<1>5. Meeting(lm_head_in_fp32(lm_head_pre_slice(split)), decided)
  BY <1>4, lm_head_in_fp32Meets
<1>6. Meeting(vocab, decided)
  BY <1>5, linear_to_convMeets
<1> HIDE DEF vocab
<1>7. Meeting(primitive, decided)
  BY <1>6, NormsSplitMeet
<1> HIDE DEF primitive
<1>8. Meeting(fold_transposes(primitive), decided)
  BY <1>7, fold_transposesMeets
<1> QED
  BY <1>1, <1>8, logits_transpose_yMeets

-----------------------------------------------------------------------------
\* The suffixes that say something of a node.
Telling == Reserved \cup KeyValue

(* The SIR graph: tables, and the source's nodes, whose operands and precision
   may have changed.                                                          *)
IsTable(n) ==
    /\ n.id[1] = "static" /\ n.id[3] \notin Telling
    /\ n.op = "Const" /\ n.attr = {} /\ n.name # "logits_name" /\ IsFiniteSet(n.leaves)

Comes(n, source) ==
    /\ IsNode(n)
    /\ \/ IsTable(n)
       \/ \E s \in Range(source.nodes) :
              n.id = s.id /\ n.op = s.op /\ n.attr = s.attr /\ n.leaves = s.leaves /\ n.name = s.name

Coming(nodes, source) == \E S : nodes \in Seq(S) /\ \A n \in S : Comes(n, source)

\* The bases of the ids of the operations whose precision is decided.
Marked(source) ==
    {s.id[1] : s \in {n \in Range(source.nodes) : n.op \in source.k.hazards /\ n.op # "Const"}}

\* That decision, and how heads are paired: what the two theorems are about.
Precisions(source) == [fp32 |-> Marked(source), paired |-> FALSE, c |-> source.c]

Heads(source) == [fp32 |-> {}, paired |-> TRUE, c |-> source.c]

(* Only products are named for logits. The lowering takes a product of such a
   name for one of a query head, whatever it multiplies (mil_lower.rs, TODO).  *)
NamedPlainly ==
    \A source \in Sources : \A n \in Range(source.nodes) : n.op # "MatMul" => n.name # "logits_name"

LEMMA ComingBy ==
    ASSUME NEW source, NEW S, NEW nodes \in Seq(S), \A n \in S : Comes(n, source)
    PROVE  Coming(nodes, source)
BY Zenon DEF Coming

LEMMA ComingAt ==
    ASSUME NEW source, NEW nodes, Coming(nodes, source)
    PROVE  /\ Len(nodes) \in Nat /\ DOMAIN nodes = 1..Len(nodes)
           /\ nodes = [i \in 1..Len(nodes) |-> nodes[i]]
           /\ \A i \in DOMAIN nodes : Comes(nodes[i], source)
BY DEF Coming

\* Different nodes of the source have different bases.
LEMMA SourceNodes ==
    ASSUME NEW source \in Sources
    PROVE  /\ source.nodes \in Seq(Range(source.nodes))
           /\ \A n \in Range(source.nodes) :
                  /\ IsNode(n) /\ n.id[1] \notin {"shared", "static"} /\ n.id[3] \notin Telling
                  /\ "kv_cache" \in n.attr => n.op \in {"StateRead", "StateWrite"}
                  /\ IsFiniteSet(n.leaves)
           /\ \A n, m \in Range(source.nodes) : n.id[1] = m.id[1] => n = m
<1> DEFINE nodes == source.nodes
<1>1. IsGraph(nodes)
  BY SourcesAssumption
<1> HIDE DEF nodes
<1>2. ASSUME NEW n \in Range(nodes)
      PROVE  /\ IsNode(n) /\ n.id[1] \notin {"shared", "static"} /\ n.id[3] \notin Telling
             /\ "kv_cache" \in n.attr => n.op \in {"StateRead", "StateWrite"}
             /\ IsFiniteSet(n.leaves)
  <2>1. n = SirNode(n.id, n.op, n.refs, n.leaves, n.attr, n.prec) /\ n.id = SirId(n.id[1])
    BY <1>1 DEF IsGraph
  <2>2. IsNode(n)
    BY <2>1 DEF SirNode, IsNode
  <2>3. \A base : SirId(base)[3] \notin Telling
    BY DEF SirId, Telling, Reserved, Rows, KeyValue
  <2>4. n.id[3] \notin Telling
    BY <2>1, <2>3
  <2> QED
    BY <1>1, <2>2, <2>4 DEF IsGraph
<1>3. ASSUME NEW n \in Range(nodes), NEW m \in Range(nodes), n.id[1] = m.id[1] PROVE n = m
  <2>1. n.id = m.id
    BY <1>1, <1>3 DEF IsGraph
  <2>2. PICK i \in DOMAIN nodes, j \in DOMAIN nodes : n = nodes[i] /\ m = nodes[j]
    BY DEF Range
  <2> QED
    BY <1>1, <2>1, <2>2 DEF IsGraph
<1>4. nodes \in Seq(Range(nodes))
  BY <1>1 DEF IsGraph
<1> QED
  BY <1>2, <1>3, <1>4 DEF nodes

LEMMA ComesLike ==
    ASSUME NEW source, NEW n, NEW m, Comes(n, source), IsNode(m), m.id = n.id, m.op = n.op, m.attr = n.attr,
           m.leaves = n.leaves, m.name = n.name
    PROVE  Comes(m, source)
BY DEF Comes, IsTable

LEMMA CanonicalComes ==
    ASSUME NEW source, NEW nodes, Coming(nodes, source), NEW subst
    PROVE  Coming(eliminate_identities(nodes, subst), source)
<1> DEFINE made(i) == rewrite_op_refs(nodes[i], subst)
           S == {made(i) : i \in DOMAIN nodes}
           parts == [i \in DOMAIN nodes |-> IF nodes[i].id \in DOMAIN subst THEN <<>> ELSE <<made(i)>>]
<1>1. Len(nodes) \in Nat /\ DOMAIN nodes = 1..Len(nodes) /\ \A i \in DOMAIN nodes : Comes(nodes[i], source)
  BY ComingAt
<1>2. ASSUME NEW i \in DOMAIN nodes PROVE Comes(made(i), source)
  <2> DEFINE n == nodes[i]
             refs == [k \in DOMAIN n.refs |-> resolve_id(n.refs[k], subst)]
             changed == [n EXCEPT !.refs = refs]
             m == made(i)
  <2>1. m \in {n, changed}
    BY Zenon DEF rewrite_op_refs
  <2>2. changed = [n EXCEPT !.refs = refs]
    OBVIOUS
  <2>3. Comes(n, source) /\ IsNode(n)
    BY <1>1, <1>2 DEF Comes
  <2> HIDE DEF n, refs, changed, m
  <2>4. /\ IsNode(changed) /\ changed.id = n.id /\ changed.op = n.op
        /\ changed.attr = n.attr /\ changed.leaves = n.leaves /\ changed.name = n.name
    BY <2>2, <2>3 DEF IsNode
  <2>5. Comes(m, source)
    BY <2>1, <2>3, <2>4, ComesLike
  <2> QED
    BY <2>5 DEF m
<1>3. eliminate_identities(nodes, subst) = FlattenSeq(parts)
  BY Zenon DEF eliminate_identities
<1> HIDE DEF made
<1>4. \A n \in S : Comes(n, source)
  BY <1>2
<1>5. ASSUME NEW i \in DOMAIN nodes PROVE parts[i] \in Seq(S)
  <2>1. made(i) \in S
    OBVIOUS
  <2> HIDE DEF S
  <2>2. <<made(i)>> \in Seq(S) /\ <<>> \in Seq(S)
    BY <2>1
  <2> QED
    BY <2>2
<1> HIDE DEF S
<1>6. parts \in Seq(Seq(S))
  BY <1>1, <1>5
<1> HIDE DEF parts
<1> QED
  BY <1>3, <1>4, <1>6, Flattened, ComingBy

LEMMA TablesCome ==
    ASSUME NEW source, NEW nodes, Coming(nodes, source)
    PROVE  Coming(run_static_tables_pass(nodes), source)
<1> DEFINE users == {i \in DOMAIN nodes : UsesTables(nodes[i])}
           tables == <<"sin_tab", "cos_tab", "arange_tab", "arange_fp16_tab">>
           plain(k) == SirNode(StaticTab(tables[k]), "Const", <<>>, {<<"table", tables[k]>>}, {}, nodes[Min(users)].prec)
           table(k) == [plain(k) EXCEPT !.name = tables[k]]
           front == [k \in 1..4 |-> table(k)]
<1>1. run_static_tables_pass(nodes) \in {nodes, front \o nodes}
  BY Zenon DEF run_static_tables_pass
<1>2. ASSUME NEW k \in 1..4 PROVE Comes(table(k), source)
  <2> DEFINE a == plain(k)
             m == table(k)
             name == tables[k]
  <2>1. m = [a EXCEPT !.name = name]
    OBVIOUS
  <2>2. a = [id |-> StaticTab(name), op |-> "Const", refs |-> <<>>, leaves |-> {<<"table", name>>}, attr |-> {},
             name |-> StaticTab(name)[1], prec |-> nodes[Min(users)].prec]
    BY Zenon DEF SirNode
  <2>3. name \notin Telling /\ name # "logits_name"
    BY DEF Telling, Reserved, Rows, KeyValue
  <2>4. StaticTab(name)[1] = "static" /\ StaticTab(name)[3] = name
    BY DEF StaticTab
  <2>5. IsFiniteSet({<<"table", name>>})
    BY FS_Singleton
  <2> HIDE DEF a, m, name, users
  <2>6. IsNode(a) /\ a.id = StaticTab(name) /\ a.op = "Const" /\ a.attr = {} /\ a.leaves = {<<"table", name>>}
    BY <2>2 DEF IsNode
  <2>7. /\ IsNode(m) /\ m.id = a.id /\ m.op = a.op /\ m.attr = a.attr /\ m.leaves = a.leaves
        /\ m.name = name
    BY <2>1, <2>6 DEF IsNode
  <2>8. IsTable(m)
    BY <2>3, <2>4, <2>5, <2>6, <2>7 DEF IsTable
  <2>9. Comes(m, source)
    BY <2>7, <2>8 DEF Comes
  <2> QED
    BY <2>9 DEF m
<1> HIDE DEF table
<1>3. PICK S : nodes \in Seq(S) /\ \A n \in S : Comes(n, source)
  BY DEF Coming
<1> DEFINE T == S \cup {table(k) : k \in 1..4}
<1>4. \A n \in T : Comes(n, source)
  BY <1>2, <1>3
<1>5. front \in Seq(T) /\ nodes \in Seq(T)
  BY <1>3
<1> HIDE DEF T, front
<1>6. front \o nodes \in Seq(T)
  BY <1>5
<1> QED
  BY <1>1, <1>4, <1>6, ComingBy

LEMMA PolicyComes ==
    ASSUME NEW source \in Sources, NEW nodes, Coming(nodes, source)
    PROVE  /\ Coming(precision_policy(nodes, source.k.hazards), source)
           /\ Meeting(precision_policy(nodes, source.k.hazards), Precisions(source))
<1> DEFINE hazards == source.k.hazards
           raised(n) == [n EXCEPT !.prec = "fp32"]
           made(i) == IF nodes[i].op \in hazards THEN raised(nodes[i]) ELSE nodes[i]
           S == {made(i) : i \in DOMAIN nodes}
<1>1. Len(nodes) \in Nat /\ DOMAIN nodes = 1..Len(nodes) /\ \A i \in DOMAIN nodes : Comes(nodes[i], source)
  BY ComingAt
<1>2. precision_policy(nodes, hazards) = [i \in DOMAIN nodes |-> made(i)]
  BY Zenon DEF precision_policy, op_pattern_for_node
<1>3. ASSUME NEW n, Comes(n, source)
      PROVE  /\ Comes(raised(n), source) /\ raised(n).prec = "fp32"
             /\ raised(n).id = n.id
  <2> DEFINE m == raised(n)
  <2>1. m = [n EXCEPT !.prec = "fp32"]
    OBVIOUS
  <2>2. IsNode(n)
    BY <1>3 DEF Comes
  <2> HIDE DEF m
  <2>3. /\ IsNode(m) /\ m.id = n.id /\ m.op = n.op /\ m.attr = n.attr /\ m.leaves = n.leaves
        /\ m.name = n.name /\ m.prec = "fp32"
    BY <2>1, <2>2 DEF IsNode
  <2>4. Comes(m, source)
    BY <1>3, <2>3, ComesLike
  <2> QED
    BY <2>3, <2>4 DEF m
<1> HIDE DEF raised
<1>4. \A n \in S : Comes(n, source)
  BY <1>1, <1>3
<1>5. ASSUME NEW n, Comes(n, source) PROVE n.id[3] \notin Rows
  BY <1>5, SourceNodes DEF Comes, IsTable, Telling, Reserved
<1>6. ASSUME NEW n, Comes(n, source), n.id[1] \in Marked(source) PROVE n.op \in hazards
  <2>1. PICK z \in Range(source.nodes) : z.op \in hazards /\ n.id[1] = z.id[1]
    BY <1>6 DEF Marked
  <2>2. ~IsTable(n)
    BY <2>1, SourceNodes DEF IsTable
  <2>3. PICK s \in Range(source.nodes) : n.id = s.id /\ n.op = s.op
    BY <1>6, <2>2 DEF Comes
  <2>4. s = z
    BY <2>1, <2>3, SourceNodes
  <2> QED
    BY <2>1, <2>3, <2>4
<1>7. ASSUME NEW i \in DOMAIN nodes PROVE Meets(made(i), Precisions(source))
  <2> DEFINE n == nodes[i]
             m == made(i)
  <2>1. Comes(n, source)
    BY <1>1, <1>7
  <2>2. Comes(m, source) /\ m.id = n.id /\ (n.op \in hazards => m.prec = "fp32")
    BY <1>3, <2>1
  <2> HIDE DEF n, m
  <2>3. IsNode(m) /\ m.id[3] \notin Rows
    BY <1>5, <2>2 DEF Comes
  <2>4. m.id[1] \in Marked(source) => m.prec = "fp32"
    BY <1>6, <2>1, <2>2
  <2>5. Meets(m, Precisions(source))
    BY <2>3, <2>4 DEF Meets, Precisions
  <2> QED
    BY <2>5 DEF m
<1> HIDE DEF made
<1>8. \A n \in S : Meets(n, Precisions(source))
  BY <1>7
<1>9. [i \in DOMAIN nodes |-> made(i)] \in Seq(S)
  BY <1>1
<1> HIDE DEF S
<1> QED
  BY <1>2, <1>4, <1>8, <1>9, ComingBy, MeetingBy

LEMMA ComingUnreserved ==
    ASSUME NEW source \in Sources, NEW nodes, Coming(nodes, source)
    PROVE  \A i \in DOMAIN nodes : nodes[i].id[3] \notin Reserved
<1>1. ASSUME NEW n, Comes(n, source) PROVE n.id[3] \notin Reserved
  BY <1>1, SourceNodes DEF Comes, IsTable, Telling
<1> QED
  BY <1>1, ComingAt

\* No heads are multiplied yet.
LEMMA ComingPaired ==
    ASSUME NamedPlainly, NEW source \in Sources, NEW nodes, Coming(nodes, source)
    PROVE  Meeting(nodes, Heads(source))
<1>1. ASSUME NEW n, Comes(n, source) PROVE Meets(n, Heads(source))
  <2>1. IsNode(n) /\ n.id[3] \notin Reserved /\ n.id[3] \notin KeyValue
    BY <1>1, SourceNodes DEF Comes, IsTable, Telling
  <2>2. n.op # "MatMul" => n.name # "logits_name"
    BY <1>1 DEF Comes, IsTable, NamedPlainly
  <2> QED
    BY <2>1, <2>2 DEF Meets, Paired, Heads, Reserved
<1> QED
  BY <1>1, MeetingBy DEF Coming

-----------------------------------------------------------------------------
(* The shard plan of a graph that comes from a source. *)
LEMMA RolesAre ==
    \A n : /\ RoleOf(n) \in {"io_model", "sampler", "decoder_interior"}
           /\ n.op \in {"StateRead", "StateWrite"} => RoleOf(n) = "decoder_interior"
BY DEF RoleOf

LEMMA CachesAreFinite ==
    ASSUME NEW source \in Sources, NEW nodes, Coming(nodes, source)
    PROVE  /\ IsFiniteSet(kv_cache_state_ids(nodes))
           /\ \A i \in DOMAIN nodes : "kv_cache" \in nodes[i].attr => RoleOf(nodes[i]) = "decoder_interior"
<1>1. Len(nodes) \in Nat /\ DOMAIN nodes = 1..Len(nodes) /\ \A i \in DOMAIN nodes : Comes(nodes[i], source)
  BY ComingAt
<1>2. ASSUME NEW n, Comes(n, source)
      PROVE  IsFiniteSet(n.leaves) /\ ("kv_cache" \in n.attr => n.op \in {"StateRead", "StateWrite"})
  BY <1>2, SourceNodes DEF Comes, IsTable
<1> DEFINE users == {j \in DOMAIN nodes : nodes[j].op \in {"StateRead", "StateWrite"} /\ "kv_cache" \in nodes[j].attr}
           sets == {nodes[i].leaves : i \in users}
<1>3. IsFiniteSet(users)
  <2>1. IsFiniteSet(1..Len(nodes)) /\ users \subseteq 1..Len(nodes)
    BY <1>1, FS_Interval
  <2> QED
    BY <2>1, FS_Subset
<1>4. IsFiniteSet(sets)
  <2> DEFINE leaves == [i \in users |-> nodes[i].leaves]
  <2>1. leaves \in Surjection(users, sets)
    BY DEF Surjection
  <2> HIDE DEF users, sets, leaves
  <2> QED
    BY <1>3, <2>1, FS_Surjection
<1>5. \A leaves \in sets : IsFiniteSet(leaves)
  BY <1>1, <1>2
<1>6. kv_cache_state_ids(nodes) = UNION sets
  BY Zenon DEF kv_cache_state_ids
<1> HIDE DEF sets
<1>7. IsFiniteSet(kv_cache_state_ids(nodes))
  BY <1>4, <1>5, <1>6, FS_UNION
<1>8. \A i \in DOMAIN nodes : "kv_cache" \in nodes[i].attr => RoleOf(nodes[i]) = "decoder_interior"
  BY <1>1, <1>2, RolesAre
<1> QED
  BY <1>7, <1>8

\* A handoff passes a shard's tensor on, or the decoder its own cache.
LEMMA HandoffsAre ==
    ASSUME NEW S, NEW names \in Seq(S), names # <<>>, NEW states, IsFiniteSet(states)
    PROVE  \A h \in DOMAIN shard_handoffs(names, states) :
               LET handoff == shard_handoffs(names, states)[h]
               IN  handoff[3] = {} \/ handoff[1] = "decoder_interior"
<1> DEFINE m == Len(names) - 1
           n == Cardinality(states)
           on(k) == <<names[k], names[k + 1], {}>>
           back(k) == <<"decoder_interior", "decoder_interior", {SetToSeq(states)[k]}>>
           forth == [k \in 1..m |-> on(k)]
           caches == [k \in 1..n |-> back(k)]
           T == {on(k) : k \in 1..m} \cup {back(k) : k \in 1..n}
<1>1. m \in Nat /\ n \in Nat
  BY FS_CardinalityType
<1>2. shard_handoffs(names, states) = forth \o caches
  BY Zenon DEF shard_handoffs
<1>3. ASSUME NEW t \in T PROVE t[3] = {} \/ t[1] = "decoder_interior"
  OBVIOUS
<1> HIDE DEF on, back, m, n
<1>4. forth \in Seq(T) /\ caches \in Seq(T)
  <2>1. \A k \in 1..m : on(k) \in T
    OBVIOUS
  <2>2. \A k \in 1..n : back(k) \in T
    OBVIOUS
  <2> HIDE DEF T
  <2> QED
    BY <1>1, <2>1, <2>2
<1> HIDE DEF T, forth, caches
<1>5. forth \o caches \in Seq(T)
  BY <1>4
<1>6. \A h \in DOMAIN (forth \o caches) : (forth \o caches)[h] \in T
  BY <1>5
<1> QED
  BY <1>2, <1>3, <1>6

LEMMA PlanFits ==
    ASSUME NEW source \in Sources, NEW nodes, Coming(nodes, source), NEW risky
    PROVE  LET p == shard_plan(nodes, risky)
           IN  /\ \A i \in DOMAIN nodes : p.shard_names[p.layer_assignment[i] + 1] = RoleOf(nodes[i])
               /\ Len(p.compute_units) = Len(p.shard_names)
               /\ \A r \in risky : \A s \in DOMAIN p.shard_names :
                      (p.shard_names[s] = r) => p.compute_units[s] = "CPU_AND_GPU"
               /\ p.num_shards >= Len(p.shard_names)
               /\ \A i \in DOMAIN nodes, h \in DOMAIN p.handoffs :
                      (p.handoffs[h][3] \cap nodes[i].leaves # {} /\ "kv_cache" \in nodes[i].attr)
                      => p.shard_names[p.layer_assignment[i] + 1] = p.handoffs[h][1]
<1> DEFINE io == HasRole(nodes, "io_model")
           sampler == HasRole(nodes, "sampler")
           names == (IF io THEN <<"io_model">> ELSE <<>>) \o <<"decoder_interior">>
                    \o (IF sampler THEN <<"sampler">> ELSE <<>>)
           num == IF io \/ sampler THEN decoder_shard_start(nodes) + 2 ELSE 1
           units == [k \in DOMAIN names |-> determine_compute_units(names[k], risky)]
           states == kv_cache_state_ids(nodes)
           handoffs == shard_handoffs(names, states)
           p == shard_plan(nodes, risky)
<1>1. /\ p.num_shards = num /\ p.shard_names = names /\ p.compute_units = units
      /\ p.layer_assignment = layer_assignment(nodes) /\ p.handoffs = handoffs
  BY DEF shard_plan
<1> HIDE DEF p
<1> DEFINE start == decoder_shard_start(nodes)
<1>2. start = IF io THEN 1 ELSE 0
  BY DEF decoder_shard_start
<1> HIDE DEF start, io, sampler
<1> DEFINE Roles == {"io_model", "decoder_interior", "sampler"}
           end == IF sampler THEN 1 ELSE 0
<1>3. /\ names \in Seq(Roles) /\ Len(names) = start + 1 + end
      /\ (io => names[1] = "io_model") /\ names[start + 1] = "decoder_interior"
      /\ (sampler => names[start + 2] = "sampler")
  <2> DEFINE first == IF io THEN <<"io_model">> ELSE <<>>
             last == IF sampler THEN <<"sampler">> ELSE <<>>
             middle == <<"decoder_interior">>
             front == first \o middle
  <2>1. first \in Seq(Roles) /\ Len(first) = start /\ (io => first[1] = "io_model")
    <3>1. CASE io
      <4>1. first = <<"io_model">> /\ start = 1
        BY <1>2, <3>1
      <4> HIDE DEF first
      <4> QED
        BY <4>1
    <3>2. CASE ~io
      <4>1. first = <<>> /\ start = 0
        BY <1>2, <3>2
      <4> HIDE DEF first
      <4> QED
        BY <3>2, <4>1
    <3> QED
      BY <3>1, <3>2
  <2>2. last \in Seq(Roles) /\ Len(last) = end /\ (sampler => last[1] = "sampler")
    <3>1. CASE sampler
      <4>1. last = <<"sampler">> /\ end = 1
        BY <3>1
      <4> HIDE DEF last, end
      <4> QED
        BY <4>1
    <3>2. CASE ~sampler
      <4>1. last = <<>> /\ end = 0
        BY <3>2
      <4> HIDE DEF last, end
      <4> QED
        BY <3>2, <4>1
    <3> QED
      BY <3>1, <3>2
  <2>3. middle \in Seq(Roles) /\ Len(middle) = 1 /\ middle[1] = "decoder_interior"
    OBVIOUS
  <2>4. start \in {0, 1} /\ (io => start = 1) /\ end \in {0, 1} /\ (sampler => end = 1)
    BY <1>2
  <2>5. names = front \o last
    OBVIOUS
  <2> HIDE DEF Roles, first, last, middle, front, end, names
  <2>6. /\ front \in Seq(Roles) /\ Len(front) = start + 1
        /\ \A k \in 1..(start + 1) : front[k] = IF k <= start THEN first[k] ELSE middle[k - start]
    <3>1. /\ front \in Seq(Roles) /\ Len(front) = Len(first) + Len(middle)
          /\ \A k \in 1..Len(first) + Len(middle) :
                 front[k] = IF k <= Len(first) THEN first[k] ELSE middle[k - Len(first)]
      BY <2>1, <2>3, ConcatProperties DEF front
    <3> QED
      BY <2>1, <2>3, <2>4, <3>1
  <2>7. front[start + 1] = "decoder_interior" /\ (io => front[1] = "io_model")
    BY <2>1, <2>3, <2>4, <2>6
  <2>8. /\ names \in Seq(Roles) /\ Len(names) = start + 1 + end
        /\ \A k \in 1..(start + 1 + end) : names[k] = IF k <= start + 1 THEN front[k] ELSE last[k - (start + 1)]
    BY <2>2, <2>4, <2>5, <2>6
  <2>9. names[start + 1] = "decoder_interior" /\ (io => names[1] = "io_model")
    BY <2>4, <2>7, <2>8
  <2>10. sampler => names[start + 2] = "sampler"
    <3>1. ASSUME sampler PROVE names[start + 2] = last[1]
      <4>1. start + 2 \in 1..(start + 1 + end) /\ ~(start + 2 <= start + 1) /\ (start + 2) - (start + 1) = 1
        BY <2>4, <3>1
      <4> QED
        BY <2>8, <4>1
    <3> QED
      BY <2>2, <3>1
  <2> QED
    BY <2>8, <2>9, <2>10
<1>4. ASSUME NEW i \in DOMAIN nodes PROVE names[layer_assignment(nodes)[i] + 1] = RoleOf(nodes[i])
  <2> DEFINE role == RoleOf(nodes[i])
             shard == layer_assignment(nodes)[i]
  <2>1. role \in {"io_model", "sampler", "decoder_interior"}
    BY RolesAre
  <2>2. (role = "io_model" => io) /\ (role = "sampler" => sampler)
    BY DEF HasRole, io, sampler
  <2>3. /\ role = "io_model" => shard = 0
        /\ role = "sampler" => shard = start + 1
        /\ role = "decoder_interior" => shard = start
    <3>1. "sampler" # "io_model" /\ "decoder_interior" # "io_model" /\ "decoder_interior" # "sampler"
      OBVIOUS
    <3> QED
      BY <3>1, Zenon DEF layer_assignment, start
  <2> HIDE DEF role, names, shard
  <2>4. ASSUME role = "io_model" PROVE names[shard + 1] = role
    <3>1. shard + 1 = 1
      BY <2>3, <2>4
    <3> QED
      BY <1>3, <2>2, <2>4, <3>1
  <2>5. ASSUME role = "sampler" PROVE names[shard + 1] = role
    <3>1. shard + 1 = start + 2
      BY <1>2, <2>3, <2>5
    <3> QED
      BY <1>3, <2>2, <2>5, <3>1
  <2>6. ASSUME role = "decoder_interior" PROVE names[shard + 1] = role
    BY <1>3, <2>3, <2>6
  <2>7. names[shard + 1] = role
    BY <2>1, <2>4, <2>5, <2>6
  <2> QED
    BY <2>7 DEF role, shard
<1> HIDE DEF names
<1>5. names # <<>>
  BY <1>2, <1>3
<1>6. Len(units) = Len(names)
  BY <1>3
<1>7. ASSUME NEW r \in risky, NEW s \in DOMAIN names, names[s] = r PROVE units[s] = "CPU_AND_GPU"
  BY <1>7 DEF determine_compute_units
<1>8. num >= Len(names)
  BY <1>2, <1>3 DEF start
<1>9. /\ IsFiniteSet(states)
      /\ \A i \in DOMAIN nodes : "kv_cache" \in nodes[i].attr => RoleOf(nodes[i]) = "decoder_interior"
  BY CachesAreFinite
<1>10. \A h \in DOMAIN handoffs : handoffs[h][3] = {} \/ handoffs[h][1] = "decoder_interior"
  <2> HIDE DEF states
  <2> QED
    BY <1>3, <1>5, <1>9, HandoffsAre
<1> HIDE DEF units, num, handoffs
<1> QED
  BY <1>1, <1>4, <1>6, <1>7, <1>8, <1>9, <1>10 DEF p


-----------------------------------------------------------------------------
(* What is decided of the source's operations holds of every graph made after
   the policy has run, and the plan is that of the SIR graph.                 *)
Decided == {"precision", "legal", "annotated", "rejected", "planned", "lowered"}

DecisionsInv ==
    /\ src \in Sources /\ Coming(sir, src)
    /\ src.route = "full" /\ stage \in Decided => Meeting(sir, Precisions(src))
    /\ src.route = "full" /\ stage \in Decided \ {"precision"} => Meeting(air, Precisions(src))
    /\ src.route = "full" /\ stage = "lowered" => Meeting(mir, Precisions(src))
    /\ plan # <<>> => plan = <<shard_plan(sir, src.k.risky)>> /\ stage \in {"planned", "lowered", "failed"}

LEMMA SourceComes == ASSUME NEW source \in Sources PROVE Coming(source.nodes, source)
<1>1. \A n \in Range(source.nodes) : Comes(n, source)
  BY SourceNodes DEF Comes
<1> QED
  BY <1>1, SourceNodes, ComingBy

LEMMA DecisionsInductive == DecisionsInv /\ [Next]_vars => DecisionsInv'
<1> SUFFICES ASSUME DecisionsInv, [Next]_vars PROVE DecisionsInv'
  OBVIOUS
<1> USE DEF Decided
<1>1. CASE UNCHANGED vars
  BY <1>1 DEF DecisionsInv, vars
<1>2. ASSUME Fail, plan # <<>> => stage \in {"planned"} PROVE DecisionsInv'
  BY <1>2 DEF Fail, DecisionsInv
<1>3. CASE Canonicalize
  <2>1. CASE Fail
    BY <1>2, <1>3, <2>1 DEF Canonicalize, DecisionsInv
  <2>2. CASE ~Fail
    <3> DEFINE end == resolve_subst_chain(Substitution(sir, src.inputs), MaxChain)
    <3>1. /\ sir' = eliminate_identities(sir, end) /\ stage = "built" /\ stage' = "canonical"
          /\ UNCHANGED <<src, air, plan, mir>>
      BY <1>3, <2>2 DEF Canonicalize
    <3>2. Coming(eliminate_identities(sir, end), src)
      BY CanonicalComes DEF DecisionsInv
    <3> HIDE DEF end
    <3> QED
      BY <3>1, <3>2 DEF DecisionsInv
  <2> QED
    BY <2>1, <2>2
<1>4. CASE StaticTables
  <2>1. /\ sir' = run_static_tables_pass(sir) /\ stage \in {"built", "canonical"} /\ stage' = "tables"
        /\ UNCHANGED <<src, air, plan, mir>>
    BY <1>4 DEF StaticTables
  <2>2. Coming(run_static_tables_pass(sir), src)
    BY TablesCome DEF DecisionsInv
  <2> QED
    BY <2>1, <2>2 DEF DecisionsInv
<1>5. CASE PrecisionPolicy
  <2> DEFINE decided == precision_policy(sir, src.k.hazards)
  <2>1. sir' = decided /\ stage = "tables" /\ stage' = "precision" /\ UNCHANGED <<src, air, plan, mir>>
    BY <1>5 DEF PrecisionPolicy
  <2>2. Coming(decided, src) /\ Meeting(decided, Precisions(src))
    BY PolicyComes DEF DecisionsInv
  <2> HIDE DEF decided
  <2> QED
    BY <2>1, <2>2 DEF DecisionsInv
<1>6. CASE LegalityRewrite
  <2>1. plan = <<>>
    BY <1>6 DEF LegalityRewrite, DecisionsInv
  <2>2. CASE Fail
    BY <1>2, <2>1, <2>2
  <2>3. CASE ~Fail
    <3> DEFINE all == rewrite_all(sir, src.c).nodes
    <3>1. air' = dedup(all) /\ stage' = "legal" /\ UNCHANGED <<src, sir, plan, mir>>
          /\ (src.route = "full" => stage = "precision")
      BY <1>6, <2>3 DEF LegalityRewrite
    <3>2. src \in Sources /\ Coming(sir, src) /\ src.c \in DecompositionContext
      BY ContextsAssumption DEF DecisionsInv
    <3>3. "shared" \notin Precisions(src).fp32 /\ Precisions(src).c = src.c
      BY <3>2, SourceNodes DEF Marked, Precisions
    <3>4. \A i \in DOMAIN sir : sir[i].id[3] \notin Reserved
      BY <3>2, ComingUnreserved
    <3>5. ASSUME src.route = "full" PROVE Meeting(sir, Precisions(src)) /\ Meeting(dedup(all), Precisions(src))
      <4>1. Meeting(sir, Precisions(src))
        BY <3>1, <3>5 DEF DecisionsInv
      <4>2. Meeting(all, Precisions(src))
        BY <3>2, <3>3, <3>4, <4>1, rewrite_allMeets
      <4> QED
        BY <4>1, <4>2, dedupMeets
    <3> HIDE DEF all
    <3> QED
      BY <2>1, <3>1, <3>2, <3>5 DEF DecisionsInv
  <2> QED
    BY <2>2, <2>3
<1>7. CASE RiskAnnotate
  <2>1. /\ stage = "legal" /\ stage' \in {"rejected", "annotated"}
        /\ UNCHANGED <<src, sir, air, plan, mir>>
    BY <1>7 DEF RiskAnnotate
  <2> QED
    BY <2>1 DEF DecisionsInv
<1>8. CASE ShardPlan
  <2>1. /\ plan' = <<shard_plan(sir, src.k.risky)>> /\ stage = "annotated" /\ stage' = "planned"
        /\ UNCHANGED <<src, sir, air, mir>>
    BY <1>8 DEF ShardPlan
  <2> QED
    BY <2>1 DEF DecisionsInv
<1>9. CASE Lower
  <2>1. (src.route = "full" => stage = "planned") /\ (src.route # "full" => stage = "legal")
    BY <1>9 DEF Lower
  <2>2. CASE Fail
    BY <1>2, <2>1, <2>2 DEF DecisionsInv
  <2>3. CASE ~Fail
    <3> DEFINE made == MilLowerRun(air, src.c)
    <3>1. mir' = made /\ stage' = "lowered" /\ UNCHANGED <<src, sir, air, plan>>
      BY <1>9, <2>3 DEF Lower
    <3>2. src \in Sources /\ src.c \in DecompositionContext
      BY ContextsAssumption DEF DecisionsInv
    <3>3. ASSUME src.route = "full" PROVE Meeting(made, Precisions(src))
      <4>1. Meeting(air, Precisions(src)) /\ Precisions(src).c = src.c
        BY <2>1, <3>3 DEF DecisionsInv, Precisions
      <4> QED
        BY <3>2, <4>1, MilLowerMeets
    <3> HIDE DEF made
    <3> QED
      BY <2>1, <3>1, <3>3 DEF DecisionsInv
  <2> QED
    BY <2>2, <2>3
<1> QED
  BY <1>1, <1>3, <1>4, <1>5, <1>6, <1>7, <1>8, <1>9 DEF Next

(* The invariant says what the property says of the nodes.                    *)
(* The heads of the AIR and the MIR graph are paired, or the graph is not made. *)
HeadsInv == Meeting(air, Heads(src)) /\ Meeting(mir, Heads(src))

LEMMA HeadsInductive ==
    ASSUME NamedPlainly, DecisionsInv, HeadsInv, [Next]_vars
    PROVE  HeadsInv'
<1>1. CASE UNCHANGED <<src, air, mir>>
  BY <1>1 DEF HeadsInv
<1>2. src \in Sources /\ Coming(sir, src) /\ src.c \in DecompositionContext /\ Heads(src).c = src.c
  BY ContextsAssumption DEF DecisionsInv, Heads
<1>3. CASE LegalityRewrite /\ ~Fail
  <2> DEFINE all == rewrite_all(sir, src.c).nodes
  <2>1. air' = dedup(all) /\ UNCHANGED <<src, mir>>
    BY <1>3 DEF LegalityRewrite
  <2>2. Meeting(sir, Heads(src)) /\ \A i \in DOMAIN sir : sir[i].id[3] \notin Reserved
    BY <1>2, ComingPaired, ComingUnreserved
  <2>3. "shared" \notin Heads(src).fp32
    BY DEF Heads
  <2>4. Meeting(dedup(all), Heads(src))
    BY <1>2, <2>2, <2>3, rewrite_allMeets, dedupMeets
  <2> HIDE DEF all
  <2> QED
    BY <2>1, <2>4 DEF HeadsInv
<1>4. CASE Lower /\ ~Fail
  <2> DEFINE made == MilLowerRun(air, src.c)
  <2>1. mir' = made /\ UNCHANGED <<src, air>>
    BY <1>4 DEF Lower
  <2>2. Meeting(made, Heads(src))
    BY <1>2, MilLowerMeets DEF HeadsInv
  <2> HIDE DEF made
  <2> QED
    BY <2>1, <2>2 DEF HeadsInv
<1>5. \/ UNCHANGED <<src, air, mir>>
      \/ LegalityRewrite /\ ~Fail
      \/ Lower /\ ~Fail
  <2>1. Fail \/ UNCHANGED vars => UNCHANGED <<src, air, mir>>
    BY DEF Fail, vars
  <2>2. Canonicalize \/ StaticTables \/ PrecisionPolicy \/ RiskAnnotate \/ ShardPlan => UNCHANGED <<src, air, mir>>
    BY DEF Canonicalize, StaticTables, PrecisionPolicy, RiskAnnotate, ShardPlan, Fail
  <2> QED
    BY <2>1, <2>2 DEF Next
<1> QED
  BY <1>1, <1>3, <1>4, <1>5

(* The invariant says what the property says of the heads, of whichever graph. *)
LEMMA HeadsInvSuffices == ASSUME NamedPlainly, DecisionsInv, HeadsInv PROVE HeadsPaired
<1>1. Meeting(Nodes, Heads(src)) /\ Meeting(mir, Heads(src))
  <2>1. Meeting(sir, Heads(src))
    BY ComingPaired DEF DecisionsInv
  <2> QED
    BY <2>1 DEF Nodes, HeadsInv
<1>2. /\ \A i \in DOMAIN Nodes : Paired(Nodes[i], src.c)
      /\ \A i \in DOMAIN mir : Paired(mir[i], src.c)
  BY <1>1, MeetingAt DEF Meets, Heads
<1>3. SharedHeads
  <2> SUFFICES ASSUME src.c.kv > 0, src.c.heads % src.c.kv = 0,
                      NEW i \in DOMAIN Nodes, Nodes[i].id[3] = "ctx",
                      NEW j \in DOMAIN Nodes, Nodes[j].id[3] = "logits",
                      Nodes[i].id[4] = Nodes[j].id[4]
               PROVE  /\ Nodes[i].refs[2][4] = Nodes[j].refs[2][4]
                      /\ Nodes[j].refs[1][4] = Nodes[j].id[4]
                      /\ Nodes[i].refs[2][4] = Nodes[j].id[4] \div (src.c.heads \div src.c.kv)
    BY DEF SharedHeads, Suffixed
  <2> DEFINE ctx == Nodes[i]
             logits == Nodes[j]
  <2>1. Paired(ctx, src.c) /\ Paired(logits, src.c)
    BY <1>2
  <2> HIDE DEF ctx, logits
  <2>2. ctx.id[3] = "ctx" /\ logits.id[3] = "logits" /\ ctx.id[4] = logits.id[4]
    BY DEF ctx, logits
  <2>3. /\ ctx.refs[2][4] = ctx.id[4] \div (src.c.heads \div src.c.kv)
        /\ logits.refs[2][4] = logits.id[4] \div (src.c.heads \div src.c.kv)
        /\ logits.refs[1][4] = logits.id[4]
    BY <2>1, <2>2 DEF Paired, Serves
  <2> QED
    BY <2>2, <2>3 DEF ctx, logits
<1>4. KeysTransposedOnce
  BY <1>2 DEF KeysTransposedOnce, Suffixed, Paired
<1> QED
  BY <1>3, <1>4 DEF HeadsPaired

LEMMA DecisionsInvSuffices == DecisionsInv => DecisionsReachGraph
<1> SUFFICES ASSUME DecisionsInv PROVE DecisionsReachGraph
  OBVIOUS
<1>1. src \in Sources /\ Coming(sir, src)
  BY DEF DecisionsInv
<1>2. PrecisionReachesMir
  <2> SUFFICES ASSUME stage = "lowered", NEW i \in DOMAIN mir, NEW j \in DOMAIN sir,
                      mir[i].id[1] = sir[j].id[1], mir[i].id[3] \notin Rows, src.route = "full",
                      sir[j].op \in src.k.hazards, sir[j].op # "Const"
               PROVE  mir[i].prec = "fp32"
    BY DEF PrecisionReachesMir
  <2>1. Comes(sir[j], src)
    BY <1>1, ComingAt
  <2>2. PICK s \in Range(src.nodes) : sir[j].id = s.id /\ sir[j].op = s.op
    BY <2>1 DEF Comes, IsTable
  <2>3. mir[i].id[1] \in Marked(src)
    BY <2>2 DEF Marked
  <2>4. Meets(mir[i], Precisions(src))
    <3>1. Meeting(mir, Precisions(src))
      BY DEF DecisionsInv
    <3> QED
      BY <3>1, MeetingAt
  <2> QED
    BY <2>3, <2>4 DEF Meets, Precisions
<1>3. PlanMatchesGraph
  <2> SUFFICES ASSUME plan # <<>>
               PROVE  LET p == plan[1]
                      IN  /\ \A i \in DOMAIN sir : p.shard_names[p.layer_assignment[i] + 1] = RoleOf(sir[i])
                          /\ Len(p.compute_units) = Len(p.shard_names)
                          /\ \A r \in src.k.risky : \A s \in DOMAIN p.shard_names :
                                 (p.shard_names[s] = r) => p.compute_units[s] = "CPU_AND_GPU"
                          /\ p.num_shards >= Len(p.shard_names)
                          /\ \A i \in DOMAIN sir, h \in DOMAIN p.handoffs :
                                 (p.handoffs[h][3] \cap sir[i].leaves # {} /\ "kv_cache" \in sir[i].attr)
                                 => p.shard_names[p.layer_assignment[i] + 1] = p.handoffs[h][1]
    BY DEF PlanMatchesGraph
  <2>1. plan[1] = shard_plan(sir, src.k.risky)
    BY DEF DecisionsInv
  <2> QED
    BY <1>1, <2>1, PlanFits
<1> QED
  BY <1>2, <1>3 DEF DecisionsReachGraph

LEMMA DecisionsInitial == Init => DecisionsInv
<1> SUFFICES ASSUME Init PROVE DecisionsInv
  OBVIOUS
<1>1. src \in Sources /\ stage = "built" /\ sir = src.nodes /\ plan = <<>>
  BY DEF Init
<1>2. Coming(sir, src)
  BY <1>1, SourceComes
<1> QED
  BY <1>1, <1>2 DEF DecisionsInv, Decided

(* In every reachable state, the precision that the policy decides for an
   operation of the source is that of every MIR node computing it, and the
   plan assigns every node to a shard of its role, keeps a risky role off the
   neural engine and hands each cache to the shard that uses it.              *)
THEOREM DecisionsAlwaysReachGraph == Spec => []DecisionsReachGraph
BY DecisionsInitial, DecisionsInductive, DecisionsInvSuffices, PTL DEF Spec

(* In every reachable state, whatever the numbers of heads the compile command
   is given, a query head is multiplied with the keys and the values of the one
   key/value head it shares, in the attention blocks and decode steps that the
   legality rewrite takes apart (legality_rewrite.rs) and in the fused
   attentions that the lowering does (mil_lower.rs), and its keys are transposed
   once, whatever transposes are folded into products in between.             *)
THEOREM HeadsAlwaysPaired ==
    ASSUME NamedPlainly
    PROVE  Spec => []HeadsPaired
<1>1. Init => DecisionsInv /\ HeadsInv
  <2> SUFFICES ASSUME Init PROVE DecisionsInv /\ HeadsInv
    OBVIOUS
  <2>1. air = <<>> /\ mir = <<>>
    BY DEF Init
  <2> QED
    BY <2>1, DecisionsInitial, MeetingNone DEF HeadsInv
<1>2. DecisionsInv /\ HeadsInv /\ [Next]_vars => DecisionsInv' /\ HeadsInv'
  BY DecisionsInductive, HeadsInductive
<1>3. DecisionsInv /\ HeadsInv => HeadsPaired
  BY HeadsInvSuffices
<1> QED
  BY <1>1, <1>2, <1>3, PTL DEF Spec
=============================================================================
