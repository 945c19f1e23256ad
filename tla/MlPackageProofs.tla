-------------------------- MODULE MlPackageProofs --------------------------
(***************************************************************************)
(* The builder of weight.bin, for every set of names, kinds and contents,  *)
(* every size and any number of weights; then the package it is part of:   *)
(* the files at the output path never mix two emissions, no process        *)
(* reports as many packages as the compilation limit, and emission         *)
(* implements Package, whatever models are emitted and wherever an         *)
(* emission is cut short.                                                  *)
(***************************************************************************)
EXTENDS MlPackage, TLAPS, WellFoundedInduction

(* A name is absent from the index until a weight has been accepted under  *)
(* it, and a content leads to an entry that holds it.  NamesResolve is not *)
(* inductive without either.                                               *)
IndexesLead ==
  /\ \A n \in Names : first[n] = NoWeight <=> name_to_index[n] = 0
  /\ \A c \in Contents : content_hash_to_index[c] # 0
                           => entries[content_hash_to_index[c]].content = c

(* Between two turns of the loop of build() the buffer ends where the next *)
(* blob is expected, on the alignment.                                     *)
BufferInStep ==
  /\ phase = "adding" => offsets = <<>> /\ blobs = <<>>
  /\ phase # "adding" => /\ buf_len = current_pos
                         /\ current_pos % BLOB_ALIGNMENT = 0
                         /\ current_pos >= STORAGE_HEADER_SIZE

IInvBuilder ==
  /\ TypeOKBuilder
  /\ IndexesLead
  /\ NamesResolve
  /\ BufferInStep
  /\ OffsetsFindBlobs
  /\ BlobsDisjoint

-----------------------------------------------------------------------------
(* Rounding up reaches the next multiple of the alignment and leaves a     *)
(* multiple alone.                                                         *)
LEMMA AlignUp ==
  ASSUME NEW value \in Nat
  PROVE  /\ align_up(value, BLOB_ALIGNMENT) \in Nat
         /\ align_up(value, BLOB_ALIGNMENT) % BLOB_ALIGNMENT = 0
         /\ align_up(value, BLOB_ALIGNMENT) >= value
         /\ value % BLOB_ALIGNMENT = 0 => align_up(value, BLOB_ALIGNMENT) = value
BY DEF align_up, BLOB_ALIGNMENT

LEMMA Padding ==
  ASSUME NEW from \in Nat, NEW to \in Nat, to >= from
  PROVE  padding(from, to) = to - from
BY DEF padding

(* An accepted weight keeps the history well typed and only fills a gap.   *)
LEMMA Accepted ==
  ASSUME TypeOKBuilder, NEW w \in Weights, Accept(w)
  PROVE  /\ first' \in [Names -> Weights \union {NoWeight}]
         /\ bytes_given' \in Nat
         /\ \A n \in Names : n # w.name => first'[n] = first[n]
         /\ first'[w.name] = IF first[w.name] = NoWeight THEN w ELSE first[w.name]
BY WeightBinConstants, NoWeightIsNone DEF Accept, TypeOKBuilder, Weights

LEMMA Counted ==
  ASSUME NEW saved \in Saved, NEW w \in Weights
  PROVE  one_more(saved, w) \in Saved
BY WeightBinConstants DEF one_more, Saved, Weights

(* What stays of the layout in a step that writes nothing.                 *)
LEMMA SameLayout ==
  ASSUME IInvBuilder, UNCHANGED building, Len(entries) \in Nat, Len(entries') \in Nat,
         Len(entries) <= Len(entries'),
         \A i \in 1..Len(entries) : entries'[i] = entries[i],
         phase' = phase
  PROVE  BufferInStep' /\ OffsetsFindBlobs' /\ BlobsDisjoint'
<1> USE DEF building
<1>1. BufferInStep'
  BY DEF IInvBuilder, BufferInStep
<1>2. OffsetsFindBlobs'
  BY DEF IInvBuilder, OffsetsFindBlobs, TypeOKBuilder
<1>3. BlobsDisjoint'
  BY DEF IInvBuilder, BlobsDisjoint, BlobEnd
<1> QED
  BY <1>1, <1>2, <1>3

LEMMA AddKnownPreserves ==
  ASSUME IInvBuilder, NEW w \in Weights, AddKnown(w)
  PROVE  IInvBuilder'
<1> USE DEF AddKnown
<1>0. TypeOKBuilder
  BY DEF IInvBuilder
<1>1. TypeOKBuilder'
  BY <1>0, Accepted, Counted DEF TypeOKBuilder, building
<1>2. first' = first
  BY <1>0 DEF IInvBuilder, IndexesLead, known_name, Weights, Accept
<1>3. IndexesLead' /\ NamesResolve'
  BY <1>2 DEF IInvBuilder, IndexesLead, NamesResolve
<1>4. BufferInStep' /\ OffsetsFindBlobs' /\ BlobsDisjoint'
  BY <1>0, SameLayout DEF TypeOKBuilder
<1> QED
  BY <1>1, <1>3, <1>4 DEF IInvBuilder

LEMMA AddAliasPreserves ==
  ASSUME IInvBuilder, NEW w \in Weights, AddAlias(w)
  PROVE  IInvBuilder'
<1> USE DEF AddAlias
<1>0. TypeOKBuilder
  BY DEF IInvBuilder
<1> PICK idx : idx = content_hash_to_index[w.content]
  OBVIOUS
<1>1. /\ idx \in 1..Len(entries)
      /\ entries[idx].kind = w.kind /\ entries[idx].content = w.content
  BY <1>0 DEF shareable, same_kind, IInvBuilder, IndexesLead, TypeOKBuilder, Weights
<1>2. /\ name_to_index'[w.name] = idx
      /\ \A n \in Names : n # w.name => name_to_index'[n] = name_to_index[n]
      /\ name_to_index' \in [Names -> 0..Len(entries)]
  BY <1>0, <1>1 DEF TypeOKBuilder, Weights
<1>3. first'[w.name] = w /\ \A n \in Names : n # w.name => first'[n] = first[n]
  BY <1>0, Accepted DEF known_name, IInvBuilder, IndexesLead, Weights
<1>4. TypeOKBuilder'
  BY <1>0, <1>2, Accepted, Counted DEF TypeOKBuilder, building
<1>5. IndexesLead'
  BY <1>0, <1>1, <1>2, <1>3, NoWeightIsNone DEF IInvBuilder, IndexesLead, Weights
<1>6. NamesResolve'
  BY <1>1, <1>2, <1>3 DEF IInvBuilder, NamesResolve
<1>7. BufferInStep' /\ OffsetsFindBlobs' /\ BlobsDisjoint'
  BY <1>0, SameLayout DEF TypeOKBuilder
<1> QED
  BY <1>4, <1>5, <1>6, <1>7 DEF IInvBuilder

LEMMA AddEntryPreserves ==
  ASSUME IInvBuilder, NEW w \in Weights, AddEntry(w)
  PROVE  IInvBuilder'
<1> USE DEF AddEntry
<1>0. TypeOKBuilder
  BY DEF IInvBuilder
<1> PICK last \in Nat : last = Len(entries)
  BY <1>0 DEF TypeOKBuilder
<1>1. /\ entries' \in Seq(Weights) /\ Len(entries') = last + 1
      /\ entries'[last + 1] = w
      /\ \A i \in 1..last : entries'[i] = entries[i]
  BY <1>0 DEF TypeOKBuilder
<1>2. /\ name_to_index'[w.name] = last + 1
      /\ \A n \in Names : n # w.name => name_to_index'[n] = name_to_index[n]
      /\ name_to_index' \in [Names -> 0..(last + 1)]
  BY <1>0 DEF TypeOKBuilder, Weights, entry_index
<1>3. /\ \A c \in Contents : content_hash_to_index'[c] # content_hash_to_index[c]
           => c = w.content /\ content_hash_to_index'[c] = last + 1
      /\ content_hash_to_index' \in [Contents -> 0..(last + 1)]
  BY <1>0 DEF TypeOKBuilder, Weights, entry_index
<1>4. first'[w.name] = w /\ \A n \in Names : n # w.name => first'[n] = first[n]
  BY <1>0, Accepted DEF known_name, IInvBuilder, IndexesLead, Weights
<1>5. TypeOKBuilder'
  BY <1>0, <1>1, <1>2, <1>3, Accepted DEF TypeOKBuilder, building, dedup
<1>6. IndexesLead'
  <2>1. ASSUME NEW n \in Names PROVE (first[n] = NoWeight <=> name_to_index[n] = 0)'
    BY <1>0, <1>2, <1>4, NoWeightIsNone DEF IInvBuilder, IndexesLead, Weights
  <2>2. ASSUME NEW c \in Contents, content_hash_to_index'[c] # 0
        PROVE  entries'[content_hash_to_index'[c]].content = c
    <3>1. CASE content_hash_to_index'[c] = content_hash_to_index[c]
      BY <1>0, <1>1, <2>2, <3>1 DEF IInvBuilder, IndexesLead, TypeOKBuilder
    <3>2. CASE content_hash_to_index'[c] # content_hash_to_index[c]
      BY <1>1, <1>3, <3>2
    <3> QED
      BY <3>1, <3>2
  <2> QED
    BY <2>1, <2>2 DEF IndexesLead
<1>7. NamesResolve'
  <2> SUFFICES ASSUME NEW n \in Names, first'[n] # NoWeight
               PROVE  /\ name_to_index'[n] \in 1..(last + 1)
                      /\ entries'[name_to_index'[n]].kind = first'[n].kind
                      /\ entries'[name_to_index'[n]].content = first'[n].content
    BY <1>1 DEF NamesResolve
  <2>1. CASE n = w.name
    BY <1>1, <1>2, <1>4, <2>1
  <2>2. CASE n # w.name
    BY <1>1, <1>2, <1>4, <2>2 DEF IInvBuilder, NamesResolve
  <2> QED
    BY <2>1, <2>2
<1>8. BufferInStep' /\ OffsetsFindBlobs' /\ BlobsDisjoint'
  BY <1>0, <1>1, SameLayout DEF TypeOKBuilder
<1> QED
  BY <1>5, <1>6, <1>7, <1>8 DEF IInvBuilder

-----------------------------------------------------------------------------
LEMMA WriteBlobPreserves ==
  ASSUME IInvBuilder, WriteBlob
  PROVE  IInvBuilder'
<1>0. TypeOKBuilder /\ phase = "building" /\ MoreEntries
  BY DEF IInvBuilder, WriteBlob
<1> PICK k \in Nat : k = Len(offsets)
  BY <1>0 DEF TypeOKBuilder
<1> PICK w \in Weights : w = entries[k + 1] /\ w = next_entry
  BY <1>0 DEF TypeOKBuilder, MoreEntries, next_entry
<1> PICK size \in Nat : size = Size[w.content]
  BY WeightBinConstants DEF Weights
<1> PICK pos \in Nat : pos = current_pos
  BY <1>0 DEF TypeOKBuilder
<1>1. buf_len = pos /\ pos % 64 = 0 /\ pos >= 64
  BY <1>0 DEF IInvBuilder, BufferInStep, BLOB_ALIGNMENT, STORAGE_HEADER_SIZE
<1>2. metadata_offset = pos /\ data_offset = pos + 64 /\ data_end = pos + 64 + size
  <2>1. align_up(pos, BLOB_ALIGNMENT) = pos
    BY <1>1, AlignUp DEF BLOB_ALIGNMENT
  <2> QED
    BY <2>1 DEF metadata_offset, data_offset, data_end, BLOB_METADATA_SIZE
<1> PICK data \in Nat : data = pos + 64 + size
  OBVIOUS
<1> PICK end \in Nat : end = align_up(data, BLOB_ALIGNMENT)
  BY AlignUp
<1>3. padded_end = end /\ end % 64 = 0 /\ end >= data
  <2>2. end % BLOB_ALIGNMENT = 0 /\ end >= data
    BY AlignUp
  <2>3. padded_end = end
    BY <1>2 DEF padded_end
  <2> QED
    BY <2>2, <2>3 DEF BLOB_ALIGNMENT
<1>4. metadata_at = pos
  <2>1. padding(pos, pos) = 0
    BY Padding
  <2> QED
    BY <1>1, <1>2, <2>1 DEF metadata_at
<1>5. buf_len' = end /\ current_pos' = end
  <2>1. padding(data, end) = end - data
    BY <1>3, Padding
  <2>2. current_pos' = end /\ buf_len' = pos + 64 + size + padding(data, end)
    BY <1>2, <1>3, <1>4 DEF WriteBlob, BLOB_METADATA_SIZE
  <2> QED
    BY <2>1, <2>2
<1> DEFINE blob == [at |-> pos, points_to |-> pos + 64, kind |-> w.kind, content |-> w.content]
<1>6. /\ blob \in Blobs
      /\ blob.at = pos /\ blob.points_to = pos + 64
      /\ blob.kind = w.kind /\ blob.content = w.content
  BY DEF Blobs, Weights
<1>7. /\ offsets' = Append(offsets, pos)
      /\ blobs' = Append(blobs, blob)
      /\ UNCHANGED <<phase, adding, enable_content_dedup>>
  BY <1>2, <1>4 DEF WriteBlob
<1>8. Len(blobs) = k /\ k < Len(entries)
  BY <1>0 DEF IInvBuilder, OffsetsFindBlobs, MoreEntries
<1>9. /\ offsets' \in Seq(Nat) /\ Len(offsets') = k + 1 /\ offsets'[k + 1] = pos
      /\ \A i \in 1..k : offsets'[i] = offsets[i]
  BY <1>0, <1>7 DEF TypeOKBuilder
<1>10. /\ blobs' \in Seq(Blobs) /\ Len(blobs') = k + 1 /\ blobs'[k + 1] = blob
       /\ \A i \in 1..k : blobs'[i] = blobs[i]
  BY <1>0, <1>6, <1>7, <1>8 DEF TypeOKBuilder
<1>11. TypeOKBuilder'
  BY <1>0, <1>5, <1>7, <1>9, <1>10 DEF TypeOKBuilder, adding, dedup
<1>12. IndexesLead' /\ NamesResolve'
  BY <1>7 DEF IInvBuilder, IndexesLead, NamesResolve, adding
<1>13. BufferInStep'
  BY <1>0, <1>1, <1>3, <1>5, <1>7 DEF BufferInStep, BLOB_ALIGNMENT, STORAGE_HEADER_SIZE
<1>14. OffsetsFindBlobs'
  <2> SUFFICES ASSUME NEW i \in 1..(k + 1)
               PROVE  /\ blobs'[i].at = offsets'[i]
                      /\ blobs'[i].points_to = blobs'[i].at + BLOB_METADATA_SIZE
                      /\ blobs'[i].kind = entries[i].kind
                      /\ blobs'[i].content = entries[i].content
    BY <1>0, <1>7, <1>8, <1>9, <1>10 DEF OffsetsFindBlobs, adding, TypeOKBuilder
  <2>1. CASE i = k + 1
    <3>1. blobs'[i] = blob /\ offsets'[i] = pos /\ entries[i] = w
      BY <1>9, <1>10, <2>1
    <3> HIDE DEF blob
    <3> QED
      BY <1>6, <3>1 DEF BLOB_METADATA_SIZE
  <2>2. CASE i # k + 1
    <3> HIDE DEF blob
    <3>0. i \in 1..k
      BY <2>2
    <3>1. i \in 1..k /\ blobs'[i] = blobs[i] /\ offsets'[i] = offsets[i]
      BY <1>9, <1>10, <3>0
    <3>2. /\ blobs[i].at = offsets[i]
          /\ blobs[i].points_to = blobs[i].at + BLOB_METADATA_SIZE
          /\ blobs[i].kind = entries[i].kind
          /\ blobs[i].content = entries[i].content
      BY <1>8, <3>1 DEF IInvBuilder, OffsetsFindBlobs
    <3> QED
      BY <3>1, <3>2
  <2> QED
    BY <2>1, <2>2
<1>15. BlobsDisjoint'
  <2> DEFINE End(b) == b.points_to + Size[b.content]
  <2>1. \A i \in 1..k : /\ blobs[i] \in Blobs /\ blobs[i].at % 64 = 0 /\ blobs[i].at >= 64
                        /\ End(blobs[i]) <= pos
                        /\ \A j \in 1..k : i < j => End(blobs[i]) <= blobs[j].at
    <3>1. /\ blobs \in Seq(Blobs) /\ Len(blobs) = k /\ buf_len = pos
          /\ BlobsDisjoint
      BY <1>0, <1>1, <1>8 DEF IInvBuilder, TypeOKBuilder
    <3> SUFFICES ASSUME NEW i \in 1..k
                 PROVE  /\ blobs[i] \in Blobs /\ blobs[i].at % 64 = 0 /\ blobs[i].at >= 64
                        /\ End(blobs[i]) <= pos
                        /\ \A j \in 1..k : i < j => End(blobs[i]) <= blobs[j].at
      OBVIOUS
    <3>2. blobs[i] \in Blobs
      BY <3>1
    <3>3. /\ blobs[i].at % 64 = 0 /\ blobs[i].at >= 64
          /\ BlobEnd(i) <= pos
          /\ \A j \in 1..k : i < j => BlobEnd(i) <= blobs[j].at
      BY <3>1 DEF BlobsDisjoint, BLOB_ALIGNMENT, STORAGE_HEADER_SIZE
    <3>4. BlobEnd(i) = End(blobs[i])
      BY DEF BlobEnd, End
    <3> HIDE DEF End
    <3> QED
      BY <3>2, <3>3, <3>4
  <2>2. \A b \in Blobs : End(b) \in Nat
    BY WeightBinConstants DEF Blobs
  <2>3. End(blob) <= end
    BY <1>3 DEF blob, End
  <2> HIDE DEF blob, End
  <2>4. blob.at = pos
    BY DEF blob
  <2> SUFFICES ASSUME NEW i \in 1..(k + 1)
               PROVE  /\ blobs'[i].at % 64 = 0 /\ blobs'[i].at >= 64
                      /\ End(blobs'[i]) <= end
                      /\ \A j \in 1..(k + 1) : i < j => End(blobs'[i]) <= blobs'[j].at
    BY <1>5, <1>10 DEF BlobsDisjoint, BlobEnd, End, BLOB_ALIGNMENT, STORAGE_HEADER_SIZE
  <2>5. CASE i = k + 1
    BY <1>1, <1>10, <2>3, <2>4, <2>5
  <2>6. CASE i # k + 1
    <3>1. i \in 1..k /\ blobs'[i] = blobs[i]
      BY <1>10, <2>6
    <3>2. End(blobs[i]) \in Nat /\ End(blobs[i]) <= pos /\ pos <= end
      <4>1. End(blobs[i]) \in Nat
        BY <2>1, <2>2, <3>1
      <4>2. End(blobs[i]) <= pos
        BY <2>1, <3>1
      <4>3. pos <= data /\ data <= end
        BY <1>3
      <4> QED
        BY <4>1, <4>2, <4>3
    <3>3. ASSUME NEW j \in 1..(k + 1), i < j PROVE End(blobs[i]) <= blobs'[j].at
      <4>1. CASE j = k + 1
        BY <1>10, <2>4, <3>2, <4>1
      <4>2. CASE j # k + 1
        <5>1. j \in 1..k /\ blobs'[j] = blobs[j]
          BY <1>10, <4>2
        <5> QED
          BY <2>1, <3>1, <3>3, <5>1
      <4> QED
        BY <4>1, <4>2
    <3> QED
      BY <2>1, <3>1, <3>2, <3>3
  <2> QED
    BY <2>5, <2>6
<1> QED
  BY <1>11, <1>12, <1>13, <1>14, <1>15 DEF IInvBuilder

LEMMA BuildStepPreserves ==
  ASSUME IInvBuilder, StartBuild \/ BuildFails \/ FinishBuild
  PROVE  IInvBuilder'
<1>1. CASE StartBuild
  <2>1. offsets = <<>> /\ blobs = <<>>
    BY <1>1 DEF StartBuild, IInvBuilder, BufferInStep
  <2>2. TypeOKBuilder' /\ IndexesLead' /\ NamesResolve'
    BY <1>1 DEF StartBuild, IInvBuilder, TypeOKBuilder, IndexesLead, NamesResolve, adding, dedup,
                STORAGE_HEADER_SIZE
  <2>3. BufferInStep' /\ OffsetsFindBlobs' /\ BlobsDisjoint'
    BY <1>1, <2>1 DEF StartBuild, BufferInStep, OffsetsFindBlobs, BlobsDisjoint, IInvBuilder,
                      TypeOKBuilder, adding, STORAGE_HEADER_SIZE, BLOB_ALIGNMENT
  <2> QED
    BY <2>2, <2>3 DEF IInvBuilder
<1>2. CASE BuildFails \/ FinishBuild
  <2>1. phase = "building" /\ phase' \in {"failed", "built"}
    BY <1>2 DEF BuildFails, Unencodable, MoreEntries, FinishBuild
  <2>2. UNCHANGED <<adding, enable_content_dedup, building>>
    BY <1>2 DEF BuildFails, FinishBuild
  <2>3. TypeOKBuilder'
    BY <2>1, <2>2 DEF IInvBuilder, TypeOKBuilder, adding, dedup, building
  <2>4. IndexesLead' /\ NamesResolve'
    BY <2>2 DEF IInvBuilder, IndexesLead, NamesResolve, adding, dedup
  <2>5. BufferInStep'
    BY <2>1, <2>2 DEF IInvBuilder, BufferInStep, building
  <2>6. OffsetsFindBlobs' /\ BlobsDisjoint'
    BY <2>2 DEF IInvBuilder, OffsetsFindBlobs, BlobsDisjoint, BlobEnd, adding, dedup, building
  <2> QED
    BY <2>3, <2>4, <2>5, <2>6 DEF IInvBuilder
<1> QED
  BY <1>1, <1>2

LEMMA InitBuilderIInv ==
  ASSUME NEW d \in BOOLEAN, EmptyBuilder(d)
  PROVE  IInvBuilder
<1>1. TypeOKBuilder
  BY DEF EmptyBuilder, TypeOKBuilder, Saved, NothingSaved
<1>2. IndexesLead /\ NamesResolve
  BY DEF EmptyBuilder, IndexesLead, NamesResolve
<1>3. BufferInStep /\ OffsetsFindBlobs /\ BlobsDisjoint
  BY DEF EmptyBuilder, BufferInStep, OffsetsFindBlobs, BlobsDisjoint
<1> QED
  BY <1>1, <1>2, <1>3 DEF IInvBuilder

LEMMA NewBuilderIInv ==
  ASSUME NEW d \in BOOLEAN, NewBuilder(d)
  PROVE  IInvBuilder'
<1>1. TypeOKBuilder'
  BY DEF NewBuilder, TypeOKBuilder, Saved, NothingSaved
<1>2. IndexesLead' /\ NamesResolve'
  BY DEF NewBuilder, IndexesLead, NamesResolve
<1>3. BufferInStep' /\ OffsetsFindBlobs' /\ BlobsDisjoint'
  BY DEF NewBuilder, BufferInStep, OffsetsFindBlobs, BlobsDisjoint
<1> QED
  BY <1>1, <1>2, <1>3 DEF IInvBuilder

LEMMA StutterBuilder ==
  ASSUME IInvBuilder, UNCHANGED builder
  PROVE  IInvBuilder'
BY DEF builder, adding, dedup, building, IInvBuilder, TypeOKBuilder, IndexesLead, NamesResolve,
       BufferInStep, OffsetsFindBlobs, BlobsDisjoint, BlobEnd

LEMMA NextBuilderPreserves ==
  ASSUME IInvBuilder, [NextBuilder]_builder
  PROVE  IInvBuilder'
<1>1. ASSUME NEW w \in Weights, AddKnown(w) \/ AddAlias(w) \/ AddEntry(w) PROVE IInvBuilder'
  BY <1>1, AddKnownPreserves, AddAliasPreserves, AddEntryPreserves
<1>2. CASE StartBuild \/ WriteBlob \/ BuildFails \/ FinishBuild
  BY <1>2, WriteBlobPreserves, BuildStepPreserves
<1>3. CASE \E d \in BOOLEAN : NewBuilder(d)
  BY <1>3, NewBuilderIInv
<1>4. CASE UNCHANGED builder
  BY <1>4, StutterBuilder
<1> QED
  BY <1>1, <1>2, <1>3, <1>4 DEF NextBuilder

-----------------------------------------------------------------------------
(* The invariant of the builder is inductive.                              *)
THEOREM BuilderInvariant == SpecBuilder => []IInvBuilder
<1>1. InitBuilder => IInvBuilder
  BY InitBuilderIInv DEF InitBuilder
<1>2. IInvBuilder /\ [NextBuilder]_builder => IInvBuilder'
  BY NextBuilderPreserves
<1> QED
  BY <1>1, <1>2, PTL DEF SpecBuilder

(* However weights are added, a name leads to the data it was first        *)
(* accepted with.                                                          *)
THEOREM NamesAlwaysResolve == SpecBuilder => []NamesResolve
<1>1. IInvBuilder => NamesResolve
  BY DEF IInvBuilder
<1> QED
  BY <1>1, BuilderInvariant, PTL

(* The layout of weight.bin is right for every number of weights of every  *)
(* size: offsets find their blobs, and blobs are aligned and disjoint.     *)
THEOREM LayoutCorrect == SpecBuilder => []LayoutIsSound
<1>1. IInvBuilder => LayoutIsSound
  BY DEF IInvBuilder, LayoutIsSound
<1> QED
  BY <1>1, BuilderInvariant, PTL

-----------------------------------------------------------------------------
(* Sums.  Induction over the natural numbers, from the least one left out. *)

LEMMA SetInduction ==
  ASSUME NEW S, 0 \in S, \A n \in Nat : n \in S => n + 1 \in S
  PROVE  Nat \subseteq S
<1> DEFINE T == Nat \ S
<1> SUFFICES ASSUME T # {} PROVE FALSE
  OBVIOUS
<1>1. \E x \in T : \A y \in T : ~ (<<y, x>> \in OpToRel(<, Nat))
  <2> HIDE DEF T
  <2>1. T \subseteq Nat
    BY DEF T
  <2> QED
    BY <2>1, NatLessThanWellFounded, WFMin
<1>2. PICK x \in T : \A y \in T : ~ (<<y, x>> \in OpToRel(<, Nat))
  BY <1>1
<1>3. x \in Nat /\ x # 0 /\ x - 1 \in Nat /\ x - 1 \notin S
  OBVIOUS
<1>4. <<x - 1, x>> \in OpToRel(<, Nat)
  BY <1>3 DEF OpToRel
<1> QED
  BY <1>2, <1>3, <1>4

\* f sums up the first n values.
SumsUp(f, values, n) ==
  f[0] = 0 /\ \A i \in 1..n : f[i] = f[i - 1] + values[i]

LEMMA SumsExist ==
  ASSUME NEW values \in Seq(Nat)
  PROVE  \E f \in [0..Len(values) -> Nat] : SumsUp(f, values, Len(values))
<1> DEFINE S == {n \in Nat : n <= Len(values) => \E f \in [0..n -> Nat] : SumsUp(f, values, n)}
<1>1. 0 \in S
  <2>1. [i \in 0..0 |-> 0] \in [0..0 -> Nat] /\ SumsUp([i \in 0..0 |-> 0], values, 0)
    BY DEF SumsUp
  <2> QED
    BY <2>1
<1>2. ASSUME NEW n \in Nat, n \in S PROVE n + 1 \in S
  <2> SUFFICES ASSUME n + 1 <= Len(values)
               PROVE  \E f \in [0..(n + 1) -> Nat] : SumsUp(f, values, n + 1)
    OBVIOUS
  <2>1. PICK f \in [0..n -> Nat] : SumsUp(f, values, n)
    BY <1>2
  <2>2. values[n + 1] \in Nat /\ f[n] \in Nat
    OBVIOUS
  <2> DEFINE g == [i \in 0..(n + 1) |-> IF i = n + 1 THEN f[n] + values[n + 1] ELSE f[i]]
  <2>3. g \in [0..(n + 1) -> Nat]
    <3> SUFFICES ASSUME NEW i \in 0..(n + 1), i # n + 1 PROVE f[i] \in Nat
      BY <2>2
    <3>1. i \in 0..n
      OBVIOUS
    <3> QED
      BY <3>1
  <2>4. SumsUp(g, values, n + 1)
    <3>1. g[0] = 0
      BY <2>1 DEF SumsUp
    <3>2. ASSUME NEW i \in 1..(n + 1) PROVE g[i] = g[i - 1] + values[i]
      <4>1. g[i - 1] = f[i - 1]
        OBVIOUS
      <4>2. CASE i = n + 1
        BY <4>1, <4>2
      <4>3. CASE i # n + 1
        <5>1. i \in 1..n /\ g[i] = f[i]
          BY <4>3
        <5> QED
          BY <2>1, <4>1, <5>1 DEF SumsUp
      <4> QED
        BY <4>2, <4>3
    <3> QED
      BY <3>1, <3>2 DEF SumsUp
  <2> QED
    BY <2>3, <2>4
<1> HIDE DEF S
<1>3. Nat \subseteq S
  BY <1>1, <1>2, SetInduction
<1> QED
  BY <1>3 DEF S

LEMMA RunningSum ==
  ASSUME NEW values \in Seq(Nat)
  PROVE  /\ running_sum(values) \in [0..Len(values) -> Nat]
         /\ SumsUp(running_sum(values), values, Len(values))
<1> DEFINE Rule(f) == [i \in 0..Len(values) |-> IF i = 0 THEN 0 ELSE f[i - 1] + values[i]]
           sum == CHOOSE f : f = Rule(f)
<1>1. PICK f \in [0..Len(values) -> Nat] : SumsUp(f, values, Len(values))
  BY SumsExist
<1>2. f = Rule(f)
  BY <1>1 DEF SumsUp
<1>3. sum = Rule(sum)
  BY <1>2
<1>4. running_sum(values) = sum
  BY DEF running_sum
<1> HIDE DEF sum
<1>5. SumsUp(sum, values, Len(values)) /\ DOMAIN sum = 0..Len(values)
      /\ sum = [i \in 0..Len(values) |-> sum[i]]
  <2>1. ASSUME NEW g PROVE \A i \in 0..Len(values) :
                             Rule(g)[i] = IF i = 0 THEN 0 ELSE g[i - 1] + values[i]
    OBVIOUS
  <2>2. DOMAIN Rule(sum) = 0..Len(values) /\ Rule(sum) = [i \in 0..Len(values) |-> Rule(sum)[i]]
    OBVIOUS
  <2> HIDE DEF Rule
  <2>3. \A i \in 0..Len(values) : sum[i] = IF i = 0 THEN 0 ELSE sum[i - 1] + values[i]
    BY <1>3, <2>1
  <2>4. sum[0] = 0 /\ \A i \in 1..Len(values) : sum[i] = sum[i - 1] + values[i]
    BY <2>3
  <2> QED
    BY <1>3, <2>2, <2>4 DEF SumsUp
<1> HIDE DEF Rule
<1> DEFINE S == {n \in Nat : n <= Len(values) => sum[n] \in Nat}
<1>6. Nat \subseteq S
  <2>1. 0 \in S
    BY <1>5 DEF SumsUp
  <2>2. ASSUME NEW n \in Nat, n \in S PROVE n + 1 \in S
    <3> SUFFICES ASSUME n + 1 <= Len(values) PROVE sum[n + 1] \in Nat
      OBVIOUS
    <3>1. n + 1 \in 1..Len(values) /\ (n + 1) - 1 = n
      OBVIOUS
    <3>2. sum[n + 1] = sum[n] + values[n + 1]
      BY <1>5, <3>1 DEF SumsUp
    <3>3. sum[n] \in Nat /\ values[n + 1] \in Nat
      BY <2>2, <3>1
    <3> QED
      BY <3>2, <3>3
  <2> HIDE DEF S
  <2> QED
    BY <2>1, <2>2, SetInduction
<1> QED
  BY <1>4, <1>5, <1>6

\* Sums over a common prefix are the same.
LEMMA SumsAgree ==
  ASSUME NEW values \in Seq(Nat), NEW longer \in Seq(Nat), Len(values) <= Len(longer),
         \A i \in 1..Len(values) : longer[i] = values[i]
  PROVE  \A k \in 0..Len(values) : running_sum(longer)[k] = running_sum(values)[k]
<1> DEFINE f == running_sum(values)
           g == running_sum(longer)
           S == {n \in Nat : n <= Len(values) => g[n] = f[n]}
<1>1. /\ f[0] = 0 /\ \A i \in 1..Len(values) : f[i] = f[i - 1] + values[i]
      /\ g[0] = 0 /\ \A i \in 1..Len(longer) : g[i] = g[i - 1] + longer[i]
  BY RunningSum DEF SumsUp
<1> HIDE DEF f, g
<1>2. 0 \in S
  BY <1>1
<1>3. ASSUME NEW n \in Nat, n \in S PROVE n + 1 \in S
  <2> SUFFICES ASSUME n + 1 <= Len(values) PROVE g[n + 1] = f[n + 1]
    OBVIOUS
  <2>1. n + 1 \in 1..Len(values) /\ n + 1 \in 1..Len(longer) /\ (n + 1) - 1 = n
    OBVIOUS
  <2>2. g[n + 1] = g[n] + longer[n + 1] /\ f[n + 1] = f[n] + values[n + 1]
    BY <1>1, <2>1
  <2> QED
    BY <1>3, <2>1, <2>2
<1> HIDE DEF S
<1>4. Nat \subseteq S
  BY <1>2, <1>3, SetInduction
<1> QED
  BY <1>4 DEF S, f, g

-----------------------------------------------------------------------------
(* Sizes.  The bytes accepted are accounted for at every step, and the     *)
(* position in the file is what estimated_size says of the entries written *)
(* so far.                                                                 *)

SizesInStep ==
  /\ bytes_given = data_total + name_dedup.bytes + content_dedup.bytes
  /\ phase # "adding" =>
       current_pos = STORAGE_HEADER_SIZE + BLOB_METADATA_SIZE * Len(offsets)
                       + running_sum(data_sizes)[Len(offsets)]
                       + running_sum(paddings)[Len(offsets)]
  /\ phase = "built" => Len(offsets) = Len(entries)

LEMMA SizesAreNumbers ==
  ASSUME TypeOKBuilder
  PROVE  /\ data_sizes \in Seq(Nat) /\ Len(data_sizes) = Len(entries)
         /\ paddings \in Seq(Nat) /\ Len(paddings) = Len(entries)
         /\ \A i \in 1..Len(entries) : /\ data_sizes[i] = Size[entries[i].content]
                                       /\ paddings[i] = align_up(data_sizes[i], BLOB_ALIGNMENT)
                                                           - data_sizes[i]
<1>1. \A i \in 1..Len(entries) : Size[entries[i].content] \in Nat
  <2> TAKE i \in 1..Len(entries)
  <2>1. entries[i] \in Weights
    BY DEF TypeOKBuilder
  <2> QED
    BY <2>1, WeightBinConstants DEF Weights
<1>2. Len(entries) \in Nat
  BY DEF TypeOKBuilder
<1>3. data_sizes \in Seq(Nat) /\ Len(data_sizes) = Len(entries)
  BY <1>1, <1>2 DEF data_sizes
<1>4. \A i \in 1..Len(entries) : data_sizes[i] = Size[entries[i].content]
  BY DEF data_sizes
<1>5. \A i \in 1..Len(entries) : align_up(data_sizes[i], BLOB_ALIGNMENT) - data_sizes[i] \in Nat
  <2> TAKE i \in 1..Len(entries)
  <2>1. data_sizes[i] \in Nat
    BY <1>1, <1>4
  <2>2. /\ align_up(data_sizes[i], BLOB_ALIGNMENT) \in Nat
        /\ align_up(data_sizes[i], BLOB_ALIGNMENT) >= data_sizes[i]
    BY <2>1, AlignUp
  <2> QED
    BY <2>1, <2>2
<1>6. paddings \in Seq(Nat) /\ Len(paddings) = Len(entries)
  BY <1>2, <1>5 DEF paddings
<1> QED
  BY <1>3, <1>4, <1>6 DEF paddings

LEMMA SameSizes ==
  ASSUME UNCHANGED entries
  PROVE  /\ data_sizes' = data_sizes /\ paddings' = paddings
         /\ data_total' = data_total /\ padding_per_entry' = padding_per_entry
BY DEF data_sizes, paddings, data_total, padding_per_entry

\* A new entry adds its bytes.
LEMMA EntryAdds ==
  ASSUME TypeOKBuilder, NEW w \in Weights, entries' = Append(entries, w)
  PROVE  data_total \in Nat /\ data_total' = data_total + Size[w.content]
<1> PICK n \in Nat : n = Len(entries)
  BY DEF TypeOKBuilder
<1>1. /\ Len(entries') = n + 1 /\ entries'[n + 1] = w
      /\ \A i \in 1..n : entries'[i] = entries[i]
  BY DEF TypeOKBuilder
<1>2. Size[w.content] \in Nat
  BY WeightBinConstants DEF Weights
<1>3. /\ data_sizes \in Seq(Nat) /\ Len(data_sizes) = n
      /\ \A i \in 1..n : data_sizes[i] = Size[entries[i].content] /\ data_sizes[i] \in Nat
  BY SizesAreNumbers
<1>4. /\ data_sizes' \in Seq(Nat) /\ Len(data_sizes') = n + 1
      /\ data_sizes'[n + 1] = Size[w.content]
      /\ \A i \in 1..n : data_sizes'[i] = data_sizes[i]
  <2>1. \A i \in 1..(n + 1) : Size[entries'[i].content] \in Nat
    BY <1>1, <1>2, <1>3
  <2>2. data_sizes' = [i \in 1..(n + 1) |-> Size[entries'[i].content]]
    BY <1>1 DEF data_sizes
  <2> QED
    BY <1>1, <1>3, <2>1, <2>2
<1> DEFINE old == running_sum(data_sizes)
           new == running_sum(data_sizes')
<1>5. new[n + 1] = new[n] + Size[w.content]
  <2>1. SumsUp(new, data_sizes', n + 1)
    BY <1>4, RunningSum
  <2> HIDE DEF new
  <2>2. n + 1 \in 1..(n + 1) /\ (n + 1) - 1 = n
    OBVIOUS
  <2> QED
    BY <1>4, <2>1, <2>2 DEF SumsUp
<1>6. new[n] = old[n] /\ old[n] \in Nat
  <2>1. /\ data_sizes \in Seq(Nat) /\ data_sizes' \in Seq(Nat)
        /\ Len(data_sizes) <= Len(data_sizes')
        /\ \A i \in 1..Len(data_sizes) : data_sizes'[i] = data_sizes[i]
    BY <1>3, <1>4
  <2>2. \A k \in 0..Len(data_sizes) : running_sum(data_sizes')[k] = running_sum(data_sizes)[k]
    BY <2>1, SumsAgree
  <2>3. running_sum(data_sizes) \in [0..n -> Nat] /\ n \in 0..n /\ Len(data_sizes) = n
    BY <1>3, RunningSum
  <2> QED
    BY <2>2, <2>3
<1>7. data_total = old[n] /\ data_total' = new[n + 1]
  BY <1>1 DEF data_total
<1> QED
  BY <1>5, <1>6, <1>7

LEMMA AlignBehind ==
  ASSUME NEW pos \in Nat, NEW size \in Nat, pos % 64 = 0
  PROVE  align_up(pos + 64 + size, BLOB_ALIGNMENT) = pos + 64 + align_up(size, BLOB_ALIGNMENT)
BY DEF align_up, BLOB_ALIGNMENT

LEMMA NextPosition ==
  ASSUME NEW k \in Nat, NEW pos \in Nat, NEW data \in Nat, NEW gap \in Nat,
         NEW bytes \in Nat, NEW up \in Nat, pos = 64 + 64 * k + data + gap
  PROVE  pos + 64 + up = 64 + 64 * (k + 1) + (data + bytes) + (gap + (up - bytes))
OBVIOUS

LEMMA SizesKeepStep ==
  ASSUME IInvBuilder, SizesInStep, [NextBuilder]_builder
  PROVE  SizesInStep'
<1>0. TypeOKBuilder /\ name_dedup.bytes \in Nat /\ content_dedup.bytes \in Nat /\ bytes_given \in Nat
  BY DEF IInvBuilder, TypeOKBuilder, Saved
<1>1. ASSUME NEW w \in Weights, AddKnown(w) \/ AddAlias(w) \/ AddEntry(w)
      PROVE  SizesInStep'
  <2>1. phase = "adding" /\ phase' = "adding" /\ bytes_given' = bytes_given + Size[w.content]
    BY <1>1 DEF AddKnown, AddAlias, AddEntry, Accept
  <2>2. Size[w.content] \in Nat /\ data_total \in Nat
    <3>1. data_sizes \in Seq(Nat) /\ Len(data_sizes) = Len(entries) /\ Len(entries) \in Nat
      BY <1>0, SizesAreNumbers DEF TypeOKBuilder
    <3> QED
      BY <3>1, RunningSum, WeightBinConstants DEF data_total, Weights
  <2>3. CASE AddKnown(w)
    <3>1. /\ UNCHANGED <<entries, content_dedup>>
          /\ name_dedup'.bytes = name_dedup.bytes + Size[w.content]
      BY <2>3 DEF AddKnown, one_more
    <3> QED
      BY <1>0, <2>1, <2>2, <3>1, SameSizes DEF SizesInStep
  <2>4. CASE AddAlias(w)
    <3>1. /\ UNCHANGED <<entries, name_dedup>>
          /\ content_dedup'.bytes = content_dedup.bytes + Size[w.content]
      BY <2>4 DEF AddAlias, one_more
    <3> QED
      BY <1>0, <2>1, <2>2, <3>1, SameSizes DEF SizesInStep
  <2>5. CASE AddEntry(w)
    <3>1. entries' = Append(entries, w) /\ UNCHANGED <<name_dedup, content_dedup>>
      BY <2>5 DEF AddEntry, dedup
    <3>2. data_total' = data_total + Size[w.content]
      BY <1>0, <3>1, EntryAdds
    <3>3. bytes_given = data_total + name_dedup.bytes + content_dedup.bytes
      BY DEF SizesInStep
    <3>4. bytes_given' = data_total' + name_dedup'.bytes + content_dedup'.bytes
      <4> PICK total \in Nat : total = data_total
        BY <2>2
      <4> PICK size \in Nat : size = Size[w.content]
        BY <2>2
      <4> PICK by_name \in Nat : by_name = name_dedup.bytes
        BY <1>0
      <4> PICK by_content \in Nat : by_content = content_dedup.bytes
        BY <1>0
      <4>1. /\ bytes_given' = (total + by_name + by_content) + size
            /\ data_total' = total + size
            /\ name_dedup'.bytes = by_name /\ content_dedup'.bytes = by_content
        BY <2>1, <3>1, <3>2, <3>3
      <4> QED
        BY <4>1
    <3> QED
      BY <2>1, <3>4 DEF SizesInStep
  <2> QED
    BY <1>1, <2>3, <2>4, <2>5
<1>2. CASE StartBuild
  <2>1. /\ UNCHANGED <<entries, offsets, bytes_given, name_dedup, content_dedup>>
        /\ phase' = "building" /\ current_pos' = STORAGE_HEADER_SIZE /\ offsets = <<>>
    BY <1>2 DEF StartBuild, adding, dedup, IInvBuilder, BufferInStep
  <2>2. /\ running_sum(data_sizes)[0] = 0 /\ running_sum(paddings)[0] = 0
    BY <1>0, SizesAreNumbers, RunningSum DEF SumsUp
  <2> QED
    BY <2>1, <2>2, SameSizes DEF SizesInStep, STORAGE_HEADER_SIZE, BLOB_METADATA_SIZE
<1>3. CASE WriteBlob
  <2> PICK k \in Nat : k = Len(offsets)
    BY <1>0 DEF TypeOKBuilder
  <2> PICK pos \in Nat : pos = current_pos
    BY <1>0 DEF TypeOKBuilder
  <2> DEFINE size == data_sizes[k + 1]
             sizes == running_sum(data_sizes)
             gaps == running_sum(paddings)
  <2>1. /\ UNCHANGED <<entries, bytes_given, name_dedup, content_dedup>>
        /\ phase = "building" /\ phase' = "building" /\ k + 1 \in 1..Len(entries)
        /\ current_pos' = padded_end /\ offsets' = Append(offsets, metadata_offset)
    BY <1>0, <1>3 DEF WriteBlob, MoreEntries, adding, dedup, TypeOKBuilder
  <2>2. pos % 64 = 0 /\ Len(offsets') = k + 1
    BY <1>0, <2>1 DEF IInvBuilder, BufferInStep, BLOB_ALIGNMENT, TypeOKBuilder
  <2>3. /\ size \in Nat /\ size = Size[next_entry.content]
        /\ paddings[k + 1] = align_up(size, BLOB_ALIGNMENT) - size
        /\ align_up(size, BLOB_ALIGNMENT) \in Nat
    <3>1. /\ data_sizes \in Seq(Nat) /\ Len(data_sizes) = Len(entries)
          /\ size = Size[entries[k + 1].content]
          /\ paddings[k + 1] = align_up(size, BLOB_ALIGNMENT) - size
      BY <1>0, <2>1, SizesAreNumbers
    <3>2. size \in Nat
      BY <2>1, <3>1
    <3> QED
      BY <3>1, <3>2, AlignUp DEF next_entry
  <2>4. /\ sizes[k + 1] = sizes[k] + size /\ sizes[k] \in Nat
        /\ gaps[k + 1] = gaps[k] + paddings[k + 1] /\ gaps[k] \in Nat
    <3>1. /\ data_sizes \in Seq(Nat) /\ Len(data_sizes) = Len(entries)
          /\ paddings \in Seq(Nat) /\ Len(paddings) = Len(entries)
      BY <1>0, SizesAreNumbers
    <3>2. /\ sizes \in [0..Len(entries) -> Nat] /\ SumsUp(sizes, data_sizes, Len(entries))
          /\ gaps \in [0..Len(entries) -> Nat] /\ SumsUp(gaps, paddings, Len(entries))
      BY <3>1, RunningSum
    <3> HIDE DEF sizes, gaps
    <3>3. (k + 1) - 1 = k /\ k \in 0..Len(entries)
      BY <1>0, <2>1 DEF TypeOKBuilder
    <3> QED
      BY <2>1, <3>2, <3>3 DEF SumsUp
  <2> HIDE DEF size, sizes, gaps
  <2>5. current_pos' = pos + 64 + align_up(size, BLOB_ALIGNMENT)
    <3>1. align_up(pos, BLOB_ALIGNMENT) = pos
      BY <2>2, AlignUp DEF BLOB_ALIGNMENT
    <3>2. data_end = pos + 64 + size
      BY <2>3, <3>1 DEF data_end, data_offset, metadata_offset, BLOB_METADATA_SIZE
    <3> QED
      BY <2>1, <2>2, <2>3, <3>2, AlignBehind DEF padded_end
  <2>6. pos = 64 + 64 * k + sizes[k] + gaps[k]
    BY <2>1 DEF SizesInStep, STORAGE_HEADER_SIZE, BLOB_METADATA_SIZE, sizes, gaps
  <2>7. current_pos' = 64 + 64 * (k + 1) + sizes[k + 1] + gaps[k + 1]
    <3>1. size \in Nat /\ sizes[k] \in Nat /\ gaps[k] \in Nat /\ align_up(size, BLOB_ALIGNMENT) \in Nat
      BY <2>3, <2>4
    <3>2. /\ sizes[k + 1] = sizes[k] + size
          /\ gaps[k + 1] = gaps[k] + (align_up(size, BLOB_ALIGNMENT) - size)
      BY <2>3, <2>4
    <3>3. pos + 64 + align_up(size, BLOB_ALIGNMENT)
            = 64 + 64 * (k + 1) + (sizes[k] + size)
                + (gaps[k] + (align_up(size, BLOB_ALIGNMENT) - size))
      <4> DEFINE up == align_up(size, BLOB_ALIGNMENT)
                 data == sizes[k]
                 gap == gaps[k]
      <4>1. up \in Nat /\ data \in Nat /\ gap \in Nat /\ pos = 64 + 64 * k + data + gap
        BY <2>6, <3>1
      <4> HIDE DEF up, data, gap
      <4>2. pos + 64 + up = 64 + 64 * (k + 1) + (data + size) + (gap + (up - size))
        BY <3>1, <4>1, NextPosition
      <4> QED
        BY <4>2 DEF up, data, gap
    <3> QED
      BY <2>5, <3>2, <3>3
  <2> QED
    BY <2>1, <2>2, <2>7, SameSizes
    DEF SizesInStep, STORAGE_HEADER_SIZE, BLOB_METADATA_SIZE, sizes, gaps
<1>4. CASE BuildFails \/ FinishBuild
  <2>1. /\ UNCHANGED <<entries, offsets, current_pos, bytes_given, name_dedup, content_dedup>>
        /\ phase = "building"
        /\ phase' = "failed" \/ (phase' = "built" /\ ~ (Len(offsets) < Len(entries)))
    BY <1>4 DEF BuildFails, FinishBuild, Unencodable, MoreEntries, adding, dedup, building
  <2>2. Len(offsets) <= Len(entries) /\ Len(offsets) \in Nat /\ Len(entries) \in Nat
    BY <1>0 DEF IInvBuilder, OffsetsFindBlobs, TypeOKBuilder
  <2> QED
    BY <2>1, <2>2, SameSizes DEF SizesInStep
<1>5. ASSUME NEW d \in BOOLEAN, NewBuilder(d) PROVE SizesInStep'
  <2>1. /\ entries' = <<>> /\ phase' = "adding" /\ bytes_given' = 0
        /\ name_dedup'.bytes = 0 /\ content_dedup'.bytes = 0
    BY <1>5 DEF NewBuilder, NothingSaved
  <2>2. data_total' = 0
    <3>1. data_sizes' = <<>> /\ <<>> \in Seq(Nat) /\ Len(entries') = 0
      BY <2>1 DEF data_sizes
    <3> QED
      BY <3>1, RunningSum DEF data_total, SumsUp
  <2> QED
    BY <2>1, <2>2 DEF SizesInStep
<1>6. CASE UNCHANGED builder
  <2>1. UNCHANGED <<entries, offsets, current_pos, bytes_given, name_dedup, content_dedup, phase>>
    BY <1>6 DEF builder, adding, dedup, building
  <2> QED
    BY <2>1, SameSizes DEF SizesInStep
<1> QED
  BY <1>1, <1>2, <1>3, <1>4, <1>5, <1>6 DEF NextBuilder

(* The file build() returns is as long as estimated_size announced, and    *)
(* every byte given to add_weight is stored once or counted as saved, for  *)
(* any number of weights of any size.                                      *)
THEOREM SizesAlwaysAddUp == SpecBuilder => []SizesAddUp
<1>1. InitBuilder => IInvBuilder /\ SizesInStep
  <2> SUFFICES ASSUME NEW d \in BOOLEAN, EmptyBuilder(d) PROVE IInvBuilder /\ SizesInStep
    BY DEF InitBuilder
  <2>1. data_total = 0
    <3>1. data_sizes = <<>> /\ <<>> \in Seq(Nat) /\ Len(entries) = 0
      BY DEF data_sizes, EmptyBuilder
    <3> QED
      BY <3>1, RunningSum DEF data_total, SumsUp
  <2> QED
    BY <2>1, InitBuilderIInv DEF EmptyBuilder, SizesInStep, NothingSaved
<1>2. IInvBuilder /\ SizesInStep /\ [NextBuilder]_builder => (IInvBuilder /\ SizesInStep)'
  BY NextBuilderPreserves, SizesKeepStep
<1>3. IInvBuilder /\ SizesInStep => SizesAddUp
  BY DEF IInvBuilder, BufferInStep, SizesInStep, SizesAddUp, estimated_size, data_total,
         padding_per_entry
<1> QED
  BY <1>1, <1>2, <1>3, PTL DEF SpecBuilder

----
(* What write has put in place before its next step.  Each file is written *)
(* at a point where all files that could belong to an earlier emission are *)
(* gone, which OneEmission alone does not say.                             *)
FilesInStep ==
  /\ step \in {"add", "weights"} => Gone
  /\ step = "model" =>
       weight_bin.model = model /\ mlmodel = NoFile /\ manifest = NoFile
  /\ step = "manifest" =>
       weight_bin.model = model /\ mlmodel.model = model /\ manifest = NoFile

IInvFiles == OneEmission /\ FilesInStep

(* The emission under way is counted before it is reported, and it was not *)
(* let in at the limit.                                                    *)
CountLeads ==
  /\ compilation_count \in Nat /\ written \in Nat
  /\ written <= compilation_count
  /\ step # "idle" => written < compilation_count /\ compilation_count < COMPILATION_LIMIT

IInvCount == CountLeads /\ StaysBelowLimit

-----------------------------------------------------------------------------
(* One emission at a time.                                                 *)

LEMMA DropIsIdle == ASSUME DropEmission PROVE step' = "idle"
BY DEF DropEmission

LEMMA CutShortPreserves == ASSUME OneEmission, CutShort PROVE OneEmission'
<1>1. CASE UNCHANGED package
  BY <1>1 DEF OneEmission, Whole, package
<1>2. CASE weight_bin' = Torn /\ UNCHANGED <<mlmodel, manifest>>
  BY <1>2 DEF OneEmission, Whole
<1>3. CASE mlmodel' = Torn /\ UNCHANGED <<weight_bin, manifest>>
  BY <1>3 DEF OneEmission, Whole
<1>4. CASE manifest' = Torn /\ UNCHANGED <<weight_bin, mlmodel>>
  BY <1>4 DEF OneEmission, Whole
<1> QED
  BY <1>1, <1>2, <1>3, <1>4 DEF CutShort

LEMMA FilesStep == ASSUME IInvFiles, [Next]_vars PROVE IInvFiles'
<1>0. OneEmission /\ FilesInStep
  BY DEF IInvFiles
<1>1. ASSUME NEW m \in Models, EmitModel(m) PROVE IInvFiles'
  <2>1. UNCHANGED package /\ (step' = "remove" \/ (step = "idle" /\ step' = "idle"))
    BY <1>1 DEF EmitModel
  <2> QED
    BY <1>0, <2>1 DEF IInvFiles, OneEmission, FilesInStep, Whole, package
<1>2. CASE RemoveFile
  <2>1. /\ step = "remove" /\ step' = "remove"
        /\ weight_bin' \in {weight_bin, NoFile}
        /\ mlmodel' \in {mlmodel, NoFile}
        /\ manifest' \in {manifest, NoFile}
    BY <1>2 DEF RemoveFile
  <2> QED
    BY <1>0, <2>1 DEF IInvFiles, OneEmission, FilesInStep, Whole
<1>3. CASE CreateDirectories
  BY <1>0, <1>3 DEF CreateDirectories, IInvFiles, OneEmission, FilesInStep, Whole, package, Gone
<1>4. CASE AddWeight
  BY <1>0, <1>4 DEF AddWeight, IInvFiles, OneEmission, FilesInStep, Whole, package, Gone
<1>5. CASE Build
  <2>1. step = "add" /\ step' \in {"add", "weights"} /\ UNCHANGED package
    BY <1>5 DEF Build
  <2> QED
    BY <1>0, <2>1 DEF IInvFiles, OneEmission, FilesInStep, Whole, package, Gone
<1>6. CASE WriteWeights
  <2>1. /\ step = "weights" /\ step' = "model" /\ Gone /\ model' = model
        /\ weight_bin'.model = model /\ UNCHANGED <<mlmodel, manifest>>
    BY <1>0, <1>6 DEF WriteWeights, WeightFile, FilesInStep
  <2> QED
    BY <2>1 DEF IInvFiles, OneEmission, FilesInStep, Whole, Gone
<1>7. CASE WriteModel
  <2>1. /\ step = "model" /\ step' = "manifest" /\ model' = model
        /\ mlmodel'.model = model /\ UNCHANGED <<weight_bin, manifest>>
    BY <1>7 DEF WriteModel, ModelFiles
  <2> QED
    BY <1>0, <2>1 DEF IInvFiles, OneEmission, FilesInStep, Whole
<1>8. CASE WriteManifest
  <2>1. /\ step = "manifest" /\ step' = "hash" /\ model' = model
        /\ manifest'.model = model /\ UNCHANGED <<weight_bin, mlmodel>>
    BY <1>8 DEF WriteManifest, ManifestFiles
  <2> QED
    BY <1>0, <2>1 DEF IInvFiles, OneEmission, FilesInStep, Whole
<1>9. CASE ReturnResult \/ WeightsRefused
  <2>1. step' = "idle" /\ UNCHANGED package
    BY <1>9, DropIsIdle DEF ReturnResult, WeightsRefused
  <2> QED
    BY <1>0, <2>1 DEF IInvFiles, OneEmission, FilesInStep, Whole, package
<1>10. CASE IOError \/ NewProcess
  <2>1. step' = "idle" /\ CutShort
    BY <1>10, DropIsIdle DEF IOError, NewProcess
  <2>2. OneEmission'
    BY <1>0, <2>1, CutShortPreserves
  <2> QED
    BY <2>1, <2>2 DEF IInvFiles, FilesInStep
<1>11. CASE UNCHANGED vars
  BY <1>0, <1>11 DEF IInvFiles, OneEmission, FilesInStep, Whole, vars, package, Gone
<1> QED
  BY <1>1, <1>2, <1>3, <1>4, <1>5, <1>6, <1>7, <1>8, <1>9, <1>10, <1>11 DEF Next

(* MlPackageWriter::write never leaves files of two emissions side by      *)
(* side, however many emissions fail or die half-way at one path.          *)
THEOREM NeverMixed == Spec => []OneEmission
<1>1. Init => IInvFiles
  BY DEF Init, IInvFiles, OneEmission, FilesInStep, Whole
<1>2. IInvFiles /\ [Next]_vars => IInvFiles'
  BY FilesStep
<1>3. IInvFiles => OneEmission
  BY DEF IInvFiles
<1> QED
  BY <1>1, <1>2, <1>3, PTL DEF Spec

-----------------------------------------------------------------------------
(* The compilation limit.                                                  *)

LEMMA CountStep == ASSUME IInvCount, [Next]_vars PROVE IInvCount'
<1>0. /\ compilation_count \in Nat /\ written \in Nat /\ written <= compilation_count
      /\ written < COMPILATION_LIMIT /\ COMPILATION_LIMIT \in Nat \ {0}
      /\ step # "idle" => written < compilation_count /\ compilation_count < COMPILATION_LIMIT
  BY PackageConstants DEF IInvCount, CountLeads, StaysBelowLimit
<1> SUFFICES /\ compilation_count' \in Nat /\ written' \in Nat
             /\ written' <= compilation_count' /\ written' < COMPILATION_LIMIT
             /\ step' # "idle" => /\ written' < compilation_count'
                                  /\ compilation_count' < COMPILATION_LIMIT
  BY DEF IInvCount, CountLeads, StaysBelowLimit
<1>1. ASSUME NEW m \in Models, EmitModel(m) PROVE
        /\ compilation_count' = compilation_count + 1 /\ written' = written
        /\ step' # "idle" => ~(compilation_count + 1 >= COMPILATION_LIMIT)
  BY <1>1 DEF EmitModel, limit_reached
<1>2. CASE ReturnResult
  BY <1>0, <1>2, DropIsIdle DEF ReturnResult
<1>3. CASE NewProcess
  BY <1>0, <1>3, DropIsIdle DEF NewProcess
<1>4. CASE WeightsRefused \/ IOError
  BY <1>0, <1>4, DropIsIdle DEF WeightsRefused, IOError, history
<1>5. CASE \/ RemoveFile \/ CreateDirectories \/ AddWeight \/ Build
           \/ WriteWeights \/ WriteModel \/ WriteManifest
  <2>1. step # "idle" /\ UNCHANGED <<compilation_count, written>>
    BY <1>5 DEF RemoveFile, CreateDirectories, AddWeight, Build, WriteWeights, WriteModel,
                WriteManifest, history
  <2> QED
    BY <1>0, <2>1
<1>6. CASE UNCHANGED vars
  BY <1>0, <1>6 DEF vars, history
<1>7. CASE \E m \in Models : EmitModel(m)
  BY <1>0, <1>1, <1>7
<1> QED
  BY <1>2, <1>3, <1>4, <1>5, <1>6, <1>7 DEF Next

(* ProtoEmitter::emit_model refuses early enough: the packages a process   *)
(* reports stay below the limit, with failed emissions counted too.        *)
THEOREM BelowLimit == Spec => []StaysBelowLimit
<1>1. Init => IInvCount
  BY PackageConstants DEF Init, IInvCount, CountLeads, StaysBelowLimit
<1>2. IInvCount /\ [Next]_vars => IInvCount'
  BY CountStep
<1>3. IInvCount => StaysBelowLimit
  BY DEF IInvCount
<1> QED
  BY <1>1, <1>2, <1>3, PTL DEF Spec

-----------------------------------------------------------------------------
(* Emission implements Package.  That what is reported is whole rests on   *)
(* the builder: a constant's name leads to an entry with its bytes even    *)
(* though const_value looks for the entry by name and add_weight may have  *)
(* stored the name as an alias, which no entry bears.                      *)

(* The builder holds what was added of the model: every entry is a weight  *)
(* of the model and the one its name leads to, and every weight added has  *)
(* a name that leads to an entry of its kind.                              *)
TakenIn ==
  /\ \A e \in 1..Len(entries) : /\ name_to_index[entries[e].name] = e
                                /\ \E j \in 1..added : model[j] = entries[e]
  /\ \A i \in 1..added :
       /\ name_to_index[model[i].name] \in 1..Len(entries)
       /\ entries[name_to_index[model[i].name]].kind = model[i].kind

BuilderInStep ==
  /\ step \in {"idle", "remove"} => entries = <<>> /\ phase = "adding" /\ added = 0
  /\ step # "idle" => model \in Models /\ added \in 0..Len(model) /\ reported = NoModel
  /\ step \notin {"idle", "remove"} => TakenIn
  /\ step = "add" => phase = "adding" \/ (phase = "building" /\ added = Len(model))
  /\ step \in {"weights", "model", "manifest", "hash"} =>
       phase = "built" /\ added = Len(model) /\ Len(offsets) = Len(entries)

FilesHold ==
  /\ step \in {"model", "manifest", "hash"} => weight_bin = WeightFile
  /\ step \in {"manifest", "hash"} => mlmodel \in ModelFiles
  /\ step = "hash" => manifest \in ManifestFiles

EmissionInv == IInvBuilder /\ IInvFiles /\ BuilderInStep /\ FilesHold

LEMMA ElementOf ==
  ASSUME NEW S, NEW seq \in Seq(S), NEW i \in 1..Len(seq)
  PROVE  seq[i] \in S
OBVIOUS

LEMMA WeightParts ==
  ASSUME NEW seq \in Seq(Weights), NEW i \in 1..Len(seq)
  PROVE  /\ seq[i] \in Weights
         /\ seq[i].name \in Names /\ seq[i].kind \in Kinds /\ seq[i].content \in Contents
<1>1. seq[i] \in Weights
  BY ElementOf
<1> QED
  BY <1>1 DEF Weights

\* The builder in a step of the builder's own specification.
LEMMA BuilderMoves ==
  ASSUME EmissionInv, [Next]_vars
  PROVE  IInvBuilder'
<1>1. IInvBuilder
  BY DEF EmissionInv
<1>2. ASSUME UNCHANGED builder PROVE IInvBuilder'
  BY <1>1, <1>2, StutterBuilder
<1>3. CASE AddWeight
  <2>1. PICK w : w = model[added + 1] /\ (AddKnown(w) \/ AddAlias(w) \/ AddEntry(w))
    BY <1>3 DEF AddWeight
  <2>2. w \in Weights
    <3>1. model \in Seq(Weights) /\ added \in 0..Len(model) /\ added < Len(model)
      BY <1>3, PackageConstants DEF AddWeight, EmissionInv, BuilderInStep
    <3> QED
      BY <2>1, <3>1
  <2> QED
    BY <1>1, <2>1, <2>2, AddKnownPreserves, AddAliasPreserves, AddEntryPreserves
<1>4. CASE Build
  BY <1>1, <1>4, BuildStepPreserves, WriteBlobPreserves DEF Build
<1>5. CASE DropEmission
  BY <1>5, NewBuilderIInv DEF DropEmission
<1>6. CASE ReturnResult \/ WeightsRefused \/ IOError \/ NewProcess
  BY <1>5, <1>6 DEF ReturnResult, WeightsRefused, IOError, NewProcess
<1> QED
  BY <1>2, <1>3, <1>4, <1>6
  DEF Next, EmitModel, RemoveFile, CreateDirectories, WriteWeights, WriteModel, WriteManifest, vars

LEMMA Dropped ==
  ASSUME DropEmission
  PROVE  BuilderInStep' /\ FilesHold'
BY DEF DropEmission, NewBuilder, BuilderInStep, FilesHold

\* What was taken in stays, and a weight is added.
LEMMA AddsWeight ==
  ASSUME EmissionInv, AddWeight
  PROVE  TakenIn'
<1> PICK w : w = model[added + 1] /\ (AddKnown(w) \/ AddAlias(w) \/ AddEntry(w))
  BY DEF AddWeight
<1>1. /\ model \in Seq(Weights) /\ added \in Nat /\ added < Len(model) /\ Len(model) \in Nat
      /\ TypeOKBuilder /\ TakenIn /\ model' = model /\ added' = added + 1
  BY PackageConstants DEF AddWeight, EmissionInv, BuilderInStep, IInvBuilder
<1>2. w \in Weights /\ w.name \in Names /\ w.content \in Contents
  BY <1>1, WeightParts
<1> PICK n \in Nat : n = Len(entries)
  BY <1>1 DEF TypeOKBuilder
<1>3. CASE AddKnown(w) \/ AddAlias(w)
  <2>1. /\ entries' = entries
        /\ \A name \in Names : name # w.name => name_to_index'[name] = name_to_index[name]
        /\ name_to_index[w.name] # 0 => name_to_index'[w.name] = name_to_index[w.name]
    BY <1>1, <1>2, <1>3 DEF AddKnown, AddAlias, TypeOKBuilder, known_name
  <2>2. name_to_index'[w.name] \in 1..n /\ entries[name_to_index'[w.name]].kind = w.kind
    BY <1>1, <1>2, <1>3
    DEF AddKnown, AddAlias, TypeOKBuilder, known_name, same_kind, shareable
  <2>3. \A e \in 1..n : /\ name_to_index'[entries[e].name] = e
                        /\ \E j \in 1..(added + 1) : model[j] = entries[e]
    <3> SUFFICES ASSUME NEW e \in 1..n
                 PROVE  /\ name_to_index'[entries[e].name] = e
                        /\ \E j \in 1..(added + 1) : model[j] = entries[e]
      OBVIOUS
    <3>1. /\ name_to_index[entries[e].name] = e /\ entries[e].name \in Names
          /\ \E j \in 1..added : model[j] = entries[e]
      BY <1>1, WeightParts DEF TakenIn, TypeOKBuilder
    <3> QED
      BY <1>1, <2>1, <3>1
  <2>4. \A i \in 1..(added + 1) : /\ name_to_index'[model[i].name] \in 1..n
                                  /\ entries[name_to_index'[model[i].name]].kind = model[i].kind
    <3> SUFFICES ASSUME NEW i \in 1..(added + 1)
                 PROVE  /\ name_to_index'[model[i].name] \in 1..n
                        /\ entries[name_to_index'[model[i].name]].kind = model[i].kind
      OBVIOUS
    <3>1. CASE i = added + 1
      BY <2>2, <3>1
    <3>2. CASE i # added + 1
      <4>1. i \in 1..added
        BY <1>1, <3>2
      <4>2. model[i].name \in Names
        BY <1>1, <4>1, WeightParts
      <4>3. /\ name_to_index[model[i].name] \in 1..n
            /\ entries[name_to_index[model[i].name]].kind = model[i].kind
        BY <1>1, <4>1 DEF TakenIn
      <4> QED
        BY <2>1, <4>2, <4>3
    <3> QED
      BY <3>1, <3>2
  <2> QED
    BY <1>1, <2>1, <2>3, <2>4 DEF TakenIn
<1>4. CASE AddEntry(w)
  <2>1. /\ Len(entries') = n + 1 /\ entries'[n + 1] = w
        /\ \A e \in 1..n : entries'[e] = entries[e]
        /\ name_to_index'[w.name] = n + 1 /\ name_to_index[w.name] = 0
        /\ \A name \in Names : name # w.name => name_to_index'[name] = name_to_index[name]
    BY <1>1, <1>2, <1>4 DEF AddEntry, TypeOKBuilder, known_name, entry_index
  <2>2. \A e \in 1..(n + 1) : /\ name_to_index'[entries'[e].name] = e
                              /\ \E j \in 1..(added + 1) : model[j] = entries'[e]
    <3> SUFFICES ASSUME NEW e \in 1..(n + 1)
                 PROVE  /\ name_to_index'[entries'[e].name] = e
                        /\ \E j \in 1..(added + 1) : model[j] = entries'[e]
      OBVIOUS
    <3>1. CASE e = n + 1
      BY <1>1, <2>1, <3>1
    <3>2. CASE e # n + 1
      <4>1. /\ e \in 1..n /\ entries'[e] = entries[e]
        BY <2>1, <3>2
      <4>2. /\ name_to_index[entries[e].name] = e /\ entries[e].name \in Names
            /\ \E j \in 1..added : model[j] = entries[e]
        BY <1>1, <4>1, WeightParts DEF TakenIn, TypeOKBuilder
      <4> QED
        BY <1>1, <2>1, <4>1, <4>2
    <3> QED
      BY <3>1, <3>2
  <2>3. \A i \in 1..(added + 1) : /\ name_to_index'[model[i].name] \in 1..(n + 1)
                                  /\ entries'[name_to_index'[model[i].name]].kind = model[i].kind
    <3> SUFFICES ASSUME NEW i \in 1..(added + 1)
                 PROVE  /\ name_to_index'[model[i].name] \in 1..(n + 1)
                        /\ entries'[name_to_index'[model[i].name]].kind = model[i].kind
      OBVIOUS
    <3>1. CASE i = added + 1
      BY <2>1, <3>1
    <3>2. CASE i # added + 1
      <4>1. i \in 1..added
        BY <1>1, <3>2
      <4>2. model[i].name \in Names
        BY <1>1, <4>1, WeightParts
      <4>3. /\ name_to_index[model[i].name] \in 1..n
            /\ entries[name_to_index[model[i].name]].kind = model[i].kind
        BY <1>1, <4>1 DEF TakenIn
      <4> QED
        BY <2>1, <4>2, <4>3
    <3> QED
      BY <3>1, <3>2
  <2> QED
    BY <1>1, <2>1, <2>2, <2>3 DEF TakenIn
<1> QED
  BY <1>3, <1>4

LEMMA BuilderKeepsStep ==
  ASSUME EmissionInv, [Next]_vars
  PROVE  BuilderInStep'
<1>0. BuilderInStep /\ TypeOKBuilder
  BY DEF EmissionInv, IInvBuilder
<1>1. ASSUME NEW m \in Models, EmitModel(m) PROVE BuilderInStep'
  <2>1. /\ step = "idle" /\ reported' = NoModel /\ UNCHANGED <<entries, phase, added>>
        /\ step' = "idle" \/ (step' = "remove" /\ model' = m)
    BY <1>1 DEF EmitModel, builder, adding
  <2>2. entries = <<>> /\ phase = "adding" /\ added = 0 /\ m \in Seq(Weights)
    BY <1>0, <2>1, PackageConstants DEF BuilderInStep
  <2> QED
    BY <2>1, <2>2 DEF BuilderInStep
<1>2. CASE RemoveFile
  <2>1. step = "remove" /\ step' = step
        /\ UNCHANGED <<entries, phase, added, model, reported>>
    BY <1>2 DEF RemoveFile, builder, adding, history
  <2> QED
    BY <1>0, <2>1 DEF BuilderInStep
<1>3. CASE CreateDirectories
  <2>1. /\ step = "remove" /\ step' = "add"
        /\ UNCHANGED <<entries, name_to_index, phase, added, model, reported>>
    BY <1>3 DEF CreateDirectories, builder, adding, history
  <2>2. TakenIn'
    BY <1>0, <2>1 DEF BuilderInStep, TakenIn
  <2> QED
    BY <1>0, <2>1, <2>2 DEF BuilderInStep
<1>4. CASE AddWeight
  <2>1. /\ step = "add" /\ step' = "add" /\ added < Len(model) /\ added' = added + 1
        /\ UNCHANGED <<model, reported>> /\ phase' = "adding" /\ phase = "adding"
    BY <1>4 DEF AddWeight, history, AddKnown, AddAlias, AddEntry
  <2>2. model \in Seq(Weights)
    BY <1>0, <2>1, PackageConstants DEF BuilderInStep
  <2>3. TakenIn'
    BY <1>4, AddsWeight
  <2> QED
    BY <1>0, <2>1, <2>2, <2>3 DEF BuilderInStep
<1>5. CASE Build
  <2>1. /\ step = "add" /\ added = Len(model) /\ UNCHANGED <<model, added, reported>>
        /\ step' = IF phase' = "built" THEN "weights" ELSE "add"
        /\ UNCHANGED <<entries, name_to_index>>
    BY <1>5 DEF Build, StartBuild, WriteBlob, FinishBuild, adding, history
  <2>2. TakenIn'
    BY <1>0, <2>1 DEF BuilderInStep, TakenIn
  <2>3. CASE StartBuild \/ WriteBlob
    <3>1. phase' = "building"
      BY <2>3 DEF StartBuild, WriteBlob
    <3> QED
      BY <1>0, <2>1, <2>2, <3>1 DEF BuilderInStep
  <2>4. CASE FinishBuild
    <3>1. phase' = "built" /\ offsets' = offsets /\ ~ (Len(offsets) < Len(entries))
      BY <2>4 DEF FinishBuild, building, MoreEntries
    <3>2. Len(offsets') = Len(entries') /\ Len(offsets) \in Nat /\ Len(entries) \in Nat
      BY <1>0, <2>1, <3>1 DEF EmissionInv, IInvBuilder, OffsetsFindBlobs, TypeOKBuilder
    <3> QED
      BY <1>0, <2>1, <2>2, <3>1, <3>2 DEF BuilderInStep
  <2> QED
    BY <1>5, <2>3, <2>4 DEF Build
<1>6. CASE WriteWeights \/ WriteModel \/ WriteManifest
  <2>1. /\ step \in {"weights", "model", "manifest"}
        /\ step' \in {"model", "manifest", "hash"}
        /\ UNCHANGED <<entries, name_to_index, offsets, phase, added, model, reported>>
    BY <1>6 DEF WriteWeights, WriteModel, WriteManifest, builder, adding, building, history
  <2>2. TakenIn'
    BY <1>0, <2>1 DEF BuilderInStep, TakenIn
  <2> QED
    BY <1>0, <2>1, <2>2 DEF BuilderInStep
<1>7. CASE ReturnResult \/ WeightsRefused \/ IOError \/ NewProcess
  BY <1>7, Dropped DEF ReturnResult, WeightsRefused, IOError, NewProcess
<1>8. CASE UNCHANGED vars
  <2>1. UNCHANGED <<entries, name_to_index, offsets, phase, added, model, reported, step>>
    BY <1>8 DEF vars, builder, adding, building, history
  <2> QED
    BY <1>0, <2>1 DEF BuilderInStep, TakenIn
<1> QED
  BY <1>1, <1>2, <1>3, <1>4, <1>5, <1>6, <1>7, <1>8 DEF Next

LEMMA FilesKeepStep ==
  ASSUME EmissionInv, [Next]_vars
  PROVE  FilesHold'
<1>0. FilesHold
  BY DEF EmissionInv
<1>1. CASE \/ \E m \in Models : EmitModel(m)
           \/ RemoveFile \/ CreateDirectories \/ AddWeight \/ Build
  <2>1. step' \in {"idle", "remove", "add", "weights"}
    BY <1>1 DEF EmitModel, RemoveFile, CreateDirectories, AddWeight, Build
  <2> QED
    BY <2>1 DEF FilesHold
<1>2. CASE WriteWeights \/ WriteModel \/ WriteManifest \/ UNCHANGED vars
  <2>1. UNCHANGED <<model, blobs, entries, offsets>>
    BY <1>2 DEF WriteWeights, WriteModel, WriteManifest, vars, builder, adding, building
  <2>2. WeightFile' = WeightFile /\ ModelFiles' = ModelFiles /\ ManifestFiles' = ManifestFiles
    BY <2>1 DEF WeightFile, ModelFiles, ManifestFiles, const_value, entry_offset
  <2>3. CASE WriteWeights
    <3>1. step' = "model" /\ weight_bin' = WeightFile
      BY <2>3 DEF WriteWeights
    <3> QED
      BY <2>2, <3>1 DEF FilesHold
  <2>4. CASE WriteModel
    <3>1. step = "model" /\ step' = "manifest" /\ weight_bin' = weight_bin /\ mlmodel' \in ModelFiles
      BY <2>4 DEF WriteModel
    <3> QED
      BY <1>0, <2>2, <3>1 DEF FilesHold
  <2>5. CASE WriteManifest
    <3>1. /\ step = "manifest" /\ step' = "hash" /\ manifest' \in ManifestFiles
          /\ UNCHANGED <<weight_bin, mlmodel>>
      BY <2>5 DEF WriteManifest
    <3> QED
      BY <1>0, <2>2, <3>1 DEF FilesHold
  <2>6. CASE UNCHANGED vars
    <3>1. UNCHANGED <<weight_bin, mlmodel, manifest, step>>
      BY <2>6 DEF vars, package
    <3> QED
      BY <1>0, <2>2, <3>1 DEF FilesHold
  <2> QED
    BY <1>2, <2>3, <2>4, <2>5, <2>6
<1>3. CASE ReturnResult \/ WeightsRefused \/ IOError \/ NewProcess
  BY <1>3, Dropped DEF ReturnResult, WeightsRefused, IOError, NewProcess
<1> QED
  BY <1>1, <1>2, <1>3 DEF Next

LEMMA EmissionStep == EmissionInv /\ [Next]_vars => EmissionInv'
BY BuilderMoves, BuilderKeepsStep, FilesKeepStep, FilesStep DEF EmissionInv

LEMMA EmissionInit == Init => EmissionInv
<1> SUFFICES ASSUME Init PROVE EmissionInv
  OBVIOUS
<1>1. IInvBuilder
  BY InitBuilderIInv DEF Init
<1>2. IInvFiles /\ FilesHold
  BY DEF Init, IInvFiles, OneEmission, FilesInStep, Whole, FilesHold
<1>3. BuilderInStep
  BY DEF Init, EmptyBuilder, BuilderInStep
<1> QED
  BY <1>1, <1>2, <1>3 DEF EmissionInv

-----------------------------------------------------------------------------
(* The package a call reports is whole.                                    *)

\* A constant finds its bytes, however its name came to the builder.
LEMMA ConstantsAreFound ==
  ASSUME EmissionInv, step = "hash", NEW i \in 1..Len(model), Unambiguous(model, i)
  PROVE  Found(model, i)
<1>1. /\ model \in Seq(Weights) /\ added = Len(model) /\ Len(model) \in Nat
      /\ TakenIn /\ TypeOKBuilder /\ OffsetsFindBlobs
      /\ Len(offsets) = Len(entries) /\ Len(entries) \in Nat
      /\ weight_bin = WeightFile /\ mlmodel \in ModelFiles
  BY PackageConstants
  DEF EmissionInv, BuilderInStep, FilesHold, IInvBuilder, TypeOKBuilder
<1>2. /\ mlmodel.values[i] = const_value(model[i])
      /\ weight_bin.blobs = blobs
  BY <1>1 DEF ModelFiles, WeightFile
<1> DEFINE Named == {e \in 1..Len(entries) : entries[e].name = model[i].name}
<1>3. CASE Named = {}
  BY <1>2, <1>3 DEF const_value, Inline, Found
<1>4. CASE Named # {}
  <2>1. PICK e \in Named : const_value(model[i]) = AtOffset(offsets[e])
    BY <1>4 DEF const_value, entry_offset
  <2>2. e \in 1..Len(entries) /\ entries[e].name = model[i].name
    OBVIOUS
  <2>3. /\ e \in 1..Len(blobs) /\ blobs[e].at = offsets[e]
        /\ blobs[e].kind = entries[e].kind /\ blobs[e].content = entries[e].content
    BY <1>1, <2>2 DEF OffsetsFindBlobs
  <2>4. entries[e].kind = model[i].kind
    <3>1. name_to_index[entries[e].name] = e
      BY <1>1, <2>2 DEF TakenIn
    <3>2. entries[name_to_index[model[i].name]].kind = model[i].kind
      BY <1>1 DEF TakenIn
    <3> QED
      BY <2>2, <3>1, <3>2
  <2>5. entries[e].content = model[i].content
    <3>1. PICK j \in 1..Len(model) : model[j] = entries[e]
      BY <1>1, <2>2 DEF TakenIn
    <3> QED
      BY <2>2, <3>1 DEF Unambiguous
  <2>6. ~ mlmodel.values[i].inline /\ mlmodel.values[i].offset = offsets[e]
    BY <1>2, <2>1 DEF AtOffset
  <2> QED
    BY <1>2, <2>3, <2>4, <2>5, <2>6 DEF Found
<1> QED
  BY <1>3, <1>4

LEMMA FilesAreWhole ==
  ASSUME EmissionInv, step = "hash"
  PROVE  Whole(weight_bin) /\ Whole(mlmodel) /\ Whole(manifest) /\ mlmodel.model = model
<1> DEFINE Values == [inline : {TRUE}, content : Contents] \union [inline : {FALSE}, offset : Nat]
<1>1. /\ model \in Models /\ model \in Seq(Weights) /\ TypeOKBuilder
      /\ weight_bin = WeightFile /\ mlmodel \in ModelFiles /\ manifest \in ManifestFiles
      /\ Len(offsets) = Len(entries)
  BY PackageConstants DEF EmissionInv, BuilderInStep, FilesHold, IInvBuilder
<1>2. weight_bin \in [model : Models, blobs : Seq(Blobs)]
  BY <1>1 DEF WeightFile, TypeOKBuilder
<1>3. ASSUME NEW i \in 1..Len(model) PROVE const_value(model[i]) \in Values
  <2>1. model[i].content \in Contents
    BY <1>1, WeightParts
  <2>2. \A e \in 1..Len(entries) : offsets[e] \in Nat
    BY <1>1 DEF TypeOKBuilder
  <2> DEFINE Named == {e \in 1..Len(entries) : entries[e].name = model[i].name}
  <2>3. CASE Named = {}
    BY <2>1, <2>3 DEF const_value, Inline
  <2>4. CASE Named # {}
    BY <2>2, <2>4 DEF const_value, AtOffset, entry_offset
  <2> QED
    BY <2>3, <2>4
<1> HIDE DEF Values
<1>4. [i \in 1..Len(model) |-> const_value(model[i])] \in Seq(Values)
  BY <1>1, <1>3
<1>5. MapOrders(model # <<>>) \subseteq {1, 2}
  BY DEF MapOrders
<1>6. mlmodel \in [model : Models, values : Seq(Values), order : {1, 2}] /\ mlmodel.model = model
  BY <1>1, <1>4, <1>5 DEF ModelFiles
<1>7. manifest \in [model : Models, order : {1, 2}]
  BY <1>1, <1>5 DEF ManifestFiles
<1> QED
  BY <1>2, <1>6, <1>7, ContentsAreOther DEF Whole, Values

LEMMA WholeWhenReported == EmissionInv /\ step = "hash" => WholeModel = model
<1> SUFFICES ASSUME EmissionInv, step = "hash" PROVE WholeModel = model
  OBVIOUS
<1>1. Whole(weight_bin) /\ Whole(mlmodel) /\ Whole(manifest) /\ mlmodel.model = model
  BY FilesAreWhole
<1>2. OneEmission
  BY DEF EmissionInv, IInvFiles
<1>3. \A i \in 1..Len(mlmodel.model) :
        Unambiguous(mlmodel.model, i) => Found(mlmodel.model, i)
  BY <1>1, ConstantsAreFound
<1> QED
  BY <1>1, <1>2, <1>3 DEF WholeModel

LEMMA WholeWhenWritten == (EmissionInv /\ step = "hash" => WholeModel = model)'
BY WholeWhenReported, PTL

-----------------------------------------------------------------------------
(* Step by step.                                                           *)

LEMMA SamePackage ==
  ASSUME UNCHANGED package
  PROVE  WholeModel' = WholeModel
BY DEF package, WholeModel, Whole, OneEmission, Unambiguous, Found

LEMMA BrokenPackage ==
  /\ weight_bin \in {NoFile, Torn} \/ mlmodel \in {NoFile, Torn} \/ manifest \in {NoFile, Torn}
     => WholeModel = NoModel
  /\ weight_bin' \in {NoFile, Torn} \/ mlmodel' \in {NoFile, Torn} \/ manifest' \in {NoFile, Torn}
     => WholeModel' = NoModel
BY DEF WholeModel, Whole

LEMMA CutShortBreaks ==
  ASSUME CutShort
  PROVE  WholeModel' = WholeModel \/ WholeModel' = NoModel
BY SamePackage, BrokenPackage DEF CutShort

LEMMA PackageStep ==
  ASSUME EmissionInv, [Next]_vars
  PROVE  [P!Next]_<<WholeModel, reported>>
<1>0. /\ step # "idle" => model \in Models /\ reported = NoModel
      /\ FilesInStep
  BY DEF EmissionInv, BuilderInStep, IInvFiles
<1>1. CASE \E m \in Models : EmitModel(m)
  <2>1. WholeModel' = WholeModel /\ reported' = NoModel
    BY <1>1, SamePackage DEF EmitModel
  <2> QED
    BY <2>1 DEF P!Next, P!Begin
<1>2. CASE RemoveFile
  <2>1. WholeModel' = NoModel /\ reported' = reported /\ reported = NoModel
    BY <1>0, <1>2, BrokenPackage DEF RemoveFile, history
  <2> QED
    BY <2>1 DEF P!Next, P!Break
<1>3. CASE CreateDirectories \/ AddWeight \/ Build \/ WeightsRefused \/ UNCHANGED vars
  <2>1. UNCHANGED package /\ reported' = reported
    BY <1>3 DEF CreateDirectories, AddWeight, Build, WeightsRefused, vars, history
  <2> QED
    BY <2>1, SamePackage
<1>4. CASE WriteWeights
  <2>1. step = "weights" /\ mlmodel = NoFile /\ mlmodel' = mlmodel /\ reported' = reported
    BY <1>0, <1>4 DEF WriteWeights, FilesInStep, Gone, history
  <2> QED
    BY <2>1, BrokenPackage
<1>5. CASE WriteModel
  <2>1. step = "model" /\ manifest = NoFile /\ manifest' = manifest /\ reported' = reported
    BY <1>0, <1>5 DEF WriteModel, FilesInStep, history
  <2> QED
    BY <2>1, BrokenPackage
<1>6. CASE WriteManifest
  <2>1. /\ step = "manifest" /\ manifest = NoFile /\ reported' = reported /\ reported = NoModel
        /\ step' = "hash" /\ model' = model /\ model \in Models
    BY <1>0, <1>6 DEF WriteManifest, FilesInStep, history
  <2>2. WholeModel = NoModel
    BY <2>1, BrokenPackage
  <2>3. EmissionInv'
    BY EmissionStep
  <2>4. WholeModel' = model'
    BY <2>1, <2>3, WholeWhenWritten
  <2> QED
    BY <2>1, <2>2, <2>4 DEF P!Next, P!Complete
<1>7. CASE ReturnResult
  <2>1. step = "hash" /\ reported' = model /\ UNCHANGED package
    BY <1>7 DEF ReturnResult
  <2>2. WholeModel = model /\ WholeModel' = WholeModel /\ model \in Models
    BY <1>0, <2>1, WholeWhenReported, SamePackage
  <2> QED
    BY <2>1, <2>2, PackageConstants DEF P!Next, P!Report
<1>8. CASE IOError \/ NewProcess
  <2>1. CutShort /\ reported' = reported
    BY <1>8 DEF IOError, NewProcess, history
  <2>2. CASE step = "idle"
    <3>1. UNCHANGED package
      BY <2>1, <2>2 DEF CutShort
    <3> QED
      BY <2>1, <3>1, SamePackage
  <2>3. CASE step # "idle"
    <3>1. WholeModel' = WholeModel \/ WholeModel' = NoModel
      BY <2>1, CutShortBreaks
    <3> QED
      BY <1>0, <2>1, <2>3, <3>1 DEF P!Next, P!Break
  <2> QED
    BY <2>2, <2>3
<1> QED
  BY <1>1, <1>2, <1>3, <1>4, <1>5, <1>6, <1>7, <1>8 DEF Next

(* Emission implements Package: whatever fails or dies, and whatever names *)
(* and bytes the constants of a model share, a model that was reported is  *)
(* on disk whole, with every constant found, until the next emission.      *)
THEOREM EmissionImplementsPackage == Spec => ImplementsPackage
<1>1. Init => P!Init
  BY BrokenPackage DEF Init, P!Init
<1>2. EmissionInv /\ [Next]_vars => [P!Next]_<<WholeModel, reported>>
  BY PackageStep
<1>3. Spec => []EmissionInv
  BY EmissionInit, EmissionStep, PTL DEF Spec
<1> QED
  BY <1>1, <1>2, <1>3, PTL DEF Spec, ImplementsPackage, P!Spec

=============================================================================
