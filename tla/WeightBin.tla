------------------------------ MODULE WeightBin ------------------------------
(***************************************************************************)
(* WeightBinBuilder of crates/coreml-emit: collects the weights of a model *)
(* and lays them out in weight.bin, Core ML's blob storage format.         *)
(*                                                                         *)
(* A weight whose name is known is never stored again, whatever its data,  *)
(* as long as its shape and dtype agree.  With content deduplication a new *)
(* name whose data is known becomes an alias of the stored entry.  build() *)
(* then writes one aligned blob per entry and records where it is.         *)
(*                                                                         *)
(* A shape and a dtype together are a kind.  The bytes of a tensor are a   *)
(* content, which also stands for its SHA-256 hash.  Vectors are counted   *)
(* from 1, and index 0 in a map stands for an absent key.  The map of      *)
(* aliases is left out: the code only inserts into it.                     *)
(*                                                                         *)
(* Operators that stand before the operator they vary, and that nothing    *)
(* uses, are its mutants: see the README.                                  *)
(***************************************************************************)
EXTENDS Integers, Sequences, FiniteSets

CONSTANTS
  Names,          \* names of weights
  Kinds,          \* shapes with their dtypes
  Encodable,      \* the kinds whose dtype has a blob representation
  Contents,       \* bytes of weights
  Size,           \* content -> its length
  NoWeight,       \* no weight has been accepted under a name
  MaxNameHits     \* bound on name_dedup.count

ASSUME WeightBinConstants ==
  /\ Encodable \subseteq Kinds
  /\ Size \in [Contents -> Nat]
  /\ MaxNameHits \in Nat

Weights == [name : Names, kind : Kinds, content : Contents]

ASSUME NoWeightIsNone == NoWeight \notin Weights

BLOB_ALIGNMENT == 64
STORAGE_HEADER_SIZE == 64
BLOB_METADATA_SIZE == 64

VARIABLES
  phase,                  \* "adding" weights, "building", "built" or "failed"
  entries,                \* the weights stored, in file order
  name_to_index,          \* name -> entry
  content_hash_to_index,  \* content -> entry
  enable_content_dedup,
  name_dedup,             \* count and bytes saved by name
  content_dedup,          \* count and bytes saved by content
  current_pos,            \* build(): where the next blob goes
  offsets,                \* build(): WeightEntry.offset of the entries written
  buf_len,                \* build(): length of the buffer
  blobs,                  \* build(): what the buffer holds
  first,                  \* history: the first weight accepted under a name
  bytes_given             \* history: the bytes of all weights accepted

dedup == <<name_dedup, content_dedup>>
adding == <<entries, name_to_index, content_hash_to_index, dedup, first, bytes_given>>
building == <<current_pos, offsets, buf_len, blobs>>
builder == <<phase, adding, enable_content_dedup, building>>

-----------------------------------------------------------------------------
(* Adding weights.                                                         *)

NothingSaved == [count |-> 0, bytes |-> 0]

EmptyBuilder(with_content_dedup) ==
  /\ phase = "adding"
  /\ entries = <<>>
  /\ name_to_index = [n \in Names |-> 0]
  /\ content_hash_to_index = [c \in Contents |-> 0]
  /\ enable_content_dedup = with_content_dedup
  /\ name_dedup = NothingSaved /\ content_dedup = NothingSaved
  /\ current_pos = 0 /\ offsets = <<>> /\ buf_len = 0 /\ blobs = <<>>
  /\ first = [n \in Names |-> NoWeight]
  /\ bytes_given = 0

(* new() or new().with_content_dedup(): the earlier builder was consumed   *)
(* by build() or dropped with the error it returned.                       *)
NewBuilder(with_content_dedup) ==
  /\ phase' = "adding"
  /\ entries' = <<>>
  /\ name_to_index' = [n \in Names |-> 0]
  /\ content_hash_to_index' = [c \in Contents |-> 0]
  /\ enable_content_dedup' = with_content_dedup
  /\ name_dedup' = NothingSaved /\ content_dedup' = NothingSaved
  /\ current_pos' = 0 /\ offsets' = <<>> /\ buf_len' = 0 /\ blobs' = <<>>
  /\ first' = [n \in Names |-> NoWeight]
  /\ bytes_given' = 0

\* A weight that was not stored is counted with its bytes.
one_more(saved, w) == [count |-> saved.count + 1, bytes |-> saved.bytes + Size[w.content]]

Accept(w) ==
  /\ first' = IF first[w.name] = NoWeight THEN [first EXCEPT ![w.name] = w] ELSE first
  /\ bytes_given' = bytes_given + Size[w.content]

same_kind_unchecked(idx, w) == TRUE

\* existing.shape == shape && existing.dtype == dtype
same_kind(idx, w) == entries[idx].kind = w.kind

entry_index_after_push == Len(entries) + 2

\* Where the next new entry goes.
entry_index == Len(entries) + 1

known_name(w) == name_to_index[w.name] # 0

(* The entry the data of `w` would be shared with.                         *)
shareable(w) ==
  /\ enable_content_dedup
  /\ content_hash_to_index[w.content] # 0
  /\ same_kind(content_hash_to_index[w.content], w)

\* add_weight: the name is known, and the data handed over is dropped.
AddKnown(w) ==
  /\ phase = "adding"
  /\ known_name(w) /\ same_kind(name_to_index[w.name], w)
  /\ name_dedup.count < MaxNameHits
  /\ name_dedup' = one_more(name_dedup, w)
  /\ Accept(w)
  /\ UNCHANGED <<phase, entries, name_to_index, content_hash_to_index,
                 content_dedup, enable_content_dedup, building>>

\* add_weight: the name is known with another shape or dtype; nothing changes.
Mismatch(w) ==
  /\ phase = "adding"
  /\ known_name(w) /\ ~same_kind(name_to_index[w.name], w)

\* add_weight: the data is known, and the name becomes an alias.
AddAlias(w) ==
  /\ phase = "adding"
  /\ ~known_name(w) /\ shareable(w)
  /\ name_to_index' = [name_to_index EXCEPT ![w.name] = content_hash_to_index[w.content]]
  /\ content_dedup' = one_more(content_dedup, w)
  /\ Accept(w)
  /\ UNCHANGED <<phase, entries, content_hash_to_index, name_dedup,
                 enable_content_dedup, building>>

\* add_weight: a new entry.  A known content of another kind is forgotten.
AddEntry(w) ==
  /\ phase = "adding"
  /\ ~known_name(w) /\ ~shareable(w)
  /\ entries' = Append(entries, w)
  /\ name_to_index' = [name_to_index EXCEPT ![w.name] = entry_index]
  /\ content_hash_to_index' =
       IF enable_content_dedup
       THEN [content_hash_to_index EXCEPT ![w.content] = entry_index]
       ELSE content_hash_to_index
  /\ Accept(w)
  /\ UNCHANGED <<phase, dedup, enable_content_dedup, building>>

-----------------------------------------------------------------------------
(* Building the file.                                                      *)

align_up(value, alignment) == ((value + alignment - 1) \div alignment) * alignment

no_padding(from, to) == 0

padding(from, to) == IF to > from THEN to - from ELSE 0

StartBuild ==
  /\ phase = "adding"
  /\ phase' = "building"
  /\ current_pos' = STORAGE_HEADER_SIZE
  /\ buf_len' = STORAGE_HEADER_SIZE
  /\ UNCHANGED <<adding, enable_content_dedup, offsets, blobs>>

next_entry == entries[Len(offsets) + 1]
MoreEntries == Len(offsets) < Len(entries)

(* Where the parts of the next blob belong.                                *)
metadata_offset == align_up(current_pos, BLOB_ALIGNMENT)
data_offset == metadata_offset + BLOB_METADATA_SIZE
data_end == data_offset + Size[next_entry.content]
padded_end_unaligned == data_end
padded_end == align_up(data_end, BLOB_ALIGNMENT)

(* Where the buffer really stands when the metadata is appended to it.     *)
metadata_at == buf_len + padding(current_pos, metadata_offset)

\* One turn of the loop over the entries.
WriteBlob ==
  /\ phase = "building"
  /\ MoreEntries
  /\ next_entry.kind \in Encodable
  /\ offsets' = Append(offsets, metadata_offset)
  /\ blobs' = Append(blobs, [at |-> metadata_at,
                             points_to |-> data_offset,
                             kind |-> next_entry.kind,
                             content |-> next_entry.content])
  /\ buf_len' = metadata_at + BLOB_METADATA_SIZE + Size[next_entry.content]
                  + padding(data_end, padded_end)
  /\ current_pos' = padded_end
  /\ UNCHANGED <<phase, adding, enable_content_dedup>>

\* The dtype of the next entry has no blob representation.
Unencodable == phase = "building" /\ MoreEntries /\ next_entry.kind \notin Encodable

BuildFails ==
  /\ Unencodable
  /\ phase' = "failed"
  /\ UNCHANGED <<adding, enable_content_dedup, building>>

FinishBuild ==
  /\ phase = "building"
  /\ ~MoreEntries
  /\ phase' = "built"
  /\ UNCHANGED <<adding, enable_content_dedup, building>>

\* Per entry, what build() will write of data and of padding behind it.
data_sizes == [i \in 1..Len(entries) |-> Size[entries[i].content]]

paddings ==
  [i \in 1..Len(entries) |-> align_up(data_sizes[i], BLOB_ALIGNMENT) - data_sizes[i]]

\* The sums of the first values of a sequence.
running_sum(values) ==
  LET sum[i \in 0..Len(values)] == IF i = 0 THEN 0 ELSE sum[i - 1] + values[i]
  IN sum

data_total == running_sum(data_sizes)[Len(entries)]
padding_per_entry == running_sum(paddings)[Len(entries)]

\* What estimated_size() says before the file is built.
estimated_size ==
  STORAGE_HEADER_SIZE + BLOB_METADATA_SIZE * Len(entries) + data_total + padding_per_entry

-----------------------------------------------------------------------------
(* The specification of a builder on its own: a caller adds any weights in *)
(* any order, builds, and starts over.                                     *)

InitBuilder == \E d \in BOOLEAN : EmptyBuilder(d)

NextBuilder ==
  \/ \E w \in Weights : AddKnown(w) \/ AddAlias(w) \/ AddEntry(w)
  \/ StartBuild \/ WriteBlob \/ BuildFails \/ FinishBuild
  \/ /\ phase \in {"built", "failed"}
     /\ \E d \in BOOLEAN : NewBuilder(d)

SpecBuilder == InitBuilder /\ [][NextBuilder]_builder

-----------------------------------------------------------------------------
(* Properties.                                                             *)

Saved == [count : Nat, bytes : Nat]
Blobs == [at : Nat, points_to : Nat, kind : Kinds, content : Contents]

(* The variables of the builder have the types of the fields they model,   *)
(* and no map points past the entries.                                     *)
TypeOKBuilder ==
  /\ phase \in {"adding", "building", "built", "failed"}
  /\ entries \in Seq(Weights)
  /\ name_to_index \in [Names -> 0..Len(entries)]
  /\ content_hash_to_index \in [Contents -> 0..Len(entries)]
  /\ enable_content_dedup \in BOOLEAN
  /\ name_dedup \in Saved /\ content_dedup \in Saved
  /\ current_pos \in Nat /\ offsets \in Seq(Nat)
  /\ buf_len \in Nat /\ blobs \in Seq(Blobs)
  /\ first \in [Names -> Weights \union {NoWeight}]
  /\ bytes_given \in Nat

(* Every accepted name leads to an entry with the shape, the dtype and the *)
(* bytes it was first accepted with, through any chain of aliases and      *)
(* however often weights of other kinds came in with the same bytes.       *)
NamesResolve ==
  \A n \in Names : first[n] # NoWeight =>
    /\ name_to_index[n] \in 1..Len(entries)
    /\ entries[name_to_index[n]].kind = first[n].kind
    /\ entries[name_to_index[n]].content = first[n].content

(* The offset recorded for an entry is where its metadata really is in the *)
(* buffer, and the metadata points at the entry's own bytes.               *)
OffsetsFindBlobs ==
  /\ Len(blobs) = Len(offsets) /\ Len(offsets) <= Len(entries)
  /\ \A i \in 1..Len(offsets) :
       /\ blobs[i].at = offsets[i]
       /\ blobs[i].points_to = blobs[i].at + BLOB_METADATA_SIZE
       /\ blobs[i].kind = entries[i].kind
       /\ blobs[i].content = entries[i].content

BlobEnd(i) == blobs[i].points_to + Size[blobs[i].content]

(* Every blob is aligned, lies behind the header and within the file, and  *)
(* no two blobs overlap, whatever the sizes of the weights.                *)
BlobsDisjoint ==
  \A i \in 1..Len(blobs) :
    /\ blobs[i].at % BLOB_ALIGNMENT = 0
    /\ blobs[i].at >= STORAGE_HEADER_SIZE
    /\ BlobEnd(i) <= buf_len
    /\ \A j \in 1..Len(blobs) : i < j => BlobEnd(i) <= blobs[j].at

(* The layout of weight.bin is sound: offsets lead to the right bytes, and *)
(* every byte belongs to one blob.                                         *)
LayoutIsSound == OffsetsFindBlobs /\ BlobsDisjoint

(* The file that build() returns is as long as total_size says and as      *)
(* estimated_size() announced, and every byte handed to add_weight is      *)
(* either stored once or counted as saved by one of the deduplications.    *)
SizesAddUp ==
  /\ phase = "built" => buf_len = current_pos /\ buf_len = estimated_size
  /\ bytes_given = data_total + name_dedup.bytes + content_dedup.bytes

=============================================================================
