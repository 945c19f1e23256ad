------------------------ MODULE KnowledgeStoreProofs ------------------------
(***************************************************************************)
(* Proofs about KnowledgeStore, for every set of ids, types, sources,      *)
(* units, seed directories and snapshots.                                  *)
(***************************************************************************)
EXTENDS KnowledgeStore, FiniteSetTheorems, TLAPS

(* Multiplying by a percentage and dividing by 100 does not increase a     *)
(* confidence, so decay keeps it in range.                                 *)
LEMMA DecayInRange ==
  ASSUME NEW c \in 0 .. MaxConfidence, NEW percent \in Nat
  PROVE  apply_time_decay(c, percent) \in 0 .. MaxConfidence
<1> USE UnitConstants
<1>1. CASE percent >= 100
  BY <1>1 DEF apply_time_decay
<1>2. CASE percent < 100
  <2> DEFINE k == 100 - percent
  <2>1. k \in 0 .. 100
    BY <1>2
  <2>2. c * k \in Nat /\ c * k <= c * 100
    BY <2>1
  <2> HIDE DEF k
  <2> DEFINE n == c * k
  <2>3. n \in Nat /\ n <= c * 100
    BY <2>2
  <2> HIDE DEF n
  <2>4. n \div 100 \in 0 .. c
    BY <2>3
  <2>5. apply_time_decay(c, percent) = n \div 100
    BY <1>2, <2>1 DEF apply_time_decay, n, k
  <2> QED
    BY <2>4, <2>5
<1> QED
  BY <1>1, <1>2

(* A part of a finite set has a natural number of elements, and at least   *)
(* one if it has an element.                                               *)
LEMMA PartOfFinite ==
  ASSUME NEW S, IsFiniteSet(S), NEW T \in SUBSET S
  PROVE  /\ Cardinality(T) \in Nat
         /\ T # {} => Cardinality(T) > 0
<1>1. IsFiniteSet(T)
  BY FS_Subset
<1> QED
  BY <1>1, FS_CardinalityType, FS_EmptySet

(* The entries the operations build are entries, and keep what they should *)
(* of the entry they are built from.                                       *)
LEMMA NewEntry ==
  ASSUME NEW u \in KnowledgeUnit, NEW s \in {"Seed", "Observation"}
  PROVE  /\ new_entry(u, s) \in KnowledgeEntry
         /\ new_entry(u, s).unit = u /\ new_entry(u, s).source = s
BY DEF new_entry, KnowledgeEntry

LEMMA Flagged ==
  ASSUME NEW e \in KnowledgeEntry, NEW found \in SUBSET Ids
  PROVE  /\ flagged(e, found) \in KnowledgeEntry
         /\ flagged(e, found).unit = e.unit /\ flagged(e, found).source = e.source
BY DEF flagged, KnowledgeEntry

LEMMA BackPatched ==
  ASSUME NEW e \in KnowledgeEntry, NEW id \in Ids
  PROVE  /\ back_patched(e, id) \in KnowledgeEntry
         /\ back_patched(e, id).unit = e.unit /\ back_patched(e, id).source = e.source
BY DEF back_patched, KnowledgeEntry

LEMMA Revised ==
  ASSUME NEW e \in KnowledgeEntry, NEW u \in KnowledgeUnit
  PROVE  /\ revised(e, u) \in KnowledgeEntry
         /\ revised(e, u).unit = u /\ revised(e, u).source = "Observation"
BY DEF revised, KnowledgeEntry

LEMMA UpdatedEntry ==
  ASSUME TypeOK, NEW u \in KnowledgeUnit
  PROVE  /\ updated_entry(u) \in KnowledgeEntry
         /\ updated_entry(u).unit = u /\ updated_entry(u).source = "Observation"
<1>1. index[u.id] \in KnowledgeEntry \union {NoEntry}
  BY DEF TypeOK, KnowledgeUnit
<1> QED
  BY <1>1, NewEntry, Revised DEF updated_entry

(* What reloading finds for an id is an entry or nothing, if every file    *)
(* parses.                                                                 *)
LEMMA EntryIn ==
  ASSUME TypeOK, Readable, NEW id \in Ids
  PROVE  /\ entry_in(seed_files, id) \in KnowledgeEntry \union {NoEntry}
         /\ entry_in(obs_files, id) \in KnowledgeEntry \union {NoEntry}
         /\ loaded_index[id] \in KnowledgeEntry \union {NoEntry}
<1>1. FileOf[id] \in Files
  BY UnitConstants
<1>2. /\ seed_files[FileOf[id]] \in KnowledgeEntry \union {NoEntry}
      /\ obs_files[FileOf[id]] \in KnowledgeEntry \union {NoEntry}
  BY <1>1 DEF TypeOK, Readable
<1>3. /\ entry_in(seed_files, id) \in KnowledgeEntry \union {NoEntry}
      /\ entry_in(obs_files, id) \in KnowledgeEntry \union {NoEntry}
  BY <1>2 DEF entry_in
<1> QED
  BY <1>3 DEF loaded_index

(* Pushing the ids of a finite set of units keeps the secondary indexes    *)
(* well typed, forgets nothing and adds every unit.                        *)
LEMMA PushTypes ==
  ASSUME TypeOK, NEW units \in SUBSET KnowledgeUnit, IsFiniteSet(units)
  PROVE  /\ push_types(units) \in Secondary(Types)
         /\ \A t \in Types, id \in Ids : push_types(units)[t][id] >= type_index[t][id]
         /\ \A u \in units : push_types(units)[u.knowledge_type][u.id] > 0
<1> DEFINE Part(t, id) == {u \in units : u.knowledge_type = t /\ u.id = id}
<1>1. \A t \in Types, id \in Ids :
        /\ Cardinality(Part(t, id)) \in Nat
        /\ Part(t, id) # {} => Cardinality(Part(t, id)) > 0
  BY PartOfFinite
<1>2. \A t \in Types, id \in Ids : type_index[t][id] \in Nat
  BY DEF TypeOK, Secondary
<1>3. \A t \in Types, id \in Ids :
        push_types(units)[t][id] = type_index[t][id] + Cardinality(Part(t, id))
  BY DEF push_types
<1>4. \A u \in units : /\ u.knowledge_type \in Types /\ u.id \in Ids
                       /\ u \in Part(u.knowledge_type, u.id)
  BY DEF KnowledgeUnit
<1> HIDE DEF Part
<1>5. push_types(units) \in Secondary(Types)
  <2>1. \A t \in Types, id \in Ids : push_types(units)[t][id] \in Nat
    BY <1>1, <1>2, <1>3
  <2>2. push_types(units) = [t \in Types |-> [id \in Ids |-> push_types(units)[t][id]]]
    BY DEF push_types
  <2> QED
    BY <2>1, <2>2 DEF Secondary
<1>6. \A t \in Types, id \in Ids : push_types(units)[t][id] >= type_index[t][id]
  BY <1>1, <1>2, <1>3
<1>7. \A u \in units : push_types(units)[u.knowledge_type][u.id] > 0
  BY <1>1, <1>2, <1>3, <1>4
<1> QED
  BY <1>5, <1>6, <1>7

LEMMA PushSources ==
  ASSUME TypeOK, NEW units \in SUBSET KnowledgeUnit, IsFiniteSet(units)
  PROVE  /\ push_sources(units) \in Secondary(Sources)
         /\ \A s \in Sources, id \in Ids : push_sources(units)[s][id] >= source_index[s][id]
         /\ \A u \in units : push_sources(units)[u.evidence_source][u.id] > 0
<1> DEFINE Part(s, id) == {u \in units : u.evidence_source = s /\ u.id = id}
<1>1. \A s \in Sources, id \in Ids :
        /\ Cardinality(Part(s, id)) \in Nat
        /\ Part(s, id) # {} => Cardinality(Part(s, id)) > 0
  BY PartOfFinite
<1>2. \A s \in Sources, id \in Ids : source_index[s][id] \in Nat
  BY DEF TypeOK, Secondary
<1>3. \A s \in Sources, id \in Ids :
        push_sources(units)[s][id] = source_index[s][id] + Cardinality(Part(s, id))
  BY DEF push_sources
<1>4. \A u \in units : /\ u.evidence_source \in Sources /\ u.id \in Ids
                       /\ u \in Part(u.evidence_source, u.id)
  BY DEF KnowledgeUnit
<1> HIDE DEF Part
<1>5. push_sources(units) \in Secondary(Sources)
  <2>1. \A s \in Sources, id \in Ids : push_sources(units)[s][id] \in Nat
    BY <1>1, <1>2, <1>3
  <2>2. push_sources(units) = [s \in Sources |-> [id \in Ids |-> push_sources(units)[s][id]]]
    BY DEF push_sources
  <2> QED
    BY <2>1, <2>2 DEF Secondary
<1>6. \A s \in Sources, id \in Ids : push_sources(units)[s][id] >= source_index[s][id]
  BY <1>1, <1>2, <1>3
<1>7. \A u \in units : push_sources(units)[u.evidence_source][u.id] > 0
  BY <1>1, <1>2, <1>3, <1>4
<1> QED
  BY <1>5, <1>6, <1>7

(* Moving an id from one key to another: it is listed below the new key,   *)
(* and nothing changes for other ids.                                      *)
LEMMA Moved ==
  ASSUME NEW Keys, NEW sec \in Secondary(Keys), NEW id \in Ids,
         NEW old \in Keys, NEW new \in Keys
  PROVE  /\ moved(sec, id, old, new) \in Secondary(Keys)
         /\ sec[old][id] > 0 => moved(sec, id, old, new)[new][id] > 0
<1>1. CASE old = new
  BY <1>1 DEF moved
<1>2. CASE old # new
  <2> DEFINE cleared == [sec EXCEPT ![old][id] = 0]
  <2>1. cleared \in Secondary(Keys)
    BY DEF Secondary
  <2>2. moved(sec, id, old, new) = [cleared EXCEPT ![new][id] = cleared[new][id] + 1]
    BY <1>2 DEF moved, Secondary
  <2> HIDE DEF cleared
  <2> QED
    BY <2>1, <2>2 DEF Secondary
<1> QED
  BY <1>1, <1>2

LEMMA MovedOthers ==
  ASSUME NEW Keys, NEW sec \in Secondary(Keys), NEW id \in Ids,
         NEW old \in Keys, NEW new \in Keys,
         NEW k \in Keys, NEW other \in Ids, other # id
  PROVE  moved(sec, id, old, new)[k][other] = sec[k][other]
BY DEF moved, Secondary

-----------------------------------------------------------------------------
(* The inductive invariant.  Besides types and the completeness of the     *)
(* secondary indexes it says that a closed store holds nothing in memory,  *)
(* so that opening it is no change of an entry.                            *)
ClosedIsEmpty == step = "closed" => Present = {}

IInv == TypeOK /\ QueriesMissNothing /\ ClosedIsEmpty

(* What a step may do to memory.                                           *)
MemoryTyped ==
  /\ index \in [Ids -> KnowledgeEntry \union {NoEntry}]
  /\ type_index \in Secondary(Types)
  /\ source_index \in Secondary(Sources)
  /\ QueriesMissNothing

SeedsKept ==
  \A id \in Ids :
    index[id] # NoEntry /\ index'[id] # NoEntry /\ index[id].source = "Seed"
      => index'[id].source = "Seed"

(* The keys of an entry are keys of the secondary indexes.                 *)
LEMMA EntryKeys ==
  ASSUME NEW e \in KnowledgeEntry
  PROVE  /\ e.unit \in KnowledgeUnit
         /\ e.unit.knowledge_type \in Types
         /\ e.unit.evidence_source \in Sources
         /\ e.unit.id \in Ids
BY DEF KnowledgeEntry, KnowledgeUnit

(* Memory after open: each entry found was pushed below its keys.          *)
LEMMA LoadMemory ==
  ASSUME TypeOK, ClosedIsEmpty, LoadExisting
  PROVE  MemoryTyped' /\ SeedsKept
<1>1. Readable /\ index' = loaded_index /\ step = "closed"
  BY DEF LoadExisting
<1>2. \A id \in Ids : index'[id] \in KnowledgeEntry \union {NoEntry}
  BY <1>1, EntryIn
<1>3. index' \in [Ids -> KnowledgeEntry \union {NoEntry}]
  <2>1. index' = [id \in Ids |-> index'[id]]
    BY <1>1 DEF loaded_index
  <2> QED
    BY <1>2, <2>1
<1>4. type_index' \in Secondary(Types) /\ source_index' \in Secondary(Sources)
  BY DEF LoadExisting, loaded_copies, Secondary, One
<1>5. ASSUME NEW id \in Ids, index'[id] # NoEntry
      PROVE  /\ type_index'[index'[id].unit.knowledge_type][id] > 0
             /\ source_index'[index'[id].unit.evidence_source][id] > 0
  <2>1. index'[id] \in KnowledgeEntry
    BY <1>2, <1>5
  <2>2. index'[id].unit.knowledge_type \in Types /\ index'[id].unit.evidence_source \in Sources
    BY <2>1, EntryKeys
  <2>3. \/ entry_in(obs_files, id) # NoEntry /\ index'[id] = entry_in(obs_files, id)
        \/ entry_in(seed_files, id) # NoEntry /\ index'[id] = entry_in(seed_files, id)
    BY <1>1, <1>5 DEF loaded_index
  <2> QED
    BY <2>2, <2>3 DEF LoadExisting, loaded_copies, One
<1>6. SeedsKept
  BY <1>1 DEF ClosedIsEmpty, Present, SeedsKept
<1> QED
  BY <1>3, <1>4, <1>5, <1>6 DEF MemoryTyped, QueriesMissNothing, Present

(* Memory after seeds were read: ids read have the last unit read, which   *)
(* was pushed; the others keep their entry and every occurrence.           *)
LEMMA AbsorbMemory ==
  ASSUME TypeOK, QueriesMissNothing,
         NEW units \in SUBSET KnowledgeUnit, IsFiniteSet(units), Absorb(units)
  PROVE  MemoryTyped' /\ SeedsKept /\ compared' \subseteq compared
<1> DEFINE ids == {u.id : u \in units}
<1>1. PICK last \in [ids -> units] :
        /\ \A id \in ids : last[id].id = id
        /\ index' = [id \in Ids |-> IF id \in ids THEN new_entry(last[id], "Seed")
                                                   ELSE index[id]]
  BY DEF Absorb
<1>2. type_index' = push_types(units) /\ source_index' = push_sources(units)
  BY DEF Absorb
<1>3. \A id \in ids : last[id] \in units /\ last[id] \in KnowledgeUnit
  OBVIOUS
<1> HIDE DEF ids
<1>4. \A id \in ids : /\ new_entry(last[id], "Seed") \in KnowledgeEntry
                      /\ new_entry(last[id], "Seed").unit = last[id]
                      /\ new_entry(last[id], "Seed").source = "Seed"
  BY <1>3, NewEntry
<1>5. index' \in [Ids -> KnowledgeEntry \union {NoEntry}]
  BY <1>1, <1>4 DEF TypeOK
<1>6. type_index' \in Secondary(Types) /\ source_index' \in Secondary(Sources)
  BY <1>2, PushTypes, PushSources
<1>7. ASSUME NEW id \in Ids, index'[id] # NoEntry
      PROVE  /\ type_index'[index'[id].unit.knowledge_type][id] > 0
             /\ source_index'[index'[id].unit.evidence_source][id] > 0
  <2>1. CASE id \in ids
    <3>1. index'[id].unit = last[id] /\ last[id] \in units /\ last[id].id = id
      BY <1>1, <1>3, <1>4, <2>1
    <3>2. /\ push_types(units)[last[id].knowledge_type][last[id].id] > 0
          /\ push_sources(units)[last[id].evidence_source][last[id].id] > 0
      BY <3>1, PushTypes, PushSources
    <3> QED
      BY <1>2, <3>1, <3>2
  <2>2. CASE id \notin ids
    <3>1. index'[id] = index[id] /\ index[id] # NoEntry
      BY <1>1, <1>7, <2>2
    <3> DEFINE t == index[id].unit.knowledge_type
               s == index[id].unit.evidence_source
    <3>2. t \in Types /\ s \in Sources
      BY <3>1, EntryKeys DEF TypeOK
    <3>3. type_index[t][id] > 0 /\ source_index[s][id] > 0
      BY <3>1 DEF QueriesMissNothing, Present
    <3>4. type_index[t][id] \in Nat /\ source_index[s][id] \in Nat
      BY <3>2 DEF TypeOK, Secondary
    <3>5. type_index'[t][id] \in Nat /\ source_index'[s][id] \in Nat
      BY <1>6, <3>2 DEF Secondary
    <3>6. type_index'[t][id] >= type_index[t][id] /\ source_index'[s][id] >= source_index[s][id]
      BY <1>2, <3>2, PushTypes, PushSources
    <3> HIDE DEF t, s
    <3>7. type_index'[t][id] > 0 /\ source_index'[s][id] > 0
      BY <3>3, <3>4, <3>5, <3>6
    <3> QED
      BY <3>1, <3>7 DEF t, s
  <2> QED
    BY <2>1, <2>2
<1>8. SeedsKept
  BY <1>1, <1>4 DEF SeedsKept
<1>9. compared' \subseteq compared
  BY DEF Absorb, ForgetPairsOf
<1> QED
  BY <1>5, <1>6, <1>7, <1>8, <1>9 DEF MemoryTyped, QueriesMissNothing, Present

(* Entries that keep their type and source stay listed when the secondary  *)
(* indexes do not change.                                                  *)
LEMMA SameKeys ==
  ASSUME TypeOK, QueriesMissNothing,
         UNCHANGED <<type_index, source_index>>,
         index' \in [Ids -> KnowledgeEntry \union {NoEntry}],
         \A id \in Ids : index'[id] # NoEntry =>
            /\ index[id] # NoEntry
            /\ index'[id].unit.knowledge_type = index[id].unit.knowledge_type
            /\ index'[id].unit.evidence_source = index[id].unit.evidence_source
            /\ index'[id].source = index[id].source
  PROVE  MemoryTyped' /\ SeedsKept
BY DEF MemoryTyped, QueriesMissNothing, Present, SeedsKept, TypeOK

(* Memory after an insertion.                                              *)
LEMMA InsertMemory ==
  ASSUME TypeOK, QueriesMissNothing, NEW unit \in units_left, InsertObservation(unit)
  PROVE  MemoryTyped' /\ SeedsKept /\ compared' \subseteq SUBSET Ids /\ unit.id \in Ids
<1> DEFINE id == unit.id
           found == conflicts_of(unit)
           entry == flagged(updated_entry(unit), found)
<1>1. unit \in KnowledgeUnit
  BY DEF TypeOK
<1>2. id \in Ids /\ unit.knowledge_type \in Types /\ unit.evidence_source \in Sources
  BY <1>1 DEF KnowledgeUnit
<1>3. found \subseteq Present \ {id}
  BY DEF conflicts_of
<1>4. entry \in KnowledgeEntry /\ entry.unit = unit /\ entry.source = "Observation"
  <2>1. found \in SUBSET Ids
    BY <1>3 DEF Present
  <2> HIDE DEF found
  <2> QED
    BY <1>1, <2>1, UpdatedEntry, Flagged
<1>5. index' = [other \in Ids |->
                  IF other = id THEN entry
                  ELSE IF other \in found THEN back_patched(index[other], id)
                  ELSE index[other]]
  BY DEF InsertObservation
<1>6. ~ is_seed(id)
  BY DEF InsertObservation
<1> HIDE DEF found, entry
<1>7. \A other \in Present : index[other] \in KnowledgeEntry
  BY DEF TypeOK, Present
<1>8. index'[id] = entry
  BY <1>2, <1>5
<1>9. ASSUME NEW other \in Ids \ {id}
      PROVE  /\ index'[other] \in KnowledgeEntry \union {NoEntry}
             /\ index'[other] # NoEntry =>
                  /\ index[other] # NoEntry
                  /\ index'[other].unit = index[other].unit
                  /\ index'[other].source = index[other].source
  <2>1. CASE other \in found
    <3>1. other \in Present /\ index[other] \in KnowledgeEntry
      BY <1>3, <1>7, <2>1
    <3>2. index'[other] = back_patched(index[other], id)
      BY <1>5, <2>1
    <3> QED
      BY <1>2, <3>1, <3>2, BackPatched DEF Present
  <2>2. CASE other \notin found
    <3>1. index'[other] = index[other]
      BY <1>5, <2>2
    <3> QED
      BY <3>1 DEF TypeOK
  <2> QED
    BY <2>1, <2>2
<1>10. index' \in [Ids -> KnowledgeEntry \union {NoEntry}]
  <2>1. \A other \in Ids : index'[other] \in KnowledgeEntry \union {NoEntry}
    BY <1>4, <1>8, <1>9
  <2>2. index' = [other \in Ids |-> index'[other]]
    BY <1>5
  <2> QED
    BY <2>1, <2>2
<1>11. /\ type_index' \in Secondary(Types)
       /\ source_index' \in Secondary(Sources)
       /\ type_index'[unit.knowledge_type][id] > 0
       /\ source_index'[unit.evidence_source][id] > 0
       /\ \A t \in Types, other \in Ids \ {id} : type_index'[t][other] >= type_index[t][other]
       /\ \A s \in Sources, other \in Ids \ {id} :
            source_index'[s][other] >= source_index[s][other]
  <2>1. CASE index[id] = NoEntry
    <3>1. type_index' = push_types({unit}) /\ source_index' = push_sources({unit})
      BY <2>1 DEF InsertObservation
    <3>2. {unit} \in SUBSET KnowledgeUnit /\ IsFiniteSet({unit})
      BY <1>1, FS_Singleton
    <3> QED
      BY <3>1, <3>2, PushTypes, PushSources
  <2>2. CASE index[id] # NoEntry
    <3>1. index[id].unit.knowledge_type \in Types /\ index[id].unit.evidence_source \in Sources
      BY <1>2, <2>2, EntryKeys DEF TypeOK
    <3>2. /\ type_index[index[id].unit.knowledge_type][id] > 0
          /\ source_index[index[id].unit.evidence_source][id] > 0
      BY <1>2, <2>2 DEF QueriesMissNothing, Present
    <3>3. PICK p \in Ids, t \in Types, nt \in Types, s \in Sources, ns \in Sources :
            /\ p = id /\ t = index[id].unit.knowledge_type /\ nt = unit.knowledge_type
            /\ s = index[id].unit.evidence_source /\ ns = unit.evidence_source
      BY <1>2, <3>1
    <3>4. /\ type_index' = moved(type_index, p, t, nt)
          /\ source_index' = moved(source_index, p, s, ns)
          /\ type_index[t][p] > 0 /\ source_index[s][p] > 0
      BY <2>2, <3>2, <3>3 DEF InsertObservation
    <3>5. type_index \in Secondary(Types) /\ source_index \in Secondary(Sources)
      BY DEF TypeOK
    <3>6. /\ type_index' \in Secondary(Types) /\ type_index'[nt][p] > 0
          /\ source_index' \in Secondary(Sources) /\ source_index'[ns][p] > 0
      BY <3>4, <3>5, Moved
    <3>7. ASSUME NEW k \in Types, NEW other \in Ids, other # p
          PROVE  type_index'[k][other] = type_index[k][other]
      BY <3>4, <3>5, <3>7, MovedOthers
    <3>8. ASSUME NEW k \in Sources, NEW other \in Ids, other # p
          PROVE  source_index'[k][other] = source_index[k][other]
      BY <3>4, <3>5, <3>8, MovedOthers
    <3> QED
      BY <3>3, <3>5, <3>6, <3>7, <3>8 DEF Secondary
  <2> QED
    BY <2>1, <2>2
<1>12. ASSUME NEW other \in Ids \ {id}, index'[other] # NoEntry
       PROVE  /\ type_index'[index'[other].unit.knowledge_type][other] > 0
              /\ source_index'[index'[other].unit.evidence_source][other] > 0
  <2> DEFINE t == index[other].unit.knowledge_type
             s == index[other].unit.evidence_source
  <2>1. index[other] # NoEntry /\ index'[other].unit = index[other].unit
    BY <1>9, <1>12
  <2>2. t \in Types /\ s \in Sources
    BY <2>1, EntryKeys DEF TypeOK
  <2>3. type_index[t][other] > 0 /\ source_index[s][other] > 0
    BY <2>1 DEF QueriesMissNothing, Present
  <2>4. /\ type_index[t][other] \in Nat /\ type_index'[t][other] \in Nat
        /\ source_index[s][other] \in Nat /\ source_index'[s][other] \in Nat
    BY <1>11, <2>2 DEF TypeOK, Secondary
  <2>5. type_index'[t][other] >= type_index[t][other]
        /\ source_index'[s][other] >= source_index[s][other]
    BY <1>11, <2>2
  <2> HIDE DEF t, s
  <2>6. type_index'[t][other] > 0 /\ source_index'[s][other] > 0
    BY <2>3, <2>4, <2>5
  <2> QED
    BY <2>1, <2>6 DEF t, s
<1>13. QueriesMissNothing'
  BY <1>4, <1>8, <1>11, <1>12 DEF QueriesMissNothing, Present
<1>14. SeedsKept
  BY <1>6, <1>9 DEF SeedsKept, is_seed
<1>15. compared' \subseteq SUBSET Ids
  BY <1>2 DEF InsertObservation, TypeOK, Present
<1> QED
  BY <1>2, <1>10, <1>11, <1>13, <1>14, <1>15 DEF MemoryTyped

(* Memory after the import of a seed that was not there.                   *)
LEMMA ImportSeedMemory ==
  ASSUME TypeOK, QueriesMissNothing, NEW entry \in seeds_left, ImportSeed(entry)
  PROVE  MemoryTyped' /\ SeedsKept /\ compared' \subseteq compared /\ entry.unit.id \in Ids
<1>1. entry \in KnowledgeEntry
  BY DEF TypeOK
<1>2. /\ entry.unit \in KnowledgeUnit /\ entry.unit.id \in Ids
      /\ {entry.unit} \in SUBSET KnowledgeUnit /\ IsFiniteSet({entry.unit})
  BY <1>1, EntryKeys, FS_Singleton
<1>3. PICK id \in Ids : id = entry.unit.id
  BY <1>2
<1>4. /\ index[id] = NoEntry
      /\ index' = [index EXCEPT ![id] = entry]
      /\ type_index' = push_types({entry.unit})
      /\ source_index' = push_sources({entry.unit})
  BY <1>3 DEF ImportSeed
<1>5. index' \in [Ids -> KnowledgeEntry \union {NoEntry}]
  BY <1>1, <1>4 DEF TypeOK
<1>6. /\ type_index' \in Secondary(Types) /\ source_index' \in Secondary(Sources)
      /\ type_index'[entry.unit.knowledge_type][id] > 0
      /\ source_index'[entry.unit.evidence_source][id] > 0
  BY <1>2, <1>3, <1>4, PushTypes, PushSources
<1>7. index'[id] = entry /\ \A other \in Ids \ {id} : index'[other] = index[other]
  BY <1>4 DEF TypeOK
<1>8. ASSUME NEW other \in Ids \ {id}, index[other] # NoEntry
      PROVE  /\ type_index'[index[other].unit.knowledge_type][other] > 0
             /\ source_index'[index[other].unit.evidence_source][other] > 0
  <2>1. PICK t \in Types, s \in Sources :
          t = index[other].unit.knowledge_type /\ s = index[other].unit.evidence_source
    BY <1>8, EntryKeys DEF TypeOK
  <2>2. type_index[t][other] > 0 /\ source_index[s][other] > 0
    BY <1>8, <2>1 DEF QueriesMissNothing, Present
  <2>3. type_index'[t][other] >= type_index[t][other]
        /\ source_index'[s][other] >= source_index[s][other]
    BY <1>2, <1>4, PushTypes, PushSources
  <2>4. /\ type_index[t][other] \in Nat /\ type_index'[t][other] \in Nat
        /\ source_index[s][other] \in Nat /\ source_index'[s][other] \in Nat
    BY <1>6 DEF TypeOK, Secondary
  <2>5. type_index'[t][other] > 0 /\ source_index'[s][other] > 0
    BY <2>2, <2>3, <2>4
  <2> QED
    BY <2>1, <2>5
<1>9. QueriesMissNothing'
  BY <1>6, <1>7, <1>8 DEF QueriesMissNothing, Present
<1>10. SeedsKept
  BY <1>4, <1>7 DEF SeedsKept
<1>11. compared' \subseteq compared
  BY DEF ImportSeed, ForgetPairsOf
<1> QED
  BY <1>2, <1>5, <1>6, <1>9, <1>10, <1>11 DEF MemoryTyped

(* Memory after pruning: the occurrences swept are those of removed ids.   *)
LEMMA PruneMemory ==
  ASSUME TypeOK, QueriesMissNothing, NEW threshold \in Thresholds, PruneBelowThreshold(threshold)
  PROVE  MemoryTyped' /\ SeedsKept /\ compared' \subseteq compared
<1> DEFINE removed == {id \in Present : index[id].unit.confidence < threshold}
           Swept(secondary, field) ==
             [v \in DOMAIN secondary |-> [id \in Ids |->
                IF id \in removed /\ index[id].unit[field] = v
                THEN 0 ELSE secondary[v][id]]]
<1>1. /\ type_index' = Swept(type_index, "knowledge_type")
      /\ source_index' = Swept(source_index, "evidence_source")
      /\ index' = [id \in Ids |-> IF id \in removed THEN NoEntry ELSE index[id]]
      /\ compared' \subseteq compared
  BY DEF PruneBelowThreshold, ForgetPairsOf
<1> HIDE DEF removed
<1>2. index' \in [Ids -> KnowledgeEntry \union {NoEntry}]
  BY <1>1 DEF TypeOK
<1>3. type_index' \in Secondary(Types)
  BY <1>1 DEF TypeOK, Secondary
<1>4. source_index' \in Secondary(Sources)
  BY <1>1 DEF TypeOK, Secondary
<1>5. ASSUME NEW id \in Ids, index'[id] # NoEntry
      PROVE  /\ index[id] # NoEntry /\ index'[id] = index[id]
             /\ type_index'[index[id].unit.knowledge_type][id] > 0
             /\ source_index'[index[id].unit.evidence_source][id] > 0
  <2>1. id \notin removed /\ index[id] # NoEntry /\ index'[id] = index[id]
    BY <1>1, <1>5
  <2>2. PICK t \in Types, s \in Sources :
          t = index[id].unit.knowledge_type /\ s = index[id].unit.evidence_source
    BY <2>1, EntryKeys DEF TypeOK
  <2>3. type_index'[t][id] = type_index[t][id] /\ source_index'[s][id] = source_index[s][id]
    BY <1>1, <2>1 DEF TypeOK, Secondary
  <2>4. type_index[t][id] > 0 /\ source_index[s][id] > 0
    BY <2>1, <2>2 DEF QueriesMissNothing, Present
  <2> QED
    BY <2>1, <2>2, <2>3, <2>4
<1> QED
  BY <1>1, <1>2, <1>3, <1>4, <1>5 DEF MemoryTyped, QueriesMissNothing, Present, SeedsKept

(* Decay and the resolution of a conflict change no key of an entry.       *)
LEMMA DecayMemory ==
  ASSUME TypeOK, QueriesMissNothing, NEW percent \in DecayPercents, ApplyConfidenceDecay(percent)
  PROVE  MemoryTyped' /\ SeedsKept
<1>1. percent \in Nat
  BY StoreConstants
<1>2. ASSUME NEW id \in Ids, index[id] # NoEntry
      PROVE  /\ index'[id] \in KnowledgeEntry
             /\ index'[id].unit.knowledge_type = index[id].unit.knowledge_type
             /\ index'[id].unit.evidence_source = index[id].unit.evidence_source
             /\ index'[id].source = index[id].source
  <2>1. PICK e \in KnowledgeEntry : e = index[id]
    BY <1>2 DEF TypeOK
  <2>2. PICK c \in 0 .. MaxConfidence : c = apply_time_decay(e.unit.confidence, percent)
    BY <1>1, DecayInRange DEF KnowledgeEntry, KnowledgeUnit
  <2>3. index'[id] = [e EXCEPT !.unit.confidence = c]
    BY <1>2, <2>1, <2>2 DEF ApplyConfidenceDecay, KnowledgeEntry, KnowledgeUnit
  <2>4. [e EXCEPT !.unit.confidence = c] \in KnowledgeEntry
    BY DEF KnowledgeEntry, KnowledgeUnit
  <2> QED
    BY <2>1, <2>3, <2>4 DEF KnowledgeEntry, KnowledgeUnit
<1>3. \A id \in Ids : index[id] = NoEntry => index'[id] = NoEntry
  BY DEF ApplyConfidenceDecay
<1>4. index' \in [Ids -> KnowledgeEntry \union {NoEntry}]
  <2>1. index' = [id \in Ids |-> index'[id]]
    BY DEF ApplyConfidenceDecay
  <2> QED
    BY <1>2, <1>3, <2>1
<1>5. UNCHANGED <<type_index, source_index>>
  BY DEF ApplyConfidenceDecay
<1> QED
  BY <1>2, <1>3, <1>4, <1>5, SameKeys

LEMMA ResolveMemory ==
  ASSUME TypeOK, QueriesMissNothing, NEW id \in Ids, Resolve(id)
  PROVE  MemoryTyped' /\ SeedsKept
<1>1. index[id] \in KnowledgeEntry /\ index[id] # NoEntry
  BY DEF Resolve, Present, TypeOK
<1>2. index' = [index EXCEPT ![id].conflicts = {}, ![id].resolved = TRUE]
      /\ UNCHANGED <<type_index, source_index>>
  BY DEF Resolve
<1>3. \A other \in Ids \ {id} : index'[other] = index[other]
  BY <1>2 DEF TypeOK
<1>4. /\ index'[id] \in KnowledgeEntry
      /\ index'[id].unit = index[id].unit /\ index'[id].source = index[id].source
  BY <1>1, <1>2 DEF TypeOK, KnowledgeEntry
<1>5. index' \in [Ids -> KnowledgeEntry \union {NoEntry}]
  BY <1>2, <1>3, <1>4 DEF TypeOK
<1> QED
  BY <1>1, <1>2, <1>3, <1>4, <1>5, SameKeys

-----------------------------------------------------------------------------
(* The step of the induction, first for memory, then for disk, then for    *)
(* the control state.                                                      *)

LEMMA SameMemory ==
  ASSUME TypeOK, QueriesMissNothing, UNCHANGED memory
  PROVE  MemoryTyped' /\ SeedsKept
BY DEF memory, MemoryTyped, QueriesMissNothing, Present, SeedsKept, TypeOK

LEMMA LostMemory ==
  ASSUME MemoryLost
  PROVE  MemoryTyped' /\ SeedsKept
BY DEF MemoryLost, MemoryTyped, QueriesMissNothing, Present, SeedsKept, Secondary

(* Batches, seed directories and snapshots hold units and seed entries.    *)
LEMMA Inputs ==
  /\ \A units \in Batches : units \in SUBSET KnowledgeUnit
  /\ \A dir \in SeedDirs : dir \in SUBSET KnowledgeUnit /\ IsFiniteSet(dir)
  /\ \A snapshot \in Snapshots : /\ snapshot.seeds \subseteq KnowledgeEntry
                                 /\ snapshot.observations \subseteq KnowledgeUnit
BY StoreConstants

LEMMA StepMemory ==
  ASSUME TypeOK, QueriesMissNothing, ClosedIsEmpty, [Next]_vars
  PROVE  MemoryTyped' /\ SeedsKept
<1>1. CASE LoadExisting
  BY <1>1, LoadMemory
<1>2. CASE OpenFails \/ CreateNew
  BY <1>2, SameMemory DEF OpenFails, CreateNew, vars
<1>3. ASSUME NEW dir \in SeedDirs, LoadSeeds(dir) PROVE MemoryTyped' /\ SeedsKept
  BY <1>3, Inputs, AbsorbMemory DEF LoadSeeds
<1>4. ASSUME NEW dir \in SeedDirs, LoadSeedsFails(dir) PROVE MemoryTyped' /\ SeedsKept
  <2>1. PICK read \in SUBSET dir : Absorb(read)
    BY <1>4 DEF LoadSeedsFails
  <2>2. read \in SUBSET KnowledgeUnit /\ IsFiniteSet(read)
    BY <2>1, Inputs, FS_Subset
  <2> QED
    BY <2>1, <2>2, AbsorbMemory
<1>5. ASSUME NEW units \in Batches, IngestBatch(units) PROVE MemoryTyped' /\ SeedsKept
  BY <1>5, SameMemory DEF IngestBatch
<1>6. ASSUME NEW snapshot \in Snapshots, ImportSnapshot(snapshot)
      PROVE  MemoryTyped' /\ SeedsKept
  BY <1>6, SameMemory DEF ImportSnapshot
<1>7. ASSUME NEW entry \in seeds_left, ImportSeed(entry) PROVE MemoryTyped' /\ SeedsKept
  BY <1>7, ImportSeedMemory
<1>8. ASSUME NEW entry \in seeds_left, SkipSeed(entry) PROVE MemoryTyped' /\ SeedsKept
  BY <1>8, SameMemory DEF SkipSeed
<1>9. CASE ImportSeedFails
  BY <1>9, SameMemory DEF ImportSeedFails
<1>10. ASSUME NEW unit \in units_left, InsertObservation(unit) PROVE MemoryTyped' /\ SeedsKept
  BY <1>10, InsertMemory
<1>11. ASSUME NEW unit \in units_left, RefuseObservation(unit) PROVE MemoryTyped' /\ SeedsKept
  BY <1>11, SameMemory DEF RefuseObservation
<1>12. ASSUME NEW id \in pending, WriteSeed(id) \/ WriteObservation(id)
       PROVE  MemoryTyped' /\ SeedsKept
  BY <1>12, SameMemory DEF WriteSeed, WriteObservation
<1>13. CASE WriteStoreIndex \/ WriteFails
  BY <1>13, SameMemory DEF WriteStoreIndex, WriteFails
<1>14. ASSUME NEW id \in Ids, Resolve(id) PROVE MemoryTyped' /\ SeedsKept
  BY <1>14, ResolveMemory
<1>15. ASSUME NEW percent \in DecayPercents, ApplyConfidenceDecay(percent)
       PROVE  MemoryTyped' /\ SeedsKept
  BY <1>15, DecayMemory
<1>16. ASSUME NEW threshold \in Thresholds, PruneBelowThreshold(threshold)
       PROVE  MemoryTyped' /\ SeedsKept
  BY <1>16, PruneMemory
<1>17. CASE Close \/ Crash \/ CrashDuringWrite
  BY <1>17, LostMemory DEF Close, Crash, CrashDuringWrite
<1>18. CASE UNCHANGED vars
  BY <1>18, SameMemory DEF vars
<1> QED
  BY <1>1, <1>2, <1>3, <1>4, <1>5, <1>6, <1>7, <1>8, <1>9, <1>10, <1>11, <1>12, <1>13,
     <1>14, <1>15, <1>16, <1>17, <1>18 DEF Next

StoreIndex ==
  [ entry_ids : SUBSET Ids, seed_count : Nat, observation_count : Nat ] \union {NoEntry, Torn}

DiskTyped ==
  /\ seed_files \in [Files -> KnowledgeEntry \union {NoEntry, Torn}]
  /\ obs_files \in [Files -> KnowledgeEntry \union {NoEntry, Torn}]
  /\ store_index \in StoreIndex

LEMMA Written ==
  ASSUME NEW files \in [Files -> KnowledgeEntry \union {NoEntry, Torn}], NEW id \in Ids,
         NEW contents \in KnowledgeEntry \union {NoEntry, Torn}
  PROVE  written(files, id, contents) \in [Files -> KnowledgeEntry \union {NoEntry, Torn}]
BY UnitConstants DEF written

(* The counts written to the store index are natural numbers.              *)
LEMMA RebuiltStoreIndex ==
  [ entry_ids |-> Present, seed_count |-> counts("Seed"),
    observation_count |-> counts("Observation") ] \in StoreIndex
<1>1. Present \in SUBSET Ids /\ IsFiniteSet(Ids)
  BY StoreConstants DEF Present
<1>2. ASSUME NEW source PROVE counts(source) \in Nat
  <2>1. {id \in Present : index[id].source = source} \in SUBSET Ids
    BY <1>1
  <2> QED
    BY <1>1, <2>1, PartOfFinite DEF counts
<1> QED
  BY <1>1, <1>2 DEF StoreIndex

LEMMA StepDisk ==
  ASSUME TypeOK, [Next]_vars
  PROVE  DiskTyped'
<1>0. DiskTyped
  BY DEF TypeOK, DiskTyped, StoreIndex
<1>1. CASE UNCHANGED disk
  BY <1>0, <1>1 DEF DiskTyped, disk, StoreIndex
<1>2. CASE CreateNew
  BY <1>0, <1>2 DEF DiskTyped, CreateNew, StoreIndex, NoStoreIndex
<1>3. ASSUME NEW id \in pending, WriteSeed(id) PROVE DiskTyped'
  <2>1. id \in Ids /\ index[id] \in KnowledgeEntry \union {NoEntry}
    BY <1>3 DEF TypeOK
  <2> QED
    BY <1>0, <1>3, <2>1, Written DEF WriteSeed, DiskTyped, StoreIndex
<1>4. ASSUME NEW id \in pending, WriteObservation(id) PROVE DiskTyped'
  <2>1. id \in Ids /\ index[id] \in KnowledgeEntry \union {NoEntry}
    BY <1>4 DEF TypeOK
  <2> QED
    BY <1>0, <1>4, <2>1, Written DEF WriteObservation, DiskTyped, StoreIndex
<1>5. ASSUME NEW entry \in seeds_left, ImportSeed(entry) PROVE DiskTyped'
  <2>1. entry \in KnowledgeEntry /\ entry.unit.id \in Ids
    BY <1>5, EntryKeys DEF TypeOK
  <2> QED
    BY <1>0, <1>5, <2>1, Written DEF ImportSeed, DiskTyped, StoreIndex
<1>6. CASE WriteStoreIndex
  BY <1>0, <1>6, RebuiltStoreIndex DEF WriteStoreIndex, DiskTyped, StoreIndex
<1>7. CASE CrashDuringWrite
  <2>1. ASSUME NEW id \in Ids, NEW files \in [Files -> KnowledgeEntry \union {NoEntry, Torn}]
        PROVE  written(files, id, Torn) \in [Files -> KnowledgeEntry \union {NoEntry, Torn}]
    BY Written
  <2>2. pending \subseteq Ids /\ \A entry \in seeds_left : entry.unit.id \in Ids
    BY EntryKeys DEF TypeOK
  <2> QED
    BY <1>0, <1>7, <2>1, <2>2 DEF CrashDuringWrite, DiskTyped, StoreIndex
<1>8. Next => \/ UNCHANGED disk \/ CreateNew \/ WriteStoreIndex \/ CrashDuringWrite
              \/ \E id \in pending : WriteSeed(id) \/ WriteObservation(id)
              \/ \E entry \in seeds_left : ImportSeed(entry)
  BY DEF Next, LoadExisting, OpenFails, LoadSeeds, LoadSeedsFails, IngestBatch,
         ImportSnapshot, SkipSeed, ImportSeedFails, InsertObservation, RefuseObservation,
         WriteFails, Resolve, ApplyConfidenceDecay, PruneBelowThreshold, Close, Crash, vars
<1> QED
  BY <1>1, <1>2, <1>3, <1>4, <1>5, <1>6, <1>7, <1>8 DEF vars

ControlTyped ==
  /\ step \in {"closed", "idle", "loop"} \union Writing
  /\ pending \subseteq Ids
  /\ seeds_left \subseteq KnowledgeEntry
  /\ units_left \subseteq KnowledgeUnit
  /\ tolerant \in BOOLEAN
  /\ compared \subseteq SUBSET Ids

LEMMA StepControl ==
  ASSUME TypeOK, QueriesMissNothing, ClosedIsEmpty, [Next]_vars
  PROVE  ControlTyped' /\ ClosedIsEmpty'
<1>0. ControlTyped /\ (step = "closed" => Present = {})
  BY DEF TypeOK, ControlTyped, ClosedIsEmpty
<1> DEFINE Goal == ControlTyped' /\ ClosedIsEmpty'
<1>1. CASE LoadExisting
  BY <1>0, <1>1 DEF LoadExisting, ControlTyped, ClosedIsEmpty, loop
<1>2. CASE OpenFails \/ UNCHANGED vars
  BY <1>0, <1>2 DEF OpenFails, ControlTyped, ClosedIsEmpty, Present, vars, memory, loop
<1>3. CASE CreateNew
  BY <1>0, <1>3 DEF CreateNew, ControlTyped, ClosedIsEmpty, loop
<1>4. ASSUME NEW dir \in SeedDirs, LoadSeeds(dir) PROVE Goal
  <2>1. compared' \subseteq compared
    BY <1>4, Inputs, AbsorbMemory DEF LoadSeeds
  <2> QED
    BY <1>0, <1>4, <2>1 DEF LoadSeeds, ControlTyped, ClosedIsEmpty, loop, Writing
<1>5. ASSUME NEW dir \in SeedDirs, LoadSeedsFails(dir) PROVE Goal
  <2>1. PICK read \in SUBSET dir : Absorb(read)
    BY <1>5 DEF LoadSeedsFails
  <2>2. read \in SUBSET KnowledgeUnit /\ IsFiniteSet(read)
    BY <2>1, Inputs, FS_Subset
  <2>3. compared' \subseteq compared
    BY <2>1, <2>2, AbsorbMemory
  <2> QED
    BY <1>0, <1>5, <2>3 DEF LoadSeedsFails, ControlTyped, ClosedIsEmpty, loop
<1>6. ASSUME NEW units \in Batches, IngestBatch(units) PROVE Goal
  BY <1>0, <1>6, Inputs DEF IngestBatch, ControlTyped, ClosedIsEmpty
<1>7. ASSUME NEW snapshot \in Snapshots, ImportSnapshot(snapshot) PROVE Goal
  BY <1>0, <1>7, Inputs DEF ImportSnapshot, ControlTyped, ClosedIsEmpty
<1>8. ASSUME NEW entry \in seeds_left, ImportSeed(entry) PROVE Goal
  <2>1. compared' \subseteq compared
    BY <1>8, ImportSeedMemory
  <2> QED
    BY <1>0, <1>8, <2>1 DEF ImportSeed, Return, ControlTyped, ClosedIsEmpty
<1>9. ASSUME NEW entry \in seeds_left, SkipSeed(entry) PROVE Goal
  BY <1>0, <1>9 DEF SkipSeed, Return, ControlTyped, ClosedIsEmpty
<1>10. CASE ImportSeedFails
  BY <1>0, <1>10 DEF ImportSeedFails, ControlTyped, ClosedIsEmpty
<1>11. ASSUME NEW unit \in units_left, InsertObservation(unit) PROVE Goal
  <2>1. compared' \subseteq SUBSET Ids /\ unit.id \in Ids
    BY <1>11, InsertMemory
  <2> QED
    BY <1>0, <1>11, <2>1 DEF InsertObservation, ControlTyped, ClosedIsEmpty, Writing
<1>12. ASSUME NEW unit \in units_left, RefuseObservation(unit) PROVE Goal
  BY <1>0, <1>12 DEF RefuseObservation, Return, ControlTyped, ClosedIsEmpty
<1>13. ASSUME NEW id \in pending, WriteSeed(id) \/ WriteObservation(id) PROVE Goal
  BY <1>0, <1>13 DEF WriteSeed, WriteObservation, ControlTyped, ClosedIsEmpty, loop, Writing
<1>14. CASE WriteStoreIndex
  BY <1>0, <1>14 DEF WriteStoreIndex, Return, ControlTyped, ClosedIsEmpty, loop
<1>15. CASE WriteFails
  BY <1>0, <1>15 DEF WriteFails, ReturnError, Return, ControlTyped, ClosedIsEmpty
<1>16. ASSUME NEW id \in Ids, Resolve(id) PROVE Goal
  BY <1>0, <1>16 DEF Resolve, ControlTyped, ClosedIsEmpty, loop
<1>17. ASSUME NEW percent \in DecayPercents, ApplyConfidenceDecay(percent) PROVE Goal
  BY <1>0, <1>17 DEF ApplyConfidenceDecay, ControlTyped, ClosedIsEmpty, loop
<1>18. ASSUME NEW threshold \in Thresholds, PruneBelowThreshold(threshold) PROVE Goal
  BY <1>0, <1>18, PruneMemory DEF PruneBelowThreshold, ControlTyped, ClosedIsEmpty, loop
<1>19. CASE Close \/ Crash \/ CrashDuringWrite
  <2>1. MemoryLost
    BY <1>19 DEF Close, Crash, CrashDuringWrite
  <2> QED
    BY <2>1 DEF MemoryLost, ControlTyped, ClosedIsEmpty, Present
<1> QED
  BY <1>1, <1>2, <1>3, <1>4, <1>5, <1>6, <1>7, <1>8, <1>9, <1>10, <1>11, <1>12, <1>13,
     <1>14, <1>15, <1>16, <1>17, <1>18, <1>19 DEF Next

-----------------------------------------------------------------------------
LEMMA InitIInv == Init => IInv
<1> SUFFICES ASSUME Init PROVE IInv
  OBVIOUS
<1>1. Present = {}
  BY DEF Init, Present
<1>2. /\ index \in [Ids -> KnowledgeEntry \union {NoEntry}]
      /\ type_index \in Secondary(Types) /\ source_index \in Secondary(Sources)
  BY DEF Init, Secondary
<1>3. DiskTyped
  BY DEF Init, DiskTyped, StoreIndex
<1>4. ControlTyped
  BY DEF Init, ControlTyped
<1> QED
  BY <1>1, <1>2, <1>3, <1>4
  DEF IInv, TypeOK, DiskTyped, ControlTyped, StoreIndex, QueriesMissNothing, ClosedIsEmpty

LEMMA StepIInv == IInv /\ [Next]_vars => IInv' /\ SeedsKept
<1> SUFFICES ASSUME IInv, [Next]_vars
             PROVE  IInv' /\ SeedsKept
  OBVIOUS
<1>1. TypeOK /\ QueriesMissNothing /\ ClosedIsEmpty
  BY DEF IInv
<1>2. MemoryTyped' /\ SeedsKept
  BY <1>1, StepMemory
<1>3. DiskTyped'
  BY <1>1, StepDisk
<1>4. ControlTyped' /\ ClosedIsEmpty'
  BY <1>1, StepControl
<1> QED
  BY <1>2, <1>3, <1>4 DEF IInv, TypeOK, MemoryTyped, DiskTyped, ControlTyped, StoreIndex

(* The inductive invariant holds in every reachable state.                 *)
THEOREM InductiveInvariant == Spec => []IInv
BY InitIInv, StepIInv, PTL DEF Spec

(* Every variable keeps its type, whatever is inserted, imported, loaded,  *)
(* decayed or pruned, and wherever a write fails or the process dies.      *)
THEOREM TypeCorrect == Spec => []TypeOK
<1>1. IInv => TypeOK
  BY DEF IInv
<1> QED
  BY <1>1, InductiveInvariant, PTL

(* query_by_type and query_by_source miss no entry in memory: for every    *)
(* set of units and every order of operations each entry is listed below   *)
(* the type and the source it has now.                                     *)
THEOREM Completeness == Spec => []QueriesMissNothing
<1>1. IInv => QueriesMissNothing
  BY DEF IInv
<1> QED
  BY <1>1, InductiveInvariant, PTL

(* No insertion, import, decay or resolution turns a seed in memory into   *)
(* an observation; only closing the store and opening it again can.        *)
THEOREM SeedImmutability == Spec => SeedsStaySeeds
<1>1. IInv /\ [Next]_vars =>
        [ \A id \in Ids :
            index[id] # NoEntry /\ index'[id] # NoEntry /\ index[id].source = "Seed"
            => index'[id].source = "Seed" ]_vars
  BY StepIInv DEF SeedsKept
<1> QED
  BY <1>1, InductiveInvariant, PTL DEF Spec, SeedsStaySeeds
-----------------------------------------------------------------------------
(* Conflicts.  Two entries that were compared list each other, unless one  *)
(* was resolved.  The step that could lose this is the insertion, which    *)
(* replaces the list of the entry it updates: by the time it does, all     *)
(* other entries have been compared with the new unit.                     *)

LEMMA ConflictIsMutual ==
  ASSUME NEW a \in KnowledgeUnit, NEW b \in KnowledgeUnit, conflicting(a, b)
  PROVE  conflicting(b, a)
<1>1. scopes_overlap(b.scope, a.scope)
  BY DEF conflicting, scopes_overlap
<1>2. {a.payload, b.payload} = {b.payload, a.payload}
  OBVIOUS
<1>3. claims_contradict(b, a)
  BY <1>2 DEF conflicting, claims_contradict
<1> QED
  BY <1>1, <1>3 DEF conflicting

(* Decay brings confidences closer together, rounding included.            *)
LEMMA DecayClosesGaps ==
  ASSUME NEW c \in 0 .. MaxConfidence, NEW d \in 0 .. MaxConfidence, NEW percent \in Nat,
         apply_time_decay(c, percent) - apply_time_decay(d, percent) > ExtremeGap
  PROVE  c - d > ExtremeGap
<1>1. ExtremeGap \in Nat /\ c \in Nat /\ d \in Nat
  BY UnitConstants
<1>2. percent < 100
  BY <1>1 DEF apply_time_decay
<1> DEFINE k == 100 - percent
           m == c * k
           n == d * k
           p == m \div 100
           q == n \div 100
<1>3. k \in 1 .. 100
  BY <1>2
<1>4. apply_time_decay(c, percent) = p /\ apply_time_decay(d, percent) = q
  BY <1>2 DEF apply_time_decay
<1>5. m \in Nat /\ n \in Nat
  BY <1>1, <1>3
<1>6. c - d <= ExtremeGap => m - n <= 100 * ExtremeGap
  <2> SUFFICES ASSUME c - d <= ExtremeGap PROVE m - n <= 100 * ExtremeGap
    OBVIOUS
  <2> DEFINE g == c - d
  <2>1. g \in Int /\ m - n = g * k
    BY <1>1, <1>3
  <2> HIDE DEF k, g, m, n
  <2>2. g * k <= ExtremeGap * k
    BY <1>1, <1>3, <2>1 DEF g
  <2>3. ExtremeGap * k <= 100 * ExtremeGap
    BY <1>1, <1>3
  <2>4. g * k \in Int /\ ExtremeGap * k \in Int
    BY <1>1, <1>3, <2>1
  <2> QED
    BY <1>1, <2>1, <2>2, <2>3, <2>4
<1> HIDE DEF k, m, n
<1>7. p \in Int /\ q \in Int /\ 100 * p <= m /\ n < 100 * q + 100
  BY <1>5
<1> HIDE DEF p, q
<1>8. p - q >= ExtremeGap + 1
  BY <1>1, <1>4, <1>7
<1>9. m - n > 100 * ExtremeGap
  BY <1>1, <1>5, <1>7, <1>8
<1> QED
  BY <1>1, <1>5, <1>6, <1>9

(* Entries that were not compared anew, and do not conflict anew, keep     *)
(* what they list.                                                         *)
LEMMA ListsKept ==
  ASSUME NoConflictLost, compared' \subseteq compared,
         \A a, b \in Ids :
           /\ index'[a] # NoEntry /\ index'[b] # NoEntry /\ a # b /\ {a, b} \in compared'
           /\ conflicting(index'[a].unit, index'[b].unit)
           => /\ index[a] # NoEntry /\ index[b] # NoEntry
              /\ conflicting(index[a].unit, index[b].unit)
              /\ index[a].resolved => index'[a].resolved
              /\ index[a].conflicts \subseteq index'[a].conflicts \/ index'[a].resolved
  PROVE  NoConflictLost'
BY DEF NoConflictLost, Present

LEMMA InsertConflicts ==
  ASSUME TypeOK, NoConflictLost, NEW unit \in units_left, InsertObservation(unit)
  PROVE  NoConflictLost'
<1> DEFINE id == unit.id
           found == conflicts_of(unit)
           entry == flagged(updated_entry(unit), found)
<1>1. unit \in KnowledgeUnit /\ id \in Ids
  BY DEF TypeOK, KnowledgeUnit
<1>2. /\ updated_entry(unit) \in KnowledgeEntry /\ updated_entry(unit).unit = unit
      /\ \A x \in Present : index[x] \in KnowledgeEntry /\ index[x].unit \in KnowledgeUnit
  BY <1>1, UpdatedEntry, EntryKeys DEF TypeOK, Present
<1>3. /\ entry.unit = unit
      /\ found # {} => entry.conflicts = found
      /\ \A x \in found : x \in Present \ {id}
  <2>1. found \in SUBSET Ids /\ \A x \in found : x \in Present \ {id}
    BY DEF conflicts_of, Present
  <2> HIDE DEF found
  <2> QED
    BY <1>2, <2>1 DEF flagged, KnowledgeEntry
<1>4. /\ index' = [other \in Ids |->
                    IF other = id THEN entry
                    ELSE IF other \in found THEN back_patched(index[other], id)
                    ELSE index[other]]
      /\ compared' = compared \union {{id, other} : other \in Present \ {id}}
  BY DEF InsertObservation
<1>5. \A x \in Present : x \in found <=> x # id /\ conflicting(index[x].unit, unit)
  BY DEF conflicts_of
<1> HIDE DEF found, entry
<1>6. ASSUME NEW x \in Ids \ {id}, index'[x] # NoEntry
      PROVE  /\ x \in Present /\ index'[x].unit = index[x].unit
             /\ index'[x].resolved = index[x].resolved
             /\ index[x].conflicts \subseteq index'[x].conflicts
             /\ x \in found => index'[x].resolved \/ id \in index'[x].conflicts
  <2>1. CASE x \in found
    <3>1. index'[x] = back_patched(index[x], id) /\ x \in Present
      BY <1>3, <1>4, <2>1
    <3> QED
      BY <1>2, <3>1 DEF back_patched, KnowledgeEntry
  <2>2. CASE x \notin found
    BY <1>4, <1>6, <2>2 DEF Present
  <2> QED
    BY <2>1, <2>2
<1> SUFFICES ASSUME NEW a \in Ids, NEW b \in Ids, index'[a] # NoEntry, index'[b] # NoEntry,
                    a # b, {a, b} \in compared', conflicting(index'[a].unit, index'[b].unit)
             PROVE  index'[a].resolved \/ b \in index'[a].conflicts
  BY DEF NoConflictLost, Present
<1>7. index'[id] = entry /\ index'[id].unit = unit
  BY <1>1, <1>3, <1>4
<1>8. \A x \in Ids \ {id} : index'[x] # NoEntry => x \in Present /\ index'[x].unit = index[x].unit
  BY <1>6
<1>9. CASE a = id
  <2>1. index'[a] = entry /\ index'[a].unit = unit /\ b \in Present /\ index'[b].unit = index[b].unit
    BY <1>7, <1>8, <1>9
  <2>2. conflicting(index[b].unit, unit)
    BY <1>1, <1>2, <2>1, ConflictIsMutual
  <2>3. b \in found
    BY <1>5, <1>9, <2>1, <2>2
  <2> QED
    BY <1>3, <2>1, <2>3
<1>10. CASE b = id
  <2>1. index'[b].unit = unit /\ a \in Present /\ index'[a].unit = index[a].unit
    BY <1>7, <1>8, <1>10
  <2> QED
    BY <1>5, <1>6, <1>10, <2>1
<1>11. CASE a # id /\ b # id
  <2>1. {a, b} \in compared
    BY <1>4, <1>11
  <2> QED
    BY <1>6, <1>11, <2>1 DEF NoConflictLost
<1> QED
  BY <1>9, <1>10, <1>11

LEMMA DecayConflicts ==
  ASSUME TypeOK, NoConflictLost, NEW percent \in DecayPercents, ApplyConfidenceDecay(percent)
  PROVE  NoConflictLost'
<1>1. percent \in Nat
  BY StoreConstants
<1>2. ASSUME NEW x \in Ids, index'[x] # NoEntry
      PROVE  /\ index[x] \in KnowledgeEntry /\ index[x] # NoEntry
             /\ index[x].unit.confidence \in 0 .. MaxConfidence
             /\ index'[x].unit.confidence = apply_time_decay(index[x].unit.confidence, percent)
             /\ index'[x].unit.knowledge_type = index[x].unit.knowledge_type
             /\ index'[x].unit.scope = index[x].unit.scope
             /\ index'[x].unit.payload = index[x].unit.payload
             /\ index'[x].conflicts = index[x].conflicts /\ index'[x].resolved = index[x].resolved
  <2>1. index[x] \in KnowledgeEntry /\ index[x] # NoEntry
    BY <1>2 DEF ApplyConfidenceDecay, TypeOK
  <2>2. index'[x] = [index[x] EXCEPT !.unit.confidence = apply_time_decay(@, percent)]
    BY <2>1 DEF ApplyConfidenceDecay
  <2>3. index[x].unit \in KnowledgeUnit
    BY <2>1, EntryKeys
  <2> QED
    BY <2>1, <2>2, <2>3 DEF KnowledgeEntry, KnowledgeUnit
<1>3. ASSUME NEW a \in Ids, NEW b \in Ids, index'[a] # NoEntry, index'[b] # NoEntry,
             conflicting(index'[a].unit, index'[b].unit)
      PROVE  conflicting(index[a].unit, index[b].unit)
  <2>1. /\ index[a].unit.knowledge_type = index[b].unit.knowledge_type
        /\ scopes_overlap(index[a].unit.scope, index[b].unit.scope)
    BY <1>2, <1>3 DEF conflicting
  <2>2. claims_contradict(index[a].unit, index[b].unit)
    <3> DEFINE ca == index[a].unit.confidence
               cb == index[b].unit.confidence
    <3>1. /\ ca \in 0 .. MaxConfidence /\ cb \in 0 .. MaxConfidence
          /\ apply_time_decay(ca, percent) - apply_time_decay(cb, percent) > ExtremeGap
               => ca - cb > ExtremeGap
          /\ apply_time_decay(cb, percent) - apply_time_decay(ca, percent) > ExtremeGap
               => cb - ca > ExtremeGap
      BY <1>1, <1>2, <1>3, DecayClosesGaps
    <3>2. claims_contradict(index'[a].unit, index'[b].unit)
      BY <1>3 DEF conflicting
    <3> QED
      BY <1>2, <1>3, <3>1, <3>2 DEF claims_contradict
  <2> QED
    BY <2>1, <2>2 DEF conflicting
<1>4. compared' \subseteq compared
  BY DEF ApplyConfidenceDecay
<1> QED
  BY <1>2, <1>3, <1>4, ListsKept

LEMMA ForgottenConflicts ==
  ASSUME NoConflictLost, NEW ids, ForgetPairsOf(ids),
         \A id \in Ids \ ids : index'[id] = index[id]
  PROVE  NoConflictLost'
<1>1. compared' \subseteq compared /\ \A a, b : {a, b} \in compared' => a \notin ids /\ b \notin ids
  BY DEF ForgetPairsOf
<1> QED
  BY <1>1, ListsKept

LEMMA ResolveConflicts ==
  ASSUME TypeOK, NoConflictLost, NEW id \in Ids, Resolve(id) PROVE NoConflictLost'
<1>1. index[id] \in KnowledgeEntry /\ index' = [index EXCEPT ![id].conflicts = {}, ![id].resolved = TRUE]
  BY DEF Resolve, TypeOK, Present
<1>2. index'[id].unit = index[id].unit /\ index'[id].resolved
  BY <1>1 DEF TypeOK, KnowledgeEntry
<1>3. \A x \in Ids \ {id} : index'[x] = index[x]
  BY <1>1 DEF TypeOK
<1>4. index[id] # NoEntry /\ compared' = compared
  BY DEF Resolve, Present
<1> QED
  BY <1>2, <1>3, <1>4, ListsKept

LEMMA SameConflicts ==
  ASSUME NoConflictLost, UNCHANGED <<index, compared>> PROVE NoConflictLost'
BY DEF NoConflictLost, Present

LEMMA NoneCompared == ASSUME compared' = {} PROVE NoConflictLost'
BY DEF NoConflictLost

LEMMA StepConflicts ==
  ASSUME TypeOK, NoConflictLost, [Next]_vars PROVE NoConflictLost'
<1> USE DEF memory
<1>1. CASE LoadExisting \/ Close \/ Crash \/ CrashDuringWrite
  BY <1>1, NoneCompared DEF LoadExisting, Close, Crash, CrashDuringWrite, MemoryLost
<1>2. ASSUME NEW read, Absorb(read) PROVE NoConflictLost'
  BY <1>2, ForgottenConflicts DEF Absorb
<1>3. ASSUME NEW dir \in SeedDirs, LoadSeeds(dir) \/ LoadSeedsFails(dir) PROVE NoConflictLost'
  BY <1>2, <1>3 DEF LoadSeeds, LoadSeedsFails
<1>4. ASSUME NEW entry \in seeds_left, ImportSeed(entry) PROVE NoConflictLost'
  <2>1. \A id \in Ids \ {entry.unit.id} : index'[id] = index[id]
    BY <1>4 DEF ImportSeed, TypeOK
  <2> QED
    BY <1>4, <2>1, ForgottenConflicts DEF ImportSeed
<1>5. ASSUME NEW unit \in units_left, InsertObservation(unit) PROVE NoConflictLost'
  BY <1>5, InsertConflicts
<1>6. ASSUME NEW id \in Ids, Resolve(id) PROVE NoConflictLost'
  BY <1>6, ResolveConflicts
<1>7. ASSUME NEW percent \in DecayPercents, ApplyConfidenceDecay(percent) PROVE NoConflictLost'
  BY <1>7, DecayConflicts
<1>8. ASSUME NEW threshold \in Thresholds, PruneBelowThreshold(threshold) PROVE NoConflictLost'
  <2> DEFINE removed == {id \in Present : index[id].unit.confidence < threshold}
  <2>1. ForgetPairsOf(removed) /\ \A id \in Ids \ removed : index'[id] = index[id]
    BY <1>8 DEF PruneBelowThreshold
  <2> HIDE DEF removed
  <2> QED
    BY <2>1, ForgottenConflicts
<1>9. Next => \/ UNCHANGED <<index, compared>>
              \/ LoadExisting \/ Close \/ Crash \/ CrashDuringWrite
              \/ \E dir \in SeedDirs : LoadSeeds(dir) \/ LoadSeedsFails(dir)
              \/ \E entry \in seeds_left : ImportSeed(entry)
              \/ \E unit \in units_left : InsertObservation(unit)
              \/ \E id \in Ids : Resolve(id)
              \/ \E percent \in DecayPercents : ApplyConfidenceDecay(percent)
              \/ \E threshold \in Thresholds : PruneBelowThreshold(threshold)
  BY DEF Next, OpenFails, CreateNew, IngestBatch, ImportSnapshot, SkipSeed, ImportSeedFails,
         RefuseObservation, WriteSeed, WriteObservation, WriteStoreIndex, WriteFails, vars
<1> QED
  BY <1>1, <1>3, <1>4, <1>5, <1>6, <1>7, <1>8, <1>9, SameConflicts DEF vars

(* Two entries of the store that contradict each other, and were both seen *)
(* by check_conflicts_for_entry, list each other unless one is resolved:   *)
(* later insertions, imports, decay, pruning and failing writes lose none. *)
THEOREM ConflictsAreKept == Spec => []NoConflictLost
<1>1. Init => NoConflictLost
  BY DEF Init, NoConflictLost
<1>2. IInv /\ NoConflictLost /\ [Next]_vars => NoConflictLost'
  BY StepConflicts DEF IInv
<1> QED
  BY <1>1, <1>2, InductiveInvariant, PTL DEF Spec

-----------------------------------------------------------------------------
(***************************************************************************)
(* Reloading.  What a store acknowledges is what the next process to open  *)
(* it gets, and the file of an observation only moves on to later          *)
(* revisions, if the store is used as the command line uses it: nothing is *)
(* pruned or decayed, no id is both a seed's and an observation's,         *)
(* sanitize_id keeps the ids apart, and writes do not fail.  Processes may *)
(* die at any point.                                                       *)
(***************************************************************************)

SeedIds ==
  {u.id : u \in UNION SeedDirs} \union {e.unit.id : e \in UNION {s.seeds : s \in Snapshots}}

ObservedIds ==
  {u.id : u \in UNION Batches} \union {u.id : u \in UNION {s.observations : s \in Snapshots}}

(* How the commands use the store: none of them prunes or decays; seed ids *)
(* and observed ids come from different name spaces; FileOf may identify   *)
(* two ids only if they differ in characters that sanitize_id replaces.    *)
(* Where one of these fails, MCKnowledgeStore has behaviours in which a    *)
(* reloaded store differs from the one that was closed.                    *)
PlainUse ==
  /\ Thresholds = {} /\ DecayPercents = {} /\ IOFaults = FALSE
  /\ SeedIds \intersect ObservedIds = {}
  /\ \A id, other \in Ids : FileOf[id] = FileOf[other] => id = other

\* The file that an id has.
OnDisk(id) == IF id \in SeedIds THEN seed_files[FileOf[id]] ELSE obs_files[FileOf[id]]

Agrees(id) ==
  IF index[id] = NoEntry THEN OnDisk(id) = NoEntry
  ELSE /\ OnDisk(id) \in KnowledgeEntry
       /\ OnDisk(id).unit = index[id].unit /\ OnDisk(id).source = index[id].source
       /\ OnDisk(id).revision = index[id].revision

SourceOf(id) == IF id \in SeedIds THEN "Seed" ELSE "Observation"

FilesAreOwn ==
  \A id \in Ids :
    /\ IF id \in SeedIds THEN obs_files[FileOf[id]] = NoEntry
       ELSE seed_files[FileOf[id]] = NoEntry
    /\ OnDisk(id) \in {NoEntry, Torn} \/
         (OnDisk(id).unit.id = id /\ OnDisk(id).source = SourceOf(id))

EntriesAreOwn == \A id \in Present : index[id].unit.id = id /\ index[id].source = SourceOf(id)

WorkIsOwn ==
  /\ \A e \in seeds_left : e.unit.id \in SeedIds /\ e.source = "Seed"
  /\ \A u \in units_left : u.id \notin SeedIds

\* What is still to be written, and is later than what is there.
PendingIsLater ==
  /\ pending \subseteq Present
  /\ step \notin {"persist_seeds", "persist_entry"} => pending = {}
  /\ step = "persist_seeds" => pending \subseteq SeedIds
  /\ step = "persist_entry" =>
       \A id \in pending :
         /\ pending = {id} /\ id \notin SeedIds
         /\ OnDisk(id) \in KnowledgeEntry => OnDisk(id).revision < index[id].revision

OpenIsReadable == step # "closed" => Readable

NewIsEmpty ==
  store_index = NoEntry =>
    /\ step = "closed"
    /\ \A f \in Files : seed_files[f] = NoEntry /\ obs_files[f] = NoEntry

OthersAgree == step # "closed" => \A id \in Ids \ pending : Agrees(id)

IndexedAreThere ==
  store_index \notin {NoEntry, Torn} => \A id \in store_index.entry_ids : OnDisk(id) # NoEntry

ReloadInv ==
  /\ FilesAreOwn /\ EntriesAreOwn /\ WorkIsOwn /\ PendingIsLater
  /\ OpenIsReadable /\ NewIsEmpty /\ OthersAgree /\ IndexedAreThere

-----------------------------------------------------------------------------
(* Facts about files.                                                      *)

LEMMA NothingIsNoContent ==
  /\ NoEntry \notin KnowledgeEntry /\ Torn \notin KnowledgeEntry /\ NoEntry # Torn
  /\ \A ids \in SUBSET Ids, m, n \in Nat :
       [ entry_ids |-> ids, seed_count |-> m, observation_count |-> n ] \notin {NoEntry, Torn}
BY StoreConstants

\* What reloading finds for an id is its file.
LEMMA LoadedIsOnDisk ==
  ASSUME TypeOK, FilesAreOwn, Readable, NEW id \in Ids
  PROVE  loaded_index[id] = OnDisk(id) /\ OnDisk(id) \in KnowledgeEntry \union {NoEntry}
<1>1. /\ FileOf[id] \in Files
      /\ seed_files[FileOf[id]] \in KnowledgeEntry \union {NoEntry}
      /\ obs_files[FileOf[id]] \in KnowledgeEntry \union {NoEntry}
  BY UnitConstants DEF TypeOK, Readable
<1>2. /\ id \in SeedIds => obs_files[FileOf[id]] = NoEntry
      /\ id \notin SeedIds => seed_files[FileOf[id]] = NoEntry
      /\ OnDisk(id) # NoEntry => OnDisk(id).unit.id = id
  BY <1>1, NothingIsNoContent DEF FilesAreOwn, OnDisk
<1> QED
  BY <1>1, <1>2 DEF loaded_index, entry_in, OnDisk

\* A write to the file of an id.
WritesTo(id, contents) ==
  IF id \in SeedIds
  THEN seed_files' = written(seed_files, id, contents) /\ obs_files' = obs_files
  ELSE obs_files' = written(obs_files, id, contents) /\ seed_files' = seed_files

LEMMA WriteEffect ==
  ASSUME PlainUse, TypeOK, FilesAreOwn, NEW id \in Ids, NEW contents, WritesTo(id, contents),
         contents = Torn \/ (contents.unit.id = id /\ contents.source = SourceOf(id))
  PROVE  /\ FilesAreOwn' /\ OnDisk(id)' = contents
         /\ \A other \in Ids \ {id} : OnDisk(other)' = OnDisk(other)
<1>1. /\ FileOf[id] \in Files /\ \A other \in Ids \ {id} : FileOf[other] # FileOf[id]
      /\ DOMAIN seed_files = Files /\ DOMAIN obs_files = Files
  BY UnitConstants DEF PlainUse, TypeOK
<1>2. \A other \in Ids \ {id} : /\ seed_files'[FileOf[other]] = seed_files[FileOf[other]]
                                /\ obs_files'[FileOf[other]] = obs_files[FileOf[other]]
  <2>1. ASSUME NEW files, DOMAIN files = Files, NEW other \in Ids \ {id}
        PROVE  written(files, id, contents)[FileOf[other]] = files[FileOf[other]]
    BY <1>1, <2>1, UnitConstants DEF written
  <2>2. CASE id \in SeedIds
    BY <1>1, <2>1, <2>2 DEF WritesTo
  <2>3. CASE id \notin SeedIds
    BY <1>1, <2>1, <2>3 DEF WritesTo
  <2> QED
    BY <2>2, <2>3
<1>3. /\ OnDisk(id)' = contents
      /\ \A other \in Ids \ {id} : OnDisk(other)' = OnDisk(other)
  BY <1>1, <1>2 DEF WritesTo, written, OnDisk
<1>4. /\ id \in SeedIds => obs_files'[FileOf[id]] = NoEntry
      /\ id \notin SeedIds => seed_files'[FileOf[id]] = NoEntry
  BY DEF WritesTo, FilesAreOwn
<1>5. FilesAreOwn'
  BY <1>2, <1>3, <1>4 DEF FilesAreOwn, SourceOf
<1> QED
  BY <1>3, <1>5

LEMMA SameFiles ==
  ASSUME UNCHANGED <<seed_files, obs_files>>
  PROVE  /\ FilesAreOwn => FilesAreOwn'
         /\ \A id : OnDisk(id)' = OnDisk(id)
BY DEF FilesAreOwn, OnDisk, SourceOf

LEMMA StillThere ==
  ASSUME TypeOK, IndexedAreThere, store_index' \in {store_index, NoEntry, Torn},
         \A id \in Ids : OnDisk(id) # NoEntry => OnDisk(id)' # NoEntry
  PROVE  IndexedAreThere'
<1> SUFFICES ASSUME store_index' \notin {NoEntry, Torn}, NEW id \in store_index'.entry_ids
             PROVE  OnDisk(id)' # NoEntry
  BY DEF IndexedAreThere
<1>1. store_index' = store_index /\ id \in Ids
  BY DEF TypeOK
<1> QED
  BY <1>1 DEF IndexedAreThere

-----------------------------------------------------------------------------
(* The actions, by what they touch.                                        *)

\* Calls that start, entries resolved, skipped or refused: no file changes.
SameEntries ==
  \A id \in Ids :
    IF index[id] = NoEntry THEN index'[id] = NoEntry
    ELSE /\ index'[id] # NoEntry /\ index'[id].unit = index[id].unit
         /\ index'[id].source = index[id].source /\ index'[id].revision = index[id].revision

LEMMA QuietKeeps ==
  ASSUME TypeOK, ReloadInv, UNCHANGED disk, SameEntries, WorkIsOwn',
         step \in {"idle", "loop"}, step' \in {"idle", "loop"}, pending' = {}
  PROVE  ReloadInv'
<1>1. pending = {} /\ FilesAreOwn' /\ \A id : OnDisk(id)' = OnDisk(id)
  BY SameFiles DEF ReloadInv, PendingIsLater, disk
<1>2. EntriesAreOwn'
  BY DEF ReloadInv, EntriesAreOwn, SameEntries, Present, SourceOf
<1>3. PendingIsLater' /\ OpenIsReadable' /\ NewIsEmpty'
  BY DEF ReloadInv, PendingIsLater, OpenIsReadable, NewIsEmpty, Readable, disk
<1>4. OthersAgree'
  BY <1>1 DEF ReloadInv, OthersAgree, Agrees, SameEntries
<1>5. IndexedAreThere'
  BY <1>1, StillThere DEF ReloadInv, disk
<1> QED
  BY <1>1, <1>2, <1>3, <1>4, <1>5 DEF ReloadInv

LEMMA QuietActions ==
  ASSUME PlainUse, TypeOK, ReloadInv,
         \/ \E units \in Batches : IngestBatch(units)
         \/ \E snapshot \in Snapshots : ImportSnapshot(snapshot)
         \/ \E entry \in seeds_left : SkipSeed(entry)
         \/ \E unit \in units_left : RefuseObservation(unit)
         \/ \E id \in Ids : Resolve(id)
  PROVE  ReloadInv'
<1>0. /\ WorkIsOwn /\ pending \in SUBSET Ids
      /\ step \notin {"persist_seeds", "persist_entry"} => pending = {}
  BY DEF ReloadInv, PendingIsLater, TypeOK
<1>1. UNCHANGED index => SameEntries
  BY DEF SameEntries
<1>2. CASE \E units \in Batches : IngestBatch(units)
  <2>1. PICK units \in Batches : IngestBatch(units)
    BY <1>2
  <2>2. \A u \in units : u.id \notin SeedIds
    BY <2>1 DEF PlainUse, ObservedIds
  <2>3. WorkIsOwn'
    BY <1>0, <2>1, <2>2 DEF WorkIsOwn, IngestBatch
  <2> QED
    BY <1>0, <1>1, <2>1, <2>3, QuietKeeps DEF IngestBatch, memory
<1>3. CASE \E snapshot \in Snapshots : ImportSnapshot(snapshot)
  <2>1. PICK snapshot \in Snapshots : ImportSnapshot(snapshot)
    BY <1>3
  <2>2. /\ \A u \in snapshot.observations : u.id \notin SeedIds
        /\ \A e \in snapshot.seeds : e.unit.id \in SeedIds /\ e.source = "Seed"
    <3>1. \A u \in snapshot.observations : u.id \in ObservedIds
      <4> TAKE u \in snapshot.observations
      <4>1. u \in UNION {s.observations : s \in Snapshots}
        BY <2>1
      <4> QED
        BY <4>1 DEF ObservedIds
    <3>2. \A e \in snapshot.seeds : e.unit.id \in SeedIds
      <4> TAKE e \in snapshot.seeds
      <4>1. e \in UNION {s.seeds : s \in Snapshots}
        BY <2>1
      <4> QED
        BY <4>1 DEF SeedIds
    <3>3. \A e \in snapshot.seeds : e.source = "Seed"
      BY <2>1, StoreConstants
    <3> QED
      BY <3>1, <3>2, <3>3 DEF PlainUse
  <2>3. WorkIsOwn'
    BY <2>1, <2>2 DEF WorkIsOwn, ImportSnapshot
  <2> QED
    BY <1>0, <1>1, <2>1, <2>3, QuietKeeps DEF ImportSnapshot, memory
<1>4. CASE \E entry \in seeds_left : SkipSeed(entry)
  <2>1. WorkIsOwn'
    BY <1>0, <1>4 DEF WorkIsOwn, SkipSeed
  <2> QED
    BY <1>0, <1>1, <1>4, <2>1, QuietKeeps DEF SkipSeed, memory, Return
<1>5. CASE \E unit \in units_left : RefuseObservation(unit)
  <2>1. WorkIsOwn'
    BY <1>0, <1>5 DEF WorkIsOwn, RefuseObservation
  <2> QED
    BY <1>0, <1>1, <1>5, <2>1, QuietKeeps DEF RefuseObservation, memory, Return
<1>6. CASE \E id \in Ids : Resolve(id)
  <2>1. PICK id \in Ids : Resolve(id)
    BY <1>6
  <2>2. index[id] \in KnowledgeEntry /\ index[id] # NoEntry
    BY <2>1 DEF Resolve, Present, TypeOK
  <2>3. /\ index'[id] # NoEntry /\ index'[id].unit = index[id].unit
        /\ index'[id].source = index[id].source /\ index'[id].revision = index[id].revision
    <3>1. index'[id] = [index[id] EXCEPT !.conflicts = {}, !.resolved = TRUE]
      BY <2>1 DEF Resolve, TypeOK
    <3>2. index'[id] \in KnowledgeEntry
      BY <2>2, <3>1 DEF KnowledgeEntry
    <3> QED
      BY <2>2, <3>1, <3>2, NothingIsNoContent DEF KnowledgeEntry
  <2>4. SameEntries
    BY <2>1, <2>2, <2>3 DEF Resolve, SameEntries, TypeOK
  <2>5. WorkIsOwn' /\ step = "idle" /\ step' = "idle" /\ pending' = {} /\ UNCHANGED disk
    BY <1>0, <2>1 DEF WorkIsOwn, Resolve, loop
  <2> QED
    BY <2>4, <2>5, QuietKeeps
<1> QED
  BY <1>2, <1>3, <1>4, <1>5, <1>6

\* The process ends, and at most one file is torn.
LEMMA LostKeeps ==
  ASSUME MemoryLost, FilesAreOwn', NewIsEmpty', IndexedAreThere'
  PROVE  ReloadInv'
BY DEF MemoryLost, ReloadInv, EntriesAreOwn, WorkIsOwn, PendingIsLater, OpenIsReadable,
       OthersAgree, Present

LEMMA EndKeeps ==
  ASSUME PlainUse, TypeOK, ReloadInv, Close \/ Crash \/ CrashDuringWrite
  PROVE  ReloadInv'
<1> USE DEF ReloadInv
<1>1. MemoryLost
  BY DEF Close, Crash, CrashDuringWrite
<1>2. CASE UNCHANGED disk
  <2>1. FilesAreOwn' /\ IndexedAreThere'
    BY <1>2, SameFiles, StillThere DEF disk
  <2>2. NewIsEmpty'
    BY <1>1, <1>2 DEF NewIsEmpty, MemoryLost, disk
  <2> QED
    BY <1>1, <2>1, <2>2, LostKeeps
<1>3. ASSUME NEW id \in Ids, WritesTo(id, Torn), store_index' = store_index, step # "closed"
      PROVE  ReloadInv'
  <2>1. FilesAreOwn' /\ \A other \in Ids : OnDisk(other) # NoEntry => OnDisk(other)' # NoEntry
    BY <1>3, WriteEffect, NothingIsNoContent
  <2>2. NewIsEmpty' /\ IndexedAreThere'
    BY <1>3, <2>1, StillThere DEF NewIsEmpty
  <2> QED
    BY <1>1, <2>1, <2>2, LostKeeps
<1>4. CASE store_index' = Torn /\ UNCHANGED <<seed_files, obs_files>>
  BY <1>1, <1>4, SameFiles, LostKeeps, NothingIsNoContent DEF NewIsEmpty, IndexedAreThere
<1>5. CASE CrashDuringWrite
  <2>1. ASSUME NEW id \in pending, step = "persist_seeds", seed_files' = written(seed_files, id, Torn),
               UNCHANGED <<obs_files, store_index>>
        PROVE  ReloadInv'
    BY <1>3, <2>1 DEF WritesTo, PendingIsLater, TypeOK
  <2>2. ASSUME NEW e \in seeds_left, step = "loop", seed_files' = written(seed_files, e.unit.id, Torn),
               UNCHANGED <<obs_files, store_index>>
        PROVE  ReloadInv'
    <3>1. e.unit.id \in SeedIds /\ e.unit.id \in Ids
      BY EntryKeys DEF WorkIsOwn, TypeOK
    <3> QED
      BY <1>3, <2>2, <3>1 DEF WritesTo
  <2>3. ASSUME NEW id \in pending, step = "persist_entry", obs_files' = written(obs_files, id, Torn),
               UNCHANGED <<seed_files, store_index>>
        PROVE  ReloadInv'
    BY <1>3, <2>3 DEF WritesTo, PendingIsLater, TypeOK
  <2> QED
    BY <1>4, <1>5, <2>1, <2>2, <2>3 DEF CrashDuringWrite
<1> QED
  BY <1>2, <1>5 DEF Close, Crash

LEMMA OpenKeeps ==
  ASSUME PlainUse, IInv, ReloadInv, LoadExisting \/ CreateNew
  PROVE  ReloadInv'
<1> USE DEF ReloadInv, loop, disk, memory
<1>0. TypeOK /\ Present = {} /\ step = "closed" /\ step' = "idle" /\ pending' = pending /\ pending = {}
  BY DEF IInv, ClosedIsEmpty, LoadExisting, CreateNew, PendingIsLater
<1>1. CASE LoadExisting
  <2>1. Readable /\ UNCHANGED disk /\ index' = loaded_index /\ store_index # NoEntry
    BY <1>1 DEF LoadExisting
  <2>2. FilesAreOwn' /\ IndexedAreThere' /\ \A id : OnDisk(id)' = OnDisk(id)
    BY <1>0, <2>1, SameFiles, StillThere
  <2>3. \A id \in Ids : index'[id] = OnDisk(id) /\ OnDisk(id) \in KnowledgeEntry \union {NoEntry}
    BY <1>0, <2>1, LoadedIsOnDisk
  <2>4. EntriesAreOwn'
    BY <2>3, NothingIsNoContent DEF EntriesAreOwn, Present, FilesAreOwn, SourceOf
  <2>5. OthersAgree'
    BY <2>2, <2>3 DEF OthersAgree, Agrees
  <2>6. OpenIsReadable' /\ NewIsEmpty' /\ PendingIsLater'
    BY <1>0, <2>1 DEF OpenIsReadable, NewIsEmpty, Readable, PendingIsLater
  <2>7. WorkIsOwn'
    BY <1>1 DEF WorkIsOwn, LoadExisting
  <2> QED
    BY <2>2, <2>4, <2>5, <2>6, <2>7
<1>2. CASE CreateNew
  <2>1. /\ store_index = NoEntry /\ store_index' = NoStoreIndex
        /\ UNCHANGED <<index, seed_files, obs_files, seeds_left, units_left>>
    BY <1>2 DEF CreateNew
  <2>2. FilesAreOwn' /\ \A id : OnDisk(id)' = OnDisk(id)
    BY <2>1, SameFiles
  <2>3. \A f \in Files : seed_files[f] = NoEntry /\ obs_files[f] = NoEntry
    BY <2>1 DEF NewIsEmpty
  <2>4. store_index' \notin {NoEntry, Torn} /\ store_index'.entry_ids = {}
    BY <2>1, NothingIsNoContent DEF NoStoreIndex
  <2>5. OthersAgree' /\ EntriesAreOwn'
    <3>1. \A id \in Ids : index'[id] = NoEntry /\ OnDisk(id) = NoEntry
      BY <1>0, <2>1, <2>3, UnitConstants DEF Present, OnDisk
    <3> QED
      BY <2>2, <3>1 DEF OthersAgree, Agrees, EntriesAreOwn, Present
  <2>6. OpenIsReadable' /\ NewIsEmpty' /\ PendingIsLater'
    BY <1>0, <2>1, <2>3, <2>4, NothingIsNoContent DEF OpenIsReadable, NewIsEmpty, Readable, PendingIsLater
  <2>7. WorkIsOwn' /\ IndexedAreThere'
    BY <2>1, <2>4 DEF WorkIsOwn, IndexedAreThere
  <2> QED
    BY <2>2, <2>5, <2>6, <2>7
<1> QED
  BY <1>1, <1>2


\* An entry is written to its file: what it agrees with is what it holds.
LEMMA EntryWritten ==
  ASSUME PlainUse, TypeOK, ReloadInv, NEW id \in Ids, index'[id] \in KnowledgeEntry,
         index'[id].unit.id = id, index'[id].source = SourceOf(id),
         \A other \in Ids \ {id} : index'[other] = index[other],
         WritesTo(id, index'[id]), UNCHANGED store_index, step # "closed", WorkIsOwn',
         pending' \subseteq pending, Ids \ pending' \subseteq (Ids \ pending) \union {id},
         PendingIsLater'
  PROVE  ReloadInv'
<1> USE DEF ReloadInv
<1>1. /\ FilesAreOwn' /\ OnDisk(id)' = index'[id]
      /\ \A other \in Ids \ {id} : OnDisk(other)' = OnDisk(other)
  BY WriteEffect
<1>2. index'[id] \notin {NoEntry, Torn} /\ FileOf[id] \in Files
  BY NothingIsNoContent, UnitConstants
<1>3. EntriesAreOwn'
  BY DEF EntriesAreOwn, Present, SourceOf
<1>4. OpenIsReadable'
  <2>1. store_index' # Torn
    BY DEF OpenIsReadable, Readable
  <2>2. \A f \in Files : seed_files'[f] # Torn
    BY <1>2 DEF WritesTo, written, OpenIsReadable, Readable, TypeOK
  <2>3. \A f \in Files : obs_files'[f] # Torn
    BY <1>2 DEF WritesTo, written, OpenIsReadable, Readable, TypeOK
  <2> QED
    BY <2>1, <2>2, <2>3 DEF OpenIsReadable, Readable
<1>5. NewIsEmpty'
  BY DEF NewIsEmpty
<1>6. OthersAgree'
  <2> SUFFICES ASSUME NEW other \in Ids \ pending' PROVE Agrees(other)'
    BY DEF OthersAgree
  <2>1. CASE other = id
    BY <1>1, <1>2, <2>1 DEF Agrees
  <2>2. CASE other # id
    BY <1>1, <2>2 DEF Agrees, OthersAgree
  <2> QED
    BY <2>1, <2>2
<1>7. IndexedAreThere'
  BY <1>1, <1>2, StillThere
<1> QED
  BY <1>1, <1>3, <1>4, <1>5, <1>6, <1>7

LEMMA WriteSeedKeeps ==
  ASSUME PlainUse, TypeOK, ReloadInv, NEW id \in pending, WriteSeed(id)
  PROVE  ReloadInv'
<1>1. /\ id \in Ids /\ id \in SeedIds /\ id \in Present /\ pending \subseteq SeedIds
      /\ step = "persist_seeds" /\ pending \subseteq Present
  BY DEF WriteSeed, ReloadInv, PendingIsLater, TypeOK
<1>2. index[id] \in KnowledgeEntry /\ index[id].unit.id = id /\ index[id].source = SourceOf(id)
  BY <1>1 DEF TypeOK, ReloadInv, EntriesAreOwn, Present
<1>3. index' = index /\ store_index' = store_index /\ WritesTo(id, index'[id])
  BY <1>1 DEF WriteSeed, memory, WritesTo
<1>4. WorkIsOwn'
  BY DEF WorkIsOwn, WriteSeed, loop, ReloadInv
<1>5. pending' = pending \ {id} /\ step' = IF pending' = {} THEN "persist_index" ELSE "persist_seeds"
  BY DEF WriteSeed
<1>6. PendingIsLater'
  BY <1>1, <1>3, <1>5 DEF PendingIsLater, Present
<1> QED
  BY <1>1, <1>2, <1>3, <1>4, <1>5, <1>6, EntryWritten

LEMMA WriteObservationKeeps ==
  ASSUME PlainUse, TypeOK, ReloadInv, NEW id \in pending, WriteObservation(id)
  PROVE  ReloadInv'
<1>1. id \in Ids /\ id \notin SeedIds /\ id \in Present /\ pending = {id} /\ step = "persist_entry"
  BY DEF WriteObservation, ReloadInv, PendingIsLater, TypeOK
<1>2. index[id] \in KnowledgeEntry /\ index[id].unit.id = id /\ index[id].source = SourceOf(id)
  BY <1>1 DEF TypeOK, ReloadInv, EntriesAreOwn, Present
<1>3. index' = index /\ store_index' = store_index /\ WritesTo(id, index'[id])
  BY <1>1 DEF WriteObservation, memory, WritesTo
<1>4. WorkIsOwn'
  BY DEF WorkIsOwn, WriteObservation, loop, ReloadInv
<1>5. pending' = {} /\ step' = "persist_index"
  BY DEF WriteObservation
<1>6. PendingIsLater'
  BY <1>5 DEF PendingIsLater
<1> QED
  BY <1>1, <1>2, <1>3, <1>4, <1>5, <1>6, EntryWritten

LEMMA ImportSeedKeeps ==
  ASSUME PlainUse, TypeOK, ReloadInv, NEW entry \in seeds_left, ImportSeed(entry)
  PROVE  ReloadInv'
<1> DEFINE id == entry.unit.id
<1>1. /\ entry \in KnowledgeEntry /\ id \in Ids /\ id \in SeedIds /\ entry.source = "Seed"
      /\ step = "loop" /\ pending = {} /\ pending' = pending
  BY EntryKeys DEF ImportSeed, ReloadInv, WorkIsOwn, PendingIsLater, TypeOK
<1>2. index'[id] = entry /\ \A other \in Ids \ {id} : index'[other] = index[other]
  BY <1>1 DEF ImportSeed, TypeOK
<1>3. UNCHANGED store_index /\ WritesTo(id, index'[id])
  BY <1>1, <1>2 DEF ImportSeed, WritesTo
<1>4. WorkIsOwn'
  BY DEF WorkIsOwn, ImportSeed, ReloadInv
<1>5. PendingIsLater'
  BY <1>1 DEF PendingIsLater, ImportSeed, Return
<1> QED
  BY <1>1, <1>2, <1>3, <1>4, <1>5, EntryWritten DEF SourceOf

\* Entries taken into memory that are still to be written.
LEMMA AheadKeeps ==
  ASSUME TypeOK, ReloadInv, UNCHANGED disk, step # "closed", step' # "closed", WorkIsOwn',
         EntriesAreOwn', PendingIsLater', pending = {},
         \A id \in Ids \ pending' :
           IF index[id] = NoEntry THEN index'[id] = NoEntry
           ELSE /\ index'[id] # NoEntry /\ index'[id].unit = index[id].unit
                /\ index'[id].source = index[id].source /\ index'[id].revision = index[id].revision
  PROVE  ReloadInv'
<1>1. FilesAreOwn' /\ \A id : OnDisk(id)' = OnDisk(id)
  BY SameFiles DEF ReloadInv, disk
<1>2. OpenIsReadable' /\ NewIsEmpty'
  BY DEF ReloadInv, OpenIsReadable, NewIsEmpty, Readable, disk
<1>3. OthersAgree'
  BY <1>1 DEF ReloadInv, OthersAgree, Agrees
<1>4. IndexedAreThere'
  BY <1>1, StillThere DEF ReloadInv, disk
<1> QED
  BY <1>1, <1>2, <1>3, <1>4 DEF ReloadInv

LEMMA LoadSeedsKeeps ==
  ASSUME PlainUse, TypeOK, ReloadInv, NEW dir \in SeedDirs, LoadSeeds(dir)
  PROVE  ReloadInv'
<1>1. step = "idle" /\ pending = {} /\ step' \in {"persist_seeds", "persist_index"} /\ UNCHANGED <<disk, loop>>
  BY DEF LoadSeeds, ReloadInv, PendingIsLater
<1> DEFINE ids == {u.id : u \in dir}
<1>2. PICK last \in [ids -> dir] :
        /\ \A id \in ids : last[id].id = id
        /\ index' = [id \in Ids |-> IF id \in ids THEN new_entry(last[id], "Seed") ELSE index[id]]
  BY DEF LoadSeeds, Absorb
<1>3. ids \subseteq SeedIds
  <2> SUFFICES ASSUME NEW u \in dir PROVE u.id \in SeedIds
    OBVIOUS
  <2>1. u \in UNION SeedDirs
    OBVIOUS
  <2> QED
    BY <2>1 DEF SeedIds
<1>4. \A id \in Ids : id \in ids =>
        index'[id] # NoEntry /\ index'[id].unit.id = id /\ index'[id].source = "Seed"
  <2> SUFFICES ASSUME NEW id \in Ids, id \in ids
               PROVE  index'[id] # NoEntry /\ index'[id].unit.id = id /\ index'[id].source = "Seed"
    OBVIOUS
  <2>1. index'[id] = new_entry(last[id], "Seed") /\ last[id] \in KnowledgeUnit /\ last[id].id = id
    BY <1>2, Inputs
  <2> QED
    BY <2>1, NewEntry, NothingIsNoContent
<1>5. \A id \in Ids : id \notin ids => index'[id] = index[id]
  BY <1>2
<1>6. EntriesAreOwn'
  BY <1>3, <1>4, <1>5 DEF EntriesAreOwn, Present, SourceOf, ReloadInv
<1>7. \A id \in Ids : id \in pending' <=> index'[id] # NoEntry /\ index'[id].source = "Seed"
  BY DEF LoadSeeds
<1>8. pending' \subseteq Ids /\ step' = IF pending' = {} THEN "persist_index" ELSE "persist_seeds"
  BY DEF LoadSeeds
<1> HIDE DEF ids
<1>9. PendingIsLater'
  BY <1>6, <1>7, <1>8 DEF PendingIsLater, EntriesAreOwn, Present, SourceOf
<1>10. \A id \in Ids \ pending' : index'[id] = index[id]
  BY <1>4, <1>5, <1>7
<1>11. WorkIsOwn'
  BY <1>1 DEF WorkIsOwn, loop, ReloadInv
<1> QED
  BY <1>1, <1>6, <1>9, <1>10, <1>11, AheadKeeps

\* The entry an insertion leaves in memory.
LEMMA Inserted ==
  ASSUME TypeOK, NEW unit \in KnowledgeUnit, NEW found \in SUBSET Ids
  PROVE  LET entry == flagged(updated_entry(unit), found) IN
         /\ entry \in KnowledgeEntry /\ entry.unit = unit /\ entry.source = "Observation"
         /\ index[unit.id] # NoEntry => entry.revision = index[unit.id].revision + 1
<1>1. /\ updated_entry(unit) \in KnowledgeEntry
      /\ updated_entry(unit).unit = unit /\ updated_entry(unit).source = "Observation"
  BY UpdatedEntry
<1>2. index[unit.id] # NoEntry => updated_entry(unit).revision = index[unit.id].revision + 1
  BY DEF updated_entry, revised
<1>3. flagged(updated_entry(unit), found).revision = updated_entry(unit).revision
  BY <1>1 DEF flagged, KnowledgeEntry
<1> QED
  BY <1>1, <1>2, <1>3, Flagged

LEMMA InsertKeeps ==
  ASSUME PlainUse, TypeOK, ReloadInv, NEW unit \in units_left, InsertObservation(unit)
  PROVE  ReloadInv'
<1> DEFINE id == unit.id
           found == conflicts_of(unit)
           entry == flagged(updated_entry(unit), found)
<1>1. /\ unit \in KnowledgeUnit /\ id \in Ids /\ id \notin SeedIds /\ found \in SUBSET Ids
      /\ found \subseteq Present
  BY DEF TypeOK, KnowledgeUnit, ReloadInv, WorkIsOwn, conflicts_of, Present
<1>2. /\ step = "loop" /\ pending = {} /\ step' = "persist_entry" /\ pending' = {id}
      /\ UNCHANGED <<disk, seeds_left>> /\ units_left' = units_left \ {unit}
  BY DEF InsertObservation, ReloadInv, PendingIsLater
<1>3. index' = [other \in Ids |->
                 IF other = id THEN entry
                 ELSE IF other \in found THEN back_patched(index[other], id)
                 ELSE index[other]]
  BY DEF InsertObservation
<1>4. /\ entry \in KnowledgeEntry /\ entry.unit = unit /\ entry.source = "Observation"
      /\ index[id] # NoEntry => entry.revision = index[id].revision + 1
  BY <1>1, Inserted
<1> HIDE DEF entry, found, id
<1>5. /\ index'[id] = entry /\ index'[id] # NoEntry
      /\ \A other \in Ids : other # id /\ other \notin found => index'[other] = index[other]
      /\ \A other \in Ids : other # id /\ other \in found => index'[other] = back_patched(index[other], id)
  BY <1>1, <1>3, <1>4, NothingIsNoContent
<1>6. \A other \in Ids \ pending' :
        IF index[other] = NoEntry THEN index'[other] = NoEntry
        ELSE /\ index'[other] # NoEntry /\ index'[other].unit = index[other].unit
             /\ index'[other].source = index[other].source
             /\ index'[other].revision = index[other].revision
  <2> SUFFICES ASSUME NEW other \in Ids, other # id, other \in found
               PROVE  /\ index[other] # NoEntry
                      /\ index'[other] # NoEntry /\ index'[other].unit = index[other].unit
                      /\ index'[other].source = index[other].source
                      /\ index'[other].revision = index[other].revision
    BY <1>2, <1>5
  <2>1. index[other] \in KnowledgeEntry /\ index[other] # NoEntry
    BY <1>1 DEF Present, TypeOK
  <2>2. back_patched(index[other], id).revision = index[other].revision
    BY <2>1 DEF back_patched, KnowledgeEntry
  <2> QED
    BY <1>1, <1>5, <2>1, <2>2, BackPatched, NothingIsNoContent
<1>7. EntriesAreOwn'
  <2>1. index'[id].unit.id = id /\ index'[id].source = SourceOf(id)
    BY <1>1, <1>4, <1>5 DEF SourceOf, id
  <2> QED
    BY <1>2, <1>6, <2>1 DEF EntriesAreOwn, Present, SourceOf, ReloadInv
<1>8. PendingIsLater'
  <2>1. OnDisk(id)' = OnDisk(id)
    BY <1>2, SameFiles DEF disk
  <2>2. Agrees(id)
    BY <1>1, <1>2 DEF ReloadInv, OthersAgree
  <2>3. OnDisk(id) \in KnowledgeEntry =>
          index[id] # NoEntry /\ OnDisk(id).revision = index[id].revision /\ OnDisk(id).revision \in Nat
    BY <2>2, NothingIsNoContent DEF Agrees, KnowledgeEntry
  <2>4. OnDisk(id)' \in KnowledgeEntry => OnDisk(id)'.revision < index'[id].revision
    BY <1>4, <1>5, <2>1, <2>3
  <2> QED
    BY <1>1, <1>2, <1>5, <2>4 DEF PendingIsLater, Present
<1>9. WorkIsOwn'
  BY <1>2 DEF WorkIsOwn, ReloadInv
<1> QED
  BY <1>2, <1>6, <1>7, <1>8, <1>9, AheadKeeps

LEMMA WriteStoreIndexKeeps ==
  ASSUME TypeOK, ReloadInv, WriteStoreIndex
  PROVE  ReloadInv'
<1>1. /\ step = "persist_index" /\ pending = {} /\ pending' = {} /\ index' = index
      /\ UNCHANGED <<seed_files, obs_files, seeds_left, units_left>> /\ step' \in {"idle", "loop"}
      /\ store_index' = [ entry_ids |-> Present, seed_count |-> counts("Seed"),
                          observation_count |-> counts("Observation") ]
  BY DEF WriteStoreIndex, memory, loop, Return, ReloadInv, PendingIsLater
<1>2. store_index' \notin {NoEntry, Torn} /\ store_index'.entry_ids = Present
  <2>1. Present \in SUBSET Ids /\ \A source : counts(source) \in Nat
    <3>1. Present \in SUBSET Ids /\ IsFiniteSet(Ids)
      BY StoreConstants DEF Present
    <3>2. ASSUME NEW source PROVE counts(source) \in Nat
      <4>1. {id \in Present : index[id].source = source} \in SUBSET Ids
        BY <3>1
      <4> QED
        BY <3>1, <4>1, PartOfFinite DEF counts
    <3> QED
      BY <3>1, <3>2
  <2> QED
    BY <1>1, <2>1, NothingIsNoContent
<1>3. FilesAreOwn' /\ \A id : OnDisk(id)' = OnDisk(id)
  BY <1>1, SameFiles DEF ReloadInv
<1>4. \A id \in Ids : Agrees(id)
  BY <1>1 DEF ReloadInv, OthersAgree
<1>5. IndexedAreThere'
  BY <1>2, <1>3, <1>4, NothingIsNoContent DEF IndexedAreThere, Agrees, Present
<1>6. OthersAgree' /\ EntriesAreOwn'
  BY <1>1, <1>3, <1>4 DEF OthersAgree, Agrees, EntriesAreOwn, Present, SourceOf, ReloadInv
<1>7. OpenIsReadable' /\ NewIsEmpty' /\ PendingIsLater'
  BY <1>1, <1>2 DEF OpenIsReadable, NewIsEmpty, PendingIsLater, Readable, ReloadInv
<1>8. WorkIsOwn'
  BY <1>1 DEF WorkIsOwn, ReloadInv
<1> QED
  BY <1>3, <1>5, <1>6, <1>7, <1>8 DEF ReloadInv

-----------------------------------------------------------------------------
(* Every step keeps it.                                                    *)

LEMMA InitReload == Init => ReloadInv
<1> SUFFICES ASSUME Init PROVE ReloadInv
  OBVIOUS
<1> USE DEF Init
<1>1. FilesAreOwn /\ NewIsEmpty
  BY UnitConstants DEF FilesAreOwn, NewIsEmpty, OnDisk
<1>2. EntriesAreOwn /\ WorkIsOwn /\ PendingIsLater
  BY DEF EntriesAreOwn, WorkIsOwn, PendingIsLater, Present
<1> QED
  BY <1>1, <1>2 DEF ReloadInv, OpenIsReadable, OthersAgree, IndexedAreThere

LEMMA StepReload ==
  ASSUME PlainUse, IInv, ReloadInv, [Next]_vars
  PROVE  ReloadInv'
<1>1. TypeOK
  BY DEF IInv
<1>2. CASE UNCHANGED vars
  <2>1. /\ UNCHANGED <<index, seed_files, obs_files, store_index, step, pending>>
        /\ UNCHANGED <<seeds_left, units_left>>
    BY <1>2 DEF vars, memory, disk, loop
  <2>2. FilesAreOwn' /\ \A id : OnDisk(id)' = OnDisk(id)
    BY <2>1, SameFiles DEF ReloadInv
  <2>3. EntriesAreOwn' /\ WorkIsOwn' /\ OpenIsReadable' /\ NewIsEmpty'
    BY <2>1 DEF ReloadInv, EntriesAreOwn, WorkIsOwn, OpenIsReadable, NewIsEmpty, Readable,
                Present, SourceOf
  <2>4. PendingIsLater' /\ OthersAgree' /\ IndexedAreThere'
    BY <2>1, <2>2 DEF ReloadInv, PendingIsLater, OthersAgree, IndexedAreThere, Agrees, Present
  <2> QED
    BY <2>2, <2>3, <2>4 DEF ReloadInv
<1>3. CASE LoadExisting \/ CreateNew
  BY <1>3, OpenKeeps
<1>4. CASE \E dir \in SeedDirs : LoadSeeds(dir)
  BY <1>1, <1>4, LoadSeedsKeeps
<1>5. CASE \E entry \in seeds_left : ImportSeed(entry)
  BY <1>1, <1>5, ImportSeedKeeps
<1>6. CASE \E unit \in units_left : InsertObservation(unit)
  BY <1>1, <1>6, InsertKeeps
<1>7. CASE \E id \in pending : WriteSeed(id)
  BY <1>1, <1>7, WriteSeedKeeps
<1>8. CASE \E id \in pending : WriteObservation(id)
  BY <1>1, <1>8, WriteObservationKeeps
<1>9. CASE WriteStoreIndex
  BY <1>1, <1>9, WriteStoreIndexKeeps
<1>10. CASE Close \/ Crash \/ CrashDuringWrite
  BY <1>1, <1>10, EndKeeps
<1>11. CASE \/ \E units \in Batches : IngestBatch(units)
            \/ \E snapshot \in Snapshots : ImportSnapshot(snapshot)
            \/ \E entry \in seeds_left : SkipSeed(entry)
            \/ \E unit \in units_left : RefuseObservation(unit)
            \/ \E id \in Ids : Resolve(id)
  BY <1>1, <1>11, QuietActions
<1>12. CASE OpenFails
  BY <1>2, <1>12 DEF OpenFails
<1>13. CASE \/ \E dir \in SeedDirs : LoadSeedsFails(dir)
            \/ ImportSeedFails \/ WriteFails
            \/ \E percent \in DecayPercents : ApplyConfidenceDecay(percent)
            \/ \E threshold \in Thresholds : PruneBelowThreshold(threshold)
  BY <1>13 DEF PlainUse, LoadSeedsFails, ImportSeedFails, WriteFails
<1> QED
  BY <1>2, <1>3, <1>4, <1>5, <1>6, <1>7, <1>8, <1>9, <1>10, <1>11, <1>12, <1>13 DEF Next

LEMMA ReloadInvariant ==
  ASSUME PlainUse
  PROVE  Spec => [](IInv /\ ReloadInv)
<1>1. Init => IInv /\ ReloadInv
  BY InitIInv, InitReload
<1>2. IInv /\ ReloadInv /\ [Next]_vars => (IInv /\ ReloadInv)'
  BY StepIInv, StepReload
<1> QED
  BY <1>1, <1>2, PTL DEF Spec

-----------------------------------------------------------------------------
(* What that gives.                                                        *)

(* Between calls the store in memory is what the next process would load,  *)
(* and store_index.json lists only ids that have a file, wherever earlier  *)
(* processes died.                                                         *)
THEOREM StoredIsReloaded ==
  ASSUME PlainUse
  PROVE  Spec => []DiskAgrees
<1>1. ASSUME IInv, ReloadInv PROVE DiskAgrees
  <2>1. TypeOK
    BY <1>1 DEF IInv
  <2>2. ReloadAgrees
    <3> SUFFICES ASSUME step = "idle", Readable, NEW id \in Ids
                 PROVE  IF index[id] = NoEntry THEN loaded_index[id] = NoEntry
                        ELSE /\ loaded_index[id] # NoEntry
                             /\ loaded_index[id].unit = index[id].unit
                             /\ loaded_index[id].source = index[id].source
                             /\ loaded_index[id].revision = index[id].revision
      BY DEF ReloadAgrees
    <3>1. Agrees(id)
      BY <1>1 DEF ReloadInv, OthersAgree, PendingIsLater
    <3>2. loaded_index[id] = OnDisk(id)
      BY <1>1, <2>1, LoadedIsOnDisk DEF ReloadInv
    <3> QED
      BY <3>1, <3>2, NothingIsNoContent DEF Agrees
  <2>3. IndexedIdsHaveFiles
    <3> SUFFICES ASSUME store_index \notin {NoEntry, Torn}, NEW id \in store_index.entry_ids
                 PROVE  \E file \in {seed_files[FileOf[id]], obs_files[FileOf[id]]} :
                          file = Torn \/ (file # NoEntry /\ file.unit.id = id)
      BY DEF IndexedIdsHaveFiles
    <3>1. id \in Ids /\ OnDisk(id) # NoEntry
      BY <1>1, <2>1 DEF TypeOK, ReloadInv, IndexedAreThere
    <3>2. OnDisk(id) = Torn \/ OnDisk(id).unit.id = id
      BY <1>1, <3>1 DEF ReloadInv, FilesAreOwn
    <3> QED
      BY <3>1, <3>2 DEF OnDisk
  <2> QED
    BY <2>2, <2>3 DEF DiskAgrees
<1> QED
  BY <1>1, ReloadInvariant, PTL

(* No step, a crash included, takes the file of an observation back to an  *)
(* earlier revision, or gives it to another observation.                   *)
THEOREM FilesMoveForward ==
  ASSUME PlainUse
  PROVE  Spec => RevisionsNeverRegress
<1> DEFINE Forward ==
      \A f \in Files :
        obs_files[f] \notin {NoEntry, Torn} /\ obs_files'[f] \notin {obs_files[f], Torn}
        => /\ obs_files'[f] # NoEntry
           /\ obs_files'[f].unit.id = obs_files[f].unit.id
           /\ obs_files'[f].revision > obs_files[f].revision
<1>1. ASSUME IInv, ReloadInv, [Next]_vars PROVE Forward
  <2>1. TypeOK
    BY <1>1 DEF IInv
  <2>2. CASE UNCHANGED obs_files
    BY <2>2
  <2>3. ASSUME NEW id \in pending, WriteObservation(id) PROVE Forward
    <3>1. /\ id \in Ids /\ id \notin SeedIds /\ id \in Present /\ step = "persist_entry"
          /\ obs_files' = [obs_files EXCEPT ![FileOf[id]] = index[id]]
      BY <1>1, <2>1, <2>3 DEF WriteObservation, written, ReloadInv, PendingIsLater, TypeOK
    <3>2. index[id] \in KnowledgeEntry /\ index[id] # NoEntry /\ index[id].unit.id = id
      BY <1>1, <2>1, <3>1 DEF ReloadInv, EntriesAreOwn, Present, TypeOK
    <3>3. obs_files[FileOf[id]] \in KnowledgeEntry =>
            /\ obs_files[FileOf[id]].unit.id = id
            /\ obs_files[FileOf[id]].revision < index[id].revision
      BY <1>1, <2>3, <3>1, NothingIsNoContent
      DEF ReloadInv, FilesAreOwn, PendingIsLater, OnDisk
    <3>4. obs_files[FileOf[id]] \in KnowledgeEntry =>
            index[id].revision > obs_files[FileOf[id]].revision
      BY <3>2, <3>3 DEF KnowledgeEntry
    <3> SUFFICES ASSUME NEW f \in Files, obs_files[f] \notin {NoEntry, Torn},
                        obs_files'[f] # obs_files[f]
                 PROVE  /\ obs_files'[f] # NoEntry
                        /\ obs_files'[f].unit.id = obs_files[f].unit.id
                        /\ obs_files'[f].revision > obs_files[f].revision
      OBVIOUS
    <3>5. f = FileOf[id] /\ obs_files'[f] = index[id] /\ obs_files[f] \in KnowledgeEntry
      BY <2>1, <3>1 DEF TypeOK
    <3> QED
      BY <3>2, <3>3, <3>4, <3>5
  <2>4. CASE CrashDuringWrite
    BY <2>1, <2>4 DEF CrashDuringWrite, written, TypeOK
  <2> HIDE DEF Forward
  <2>5. CASE UNCHANGED vars
    BY <2>2, <2>5 DEF vars, disk
  <2> QED
    BY <1>1, <2>2, <2>3, <2>4, <2>5
    DEF Next, LoadExisting, OpenFails, CreateNew, LoadSeeds, LoadSeedsFails, IngestBatch,
        ImportSnapshot, ImportSeed, SkipSeed, ImportSeedFails, InsertObservation,
        RefuseObservation, WriteSeed, WriteStoreIndex, WriteFails, Resolve,
        ApplyConfidenceDecay, PruneBelowThreshold, Close, Crash, disk, vars
<1>2. IInv /\ ReloadInv /\ [Next]_vars => [Forward]_vars
  BY <1>1
<1> QED
  BY <1>2, ReloadInvariant, PTL DEF Spec, RevisionsNeverRegress
=============================================================================
