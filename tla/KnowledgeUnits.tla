--------------------------- MODULE KnowledgeUnits ---------------------------
(***************************************************************************)
(* The data of MILLer's knowledge store: a knowledge unit (KIR), the entry *)
(* the store wraps it in, and the pure predicates over units that decide   *)
(* whether two of them conflict.                                           *)
(*                                                                         *)
(* Abstractions.  A payload is one of the claims the predicates tell apart.*)
(* A confidence is an integer number of hundredths or tenths of            *)
(* MaxConfidence (which stands for 1.0); ExtremeGap stands for 0.6.        *)
(* Timestamps, versions and provenance decide nothing and are left out.    *)
(***************************************************************************)
EXTENDS Integers

CONSTANTS
  Ids,            \* ids of knowledge units
  Types,          \* the values of KnowledgeType in use, by name
  Sources,        \* the values of EvidenceSource in use, by name
  Tags,           \* device classes, OS versions and opset versions in use
  Files,          \* file names below seeds/ and observations/
  FileOf,         \* FileOf[id]: the file name sanitize_id(id) gives
  MaxConfidence,  \* the integer that stands for confidence 1.0
  ExtremeGap      \* the integer that stands for the divergence 0.6

ASSUME UnitConstants ==
  /\ FileOf \in [Ids -> Files]
  /\ MaxConfidence \in Nat
  /\ ExtremeGap \in 0 .. MaxConfidence

Dims == {"device_classes", "os_versions", "opset_versions"}

KnowledgeScope == [Dims -> SUBSET (Tags \union {"unknown"})]

\* The payload fields ane_legal and quality_impact, as far as they can differ.
Claims == {"ane_legal", "not_ane_legal", "negligible", "severe", "other"}

KnowledgeUnit ==
  [ id              : Ids,
    knowledge_type  : Types,
    evidence_source : Sources,
    scope           : KnowledgeScope,
    payload         : Claims,
    confidence      : 0 .. MaxConfidence,
    evidence_count  : Nat ]

(* ConflictStatus: NoConflict is no conflicts and not resolved,            *)
(* ConflictedWith(ids) is conflicts = ids, Resolved is resolved.           *)
KnowledgeEntry ==
  [ unit      : KnowledgeUnit,
    source    : {"Seed", "Observation"},
    conflicts : SUBSET Ids,
    resolved  : BOOLEAN,
    revision  : Nat ]

(* Two scopes overlap if they share a value in each dimension, "unknown"   *)
(* on either side matching everything.                                     *)
scopes_overlap(a, b) ==
  \A d \in Dims : \/ a[d] \intersect b[d] # {}
                  \/ "unknown" \in a[d] \union b[d]

(* Contradiction is judged by the type of the first unit.                  *)
claims_contradict(a, b) ==
  \/ /\ a.knowledge_type = "LegalityRule"
     /\ {a.payload, b.payload} = {"ane_legal", "not_ane_legal"}
  \/ /\ a.knowledge_type = "PrecisionHazard"
     /\ {a.payload, b.payload} = {"negligible", "severe"}
  \/ /\ a.knowledge_type \notin {"LegalityRule", "PrecisionHazard"}
     /\ \/ a.confidence - b.confidence > ExtremeGap
        \/ b.confidence - a.confidence > ExtremeGap

(* Two entries conflict: same type, overlapping scopes, contradiction.     *)
conflicting(a, b) ==
  /\ a.knowledge_type = b.knowledge_type
  /\ scopes_overlap(a.scope, b.scope)
  /\ claims_contradict(a, b)

(* The part of UpdatePipeline::validate that an input can fail here: ids   *)
(* are never empty and confidences never out of range in KnowledgeUnit.    *)
validate(u) == u.evidence_count >= 1

(* Linear decay: `percent` is 1% for every 30 days elapsed; never below 0. *)
apply_time_decay(confidence, percent) ==
  IF percent >= 100 THEN 0 ELSE (confidence * (100 - percent)) \div 100
=============================================================================
