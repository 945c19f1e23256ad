-------------------------- MODULE MCKnowledgeStore --------------------------
(***************************************************************************)
(* Small instances of KnowledgeStore, in which every id has a file of its  *)
(* own.                                                                    *)
(***************************************************************************)
EXTENDS KnowledgeStore

CONSTANTS a, b, c

MCSources == {"SyntheticRun", "ManualEntry"}
MCTypes == {"LegalityRule", "SurvivalMatrixEntry"}

\* sanitize_id on ids it keeps apart
OwnFile == [id \in Ids |-> id]

Scope(devices) == [d \in Dims |-> IF d = "device_classes" THEN devices ELSE {"unknown"}]

Rule(id, claim, devices) ==
  [ id |-> id, knowledge_type |-> "LegalityRule", evidence_source |-> "SyntheticRun",
    scope |-> Scope(devices), payload |-> claim, confidence |-> 3, evidence_count |-> 1 ]

Survival(id, confidence) ==
  [ id |-> id, knowledge_type |-> "SurvivalMatrixEntry", evidence_source |-> "ManualEntry",
    scope |-> Scope({"unknown"}), payload |-> "other", confidence |-> confidence,
    evidence_count |-> 1 ]

NoEvidence(u) == [u EXCEPT !.evidence_count = 0]

LegalA == Rule(a, "ane_legal", {"M2"})
IllegalA == Rule(a, "not_ane_legal", {"M2"})
IllegalB == Rule(b, "not_ane_legal", {"M2", "M3"})
LegalC == Rule(c, "ane_legal", {"M3"})

SeedEntry(unit) == new_entry(unit, "Seed")

\* Every operation on two ids: a seed directory that has a twice, ids that
\* are seeds and observations in turn, changing types and sources, a unit that
\* fails validation, writes that fail, crashes.
AllUnits == {LegalA, Survival(a, 9), NoEvidence(IllegalB)}
AllBatches == {{LegalA}, {Survival(a, 9), NoEvidence(IllegalB)}}
AllSeedDirs == {{LegalA, Survival(a, 2)}}
AllSnapshots == {[seeds |-> {SeedEntry(IllegalB)}, observations |-> {LegalA}]}

\* Seeds and observations with ids of their own, nothing but insertions,
\* imports and seed loading: what the CLI does to a store. The three ids come
\* into and out of conflict, by claims and by confidence.
InsertUnits == {LegalA, Survival(a, 9), IllegalB, Survival(b, 2)}
InsertBatches == {{u} : u \in InsertUnits} \union {{LegalA, IllegalB}}
InsertSeedDirs == {{LegalC}, {LegalC, Survival(c, 9)}}
InsertSnapshots ==
  {[seeds |-> {SeedEntry(LegalC)}, observations |-> {IllegalA, IllegalB}]}

None == {}
=============================================================================
