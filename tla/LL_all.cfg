SPECIFICATION Spec
CONSTANTS
  s1 = s1
  s2 = s2
  t1 = t1
  Sessions = {s1, s2}
  Tasks = {t1}
  Prefixes = {t1}
  PrefixOf <- OwnPrefix
  MaxSecond = 1
  Faults = TRUE
  Crashes = TRUE
  Nobody = Nobody
  Torn = Torn
INVARIANTS ValidRunsAreComplete KnowledgeIsAccountedFor IngestedIsStored
SYMMETRY SameSessions
CHECK_DEADLOCK FALSE
