SPECIFICATION VersionsSpec
CONSTANTS
  Versions = {v1, v2, v3, v4}
  Contents = {a, b, c}
  w1 = w1  w2 = w2
  Workers = {w1, w2}
  Serves <- Everyone
  Unused = Unused  Gone = Gone
SYMMETRY RowSymmetry
CHECK_DEADLOCK FALSE
INVARIANTS TypeOK ActiveVersionIsCurrent
PROPERTIES ActiveVersionSurvives RollbackKeepsWork
