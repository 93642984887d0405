SPECIFICATION UndisturbedSpec
CONSTANTS
  Workers = {w1, w2}
  Versions = {v1, v2}
  Queries = {q1}
  Asked = {1, 3}
  CacheEnabled = TRUE
  Absent = Absent
  Empty = Empty
  Garbage = Garbage
  None = None
SYMMETRY Symmetry
CHECK_DEADLOCK FALSE
INVARIANTS
  TopKEnforced
