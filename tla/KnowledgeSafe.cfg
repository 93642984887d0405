SPECIFICATION Spec
CONSTANTS
  Workers = {w1, w2, w3}
  Versions = {v1, v2}
  Queries = {q1, q2}
  Asked = {7}
  CacheEnabled = TRUE
  Absent = Absent
  Empty = Empty
  Garbage = Garbage
  None = None
SYMMETRY Symmetry
CHECK_DEADLOCK FALSE
INVARIANTS
  TypeOK
  AnswersMatchTheIndexRead
  RowsMatchTheirKeys
  LoneRebuildsLeaveWholeFiles
