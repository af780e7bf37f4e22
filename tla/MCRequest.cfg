SPECIFICATION MCSpec
CONSTANTS
  Slices <- MCSlices
  Limit = 5
  MemoryLimit = 2
  Readers = {r1, r2}
  Txs = {t1, t2}
SYMMETRY Symmetry
INVARIANTS
  FilesAccounted HoldsAccepted ValuesRight  BuiltAsAsked
PROPERTIES
  ReadsAccepted ResetIsClean
CHECK_DEADLOCK FALSE
