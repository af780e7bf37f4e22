SPECIFICATION Spec
CONSTANTS
  Processes = {p1, p2}
  Instances = {i1, i2}
SYMMETRY Symmetry
INVARIANTS
   ListsAgree
PROPERTIES
  BlockKept
CHECK_DEADLOCK FALSE
