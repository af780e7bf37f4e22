SPECIFICATION StoresSpec
CONSTANTS
  Ids = {1, 2}
  Defaults = {1}
  FileRules = {}
  CrsRules = {}
  CustomRange = {1, 2}
  Savers = {s1, s2}
  Togglers = {}
  Switches = {t1, t2}
  None = None
  Torn = Torn
  lo = lo
  x = x
  wide = wide
  small = small
SYMMETRY Symmetry
INVARIANT RollbackIsOwn
CHECK_DEADLOCK FALSE
