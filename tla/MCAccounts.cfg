SPECIFICATION AccountsSpec
CONSTANTS
  DefaultRole <- MCDefaultRole
  Passwords = {1}
  Default = 1
  NoHash = 0
  Keys = {}
  GivenRoles = {"Admin", "Viewer"}
  TokenLife = 1
  MaxTime = 2
  MaxUpdates = 2
  Callers = {c1, c2}
SYMMETRY Symmetry
INVARIANTS
  RightsFresh KeysBounded

  
CHECK_DEADLOCK FALSE
