SPECIFICATION FairSpec
CONSTANTS
  Processes = {p1, p2}
INVARIANTS
  BackgroundExact

  
CHECK_DEADLOCK FALSE
