SPECIFICATION FairSpec
CONSTANTS
  Reqs = {r1, r2}
  MaxServed = 2
INVARIANTS
  StoppedNotServed 

  
CHECK_DEADLOCK FALSE
