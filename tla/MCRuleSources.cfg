SPECIFICATION FairSpec
CONSTANTS
  NRules = 3
  Transforms <- MCTransforms
  Pipelines <- MCPipelines
  Targets = {"all", "x"}
  Headers <- MCHeaders
  SharedNames = FALSE
  NoKey = NoKey
  Phases = 2
INVARIANTS
   RulesWellFormed 
PROPERTIES
  Terminates
CHECK_DEADLOCK FALSE
