SPECIFICATION FairSpec
CONSTANTS
  Wafs <- RuleWafs
  RuleIds <- MCRuleIds
  Marks = {"M"}
  Chunks = {}
  Statuses = {200}
  MaxOffered = 0
  MaxLogging = 2
INVARIANTS
  DenyIsFinal VerdictExplained FlowStaysInPhase
PROPERTIES
  ReuseIsFresh ImplementsContract 
