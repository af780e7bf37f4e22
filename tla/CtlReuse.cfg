SPECIFICATION Spec
CONSTANTS
  Wafs <- ForceWafs
  RuleIds <- MCRuleIds
  Marks = {"M"}
  Chunks = {}
  Statuses = {200}
  MaxOffered = 0
  MaxLogging = 1
PROPERTY CtlStaysInTransaction
