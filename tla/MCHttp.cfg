SPECIFICATION HttpSpec
CONSTANTS
  Wafs <- HttpWafs
  RuleIds <- HttpRuleIds
  Marks = {"M"}
  Chunks = {0, 1, 3}
  Statuses = {200, 204}
  MaxOffered = 4
  MaxLogging = 1
  BodySizes = {0, 1, 3}
  Slices = {1, 3}
  Codes = {200, 204}
  MaxWritten = 4
INVARIANTS
  DeniedIsNotServed BodiesIntact DeniedAnswered
PROPERTIES
  RequestsEnd
