\* The API process dies once between a statement and its audit row.
SPECIFICATION Spec
CONSTANTS
  MaxOrders  = 1
  Asked      = {1}
  Actions    = {"deactivate_plugin"}
  Tiers      = {"full_auto"}
  Pollers    = {p1}
  Runners    = {}
  MaxCrashes = 1
  Capturing  = FALSE
  Disarming  = FALSE
INVARIANTS
  ServedIsAudited
CHECK_DEADLOCK FALSE
