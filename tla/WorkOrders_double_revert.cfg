\* The worker dies once in the middle of a revert.
SPECIFICATION Spec
CONSTANTS
  MaxOrders  = 3
  Asked      = {1, 2, 3}
  Actions    = {"deactivate_plugin"}
  Tiers      = {"full_auto"}
  Pollers    = {p1}
  Runners    = {r1}
  MaxCrashes = 1
  Capturing  = FALSE
  Disarming  = FALSE
INVARIANTS
  OneCorrectiveOrder
CHECK_DEADLOCK FALSE
