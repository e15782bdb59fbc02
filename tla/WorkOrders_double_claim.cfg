\* Two claim requests of one site at the same time.
SPECIFICATION Spec
CONSTANTS
  MaxOrders  = 1
  Asked      = {1}
  Actions    = {"deactivate_plugin"}
  Tiers      = {"full_auto"}
  Pollers    = {p1, p2}
  Runners    = {}
  MaxCrashes = 0
  Capturing  = FALSE
  Disarming  = FALSE
INVARIANTS
  ClaimsAreExclusive
CHECK_DEADLOCK FALSE
