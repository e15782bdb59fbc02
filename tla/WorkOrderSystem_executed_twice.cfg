\* Two PHP requests that poll at the same time.
SPECIFICATION SysSpec
CONSTANTS
  MaxOrders  = 1
  Asked      = {1}
  Actions    = {"deactivate_plugin"}
  Tiers      = {"full_auto"}
  Pollers    = {w1, w2}
  Runners    = {}
  MaxCrashes = 0
  Capturing  = FALSE
  Disarming  = FALSE
  FailureThreshold = 3
SYMMETRY MCSymmetry
INVARIANTS
  ExecutedAtMostOnce
CHECK_DEADLOCK FALSE
