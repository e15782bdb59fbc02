\* Two PHP requests that overlap on one order: one that needs a human and may
\* fail, one that the policy allows and that erases the nonces, or one that the
\* plugin does not implement.  One API process may die.
SPECIFICATION SysSpec
CONSTANTS
  MaxOrders  = 1
  Asked      = {1}
  Actions    = {"deactivate_plugin", "clear_transients", "toggle_debug"}
  Tiers      = {"full_auto"}
  Pollers    = {w1, w2}
  Runners    = {}
  MaxCrashes = 1
  Capturing  = FALSE
  Disarming  = FALSE
  FailureThreshold = 2
SYMMETRY MCSymmetry
INVARIANTS
  ExecutedWasGranted
  RecordIsTruthful
CHECK_DEADLOCK FALSE
