\* One order is asked for; its corrective order has a row even when the worker that issues
\* it dies and issues it again.  One process may die anywhere.  No symmetry: liveness.
SPECIFICATION FairSpec
CONSTANTS
  MaxOrders  = 3
  Asked      = {1}
  Actions    = {"deactivate_plugin", "flush_cache"}
  Tiers      = {"full_auto"}
  Pollers    = {p1}
  Runners    = {r1}
  MaxCrashes = 1
  Capturing  = FALSE
  Disarming  = FALSE
INVARIANTS
  RevertedAsRecorded
  CompleteWithoutCrash
PROPERTIES
  PendingIsResolved
  SwitchTakesEffect
CHECK_DEADLOCK FALSE
