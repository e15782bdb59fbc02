\* One request at a time, the switch, a revert and the order that undoes the first;
\* one process of the control plane may die, and PHP at any time.
\* Two orders can fail at most twice: the threshold is two here, three in the code.
SPECIFICATION SysSpec
CONSTANTS
  MaxOrders  = 2
  Asked      = {1, 2}
  Actions    = {"deactivate_plugin"}
  Tiers      = {"full_auto"}
  Pollers    = {w1}
  Runners    = {r1}
  MaxCrashes = 1
  Capturing  = FALSE
  Disarming  = FALSE
  FailureThreshold = 2
SYMMETRY MCSymmetry
INVARIANTS
  FailuresTripSafeMode
PROPERTIES
  PromiseSpec
CHECK_DEADLOCK FALSE
