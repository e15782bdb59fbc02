\* Reports, switches, restore points and reverts, with an action that has an
\* inverse and one that has none.
SPECIFICATION Spec
CONSTANTS
  MaxOrders  = 2
  Asked      = {1, 2}
  Actions    = {"deactivate_plugin", "flush_cache"}
  Tiers      = {"full_auto"}
  Pollers    = {p1}
  Runners    = {r1}
  MaxCrashes = 0
  Capturing  = TRUE
  Disarming  = TRUE
INVARIANTS
  TypeOK
  RevertIsJustified
CHECK_DEADLOCK FALSE
