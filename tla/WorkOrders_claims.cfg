\* Two claim requests, approvals, declines, reports and the sweep, interleaved.
\* No worker picks jobs up here: the reverts have a run of their own.
SPECIFICATION Spec
CONSTANTS
  MaxOrders  = 2
  Asked      = {1, 2}
  Actions    = {"deactivate_plugin", "flush_cache"}
  Tiers      = {"full_auto"}
  Pollers    = {p1, p2}
  Runners    = {}
  MaxCrashes = 0
  Capturing  = FALSE
  Disarming  = FALSE
SYMMETRY MCSymmetry
INVARIANTS
  NothingUnapprovedIsServed
  AuditIsBacked
PROPERTIES
  GateSpec
CHECK_DEADLOCK FALSE
