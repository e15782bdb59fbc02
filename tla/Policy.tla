------------------------------- MODULE Policy -------------------------------
(***************************************************************************)
(* The policy engine of packages/shared: the action whitelist, the static  *)
(* risk of every action, and the decision that the customer's permission   *)
(* tier takes on it.  Pure data and one pure function; WorkOrders is built *)
(* on it.                                                                  *)
(***************************************************************************)

\* RiskLevelSchema, PermissionTierSchema and PolicyDecision.
RiskLevels      == {"low", "medium", "high", "blocked"}
PermissionTiers == {"full_auto", "some_access", "manual"}
Decisions       == {"allow", "ask", "block"}

\* The actions of ACTION_RISK_MAP, one set per risk.
LowRisk    == {"flush_cache", "clear_transients", "disable_maintenance_mode"}
MediumRisk == {"deactivate_plugin", "activate_plugin", "switch_theme",
               "toggle_debug", "update_option", "verify_core_integrity"}
HighRisk   == {"update_plugin", "update_core", "delete_plugin", "repair_db"}
Blocked    == {"run_arbitrary_command"}

WorkOrderActions == LowRisk \cup MediumRisk \cup HighRisk \cup Blocked

ActionRiskMap ==
  [a \in WorkOrderActions |->
     CASE a \in LowRisk    -> "low"
       [] a \in MediumRisk -> "medium"
       [] a \in HighRisk   -> "high"
       [] a \in Blocked    -> "blocked"]

\* policyDecision: a blocked action is blocked in every tier, and the two
\* automatic tiers are identical.
PolicyDecision(a, tier) ==
  IF ActionRiskMap[a] = "blocked" THEN "block"
  ELSE IF ActionRiskMap[a] = "low" /\ tier # "manual" THEN "allow"
  ELSE "ask"

\* INVERSE_ACTION of snapshots/revert.ts: the two actions that can be undone
\* mechanically, each by the other.
InverseAction ==
  [a \in {"deactivate_plugin", "activate_plugin"} |->
     IF a = "deactivate_plugin" THEN "activate_plugin" ELSE "deactivate_plugin"]
=============================================================================
