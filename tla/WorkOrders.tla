----------------------------- MODULE WorkOrders -----------------------------
(***************************************************************************)
(* The control plane's side of a work order: the work_orders table and the *)
(* handlers and jobs that write it.                                        *)
(*                                                                         *)
(*   packages/db/src/repositories/work-orders.ts   the SQL statements      *)
(*   apps/api/src/routes/work-orders.ts            approve, decline, result*)
(*   apps/api/src/routes/sites.ts                  the claim route         *)
(*   apps/api/src/worker/tasks/dead-mans-switch.ts arm, disarm, fire       *)
(*   apps/api/src/snapshots/revert.ts              executeRevert           *)
(*                                                                         *)
(* One step is one SQL statement (they are not wrapped in transactions),   *)
(* except the claim, whose subquery and whose row update see the table at  *)
(* two different moments.  What a handler still has to do after its first  *)
(* statement is kept in todo, a claim in claim and a revert in revert, so  *)
(* that any two of them interleave and a crash may cut any of them short.  *)
(*                                                                         *)
(* The plugin is the environment here: it polls and reports at any time.   *)
(* The rows are those of one site; every query of the claim and result     *)
(* routes is restricted to the authenticated site's rows.                  *)
(***************************************************************************)
EXTENDS Naturals, FiniteSets, Policy

CONSTANTS
  MaxOrders,   \* bound: rows the work_orders table can hold
  Asked,       \* bound: rows for orders that callers ask for, the others are correctives
  Actions,     \* the actions that the callers of the issuer ask for
  Tiers,       \* the permission tiers of the site over time
  Pollers,     \* claim requests that can be in flight at the same time
  Runners,     \* reverts that can be in flight at the same time
  MaxCrashes,  \* bound: processes that die between two of their statements
  Capturing,   \* whether a caller captures snapshots (in src only tests do)
  Disarming    \* whether a caller disarms switches (in src only tests do)

ASSUME WorkOrdersAssumption ==
  /\ MaxOrders \in Nat /\ Asked \subseteq 1 .. MaxOrders
  /\ Actions \subseteq WorkOrderActions
  /\ Tiers \subseteq PermissionTiers
  /\ MaxCrashes \in Nat
  /\ Capturing \in BOOLEAN
  /\ Disarming \in BOOLEAN

\* Rows are numbered in the order of issued_at; 0 is no row.
Orders  == 1 .. MaxOrders
NoOrder == 0

VARIABLES
  status,     \* the status column, "none" while the row does not exist
  action,     \* the action column, "none" while the row does not exist
  lapsed,     \* expires_at is in the past
  grant,      \* history: who let the order become pending
  undoes,     \* history: the order that this corrective order was issued for
  snapshots,  \* orders that a snapshots row is linked to
  audit,      \* the rows of audit_log: <<event, order>>
  todo,       \* statements that handlers have still to execute
  armed,      \* orders with a scheduled dead_mans_switch_fire job
  claim,      \* the claim requests in flight
  revert,     \* the executions of executeRevert and of its callers in flight
  crashes     \* how many processes have died so far

vars == <<status, action, lapsed, grant, undoes, snapshots, audit, todo,
          armed, claim, revert, crashes>>

rowVars == <<action, grant, undoes>>

Statuses == {"awaiting_approval", "pending", "claimed", "executed",
             "reverted", "expired", "declined"}

\* Event types of audit_log; an execution report is logged with its outcome.
Events == {"work_order_issued", "work_order_awaiting_approval",
           "work_order_approved", "work_order_declined", "work_order_claimed",
           "executed_success", "executed_failure", "dead_mans_switch_fired",
           "work_order_reverted", "revert_escalated_to_human"}

\* A statement to come: an audit_log insert, or the call that arms the switch.
Arm   == "arm_dead_mans_switch"
Steps == (Events \cup {Arm}) \X Orders

ClaimStates == [pc : {"idle", "update", "audit"}, o : 0 .. MaxOrders]
RevertPCs   == {"idle", "check", "fired", "issue", "issued", "mark",
                "reverted", "escalate"}
RevertStates == [pc : RevertPCs, o : 0 .. MaxOrders, job : BOOLEAN,
                 corrective : 0 .. MaxOrders]

NoClaim  == [pc |-> "idle", o |-> NoOrder]
NewRevert(pc, o, job) == [pc |-> pc, o |-> o, job |-> job, corrective |-> NoOrder]
NoRevert == NewRevert("idle", NoOrder, FALSE)

TypeOK ==
  /\ status    \in [Orders -> Statuses \cup {"none"}]
  /\ action    \in [Orders -> WorkOrderActions \cup {"none"}]
  /\ lapsed    \in [Orders -> BOOLEAN]
  /\ grant     \in [Orders -> {"nobody", "policy", "system", "human"}]
  /\ undoes    \in [Orders -> 0 .. MaxOrders]
  /\ snapshots \subseteq Orders
  /\ audit     \subseteq (Events \X Orders)
  /\ todo      \subseteq Steps
  /\ armed     \subseteq Orders
  /\ claim     \in [Pollers -> ClaimStates]
  /\ revert    \in [Runners -> RevertStates]
  /\ crashes   \in 0 .. MaxCrashes
  /\ \A p \in Pollers : claim[p].pc # "idle" => claim[p].o \in Orders
  /\ \A r \in Runners :
       /\ revert[r].pc # "idle" => revert[r].o \in Orders
       /\ revert[r].pc = "issued" => revert[r].corrective \in Orders

Init ==
  /\ status    = [o \in Orders |-> "none"]
  /\ action    = [o \in Orders |-> "none"]
  /\ lapsed    = [o \in Orders |-> FALSE]
  /\ grant     = [o \in Orders |-> "nobody"]
  /\ undoes    = [o \in Orders |-> NoOrder]
  /\ snapshots = {}
  /\ audit     = {}
  /\ todo      = {}
  /\ armed     = {}
  /\ claim     = [p \in Pollers |-> NoClaim]
  /\ revert    = [r \in Runners |-> NoRevert]
  /\ crashes   = 0

Exists(o) == status[o] # "none"

\* The id the next insert gets: rows are inserted in the order of issued_at.
IsNext(o) == ~Exists(o) /\ \A p \in Orders : p < o => Exists(p)

-----------------------------------------------------------------------------
(***************************************************************************)
(* Issuance and approval.                                                  *)
(***************************************************************************)

\* issueWorkOrder's insert.  Its audit_log insert is a second statement.
InsertRow(o, a, s, who, cause) ==
  /\ IsNext(o)
  /\ status' = [status EXCEPT ![o] = s]
  /\ action' = [action EXCEPT ![o] = a]
  /\ grant'  = [grant EXCEPT ![o] = who]
  /\ undoes' = [undoes EXCEPT ![o] = cause]

IssueWorkOrderWithPolicy(o, a, tier) ==
  /\ o \in Asked
  /\ \/ /\ PolicyDecision(a, tier) = "ask"
        /\ InsertRow(o, a, "awaiting_approval", "nobody", NoOrder)
        /\ todo' = todo \cup {<<"work_order_awaiting_approval", o>>}
     \/ /\ PolicyDecision(a, tier) = "allow"
        /\ InsertRow(o, a, "pending", "policy", NoOrder)
        /\ todo' = todo \cup {<<"work_order_issued", o>>}
  /\ UNCHANGED <<lapsed, snapshots, audit, armed, claim, revert, crashes>>

\* captureSnapshot runs "before a risky action executes".
CaptureSnapshot(o) ==
  /\ Capturing
  /\ status[o] \in {"awaiting_approval", "pending", "claimed"}
  /\ snapshots' = snapshots \cup {o}
  /\ UNCHANGED <<status, rowVars, lapsed, audit, todo, armed, claim, revert, crashes>>

\* Fault: the guard lets a declined order through.
ApprovableOnceDeclined(o) == status[o] \in {"awaiting_approval", "declined"}

Approvable(o) == status[o] = "awaiting_approval"

ApproveWorkOrder(o) ==
  /\ Approvable(o)
  /\ status' = [status EXCEPT ![o] = "pending"]
  /\ grant'  = [grant EXCEPT ![o] = "human"]
  /\ todo'   = todo \cup {<<"work_order_approved", o>>}
  /\ UNCHANGED <<action, undoes, lapsed, snapshots, audit, armed, claim, revert, crashes>>

DeclineWorkOrder(o) ==
  /\ Approvable(o)
  /\ status' = [status EXCEPT ![o] = "declined"]
  /\ todo'   = todo \cup {<<"work_order_declined", o>>}
  /\ UNCHANGED <<rowVars, lapsed, snapshots, audit, armed, claim, revert, crashes>>

-----------------------------------------------------------------------------
(***************************************************************************)
(* Expiry.  Time is reduced to the moment at which expires_at goes by.     *)
(***************************************************************************)

Lapse(o) ==
  /\ Exists(o) /\ ~lapsed[o]
  /\ lapsed' = [lapsed EXCEPT ![o] = TRUE]
  /\ UNCHANGED <<status, rowVars, snapshots, audit, todo, armed, claim, revert, crashes>>

\* Faults: the sweep expires claimed orders too, or looks for the wrong status.
StaleOrClaimed == {o \in Orders : status[o] \in {"pending", "claimed"} /\ lapsed[o]}
StaleRequests  == {o \in Orders : status[o] = "awaiting_approval" /\ lapsed[o]}

Stale == {o \in Orders : status[o] = "pending" /\ lapsed[o]}

ExpireStaleWorkOrders ==
  /\ Stale # {}
  /\ status' = [o \in Orders |-> IF o \in Stale THEN "expired" ELSE status[o]]
  /\ UNCHANGED <<rowVars, lapsed, snapshots, audit, todo, armed, claim, revert, crashes>>

-----------------------------------------------------------------------------
(***************************************************************************)
(* Claiming.  The subquery reads the statement's snapshot and locks        *)
(* nothing; the outer UPDATE waits for the row and then matches on the id  *)
(* alone, so it takes the row whatever its status has become.              *)
(***************************************************************************)

\* Fault: orders that wait for a human are picked too.
IsOldestOpen(o) ==
  /\ status[o] \in {"awaiting_approval", "pending"}
  /\ \A p \in Orders : p < o => status[p] \notin {"awaiting_approval", "pending"}

IsOldestPending(o) ==
  /\ status[o] = "pending"
  /\ \A p \in Orders : p < o => status[p] # "pending"

ClaimSelect(p, o) ==
  /\ claim[p].pc = "idle"
  /\ IsOldestPending(o)
  /\ claim' = [claim EXCEPT ![p] = [pc |-> "update", o |-> o]]
  /\ UNCHANGED <<status, rowVars, lapsed, snapshots, audit, todo, armed, revert, crashes>>

ClaimUpdate(p) ==
  /\ claim[p].pc = "update"
  /\ status' = [status EXCEPT ![claim[p].o] = "claimed"]
  /\ claim'  = [claim EXCEPT ![p].pc = "audit"]
  /\ UNCHANGED <<rowVars, lapsed, snapshots, audit, todo, armed, revert, crashes>>

\* The route logs the claim, then answers with the order's wire payload.
ClaimAudit(p) ==
  /\ claim[p].pc = "audit"
  /\ audit' = audit \cup {<<"work_order_claimed", claim[p].o>>}
  /\ claim' = [claim EXCEPT ![p] = NoClaim]
  /\ UNCHANGED <<status, rowVars, lapsed, snapshots, todo, armed, revert, crashes>>

-----------------------------------------------------------------------------
(***************************************************************************)
(* The execution report and the dead man's switch.                         *)
(***************************************************************************)

\* markWorkOrderExecuted; a report that finds another status gets a 409.
Reportable(o) == status[o] = "claimed"

ReportResult(o, success) ==
  /\ Reportable(o)
  /\ status' = [status EXCEPT ![o] = "executed"]
  /\ todo' = todo \cup
       {<<IF success THEN "executed_success" ELSE "executed_failure", o>>}
  /\ UNCHANGED <<rowVars, lapsed, snapshots, audit, armed, claim, revert, crashes>>

\* Fault: the switch is armed for the wrong outcome.
ArmAfterFailure(t) == IF t[1] = "executed_failure" THEN {<<Arm, t[2]>>} ELSE {}

\* A report of a success goes on to arm the switch once it is logged.
FollowUp(t) == IF t[1] = "executed_success" THEN {<<Arm, t[2]>>} ELSE {}

\* The next statement of a handler.
WriteAudit(t) ==
  /\ t \in todo /\ t[1] # Arm
  /\ audit' = audit \cup {t}
  /\ todo'  = (todo \ {t}) \cup FollowUp(t)
  /\ UNCHANGED <<status, rowVars, lapsed, snapshots, armed, claim, revert, crashes>>

\* Arming twice replaces the scheduled job: its key is the order's id.
ArmDeadMansSwitch(o) ==
  /\ <<Arm, o>> \in todo
  /\ armed' = armed \cup {o}
  /\ todo'  = todo \ {<<Arm, o>>}
  /\ UNCHANGED <<status, rowVars, lapsed, snapshots, audit, claim, revert, crashes>>

DisarmDeadMansSwitch(o) ==
  /\ Disarming
  /\ o \in armed
  /\ armed' = armed \ {o}
  /\ UNCHANGED <<status, rowVars, lapsed, snapshots, audit, todo, claim, revert, crashes>>

\* A worker picks the job up once its timeout has passed.
FireStart(r, o) ==
  /\ revert[r].pc = "idle"
  /\ o \in armed
  /\ armed'  = armed \ {o}
  /\ revert' = [revert EXCEPT ![r] = NewRevert("check", o, TRUE)]
  /\ UNCHANGED <<status, rowVars, lapsed, snapshots, audit, todo, claim, crashes>>

FireCheck(r) ==
  /\ revert[r].pc = "check"
  /\ revert' = [revert EXCEPT ![r] =
                  IF status[@.o] = "executed" THEN [@ EXCEPT !.pc = "fired"]
                  ELSE NoRevert]
  /\ UNCHANGED <<status, rowVars, lapsed, snapshots, audit, todo, armed, claim, crashes>>

FireAudit(r) ==
  /\ revert[r].pc = "fired"
  /\ audit'  = audit \cup {<<"dead_mans_switch_fired", revert[r].o>>}
  /\ revert' = [revert EXCEPT ![r].pc = "issue"]
  /\ UNCHANGED <<status, rowVars, lapsed, snapshots, todo, armed, claim, crashes>>

-----------------------------------------------------------------------------
(***************************************************************************)
(* executeRevert.  What it reads of the order never changes, so its reads  *)
(* need no step; it never looks at the status.                             *)
(***************************************************************************)

\* Fault: any order can be reverted from the restore point list.
RevertableAtAnyTime(o) == Exists(o)

\* A restore point of the organisation that is linked to a work order.
RestorePointOf(o) == o \in snapshots

\* POST /api/restore-points/:id/revert calls executeRevert directly.
RestorePointRevert(r, o) ==
  /\ revert[r].pc = "idle"
  /\ RestorePointOf(o)
  /\ revert' = [revert EXCEPT ![r] = NewRevert("issue", o, FALSE)]
  /\ UNCHANGED <<status, rowVars, lapsed, snapshots, audit, todo, armed, claim, crashes>>

\* Fault: the id of the corrective order is not kept.
RevertIssueForgetful(r, c) ==
  /\ revert[r].pc = "issue"
  /\ action[revert[r].o] \in DOMAIN InverseAction
  /\ InsertRow(c, InverseAction[action[revert[r].o]], "pending", "system", revert[r].o)
  /\ revert' = [revert EXCEPT ![r].pc = "issued"]
  /\ UNCHANGED <<lapsed, snapshots, audit, todo, armed, claim, crashes>>

\* The corrective order is pending at once: the policy is not asked.
RevertIssue(r, c) ==
  /\ revert[r].pc = "issue"
  /\ action[revert[r].o] \in DOMAIN InverseAction
  /\ InsertRow(c, InverseAction[action[revert[r].o]], "pending", "system", revert[r].o)
  /\ revert' = [revert EXCEPT ![r].pc = "issued", ![r].corrective = c]
  /\ UNCHANGED <<lapsed, snapshots, audit, todo, armed, claim, crashes>>

RevertIssueAudit(r) ==
  /\ revert[r].pc = "issued"
  /\ audit'  = audit \cup {<<"work_order_issued", revert[r].corrective>>}
  /\ revert' = [revert EXCEPT ![r].pc = "mark"]
  /\ UNCHANGED <<status, rowVars, lapsed, snapshots, todo, armed, claim, crashes>>

RevertWithoutInverse(r) ==
  /\ revert[r].pc = "issue"
  /\ action[revert[r].o] \notin DOMAIN InverseAction
  /\ revert' = [revert EXCEPT ![r].pc = "mark"]
  /\ UNCHANGED <<status, rowVars, lapsed, snapshots, audit, todo, armed, claim, crashes>>

\* Fault: the update expects a status that an executed order has left.
MarkableWhenClaimed(o) == status[o] = "claimed"

Markable(o) == status[o] = "executed"

\* markWorkOrderReverted, whose result (was there a row?) is ignored.
RevertMark(r) ==
  /\ revert[r].pc = "mark"
  /\ status' = IF Markable(revert[r].o)
               THEN [status EXCEPT ![revert[r].o] = "reverted"]
               ELSE status
  /\ revert' = [revert EXCEPT ![r].pc = "reverted"]
  /\ UNCHANGED <<rowVars, lapsed, snapshots, audit, todo, armed, claim, crashes>>

RevertAudit(r) ==
  /\ revert[r].pc = "reverted"
  /\ audit'  = audit \cup {<<"work_order_reverted", revert[r].o>>}
  /\ revert' = [revert EXCEPT ![r].pc = "escalate"]
  /\ UNCHANGED <<status, rowVars, lapsed, snapshots, todo, armed, claim, crashes>>

RevertEscalate(r) ==
  /\ revert[r].pc = "escalate"
  /\ audit'  = audit \cup {<<"revert_escalated_to_human", revert[r].o>>}
  /\ revert' = [revert EXCEPT ![r] = NoRevert]
  /\ UNCHANGED <<status, rowVars, lapsed, snapshots, todo, armed, claim, crashes>>

-----------------------------------------------------------------------------
(***************************************************************************)
(* Crashes: the API or the worker process dies between two statements.     *)
(***************************************************************************)

Crash == crashes < MaxCrashes /\ crashes' = crashes + 1

CrashHandler(t) ==
  /\ t \in todo
  /\ Crash
  /\ todo' = todo \ {t}
  /\ UNCHANGED <<status, rowVars, lapsed, snapshots, audit, armed, claim, revert>>

CrashClaim(p) ==
  /\ claim[p].pc # "idle"
  /\ Crash
  /\ claim' = [claim EXCEPT ![p] = NoClaim]
  /\ UNCHANGED <<status, rowVars, lapsed, snapshots, audit, todo, armed, revert>>

\* Fault: a job that got past issuing the corrective order counts as done, marked or not.
RescheduledUnlessIssued(r) ==
  IF revert[r].job /\ revert[r].pc \notin {"issued", "mark"} THEN {revert[r].o} ELSE {}

\* graphile-worker runs a job whose worker died again; a request is lost.
Rescheduled(r) == IF revert[r].job THEN {revert[r].o} ELSE {}

CrashRevert(r) ==
  /\ revert[r].pc # "idle"
  /\ Crash
  /\ revert' = [revert EXCEPT ![r] = NoRevert]
  /\ armed'  = armed \cup Rescheduled(r)
  /\ UNCHANGED <<status, rowVars, lapsed, snapshots, audit, todo, claim>>

-----------------------------------------------------------------------------
ClaimStep(p) == ClaimUpdate(p) \/ ClaimAudit(p)

RevertStep(r) ==
  \/ FireCheck(r)
  \/ FireAudit(r)
  \/ \E c \in Orders : RevertIssue(r, c)
  \/ RevertIssueAudit(r)
  \/ RevertWithoutInverse(r)
  \/ RevertMark(r)
  \/ RevertAudit(r)
  \/ RevertEscalate(r)

\* What happens to an order without the site taking part.
OrderStep(o) ==
  \/ \E a \in Actions, tier \in Tiers : IssueWorkOrderWithPolicy(o, a, tier)
  \/ CaptureSnapshot(o)
  \/ ApproveWorkOrder(o)
  \/ DeclineWorkOrder(o)
  \/ Lapse(o)
  \/ ArmDeadMansSwitch(o)
  \/ DisarmDeadMansSwitch(o)

InternalStep ==
  \/ \E o \in Orders : OrderStep(o)
  \/ ExpireStaleWorkOrders
  \/ \E t \in todo : WriteAudit(t) \/ CrashHandler(t)
  \/ \E r \in Runners :
       \/ \E o \in Orders : FireStart(r, o) \/ RestorePointRevert(r, o)
       \/ RevertStep(r)
       \/ CrashRevert(r)

\* What a site's requests set off: claims and reports.
SiteStep ==
  \/ \E p \in Pollers :
       ClaimStep(p) \/ CrashClaim(p) \/ \E o \in Orders : ClaimSelect(p, o)
  \/ \E o \in Orders, success \in BOOLEAN : ReportResult(o, success)

Next == InternalStep \/ SiteStep

Spec == Init /\ [][Next]_vars

\* What runs without anybody's help: time, the sweep that cron starts every
\* minute, the statements of a handler or job once it has started, and the
\* workers that pick scheduled jobs up.  Nobody has to poll, approve or report.
Fairness ==
  /\ \A o \in Orders : WF_vars(Lapse(o)) /\ WF_vars(ArmDeadMansSwitch(o))
  /\ WF_vars(ExpireStaleWorkOrders)
  /\ \A p \in Pollers : WF_vars(ClaimStep(p))
  /\ \A t \in Steps : WF_vars(WriteAudit(t))
  /\ \A r \in Runners : WF_vars(RevertStep(r))
  /\ \A o \in Orders : WF_vars(\E r \in Runners : FireStart(r, o))

FairSpec == Spec /\ Fairness

-----------------------------------------------------------------------------
(***************************************************************************)
(* Properties.                                                             *)
(***************************************************************************)

\* The statuses of an order that a site has, or has had, in hand.
ServedStatuses == {"claimed", "executed", "reverted"}
Served == {o \in Orders : status[o] \in ServedStatuses}

PhaseOf(s) ==
  CASE s = "none"              -> "absent"
    [] s = "awaiting_approval" -> "asking"
    [] s = "declined"          -> "refused"
    [] s \in ServedStatuses \cup {"pending", "expired"} -> "released"

Gate == INSTANCE ApprovalGate
          WITH phase <- [o \in Orders |-> PhaseOf(status[o])], served <- Served

\* The table and its handlers implement the approval gate: no interleaving of
\* approvals, declines, claims, sweeps, reverts and crashes serves an order that
\* nobody let pass, or revives one that was declined.
GateSpec == Gate!Spec

\* An order that a site has in hand, or that a claim is about to take, is of low
\* risk and was allowed by the policy, was approved by a human, or is the
\* inverse of the order it was issued to undo.
NothingUnapprovedIsServed ==
  \A o \in Orders :
    o \in Served \/ (\E p \in Pollers : claim[p].o = o) =>
      \/ grant[o] = "policy" /\ ActionRiskMap[action[o]] = "low"
      \/ grant[o] = "human"
      \/ /\ grant[o] = "system" /\ undoes[o] \in Orders
         /\ action[undoes[o]] \in DOMAIN InverseAction
         /\ action[o] = InverseAction[action[undoes[o]]]

\* A switch is armed, and its job runs, only for an order whose successful
\* execution is already on record (the report handler's order of statements).
ArmedOnlyAfterSuccess ==
  \A o \in Orders :
    o \in armed \/ (\E r \in Runners : revert[r].o = o /\ revert[r].job) =>
      <<"executed_success", o>> \in audit

\* What entitles executeRevert's callers to call it.
Justified(o) ==
  \/ o \in snapshots
  \/ {"executed_success", "dead_mans_switch_fired"} \X {o} \subseteq audit

\* An order is reverted, or a corrective order exists for it, only if its switch
\* has fired after a successful execution or a restore point is linked to it;
\* and no order is ever issued to undo one that does not exist.
RevertIsJustified ==
  \A o \in Orders :
    status[o] = "reverted" \/ (\E c \in Orders : undoes[c] = o) =>
      Exists(o) /\ Justified(o)

\* What an audit row says, read off the table.
Backed(e, o) ==
  /\ e = "work_order_issued"   => grant[o] \in {"policy", "system"}
  /\ e = "work_order_approved" => grant[o] = "human"
  /\ e = "work_order_declined" => status[o] = "declined"
  /\ e \in {"work_order_claimed", "executed_success", "executed_failure"}
       => o \in Served

\* The audit trail never gets ahead of the table: a row about a decision, a claim
\* or an execution describes something the order's row still bears witness to,
\* though the row is written after other requests may have moved the order on.
AuditIsBacked ==
  \A e \in Events, o \in Orders : <<e, o>> \in audit => Backed(e, o)

\* The inductive invariants from which WorkOrdersProofs proves the four above.
\* Who let an order pass is on its row from the moment it may be claimed, and
\* a claim in flight has picked an order that somebody let pass.
Undecided == {"none", "awaiting_approval", "declined"}

GateInv ==
  /\ \A o \in Orders :
       /\ status[o] \in Undecided <=> grant[o] = "nobody"
       /\ Exists(o) <=> action[o] # "none"
       /\ undoes[o] # NoOrder => grant[o] = "system"
       /\ grant[o] = "policy" => ActionRiskMap[action[o]] = "low"
       /\ grant[o] = "system" =>
            /\ undoes[o] \in Orders
            /\ action[undoes[o]] \in DOMAIN InverseAction
            /\ action[o] = InverseAction[action[undoes[o]]]
  /\ \A p \in Pollers :
       /\ claim[p].pc = "idle" => claim[p].o = NoOrder
       /\ claim[p].pc # "idle" => status[claim[p].o] \notin Undecided
       /\ claim[p].pc = "audit" => claim[p].o \in Served

\* A revert that a job started has the execution on record, and one that has got
\* past its caller's check has its reason.
RunnerInv(r) ==
  /\ revert[r].pc = "idle" => revert[r] = NoRevert
  /\ revert[r].pc \in {"check", "fired"} => revert[r].job
  /\ revert[r].job => <<"executed_success", revert[r].o>> \in audit
  /\ revert[r].pc \notin {"idle", "check", "fired"} => Justified(revert[r].o)

\* A job that is scheduled, about to be scheduled or running has its execution
\* on record; what has been reverted, or is being reverted, has its reason.
SwitchInv ==
  /\ \A o \in Orders :
       /\ o \in armed \/ <<Arm, o>> \in todo => <<"executed_success", o>> \in audit
       /\ o \in snapshots => Exists(o)
       /\ <<"executed_success", o>> \in audit \cup todo => Exists(o)
       /\ status[o] = "reverted" \/ (\E c \in Orders : undoes[c] = o) => Justified(o)
  /\ \A r \in Runners : RunnerInv(r)

\* Whatever is in the audit trail, or will be, is already true of the table.
RecordInv ==
  /\ \A e \in Events, o \in Orders : <<e, o>> \in audit \cup todo => Backed(e, o)
  /\ \A r \in Runners :
       revert[r].pc = "issued" => grant[revert[r].corrective] = "system"

\* The number of orders ever issued to undo one order is at most one.
OneCorrectiveOrder ==
  \A c, d \in Orders : undoes[c] # NoOrder /\ undoes[c] = undoes[d] => c = d

\* The audit trail says that an order was reverted only if it was.
RevertedAsRecorded ==
  \A o \in Orders : <<"work_order_reverted", o>> \in audit => status[o] = "reverted"

\* A claim statement only ever takes an order that is still pending.
ClaimTakesPending ==
  [][\A o \in Orders : status'[o] = "claimed" /\ status[o] # "claimed"
                         => status[o] = "pending"]_status

\* Two claim requests never get the same order.
ClaimsAreExclusive ==
  \A p, q \in Pollers :
    claim[p].pc = "audit" /\ claim[q].pc = "audit" /\ p # q => claim[p].o # claim[q].o

\* An order is not taken once its claim window has closed.
ClaimedWithinWindow ==
  [][\A o \in Orders : status[o] = "pending" /\ status'[o] = "claimed"
                         => ~lapsed[o]]_status

Quiet(o) ==
  /\ \A t \in todo : t[2] # o
  /\ \A p \in Pollers : claim[p].o # o
  /\ \A r \in Runners : revert[r].o # o /\ revert[r].corrective # o

\* Once no handler is working on it, an executed order that succeeded has its
\* switch armed.
SuccessIsArmed ==
  \A o \in Orders :
    status[o] = "executed" /\ <<"executed_success", o>> \in audit /\ Quiet(o)
      => o \in armed

\* Once no handler is working on it, everything that has happened to an order is
\* in the audit trail.
ServedIsAudited ==
  \A o \in Orders : o \in Served /\ Quiet(o) => <<"work_order_claimed", o>> \in audit

\* As long as no process dies nothing is missing: every successful execution ends
\* up with its switch armed and every claim in the audit trail.
CompleteWithoutCrash == crashes = 0 => SuccessIsArmed /\ ServedIsAudited

\* Every order that may be claimed is claimed or expired in the end.
PendingIsResolved ==
  \A o \in Orders : status[o] = "pending" ~> status[o] # "pending"

\* The bound has no row left for the corrective order that a revert is about to issue,
\* so that its worker can go no further.
OutOfRows ==
  /\ \A p \in Orders : Exists(p)
  /\ \E r \in Runners :
       revert[r].pc = "issue" /\ action[revert[r].o] \in DOMAIN InverseAction

\* An armed switch takes effect: the order is marked as reverted, whatever else happens in
\* the meantime and wherever in its job the worker dies, before the corrective order is
\* issued or after it.
SwitchTakesEffect ==
  \A o \in Orders :
    o \in armed /\ status[o] = "executed" ~> status[o] # "executed" \/ OutOfRows
=============================================================================
