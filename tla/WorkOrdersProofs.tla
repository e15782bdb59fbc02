-------------------------- MODULE WorkOrdersProofs --------------------------
(***************************************************************************)
(* What is proved about WorkOrders for every number of orders, claim       *)
(* requests, workers and crashes.                                          *)
(***************************************************************************)
EXTENDS WorkOrders, TLAPS

-----------------------------------------------------------------------------
(***************************************************************************)
(* Facts about the data of Policy.                                         *)
(***************************************************************************)

\* INVERSE_ACTION maps whitelisted actions to whitelisted actions.
LEMMA InverseType ==
  ASSUME NEW a \in DOMAIN InverseAction
  PROVE  /\ a \in WorkOrderActions
         /\ InverseAction[a] \in WorkOrderActions
BY DEF InverseAction, WorkOrderActions, MediumRisk

\* policyDecision allows only low-risk actions.
LEMMA OnlyLowRiskIsAllowed ==
  ASSUME NEW a \in WorkOrderActions, NEW tier, PolicyDecision(a, tier) = "allow"
  PROVE  ActionRiskMap[a] = "low"
BY DEF PolicyDecision

-----------------------------------------------------------------------------
(***************************************************************************)
(* Facts about the records of claims and reverts.                          *)
(***************************************************************************)

\* Moving a revert on changes nothing of it but its program counter.
LEMMA RevertMoves ==
  ASSUME NEW x \in RevertStates, NEW pc \in RevertPCs
  PROVE  LET y == [x EXCEPT !.pc = pc]
         IN  /\ y \in RevertStates
             /\ y.pc = pc /\ y.o = x.o /\ y.job = x.job /\ y.corrective = x.corrective
BY DEF RevertStates

\* A revert starts with an order and without a corrective order.
LEMMA RevertStarts ==
  ASSUME NEW pc \in RevertPCs, NEW o \in Orders, NEW job \in BOOLEAN
  PROVE  NewRevert(pc, o, job) \in RevertStates
BY WorkOrdersAssumption DEF RevertStates, NewRevert, Orders, NoOrder

\* The idle values are states.
LEMMA IdleStates ==
  NoRevert \in RevertStates /\ NoClaim \in ClaimStates
BY WorkOrdersAssumption
   DEF RevertStates, RevertPCs, ClaimStates, NoRevert, NewRevert, NoClaim, NoOrder

\* Replacing one revert in flight by a well-formed one keeps them all so.
LEMMA RevertUpdated ==
  ASSUME TypeOK, NEW r \in Runners, NEW x \in RevertStates,
         x.pc # "idle" => x.o \in Orders,
         x.pc = "issued" => x.corrective \in Orders,
         revert' = [revert EXCEPT ![r] = x]
  PROVE  /\ revert' \in [Runners -> RevertStates]
         /\ \A q \in Runners :
              /\ revert'[q].pc # "idle" => revert'[q].o \in Orders
              /\ revert'[q].pc = "issued" => revert'[q].corrective \in Orders
BY DEF TypeOK

-----------------------------------------------------------------------------
(***************************************************************************)
(* Type correctness.                                                       *)
(***************************************************************************)

LEMMA InitType == Init => TypeOK
BY WorkOrdersAssumption DEF Init, TypeOK, Orders, NoOrder, NoClaim, NoRevert, NewRevert,
   ClaimStates, RevertStates, RevertPCs

LEMMA NextType == TypeOK /\ [Next]_vars => TypeOK'
<1> SUFFICES ASSUME TypeOK, [Next]_vars PROVE TypeOK'
  OBVIOUS
<1> USE DEF TypeOK
<1>1. ASSUME NEW o \in Orders, NEW a \in Actions, NEW tier \in Tiers,
             IssueWorkOrderWithPolicy(o, a, tier)
      PROVE  TypeOK'
  <2> USE WorkOrdersAssumption DEF InsertRow, Statuses, NoOrder, Orders
  <2>1. a \in WorkOrderActions /\ NoOrder \in 0 .. MaxOrders
    OBVIOUS
  <2>2. /\ status' \in [Orders -> Statuses \cup {"none"}]
        /\ action' \in [Orders -> WorkOrderActions \cup {"none"}]
        /\ grant' \in [Orders -> {"nobody", "policy", "system", "human"}]
        /\ undoes' \in [Orders -> 0 .. MaxOrders]
    <3> HIDE DEF Orders, Statuses
    <3>1. PICK s \in {"awaiting_approval", "pending"}, who \in {"nobody", "policy"} :
            InsertRow(o, a, s, who, NoOrder)
      BY <1>1 DEF IssueWorkOrderWithPolicy
    <3> QED
      BY <2>1, <3>1 DEF Statuses
  <2>3. todo' \subseteq Steps
    BY <1>1 DEF IssueWorkOrderWithPolicy, Steps, Events
  <2> QED
    BY <1>1, <2>2, <2>3 DEF IssueWorkOrderWithPolicy
<1>2. ASSUME NEW o \in Orders, CaptureSnapshot(o) PROVE TypeOK'
  BY <1>2 DEF CaptureSnapshot, rowVars
<1>3. ASSUME NEW o \in Orders, ApproveWorkOrder(o) PROVE TypeOK'
  BY <1>3 DEF ApproveWorkOrder, Approvable, Statuses, Steps, Events
<1>4. ASSUME NEW o \in Orders, DeclineWorkOrder(o) PROVE TypeOK'
  BY <1>4 DEF DeclineWorkOrder, Approvable, rowVars, Statuses, Steps, Events
<1>5. ASSUME NEW o \in Orders, Lapse(o) PROVE TypeOK'
  BY <1>5 DEF Lapse, rowVars
<1>6. ASSUME NEW o \in Orders, NEW success \in BOOLEAN, ReportResult(o, success)
      PROVE  TypeOK'
  BY <1>6 DEF ReportResult, Reportable, rowVars, Statuses, Steps, Events
<1>7. ASSUME NEW o \in Orders, ArmDeadMansSwitch(o) PROVE TypeOK'
  BY <1>7 DEF ArmDeadMansSwitch, rowVars
<1>8. ASSUME NEW o \in Orders, DisarmDeadMansSwitch(o) PROVE TypeOK'
  BY <1>8 DEF DisarmDeadMansSwitch, rowVars
<1>9. ASSUME ExpireStaleWorkOrders PROVE TypeOK'
  BY <1>9 DEF ExpireStaleWorkOrders, rowVars, Statuses
<1>10. ASSUME NEW p \in Pollers, NEW o \in Orders, ClaimSelect(p, o) PROVE TypeOK'
  BY <1>10 DEF ClaimSelect, rowVars, ClaimStates, Orders
<1>11. ASSUME NEW p \in Pollers, ClaimUpdate(p) PROVE TypeOK'
  BY <1>11 DEF ClaimUpdate, rowVars, ClaimStates, Statuses
<1>12. ASSUME NEW p \in Pollers, ClaimAudit(p) PROVE TypeOK'
  <2>1. audit' \subseteq Events \X Orders
    <3>1. claim[p].o \in Orders
      BY <1>12 DEF ClaimAudit
    <3> QED
      BY <1>12, <3>1 DEF ClaimAudit, Events
  <2>2. NoClaim.pc = "idle"
    BY DEF NoClaim
  <2> QED
    BY <1>12, <2>1, <2>2, IdleStates DEF ClaimAudit, rowVars
<1>13. ASSUME NEW t \in todo, WriteAudit(t) PROVE TypeOK'
  BY <1>13 DEF WriteAudit, FollowUp, rowVars, Steps, Events, Arm
<1>14. ASSUME NEW t \in todo, CrashHandler(t) PROVE TypeOK'
  BY <1>14, WorkOrdersAssumption DEF CrashHandler, Crash, rowVars
<1>15. ASSUME NEW r \in Runners, NEW o \in Orders, FireStart(r, o) PROVE TypeOK'
  <2> DEFINE x == NewRevert("check", o, TRUE)
  <2>1. x \in RevertStates /\ x.pc = "check" /\ x.o = o
    BY RevertStarts DEF NewRevert, RevertPCs
  <2> HIDE DEF x
  <2>2. revert' = [revert EXCEPT ![r] = x]
    BY <1>15 DEF FireStart, x
  <2> QED
    BY <1>15, <2>1, <2>2, RevertUpdated DEF FireStart, rowVars
<1>16. ASSUME NEW r \in Runners, NEW o \in Orders, RestorePointRevert(r, o) PROVE TypeOK'
  <2> DEFINE x == NewRevert("issue", o, FALSE)
  <2>1. x \in RevertStates /\ x.pc = "issue" /\ x.o = o
    BY RevertStarts DEF NewRevert, RevertPCs
  <2> HIDE DEF x
  <2>2. revert' = [revert EXCEPT ![r] = x]
    BY <1>16 DEF RestorePointRevert, x
  <2> QED
    BY <1>16, <2>1, <2>2, RevertUpdated DEF RestorePointRevert, rowVars
<1>17. ASSUME NEW r \in Runners, RevertStep(r) PROVE TypeOK'
  <2> DEFINE Moved(pc) == [revert[r] EXCEPT !.pc = pc]
  <2>1. revert[r] \in RevertStates
    OBVIOUS
  <2>2. NoRevert.pc = "idle"
    BY DEF NoRevert, NewRevert
  <2>3. \A pc \in RevertPCs :
          /\ Moved(pc) \in RevertStates
          /\ Moved(pc).pc = pc /\ Moved(pc).o = revert[r].o
          /\ Moved(pc).corrective = revert[r].corrective
    BY <2>1, RevertMoves
  <2>4. ASSUME NEW pc \in RevertPCs \ {"issued"}, revert[r].pc # "idle",
               revert' = [revert EXCEPT ![r] = Moved(pc)]
        PROVE  /\ revert' \in [Runners -> RevertStates]
               /\ \A q \in Runners :
                    /\ revert'[q].pc # "idle" => revert'[q].o \in Orders
                    /\ revert'[q].pc = "issued" => revert'[q].corrective \in Orders
    <3> HIDE DEF Moved
    <3> QED
      BY <2>3, <2>4, RevertUpdated
  <2>5. CASE FireCheck(r)
    <3>1. CASE status[revert[r].o] = "executed"
      BY <2>4, <2>5, <3>1 DEF FireCheck, rowVars, RevertPCs
    <3>2. CASE status[revert[r].o] # "executed"
      BY <2>2, <2>5, <3>2, IdleStates, RevertUpdated DEF FireCheck, rowVars
    <3> QED
      BY <3>1, <3>2
  <2>6. CASE FireAudit(r)
    <3>1. audit' \subseteq Events \X Orders
      <4>1. revert[r].o \in Orders
        BY <2>6 DEF FireAudit
      <4> QED
        BY <2>6, <4>1 DEF FireAudit, Events
    <3>2. revert' = [revert EXCEPT ![r] = Moved(revert'[r].pc)]
      BY <2>6 DEF FireAudit
    <3>3. revert'[r].pc \in RevertPCs \ {"issued"} /\ revert[r].pc # "idle"
      BY <2>6, <2>1 DEF FireAudit, RevertPCs, RevertStates
    <3> QED
      BY <2>4, <2>6, <3>1, <3>2, <3>3 DEF FireAudit, rowVars
  <2>7. ASSUME NEW c \in Orders, RevertIssue(r, c) PROVE TypeOK'
    <3> DEFINE x == [revert[r] EXCEPT !.pc = "issued", !.corrective = c]
    <3>1. x \in RevertStates /\ x.pc = "issued" /\ x.o = revert[r].o /\ x.corrective = c
      <4>1. c \in 0 .. MaxOrders
        BY WorkOrdersAssumption DEF Orders
      <4> QED
        BY <2>1, <4>1 DEF RevertStates, RevertPCs
    <3> HIDE DEF x
    <3>2. revert' = [revert EXCEPT ![r] = x] /\ x.o \in Orders
      BY <2>7, <3>1 DEF RevertIssue, x
    <3>3. /\ revert' \in [Runners -> RevertStates]
          /\ \A q \in Runners :
               /\ revert'[q].pc # "idle" => revert'[q].o \in Orders
               /\ revert'[q].pc = "issued" => revert'[q].corrective \in Orders
      BY <3>1, <3>2, RevertUpdated
    <3>4. InverseAction[action[revert[r].o]] \in WorkOrderActions
      BY <2>7, InverseType DEF RevertIssue
    <3>5. revert[r].o \in 0 .. MaxOrders
      BY <2>1 DEF RevertStates
    <3> QED
      BY <2>7, <3>3, <3>4, <3>5 DEF RevertIssue, InsertRow, Statuses
  <2>8. CASE RevertIssueAudit(r)
    <3>1. audit' \subseteq Events \X Orders
      <4>1. revert[r].corrective \in Orders
        BY <2>8 DEF RevertIssueAudit
      <4> QED
        BY <2>8, <4>1 DEF RevertIssueAudit, Events
    <3>2. revert' = [revert EXCEPT ![r] = Moved(revert'[r].pc)]
      BY <2>8 DEF RevertIssueAudit
    <3>3. revert'[r].pc \in RevertPCs \ {"issued"} /\ revert[r].pc # "idle"
      BY <2>8, <2>1 DEF RevertIssueAudit, RevertPCs, RevertStates
    <3> QED
      BY <2>4, <2>8, <3>1, <3>2, <3>3 DEF RevertIssueAudit, rowVars
  <2>9. CASE RevertWithoutInverse(r)
    BY <2>4, <2>9 DEF RevertWithoutInverse, rowVars, RevertPCs
  <2>10. CASE RevertMark(r)
    BY <2>4, <2>10 DEF RevertMark, Markable, rowVars, RevertPCs, Statuses
  <2>11. CASE RevertAudit(r)
    <3>1. audit' \subseteq Events \X Orders
      <4>1. revert[r].o \in Orders
        BY <2>11 DEF RevertAudit
      <4> QED
        BY <2>11, <4>1 DEF RevertAudit, Events
    <3>2. revert' = [revert EXCEPT ![r] = Moved(revert'[r].pc)]
      BY <2>11 DEF RevertAudit
    <3>3. revert'[r].pc \in RevertPCs \ {"issued"} /\ revert[r].pc # "idle"
      BY <2>11, <2>1 DEF RevertAudit, RevertPCs, RevertStates
    <3> QED
      BY <2>4, <2>11, <3>1, <3>2, <3>3 DEF RevertAudit, rowVars
  <2>12. CASE RevertEscalate(r)
    BY <2>2, <2>12, IdleStates, RevertUpdated DEF RevertEscalate, rowVars, Events
  <2> QED
    BY <1>17, <2>5, <2>6, <2>7, <2>8, <2>9, <2>10, <2>11, <2>12 DEF RevertStep
<1>18. ASSUME NEW p \in Pollers, CrashClaim(p) PROVE TypeOK'
  BY <1>18, WorkOrdersAssumption DEF CrashClaim, Crash, rowVars, ClaimStates, NoClaim, NoOrder
<1>19. ASSUME NEW r \in Runners, CrashRevert(r) PROVE TypeOK'
  <2>1. NoRevert.pc = "idle"
    BY DEF NoRevert, NewRevert
  <2>2. crashes' \in 0 .. MaxCrashes
    BY <1>19, WorkOrdersAssumption DEF CrashRevert, Crash
  <2>3. armed' \subseteq Orders
    BY <1>19 DEF CrashRevert, Rescheduled, TypeOK
  <2> QED
    BY <1>19, <2>1, <2>2, <2>3, IdleStates, RevertUpdated DEF CrashRevert, rowVars
<1>20. CASE UNCHANGED vars
  BY <1>20 DEF vars
<1> QED
  BY <1>1, <1>2, <1>3, <1>4, <1>5, <1>6, <1>7, <1>8, <1>9, <1>10, <1>11, <1>12, <1>13,
     <1>14, <1>15, <1>16, <1>17, <1>18, <1>19, <1>20
     DEF Next, InternalStep, SiteStep, OrderStep, ClaimStep

\* Every variable keeps its type: no handler writes a status, an action or a job
\* that the schema does not know.
THEOREM TypeCorrect == Spec => []TypeOK
BY InitType, NextType, PTL DEF Spec

-----------------------------------------------------------------------------
(***************************************************************************)
(* The approval gate.                                                      *)
(***************************************************************************)

LEMMA InitGate == Init => GateInv
BY DEF Init, GateInv, Undecided, Exists, NoClaim, NoOrder

\* A row is inserted for an order that nothing refers to yet.
LEMMA InsertKeepsGate ==
  ASSUME TypeOK, GateInv, NEW o \in Orders, NEW a \in WorkOrderActions,
         NEW s, NEW who, NEW cause, InsertRow(o, a, s, who, cause),
         UNCHANGED claim,
         \/ s = "awaiting_approval" /\ who = "nobody" /\ cause = NoOrder
         \/ s = "pending" /\ who = "policy" /\ cause = NoOrder
              /\ ActionRiskMap[a] = "low"
         \/ /\ s = "pending" /\ who = "system" /\ cause \in Orders
            /\ action[cause] \in DOMAIN InverseAction
            /\ a = InverseAction[action[cause]]
  PROVE  GateInv'
<1> USE DEF TypeOK, InsertRow, Undecided, Exists, IsNext
<1>1. /\ status[o] = "none" /\ action[o] = "none" /\ grant[o] = "nobody"
      /\ "none" \notin DOMAIN InverseAction /\ "none" \notin WorkOrderActions
  BY DEF GateInv, InverseAction, WorkOrderActions, LowRisk, MediumRisk, HighRisk, Blocked
<1>2. \A q \in Orders : undoes[q] # o
  <2>1. ASSUME NEW q \in Orders, undoes[q] = o PROVE FALSE
    <3>1. undoes[q] # NoOrder
      BY <2>1, WorkOrdersAssumption DEF NoOrder, Orders
    <3>2. grant[q] = "system"
      BY <3>1 DEF GateInv
    <3>3. action[undoes[q]] \in DOMAIN InverseAction
      BY <3>2 DEF GateInv
    <3> QED
      BY <1>1, <2>1, <3>3
  <2> QED
    BY <2>1
<1>3. ASSUME NEW q \in Orders
      PROVE  /\ (status[q] \in Undecided)' <=> grant'[q] = "nobody"
             /\ Exists(q)' <=> action'[q] # "none"
             /\ undoes'[q] # NoOrder => grant'[q] = "system"
             /\ grant'[q] = "policy" => ActionRiskMap[action'[q]] = "low"
             /\ grant'[q] = "system" =>
                  /\ undoes'[q] \in Orders
                  /\ action'[undoes'[q]] \in DOMAIN InverseAction
                  /\ action'[q] = InverseAction[action'[undoes'[q]]]
  <2>1. CASE q = o
    <3>1. cause \in Orders => cause # o \/ action[cause] \notin DOMAIN InverseAction
      BY <1>1
    <3> QED
      BY <1>1, <2>1, <3>1
  <2>2. CASE q # o
    <3>1. /\ status'[q] = status[q] /\ action'[q] = action[q]
          /\ grant'[q] = grant[q] /\ undoes'[q] = undoes[q]
      BY <2>2
    <3>2. undoes[q] \in Orders => action'[undoes[q]] = action[undoes[q]]
      BY <1>2
    <3> QED
      BY <3>1, <3>2 DEF GateInv
  <2> QED
    BY <2>1, <2>2
<1>4. ASSUME NEW p \in Pollers
      PROVE  /\ claim'[p].pc = "idle" => claim'[p].o = NoOrder
             /\ claim'[p].pc # "idle" => status'[claim'[p].o] \notin Undecided
             /\ claim'[p].pc = "audit" => claim'[p].o \in Served'
  <2>1. claim[p].pc # "idle" => claim[p].o \in Orders /\ claim[p].o # o
    BY <1>1 DEF GateInv
  <2> QED
    BY <2>1 DEF GateInv, Served
<1> QED
  BY <1>3, <1>4 DEF GateInv

\* No step of the table lets an order pass that its row does not account for.
LEMMA NextGate == TypeOK /\ GateInv /\ [Next]_vars => GateInv'
<1> SUFFICES ASSUME TypeOK, GateInv, [Next]_vars PROVE GateInv'
  OBVIOUS
<1>1. ASSUME NEW o \in Orders, NEW a \in Actions, NEW tier \in Tiers,
             IssueWorkOrderWithPolicy(o, a, tier)
      PROVE  GateInv'
  BY <1>1, WorkOrdersAssumption, InsertKeepsGate, OnlyLowRiskIsAllowed
     DEF IssueWorkOrderWithPolicy
<1>2. ASSUME NEW r \in Runners, NEW c \in Orders, RevertIssue(r, c) PROVE GateInv'
  <2>1. revert[r].o \in Orders
    BY <1>2 DEF RevertIssue, TypeOK
  <2>2. InverseAction[action[revert[r].o]] \in WorkOrderActions
    BY <1>2, InverseType DEF RevertIssue
  <2> QED
    BY <1>2, <2>1, <2>2, InsertKeepsGate DEF RevertIssue
<1>3. ASSUME NEW o \in Orders, ApproveWorkOrder(o) PROVE GateInv'
  BY <1>3 DEF ApproveWorkOrder, Approvable, GateInv, TypeOK, Undecided, Exists, Served,
     ServedStatuses
<1>4. ASSUME NEW o \in Orders, DeclineWorkOrder(o) PROVE GateInv'
  BY <1>4 DEF DeclineWorkOrder, Approvable, rowVars, GateInv, TypeOK, Undecided, Exists, Served,
     ServedStatuses
<1>5. ASSUME NEW o \in Orders, NEW success \in BOOLEAN, ReportResult(o, success)
      PROVE  GateInv'
  BY <1>5 DEF ReportResult, Reportable, rowVars, GateInv, TypeOK, Undecided, Exists, Served,
     ServedStatuses
<1>6. ASSUME ExpireStaleWorkOrders PROVE GateInv'
  BY <1>6 DEF ExpireStaleWorkOrders, Stale, rowVars, GateInv, TypeOK, Undecided, Exists,
     Served, ServedStatuses
<1>7. ASSUME NEW p \in Pollers, NEW o \in Orders, ClaimSelect(p, o) PROVE GateInv'
  BY <1>7 DEF ClaimSelect, IsOldestPending, rowVars, GateInv, TypeOK, Undecided, Exists,
     Served
<1>8. ASSUME NEW p \in Pollers, ClaimUpdate(p) PROVE GateInv'
  BY <1>8 DEF ClaimUpdate, rowVars, GateInv, TypeOK, Undecided, Exists, Served,
     ServedStatuses
<1>9. ASSUME NEW p \in Pollers, ClaimAudit(p) \/ CrashClaim(p) PROVE GateInv'
  BY <1>9 DEF ClaimAudit, CrashClaim, Crash, NoClaim, rowVars, GateInv, TypeOK, Undecided,
     Exists, Served
<1>10. ASSUME NEW r \in Runners, RevertMark(r) PROVE GateInv'
  BY <1>10 DEF RevertMark, Markable, rowVars, GateInv, TypeOK, Undecided, Exists, Served,
     ServedStatuses
<1>11. ASSUME UNCHANGED <<status, rowVars, claim>> PROVE GateInv'
  BY <1>11 DEF rowVars, GateInv, Undecided, Exists, Served
<1>12. ASSUME NEW o \in Orders,
              \/ CaptureSnapshot(o) \/ Lapse(o)
              \/ ArmDeadMansSwitch(o) \/ DisarmDeadMansSwitch(o)
       PROVE  GateInv'
  BY <1>11, <1>12 DEF CaptureSnapshot, Lapse, ArmDeadMansSwitch, DisarmDeadMansSwitch
<1>13. ASSUME NEW t \in todo, WriteAudit(t) \/ CrashHandler(t) PROVE GateInv'
  BY <1>11, <1>13 DEF WriteAudit, FollowUp, CrashHandler
<1>14. ASSUME NEW r \in Runners, NEW o \in Orders, FireStart(r, o) \/ RestorePointRevert(r, o)
       PROVE  GateInv'
  BY <1>11, <1>14 DEF FireStart, RestorePointRevert
<1>15. ASSUME NEW r \in Runners,
              \/ FireCheck(r) \/ FireAudit(r) \/ RevertIssueAudit(r)
              \/ RevertWithoutInverse(r) \/ RevertAudit(r) \/ RevertEscalate(r)
              \/ CrashRevert(r)
       PROVE  GateInv'
  BY <1>11, <1>15 DEF FireCheck, FireAudit, RevertIssueAudit, RevertWithoutInverse,
     RevertAudit, RevertEscalate, CrashRevert
<1>16. CASE UNCHANGED vars
  BY <1>11, <1>16 DEF vars, rowVars
<1>17. ASSUME NEW o \in Orders, OrderStep(o) PROVE GateInv'
  BY <1>1, <1>3, <1>4, <1>5, <1>12, <1>17 DEF OrderStep
<1>18. ASSUME NEW r \in Runners, RevertStep(r) PROVE GateInv'
  BY <1>2, <1>10, <1>15, <1>18 DEF RevertStep
<1> QED
  BY <1>5, <1>6, <1>7, <1>8, <1>9, <1>13, <1>14, <1>15, <1>16, <1>17, <1>18
     DEF Next, InternalStep, SiteStep, ClaimStep

THEOREM GateInvariant == Spec => [](TypeOK /\ GateInv)
BY InitType, NextType, InitGate, NextGate, PTL DEF Spec

\* Nobody's order reaches a site: an order in hand was allowed by the policy (and is
\* of low risk), approved by a human, or undoes an order of the system's own.
THEOREM NothingUnapproved == Spec => []NothingUnapprovedIsServed
<1>1. TypeOK /\ GateInv => NothingUnapprovedIsServed
  <2> SUFFICES ASSUME TypeOK, GateInv, NEW o \in Orders,
                      o \in Served \/ (\E p \in Pollers : claim[p].o = o)
               PROVE  \/ grant[o] = "policy" /\ ActionRiskMap[action[o]] = "low"
                      \/ grant[o] = "human"
                      \/ /\ grant[o] = "system" /\ undoes[o] \in Orders
                         /\ action[undoes[o]] \in DOMAIN InverseAction
                         /\ action[o] = InverseAction[action[undoes[o]]]
    BY DEF NothingUnapprovedIsServed
  <2>1. status[o] \notin Undecided
    <3>1. o # NoOrder
      BY WorkOrdersAssumption DEF Orders, NoOrder
    <3> QED
      BY <3>1 DEF GateInv, Served, ServedStatuses, Undecided
  <2> QED
    BY <2>1 DEF TypeOK, GateInv
<1> QED
  BY <1>1, GateInvariant, PTL

-----------------------------------------------------------------------------
(***************************************************************************)
(* The table implements ApprovalGate.                                      *)
(***************************************************************************)

\* The refinement mapping, shortened for the proofs.
phaseBar == [o \in Orders |-> PhaseOf(status[o])]

\* What one row's move does to the phases and to the orders served.
LEMMA RowMoves ==
  ASSUME TypeOK, NEW o \in Orders, NEW s \in Statuses, status' = [status EXCEPT ![o] = s]
  PROVE  /\ phaseBar' = [phaseBar EXCEPT ![o] = PhaseOf(s)]
         /\ s \in ServedStatuses => Served' = Served \cup {o}
         /\ s \notin ServedStatuses => Served' = Served \ {o}
<1>1. \A p \in Orders : status'[p] = IF p = o THEN s ELSE status[p]
  BY DEF TypeOK
<1>2. phaseBar' = [phaseBar EXCEPT ![o] = PhaseOf(s)]
  <2>1. phaseBar' = [p \in Orders |-> PhaseOf(status'[p])]
    BY DEF phaseBar, PhaseOf
  <2>2. [phaseBar EXCEPT ![o] = PhaseOf(s)]
          = [p \in Orders |-> IF p = o THEN PhaseOf(s) ELSE PhaseOf(status[p])]
    BY DEF phaseBar
  <2> QED
    BY <1>1, <2>1, <2>2
<1> QED
  BY <1>1, <1>2 DEF Served

\* The phase of every status.
LEMMA PhaseValues ==
  /\ PhaseOf("none") = "absent" /\ PhaseOf("awaiting_approval") = "asking"
  /\ PhaseOf("declined") = "refused" /\ PhaseOf("pending") = "released"
BY DEF PhaseOf, ServedStatuses

LEMMA InitRefines == Init => Gate!Init
BY DEF Init, Gate!Init, PhaseOf, Served, ServedStatuses

\* A step that leaves the phases and the grants alone at most serves one order.
LEMMA ServeRefines ==
  ASSUME TypeOK, GateInv, NEW o \in Orders, status[o] \notin Undecided,
         status' = [status EXCEPT ![o] = "claimed"], UNCHANGED grant
  PROVE  [Gate!Next]_(Gate!gateVars)
<1>1. phaseBar' = phaseBar
  BY DEF phaseBar, PhaseOf, ServedStatuses, TypeOK, Statuses, Undecided
<1>2. Served' = Served \cup {o}
  BY DEF Served, ServedStatuses, TypeOK
<1>3. phaseBar[o] = "released"
  BY DEF phaseBar, PhaseOf, ServedStatuses, TypeOK, Statuses, Undecided
<1>4. Gate!Serve(o)
  BY <1>1, <1>2, <1>3 DEF Gate!Serve, phaseBar
<1> QED
  BY <1>4 DEF Gate!Next

\* A step that keeps every order's phase, who let it pass and whether it has been
\* served is invisible to the gate.
LEMMA StutterRefines ==
  ASSUME UNCHANGED <<phaseBar, grant, Served>>
  PROVE  [Gate!Next]_(Gate!gateVars)
BY DEF Gate!gateVars, phaseBar

\* Moving one order on within the phase it is in, without it becoming served.
LEMMA MoveRefines ==
  ASSUME TypeOK, NEW o \in Orders, NEW s \in Statuses,
         status' = [status EXCEPT ![o] = s], UNCHANGED grant,
         PhaseOf(s) = PhaseOf(status[o]),
         s \in ServedStatuses <=> status[o] \in ServedStatuses
  PROVE  [Gate!Next]_(Gate!gateVars)
<1>1. phaseBar' = phaseBar
  BY DEF phaseBar, TypeOK
<1>2. Served' = Served
  BY DEF Served, TypeOK
<1> QED
  BY <1>1, <1>2, StutterRefines

LEMMA NextRefines == TypeOK /\ GateInv /\ [Next]_vars => [Gate!Next]_(Gate!gateVars)
<1> SUFFICES ASSUME TypeOK, GateInv, [Next]_vars PROVE [Gate!Next]_(Gate!gateVars)
  OBVIOUS
<1>1. ASSUME NEW o \in Orders, NEW a \in WorkOrderActions, NEW cause,
             InsertRow(o, a, "awaiting_approval", "nobody", cause)
      PROVE  [Gate!Next]_(Gate!gateVars)
  <2>1. /\ phaseBar[o] = "absent" /\ phaseBar' = [phaseBar EXCEPT ![o] = "asking"]
        /\ grant' = grant /\ Served' = Served
    <3>1. status[o] = "none"
      BY <1>1 DEF InsertRow, IsNext, Exists
    <3>2. grant' = grant
      BY <1>1, <3>1 DEF InsertRow, TypeOK, GateInv, Undecided
    <3>3. phaseBar' = [phaseBar EXCEPT ![o] = "asking"] /\ Served' = Served \ {o}
      BY <1>1, RowMoves, PhaseValues DEF InsertRow, Statuses, ServedStatuses
    <3> QED
      BY <3>1, <3>2, <3>3, PhaseValues DEF phaseBar, Served, ServedStatuses
  <2>2. Gate!Ask(o)
    BY <2>1 DEF Gate!Ask, phaseBar
  <2> QED
    BY <2>2 DEF Gate!Next
<1>2. ASSUME NEW o \in Orders, NEW a \in WorkOrderActions, NEW cause,
             NEW who \in {"policy", "system"}, InsertRow(o, a, "pending", who, cause)
      PROVE  [Gate!Next]_(Gate!gateVars)
  <2>1. /\ phaseBar[o] = "absent" /\ phaseBar' = [phaseBar EXCEPT ![o] = "released"]
        /\ grant' = [grant EXCEPT ![o] = who] /\ Served' = Served
    <3>1. status[o] = "none"
      BY <1>2 DEF InsertRow, IsNext, Exists
    <3>2. phaseBar' = [phaseBar EXCEPT ![o] = "released"] /\ Served' = Served \ {o}
      BY <1>2, RowMoves, PhaseValues DEF InsertRow, Statuses, ServedStatuses
    <3> QED
      BY <1>2, <3>1, <3>2, PhaseValues DEF InsertRow, phaseBar, Served, ServedStatuses
  <2>2. Gate!Trust(o, who)
    BY <2>1 DEF Gate!Trust, phaseBar
  <2> QED
    BY <2>2 DEF Gate!Next
<1>3. ASSUME NEW o \in Orders, NEW a \in Actions, NEW tier \in Tiers,
             IssueWorkOrderWithPolicy(o, a, tier)
      PROVE  [Gate!Next]_(Gate!gateVars)
  BY <1>1, <1>2, <1>3, WorkOrdersAssumption DEF IssueWorkOrderWithPolicy
<1>4. ASSUME NEW r \in Runners, NEW c \in Orders, RevertIssue(r, c)
      PROVE  [Gate!Next]_(Gate!gateVars)
  BY <1>2, <1>4, InverseType DEF RevertIssue
<1>5. ASSUME NEW o \in Orders, ApproveWorkOrder(o) PROVE [Gate!Next]_(Gate!gateVars)
  <2>1. /\ phaseBar[o] = "asking" /\ phaseBar' = [phaseBar EXCEPT ![o] = "released"]
        /\ Served' = Served
    <3>1. phaseBar' = [phaseBar EXCEPT ![o] = "released"] /\ Served' = Served \ {o}
      BY <1>5, RowMoves, PhaseValues DEF ApproveWorkOrder, Approvable, Statuses, ServedStatuses
    <3> QED
      BY <1>5, <3>1, PhaseValues DEF ApproveWorkOrder, Approvable, phaseBar, Served, ServedStatuses
  <2>2. Gate!Approve(o)
    BY <1>5, <2>1 DEF ApproveWorkOrder, Approvable, Gate!Approve, phaseBar
  <2> QED
    BY <2>2 DEF Gate!Next
<1>6. ASSUME NEW o \in Orders, DeclineWorkOrder(o) PROVE [Gate!Next]_(Gate!gateVars)
  <2>1. /\ phaseBar[o] = "asking" /\ phaseBar' = [phaseBar EXCEPT ![o] = "refused"]
        /\ Served' = Served
    <3>1. phaseBar' = [phaseBar EXCEPT ![o] = "refused"] /\ Served' = Served \ {o}
      BY <1>6, RowMoves, PhaseValues DEF DeclineWorkOrder, Approvable, Statuses, ServedStatuses
    <3> QED
      BY <1>6, <3>1, PhaseValues DEF DeclineWorkOrder, Approvable, phaseBar, Served, ServedStatuses
  <2>2. Gate!Refuse(o)
    BY <1>6, <2>1 DEF DeclineWorkOrder, Approvable, rowVars, Gate!Refuse, phaseBar
  <2> QED
    BY <2>2 DEF Gate!Next
<1>7. ASSUME ExpireStaleWorkOrders PROVE [Gate!Next]_(Gate!gateVars)
  <2>1. phaseBar' = phaseBar
    <3>1. \A o \in Orders : PhaseOf(status'[o]) = PhaseOf(status[o])
      BY <1>7 DEF ExpireStaleWorkOrders, Stale, PhaseOf, ServedStatuses
    <3>2. phaseBar' = [o \in Orders |-> PhaseOf(status'[o])]
      BY DEF phaseBar, PhaseOf
    <3> QED
      BY <3>1, <3>2 DEF phaseBar
  <2>2. Served' = Served
    BY <1>7 DEF ExpireStaleWorkOrders, Stale, Served, ServedStatuses
  <2> QED
    BY <1>7, <2>1, <2>2, StutterRefines DEF ExpireStaleWorkOrders, rowVars
<1>8. ASSUME NEW p \in Pollers, ClaimUpdate(p) PROVE [Gate!Next]_(Gate!gateVars)
  BY <1>8, ServeRefines DEF ClaimUpdate, rowVars, TypeOK, GateInv
<1>9. ASSUME NEW o \in Orders, NEW success \in BOOLEAN, ReportResult(o, success)
      PROVE  [Gate!Next]_(Gate!gateVars)
  BY <1>9, MoveRefines DEF ReportResult, Reportable, rowVars, PhaseOf, ServedStatuses, Statuses
<1>10. ASSUME NEW r \in Runners, RevertMark(r) PROVE [Gate!Next]_(Gate!gateVars)
  <2>1. CASE status[revert[r].o] = "executed"
    BY <1>10, <2>1, MoveRefines
       DEF RevertMark, Markable, rowVars, PhaseOf, ServedStatuses, Statuses, TypeOK
  <2>2. CASE status[revert[r].o] # "executed"
    BY <1>10, <2>2, StutterRefines DEF RevertMark, Markable, rowVars, phaseBar, Served
  <2> QED
    BY <2>1, <2>2
<1>11. ASSUME UNCHANGED <<status, grant>> PROVE [Gate!Next]_(Gate!gateVars)
  BY <1>11, StutterRefines DEF phaseBar, Served
<1>12. ASSUME NEW o \in Orders, OrderStep(o) PROVE [Gate!Next]_(Gate!gateVars)
  <2>1. ASSUME \/ CaptureSnapshot(o) \/ Lapse(o)
               \/ ArmDeadMansSwitch(o) \/ DisarmDeadMansSwitch(o)
        PROVE  UNCHANGED <<status, grant>>
    BY <2>1 DEF CaptureSnapshot, Lapse, ArmDeadMansSwitch, DisarmDeadMansSwitch, rowVars
  <2> QED
    BY <1>3, <1>5, <1>6, <1>9, <1>11, <1>12, <2>1 DEF OrderStep
<1>13. ASSUME NEW r \in Runners, RevertStep(r) PROVE [Gate!Next]_(Gate!gateVars)
  <2>1. ASSUME \/ FireCheck(r) \/ FireAudit(r) \/ RevertIssueAudit(r)
               \/ RevertWithoutInverse(r) \/ RevertAudit(r) \/ RevertEscalate(r)
        PROVE  UNCHANGED <<status, grant>>
    BY <2>1 DEF FireCheck, FireAudit, RevertIssueAudit, RevertWithoutInverse, RevertAudit,
       RevertEscalate, rowVars
  <2> QED
    BY <1>4, <1>10, <1>11, <1>13, <2>1 DEF RevertStep
<1>14. ASSUME NEW p \in Pollers, NEW o \in Orders,
              ClaimSelect(p, o) \/ ClaimAudit(p) \/ CrashClaim(p)
       PROVE  UNCHANGED <<status, grant>>
  BY <1>14 DEF ClaimSelect, ClaimAudit, CrashClaim, rowVars
<1>15. ASSUME NEW p \in Pollers, ClaimAudit(p) \/ CrashClaim(p)
       PROVE  UNCHANGED <<status, grant>>
  BY <1>15 DEF ClaimAudit, CrashClaim, rowVars
<1>16. ASSUME NEW t \in todo, WriteAudit(t) \/ CrashHandler(t)
       PROVE  UNCHANGED <<status, grant>>
  BY <1>16 DEF WriteAudit, FollowUp, CrashHandler, rowVars
<1>17. ASSUME NEW r \in Runners, NEW o \in Orders, FireStart(r, o) \/ RestorePointRevert(r, o)
       PROVE  UNCHANGED <<status, grant>>
  BY <1>17 DEF FireStart, RestorePointRevert, rowVars
<1>18. ASSUME NEW r \in Runners, CrashRevert(r) PROVE UNCHANGED <<status, grant>>
  BY <1>18 DEF CrashRevert, rowVars
<1>19. CASE UNCHANGED vars
  BY <1>11, <1>19 DEF vars
<1> QED
  BY <1>7, <1>8, <1>9, <1>11, <1>12, <1>13, <1>14, <1>15, <1>16, <1>17, <1>18, <1>19
     DEF Next, InternalStep, SiteStep, ClaimStep

\* The work-order table and its handlers implement the approval gate: nothing is
\* served that was not released, and a refusal is final, whatever interleaves.
THEOREM ImplementsGate == Spec => GateSpec
BY InitRefines, NextRefines, GateInvariant, PTL DEF Spec, GateSpec, Gate!Spec

-----------------------------------------------------------------------------
(***************************************************************************)
(* The dead man's switch and the reverts.                                  *)
(***************************************************************************)

\* What a step must guarantee to keep SwitchInv: it forgets no audit row and no
\* snapshot, and whatever it arms, reverts, corrects or moves on has its reason.
LEMMA SwitchKept ==
  ASSUME SwitchInv,
         audit \subseteq audit', snapshots \subseteq snapshots',
         \A o \in Orders : Exists(o) => Exists(o)',
         \A o \in Orders : o \in snapshots' => o \in snapshots \/ Exists(o),
         \A o \in Orders : <<"executed_success", o>> \in audit' \cup todo'
            => <<"executed_success", o>> \in audit \cup todo \/ Exists(o),
         \A o \in Orders : o \in armed' \/ <<Arm, o>> \in todo'
            => o \in armed \/ <<Arm, o>> \in todo \/ <<"executed_success", o>> \in audit',
         \A o \in Orders : status'[o] = "reverted" => status[o] = "reverted" \/ Justified(o),
         \A c, o \in Orders : undoes'[c] = o => undoes[c] = o \/ Justified(o),
         \A r \in Runners : revert'[r] = revert[r] \/ RunnerInv(r)'
  PROVE  SwitchInv'
<1>1. ASSUME NEW o \in Orders, Justified(o) PROVE Justified(o)'
  BY <1>1 DEF Justified
<1>2. ASSUME NEW r \in Runners PROVE RunnerInv(r)'
  <2>1. CASE revert'[r] = revert[r]
    <3>1. RunnerInv(r)
      BY DEF SwitchInv
    <3>2. Justified(revert[r].o) => Justified(revert[r].o)'
      BY <2>1 DEF Justified
    <3> QED
      BY <2>1, <3>1, <3>2 DEF RunnerInv
  <2> QED
    BY <2>1
<1>3. ASSUME NEW o \in Orders
      PROVE  /\ (o \in armed \/ <<Arm, o>> \in todo => <<"executed_success", o>> \in audit)'
             /\ (o \in snapshots => Exists(o))'
             /\ (<<"executed_success", o>> \in audit \cup todo => Exists(o))'
  BY DEF SwitchInv
<1>4. ASSUME NEW o \in Orders, status'[o] = "reverted" \/ (\E c \in Orders : undoes'[c] = o)
      PROVE  Justified(o)'
  <2>1. Justified(o)
    BY <1>4 DEF SwitchInv
  <2> QED
    BY <1>1, <2>1
<1> QED
  BY <1>2, <1>3, <1>4 DEF SwitchInv

\* Initially nothing is armed, reverted or under way.
LEMMA InitSwitch == Init => SwitchInv
BY WorkOrdersAssumption
   DEF Init, SwitchInv, RunnerInv, Exists, NoRevert, NewRevert, NoOrder, Orders

LEMMA NextSwitch == TypeOK /\ SwitchInv /\ [Next]_vars => SwitchInv'
<1> SUFFICES ASSUME TypeOK, SwitchInv, [Next]_vars PROVE SwitchInv'
  OBVIOUS
<1> USE DEF rowVars, Exists
<1>1. ASSUME NEW o \in Orders, NEW a \in Actions, NEW tier \in Tiers,
             IssueWorkOrderWithPolicy(o, a, tier)
      PROVE  SwitchInv'
  <2>1. \A e \in Orders : /\ <<Arm, e>> \in todo' => <<Arm, e>> \in todo
                          /\ <<"executed_success", e>> \in todo'
                                => <<"executed_success", e>> \in todo
    BY <1>1 DEF IssueWorkOrderWithPolicy, Arm
  <2>2. \A c, e \in Orders : undoes'[c] = e => undoes[c] = e
    BY <1>1, WorkOrdersAssumption
       DEF IssueWorkOrderWithPolicy, InsertRow, TypeOK, NoOrder, Orders
  <2>3. \A e \in Orders : /\ status'[e] = "reverted" => status[e] = "reverted"
                          /\ status[e] # "none" => status'[e] # "none"
    BY <1>1 DEF IssueWorkOrderWithPolicy, InsertRow, TypeOK
  <2>4. UNCHANGED <<snapshots, audit, armed, revert>>
    BY <1>1 DEF IssueWorkOrderWithPolicy
  <2> QED
    BY <2>1, <2>2, <2>3, <2>4, SwitchKept
<1>2. ASSUME NEW o \in Orders, CaptureSnapshot(o) PROVE SwitchInv'
  BY <1>2, SwitchKept DEF CaptureSnapshot
<1>3. ASSUME NEW o \in Orders, ApproveWorkOrder(o) PROVE SwitchInv'
  BY <1>3, SwitchKept DEF ApproveWorkOrder, Approvable, Arm, TypeOK
<1>4. ASSUME NEW o \in Orders, DeclineWorkOrder(o) PROVE SwitchInv'
  BY <1>4, SwitchKept DEF DeclineWorkOrder, Approvable, Arm, TypeOK
<1>5. ASSUME NEW o \in Orders, Lapse(o) PROVE SwitchInv'
  BY <1>5, SwitchKept DEF Lapse
<1>6. ASSUME NEW o \in Orders, NEW success \in BOOLEAN, ReportResult(o, success)
      PROVE  SwitchInv'
  BY <1>6, SwitchKept DEF ReportResult, Reportable, Arm, TypeOK
<1>7. ASSUME NEW o \in Orders, ArmDeadMansSwitch(o) \/ DisarmDeadMansSwitch(o)
      PROVE  SwitchInv'
  BY <1>7, SwitchKept DEF ArmDeadMansSwitch, DisarmDeadMansSwitch
<1>8. ASSUME ExpireStaleWorkOrders PROVE SwitchInv'
  BY <1>8, SwitchKept DEF ExpireStaleWorkOrders, Stale
<1>9. ASSUME NEW p \in Pollers, NEW o \in Orders, ClaimSelect(p, o) PROVE SwitchInv'
  BY <1>9, SwitchKept DEF ClaimSelect
<1>10. ASSUME NEW p \in Pollers, ClaimStep(p) \/ CrashClaim(p) PROVE SwitchInv'
  BY <1>10, SwitchKept DEF ClaimStep, ClaimUpdate, ClaimAudit, CrashClaim, TypeOK
<1>11. ASSUME NEW t \in todo, WriteAudit(t) PROVE SwitchInv'
  <2>1. \A o \in Orders :
          <<Arm, o>> \in todo' => <<Arm, o>> \in todo \/ <<"executed_success", o>> \in audit'
    BY <1>11 DEF WriteAudit, FollowUp, TypeOK, Steps
  <2>2. \A o \in Orders : <<"executed_success", o>> \in audit' \cup todo'
                           => <<"executed_success", o>> \in audit \cup todo
    BY <1>11 DEF WriteAudit, FollowUp, Arm
  <2> QED
    BY <1>11, <2>1, <2>2, SwitchKept DEF WriteAudit
<1>12. ASSUME NEW t \in todo, CrashHandler(t) PROVE SwitchInv'
  BY <1>12, SwitchKept DEF CrashHandler
<1>13. ASSUME NEW r \in Runners, NEW o \in Orders, FireStart(r, o) PROVE SwitchInv'
  <2>1. <<"executed_success", o>> \in audit'
    BY <1>13 DEF FireStart, SwitchInv
  <2>2. RunnerInv(r)'
    BY <1>13, <2>1 DEF FireStart, RunnerInv, NewRevert, TypeOK
  <2> QED
    BY <1>13, <2>2, SwitchKept DEF FireStart, TypeOK
<1>14. ASSUME NEW r \in Runners, NEW o \in Orders, RestorePointRevert(r, o) PROVE SwitchInv'
  <2>1. RunnerInv(r)'
    BY <1>14 DEF RestorePointRevert, RestorePointOf, RunnerInv, NewRevert, TypeOK, Justified
  <2> QED
    BY <1>14, <2>1, SwitchKept DEF RestorePointRevert, TypeOK
<1>15. ASSUME NEW r \in Runners, RevertStep(r) PROVE SwitchInv'
  <2>1. RunnerInv(r)
    BY DEF SwitchInv
  <2>2. revert[r] \in RevertStates /\ (revert[r].pc # "idle" => revert[r].o \in Orders)
    BY DEF TypeOK
  <2>3. CASE FireCheck(r)
    <3>1. RunnerInv(r)'
      BY <2>1, <2>2, <2>3 DEF FireCheck, RunnerInv, NoRevert, NewRevert, TypeOK
    <3> QED
      BY <2>3, <3>1, SwitchKept DEF FireCheck, TypeOK
  <2>4. CASE FireAudit(r)
    <3>1. RunnerInv(r)'
      BY <2>1, <2>2, <2>4 DEF FireAudit, RunnerInv, Justified, TypeOK
    <3> QED
      BY <2>4, <3>1, SwitchKept DEF FireAudit, TypeOK
  <2>5. ASSUME NEW c \in Orders, RevertIssue(r, c) PROVE SwitchInv'
    <3>1. Justified(revert[r].o)
      BY <2>1, <2>5 DEF RevertIssue, RunnerInv
    <3>2. RunnerInv(r)'
      BY <2>1, <2>2, <2>5 DEF RevertIssue, RunnerInv, Justified, TypeOK
    <3>3. \A d, e \in Orders : undoes'[d] = e => undoes[d] = e \/ Justified(e)
      BY <2>5, <3>1 DEF RevertIssue, InsertRow, TypeOK
    <3>4. \A e \in Orders : /\ status'[e] = "reverted" => status[e] = "reverted"
                            /\ status[e] # "none" => status'[e] # "none"
      <4>1. status' = [status EXCEPT ![c] = "pending"]
        BY <2>5 DEF RevertIssue, InsertRow
      <4> QED
        BY <4>1 DEF TypeOK
    <3>5. /\ UNCHANGED <<snapshots, audit, armed, todo>>
          /\ \A q \in Runners : q # r => revert'[q] = revert[q]
      BY <2>5 DEF RevertIssue, TypeOK
    <3>6. \A q \in Runners : revert'[q] = revert[q] \/ RunnerInv(q)'
      BY <3>2, <3>5
    <3> QED
      BY <3>3, <3>4, <3>5, <3>6, SwitchKept
  <2>6. CASE RevertIssueAudit(r) \/ RevertWithoutInverse(r) \/ RevertAudit(r)
    <3>1. RunnerInv(r)'
      <4>1. PICK pc \in {"mark", "escalate"} : revert' = [revert EXCEPT ![r].pc = pc]
        BY <2>6 DEF RevertIssueAudit, RevertWithoutInverse, RevertAudit
      <4>2. revert[r].pc \in {"issued", "issue", "reverted"}
        BY <2>6 DEF RevertIssueAudit, RevertWithoutInverse, RevertAudit
      <4>3. /\ revert'[r].pc = pc /\ revert'[r].o = revert[r].o
            /\ revert'[r].job = revert[r].job
        BY <4>1, <2>2 DEF TypeOK, RevertStates
      <4>4. audit \subseteq audit' /\ snapshots' = snapshots
        BY <2>6 DEF RevertIssueAudit, RevertWithoutInverse, RevertAudit
      <4> QED
        BY <2>1, <4>2, <4>3, <4>4 DEF RunnerInv, Justified
    <3> QED
      BY <2>6, <3>1, SwitchKept DEF RevertIssueAudit, RevertWithoutInverse, RevertAudit, TypeOK
  <2>7. CASE RevertMark(r)
    <3>1. RunnerInv(r)'
      BY <2>1, <2>2, <2>7 DEF RevertMark, RunnerInv, Justified, TypeOK
    <3>2. Justified(revert[r].o)
      BY <2>1, <2>7 DEF RevertMark, RunnerInv
    <3>3. \A e \in Orders :
            /\ status'[e] = "reverted" => status[e] = "reverted" \/ Justified(e)
            /\ status[e] # "none" => status'[e] # "none"
      BY <2>7, <3>2 DEF RevertMark, Markable, TypeOK
    <3> QED
      BY <2>7, <3>1, <3>3, SwitchKept DEF RevertMark, TypeOK
  <2>8. CASE RevertEscalate(r)
    <3>1. RunnerInv(r)'
      BY <2>2, <2>8 DEF RevertEscalate, RunnerInv, NoRevert, NewRevert, TypeOK
    <3> QED
      BY <2>8, <3>1, SwitchKept DEF RevertEscalate, TypeOK
  <2> QED
    BY <1>15, <2>3, <2>4, <2>5, <2>6, <2>7, <2>8 DEF RevertStep
<1>16. ASSUME NEW r \in Runners, CrashRevert(r) PROVE SwitchInv'
  <2>1. RunnerInv(r)'
    BY <1>16 DEF CrashRevert, RunnerInv, NoRevert, NewRevert, TypeOK
  <2>2. \A o \in Orders : o \in armed' => o \in armed \/ <<"executed_success", o>> \in audit'
    BY <1>16 DEF CrashRevert, Rescheduled, SwitchInv, RunnerInv
  <2> QED
    BY <1>16, <2>1, <2>2, SwitchKept DEF CrashRevert, TypeOK
<1>17. CASE UNCHANGED vars
  BY <1>17, SwitchKept DEF vars
<1>18. ASSUME NEW o \in Orders, OrderStep(o) PROVE SwitchInv'
  BY <1>1, <1>2, <1>3, <1>4, <1>5, <1>6, <1>7, <1>18 DEF OrderStep
<1> QED
  BY <1>6, <1>8, <1>9, <1>10, <1>11, <1>12, <1>13, <1>14, <1>15, <1>16, <1>17, <1>18
     DEF Next, InternalStep, SiteStep

THEOREM SwitchInvariant == Spec => [](TypeOK /\ SwitchInv)
BY InitType, NextType, InitSwitch, NextSwitch, PTL DEF Spec

\* A job of the dead man's switch exists only for an order whose successful execution
\* is on record, whatever crashes and however often the job is run again.
THEOREM ArmedAfterSuccess == Spec => []ArmedOnlyAfterSuccess
<1>1. TypeOK /\ SwitchInv => ArmedOnlyAfterSuccess
  BY DEF SwitchInv, RunnerInv, ArmedOnlyAfterSuccess
<1> QED
  BY <1>1, SwitchInvariant, PTL

\* Nothing is reverted, and no corrective order is issued, without a fired switch or a
\* restore point.
THEOREM RevertsAreJustified == Spec => []RevertIsJustified
<1>1. TypeOK /\ SwitchInv => RevertIsJustified
  BY DEF SwitchInv, RevertIsJustified, Justified
<1> QED
  BY <1>1, SwitchInvariant, PTL

-----------------------------------------------------------------------------
(***************************************************************************)
(* The audit trail.                                                        *)
(***************************************************************************)

\* What a step must guarantee to keep RecordInv: no decision, refusal or service is
\* undone, and what it logs, or leaves to be logged, is true when it does so.
LEMMA RecordKept ==
  ASSUME TypeOK, RecordInv,
         \A o \in Orders : grant[o] # "nobody" => grant'[o] = grant[o],
         \A o \in Orders : status[o] = "declined" => status'[o] = "declined",
         \A o \in Orders : o \in Served => o \in Served',
         \A e \in Events, o \in Orders :
            <<e, o>> \in audit' \cup todo' => <<e, o>> \in audit \cup todo \/ Backed(e, o)',
         \A r \in Runners :
            \/ revert'[r] = revert[r]
            \/ revert'[r].pc = "issued" => grant'[revert'[r].corrective] = "system"
  PROVE  RecordInv'
<1>1. ASSUME NEW e \in Events, NEW o \in Orders, Backed(e, o) PROVE Backed(e, o)'
  BY <1>1 DEF Backed
<1>2. ASSUME NEW e \in Events, NEW o \in Orders, <<e, o>> \in audit' \cup todo'
      PROVE  Backed(e, o)'
  BY <1>1, <1>2 DEF RecordInv
<1>3. ASSUME NEW r \in Runners, revert'[r].pc = "issued"
      PROVE  grant'[revert'[r].corrective] = "system"
  BY <1>3 DEF RecordInv, TypeOK
<1> QED
  BY <1>2, <1>3 DEF RecordInv

LEMMA InitRecord == Init => RecordInv
BY DEF Init, RecordInv, NoRevert, NewRevert

LEMMA NextRecord == TypeOK /\ GateInv /\ RecordInv /\ [Next]_vars => RecordInv'
<1> SUFFICES ASSUME TypeOK, GateInv, RecordInv, [Next]_vars PROVE RecordInv'
  OBVIOUS
\* What the steps that leave the rows alone have in common.
<1>1. ASSUME UNCHANGED <<status, grant>>,
             \A e \in Events, o \in Orders :
                <<e, o>> \in audit' \cup todo' => <<e, o>> \in audit \cup todo \/ Backed(e, o),
             \A r \in Runners : revert'[r] = revert[r] \/ revert'[r].pc # "issued"
      PROVE  RecordInv'
  BY <1>1, RecordKept DEF Served, Backed
<1>2. ASSUME NEW o \in Orders, NEW a, NEW s \in {"awaiting_approval", "pending"}, NEW who,
             NEW cause, InsertRow(o, a, s, who, cause)
      PROVE  /\ \A p \in Orders : grant[p] # "nobody" => grant'[p] = grant[p]
             /\ \A p \in Orders : status[p] = "declined" => status'[p] = "declined"
             /\ \A p \in Orders : p \in Served => p \in Served'
             /\ grant'[o] = who
  <2>1. status[o] = "none" /\ grant[o] = "nobody"
    BY <1>2 DEF InsertRow, IsNext, Exists, GateInv, Undecided
  <2>2. status' = [status EXCEPT ![o] = s] /\ grant' = [grant EXCEPT ![o] = who]
    BY <1>2 DEF InsertRow
  <2> QED
    BY <2>1, <2>2 DEF TypeOK, Served, ServedStatuses
<1>3. ASSUME NEW o \in Orders, NEW a \in Actions, NEW tier \in Tiers,
             IssueWorkOrderWithPolicy(o, a, tier)
      PROVE  RecordInv'
  <2>1. PICK s \in {"awaiting_approval", "pending"}, who \in {"nobody", "policy"} :
          /\ InsertRow(o, a, s, who, NoOrder)
          /\ todo' = todo \cup {<<IF who = "policy" THEN "work_order_issued"
                                  ELSE "work_order_awaiting_approval", o>>}
    BY <1>3 DEF IssueWorkOrderWithPolicy
  <2>2. UNCHANGED <<audit, revert>>
    BY <1>3 DEF IssueWorkOrderWithPolicy
  <2>3. \A e \in Events, p \in Orders :
          <<e, p>> \in audit' \cup todo' => <<e, p>> \in audit \cup todo \/ Backed(e, p)'
    <3>1. grant'[o] = who
      BY <1>2, <2>1
    <3>2. ASSUME NEW e \in Events, NEW p \in Orders,
                 <<e, p>> \in todo', <<e, p>> \notin todo
          PROVE  Backed(e, p)'
      <4>1. p = o /\ e = IF who = "policy" THEN "work_order_issued"
                         ELSE "work_order_awaiting_approval"
        BY <2>1, <3>2
      <4>2. who = "policy" => grant'[p] = "policy"
        BY <3>1, <4>1
      <4> QED
        BY <4>1, <4>2 DEF Backed
    <3> QED
      BY <2>2, <3>2
  <2> QED
    BY <1>2, <2>1, <2>2, <2>3, RecordKept
<1>4. ASSUME NEW o \in Orders, ApproveWorkOrder(o) PROVE RecordInv'
  <2>1. grant[o] = "nobody"
    BY <1>4 DEF ApproveWorkOrder, Approvable, GateInv, Undecided
  <2>2. /\ \A p \in Orders : grant[p] # "nobody" => grant'[p] = grant[p]
        /\ \A p \in Orders : status[p] = "declined" => status'[p] = "declined"
        /\ \A p \in Orders : p \in Served => p \in Served'
        /\ grant'[o] = "human"
    BY <1>4, <2>1 DEF ApproveWorkOrder, Approvable, TypeOK, Served, ServedStatuses
  <2>3. \A e \in Events, p \in Orders :
          <<e, p>> \in audit' \cup todo' => <<e, p>> \in audit \cup todo \/ Backed(e, p)'
    BY <1>4, <2>2 DEF ApproveWorkOrder, Backed
  <2> QED
    BY <1>4, <2>2, <2>3, RecordKept DEF ApproveWorkOrder
<1>5. ASSUME NEW o \in Orders, DeclineWorkOrder(o) PROVE RecordInv'
  <2>1. /\ \A p \in Orders : status[p] = "declined" => status'[p] = "declined"
        /\ \A p \in Orders : p \in Served => p \in Served'
        /\ status'[o] = "declined"
    BY <1>5 DEF DeclineWorkOrder, Approvable, TypeOK, Served, ServedStatuses
  <2>2. \A e \in Events, p \in Orders :
          <<e, p>> \in audit' \cup todo' => <<e, p>> \in audit \cup todo \/ Backed(e, p)'
    BY <1>5, <2>1 DEF DeclineWorkOrder, Backed
  <2> QED
    BY <1>5, <2>1, <2>2, RecordKept DEF DeclineWorkOrder, rowVars
<1>6. ASSUME NEW o \in Orders, NEW success \in BOOLEAN, ReportResult(o, success)
      PROVE  RecordInv'
  <2>1. /\ \A p \in Orders : status[p] = "declined" => status'[p] = "declined"
        /\ \A p \in Orders : p \in Served => p \in Served'
        /\ o \in Served'
    BY <1>6 DEF ReportResult, Reportable, TypeOK, Served, ServedStatuses
  <2>2. \A e \in Events, p \in Orders :
          <<e, p>> \in audit' \cup todo' => <<e, p>> \in audit \cup todo \/ Backed(e, p)'
    BY <1>6, <2>1 DEF ReportResult, Backed
  <2> QED
    BY <1>6, <2>1, <2>2, RecordKept DEF ReportResult, rowVars
<1>7. ASSUME ExpireStaleWorkOrders PROVE RecordInv'
  <2>1. /\ \A p \in Orders : status[p] = "declined" => status'[p] = "declined"
        /\ \A p \in Orders : p \in Served => p \in Served'
    BY <1>7 DEF ExpireStaleWorkOrders, Stale, Served, ServedStatuses
  <2> QED
    BY <1>7, <2>1, RecordKept DEF ExpireStaleWorkOrders, rowVars
<1>8. ASSUME NEW p \in Pollers, ClaimUpdate(p) PROVE RecordInv'
  <2>1. status[claim[p].o] \notin Undecided
    BY <1>8 DEF ClaimUpdate, GateInv
  <2>2. /\ \A o \in Orders : status[o] = "declined" => status'[o] = "declined"
        /\ \A o \in Orders : o \in Served => o \in Served'
    BY <1>8, <2>1 DEF ClaimUpdate, Undecided, TypeOK, Served, ServedStatuses
  <2> QED
    BY <1>8, <2>2, RecordKept DEF ClaimUpdate, rowVars
<1>9. ASSUME NEW p \in Pollers, ClaimAudit(p) PROVE RecordInv'
  <2>1. claim[p].o \in Served
    BY <1>9 DEF ClaimAudit, GateInv
  <2>2. Backed("work_order_claimed", claim[p].o)
    BY <2>1 DEF Backed
  <2> QED
    BY <1>1, <1>9, <2>2 DEF ClaimAudit, rowVars
<1>10. ASSUME NEW t \in todo, WriteAudit(t) \/ CrashHandler(t) PROVE RecordInv'
  <2>1. \A e \in Events, o \in Orders :
          <<e, o>> \in audit' \cup todo' => <<e, o>> \in audit \cup todo
    BY <1>10 DEF WriteAudit, CrashHandler, FollowUp, Events, Arm
  <2> QED
    BY <1>1, <1>10, <2>1 DEF WriteAudit, CrashHandler, rowVars
<1>11. ASSUME NEW o \in Orders,
              \/ CaptureSnapshot(o) \/ Lapse(o)
              \/ ArmDeadMansSwitch(o) \/ DisarmDeadMansSwitch(o)
       PROVE  RecordInv'
  BY <1>1, <1>11 DEF CaptureSnapshot, Lapse, ArmDeadMansSwitch, DisarmDeadMansSwitch, rowVars
<1>12. ASSUME NEW p \in Pollers, CrashClaim(p) PROVE RecordInv'
  BY <1>1, <1>12 DEF CrashClaim, rowVars
<1>13. ASSUME NEW p \in Pollers, NEW o \in Orders, ClaimSelect(p, o) PROVE RecordInv'
  BY <1>1, <1>13 DEF ClaimSelect, rowVars
<1>14. ASSUME NEW r \in Runners, NEW o \in Orders, FireStart(r, o) \/ RestorePointRevert(r, o)
       PROVE  RecordInv'
  <2>1. \A q \in Runners : revert'[q] = revert[q] \/ revert'[q].pc # "issued"
    BY <1>14 DEF FireStart, RestorePointRevert, NewRevert, TypeOK
  <2> QED
    BY <1>1, <1>14, <2>1 DEF FireStart, RestorePointRevert, rowVars
<1>15. ASSUME NEW r \in Runners, NEW c \in Orders, RevertIssue(r, c) PROVE RecordInv'
  <2>1. InsertRow(c, InverseAction[action[revert[r].o]], "pending", "system", revert[r].o)
    BY <1>15 DEF RevertIssue
  <2>2. \A q \in Runners : revert'[q] = revert[q]
                           \/ grant'[revert'[q].corrective] = "system"
    <3>1. revert'[r].corrective = c /\ \A q \in Runners : q # r => revert'[q] = revert[q]
      BY <1>15 DEF RevertIssue, TypeOK, RevertStates
    <3>2. grant'[c] = "system"
      BY <1>2, <2>1
    <3> QED
      BY <3>1, <3>2
  <2>3. UNCHANGED <<audit, todo>>
    BY <1>15 DEF RevertIssue
  <2> QED
    BY <1>2, <2>1, <2>2, <2>3, RecordKept
<1>16. ASSUME NEW r \in Runners, RevertMark(r) PROVE RecordInv'
  <2>1. /\ \A o \in Orders : status[o] = "declined" => status'[o] = "declined"
        /\ \A o \in Orders : o \in Served => o \in Served'
    BY <1>16 DEF RevertMark, Markable, TypeOK, Served, ServedStatuses
  <2>2. \A q \in Runners : revert'[q] = revert[q] \/ revert'[q].pc # "issued"
    BY <1>16 DEF RevertMark, TypeOK, RevertStates
  <2> QED
    BY <1>16, <2>1, <2>2, RecordKept DEF RevertMark, rowVars
<1>17. ASSUME NEW r \in Runners,
              \/ FireCheck(r) \/ FireAudit(r) \/ RevertIssueAudit(r)
              \/ RevertWithoutInverse(r) \/ RevertAudit(r) \/ RevertEscalate(r)
              \/ CrashRevert(r)
       PROVE  RecordInv'
  <2>1. \A q \in Runners : revert'[q] = revert[q] \/ revert'[q].pc # "issued"
    BY <1>17 DEF FireCheck, FireAudit, RevertIssueAudit, RevertWithoutInverse, RevertAudit,
       RevertEscalate, CrashRevert, NoRevert, NewRevert, TypeOK, RevertStates
  <2>2. \A e \in Events, o \in Orders :
          <<e, o>> \in audit' \cup todo' => <<e, o>> \in audit \cup todo \/ Backed(e, o)
    BY <1>17 DEF FireCheck, FireAudit, RevertIssueAudit, RevertWithoutInverse, RevertAudit,
       RevertEscalate, CrashRevert, Backed, RecordInv
  <2>3. UNCHANGED <<status, grant>>
    BY <1>17 DEF FireCheck, FireAudit, RevertIssueAudit, RevertWithoutInverse, RevertAudit,
       RevertEscalate, CrashRevert, rowVars
  <2> QED
    BY <1>1, <2>1, <2>2, <2>3
<1>18. CASE UNCHANGED vars
  BY <1>1, <1>18 DEF vars
<1>19. ASSUME NEW o \in Orders, OrderStep(o) PROVE RecordInv'
  BY <1>3, <1>4, <1>5, <1>6, <1>11, <1>19 DEF OrderStep
<1>20. ASSUME NEW r \in Runners, RevertStep(r) PROVE RecordInv'
  BY <1>15, <1>16, <1>17, <1>20 DEF RevertStep
<1> QED
  BY <1>6, <1>7, <1>8, <1>9, <1>10, <1>12, <1>13, <1>14, <1>17, <1>18, <1>19, <1>20
     DEF Next, InternalStep, SiteStep, ClaimStep

\* No row of the audit trail describes a decision, a claim or an execution that the
\* table does not bear witness to, at whatever point a process dies.
THEOREM AuditBacked == Spec => []AuditIsBacked
<1>1. RecordInv => AuditIsBacked
  BY DEF RecordInv, AuditIsBacked
<1>2. Spec => []RecordInv
  BY InitRecord, NextRecord, GateInvariant, PTL DEF Spec
<1> QED
  BY <1>1, <1>2, PTL

-----------------------------------------------------------------------------
(***************************************************************************)
(* What one step does to a row, a claim, a revert and the trail, whichever *)
(* step it is.                                                             *)
(***************************************************************************)

\* The statuses a row may go through, and that only a claim marks it as claimed.
Moves(o) ==
  \/ status[o] = "none" /\ status'[o] \in {"awaiting_approval", "pending"}
  \/ status[o] = "awaiting_approval" /\ status'[o] \in {"pending", "declined"}
  \/ status[o] = "pending" /\ status'[o] = "expired"
  \/ status[o] = "claimed" /\ status'[o] = "executed"
  \/ status[o] = "executed" /\ status'[o] = "reverted"
  \/ status'[o] = "claimed" /\ \E p \in Pollers : claim[p].o = o /\ ClaimUpdate(p)

LEMMA StatusMoves ==
  ASSUME TypeOK, [Next]_vars, NEW o \in Orders
  PROVE  status'[o] = status[o] \/ Moves(o)
<1> USE DEF TypeOK, Moves
<1>1. ASSUME NEW c \in Orders, NEW a, NEW s \in {"awaiting_approval", "pending"}, NEW who,
             NEW cause, InsertRow(c, a, s, who, cause)
      PROVE  status'[o] = status[o] \/ Moves(o)
  BY <1>1 DEF InsertRow, IsNext, Exists
<1>2. ASSUME NEW q \in Orders, OrderStep(q) PROVE status'[o] = status[o] \/ Moves(o)
  <2>1. CASE \E a \in Actions, tier \in Tiers : IssueWorkOrderWithPolicy(q, a, tier)
    BY <1>1, <2>1 DEF IssueWorkOrderWithPolicy
  <2>2. CASE ApproveWorkOrder(q) \/ DeclineWorkOrder(q)
    BY <2>2 DEF ApproveWorkOrder, DeclineWorkOrder, Approvable
  <2>3. CASE \/ CaptureSnapshot(q) \/ Lapse(q)
             \/ ArmDeadMansSwitch(q) \/ DisarmDeadMansSwitch(q)
    BY <2>3 DEF CaptureSnapshot, Lapse, ArmDeadMansSwitch, DisarmDeadMansSwitch
  <2> QED
    BY <1>2, <2>1, <2>2, <2>3 DEF OrderStep
<1>3. CASE ExpireStaleWorkOrders
  BY <1>3 DEF ExpireStaleWorkOrders, Stale
<1>4. ASSUME NEW t \in todo, WriteAudit(t) \/ CrashHandler(t) PROVE status' = status
  BY <1>4 DEF WriteAudit, CrashHandler
<1>5. ASSUME NEW r \in Runners,
             \/ \E q \in Orders : FireStart(r, q) \/ RestorePointRevert(r, q)
             \/ CrashRevert(r)
      PROVE  status' = status
  BY <1>5 DEF FireStart, RestorePointRevert, CrashRevert
<1>6. ASSUME NEW r \in Runners, RevertStep(r) PROVE status'[o] = status[o] \/ Moves(o)
  <2>1. CASE \E c \in Orders : RevertIssue(r, c)
    BY <1>1, <2>1 DEF RevertIssue
  <2>2. CASE RevertMark(r)
    BY <2>2 DEF RevertMark, Markable
  <2>3. CASE \/ FireCheck(r) \/ FireAudit(r) \/ RevertIssueAudit(r)
             \/ RevertWithoutInverse(r) \/ RevertAudit(r) \/ RevertEscalate(r)
    BY <2>3 DEF FireCheck, FireAudit, RevertIssueAudit, RevertWithoutInverse, RevertAudit,
       RevertEscalate
  <2> QED
    BY <1>6, <2>1, <2>2, <2>3 DEF RevertStep
<1>7. ASSUME NEW p \in Pollers, ClaimUpdate(p) PROVE status'[o] = status[o] \/ Moves(o)
  <2>1. status' = [status EXCEPT ![claim[p].o] = "claimed"]
    BY <1>7 DEF ClaimUpdate
  <2> QED
    BY <1>7, <2>1
<1>8. ASSUME NEW p \in Pollers,
             ClaimAudit(p) \/ CrashClaim(p) \/ \E q \in Orders : ClaimSelect(p, q)
      PROVE  status' = status
  BY <1>8 DEF ClaimAudit, CrashClaim, ClaimSelect
<1>9. ASSUME NEW q \in Orders, NEW success \in BOOLEAN, ReportResult(q, success)
      PROVE  status'[o] = status[o] \/ Moves(o)
  BY <1>9 DEF ReportResult, Reportable
<1>10. CASE UNCHANGED vars
  BY <1>10 DEF vars
<1> QED
  BY <1>2, <1>3, <1>4, <1>5, <1>6, <1>7, <1>8, <1>9, <1>10
  DEF Next, InternalStep, SiteStep, ClaimStep

\* A claim request moves by its own statements, or dies.
LEMMA ClaimMoves ==
  ASSUME TypeOK, [Next]_vars, NEW p \in Pollers
  PROVE  \/ claim'[p] = claim[p]
         \/ \E o \in Orders : ClaimSelect(p, o)
         \/ ClaimStep(p)
         \/ CrashClaim(p)
<1> USE DEF TypeOK
<1>1. CASE InternalStep
  <2>1. claim' = claim
    BY <1>1 DEF InternalStep, OrderStep, IssueWorkOrderWithPolicy, CaptureSnapshot,
       ApproveWorkOrder, DeclineWorkOrder, Lapse, ArmDeadMansSwitch, DisarmDeadMansSwitch,
       ExpireStaleWorkOrders, WriteAudit, CrashHandler, FireStart, RestorePointRevert,
       RevertStep, FireCheck, FireAudit, RevertIssue, RevertIssueAudit, RevertWithoutInverse,
       RevertMark, RevertAudit, RevertEscalate, CrashRevert
  <2> QED
    BY <2>1
<1>2. ASSUME NEW q \in Pollers,
             ClaimStep(q) \/ CrashClaim(q) \/ \E o \in Orders : ClaimSelect(q, o)
      PROVE  q = p \/ claim'[p] = claim[p]
  BY <1>2 DEF ClaimStep, ClaimUpdate, ClaimAudit, CrashClaim, ClaimSelect
<1>3. ASSUME NEW q \in Orders, NEW success \in BOOLEAN, ReportResult(q, success)
      PROVE  claim' = claim
  BY <1>3 DEF ReportResult
<1>4. CASE UNCHANGED vars
  BY <1>4 DEF vars
<1> QED
  BY <1>1, <1>2, <1>3, <1>4 DEF Next, SiteStep

\* A revert moves by its own statements, or dies.
LEMMA RunnerMoves ==
  ASSUME TypeOK, [Next]_vars, NEW r \in Runners
  PROVE  \/ revert'[r] = revert[r]
         \/ \E o \in Orders : FireStart(r, o) \/ RestorePointRevert(r, o)
         \/ RevertStep(r)
         \/ CrashRevert(r)
<1> USE DEF TypeOK
<1>1. ASSUME NEW q \in Runners,
             \/ \E o \in Orders : FireStart(q, o) \/ RestorePointRevert(q, o)
             \/ RevertStep(q)
             \/ CrashRevert(q)
      PROVE  q = r \/ revert'[r] = revert[r]
  BY <1>1 DEF FireStart, RestorePointRevert, RevertStep, FireCheck, FireAudit, RevertIssue,
     RevertIssueAudit, RevertWithoutInverse, RevertMark, RevertAudit, RevertEscalate,
     CrashRevert
<1>2. ASSUME \/ \E o \in Orders : OrderStep(o)
             \/ ExpireStaleWorkOrders
             \/ \E t \in todo : WriteAudit(t) \/ CrashHandler(t)
      PROVE  revert' = revert
  BY <1>2 DEF OrderStep, IssueWorkOrderWithPolicy, CaptureSnapshot, ApproveWorkOrder,
     DeclineWorkOrder, Lapse, ArmDeadMansSwitch, DisarmDeadMansSwitch,
     ExpireStaleWorkOrders, WriteAudit, CrashHandler
<1>3. CASE SiteStep
  <2>1. revert' = revert
    BY <1>3 DEF SiteStep, ClaimStep, ClaimUpdate, ClaimAudit, CrashClaim, ClaimSelect,
       ReportResult
  <2> QED
    BY <2>1
<1>4. CASE UNCHANGED vars
  BY <1>4 DEF vars
<1> QED
  BY <1>1, <1>2, <1>3, <1>4 DEF Next, InternalStep

\* The trail only grows, and a success or a revert is put on it by the statement that is
\* to do so.
LEMMA TrailGrows ==
  ASSUME TypeOK, [Next]_vars
  PROVE  /\ audit \subseteq audit'
         /\ \A o \in Orders :
              /\ <<"executed_success", o>> \in audit' \ audit
                   => WriteAudit(<<"executed_success", o>>)
              /\ <<"work_order_reverted", o>> \in audit' \cup todo'
                   => \/ <<"work_order_reverted", o>> \in audit \cup todo
                      \/ \E r \in Runners : RevertAudit(r) /\ revert[r].o = o
<1>1. CASE \/ \E o \in Orders : OrderStep(o)
           \/ ExpireStaleWorkOrders
  BY <1>1 DEF OrderStep, IssueWorkOrderWithPolicy, CaptureSnapshot, ApproveWorkOrder,
     DeclineWorkOrder, Lapse, ArmDeadMansSwitch, DisarmDeadMansSwitch,
     ExpireStaleWorkOrders
<1>2. ASSUME NEW t \in todo, WriteAudit(t) \/ CrashHandler(t)
      PROVE  /\ audit \subseteq audit' /\ audit' \ audit \subseteq {t}
             /\ audit' # audit => WriteAudit(t)
             /\ \A o \in Orders : <<"work_order_reverted", o>> \in audit' \cup todo'
                                    => <<"work_order_reverted", o>> \in audit \cup todo
  BY <1>2 DEF WriteAudit, CrashHandler, FollowUp, Arm
<1>3. ASSUME NEW r \in Runners,
             \/ \E o \in Orders : FireStart(r, o) \/ RestorePointRevert(r, o)
             \/ RevertStep(r)
             \/ CrashRevert(r)
      PROVE  /\ audit \subseteq audit' /\ todo' = todo
             /\ \A o \in Orders : <<"executed_success", o>> \notin audit' \ audit
             /\ \A o \in Orders : <<"work_order_reverted", o>> \in audit' \ audit
                                    => RevertAudit(r) /\ revert[r].o = o
  BY <1>3 DEF FireStart, RestorePointRevert, RevertStep, FireCheck, FireAudit, RevertIssue,
     RevertIssueAudit, RevertWithoutInverse, RevertMark, RevertAudit, RevertEscalate,
     CrashRevert
<1>4. CASE SiteStep
  BY <1>4 DEF SiteStep, ClaimStep, ClaimUpdate, ClaimAudit, CrashClaim, ClaimSelect,
     ReportResult
<1>5. CASE UNCHANGED vars
  BY <1>5 DEF vars
<1> QED
  BY <1>1, <1>2, <1>3, <1>4, <1>5 DEF Next, InternalStep

\* Only a report puts a success on record.
LEMMA NoNewSuccess ==
  ASSUME TypeOK, NEW q \in Orders, <<"executed_success", q>> \in audit' \cup todo',
         \/ InternalStep
         \/ \E p \in Pollers :
              ClaimStep(p) \/ CrashClaim(p) \/ \E o \in Orders : ClaimSelect(p, o)
         \/ UNCHANGED vars
  PROVE  <<"executed_success", q>> \in audit \cup todo
<1> DEFINE t == <<"executed_success", q>>
<1>1. ASSUME NEW o \in Orders, OrderStep(o) PROVE t \in audit \cup todo
  BY <1>1 DEF OrderStep, IssueWorkOrderWithPolicy, CaptureSnapshot, ApproveWorkOrder,
     DeclineWorkOrder, Lapse, ArmDeadMansSwitch, DisarmDeadMansSwitch
<1>2. CASE ExpireStaleWorkOrders
  BY <1>2 DEF ExpireStaleWorkOrders
<1>3. ASSUME NEW u \in todo, WriteAudit(u) \/ CrashHandler(u) PROVE t \in audit \cup todo
  BY <1>3 DEF WriteAudit, FollowUp, Arm, CrashHandler
<1>4. ASSUME NEW r \in Runners,
             \/ \E o \in Orders : FireStart(r, o) \/ RestorePointRevert(r, o)
             \/ CrashRevert(r)
      PROVE  t \in audit \cup todo
  BY <1>4 DEF FireStart, RestorePointRevert, CrashRevert
<1>5. ASSUME NEW r \in Runners, RevertStep(r) PROVE t \in audit \cup todo
  BY <1>5 DEF RevertStep, FireCheck, FireAudit, RevertIssue, RevertIssueAudit,
     RevertWithoutInverse, RevertMark, RevertAudit, RevertEscalate
<1>6. ASSUME NEW p \in Pollers,
             ClaimStep(p) \/ CrashClaim(p) \/ \E o \in Orders : ClaimSelect(p, o)
      PROVE  t \in audit \cup todo
  BY <1>6 DEF ClaimStep, ClaimUpdate, ClaimAudit, CrashClaim, ClaimSelect
<1>7. CASE UNCHANGED vars
  BY <1>7 DEF vars
<1> QED
  BY <1>1, <1>2, <1>3, <1>4, <1>5, <1>6, <1>7 DEF InternalStep

\* Nothing dies without being counted.
LEMMA CrashesCount ==
  ASSUME TypeOK, [Next]_vars, crashes' = 0
  PROVE  /\ crashes = 0
         /\ \A t \in todo : ~CrashHandler(t)
         /\ \A p \in Pollers : ~CrashClaim(p)
         /\ \A r \in Runners : ~CrashRevert(r)
<1>1. crashes \in Nat
  BY WorkOrdersAssumption DEF TypeOK
<1>2. ASSUME Crash PROVE FALSE
  BY <1>1, <1>2 DEF Crash
<1>3. \/ crashes' = crashes \/ Crash
  <2>1. ASSUME NEW o \in Orders, OrderStep(o) PROVE crashes' = crashes
    BY <2>1 DEF OrderStep, IssueWorkOrderWithPolicy, CaptureSnapshot, ApproveWorkOrder,
       DeclineWorkOrder, Lapse, ArmDeadMansSwitch, DisarmDeadMansSwitch
  <2>2. ASSUME NEW t \in todo, WriteAudit(t) \/ CrashHandler(t)
        PROVE  crashes' = crashes \/ Crash
    BY <2>2 DEF WriteAudit, CrashHandler
  <2>3. ASSUME NEW r \in Runners,
               \/ \E o \in Orders : FireStart(r, o) \/ RestorePointRevert(r, o)
               \/ RevertStep(r)
               \/ CrashRevert(r)
        PROVE  crashes' = crashes \/ Crash
    BY <2>3 DEF FireStart, RestorePointRevert, RevertStep, FireCheck, FireAudit, RevertIssue,
       RevertIssueAudit, RevertWithoutInverse, RevertMark, RevertAudit, RevertEscalate,
       CrashRevert
  <2>4. CASE SiteStep
    BY <2>4 DEF SiteStep, ClaimStep, ClaimUpdate, ClaimAudit, CrashClaim, ClaimSelect,
       ReportResult
  <2>5. CASE ExpireStaleWorkOrders \/ UNCHANGED vars
    BY <2>5 DEF ExpireStaleWorkOrders, vars
  <2> QED
    BY <2>1, <2>2, <2>3, <2>4, <2>5 DEF Next, InternalStep
<1> QED
  BY <1>2, <1>3 DEF CrashHandler, CrashClaim, CrashRevert

-----------------------------------------------------------------------------
(***************************************************************************)
(* One claim request at a time.  Two of them may take one order twice      *)
(* (ClaimsAreExclusive is violated), and a row that is claimed again after *)
(* its execution breaks what is proved here.                               *)
(***************************************************************************)
OneClaim == \A p, q \in Pollers : p = q

\* A claim in flight has picked an order that nobody has served, and one that has
\* succeeded is done with.
OnePassInv ==
  /\ \A p \in Pollers :
       claim[p].pc = "update" => status[claim[p].o] \in {"pending", "expired"}
  /\ \A o \in Orders :
       <<"executed_success", o>> \in audit \cup todo => status[o] \in {"executed", "reverted"}

\* Then a row passes through its statuses once.
LEMMA PassesOnce ==
  ASSUME TypeOK, OneClaim, OnePassInv, [Next]_vars, NEW o \in Orders
  PROVE  /\ status[o] = "executed" => status'[o] \in {"executed", "reverted"}
         /\ status[o] = "reverted" => status'[o] = "reverted"
         /\ status[o] \in {"pending", "expired"} => \/ status'[o] \in {"pending", "expired"}
                                                    \/ \E p \in Pollers : ClaimUpdate(p)
BY StatusMoves DEF Moves, OnePassInv, ClaimUpdate

LEMMA OnePassStep == TypeOK /\ OneClaim /\ OnePassInv /\ [Next]_vars => OnePassInv'
<1> SUFFICES ASSUME TypeOK, OneClaim, OnePassInv, [Next]_vars PROVE OnePassInv'
  OBVIOUS
<1>1. ASSUME NEW p \in Pollers, claim'[p].pc = "update"
      PROVE  status'[claim'[p].o] \in {"pending", "expired"}
  <2>1. CASE claim'[p] = claim[p]
    <3>1. status[claim[p].o] \in {"pending", "expired"} /\ claim[p].o \in Orders
      BY <1>1, <2>1 DEF OnePassInv, TypeOK
    <3>2. \A q \in Pollers : ~ClaimUpdate(q)
      BY <1>1, <2>1 DEF OneClaim, ClaimUpdate, TypeOK, ClaimStates
    <3> QED
      BY <2>1, <3>1, <3>2, PassesOnce
  <2>2. ASSUME NEW o \in Orders, ClaimSelect(p, o)
        PROVE  status'[claim'[p].o] \in {"pending", "expired"}
    BY <2>2 DEF ClaimSelect, IsOldestPending, TypeOK
  <2>3. CASE ClaimStep(p) \/ CrashClaim(p)
    BY <1>1, <2>3 DEF ClaimStep, ClaimUpdate, ClaimAudit, CrashClaim, NoClaim, TypeOK,
       ClaimStates
  <2> QED
    BY <2>1, <2>2, <2>3, ClaimMoves
<1>2. ASSUME NEW o \in Orders, <<"executed_success", o>> \in audit' \cup todo'
      PROVE  status'[o] \in {"executed", "reverted"}
  <2>1. CASE <<"executed_success", o>> \in audit \cup todo
    BY <2>1, PassesOnce DEF OnePassInv
  <2>2. ASSUME NEW q \in Orders, NEW ok \in BOOLEAN, ReportResult(q, ok),
               <<"executed_success", o>> \notin audit \cup todo
        PROVE  status'[o] \in {"executed", "reverted"}
    <3>1. o = q
      BY <1>2, <2>2 DEF ReportResult
    <3> QED
      BY <2>2, <3>1 DEF ReportResult, TypeOK
  <2> QED
    BY <1>2, <2>1, <2>2, NoNewSuccess DEF Next, SiteStep
<1> QED
  BY <1>1, <1>2 DEF OnePassInv

LEMMA InitOnePass == Init => OnePassInv
BY DEF Init, OnePassInv, NoClaim

-----------------------------------------------------------------------------
\* Without restore points only the switch reverts, and it has looked at the status: what
\* it is about to mark is executed, or another run of the job has marked it.
RevertedInv ==
  /\ snapshots = {}
  /\ \A r \in Runners :
       /\ revert[r].pc \in {"fired", "issue", "issued", "mark"}
            => status[revert[r].o] \in {"executed", "reverted"}
       /\ revert[r].pc \in {"reverted", "escalate"} => status[revert[r].o] = "reverted"
  /\ \A o \in Orders :
       <<"work_order_reverted", o>> \in audit \cup todo => status[o] = "reverted"

LEMMA RevertedStep ==
  ~Capturing /\ TypeOK /\ OneClaim /\ OnePassInv /\ RevertedInv /\ [Next]_vars
    => RevertedInv'
<1> SUFFICES ASSUME ~Capturing, TypeOK, OneClaim, OnePassInv, RevertedInv, [Next]_vars
    PROVE  RevertedInv'
  OBVIOUS
<1>1. \A o \in Orders :
        /\ status[o] \in {"executed", "reverted"} => status'[o] \in {"executed", "reverted"}
        /\ status[o] = "reverted" => status'[o] = "reverted"
  BY PassesOnce
<1>2. snapshots' = {}
  BY DEF RevertedInv, Next, InternalStep, SiteStep, OrderStep, IssueWorkOrderWithPolicy,
     CaptureSnapshot, ApproveWorkOrder, DeclineWorkOrder, Lapse, ArmDeadMansSwitch,
     DisarmDeadMansSwitch, ExpireStaleWorkOrders, WriteAudit, CrashHandler, FireStart,
     RestorePointRevert, RevertStep, FireCheck, FireAudit, RevertIssue, RevertIssueAudit,
     RevertWithoutInverse, RevertMark, RevertAudit, RevertEscalate, CrashRevert, ClaimStep,
     ClaimUpdate, ClaimAudit, CrashClaim, ClaimSelect, ReportResult, vars
<1>3. ASSUME NEW r \in Runners
      PROVE  /\ revert'[r].pc \in {"fired", "issue", "issued", "mark"}
                  => status'[revert'[r].o] \in {"executed", "reverted"}
             /\ revert'[r].pc \in {"reverted", "escalate"} => status'[revert'[r].o] = "reverted"
  <2>0. /\ revert[r].pc \in {"fired", "issue", "issued", "mark"}
              => status[revert[r].o] \in {"executed", "reverted"}
        /\ revert[r].pc \in {"reverted", "escalate"} => status[revert[r].o] = "reverted"
        /\ revert[r].pc # "idle" => revert[r].o \in Orders
        /\ revert \in [Runners -> RevertStates]
    BY DEF RevertedInv, TypeOK
  <2>1. CASE revert'[r] = revert[r]
    BY <1>1, <2>0, <2>1
  <2>2. ASSUME NEW o \in Orders, FireStart(r, o) \/ RestorePointRevert(r, o)
        PROVE  revert'[r].pc = "check"
    BY <2>0, <2>2 DEF FireStart, RestorePointRevert, RestorePointOf, NewRevert, RevertedInv
  <2>3. CASE CrashRevert(r) \/ RevertEscalate(r)
    BY <2>0, <2>3 DEF CrashRevert, RevertEscalate, NoRevert, NewRevert
  <2>4. CASE FireCheck(r)
    BY <1>1, <2>0, <2>4 DEF FireCheck, NoRevert, NewRevert, RevertStates
  <2>5. CASE FireAudit(r) \/ RevertIssueAudit(r) \/ RevertWithoutInverse(r) \/ RevertAudit(r)
             \/ \E c \in Orders : RevertIssue(r, c)
    BY <1>1, <2>0, <2>5
    DEF FireAudit, RevertIssueAudit, RevertWithoutInverse, RevertAudit, RevertIssue,
        RevertStates
  <2>6. CASE RevertMark(r)
    BY <2>0, <2>6 DEF RevertMark, Markable, RevertStates, TypeOK
  <2> QED
    BY <2>1, <2>2, <2>3, <2>4, <2>5, <2>6, RunnerMoves DEF RevertStep
<1>4. ASSUME NEW o \in Orders, <<"work_order_reverted", o>> \in audit' \cup todo'
      PROVE  status'[o] = "reverted"
  <2>1. ASSUME NEW r \in Runners, RevertAudit(r), revert[r].o = o PROVE status[o] = "reverted"
    BY <2>1 DEF RevertAudit, RevertedInv
  <2>2. status[o] = "reverted"
    BY <1>4, <2>1, TrailGrows DEF RevertedInv
  <2> QED
    BY <1>1, <2>2
<1> QED
  BY <1>2, <1>3, <1>4 DEF RevertedInv

LEMMA RevertedInvariant ==
  ASSUME OneClaim, ~Capturing
  PROVE  Spec => []RevertedInv
<1>1. Init => RevertedInv
  BY DEF Init, RevertedInv, NoRevert, NewRevert
<1>2. TypeOK /\ OnePassInv /\ RevertedInv /\ [Next]_vars => OnePassInv' /\ RevertedInv'
  BY OnePassStep, RevertedStep
<1> QED
  BY <1>1, <1>2, InitOnePass, TypeCorrect, PTL DEF Spec

\* The trail never says that an order was reverted when it was not: a site that has one
\* claim under way at a time, and no restore point.  With a restore point of an order that
\* is still to be executed, or a second claim, it may.
THEOREM RevertedRecorded ==
  ASSUME OneClaim, ~Capturing
  PROVE  Spec => []RevertedAsRecorded
<1>1. RevertedInv => RevertedAsRecorded
  BY DEF RevertedInv, RevertedAsRecorded
<1> QED
  BY <1>1, RevertedInvariant, PTL

-----------------------------------------------------------------------------
\* An order that has been served is in the trail, or its claim is about to put it there.
LoggedInv ==
  crashes = 0 => \A o \in Served :
    \/ <<"work_order_claimed", o>> \in audit
    \/ \E p \in Pollers : claim[p].pc = "audit" /\ claim[p].o = o

LEMMA LoggedStep == TypeOK /\ LoggedInv /\ [Next]_vars => LoggedInv'
<1> SUFFICES ASSUME TypeOK, LoggedInv, [Next]_vars, crashes' = 0,
                    NEW o \in Orders, status'[o] \in ServedStatuses
    PROVE  \/ <<"work_order_claimed", o>> \in audit'
           \/ \E p \in Pollers : claim'[p].pc = "audit" /\ claim'[p].o = o
  BY DEF LoggedInv, Served
<1>1. crashes = 0 /\ \A p \in Pollers : ~CrashClaim(p)
  BY CrashesCount
<1>2. CASE <<"work_order_claimed", o>> \in audit
  BY <1>2, TrailGrows
<1>3. ASSUME NEW p \in Pollers, claim[p].pc = "audit", claim[p].o = o
      PROVE  claim'[p] = claim[p] \/ <<"work_order_claimed", o>> \in audit'
  BY <1>1, <1>3, ClaimMoves DEF ClaimStep, ClaimUpdate, ClaimAudit, ClaimSelect
<1>4. ASSUME NEW p \in Pollers, ClaimUpdate(p), claim[p].o = o
      PROVE  claim'[p].pc = "audit" /\ claim'[p].o = o
  BY <1>4 DEF ClaimUpdate, TypeOK, ClaimStates
<1>5. CASE o \in Served
  BY <1>1, <1>2, <1>3, <1>5 DEF LoggedInv
<1>6. CASE o \notin Served
  BY <1>4, <1>6, StatusMoves DEF Moves, Served, ServedStatuses
<1> QED
  BY <1>5, <1>6

\* As long as no process dies every claim ends up in the trail, however many claim requests
\* of a site overlap.
THEOREM ClaimsAreAudited == Spec => [](crashes = 0 => ServedIsAudited)
<1>1. Init => LoggedInv
  BY DEF Init, LoggedInv, Served, ServedStatuses
<1>2. LoggedInv => (crashes = 0 => ServedIsAudited)
  BY DEF LoggedInv, ServedIsAudited, Quiet
<1> QED
  BY <1>1, <1>2, LoggedStep, TypeCorrect, PTL DEF Spec

\* The switch of an order that has succeeded is armed, about to be, or has been fired.
WatchedInv ==
  crashes = 0 => \A o \in Orders :
    status[o] = "executed" /\ <<"executed_success", o>> \in audit =>
      \/ o \in armed \/ <<Arm, o>> \in todo
      \/ \E r \in Runners : /\ revert[r].pc \in {"check", "fired", "issue", "issued", "mark"}
                            /\ revert[r].o = o

\* A switch goes from the handler to the schedule and from there to a worker.
LEMMA SwitchMoves ==
  ASSUME ~Disarming, TypeOK, [Next]_vars, crashes' = 0, NEW o \in Orders
  PROVE  /\ <<Arm, o>> \in todo => <<Arm, o>> \in todo' \/ o \in armed'
         /\ o \in armed => o \in armed' \/ \E r \in Runners : FireStart(r, o)
<1>0. /\ \A t \in todo : ~CrashHandler(t)
      /\ \A r \in Runners : ~CrashRevert(r)
  BY CrashesCount
<1>1. ASSUME NEW q \in Orders, OrderStep(q)
      PROVE  armed \subseteq armed' /\ (<<Arm, o>> \in todo => <<Arm, o>> \in todo' \/ o \in armed')
  BY <1>1 DEF OrderStep, IssueWorkOrderWithPolicy, CaptureSnapshot, ApproveWorkOrder,
     DeclineWorkOrder, Lapse, ArmDeadMansSwitch, DisarmDeadMansSwitch
<1>2. ASSUME NEW t \in todo, WriteAudit(t)
      PROVE  armed' = armed /\ (<<Arm, o>> \in todo => <<Arm, o>> \in todo')
  BY <1>2 DEF WriteAudit
<1>3. ASSUME NEW r \in Runners, NEW q \in Orders, FireStart(r, q)
      PROVE  todo' = todo /\ (o \in armed => o \in armed' \/ q = o)
  BY <1>3 DEF FireStart
<1>4. ASSUME NEW r \in Runners,
             RevertStep(r) \/ \E q \in Orders : RestorePointRevert(r, q)
      PROVE  todo' = todo /\ armed' = armed
  BY <1>4 DEF RestorePointRevert, RevertStep, FireCheck, FireAudit, RevertIssue,
     RevertIssueAudit, RevertWithoutInverse, RevertMark, RevertAudit, RevertEscalate
<1>5. CASE SiteStep
  BY <1>5 DEF SiteStep, ClaimStep, ClaimUpdate, ClaimAudit, CrashClaim, ClaimSelect,
     ReportResult
<1>6. CASE ExpireStaleWorkOrders \/ UNCHANGED vars
  BY <1>6 DEF ExpireStaleWorkOrders, vars
<1> QED
  BY <1>0, <1>1, <1>2, <1>3, <1>4, <1>5, <1>6 DEF Next, InternalStep

LEMMA WatchedStep ==
  ~Disarming /\ TypeOK /\ OneClaim /\ OnePassInv /\ WatchedInv /\ [Next]_vars => WatchedInv'
<1> SUFFICES ASSUME ~Disarming, TypeOK, OneClaim, OnePassInv, WatchedInv, [Next]_vars,
                    crashes' = 0, NEW o \in Orders, status'[o] = "executed",
                    <<"executed_success", o>> \in audit'
    PROVE  \/ o \in armed' \/ <<Arm, o>> \in todo'
           \/ \E r \in Runners : /\ revert'[r].pc \in {"check", "fired", "issue", "issued", "mark"}
                                 /\ revert'[r].o = o
  BY DEF WatchedInv
<1>0. crashes = 0 /\ \A r \in Runners : ~CrashRevert(r)
  BY CrashesCount
<1>1. CASE <<"executed_success", o>> \notin audit
  BY <1>1, TrailGrows DEF WriteAudit, FollowUp
<1>2. CASE <<"executed_success", o>> \in audit
  <2>1. status[o] = "executed"
    BY <1>2, PassesOnce DEF OnePassInv
  <2>2. ASSUME NEW r \in Runners, FireStart(r, o)
        PROVE  revert'[r].pc = "check" /\ revert'[r].o = o
    BY <2>2 DEF FireStart, NewRevert, TypeOK
  <2>3. ASSUME NEW r \in Runners, revert[r].o = o,
               revert[r].pc \in {"check", "fired", "issue", "issued", "mark"}
        PROVE  /\ revert'[r].pc \in {"check", "fired", "issue", "issued", "mark"}
               /\ revert'[r].o = o
    <3>1. revert \in [Runners -> RevertStates] /\ status \in [Orders -> Statuses \cup {"none"}]
      BY DEF TypeOK
    <3>2. CASE FireCheck(r)
      BY <2>1, <2>3, <3>1, <3>2 DEF FireCheck, RevertStates
    <3>3. CASE FireAudit(r) \/ RevertIssueAudit(r) \/ RevertWithoutInverse(r)
               \/ \E c \in Orders : RevertIssue(r, c)
      BY <2>3, <3>1, <3>3
      DEF FireAudit, RevertIssueAudit, RevertWithoutInverse, RevertIssue, RevertStates
    <3>4. ~RevertMark(r)
      BY <2>1, <2>3, <3>1 DEF RevertMark, Markable
    <3> QED
      BY <1>0, <2>3, <3>2, <3>3, <3>4, RunnerMoves
      DEF RevertStep, FireStart, RestorePointRevert, RevertAudit, RevertEscalate
  <2>4. \/ o \in armed \/ <<Arm, o>> \in todo
        \/ \E r \in Runners : /\ revert[r].pc \in {"check", "fired", "issue", "issued", "mark"}
                              /\ revert[r].o = o
    BY <1>0, <1>2, <2>1 DEF WatchedInv
  <2> QED
    BY <2>2, <2>3, <2>4, SwitchMoves
<1> QED
  BY <1>1, <1>2

\* With one claim at a time, no switch disarmed and no process dead, every execution that
\* succeeded ends up with its switch armed and every claim in the trail.
THEOREM CompleteUnlessCrashed ==
  ASSUME OneClaim, ~Disarming
  PROVE  Spec => []CompleteWithoutCrash
<1>1. Init => LoggedInv /\ WatchedInv
  BY DEF Init, LoggedInv, WatchedInv, Served, ServedStatuses
<1>2. TypeOK /\ OnePassInv /\ LoggedInv /\ WatchedInv /\ [Next]_vars
        => OnePassInv' /\ LoggedInv' /\ WatchedInv'
  BY OnePassStep, LoggedStep, WatchedStep
<1>3. TypeOK /\ LoggedInv /\ WatchedInv => CompleteWithoutCrash
  <2> SUFFICES ASSUME LoggedInv, WatchedInv, crashes = 0, NEW o \in Orders, Quiet(o)
      PROVE  /\ o \in Served => <<"work_order_claimed", o>> \in audit
             /\ status[o] = "executed" /\ <<"executed_success", o>> \in audit => o \in armed
    BY DEF CompleteWithoutCrash, SuccessIsArmed, ServedIsAudited
  <2>1. /\ <<Arm, o>> \notin todo
        /\ \A p \in Pollers : claim[p].o # o
        /\ \A r \in Runners : revert[r].o # o
    BY DEF Quiet
  <2> QED
    BY <2>1 DEF LoggedInv, WatchedInv
<1> QED
  BY <1>1, <1>2, <1>3, InitOnePass, TypeCorrect, PTL DEF Spec
=============================================================================
