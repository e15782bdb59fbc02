----------------------- MODULE WorkOrderSystemProofs -----------------------
(***************************************************************************)
(* What is proved about the control plane and the plugin together, for     *)
(* every number of orders, requests, workers and crashes.                  *)
(***************************************************************************)
EXTENDS WorkOrderSystem, WorkOrdersProofs

-----------------------------------------------------------------------------
(***************************************************************************)
(* The system implements the control plane's specification.                *)
(***************************************************************************)

\* Every step of the system is a step of the control plane, or leaves it alone.
LEMMA SysNextIsNext ==
  ASSUME [SysNext]_sysVars
  PROVE  [Next]_vars
<1>1. CASE InternalStep
  BY <1>1 DEF Next
<1>2. ASSUME NEW w \in Pollers, NEW o \in Orders, SysClaimSelect(w, o) PROVE [Next]_vars
  BY <1>2 DEF SysClaimSelect, Next, SiteStep
<1>3. ASSUME NEW w \in Pollers,
             SysClaimUpdate(w) \/ SysAnswer(w) \/ SysCrashClaim(w)
      PROVE  [Next]_vars
  BY <1>3 DEF SysClaimUpdate, SysAnswer, SysCrashClaim, Next, SiteStep, ClaimStep
<1>4. ASSUME NEW w \in Pollers, SysPoll(w) \/ SysNoAnswer(w) PROVE [Next]_vars
  BY <1>4 DEF SysPoll, SysNoAnswer
<1>5. ASSUME NEW o \in Orders, NEW ok \in BOOLEAN, SysReport(o, ok) PROVE [Next]_vars
  BY <1>5 DEF SysReport, Next, SiteStep
<1>6. CASE UNCHANGED sysVars
  BY <1>6 DEF sysVars
<1> QED
  BY <1>1, <1>2, <1>3, <1>4, <1>5, <1>6 DEF SysNext

\* With this plugin attached the control plane still does only what WorkOrders
\* allows: every theorem about Spec is a theorem about the system.
THEOREM ImplementsControlPlane == SysSpec => Spec
<1>1. SysInit => Init
  BY DEF SysInit
<1> QED
  BY <1>1, SysNextIsNext, PTL DEF SysSpec, Spec

-----------------------------------------------------------------------------
(***************************************************************************)
(* Facts about the records of PHP requests.                                *)
(***************************************************************************)

InHand(x) == x.pc \notin {"idle", "claiming"}

\* A request that has an order, taken apart.
LEMMA HoldingFields ==
  ASSUME NEW x \in Plugin!RequestStates, InHand(x)
  PROVE  /\ x \in [pc : Plugin!RequestPCs \ {"idle", "claiming"}, o : Orders,
                   ran : BOOLEAN, ok : BOOLEAN, seen : 0 .. FailureThreshold - 1]
BY DEF Plugin!RequestStates, InHand

\* Moving such a request on changes nothing of it but its program counter.
LEMMA HoldingMoves ==
  ASSUME NEW x \in Plugin!RequestStates, InHand(x),
         NEW pc \in Plugin!RequestPCs \ {"idle", "claiming"}
  PROVE  LET y == [x EXCEPT !.pc = pc]
         IN  /\ y \in Plugin!RequestStates
             /\ y.pc = pc /\ y.o = x.o /\ y.ran = x.ran /\ y.ok = x.ok
BY HoldingFields DEF Plugin!RequestStates

\* The records that a request is set to are states.
LEMMA RequestValues ==
  /\ Plugin!Idle \in Plugin!RequestStates /\ ~InHand(Plugin!Idle)
  /\ [pc |-> "claiming"] \in Plugin!RequestStates
  /\ \A o \in Orders, pc \in Plugin!RequestPCs \ {"idle", "claiming"},
        ran \in BOOLEAN, ok \in BOOLEAN :
       LET x == Plugin!Holding(pc, o, ran, ok, 0)
       IN  /\ x \in Plugin!RequestStates
           /\ x.pc = pc /\ x.o = o /\ x.ran = ran /\ x.ok = ok
BY SystemAssumption DEF Plugin!RequestStates, Plugin!Idle, Plugin!Holding, InHand

-----------------------------------------------------------------------------
(***************************************************************************)
(* Type correctness.                                                       *)
(***************************************************************************)

\* A step that moves one request to another state and changes no option keeps the
\* types.
LEMMA RequestKept ==
  ASSUME SysTypeOK, NEW w \in Pollers, NEW x \in Plugin!RequestStates,
         request' = [request EXCEPT ![w] = x],
         UNCHANGED <<killSwitch, safeMode, failures, nonces, reports, effects, streak>>
  PROVE  Plugin!PluginTypeOK'
BY DEF SysTypeOK, Plugin!PluginTypeOK

LEMMA InitSysType == SysInit => SysTypeOK
<1>1. ASSUME SysInit PROVE Plugin!PluginTypeOK
  <2>1. request \in [Pollers -> Plugin!RequestStates]
    BY <1>1, RequestValues DEF SysInit, Plugin!PluginInit
  <2>2. failures \in 0 .. FailureThreshold - 1 /\ streak \in Nat
    BY <1>1, SystemAssumption DEF SysInit, Plugin!PluginInit
  <2>3. effects \in Seq([o : Orders, ok : BOOLEAN])
    BY <1>1 DEF SysInit, Plugin!PluginInit
  <2>4. killSwitch \in BOOLEAN /\ safeMode \in BOOLEAN
    BY <1>1 DEF SysInit, Plugin!PluginInit
  <2>5. nonces \subseteq Orders /\ reports \subseteq Orders \X BOOLEAN
    BY <1>1 DEF SysInit, Plugin!PluginInit
  <2> QED
    BY <2>1, <2>2, <2>3, <2>4, <2>5 DEF Plugin!PluginTypeOK
<1> QED
  BY <1>1, InitType DEF SysInit, SysTypeOK

LEMMA LocalType ==
  ASSUME SysTypeOK, NEW w \in Pollers, Plugin!LocalStep(w)
  PROVE  Plugin!PluginTypeOK'
<1> USE DEF Plugin!optionVars
<1> DEFINE x == request[w]
<1>1. x \in Plugin!RequestStates
  BY DEF SysTypeOK, Plugin!PluginTypeOK
<1>2. InHand(x)
  BY DEF Plugin!LocalStep, Plugin!CheckWindow, Plugin!CheckNonce, Plugin!StoreNonce,
     Plugin!Execute, Plugin!RecordSuccess, Plugin!ReadFailures, Plugin!RecordFailure,
     Plugin!Report, Plugin!Die, InHand
<1>3. x \in [pc : Plugin!RequestPCs \ {"idle", "claiming"}, o : Orders, ran : BOOLEAN,
              ok : BOOLEAN, seen : 0 .. FailureThreshold - 1]
  BY <1>1, <1>2, HoldingFields
<1>4. ASSUME NEW pc \in Plugin!RequestPCs \ {"idle", "claiming"}
      PROVE  [x EXCEPT !.pc = pc] \in Plugin!RequestStates
  BY <1>1, <1>2, HoldingMoves
<1>5. {"window", "nonce", "store", "execute", "succeeded", "failing", "failed", "report"}
        \subseteq Plugin!RequestPCs \ {"idle", "claiming"}
  BY DEF Plugin!RequestPCs
<1>6. CASE Plugin!CheckWindow(w)
  <2>1. PICK pc \in {"failing", "nonce"} : request' = [request EXCEPT ![w].pc = pc]
    BY <1>6 DEF Plugin!CheckWindow, Plugin!Proceed
  <2> QED
    BY <1>4, <1>5, <1>6, <2>1, RequestKept DEF Plugin!CheckWindow, Plugin!Proceed
<1>7. CASE Plugin!CheckNonce(w)
  <2>1. PICK pc \in {"failing", "store"} : request' = [request EXCEPT ![w].pc = pc]
    BY <1>7 DEF Plugin!CheckNonce, Plugin!Proceed
  <2> QED
    BY <1>4, <1>5, <1>7, <2>1, RequestKept DEF Plugin!CheckNonce, Plugin!Proceed
<1>8. CASE Plugin!StoreNonce(w)
  <2>1. PICK pc \in {"failing", "execute"} : request' = [request EXCEPT ![w].pc = pc]
    BY <1>8 DEF Plugin!StoreNonce
  <2>2. request' \in [Pollers -> Plugin!RequestStates]
    BY <1>4, <1>5, <2>1 DEF SysTypeOK, Plugin!PluginTypeOK
  <2>3. nonces' \subseteq Orders
    BY <1>3, <1>8 DEF Plugin!StoreNonce, SysTypeOK, Plugin!PluginTypeOK
  <2> QED
    BY <1>8, <2>2, <2>3 DEF Plugin!StoreNonce, SysTypeOK, Plugin!PluginTypeOK
<1>9. ASSUME NEW ok \in BOOLEAN, Plugin!Execute(w, ok) PROVE Plugin!PluginTypeOK'
  <2>1. PICK y \in Plugin!RequestStates : request' = [request EXCEPT ![w] = y]
    BY <1>3, <1>5, <1>9, RequestValues DEF Plugin!Execute
  <2>2. request' \in [Pollers -> Plugin!RequestStates]
    BY <2>1 DEF SysTypeOK, Plugin!PluginTypeOK
  <2>3. effects' \in Seq([o : Orders, ok : BOOLEAN])
    BY <1>3, <1>9 DEF Plugin!Execute, SysTypeOK, Plugin!PluginTypeOK
  <2>4. nonces' \subseteq Orders
    BY <1>9 DEF Plugin!Execute, SysTypeOK, Plugin!PluginTypeOK
  <2> QED
    BY <1>9, <2>2, <2>3, <2>4 DEF Plugin!Execute, SysTypeOK, Plugin!PluginTypeOK
<1>10. CASE Plugin!RecordSuccess(w)
  <2>1. request' \in [Pollers -> Plugin!RequestStates]
    BY <1>4, <1>5, <1>10 DEF Plugin!RecordSuccess, SysTypeOK, Plugin!PluginTypeOK
  <2> QED
    BY <1>10, <2>1, SystemAssumption
       DEF Plugin!RecordSuccess, SysTypeOK, Plugin!PluginTypeOK
<1>11. CASE Plugin!ReadFailures(w)
  <2>1. [x EXCEPT !.pc = "failed", !.seen = failures] \in Plugin!RequestStates
    BY <1>3, <1>5 DEF SysTypeOK, Plugin!PluginTypeOK, Plugin!RequestStates
  <2>2. request' = [request EXCEPT ![w] = [x EXCEPT !.pc = "failed", !.seen = failures]]
    BY <1>11 DEF Plugin!ReadFailures
  <2> QED
    BY <1>11, <2>1, <2>2, RequestKept DEF Plugin!ReadFailures
<1>12. CASE Plugin!RecordFailure(w)
  <2>1. request' \in [Pollers -> Plugin!RequestStates]
    BY <1>4, <1>5, <1>12, RequestValues
       DEF Plugin!RecordFailure, SysTypeOK, Plugin!PluginTypeOK
  <2>2. failures' \in 0 .. FailureThreshold - 1
    BY <1>3, <1>12, SystemAssumption DEF Plugin!RecordFailure, Plugin!Tripped
  <2>3. safeMode' \in BOOLEAN
    BY <1>12 DEF Plugin!RecordFailure
  <2>4. streak' \in Nat
    BY <1>12 DEF Plugin!RecordFailure, SysTypeOK, Plugin!PluginTypeOK
  <2> QED
    BY <1>12, <2>1, <2>2, <2>3, <2>4
       DEF Plugin!RecordFailure, SysTypeOK, Plugin!PluginTypeOK
<1>13. CASE Plugin!Report(w)
  <2>1. request' \in [Pollers -> Plugin!RequestStates]
    BY <1>13, RequestValues DEF Plugin!Report, SysTypeOK, Plugin!PluginTypeOK
  <2>2. reports' \subseteq Orders \X BOOLEAN
    BY <1>3, <1>13 DEF Plugin!Report, Plugin!OutcomeOf, SysTypeOK, Plugin!PluginTypeOK
  <2> QED
    BY <1>13, <2>1, <2>2 DEF Plugin!Report, SysTypeOK, Plugin!PluginTypeOK
<1>14. CASE Plugin!Die(w)
  BY <1>14, RequestValues, RequestKept DEF Plugin!Die
<1> QED
  BY <1>6, <1>7, <1>8, <1>9, <1>10, <1>11, <1>12, <1>13, <1>14 DEF Plugin!LocalStep

LEMMA NextSysType ==
  ASSUME SysTypeOK, [SysNext]_sysVars
  PROVE  SysTypeOK'
<1> USE DEF Plugin!optionVars
<1>1. TypeOK'
  BY SysNextIsNext, NextType DEF SysTypeOK
<1>2. ASSUME UNCHANGED siteVars PROVE Plugin!PluginTypeOK'
  BY <1>2 DEF siteVars, SysTypeOK, Plugin!PluginTypeOK
<1>3. ASSUME NEW w \in Pollers, Plugin!Poll(w) \/ Plugin!NoAnswer(w)
      PROVE  Plugin!PluginTypeOK'
  BY <1>3, RequestValues, RequestKept DEF Plugin!Poll, Plugin!NoAnswer
<1>4. ASSUME NEW w \in Pollers, SysAnswer(w) PROVE Plugin!PluginTypeOK'
  <2>1. claim[w].o \in Orders
    BY <1>4 DEF SysAnswer, ClaimAudit, SysTypeOK, TypeOK
  <2>2. Plugin!Holding("window", claim[w].o, FALSE, FALSE, 0) \in Plugin!RequestStates
    BY <2>1, RequestValues DEF Plugin!RequestPCs
  <2>3. CASE Plugin!Receive(w, claim[w].o)
    BY <2>2, <2>3, RequestKept DEF Plugin!Receive
  <2> QED
    BY <1>2, <1>4, <2>3 DEF SysAnswer
<1>5. ASSUME Plugin!SetKillSwitch PROVE Plugin!PluginTypeOK'
  <2>1. killSwitch' \in BOOLEAN
    BY <1>5 DEF Plugin!SetKillSwitch
  <2> QED
    BY <1>5, <2>1 DEF Plugin!SetKillSwitch, SysTypeOK, Plugin!PluginTypeOK
<1>6. ASSUME NEW o \in Orders, NEW ok \in BOOLEAN, SysReport(o, ok)
      PROVE  Plugin!PluginTypeOK'
  BY <1>6 DEF SysReport, Plugin!Deliver, SysTypeOK, Plugin!PluginTypeOK
<1>7. ASSUME UNCHANGED sysVars PROVE Plugin!PluginTypeOK'
  BY <1>2, <1>7 DEF sysVars, siteVars
<1> QED
  BY <1>1, <1>2, <1>3, <1>4, <1>5, <1>6, <1>7, LocalType
     DEF SysNext, SysPoll, SysNoAnswer, SysClaimSelect, SysClaimUpdate, SysCrashClaim,
         SysTypeOK

\* Every variable of the system keeps its type: the failure count never reaches
\* its threshold and no request holds an order that does not exist.
THEOREM SystemTypeCorrect == SysSpec => []SysTypeOK
BY InitSysType, NextSysType, PTL DEF SysSpec

-----------------------------------------------------------------------------
(***************************************************************************)
(* What a site has in hand.                                                *)
(***************************************************************************)

\* An order that has been served stays served and keeps its action.
LEMMA ServedStays ==
  ASSUME TypeOK, GateInv, [Next]_vars, NEW q \in Served
  PROVE  q \in Served' /\ action'[q] = action[q]
<1> USE DEF Served, ServedStatuses
<1>1. q \in Orders /\ status[q] \in ServedStatuses
  OBVIOUS
<1>2. ASSUME NEW o \in Orders, NEW a, NEW s, NEW who, NEW cause,
             InsertRow(o, a, s, who, cause)
      PROVE  q \in Served' /\ action'[q] = action[q]
  BY <1>1, <1>2 DEF InsertRow, IsNext, Exists, TypeOK
<1>3. ASSUME UNCHANGED <<status, action>>
      PROVE  q \in Served' /\ action'[q] = action[q]
  BY <1>1, <1>3
<1>4. ASSUME NEW o \in Orders, OrderStep(o)
      PROVE  q \in Served' /\ action'[q] = action[q]
  <2>1. ASSUME NEW a \in Actions, NEW tier \in Tiers, IssueWorkOrderWithPolicy(o, a, tier)
        PROVE  q \in Served' /\ action'[q] = action[q]
    BY <1>2, <2>1 DEF IssueWorkOrderWithPolicy
  <2>2. CASE ApproveWorkOrder(o) \/ DeclineWorkOrder(o)
    BY <1>1, <2>2 DEF ApproveWorkOrder, DeclineWorkOrder, Approvable, rowVars, TypeOK
  <2>3. CASE \/ CaptureSnapshot(o) \/ Lapse(o)
             \/ ArmDeadMansSwitch(o) \/ DisarmDeadMansSwitch(o)
    BY <1>3, <2>3 DEF CaptureSnapshot, Lapse, ArmDeadMansSwitch, DisarmDeadMansSwitch, rowVars
  <2> QED
    BY <1>4, <2>1, <2>2, <2>3 DEF OrderStep
<1>5. CASE ExpireStaleWorkOrders
  BY <1>1, <1>5 DEF ExpireStaleWorkOrders, Stale, rowVars
<1>6. ASSUME NEW r \in Runners, RevertStep(r)
      PROVE  q \in Served' /\ action'[q] = action[q]
  <2>1. ASSUME NEW c \in Orders, RevertIssue(r, c)
        PROVE  q \in Served' /\ action'[q] = action[q]
    BY <1>2, <2>1 DEF RevertIssue
  <2>2. CASE RevertMark(r)
    BY <1>1, <2>2 DEF RevertMark, rowVars, TypeOK
  <2>3. CASE \/ FireCheck(r) \/ FireAudit(r) \/ RevertIssueAudit(r)
             \/ RevertWithoutInverse(r) \/ RevertAudit(r) \/ RevertEscalate(r)
    BY <1>3, <2>3 DEF FireCheck, FireAudit, RevertIssueAudit, RevertWithoutInverse,
       RevertAudit, RevertEscalate, rowVars
  <2> QED
    BY <1>6, <2>1, <2>2, <2>3 DEF RevertStep
<1>7. ASSUME NEW p \in Pollers, ClaimUpdate(p)
      PROVE  q \in Served' /\ action'[q] = action[q]
  BY <1>1, <1>7 DEF ClaimUpdate, rowVars, TypeOK
<1>8. ASSUME NEW o \in Orders, NEW success \in BOOLEAN, ReportResult(o, success)
      PROVE  q \in Served' /\ action'[q] = action[q]
  BY <1>1, <1>8 DEF ReportResult, rowVars, TypeOK
<1>9. ASSUME NEW t \in todo, WriteAudit(t) \/ CrashHandler(t)
      PROVE  UNCHANGED <<status, action>>
  BY <1>9 DEF WriteAudit, CrashHandler, rowVars
<1>10. ASSUME NEW r \in Runners, NEW o \in Orders, FireStart(r, o) \/ RestorePointRevert(r, o)
       PROVE  UNCHANGED <<status, action>>
  BY <1>10 DEF FireStart, RestorePointRevert, rowVars
<1>11. ASSUME NEW r \in Runners, CrashRevert(r) PROVE UNCHANGED <<status, action>>
  BY <1>11 DEF CrashRevert, rowVars
<1>12. ASSUME NEW p \in Pollers, NEW o \in Orders, ClaimSelect(p, o)
       PROVE  UNCHANGED <<status, action>>
  BY <1>12 DEF ClaimSelect, rowVars
<1>13. ASSUME NEW p \in Pollers, ClaimAudit(p) \/ CrashClaim(p)
       PROVE  UNCHANGED <<status, action>>
  BY <1>13 DEF ClaimAudit, CrashClaim, rowVars
<1>14. CASE UNCHANGED vars
  BY <1>3, <1>14 DEF vars
<1> QED
  BY <1>3, <1>4, <1>5, <1>6, <1>7, <1>8, <1>9, <1>10, <1>11, <1>12, <1>13, <1>14
     DEF Next, InternalStep, SiteStep, ClaimStep

-----------------------------------------------------------------------------
(***************************************************************************)
(* Nothing unapproved is executed, and the record is truthful.             *)
(***************************************************************************)

\* What one request must satisfy.
RequestInv(w) ==
  InHand(request[w]) =>
    /\ request[w].o \in Served
    /\ request[w].pc = "execute" => action[request[w].o] \in Plugin!ActionWhitelist
    /\ request[w].ok => Succeeded(request[w].o)

LEMMA SiteInvParts ==
  SiteInv <=>
    /\ \A w \in Pollers : RequestInv(w)
    /\ \A i \in DOMAIN effects :
         effects[i].o \in Served /\ action[effects[i].o] \in Plugin!ActionWhitelist
    /\ \A o \in Orders :
         <<o, TRUE>> \in reports \/ <<"executed_success", o>> \in audit \cup todo
           => Succeeded(o)
BY DEF SiteInv, RequestInv, InHand

\* A step that executes nothing keeps the invariant if it keeps it for the request
\* it moves and puts no success on its way that has not happened.
LEMMA SiteKept ==
  ASSUME SysTypeOK, SiteInv, UNCHANGED effects,
         \A q \in Served : q \in Served' /\ action'[q] = action[q],
         \A v \in Pollers : request'[v] = request[v] \/ RequestInv(v)',
         \A q \in Orders :
           <<q, TRUE>> \in reports' \/ <<"executed_success", q>> \in audit' \cup todo'
             => Succeeded(q)
  PROVE  SiteInv'
<1> USE DEF RequestInv, InHand
<1>1. \A q \in Orders : Succeeded(q) <=> Succeeded(q)'
  BY DEF Succeeded
<1>2. ASSUME NEW v \in Pollers PROVE RequestInv(v)'
  <2>1. CASE request'[v] = request[v] /\ InHand(request[v])
    <3>1. RequestInv(v)
      BY SiteInvParts
    <3>2. request[v].o \in Served /\ request[v].o \in Orders
      BY <2>1, <3>1 DEF RequestInv, Served
    <3> QED
      BY <1>1, <2>1, <3>1, <3>2 DEF RequestInv
  <2> QED
    BY <2>1 DEF RequestInv, InHand
<1>3. \A i \in DOMAIN effects' :
        effects'[i].o \in Served' /\ action'[effects'[i].o] \in Plugin!ActionWhitelist
  BY SiteInvParts
<1> QED
  BY <1>1, <1>2, <1>3 DEF SiteInv, RequestInv, InHand

\* Executing an order that passed the checks.
LEMMA ExecuteSite ==
  ASSUME SysTypeOK, SiteInv, NEW w \in Pollers, NEW ok \in BOOLEAN,
         Plugin!Execute(w, ok), UNCHANGED vars
  PROVE  SiteInv'
<1>1. request[w].pc = "execute" /\ InHand(request[w]) /\ UNCHANGED reports
  BY DEF Plugin!Execute, InHand
<1>2. PICK o \in Orders : /\ o = request[w].o /\ o \in Served
                          /\ action[o] \in Plugin!ActionWhitelist
  <2>1. /\ request[w].o \in Served /\ request[w].o \in Orders
        /\ action[request[w].o] \in Plugin!ActionWhitelist
    BY <1>1, SiteInvParts DEF RequestInv, Served
  <2> QED
    BY <2>1
<1> DEFINE e == [o |-> o, ok |-> ok]
<1>3. effects \in Seq([o : Orders, ok : BOOLEAN]) /\ e \in [o : Orders, ok : BOOLEAN]
  BY <1>2 DEF SysTypeOK, Plugin!PluginTypeOK
<1>4. /\ DOMAIN effects' = 1 .. Len(effects) + 1
      /\ DOMAIN effects = 1 .. Len(effects)
      /\ \A i \in DOMAIN effects : effects'[i] = effects[i]
      /\ effects'[Len(effects) + 1] = e
  <2>1. effects' = Append(effects, e)
    BY <1>2 DEF Plugin!Execute
  <2> QED
    BY <1>3, <2>1
<1>5. UNCHANGED <<status, action, audit, todo>>
  BY DEF vars
<1>6. Served' = Served
  BY <1>5 DEF Served
<1>7. \A q \in Orders : Succeeded(q) => Succeeded(q)'
  <2>1. DOMAIN effects \subseteq DOMAIN effects'
    BY <1>3, <1>4
  <2> QED
    BY <1>4, <2>1 DEF Succeeded
<1>8. ASSUME ok = TRUE PROVE Succeeded(o)'
  <2>1. Len(effects) + 1 \in DOMAIN effects'
    BY <1>3, <1>4
  <2>2. e = [o |-> o, ok |-> TRUE]
    BY <1>8
  <2> QED
    BY <1>4, <2>1, <2>2 DEF Succeeded
<1>9. ASSUME NEW v \in Pollers PROVE RequestInv(v)'
  <2>1. CASE v = w
    <3> DEFINE pc == IF ok THEN "succeeded" ELSE "failing"
    <3>1. request'[w] = Plugin!Holding(pc, o, TRUE, ok, 0)
      <4>1. request \in [Pollers -> Plugin!RequestStates]
        BY DEF SysTypeOK, Plugin!PluginTypeOK
      <4> QED
        BY <1>2, <4>1 DEF Plugin!Execute
    <3>2. pc \in Plugin!RequestPCs \ {"idle", "claiming"} /\ pc # "execute"
      BY DEF Plugin!RequestPCs
    <3> HIDE DEF pc
    <3>3. request'[w].o = o /\ request'[w].ok = ok /\ request'[w].pc # "execute"
      BY <3>1, <3>2 DEF Plugin!Holding
    <3> QED
      BY <1>2, <1>6, <1>8, <2>1, <3>3 DEF RequestInv
  <2>2. CASE v # w
    <3>1. request'[v] = request[v]
      BY <2>2 DEF Plugin!Execute, SysTypeOK, Plugin!PluginTypeOK
    <3>2. RequestInv(v)
      BY SiteInvParts
    <3> QED
      BY <1>5, <1>6, <1>7, <3>1, <3>2 DEF RequestInv, InHand, Served
  <2> QED
    BY <2>1, <2>2
<1>10. \A i \in DOMAIN effects' :
         effects'[i].o \in Served' /\ action'[effects'[i].o] \in Plugin!ActionWhitelist
  <2>1. \A i \in DOMAIN effects :
          effects[i].o \in Served /\ action[effects[i].o] \in Plugin!ActionWhitelist
    BY SiteInvParts
  <2>2. \A i \in DOMAIN effects' : i \in DOMAIN effects \/ i = Len(effects) + 1
    BY <1>3, <1>4
  <2> QED
    BY <1>2, <1>4, <1>5, <1>6, <2>1, <2>2
<1>11. \A q \in Orders :
         <<q, TRUE>> \in reports' \/ <<"executed_success", q>> \in audit' \cup todo'
           => Succeeded(q)'
  BY <1>1, <1>5, <1>7, SiteInvParts
<1> QED
  BY <1>9, <1>10, <1>11 DEF SiteInv, RequestInv, InHand

\* A step inside a PHP request.
LEMMA LocalSite ==
  ASSUME SysTypeOK, SiteInv, NEW w \in Pollers, Plugin!LocalStep(w), UNCHANGED vars
  PROVE  SiteInv'
<1> USE DEF Plugin!optionVars
<1>1. UNCHANGED <<status, action, audit, todo>>
  BY DEF vars
<1>2. \A q \in Served : q \in Served' /\ action'[q] = action[q]
  BY <1>1 DEF Served
<1>3. \A q \in Orders :
        <<q, TRUE>> \in reports \/ <<"executed_success", q>> \in audit' \cup todo'
          => Succeeded(q)
  BY <1>1, SiteInvParts
<1>4. request \in [Pollers -> Plugin!RequestStates] /\ request[w] \in Plugin!RequestStates
  BY DEF SysTypeOK, Plugin!PluginTypeOK
<1>5. ASSUME InHand(request[w]),
             NEW pc \in Plugin!RequestPCs \ {"idle", "claiming"},
             request' = [request EXCEPT ![w].pc = pc],
             pc = "execute" => action[request[w].o] \in Plugin!ActionWhitelist,
             UNCHANGED <<effects, reports>>
      PROVE  SiteInv'
  <2>1. /\ request'[w].pc = pc /\ request'[w].o = request[w].o
        /\ request'[w].ok = request[w].ok
    BY <1>4, <1>5, HoldingMoves
  <2>2. PICK o \in Served : o = request[w].o
    BY <1>5, SiteInvParts DEF RequestInv
  <2>3. Succeeded(o)' <=> Succeeded(o)
    BY <1>5 DEF Succeeded
  <2>4. RequestInv(w)
    BY SiteInvParts
  <2>5. request'[w].ok => Succeeded(o)'
    BY <1>5, <2>1, <2>2, <2>3, <2>4 DEF RequestInv
  <2>6. RequestInv(w)'
    BY <1>1, <1>2, <1>5, <2>1, <2>2, <2>5 DEF RequestInv
  <2>7. \A v \in Pollers : request'[v] = request[v] \/ RequestInv(v)'
    BY <1>4, <1>5, <2>6
  <2> QED
    BY <1>2, <1>3, <1>5, <2>7, SiteKept
<1>6. ASSUME NEW v \in Pollers, request'[v] = Plugin!Idle PROVE RequestInv(v)'
  BY <1>6, RequestValues DEF RequestInv
<1>7. {"nonce", "store", "execute", "failing", "report"}
        \subseteq Plugin!RequestPCs \ {"idle", "claiming"}
  BY DEF Plugin!RequestPCs
<1>8. CASE Plugin!CheckWindow(w) \/ Plugin!CheckNonce(w)
  BY <1>5, <1>7, <1>8 DEF Plugin!CheckWindow, Plugin!CheckNonce, Plugin!Proceed, InHand
<1>9. CASE Plugin!StoreNonce(w)
  BY <1>5, <1>7, <1>9 DEF Plugin!StoreNonce, InHand
<1>10. CASE Plugin!RecordSuccess(w)
  BY <1>5, <1>7, <1>10 DEF Plugin!RecordSuccess, InHand
<1>11. CASE Plugin!ReadFailures(w)
  <2>1. InHand(request[w]) /\ request[w].pc = "failing"
    BY <1>11 DEF Plugin!ReadFailures, InHand
  <2>2. /\ request'[w].pc = "failed" /\ request'[w].o = request[w].o
        /\ request'[w].ok = request[w].ok
    BY <1>4, <1>11, <2>1, HoldingFields DEF Plugin!ReadFailures
  <2>3. PICK o \in Served : o = request[w].o
    BY <2>1, SiteInvParts DEF RequestInv
  <2>4. Succeeded(o)' <=> Succeeded(o)
    BY <1>11 DEF Succeeded, Plugin!ReadFailures
  <2>5. RequestInv(w)
    BY SiteInvParts
  <2>6. RequestInv(w)'
    BY <1>2, <2>1, <2>2, <2>3, <2>4, <2>5 DEF RequestInv
  <2>7. \A v \in Pollers : request'[v] = request[v] \/ RequestInv(v)'
    BY <1>4, <1>11, <2>6 DEF Plugin!ReadFailures
  <2> QED
    BY <1>2, <1>3, <1>11, <2>7, SiteKept DEF Plugin!ReadFailures
<1>12. CASE Plugin!RecordFailure(w)
  <2>1. CASE request[w].ran
    BY <1>5, <1>7, <1>12, <2>1 DEF Plugin!RecordFailure, InHand
  <2>2. CASE ~request[w].ran
    <3>1. \A v \in Pollers : request'[v] = request[v] \/ RequestInv(v)'
      BY <1>4, <1>6, <1>12, <2>2 DEF Plugin!RecordFailure
    <3> QED
      BY <1>2, <1>3, <1>12, <3>1, SiteKept DEF Plugin!RecordFailure
  <2> QED
    BY <2>1, <2>2
<1>13. CASE Plugin!Report(w)
  <2>1. InHand(request[w])
    BY <1>13 DEF Plugin!Report, InHand
  <2>2. RequestInv(w)
    BY SiteInvParts
  <2>3. \A q \in Orders : <<q, TRUE>> \in reports' => Succeeded(q)
    BY <1>3, <1>13, <2>1, <2>2 DEF Plugin!Report, Plugin!OutcomeOf, RequestInv
  <2>4. \A v \in Pollers : request'[v] = request[v] \/ RequestInv(v)'
    BY <1>4, <1>6, <1>13 DEF Plugin!Report
  <2> QED
    BY <1>2, <1>3, <1>13, <2>3, <2>4, SiteKept DEF Plugin!Report
<1>14. CASE Plugin!Die(w)
  <2>1. \A v \in Pollers : request'[v] = request[v] \/ RequestInv(v)'
    BY <1>4, <1>6, <1>14 DEF Plugin!Die
  <2> QED
    BY <1>2, <1>3, <1>14, <2>1, SiteKept DEF Plugin!Die
<1> QED
  BY <1>8, <1>9, <1>10, <1>11, <1>12, <1>13, <1>14, ExecuteSite DEF Plugin!LocalStep

LEMMA InitSite == SysInit => SiteInv
BY DEF SysInit, Init, Plugin!PluginInit, Plugin!Idle, SiteInv

LEMMA NextSite ==
  ASSUME SysTypeOK, GateInv, SiteInv, [SysNext]_sysVars
  PROVE  SiteInv'
<1> USE DEF Plugin!optionVars
<1>1. TypeOK
  BY DEF SysTypeOK
<1>2. \A q \in Served : q \in Served' /\ action'[q] = action[q]
  BY <1>1, SysNextIsNext, ServedStays
<1>3. request \in [Pollers -> Plugin!RequestStates]
  BY DEF SysTypeOK, Plugin!PluginTypeOK
<1>4. ASSUME \/ InternalStep
             \/ \E p \in Pollers :
                  ClaimStep(p) \/ CrashClaim(p) \/ \E o \in Orders : ClaimSelect(p, o)
             \/ UNCHANGED vars,
             UNCHANGED <<effects, reports>>,
             \A v \in Pollers : request'[v] = request[v] \/ RequestInv(v)'
      PROVE  SiteInv'
  <2>1. \A q \in Orders :
          <<q, TRUE>> \in reports' \/ <<"executed_success", q>> \in audit' \cup todo'
            => Succeeded(q)
    <3>1. ASSUME NEW q \in Orders, <<"executed_success", q>> \in audit' \cup todo'
          PROVE  <<"executed_success", q>> \in audit \cup todo
      BY <1>1, <1>4, <3>1, NoNewSuccess
    <3>2. \A q \in Orders :
            <<q, TRUE>> \in reports \/ <<"executed_success", q>> \in audit \cup todo
              => Succeeded(q)
      BY SiteInvParts
    <3>3. reports' = reports
      BY <1>4
    <3> QED
      BY <3>1, <3>2, <3>3
  <2> QED
    BY <1>2, <1>4, <2>1, SiteKept
<1>5. ASSUME InternalStep \/ UNCHANGED vars, UNCHANGED siteVars PROVE SiteInv'
  BY <1>4, <1>5 DEF siteVars
<1>6. CASE Plugin!SetKillSwitch /\ UNCHANGED vars
  BY <1>4, <1>6 DEF Plugin!SetKillSwitch
<1>7. ASSUME NEW w \in Pollers, Plugin!Poll(w) \/ Plugin!NoAnswer(w)
      PROVE  /\ UNCHANGED <<effects, reports>>
             /\ \A v \in Pollers : request'[v] = request[v] \/ RequestInv(v)'
  <2>1. request'[w].pc \in {"idle", "claiming"}
    BY <1>3, <1>7 DEF Plugin!Poll, Plugin!NoAnswer, Plugin!Idle
  <2>2. RequestInv(w)'
    BY <2>1 DEF RequestInv, InHand
  <2> QED
    BY <1>3, <1>7, <2>2 DEF Plugin!Poll, Plugin!NoAnswer
<1>8. ASSUME NEW w \in Pollers, SysPoll(w) \/ SysNoAnswer(w) PROVE SiteInv'
  BY <1>4, <1>7, <1>8 DEF SysPoll, SysNoAnswer
<1>9. ASSUME NEW w \in Pollers, NEW o \in Orders, SysClaimSelect(w, o) PROVE SiteInv'
  BY <1>4, <1>9 DEF SysClaimSelect, siteVars
<1>10. ASSUME NEW w \in Pollers, SysClaimUpdate(w) PROVE SiteInv'
  BY <1>4, <1>10 DEF SysClaimUpdate, siteVars, ClaimStep
<1>11. ASSUME NEW w \in Pollers, SysCrashClaim(w) PROVE SiteInv'
  BY <1>4, <1>7, <1>11 DEF SysCrashClaim, siteVars
<1>12. ASSUME NEW w \in Pollers, SysAnswer(w) PROVE SiteInv'
  <2>1. ClaimStep(w) /\ claim[w].pc = "audit"
    BY <1>12 DEF SysAnswer, ClaimStep, ClaimAudit
  <2>2. PICK o \in Served : o = claim[w].o
    BY <2>1 DEF GateInv
  <2>3. CASE Plugin!Receive(w, claim[w].o)
    <3>1. request'[w] = Plugin!Holding("window", o, FALSE, FALSE, 0)
      BY <1>3, <2>2, <2>3 DEF Plugin!Receive
    <3>2. RequestInv(w)'
      BY <1>2, <3>1 DEF RequestInv, Plugin!Holding
    <3>3. \A v \in Pollers : request'[v] = request[v] \/ RequestInv(v)'
      BY <1>3, <2>3, <3>2 DEF Plugin!Receive
    <3> QED
      BY <1>4, <2>1, <2>3, <3>3 DEF Plugin!Receive
  <2>4. CASE UNCHANGED siteVars
    BY <1>4, <2>1, <2>4 DEF siteVars
  <2> QED
    BY <1>12, <2>3, <2>4 DEF SysAnswer
<1>13. ASSUME NEW o \in Orders, NEW ok \in BOOLEAN, SysReport(o, ok) PROVE SiteInv'
  <2>1. /\ UNCHANGED <<effects, request>>
        /\ <<o, ok>> \in reports /\ reports' \subseteq reports
    BY <1>13 DEF SysReport, Plugin!Deliver
  <2>2. ASSUME NEW q \in Orders, <<"executed_success", q>> \in audit' \cup todo'
        PROVE  <<"executed_success", q>> \in audit \cup todo \/ <<q, TRUE>> \in reports
    <3>1. CASE ReportResult(o, ok)
      <4>1. audit' = audit
        BY <3>1 DEF ReportResult
      <4>2. CASE ok = TRUE
        BY <2>1, <2>2, <3>1, <4>1, <4>2 DEF ReportResult
      <4>3. CASE ok = FALSE
        BY <2>2, <3>1, <4>1, <4>3 DEF ReportResult
      <4> QED
        BY <4>2, <4>3
    <3>2. CASE UNCHANGED vars
      BY <2>2, <3>2 DEF vars
    <3> QED
      BY <1>13, <3>1, <3>2 DEF SysReport
  <2>3. \A q \in Orders :
          <<q, TRUE>> \in reports' \/ <<"executed_success", q>> \in audit' \cup todo'
            => Succeeded(q)
    BY <2>1, <2>2, SiteInvParts
  <2>4. UNCHANGED effects /\ \A v \in Pollers : request'[v] = request[v]
    BY <2>1
  <2> QED
    BY <1>2, <2>3, <2>4, SiteKept
<1>14. ASSUME NEW w \in Pollers, Plugin!LocalStep(w) /\ UNCHANGED vars PROVE SiteInv'
  BY <1>14, LocalSite
<1>15. CASE UNCHANGED sysVars
  BY <1>5, <1>15 DEF sysVars
<1> QED
  BY <1>5, <1>6, <1>8, <1>9, <1>10, <1>11, <1>12, <1>13, <1>14, <1>15 DEF SysNext

\* What a PHP request has in hand, what a site has executed and what is on record
\* about it agree, whatever overlaps, times out or dies.
THEOREM SiteInvariant == SysSpec => [](SysTypeOK /\ SiteInv)
<1>1. SysSpec => []GateInv
  BY ImplementsControlPlane, GateInvariant, PTL
<1> QED
  BY <1>1, InitSysType, NextSysType, InitSite, NextSite, PTL DEF SysSpec

\* No site ever executes an order that the policy, a human or the system, to undo
\* another order, has not let pass, or an action off the plugin's whitelist.
THEOREM NothingUnapprovedIsExecuted == SysSpec => []ExecutedWasGranted
<1>1. NothingUnapprovedIsServed /\ SiteInv => ExecutedWasGranted
  BY DEF NothingUnapprovedIsServed, SiteInv, ExecutedWasGranted, Executed, Served
<1>2. SysSpec => []NothingUnapprovedIsServed
  BY ImplementsControlPlane, NothingUnapproved, PTL
<1> QED
  BY <1>1, <1>2, SiteInvariant, PTL

\* No switch is armed, and no success is on record, for an order that did not
\* succeed on the site.
THEOREM RecordTruthful == SysSpec => []RecordIsTruthful
<1>1. ArmedOnlyAfterSuccess /\ SiteInv => RecordIsTruthful
  BY DEF ArmedOnlyAfterSuccess, SiteInv, RecordIsTruthful
<1>2. SysSpec => []ArmedOnlyAfterSuccess
  BY ImplementsControlPlane, ArmedAfterSuccess, PTL
<1> QED
  BY <1>1, <1>2, SiteInvariant, PTL

-----------------------------------------------------------------------------
(***************************************************************************)
(* One PHP request at a time.  With two of them an order may be executed   *)
(* twice (ExecutedAtMostOnce is violated) and failures be counted as one.  *)
(***************************************************************************)

\* What the steps other than a PHP request's own do to what the site keeps.
LEMMA SystemMoves ==
  ASSUME SysTypeOK, [SysNext]_sysVars, NEW w \in Pollers, OneClaim
  PROVE  \/ /\ Plugin!LocalStep(w) /\ UNCHANGED vars
         \/ /\ UNCHANGED <<effects, safeMode, failures, streak>>
            /\ \/ UNCHANGED <<claim, request>>
               \/ SysPoll(w) \/ SysNoAnswer(w) \/ SysClaimUpdate(w) \/ SysAnswer(w)
               \/ SysCrashClaim(w) \/ \E o \in Orders : SysClaimSelect(w, o)
<1> USE DEF Plugin!optionVars, siteVars
<1>1. ASSUME InternalStep PROVE claim' = claim
  BY <1>1 DEF InternalStep, OrderStep, IssueWorkOrderWithPolicy, CaptureSnapshot,
     ApproveWorkOrder, DeclineWorkOrder, Lapse, ArmDeadMansSwitch, DisarmDeadMansSwitch,
     ExpireStaleWorkOrders, WriteAudit, CrashHandler, FireStart, RestorePointRevert,
     RevertStep, FireCheck, FireAudit, RevertIssue, RevertIssueAudit, RevertWithoutInverse,
     RevertMark, RevertAudit, RevertEscalate, CrashRevert
<1>2. CASE InternalStep /\ UNCHANGED siteVars
  BY <1>1, <1>2
<1>3. CASE Plugin!SetKillSwitch /\ UNCHANGED vars
  BY <1>3 DEF Plugin!SetKillSwitch, vars
<1>4. ASSUME NEW o \in Orders, NEW ok \in BOOLEAN, SysReport(o, ok)
      PROVE  UNCHANGED <<effects, safeMode, failures, streak, claim, request>>
  BY <1>4 DEF SysReport, Plugin!Deliver, ReportResult, vars
<1>5. ASSUME \/ SysPoll(w) \/ SysNoAnswer(w) \/ SysClaimUpdate(w) \/ SysAnswer(w)
             \/ SysCrashClaim(w) \/ \E o \in Orders : SysClaimSelect(w, o)
      PROVE  UNCHANGED <<effects, safeMode, failures, streak>>
  BY <1>5 DEF SysPoll, SysNoAnswer, SysClaimUpdate, SysAnswer, SysCrashClaim, SysClaimSelect,
     Plugin!Poll, Plugin!NoAnswer, Plugin!Receive
<1>6. CASE UNCHANGED sysVars
  BY <1>6 DEF sysVars, vars
<1> QED
  BY <1>2, <1>3, <1>4, <1>5, <1>6 DEF SysNext, OneClaim

-----------------------------------------------------------------------------
(***************************************************************************)
(* Safe mode.                                                              *)
(***************************************************************************)

\* Until the plugin trips, its count is the true one, and so is the one it has read.
StreakInv ==
  ~safeMode => /\ failures = streak
               /\ \A w \in Pollers : request[w].pc = "failed" => request[w].seen = failures

\* A request has read the count only when it is about to write it.
LEMMA OnlyReadersFail ==
  ASSUME SysTypeOK, NEW w \in Pollers, Plugin!LocalStep(w), ~Plugin!ReadFailures(w)
  PROVE  request'[w].pc # "failed"
<1>0. request \in [Pollers -> Plugin!RequestStates]
  BY DEF SysTypeOK, Plugin!PluginTypeOK
<1>1. request[w].pc # "idle" /\ request[w].pc # "claiming"
  BY DEF Plugin!LocalStep, Plugin!CheckWindow, Plugin!CheckNonce, Plugin!StoreNonce,
     Plugin!Execute, Plugin!RecordSuccess, Plugin!ReadFailures, Plugin!RecordFailure,
     Plugin!Report, Plugin!Die
<1>2. \A pc \in {"failing", "nonce", "store", "execute", "report"} :
        request' = [request EXCEPT ![w].pc = pc] => request'[w].pc = pc
  BY <1>0, <1>1, HoldingFields DEF InHand
<1>3. CASE Plugin!CheckWindow(w) \/ Plugin!CheckNonce(w)
  BY <1>2, <1>3 DEF Plugin!CheckWindow, Plugin!CheckNonce, Plugin!Proceed
<1>4. CASE Plugin!StoreNonce(w) \/ Plugin!RecordSuccess(w)
  BY <1>2, <1>4 DEF Plugin!StoreNonce, Plugin!RecordSuccess
<1>5. ASSUME NEW ok \in BOOLEAN, Plugin!Execute(w, ok)
      PROVE  request'[w].pc # "failed"
  BY <1>0, <1>5 DEF Plugin!Execute, Plugin!Holding
<1>6. CASE Plugin!RecordFailure(w) \/ Plugin!Report(w) \/ Plugin!Die(w)
  BY <1>0, <1>2, <1>6 DEF Plugin!RecordFailure, Plugin!Report, Plugin!Die, Plugin!Idle
<1> QED
  BY <1>3, <1>4, <1>5, <1>6 DEF Plugin!LocalStep

LEMMA StreakStep == OneClaim /\ SysTypeOK /\ StreakInv /\ [SysNext]_sysVars => StreakInv'
<1> SUFFICES ASSUME OneClaim, SysTypeOK, StreakInv, [SysNext]_sysVars, ~safeMode',
                    NEW w \in Pollers
    PROVE  failures' = streak' /\ (request'[w].pc = "failed" => request'[w].seen = failures')
  <2>1. CASE Pollers = {}
    <3>1. ASSUME NEW o \in Orders, NEW ok \in BOOLEAN, SysReport(o, ok)
          PROVE  UNCHANGED <<safeMode, failures, streak>>
      BY <3>1 DEF SysReport, Plugin!Deliver, Plugin!optionVars
    <3>2. CASE UNCHANGED siteVars
      BY <2>1, <3>2 DEF siteVars, StreakInv
    <3>3. CASE Plugin!SetKillSwitch
      BY <2>1, <3>3 DEF Plugin!SetKillSwitch, StreakInv
    <3> QED
      BY <2>1, <3>1, <3>2, <3>3 DEF SysNext, sysVars, StreakInv
  <2>2. CASE Pollers # {}
    BY <2>2 DEF StreakInv
  <2> QED
    BY <2>1, <2>2
<1> USE DEF Plugin!optionVars
<1>0. request \in [Pollers -> Plugin!RequestStates] /\ failures \in Nat
  BY SystemAssumption DEF SysTypeOK, Plugin!PluginTypeOK
<1>1. CASE ~Plugin!LocalStep(w) /\ UNCHANGED <<effects, safeMode, failures, streak>>
  <2>1. CASE UNCHANGED request
    BY <1>1, <2>1 DEF StreakInv
  <2>2. CASE request'[w].pc \in {"idle", "claiming", "window"}
    BY <1>1, <2>2 DEF StreakInv
  <2>3. ASSUME \/ SysPoll(w) \/ SysNoAnswer(w) \/ SysAnswer(w) \/ SysCrashClaim(w)
        PROVE  UNCHANGED request \/ request'[w].pc \in {"idle", "claiming", "window"}
    BY <1>0, <2>3 DEF SysPoll, SysNoAnswer, SysAnswer, SysCrashClaim, Plugin!Poll,
       Plugin!NoAnswer, Plugin!Receive, Plugin!Holding, Plugin!Idle, siteVars
  <2>4. ASSUME SysClaimUpdate(w) \/ \E o \in Orders : SysClaimSelect(w, o)
        PROVE  UNCHANGED request
    BY <2>4 DEF SysClaimUpdate, SysClaimSelect, siteVars
  <2> QED
    BY <1>1, <2>1, <2>2, <2>3, <2>4, SystemMoves
<1>2. CASE Plugin!RecordSuccess(w)
  BY <1>0, <1>2 DEF Plugin!RecordSuccess
<1>3. CASE Plugin!RecordFailure(w)
  <2>1. ~safeMode /\ ~Plugin!Tripped(request[w].seen + 1)
    BY <1>3 DEF Plugin!RecordFailure
  <2>2. request[w].seen = failures /\ failures = streak
    BY <1>3, <2>1 DEF StreakInv, Plugin!RecordFailure
  <2>3. request'[w].pc \in {"idle", "report"}
    BY <1>0, <1>3 DEF Plugin!RecordFailure, Plugin!Idle
  <2> QED
    BY <1>3, <2>1, <2>2, <2>3 DEF Plugin!RecordFailure
<1>4. CASE Plugin!LocalStep(w) /\ ~Plugin!RecordSuccess(w) /\ ~Plugin!RecordFailure(w)
  <2>1. UNCHANGED <<safeMode, failures, streak>>
    BY <1>4 DEF Plugin!LocalStep, Plugin!CheckWindow, Plugin!CheckNonce,
           Plugin!Proceed, Plugin!StoreNonce, Plugin!Execute, Plugin!ReadFailures,
           Plugin!Report, Plugin!Die
  <2>2. CASE Plugin!ReadFailures(w)
    <3>1. InHand(request[w])
      BY <2>2 DEF Plugin!ReadFailures, InHand
    <3> QED
      BY <1>0, <2>1, <2>2, <3>1, HoldingFields DEF Plugin!ReadFailures, StreakInv
  <2>3. CASE ~Plugin!ReadFailures(w)
    <3>1. request'[w].pc # "failed"
      BY <1>4, <2>3, OnlyReadersFail
    <3> QED
      BY <2>1, <3>1 DEF StreakInv
  <2> QED
    BY <2>2, <2>3
<1> QED
  BY <1>1, <1>2, <1>3, <1>4, SystemMoves

\* As many failures in a row as the threshold says put the plugin into safe mode, whatever
\* happens to the requests in between.
THEOREM FailuresTrip ==
  ASSUME OneClaim
  PROVE  SysSpec => []FailuresTripSafeMode
<1>1. SysInit => StreakInv
  BY DEF SysInit, Plugin!PluginInit, Plugin!Idle, StreakInv
<1>2. SysTypeOK /\ StreakInv => FailuresTripSafeMode
  BY SystemAssumption DEF SysTypeOK, Plugin!PluginTypeOK, StreakInv, FailuresTripSafeMode
<1>3. SysTypeOK /\ StreakInv /\ [SysNext]_sysVars => StreakInv'
  BY StreakStep
<1> QED
  BY <1>1, <1>2, <1>3, SystemTypeCorrect, PTL DEF SysSpec

-----------------------------------------------------------------------------
(***************************************************************************)
(* No order is executed twice.                                             *)
(***************************************************************************)
Before == {"window", "nonce", "store", "execute"}

\* What a claim is about to bring, or a request about to execute, has not been executed;
\* and a claim has come back before the request goes on.
OnceInv ==
  /\ \A w \in Pollers :
       /\ claim[w].pc # "idle" =>
            claim[w].o \notin Executed /\ request[w].pc \in {"idle", "claiming"}
       /\ request[w].pc \in Before => request[w].o \notin Executed
  /\ ExecutedAtMostOnce

\* A step of a request before its order is executed goes on with the same order.
LEMMA BeforeMoves ==
  ASSUME SysTypeOK, NEW w \in Pollers, Plugin!LocalStep(w),
         \A ok \in BOOLEAN : ~Plugin!Execute(w, ok), request'[w].pc \in Before
  PROVE  request[w].pc \in Before /\ request'[w].o = request[w].o
<1> USE DEF Before
<1>0. request \in [Pollers -> Plugin!RequestStates]
  BY DEF SysTypeOK, Plugin!PluginTypeOK
<1>1. InHand(request[w])
  BY DEF Plugin!LocalStep, Plugin!CheckWindow, Plugin!CheckNonce, Plugin!StoreNonce,
     Plugin!Execute, Plugin!RecordSuccess, Plugin!ReadFailures, Plugin!RecordFailure,
     Plugin!Report, Plugin!Die, InHand
<1>2. \A pc \in {"failing", "nonce", "store", "execute", "report"} :
        request' = [request EXCEPT ![w].pc = pc]
          => request'[w].pc = pc /\ request'[w].o = request[w].o
  BY <1>0, <1>1, HoldingFields DEF InHand
<1>3. CASE Plugin!CheckWindow(w) \/ Plugin!CheckNonce(w) \/ Plugin!StoreNonce(w)
  BY <1>2, <1>3 DEF Plugin!CheckWindow, Plugin!CheckNonce, Plugin!Proceed, Plugin!StoreNonce
<1>4. CASE Plugin!RecordSuccess(w) \/ Plugin!RecordFailure(w)
  BY <1>0, <1>2, <1>4 DEF Plugin!RecordSuccess, Plugin!RecordFailure, Plugin!Idle
<1>5. CASE Plugin!ReadFailures(w)
  BY <1>0, <1>1, <1>5, HoldingFields DEF Plugin!ReadFailures
<1>6. CASE Plugin!Report(w) \/ Plugin!Die(w)
  BY <1>0, <1>6 DEF Plugin!Report, Plugin!Die, Plugin!Idle
<1> QED
  BY <1>3, <1>4, <1>5, <1>6 DEF Plugin!LocalStep

\* An execution is put at the end of the history.
LEMMA EffectAdded ==
  ASSUME SysTypeOK, NEW w \in Pollers, NEW ok \in BOOLEAN, Plugin!Execute(w, ok)
  PROVE  /\ request[w].o \in Orders
         /\ DOMAIN effects = 1 .. Len(effects) /\ Len(effects) \in Nat
         /\ DOMAIN effects' = 1 .. Len(effects) + 1
         /\ \A i \in DOMAIN effects : effects'[i] = effects[i]
         /\ effects'[Len(effects) + 1] = [o |-> request[w].o, ok |-> ok]
<1>1. request[w] \in Plugin!RequestStates /\ InHand(request[w])
  BY DEF SysTypeOK, Plugin!PluginTypeOK, Plugin!Execute, InHand
<1>2. request[w].o \in Orders
  BY <1>1, HoldingFields
<1>3. effects \in Seq([o : Orders, ok : BOOLEAN])
  BY DEF SysTypeOK, Plugin!PluginTypeOK
<1>4. effects' = Append(effects, [o |-> request[w].o, ok |-> ok])
  BY DEF Plugin!Execute
<1>5. [o |-> request[w].o, ok |-> ok] \in [o : Orders, ok : BOOLEAN]
  BY <1>2
<1> HIDE DEF Orders
<1> QED
  BY <1>2, <1>3, <1>4, <1>5

LEMMA OnceStep ==
  OneClaim /\ SysTypeOK /\ SiteInv /\ OnceInv /\ [SysNext]_sysVars => OnceInv'
<1> SUFFICES ASSUME OneClaim, SysTypeOK, SiteInv, OnceInv, [SysNext]_sysVars PROVE OnceInv'
  OBVIOUS
<1>0. /\ request \in [Pollers -> Plugin!RequestStates]
      /\ claim \in [Pollers -> ClaimStates]
  BY DEF SysTypeOK, Plugin!PluginTypeOK, TypeOK
<1>1. CASE Pollers = {}
  <2>1. UNCHANGED effects
    <3>1. ASSUME NEW o \in Orders, NEW ok \in BOOLEAN, SysReport(o, ok) PROVE UNCHANGED effects
      BY <3>1 DEF SysReport, Plugin!Deliver
    <3>2. CASE UNCHANGED siteVars
      BY <3>2 DEF siteVars
    <3>3. CASE Plugin!SetKillSwitch
      BY <3>3 DEF Plugin!SetKillSwitch
    <3> QED
      BY <1>1, <3>1, <3>2, <3>3 DEF SysNext, sysVars
  <2> QED
    BY <1>1, <2>1 DEF OnceInv, ExecutedAtMostOnce
<1>2. ASSUME NEW w \in Pollers, Plugin!LocalStep(w), UNCHANGED vars PROVE OnceInv'
  <2>0. claim' = claim /\ claim[w].pc = "idle" /\ \A v \in Pollers : v = w
    <3>1. request[w].pc \notin {"idle", "claiming"}
      BY <1>2 DEF Plugin!LocalStep, Plugin!CheckWindow, Plugin!CheckNonce, Plugin!StoreNonce,
         Plugin!Execute, Plugin!RecordSuccess, Plugin!ReadFailures, Plugin!RecordFailure,
         Plugin!Report, Plugin!Die
    <3> QED
      BY <1>2, <3>1 DEF OnceInv, vars, OneClaim
  <2>1. ASSUME NEW ok \in BOOLEAN, Plugin!Execute(w, ok) PROVE OnceInv'
    <3>1. request[w].o \notin Executed /\ ExecutedAtMostOnce
      BY <2>1 DEF OnceInv, Plugin!Execute, Before
    <3>2. request'[w].pc \notin Before
      BY <1>0, <2>1 DEF Plugin!Execute, Plugin!Holding, Before
    <3>4. /\ DOMAIN effects = 1 .. Len(effects) /\ Len(effects) \in Nat
          /\ DOMAIN effects' = 1 .. Len(effects) + 1
          /\ \A i \in DOMAIN effects : effects'[i] = effects[i]
          /\ effects'[Len(effects) + 1] = [o |-> request[w].o, ok |-> ok]
          /\ request[w].o \in Orders
      BY <2>1, EffectAdded
    <3>5. \A i \in DOMAIN effects : effects[i].o # request[w].o
      BY <3>1, <3>4 DEF Executed
    <3>6. \A i \in DOMAIN effects' : i \in DOMAIN effects \/ i = Len(effects) + 1
      BY <3>4
    <3>7. ExecutedAtMostOnce'
      BY <3>1, <3>4, <3>5, <3>6 DEF ExecutedAtMostOnce
    <3> QED
      BY <2>0, <3>2, <3>7 DEF OnceInv
  <2>2. CASE \A ok \in BOOLEAN : ~Plugin!Execute(w, ok)
    <3>1. UNCHANGED effects
      BY <1>2, <2>2 DEF Plugin!LocalStep, Plugin!CheckWindow, Plugin!CheckNonce,
         Plugin!Proceed, Plugin!StoreNonce, Plugin!RecordSuccess, Plugin!ReadFailures,
         Plugin!RecordFailure, Plugin!Report, Plugin!Die
    <3>2. request'[w].pc \in Before => request'[w].o \notin Executed
      BY <1>2, <2>2, BeforeMoves DEF OnceInv
    <3> QED
      BY <2>0, <3>1, <3>2 DEF OnceInv, Executed, ExecutedAtMostOnce
  <2> QED
    BY <2>1, <2>2
<1>3. ASSUME NEW w \in Pollers, UNCHANGED effects,
             \/ UNCHANGED <<claim, request>>
             \/ SysPoll(w) \/ SysNoAnswer(w) \/ SysClaimUpdate(w) \/ SysAnswer(w)
             \/ SysCrashClaim(w) \/ \E o \in Orders : SysClaimSelect(w, o)
      PROVE  OnceInv'
  <2>0. UNCHANGED effects /\ \A v \in Pollers : v = w
    BY <1>3 DEF OneClaim
  <2>1. SUFFICES /\ claim'[w].pc # "idle" =>
                      claim'[w].o \notin Executed /\ request'[w].pc \in {"idle", "claiming"}
                 /\ request'[w].pc \in Before => request'[w].o \notin Executed
    BY <2>0 DEF OnceInv, Executed, ExecutedAtMostOnce
  <2>2. /\ claim[w].pc # "idle" =>
             claim[w].o \notin Executed /\ request[w].pc \in {"idle", "claiming"}
        /\ request[w].pc \in Before => request[w].o \notin Executed
    BY DEF OnceInv
  <2>3. CASE UNCHANGED <<claim, request>>
    BY <2>2, <2>3
  <2>4. CASE SysPoll(w)
    BY <1>0, <2>4 DEF SysPoll, Plugin!Poll, vars, Before
  <2>5. CASE SysNoAnswer(w)
    BY <1>0, <2>2, <2>5 DEF SysNoAnswer, Plugin!NoAnswer, Plugin!Idle, vars, Before
  <2>6. ASSUME NEW o \in Orders, SysClaimSelect(w, o)
        PROVE  /\ claim'[w].pc # "idle" =>
                    claim'[w].o \notin Executed /\ request'[w].pc \in {"idle", "claiming"}
               /\ request'[w].pc \in Before => request'[w].o \notin Executed
    <3>1. claim'[w].o = o /\ request' = request /\ request[w].pc = "claiming"
      BY <1>0, <2>6 DEF SysClaimSelect, ClaimSelect, siteVars
    <3>2. o \notin Served
      BY <2>6 DEF SysClaimSelect, ClaimSelect, IsOldestPending, Served, ServedStatuses
    <3>3. o \notin Executed
      BY <3>2 DEF SiteInv, Executed
    <3> QED
      BY <3>1, <3>3 DEF Before
  <2>7. CASE SysClaimUpdate(w)
    <3>1. claim[w].pc # "idle" /\ claim'[w].o = claim[w].o /\ request' = request
      BY <1>0, <2>7 DEF SysClaimUpdate, ClaimUpdate, ClaimStates, siteVars
    <3> QED
      BY <2>2, <3>1
  <2>8. CASE SysAnswer(w)
    <3>1. claim[w].pc # "idle" /\ claim'[w].pc = "idle"
      BY <1>0, <2>8 DEF SysAnswer, ClaimAudit, NoClaim
    <3>2. request' = request \/ request'[w].o = claim[w].o
      BY <1>0, <2>8 DEF SysAnswer, Plugin!Receive, Plugin!Holding, siteVars
    <3> QED
      BY <2>2, <3>1, <3>2
  <2>9. CASE SysCrashClaim(w)
    <3>1. claim'[w].pc = "idle"
      BY <1>0, <2>9 DEF SysCrashClaim, CrashClaim, NoClaim
    <3>2. request' = request \/ request'[w].pc = "idle"
      BY <1>0, <2>9 DEF SysCrashClaim, Plugin!NoAnswer, Plugin!Idle, siteVars
    <3> QED
      BY <2>2, <3>1, <3>2 DEF Before
  <2> QED
    BY <1>3, <2>3, <2>4, <2>5, <2>6, <2>7, <2>8, <2>9
<1>4. ASSUME NEW w \in Pollers PROVE OnceInv'
  BY <1>2, <1>3, SystemMoves
<1> QED
  BY <1>1, <1>4

LEMMA OnceInvariant ==
  ASSUME OneClaim
  PROVE  SysSpec => []OnceInv
<1>1. SysInit => OnceInv
  BY DEF SysInit, Init, Plugin!PluginInit, Plugin!Idle, NoClaim, OnceInv, ExecutedAtMostOnce,
     Before
<1>2. SysTypeOK /\ SiteInv /\ OnceInv /\ [SysNext]_sysVars => OnceInv'
  BY OnceStep
<1> QED
  BY <1>1, <1>2, SiteInvariant, PTL DEF SysSpec

\* A site that polls with one request at a time executes no order twice: not after a claim
\* whose answer was late, not after a request that died, not when the nonces are purged.
THEOREM ExecutedOnce ==
  ASSUME OneClaim
  PROVE  SysSpec => []ExecutedAtMostOnce
<1>1. OnceInv => ExecutedAtMostOnce
  BY DEF OnceInv
<1> QED
  BY <1>1, OnceInvariant, PTL

-----------------------------------------------------------------------------
(***************************************************************************)
(* A corrective order comes after the order that it undoes.                *)
(***************************************************************************)
UndoneBefore ==
  \A i \in DOMAIN effects :
    LET o == undoes[effects[i].o]
    IN  o # NoOrder => \E j \in 1 .. i - 1 : effects[j] = [o |-> o, ok |-> TRUE]

\* What an order was issued for is on its row for good.
LEMMA UndoesStays ==
  ASSUME TypeOK, [Next]_vars, NEW q \in Served
  PROVE  undoes'[q] = undoes[q]
<1>0. q \in Orders /\ Exists(q)
  BY DEF Served, Exists, ServedStatuses
<1>1. ASSUME NEW o \in Orders, NEW a, NEW s, NEW who, NEW cause,
             InsertRow(o, a, s, who, cause)
      PROVE  undoes'[q] = undoes[q]
  BY <1>0, <1>1 DEF InsertRow, IsNext, TypeOK
<1>2. ASSUME NEW o \in Orders, OrderStep(o) PROVE undoes'[q] = undoes[q]
  <2>1. CASE \E a \in Actions, tier \in Tiers : IssueWorkOrderWithPolicy(o, a, tier)
    BY <1>1, <2>1 DEF IssueWorkOrderWithPolicy
  <2> QED
    BY <1>2, <2>1 DEF OrderStep, CaptureSnapshot, ApproveWorkOrder, DeclineWorkOrder, Lapse,
       ArmDeadMansSwitch, DisarmDeadMansSwitch, rowVars
<1>3. ASSUME NEW r \in Runners,
             \/ \E o \in Orders : FireStart(r, o) \/ RestorePointRevert(r, o)
             \/ RevertStep(r) \/ CrashRevert(r)
      PROVE  undoes'[q] = undoes[q]
  <2>1. CASE \E c \in Orders : RevertIssue(r, c)
    BY <1>1, <2>1 DEF RevertIssue
  <2> QED
    BY <1>3, <2>1 DEF FireStart, RestorePointRevert, RevertStep, FireCheck, FireAudit,
       RevertIssueAudit, RevertWithoutInverse, RevertMark, RevertAudit, RevertEscalate,
       CrashRevert, rowVars
<1>4. CASE SiteStep
  BY <1>4 DEF SiteStep, ClaimStep, ClaimUpdate, ClaimAudit, CrashClaim, ClaimSelect,
     ReportResult, rowVars
<1>5. CASE \/ ExpireStaleWorkOrders \/ UNCHANGED vars
           \/ \E t \in todo : WriteAudit(t) \/ CrashHandler(t)
  BY <1>5 DEF ExpireStaleWorkOrders, vars, WriteAudit, CrashHandler, rowVars
<1> QED
  BY <1>2, <1>3, <1>4, <1>5 DEF Next, InternalStep

LEMMA UndoneStep ==
  /\ OneClaim /\ SysTypeOK /\ SiteInv /\ RevertIsJustified /\ RevertedInv
  /\ UndoneBefore /\ [SysNext]_sysVars
  => UndoneBefore'
<1> SUFFICES ASSUME OneClaim, SysTypeOK, SiteInv, RevertIsJustified, RevertedInv, UndoneBefore,
                    [SysNext]_sysVars
    PROVE  UndoneBefore'
  OBVIOUS
<1>1. \A i \in DOMAIN effects : undoes'[effects[i].o] = undoes[effects[i].o]
  BY SysNextIsNext, UndoesStays DEF SiteInv, SysTypeOK
<1>2. CASE UNCHANGED effects
  BY <1>1, <1>2 DEF UndoneBefore
<1>3. ASSUME NEW w \in Pollers, NEW ok \in BOOLEAN, Plugin!Execute(w, ok), UNCHANGED vars
      PROVE  UndoneBefore'
  <2>0. request[w].o \in Orders
    BY <1>3, EffectAdded
  <2>1. PICK c \in Orders : c = request[w].o
    BY <2>0
  <2>2. undoes[c] # NoOrder => Succeeded(undoes[c])
    <3>1. undoes[c] # NoOrder => undoes[c] \in Orders
      BY DEF SysTypeOK, TypeOK, NoOrder, Orders
    <3>2. undoes[c] # NoOrder => <<"executed_success", undoes[c]>> \in audit
      BY <3>1 DEF RevertIsJustified, Justified, RevertedInv
    <3> QED
      BY <3>1, <3>2 DEF SiteInv
  <2>3. undoes' = undoes
    BY <1>3 DEF vars, rowVars
  <2>4. /\ DOMAIN effects = 1 .. Len(effects) /\ Len(effects) \in Nat
        /\ DOMAIN effects' = 1 .. Len(effects) + 1
        /\ \A i \in DOMAIN effects : effects'[i] = effects[i]
        /\ effects'[Len(effects) + 1].o = c
    <3>1. /\ DOMAIN effects = 1 .. Len(effects) /\ Len(effects) \in Nat
          /\ DOMAIN effects' = 1 .. Len(effects) + 1
          /\ \A i \in DOMAIN effects : effects'[i] = effects[i]
          /\ effects'[Len(effects) + 1] = [o |-> request[w].o, ok |-> ok]
      BY <1>3, EffectAdded
    <3> QED
      BY <2>1, <3>1
  <2>5. ASSUME NEW i \in 1 .. Len(effects), undoes[effects[i].o] # NoOrder
        PROVE  \E j \in 1 .. i - 1 : effects'[j] = [o |-> undoes[effects[i].o], ok |-> TRUE]
    <3>1. PICK j \in 1 .. i - 1 : effects[j] = [o |-> undoes[effects[i].o], ok |-> TRUE]
      BY <2>4, <2>5 DEF UndoneBefore
    <3>2. j \in DOMAIN effects
      BY <2>4
    <3> QED
      BY <2>4, <3>1, <3>2
  <2>6. undoes[c] # NoOrder =>
          \E j \in 1 .. Len(effects) : effects'[j] = [o |-> undoes[c], ok |-> TRUE]
    BY <2>2, <2>4 DEF Succeeded
  <2>7. SUFFICES ASSUME NEW i \in 1 .. Len(effects) + 1, undoes[effects'[i].o] # NoOrder
        PROVE  \E j \in 1 .. i - 1 : effects'[j] = [o |-> undoes[effects'[i].o], ok |-> TRUE]
    BY <2>3, <2>4 DEF UndoneBefore
  <2>8. CASE i = Len(effects) + 1
    <3>1. i - 1 = Len(effects) /\ effects'[i].o = c
      BY <2>4, <2>8
    <3> QED
      BY <2>6, <2>7, <3>1
  <2>9. CASE i # Len(effects) + 1
    <3>1. i \in 1 .. Len(effects) /\ effects'[i] = effects[i]
      BY <2>4, <2>9
    <3> QED
      BY <2>5, <2>7, <3>1
  <2> QED
    BY <2>8, <2>9
<1>4. ASSUME NEW w \in Pollers, Plugin!LocalStep(w), \A ok \in BOOLEAN : ~Plugin!Execute(w, ok)
      PROVE  UNCHANGED effects
  BY <1>4 DEF Plugin!LocalStep, Plugin!CheckWindow, Plugin!CheckNonce, Plugin!Proceed,
     Plugin!StoreNonce, Plugin!RecordSuccess, Plugin!ReadFailures, Plugin!RecordFailure,
     Plugin!Report, Plugin!Die
<1>5. CASE Pollers = {}
  <2>1. ASSUME NEW o \in Orders, NEW ok \in BOOLEAN, SysReport(o, ok) PROVE UNCHANGED effects
    BY <2>1 DEF SysReport, Plugin!Deliver
  <2>2. CASE UNCHANGED siteVars
    BY <1>2, <2>2 DEF siteVars
  <2>3. CASE Plugin!SetKillSwitch
    BY <1>2, <2>3 DEF Plugin!SetKillSwitch
  <2> QED
    BY <1>2, <1>5, <2>1, <2>2, <2>3 DEF SysNext, sysVars
<1> QED
  BY <1>2, <1>3, <1>4, <1>5, SystemMoves

\* Where an order that undoes another has been preceded by it and none is executed twice,
\* the one undone does not come back.
LEMMA BeforeAndOnce ==
  ASSUME effects \in Seq([o : Orders, ok : BOOLEAN]), UndoneBefore, ExecutedAtMostOnce
  PROVE  CorrectiveComesLast
<1> SUFFICES ASSUME NEW i \in DOMAIN effects, undoes[effects[i].o] # NoOrder
    PROVE  /\ \E j \in 1 .. i - 1 : effects[j] = [o |-> undoes[effects[i].o], ok |-> TRUE]
           /\ \A j \in DOMAIN effects : j > i => effects[j].o # undoes[effects[i].o]
  BY DEF CorrectiveComesLast
<1>1. PICK k \in 1 .. i - 1 : effects[k] = [o |-> undoes[effects[i].o], ok |-> TRUE]
  BY DEF UndoneBefore
<1>2. DOMAIN effects = 1 .. Len(effects) /\ Len(effects) \in Nat
  OBVIOUS
<1>3. k \in DOMAIN effects /\ k < i
  BY <1>2
<1>4. ASSUME NEW j \in DOMAIN effects, j > i PROVE effects[j].o # undoes[effects[i].o]
  <2>1. j # k
    BY <1>2, <1>3, <1>4
  <2>2. effects[j].o # effects[k].o
    BY <1>3, <2>1 DEF ExecutedAtMostOnce
  <2> QED
    BY <1>1, <2>2
<1> QED
  BY <1>1, <1>4

\* The order that undoes another is executed after it and never before it, for a site that
\* polls with one request at a time and has no restore points.
THEOREM CorrectiveIsLast ==
  ASSUME OneClaim, ~Capturing
  PROVE  SysSpec => []CorrectiveComesLast
<1>1. SysInit => UndoneBefore
  BY DEF SysInit, Plugin!PluginInit, UndoneBefore
<1>2. SysSpec => []RevertIsJustified
  BY ImplementsControlPlane, RevertsAreJustified, PTL
<1>3. SysSpec => []RevertedInv
  BY ImplementsControlPlane, RevertedInvariant, PTL
<1>4. SysTypeOK /\ SiteInv /\ RevertIsJustified /\ RevertedInv /\ UndoneBefore
        /\ [SysNext]_sysVars => UndoneBefore'
  BY UndoneStep
<1>5. SysTypeOK /\ UndoneBefore /\ ExecutedAtMostOnce => CorrectiveComesLast
  BY BeforeAndOnce DEF SysTypeOK, Plugin!PluginTypeOK
<1> QED
  BY <1>1, <1>2, <1>3, <1>4, <1>5, SiteInvariant, ExecutedOnce, PTL DEF SysSpec

-----------------------------------------------------------------------------
(***************************************************************************)
(* Control plane and site implement ExecutionPromise.                      *)
(***************************************************************************)

\* A step that decides about no order, executes nothing and records no success is
\* invisible to the promise.
LEMMA PromiseStutter ==
  ASSUME UNCHANGED <<phaseBar, undoes, effects, Recorded>>
  PROVE  [Promise!Next]_(Promise!promiseVars)
BY DEF Promise!promiseVars, phaseBar

\* A step that decides about one order.
LEMMA PromiseDecides ==
  ASSUME NEW o \in Orders, UNCHANGED <<effects, audit>>,
         \/ /\ phaseBar[o] = "absent" /\ phaseBar' = [phaseBar EXCEPT ![o] = "asking"]
            /\ undoes' = undoes
         \/ /\ phaseBar[o] = "absent" /\ phaseBar' = [phaseBar EXCEPT ![o] = "released"]
            /\ \/ undoes' = undoes
               \/ \E q \in Recorded : undoes' = [undoes EXCEPT ![o] = q]
         \/ /\ phaseBar[o] = "asking" /\ undoes' = undoes
            /\ \E to \in {"released", "refused"} : phaseBar' = [phaseBar EXCEPT ![o] = to]
  PROVE  [Promise!Next]_(Promise!promiseVars)
<1>1. Recorded' = Recorded
  BY DEF Recorded
<1>2. Recorded \subseteq Orders
  BY DEF Recorded
<1>3. CASE \E q \in Recorded : Promise!Undo(o, q)
  BY <1>2, <1>3 DEF Promise!Next
<1>4. CASE Promise!Ask(o) \/ Promise!Trust(o) \/ Promise!Approve(o) \/ Promise!Refuse(o)
  BY <1>4 DEF Promise!Next
<1> QED
  BY <1>1, <1>3, <1>4
  DEF Promise!Undo, Promise!Ask, Promise!Trust, Promise!Approve, Promise!Refuse,
      Promise!Decide, phaseBar

\* An order that is put into the table is decided about.
LEMMA InsertDecides ==
  ASSUME TypeOK, GateInv, NEW o \in Orders, NEW a, NEW s \in {"awaiting_approval", "pending"},
         NEW who, NEW cause, InsertRow(o, a, s, who, cause), UNCHANGED <<effects, audit>>,
         cause = NoOrder \/ (s = "pending" /\ cause \in Recorded)
  PROVE  [Promise!Next]_(Promise!promiseVars)
<1>1. status[o] = "none" /\ undoes[o] = NoOrder
  BY DEF InsertRow, IsNext, Exists, GateInv, Undecided
<1>2. phaseBar[o] = "absent"
  BY <1>1, PhaseValues DEF phaseBar
<1>3. phaseBar' = [phaseBar EXCEPT ![o] = IF s = "pending" THEN "released" ELSE "asking"]
  BY RowMoves, PhaseValues DEF InsertRow, Statuses
<1>4. undoes' = [undoes EXCEPT ![o] = cause]
  BY DEF InsertRow
<1>5. cause = NoOrder => undoes' = undoes
  BY <1>1, <1>4 DEF TypeOK
<1> QED
  BY <1>2, <1>3, <1>4, <1>5, PromiseDecides

\* Statuses that an order has once it has been let pass.
Passed == {"pending", "expired"} \cup ServedStatuses

\* Moving rows from one such status to another decides nothing.
LEMMA PassedKept ==
  ASSUME TypeOK, UNCHANGED undoes,
         \A o \in Orders :
           status'[o] = status[o] \/ (status[o] \in Passed /\ status'[o] \in Passed)
  PROVE  UNCHANGED <<phaseBar, undoes>>
<1>1. \A o \in Orders : PhaseOf(status'[o]) = PhaseOf(status[o])
  BY DEF Passed, PhaseOf, ServedStatuses
<1>2. phaseBar' = [o \in Orders |-> PhaseOf(status'[o])]
  BY DEF phaseBar, PhaseOf
<1> QED
  BY <1>1, <1>2 DEF phaseBar

\* An order's success goes on record by a statement that is still to be executed.
LEMMA PromiseRecords ==
  ASSUME SiteInv, NEW t \in todo, WriteAudit(t), UNCHANGED effects
  PROVE  [Promise!Next]_(Promise!promiseVars)
<1>1. UNCHANGED <<phaseBar, undoes>>
  BY DEF WriteAudit, rowVars, phaseBar
<1>2. ASSUME NEW o \in Orders, t = <<"executed_success", o>>
      PROVE  [Promise!Next]_(Promise!promiseVars)
  <2>1. Succeeded(o)
    BY <1>2 DEF SiteInv
  <2>2. Recorded' = Recorded \cup {o}
    BY <1>2 DEF Recorded, WriteAudit
  <2>3. Promise!Record(o)
    BY <1>1, <2>1, <2>2 DEF Promise!Record, Promise!Succeeded, Succeeded, phaseBar
  <2> QED
    BY <2>3 DEF Promise!Next
<1>3. CASE \A o \in Orders : t # <<"executed_success", o>>
  <2>1. Recorded' = Recorded
    BY <1>3 DEF Recorded, WriteAudit
  <2> QED
    BY <1>1, <2>1, PromiseStutter
<1> QED
  BY <1>2, <1>3

\* What the control plane does while the site executes nothing.
LEMMA ControlKeepsPromise ==
  ASSUME TypeOK, GateInv, SwitchInv, SiteInv, snapshots = {}, [Next]_vars, UNCHANGED effects
  PROVE  [Promise!Next]_(Promise!promiseVars)
<1>0. ASSUME UNCHANGED <<phaseBar, undoes>>, Recorded' = Recorded
      PROVE  [Promise!Next]_(Promise!promiseVars)
  BY <1>0, PromiseStutter
<1>1. ASSUME UNCHANGED undoes, audit' = audit,
             \A o \in Orders :
               status'[o] = status[o] \/ (status[o] \in Passed /\ status'[o] \in Passed)
      PROVE  [Promise!Next]_(Promise!promiseVars)
  BY <1>0, <1>1, PassedKept DEF Recorded
<1>12. ASSUME NEW o \in Orders, status[o] \in Passed, NEW s \in Passed,
              status' = [status EXCEPT ![o] = s], undoes' = undoes, audit' = audit
       PROVE  [Promise!Next]_(Promise!promiseVars)
  <2>1. \A q \in Orders :
          status'[q] = status[q] \/ (status[q] \in Passed /\ status'[q] \in Passed)
    <3>1. DOMAIN status = Orders
      BY DEF TypeOK
    <3> QED
      BY <1>12, <3>1
  <2> QED
    BY <1>1, <1>12, <2>1
<1>2. ASSUME UNCHANGED <<status, undoes>>,
             audit' = audit \/ \E o, e : e # "executed_success" /\ audit' = audit \cup {<<e, o>>}
      PROVE  [Promise!Next]_(Promise!promiseVars)
  BY <1>0, <1>2 DEF Recorded, phaseBar
<1>3. ASSUME NEW o \in Orders, OrderStep(o) PROVE [Promise!Next]_(Promise!promiseVars)
  <2>1. ASSUME NEW a \in Actions, NEW tier \in Tiers, IssueWorkOrderWithPolicy(o, a, tier)
        PROVE  [Promise!Next]_(Promise!promiseVars)
    <3>1. audit' = audit
      BY <2>1 DEF IssueWorkOrderWithPolicy
    <3>2. \/ InsertRow(o, a, "awaiting_approval", "nobody", NoOrder)
          \/ InsertRow(o, a, "pending", "policy", NoOrder)
      BY <2>1 DEF IssueWorkOrderWithPolicy
    <3>3. CASE InsertRow(o, a, "awaiting_approval", "nobody", NoOrder)
      BY <3>1, <3>3, InsertDecides
    <3>4. CASE InsertRow(o, a, "pending", "policy", NoOrder)
      BY <3>1, <3>4, InsertDecides
    <3> QED
      BY <3>2, <3>3, <3>4
  <2>2. CASE ApproveWorkOrder(o) \/ DeclineWorkOrder(o)
    <3>1. status[o] = "awaiting_approval" /\ undoes' = undoes /\ audit' = audit
      BY <2>2 DEF ApproveWorkOrder, DeclineWorkOrder, Approvable, rowVars
    <3>2. phaseBar[o] = "asking"
      BY <3>1, PhaseValues DEF phaseBar
    <3>3. \E to \in {"released", "refused"} : phaseBar' = [phaseBar EXCEPT ![o] = to]
      BY <2>2, RowMoves, PhaseValues DEF ApproveWorkOrder, DeclineWorkOrder, Statuses
    <3> QED
      BY <3>1, <3>2, <3>3, PromiseDecides
  <2>3. CASE \/ CaptureSnapshot(o) \/ Lapse(o)
             \/ ArmDeadMansSwitch(o) \/ DisarmDeadMansSwitch(o)
    BY <1>2, <2>3 DEF CaptureSnapshot, Lapse, ArmDeadMansSwitch, DisarmDeadMansSwitch, rowVars
  <2> QED
    BY <1>3, <2>1, <2>2, <2>3 DEF OrderStep
<1>4. CASE ExpireStaleWorkOrders
  <2>1. UNCHANGED undoes /\ audit' = audit
    BY <1>4 DEF ExpireStaleWorkOrders, rowVars
  <2>2. \A o \in Orders :
          status'[o] = status[o] \/ (status[o] \in Passed /\ status'[o] \in Passed)
    <3>1. \A o \in Orders : o \in Stale => status[o] \in Passed
      BY DEF Stale, Passed
    <3>2. "expired" \in Passed
      BY DEF Passed
    <3> QED
      BY <1>4, <3>1, <3>2 DEF ExpireStaleWorkOrders
  <2> QED
    BY <1>1, <2>1, <2>2
<1>5. ASSUME NEW t \in todo, WriteAudit(t) \/ CrashHandler(t)
      PROVE  [Promise!Next]_(Promise!promiseVars)
  BY <1>2, <1>5, PromiseRecords DEF CrashHandler, rowVars
<1>6. ASSUME NEW r \in Runners, RevertStep(r) PROVE [Promise!Next]_(Promise!promiseVars)
  <2>1. ASSUME NEW c \in Orders, RevertIssue(r, c) PROVE [Promise!Next]_(Promise!promiseVars)
    <3>1. revert[r].o \in Orders /\ Justified(revert[r].o)
      BY <2>1 DEF RevertIssue, TypeOK, SwitchInv, RunnerInv
    <3>2. revert[r].o \in Recorded
      BY <3>1 DEF Justified, Recorded
    <3> QED
      BY <2>1, <3>2, InsertDecides DEF RevertIssue
  <2>2. CASE RevertMark(r)
    <3>1. revert[r].o \in Orders /\ undoes' = undoes /\ audit' = audit
      BY <2>2 DEF RevertMark, rowVars, TypeOK
    <3>2. CASE Markable(revert[r].o)
      BY <1>12, <2>2, <3>1, <3>2 DEF RevertMark, Markable, Passed, ServedStatuses
    <3>3. CASE ~Markable(revert[r].o)
      BY <1>2, <2>2, <3>1, <3>3 DEF RevertMark
    <3> QED
      BY <3>2, <3>3
  <2>3. CASE \/ FireCheck(r) \/ FireAudit(r) \/ RevertIssueAudit(r)
             \/ RevertWithoutInverse(r) \/ RevertAudit(r) \/ RevertEscalate(r)
    BY <1>2, <2>3 DEF FireCheck, FireAudit, RevertIssueAudit, RevertWithoutInverse,
       RevertAudit, RevertEscalate, rowVars
  <2> QED
    BY <1>6, <2>1, <2>2, <2>3 DEF RevertStep
<1>7. ASSUME NEW r \in Runners,
             CrashRevert(r) \/ \E o \in Orders : FireStart(r, o) \/ RestorePointRevert(r, o)
      PROVE  [Promise!Next]_(Promise!promiseVars)
  BY <1>2, <1>7 DEF CrashRevert, FireStart, RestorePointRevert, rowVars
<1>8. ASSUME NEW p \in Pollers, ClaimUpdate(p) PROVE [Promise!Next]_(Promise!promiseVars)
  <2>1. claim[p].o \in Orders /\ status[claim[p].o] \in Passed
    BY <1>8 DEF ClaimUpdate, GateInv, TypeOK, Passed, Undecided, Statuses, ServedStatuses
  <2> QED
    BY <1>8, <1>12, <2>1 DEF ClaimUpdate, rowVars, Passed, ServedStatuses
<1>9. ASSUME NEW p \in Pollers,
             ClaimAudit(p) \/ CrashClaim(p) \/ \E o \in Orders : ClaimSelect(p, o)
      PROVE  [Promise!Next]_(Promise!promiseVars)
  BY <1>2, <1>9 DEF ClaimAudit, CrashClaim, ClaimSelect, rowVars
<1>10. ASSUME NEW o \in Orders, NEW success \in BOOLEAN, ReportResult(o, success)
       PROVE  [Promise!Next]_(Promise!promiseVars)
  BY <1>10, <1>12 DEF ReportResult, Reportable, rowVars, Passed, ServedStatuses
<1>11. CASE UNCHANGED vars
  BY <1>2, <1>11 DEF vars, rowVars
<1> QED
  BY <1>3, <1>4, <1>5, <1>6, <1>7, <1>8, <1>9, <1>10, <1>11
  DEF Next, InternalStep, SiteStep, ClaimStep

\* An execution on the site.
LEMMA SiteKeepsPromise ==
  ASSUME SysTypeOK, SiteInv, OnceInv, NEW w \in Pollers, NEW ok \in BOOLEAN,
         Plugin!Execute(w, ok), UNCHANGED vars
  PROVE  [Promise!Next]_(Promise!promiseVars)
<1>1. PICK o \in Orders : o = request[w].o
  BY EffectAdded
<1>2. o \in Served
  BY <1>1 DEF SiteInv, Plugin!Execute
<1>3. phaseBar[o] = "released"
  BY <1>2 DEF phaseBar, Served, PhaseOf, ServedStatuses
<1>4. ~Promise!Executed(o)
  BY <1>1 DEF OnceInv, Plugin!Execute, Before, Executed, Promise!Executed
<1>5. UNCHANGED <<phaseBar, undoes, Recorded>>
  BY DEF vars, rowVars, phaseBar, Recorded
<1>6. effects' = Append(effects, [o |-> o, ok |-> ok])
  BY <1>1 DEF Plugin!Execute
<1>7. Promise!Execute(o, ok)
  BY <1>3, <1>4, <1>5, <1>6 DEF Promise!Execute, phaseBar
<1> QED
  BY <1>7 DEF Promise!Next

\* What else happens on the site.
LEMMA OtherStepsExecuteNothing ==
  ASSUME [SysNext]_sysVars
  PROVE  \/ UNCHANGED effects
         \/ \E w \in Pollers, ok \in BOOLEAN : Plugin!Execute(w, ok) /\ UNCHANGED vars
<1>1. ASSUME NEW w \in Pollers, Plugin!LocalStep(w), \A ok \in BOOLEAN : ~Plugin!Execute(w, ok)
      PROVE  UNCHANGED effects
  BY <1>1 DEF Plugin!LocalStep, Plugin!CheckWindow, Plugin!CheckNonce, Plugin!Proceed,
     Plugin!StoreNonce, Plugin!RecordSuccess, Plugin!ReadFailures, Plugin!RecordFailure,
     Plugin!Report, Plugin!Die
<1>2. ASSUME NEW w \in Pollers,
             \/ SysPoll(w) \/ SysNoAnswer(w) \/ SysClaimUpdate(w) \/ SysAnswer(w)
             \/ SysCrashClaim(w) \/ \E o \in Orders : SysClaimSelect(w, o)
      PROVE  UNCHANGED effects
  BY <1>2 DEF SysPoll, SysNoAnswer, SysClaimUpdate, SysAnswer, SysCrashClaim, SysClaimSelect,
     Plugin!Poll, Plugin!NoAnswer, Plugin!Receive, siteVars
<1>3. ASSUME NEW o \in Orders, NEW ok \in BOOLEAN, SysReport(o, ok) PROVE UNCHANGED effects
  BY <1>3 DEF SysReport, Plugin!Deliver
<1>4. CASE UNCHANGED siteVars \/ Plugin!SetKillSwitch
  BY <1>4 DEF siteVars, Plugin!SetKillSwitch
<1> QED
  BY <1>1, <1>2, <1>3, <1>4 DEF SysNext, sysVars

LEMMA InitPromise == SysInit => Promise!Init
BY PhaseValues DEF SysInit, Init, Plugin!PluginInit, Promise!Init, Recorded

\* Control plane and site implement the promise, for a site that polls with one request at
\* a time and has no restore points, whatever is late, lost, retried or dies.
THEOREM ImplementsPromise ==
  ASSUME OneClaim, ~Capturing
  PROVE  SysSpec => PromiseSpec
<1>1. SysTypeOK /\ GateInv /\ SwitchInv /\ RevertedInv /\ SiteInv /\ OnceInv
        /\ [SysNext]_sysVars => [Promise!Next]_(Promise!promiseVars)
  <2> SUFFICES ASSUME SysTypeOK, GateInv, SwitchInv, RevertedInv, SiteInv, OnceInv,
                      [SysNext]_sysVars
      PROVE  [Promise!Next]_(Promise!promiseVars)
    OBVIOUS
  <2>1. CASE UNCHANGED effects
    BY <2>1, SysNextIsNext, ControlKeepsPromise DEF SysTypeOK, RevertedInv
  <2> QED
    BY <2>1, OtherStepsExecuteNothing, SiteKeepsPromise
<1>2. SysSpec => [](GateInv /\ SwitchInv /\ RevertedInv)
  BY ImplementsControlPlane, GateInvariant, SwitchInvariant, RevertedInvariant, PTL
<1> QED
  BY <1>1, <1>2, InitPromise, SiteInvariant, OnceInvariant, PTL
  DEF SysSpec, PromiseSpec, Promise!Spec

-----------------------------------------------------------------------------
(***************************************************************************)
(* What the promise is worth: it alone, whatever keeps it, has the two     *)
(* consequences that users of a site rely on.                              *)
(***************************************************************************)

\* An order that undoes another was issued after that one's success was recorded, what is
\* recorded happened, and whatever happened was released.
WorthInv ==
  /\ phaseBar \in [Orders -> {"absent", "asking", "refused", "released"}]
  /\ undoes \in [Orders -> Orders \cup {NoOrder}]
  /\ effects \in Seq([o : Orders, ok : BOOLEAN])
  /\ \A i \in DOMAIN effects :
       effects[i].o \in Orders /\ phaseBar[effects[i].o] = "released"
  /\ \A o \in Orders : undoes[o] # NoOrder => undoes[o] \in Recorded
  /\ \A o \in Recorded : Succeeded(o)
  /\ ExecutedAtMostOnce
  /\ UndoneBefore

LEMMA WorthExecute ==
  ASSUME WorthInv, NEW o \in Orders, NEW ok \in BOOLEAN, Promise!Execute(o, ok)
  PROVE  WorthInv'
<1> DEFINE e == [o |-> o, ok |-> ok]
<1>1. /\ phaseBar' = phaseBar /\ undoes' = undoes /\ Recorded' = Recorded
      /\ phaseBar[o] = "released" /\ effects' = Append(effects, e)
  BY DEF Promise!Execute, phaseBar
<1>2. \A i \in DOMAIN effects : effects[i].o # o
  BY DEF Promise!Execute, Promise!Executed
<1>3. effects \in Seq([o : Orders, ok : BOOLEAN]) /\ e \in [o : Orders, ok : BOOLEAN]
  BY DEF WorthInv
<1>4. /\ effects' \in Seq([o : Orders, ok : BOOLEAN])
      /\ DOMAIN effects = 1 .. Len(effects) /\ Len(effects) \in Nat
      /\ DOMAIN effects' = 1 .. Len(effects) + 1
      /\ \A i \in DOMAIN effects : effects'[i] = effects[i]
      /\ effects'[Len(effects) + 1] = e
  <2> HIDE DEF Orders, e
  <2> QED
    BY <1>1, <1>3
<1>5. \A i \in DOMAIN effects' : i \in DOMAIN effects \/ i = Len(effects) + 1
  BY <1>4
<1>6. \A i \in DOMAIN effects' :
        effects'[i].o \in Orders /\ phaseBar'[effects'[i].o] = "released"
  BY <1>1, <1>4, <1>5 DEF WorthInv
<1>7. \A q \in Orders : Succeeded(q) => Succeeded(q)'
  <2>1. DOMAIN effects \subseteq DOMAIN effects'
    BY <1>4
  <2> QED
    BY <1>4, <2>1 DEF Succeeded
<1>8. ExecutedAtMostOnce'
  BY <1>2, <1>4, <1>5 DEF WorthInv, ExecutedAtMostOnce
<1>9. UndoneBefore'
  <2> SUFFICES ASSUME NEW i \in DOMAIN effects', undoes[effects'[i].o] # NoOrder
      PROVE  \E j \in 1 .. i - 1 : effects'[j] = [o |-> undoes[effects'[i].o], ok |-> TRUE]
    BY <1>1 DEF UndoneBefore
  <2>1. CASE i \in DOMAIN effects
    <3>1. PICK j \in 1 .. i - 1 : effects[j] = [o |-> undoes[effects[i].o], ok |-> TRUE]
      BY <1>4, <2>1 DEF WorthInv, UndoneBefore
    <3>2. j \in DOMAIN effects
      BY <1>4, <2>1
    <3> QED
      BY <1>4, <2>1, <3>1, <3>2
  <2>2. CASE i = Len(effects) + 1
    <3>1. effects'[i].o = o /\ i - 1 = Len(effects)
      BY <1>4, <2>2
    <3>2. undoes[o] \in Recorded
      BY <3>1 DEF WorthInv
    <3>3. Succeeded(undoes[o])
      BY <3>2 DEF WorthInv
    <3> QED
      BY <1>4, <3>1, <3>3 DEF Succeeded
  <2> QED
    BY <1>5, <2>1, <2>2
<1>10. \A q \in Orders : undoes'[q] # NoOrder => undoes'[q] \in Recorded'
  BY <1>1 DEF WorthInv
<1>11. \A q \in Recorded' : Succeeded(q)'
  BY <1>1, <1>7 DEF WorthInv, Recorded
<1> QED
  BY <1>1, <1>4, <1>6, <1>8, <1>9, <1>10, <1>11 DEF WorthInv

LEMMA WorthStep == WorthInv /\ [Promise!Next]_(Promise!promiseVars) => WorthInv'
<1> SUFFICES ASSUME WorthInv, [Promise!Next]_(Promise!promiseVars) PROVE WorthInv'
  OBVIOUS
<1>1. ASSUME NEW o \in Orders, NEW from, NEW to \in {"asking", "refused", "released"},
             from \in {"absent", "asking"}, Promise!Decide(o, from, to),
             \/ undoes' = undoes
             \/ from = "absent" /\ \E q \in Recorded : undoes' = [undoes EXCEPT ![o] = q]
      PROVE  WorthInv'
  <2>1. /\ phaseBar' = [phaseBar EXCEPT ![o] = to] /\ phaseBar[o] = from
        /\ effects' = effects /\ Recorded' = Recorded
    BY <1>1 DEF Promise!Decide, phaseBar
  <2>2. \A i \in DOMAIN effects : effects[i].o \in Orders /\ effects[i].o # o
    <3>1. \A i \in DOMAIN effects :
            effects[i].o \in Orders /\ phaseBar[effects[i].o] = "released"
      BY DEF WorthInv
    <3>2. phaseBar[o] # "released"
      BY <1>1, <2>1
    <3> QED
      BY <3>1, <3>2
  <2>3. phaseBar' \in [Orders -> {"absent", "asking", "refused", "released"}]
    BY <1>1, <2>1 DEF WorthInv
  <2>4. undoes' \in [Orders -> Orders \cup {NoOrder}]
    BY <1>1 DEF WorthInv, Recorded
  <2>5. \A p \in Orders : undoes'[p] # NoOrder => undoes'[p] \in Recorded
    BY <1>1 DEF WorthInv
  <2>6. \A i \in DOMAIN effects : undoes'[effects[i].o] = undoes[effects[i].o]
    BY <1>1, <2>2 DEF WorthInv
  <2>7. \A i \in DOMAIN effects : phaseBar'[effects[i].o] = "released"
    BY <2>1, <2>2 DEF WorthInv
  <2>8. UndoneBefore'
    BY <2>1, <2>6 DEF WorthInv, UndoneBefore
  <2>9. ExecutedAtMostOnce' /\ \A q \in Recorded : Succeeded(q)'
    BY <2>1 DEF WorthInv, ExecutedAtMostOnce, Succeeded
  <2>10. effects' \in Seq([o : Orders, ok : BOOLEAN])
    BY <2>1 DEF WorthInv
  <2> QED
    BY <2>1, <2>2, <2>3, <2>4, <2>5, <2>7, <2>8, <2>9, <2>10 DEF WorthInv
<1>2. ASSUME NEW o \in Orders,
             Promise!Ask(o) \/ Promise!Trust(o) \/ Promise!Approve(o) \/ Promise!Refuse(o)
      PROVE  WorthInv'
  BY <1>1, <1>2 DEF Promise!Ask, Promise!Trust, Promise!Approve, Promise!Refuse
<1>3. ASSUME NEW o \in Orders, NEW q \in Orders, Promise!Undo(o, q) PROVE WorthInv'
  BY <1>1, <1>3 DEF Promise!Undo
<1>4. ASSUME NEW o \in Orders, Promise!Record(o) PROVE WorthInv'
  <2>1. /\ phaseBar' = phaseBar /\ UNCHANGED <<undoes, effects>>
        /\ Recorded' = Recorded \cup {o} /\ Succeeded(o)
    BY <1>4 DEF Promise!Record, Promise!Succeeded, Succeeded, phaseBar
  <2> QED
    BY <2>1 DEF WorthInv, ExecutedAtMostOnce, UndoneBefore, Succeeded
<1>5. CASE UNCHANGED Promise!promiseVars
  <2>1. phaseBar' = phaseBar /\ UNCHANGED <<undoes, effects>> /\ Recorded' = Recorded
    BY <1>5 DEF Promise!promiseVars, phaseBar
  <2> QED
    BY <2>1 DEF WorthInv, ExecutedAtMostOnce, UndoneBefore, Succeeded
<1> QED
  BY <1>2, <1>3, <1>4, <1>5, WorthExecute DEF Promise!Next

\* Any system that keeps the promise executes no order twice, executes an order that undoes
\* another only after that one has succeeded, and never executes the undone order again.
THEOREM WorthOfPromise == PromiseSpec => [](ExecutedAtMostOnce /\ CorrectiveComesLast)
<1>1. Promise!Init => WorthInv
  <2> SUFFICES ASSUME Promise!Init PROVE WorthInv
    OBVIOUS
  <2>1. phaseBar = [o \in Orders |-> "absent"] /\ Recorded = {} /\ effects = <<>>
    BY DEF Promise!Init, phaseBar
  <2>2. undoes = [o \in Orders |-> NoOrder]
    BY DEF Promise!Init
  <2>3. effects \in Seq([o : Orders, ok : BOOLEAN]) /\ DOMAIN effects = {}
    BY <2>1
  <2> QED
    BY <2>1, <2>2, <2>3 DEF WorthInv, ExecutedAtMostOnce, UndoneBefore
<1>2. WorthInv => ExecutedAtMostOnce /\ CorrectiveComesLast
  BY BeforeAndOnce DEF WorthInv
<1> QED
  BY <1>1, <1>2, WorthStep, PTL DEF PromiseSpec, Promise!Spec
=============================================================================
