-------------------------- MODULE WorkOrderSystem --------------------------
(***************************************************************************)
(* A work order from end to end: the control plane of WorkOrders and one   *)
(* site's plugin of PluginExecutor, joined by the three HTTP exchanges     *)
(* between them: the claim, its answer and the report.  An answer may come *)
(* too late or never, and a report may be lost for good.                   *)
(*                                                                         *)
(* A claim request of WorkOrders and the PHP request that waits for it     *)
(* share a name, so that a PHP request whose claim timed out polls again   *)
(* only under a name whose claim the API has finished with.                *)
(***************************************************************************)
EXTENDS WorkOrders, Sequences

CONSTANT FailureThreshold

ASSUME SystemAssumption == FailureThreshold \in Nat \ {0}

VARIABLES killSwitch, safeMode, failures, nonces, request, reports, effects,
          streak

Plugin == INSTANCE PluginExecutor WITH Requests <- Pollers

siteVars == <<killSwitch, safeMode, failures, nonces, request, reports, effects,
              streak>>
sysVars == <<vars, siteVars>>

SysTypeOK == TypeOK /\ Plugin!PluginTypeOK

SysInit == Init /\ Plugin!PluginInit

-----------------------------------------------------------------------------
SysPoll(w) ==
  /\ claim[w].pc = "idle"
  /\ Plugin!Poll(w)
  /\ UNCHANGED vars

\* The API takes the request up.
SysClaimSelect(w, o) ==
  /\ request[w].pc = "claiming"
  /\ ClaimSelect(w, o)
  /\ UNCHANGED siteVars

SysClaimUpdate(w) == ClaimUpdate(w) /\ UNCHANGED siteVars

\* The API answers: in time, or the request has given up.
SysAnswer(w) ==
  /\ ClaimAudit(w)
  /\ IF request[w].pc = "claiming"
     THEN Plugin!Receive(w, claim[w].o)
     ELSE UNCHANGED siteVars

SysNoAnswer(w) == Plugin!NoAnswer(w) /\ UNCHANGED vars

\* The API dies while it handles a claim: the connection breaks.
SysCrashClaim(w) ==
  /\ CrashClaim(w)
  /\ IF request[w].pc = "claiming"
     THEN Plugin!NoAnswer(w)
     ELSE UNCHANGED siteVars

\* A report arrives; in any status but claimed it is answered with a 409.
SysReport(o, ok) ==
  /\ Plugin!Deliver(o, ok)
  /\ \/ ReportResult(o, ok)
     \/ ~Reportable(o) /\ UNCHANGED vars

SysNext ==
  \/ InternalStep /\ UNCHANGED siteVars
  \/ Plugin!SetKillSwitch /\ UNCHANGED vars
  \/ \E w \in Pollers :
       \/ SysPoll(w) \/ SysNoAnswer(w)
       \/ \E o \in Orders : SysClaimSelect(w, o)
       \/ SysClaimUpdate(w) \/ SysAnswer(w) \/ SysCrashClaim(w)
       \/ Plugin!LocalStep(w) /\ UNCHANGED vars
  \/ \E o \in Orders, ok \in BOOLEAN : SysReport(o, ok)

SysSpec == SysInit /\ [][SysNext]_sysVars

-----------------------------------------------------------------------------
(***************************************************************************)
(* Properties.                                                             *)
(***************************************************************************)

Executed == {effects[i].o : i \in DOMAIN effects}
Succeeded(o) == \E i \in DOMAIN effects : effects[i] = [o |-> o, ok |-> TRUE]

\* The system is an implementation of the control plane's specification: what
\* is shown of WorkOrders with an arbitrary site holds with this one.
ImplementsWorkOrders == Spec

\* Whatever the plugin has executed is whitelisted and was let pass: by the policy
\* at low risk, by a human, or by the system to undo another order.
ExecutedWasGranted ==
  \A o \in Executed :
    /\ action[o] \in Plugin!ActionWhitelist
    /\ o \in Served
    /\ \/ grant[o] = "policy" /\ ActionRiskMap[action[o]] = "low"
       \/ grant[o] = "human"
       \/ grant[o] = "system" /\ undoes[o] \in Orders

\* A success in the audit trail, or an armed switch, means that the order was
\* executed on the site and succeeded there.
RecordIsTruthful ==
  \A o \in Orders :
    o \in armed \/ <<"executed_success", o>> \in audit => Succeeded(o)

\* The inductive invariant from which WorkOrderSystemProofs proves the two above: an
\* order that a PHP request has in hand has been served to it, and a success that is
\* reported, or on its way, has happened.
SiteInv ==
  /\ \A w \in Pollers :
       request[w].pc \notin {"idle", "claiming"} =>
         /\ request[w].o \in Served
         /\ request[w].pc = "execute" => action[request[w].o] \in Plugin!ActionWhitelist
         /\ request[w].ok => Succeeded(request[w].o)
  /\ \A i \in DOMAIN effects :
       effects[i].o \in Served /\ action[effects[i].o] \in Plugin!ActionWhitelist
  /\ \A o \in Orders :
       <<o, TRUE>> \in reports \/ <<"executed_success", o>> \in audit \cup todo
         => Succeeded(o)

\* A corrective order never overtakes the order it undoes: when it is executed the
\* site has executed that order, and no execution of it comes later.
CorrectiveComesLast ==
  \A i \in DOMAIN effects :
    LET o == undoes[effects[i].o]
    IN  o # NoOrder =>
          /\ \E j \in 1 .. i - 1 : effects[j] = [o |-> o, ok |-> TRUE]
          /\ \A j \in DOMAIN effects : j > i => effects[j].o # o

\* No order is executed twice: the nonce of the validator sees to it.
ExecutedAtMostOnce ==
  \A i, j \in DOMAIN effects : effects[i].o = effects[j].o => i = j

\* The orders whose success is in the audit trail.
Recorded == {o \in Orders : <<"executed_success", o>> \in audit}

Promise == INSTANCE ExecutionPromise
             WITH phase <- [o \in Orders |-> PhaseOf(status[o])], recorded <- Recorded

\* Control plane and site keep one promise together: an order is executed at most once
\* and never before it is released, a success is on record only after it happened, and
\* an order that undoes another is not even issued until the other's success is on
\* record; no late answer, lost report, dead process or purge of nonces breaks it.
PromiseSpec == Promise!Spec

\* FailureThreshold failures in a row put the plugin into safe mode.
FailuresTripSafeMode == streak >= FailureThreshold => safeMode
=============================================================================
