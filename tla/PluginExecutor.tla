--------------------------- MODULE PluginExecutor ---------------------------
(***************************************************************************)
(* The site's side of a work order: the PHP requests whose shutdown hook   *)
(* polls for an order, validates it, executes it and reports the result.   *)
(*                                                                         *)
(*   packages/plugin/core/WorkOrderPoller.php        poll                  *)
(*   packages/plugin/safety/WorkOrderValidator.php   validate              *)
(*   packages/plugin/safety/SafeMode.php             the failure counter   *)
(*   packages/plugin/wp7/ActionExecutor.php          execute               *)
(*                                                                         *)
(* PHP requests run concurrently and share WordPress options, which they   *)
(* read and write without locks: one step is one read or write of one.     *)
(* Two requests may poll together because LAST_POLLED_OPTION, which is to  *)
(* space polls out, is itself read first and written later.                *)
(*                                                                         *)
(* The wire payload of an order is its row's action and expiry, which the  *)
(* control plane owns and this module only reads.  Signatures are taken as *)
(* unforgeable: an order that arrives is one that was issued.              *)
(***************************************************************************)
EXTENDS Naturals, Sequences, Policy

CONSTANTS
  Orders,            \* the ids of the orders
  Requests,          \* PHP requests that poll at the same time
  FailureThreshold   \* FAILURE_THRESHOLD of SafeMode, 3 in the code

VARIABLES
  action, lapsed,    \* the control plane's: what the payloads say
  killSwitch,        \* KillSwitch: ACTIVE_OPTION
  safeMode,          \* SafeMode: ACTIVE_OPTION
  failures,          \* SafeMode: FAILURE_COUNT_OPTION
  nonces,            \* orders with a syntaxwp_nonce_ transient
  request,           \* the PHP requests: where poll() stands in each of them
  reports,           \* reports on their way, <<order, success>>
  effects,           \* history: what was executed on the site, in order
  streak             \* history: failures recorded since a success was

optionVars == <<killSwitch, safeMode, failures, nonces>>
pluginVars == <<killSwitch, safeMode, failures, nonces, request, reports,
                effects, streak>>

RequestPCs == {"idle", "claiming", "window", "nonce", "store", "execute",
               "succeeded", "failing", "failed", "report"}

Idle == [pc |-> "idle"]

\* A request that holds an order: ran says that the order was executed, ok how
\* it ended, seen is the failure count the request has read.
Holding(pc, o, ran, ok, seen) ==
  [pc |-> pc, o |-> o, ran |-> ran, ok |-> ok, seen |-> seen]

RequestStates ==
  [pc : {"idle", "claiming"}]
    \cup [pc : RequestPCs \ {"idle", "claiming"}, o : Orders, ran : BOOLEAN,
          ok : BOOLEAN, seen : 0 .. FailureThreshold - 1]

PluginTypeOK ==
  /\ killSwitch \in BOOLEAN
  /\ safeMode   \in BOOLEAN
  /\ failures   \in 0 .. FailureThreshold - 1
  /\ nonces     \subseteq Orders
  /\ request    \in [Requests -> RequestStates]
  /\ reports    \subseteq (Orders \X BOOLEAN)
  /\ effects    \in Seq([o : Orders, ok : BOOLEAN])
  /\ streak     \in Nat

PluginInit ==
  /\ killSwitch = FALSE
  /\ safeMode   = FALSE
  /\ failures   = 0
  /\ nonces     = {}
  /\ request    = [w \in Requests |-> Idle]
  /\ reports    = {}
  /\ effects    = <<>>
  /\ streak     = 0

-----------------------------------------------------------------------------
(***************************************************************************)
(* The kill switch.  The heartbeat's answer sets it to what the control    *)
(* plane wants at that time; here it may be set to anything.               *)
(***************************************************************************)

SetKillSwitch ==
  /\ killSwitch' = ~killSwitch
  /\ UNCHANGED <<safeMode, failures, nonces, request, reports, effects, streak>>

-----------------------------------------------------------------------------
(***************************************************************************)
(* poll: the two safety flags, then the claim and its answer.              *)
(***************************************************************************)

Poll(w) ==
  /\ request[w].pc = "idle"
  /\ ~killSwitch /\ ~safeMode
  /\ request' = [request EXCEPT ![w] = [pc |-> "claiming"]]
  /\ UNCHANGED <<optionVars, reports, effects, streak>>

\* There is no order, the answer is an error, or it takes longer than 5 seconds.
NoAnswer(w) ==
  /\ request[w].pc = "claiming"
  /\ request' = [request EXCEPT ![w] = Idle]
  /\ UNCHANGED <<optionVars, reports, effects, streak>>

Receive(w, o) ==
  /\ request[w].pc = "claiming"
  /\ request' = [request EXCEPT ![w] = Holding("window", o, FALSE, FALSE, 0)]
  /\ UNCHANGED <<optionVars, reports, effects, streak>>

-----------------------------------------------------------------------------
(***************************************************************************)
(* validate: the window, then the nonce, which is looked up and stored in  *)
(* two steps, then the whitelist.  The nonce's own lifetime (600 seconds)  *)
(* is longer than the window (300), so its expiry needs no step.           *)
(***************************************************************************)

Proceed(w, pc) ==
  /\ request' = [request EXCEPT ![w].pc = pc]
  /\ UNCHANGED <<optionVars, reports, effects, streak>>

CheckWindow(w) ==
  /\ request[w].pc = "window"
  /\ IF lapsed[request[w].o] THEN Proceed(w, "failing") ELSE Proceed(w, "nonce")

CheckNonce(w) ==
  /\ request[w].pc = "nonce"
  /\ IF request[w].o \in nonces THEN Proceed(w, "failing") ELSE Proceed(w, "store")

\* ALLOWED_ACTIONS, as far as an order can ask for them.
ActionWhitelist == WorkOrderActions \ Blocked

StoreNonce(w) ==
  /\ request[w].pc = "store"
  /\ nonces' = nonces \cup {request[w].o}
  /\ request' = [request EXCEPT ![w].pc =
                   IF action[request[w].o] \in ActionWhitelist THEN "execute"
                   ELSE "failing"]
  /\ UNCHANGED <<killSwitch, safeMode, failures, reports, effects, streak>>

-----------------------------------------------------------------------------
(***************************************************************************)
(* execute and its aftermath.                                              *)
(***************************************************************************)

\* What execute() may answer: the purges cannot fail, the actions that call
\* WordPress or an upgrader may, and the rest is not implemented.
CannotFail  == {"flush_cache", "clear_transients"}
Implemented == CannotFail \cup {"deactivate_plugin", "activate_plugin", "update_plugin",
                                "update_core", "verify_core_integrity"}
Outcomes(a) ==
  CASE a \in CannotFail                -> {TRUE}
    [] a \in Implemented \ CannotFail  -> BOOLEAN
    [] a \notin Implemented            -> {FALSE}

\* clear_transients deletes every transient of the site, the nonces included.
Execute(w, ok) ==
  LET o == request[w].o
  IN  /\ request[w].pc = "execute"
      /\ ok \in Outcomes(action[o])
      /\ effects' = Append(effects, [o |-> o, ok |-> ok])
      /\ nonces'  = IF action[o] = "clear_transients" THEN {} ELSE nonces
      /\ request' = [request EXCEPT ![w] =
                       Holding(IF ok THEN "succeeded" ELSE "failing", o, TRUE, ok, 0)]
      /\ UNCHANGED <<killSwitch, safeMode, failures, reports, streak>>

RecordSuccess(w) ==
  /\ request[w].pc = "succeeded"
  /\ failures' = 0
  /\ streak'   = 0
  /\ request'  = [request EXCEPT ![w].pc = "report"]
  /\ UNCHANGED <<killSwitch, safeMode, nonces, reports, effects>>

ReadFailures(w) ==
  /\ request[w].pc = "failing"
  /\ request' = [request EXCEPT ![w].pc = "failed", ![w].seen = failures]
  /\ UNCHANGED <<optionVars, reports, effects, streak>>

\* Fault: the threshold is off by one.
TrippedLate(count) == count > FailureThreshold

Tripped(count) == count >= FailureThreshold

\* An order that was not executed is not reported: the request ends here.
RecordFailure(w) ==
  LET count == request[w].seen + 1
  IN  /\ request[w].pc = "failed"
      /\ safeMode' = (safeMode \/ Tripped(count))
      /\ failures' = IF Tripped(count) THEN 0 ELSE count
      /\ request'  = IF request[w].ran THEN [request EXCEPT ![w].pc = "report"]
                     ELSE [request EXCEPT ![w] = Idle]
      /\ streak'   = streak + 1
      /\ UNCHANGED <<killSwitch, nonces, reports, effects>>

OutcomeOf(w) == <<request[w].o, request[w].ok>>

\* reportResult does not wait: the report is on its way, or is lost.
Report(w) ==
  /\ request[w].pc = "report"
  /\ reports' = reports \cup {OutcomeOf(w)}
  /\ request' = [request EXCEPT ![w] = Idle]
  /\ UNCHANGED <<optionVars, effects, streak>>

\* The control plane has received a report.
Deliver(o, ok) ==
  /\ <<o, ok>> \in reports
  /\ reports' = reports \ {<<o, ok>>}
  /\ UNCHANGED <<optionVars, request, effects, streak>>

\* PHP dies: a fatal error, a time limit, a restart of the server.
Die(w) ==
  /\ request[w].pc \notin {"idle", "claiming"}
  /\ request' = [request EXCEPT ![w] = Idle]
  /\ UNCHANGED <<optionVars, reports, effects, streak>>

LocalStep(w) ==
  \/ CheckWindow(w) \/ CheckNonce(w) \/ StoreNonce(w)
  \/ \E ok \in BOOLEAN : Execute(w, ok)
  \/ RecordSuccess(w) \/ ReadFailures(w) \/ RecordFailure(w)
  \/ Report(w) \/ Die(w)
=============================================================================
