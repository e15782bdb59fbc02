---------------------------- MODULE ApprovalGate ----------------------------
(***************************************************************************)
(* What the policy engine and the approval endpoints promise together, with*)
(* every mechanism left out: an order may be served to a site only once it *)
(* has been released, it is released by the policy, by the system (to undo *)
(* its own work) or by a human, and a refusal is final.                    *)
(*                                                                         *)
(* WorkOrders implements this module; the refinement is checked by TLC and *)
(* proved in WorkOrdersProofs.                                             *)
(***************************************************************************)
CONSTANT Orders

VARIABLES
  phase,    \* what has been decided about each order
  grant,    \* who let it pass, "nobody" while nobody has
  served    \* the orders that have ever been handed to a site

gateVars == <<phase, grant, served>>

Phases == {"absent", "asking", "refused", "released"}
Grants == {"nobody", "policy", "system", "human"}

Init ==
  /\ phase  = [o \in Orders |-> "absent"]
  /\ grant  = [o \in Orders |-> "nobody"]
  /\ served = {}

\* An order that needs a human: nothing about it may happen yet.
Ask(o) ==
  /\ phase[o] = "absent"
  /\ phase' = [phase EXCEPT ![o] = "asking"]
  /\ UNCHANGED <<grant, served>>

\* An order the policy allows, or one the system issues to undo its own work.
Trust(o, who) ==
  /\ phase[o] = "absent"
  /\ phase' = [phase EXCEPT ![o] = "released"]
  /\ grant' = [grant EXCEPT ![o] = who]
  /\ UNCHANGED served

Approve(o) ==
  /\ phase[o] = "asking"
  /\ phase' = [phase EXCEPT ![o] = "released"]
  /\ grant' = [grant EXCEPT ![o] = "human"]
  /\ UNCHANGED served

Refuse(o) ==
  /\ phase[o] = "asking"
  /\ phase' = [phase EXCEPT ![o] = "refused"]
  /\ UNCHANGED <<grant, served>>

Serve(o) ==
  /\ phase[o] = "released"
  /\ served' = served \cup {o}
  /\ UNCHANGED <<phase, grant>>

Next ==
  \E o \in Orders :
    \/ Ask(o)
    \/ \E who \in {"policy", "system"} : Trust(o, who)
    \/ Approve(o)
    \/ Refuse(o)
    \/ Serve(o)

Spec == Init /\ [][Next]_gateVars
=============================================================================
