-------------------------- MODULE ExecutionPromise --------------------------
(***************************************************************************)
(* What the control plane and a site that polls with one request at a time *)
(* promise together, with every claim, nonce, report and job left out: an  *)
(* order is executed at most once and only after it was released, a success*)
(* goes on record only after it happened, and an order that undoes another *)
(* is issued only once that one's success is on record.                    *)
(*                                                                         *)
(* WorkOrderSystem implements this module; the refinement is checked by    *)
(* TLC and proved in WorkOrderSystemProofs, and so is what it is worth.    *)
(***************************************************************************)
EXTENDS Sequences

CONSTANTS Orders, NoOrder

VARIABLES
  phase,     \* what has been decided about each order
  undoes,    \* the order that each order was issued to undo
  effects,   \* what has been executed, in order, and whether it succeeded
  recorded   \* the orders whose success is on record

promiseVars == <<phase, undoes, effects, recorded>>

Executed(o)  == \E i \in DOMAIN effects : effects[i].o = o
Succeeded(o) == \E i \in DOMAIN effects : effects[i] = [o |-> o, ok |-> TRUE]

Init ==
  /\ phase    = [o \in Orders |-> "absent"]
  /\ undoes   = [o \in Orders |-> NoOrder]
  /\ effects  = <<>>
  /\ recorded = {}

Decide(o, from, to) ==
  /\ phase[o] = from
  /\ phase' = [phase EXCEPT ![o] = to]
  /\ UNCHANGED <<effects, recorded>>

Ask(o)     == Decide(o, "absent", "asking")   /\ UNCHANGED undoes
Trust(o)   == Decide(o, "absent", "released") /\ UNCHANGED undoes
Approve(o) == Decide(o, "asking", "released") /\ UNCHANGED undoes
Refuse(o)  == Decide(o, "asking", "refused")  /\ UNCHANGED undoes

\* The system releases an order of its own to undo the order q.
Undo(o, q) ==
  /\ q \in recorded
  /\ Decide(o, "absent", "released")
  /\ undoes' = [undoes EXCEPT ![o] = q]

Execute(o, ok) ==
  /\ phase[o] = "released"
  /\ ~Executed(o)
  /\ effects' = Append(effects, [o |-> o, ok |-> ok])
  /\ UNCHANGED <<phase, undoes, recorded>>

Record(o) ==
  /\ Succeeded(o)
  /\ recorded' = recorded \cup {o}
  /\ UNCHANGED <<phase, undoes, effects>>

Next ==
  \E o \in Orders :
    \/ Ask(o) \/ Trust(o) \/ Approve(o) \/ Refuse(o) \/ Record(o)
    \/ \E q \in Orders : Undo(o, q)
    \/ \E ok \in BOOLEAN : Execute(o, ok)

Spec == Init /\ [][Next]_promiseVars
=============================================================================
