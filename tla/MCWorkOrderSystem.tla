------------------------- MODULE MCWorkOrderSystem -------------------------
(***************************************************************************)
(* WorkOrderSystem with the symmetry of its requests and workers.          *)
(***************************************************************************)
EXTENDS WorkOrderSystem, TLC

MCSymmetry == Permutations(Pollers) \cup Permutations(Runners)
=============================================================================
