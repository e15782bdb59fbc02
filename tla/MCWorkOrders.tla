---------------------------- MODULE MCWorkOrders ----------------------------
(***************************************************************************)
(* WorkOrders with the symmetry of its requests and workers.               *)
(***************************************************************************)
EXTENDS WorkOrders, TLC

\* Requests and workers differ by nothing but their name.
MCSymmetry == Permutations(Pollers) \cup Permutations(Runners)
=============================================================================
