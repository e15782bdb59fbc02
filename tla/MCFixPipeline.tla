--------------------------- MODULE MCFixPipeline ---------------------------
(***************************************************************************)
(* FixPipeline on the kinds of site that differ in what they let happen.   *)
(***************************************************************************)
EXTENDS FixPipeline

Plain == [staging |-> FALSE, watchdog |-> FALSE, loopback |-> TRUE,
          signature |-> "none", keys |-> TRUE, plugins |-> {"p1"}, faults |-> {},
          events |-> 2]

\* Searches among three plugins, with faults, and with more going on meanwhile.
MCSearches ==
  {[Plain EXCEPT !.plugins = Plugins],
   [Plain EXCEPT !.watchdog = TRUE, !.faults = {"crash", "lost", "stale"}],
   [Plain EXCEPT !.watchdog = TRUE, !.events = 3]}

\* What decides without a search: staging, signatures, no model, no way in.
MCRoutes ==
  {[Plain EXCEPT !.staging = TRUE], [Plain EXCEPT !.keys = FALSE],
   [Plain EXCEPT !.loopback = FALSE]} \cup
  {[Plain EXCEPT !.signature = s] : s \in {"database", "woocommerce", "layout"}}

MCSites == MCSearches \cup MCRoutes
=============================================================================
