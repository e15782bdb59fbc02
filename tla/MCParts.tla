------------------------------ MODULE MCParts ------------------------------
(***************************************************************************)
(* The parts that share no state in the model, side by side: a behaviour   *)
(* is one of one part, and the others rest in a state in which nothing     *)
(* happens of itself.                                                      *)
(***************************************************************************)
EXTENDS SiteLink, Detectors, Console, Reports, Panels

VARIABLE part
partVars == <<part, linkVars, detectorVars, consoleVars, reportVars, panelVars>>

\* One kind of site per question, so that only faults that meet are combined.
Kind(ahead, what, befalls, changes) ==
  [skew |-> ahead, does |-> what, faults |-> befalls, toggles |-> changes]
AtRest == Kind(0, {}, {}, 0)
SomeLinks ==
  {AtRest,
   Kind(0, {"beat"}, {"lost"}, 1), Kind(0, {"beat"}, {"copied"}, 1),
   Kind(0, {"beat"}, {"overlap"}, 2), Kind(-1, {"beat"}, {"copied"}, 1),
   Kind(1, {"beat"}, {"copied"}, 0), Kind(0, {"beat", "delete"}, {}, 1),
   Kind(0, {"events"}, {"lost"}, 0), Kind(0, {"events"}, {"died"}, 0),
   Kind(0, {"watchdog"}, {"lost"}, 0), Kind(0, {"beat", "outage", "drift"}, {}, 0)}
SomeMoves == [stream |-> 2, settings |-> 3, updates |-> 2, card |-> 3]
SomeNames == [p |-> {"p", "q"}, q |-> {"q"}]  \* "q" contains "p"
SomeClocks == [health |-> 0, store |-> 5, months |-> 15]
SomeIncidents == [health |-> {"i1"}, store |-> {"i1", "i2"}, months |-> {"i1"}]
SomeClicks == [catalog |-> 3, restore |-> 5, switch |-> 4, progress |-> 0]

Init ==
  /\ part \in {"link", "detectors", "console", "reports", "panels"}
  /\ LinkInit(IF part = "link" THEN Links ELSE {AtRest})
  /\ DetectorsInit(IF part = "detectors" THEN Watches ELSE {"snapshots"})
  /\ ConsoleInit(IF part = "console" THEN Pages ELSE {"card"})
  /\ ReportsInit(IF part = "reports" THEN Topics ELSE {"health"})
  /\ PanelsInit(IF part = "panels" THEN Panels ELSE {"switch"})

Next ==
  /\ UNCHANGED part
  /\ \/ part = "link" /\ LinkNext
        /\ UNCHANGED <<detectorVars, consoleVars, reportVars, panelVars>>
     \/ part = "detectors" /\ DetectorsNext
        /\ UNCHANGED <<linkVars, consoleVars, reportVars, panelVars>>
     \/ part = "console" /\ ConsoleNext
        /\ UNCHANGED <<linkVars, detectorVars, reportVars, panelVars>>
     \/ part = "reports" /\ ReportsNext
        /\ UNCHANGED <<linkVars, detectorVars, consoleVars, panelVars>>
     \/ part = "panels" /\ PanelsNext
        /\ UNCHANGED <<linkVars, detectorVars, consoleVars, reportVars>>

Spec == Init /\ [][Next]_partVars /\ LinkFairness /\ DetectorsFairness /\ ConsoleFairness

\* Every part keeps its types, whatever its tasks, requests and clicks do.
PartsTypeOK ==
  CASE part = "link" -> LinkTypeOK
    [] part = "detectors" -> DetectorsTypeOK
    [] part = "console" -> ConsoleTypeOK
    [] part = "reports" -> ReportsTypeOK
    [] part = "panels" -> PanelsTypeOK
=============================================================================
