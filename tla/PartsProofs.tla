----------------------------- MODULE PartsProofs -----------------------------
(***************************************************************************)
(* The parts side by side: a step is one of the part that is looked at,    *)
(* and what is proved of each part on its own holds of it here.            *)
(***************************************************************************)
EXTENDS MCParts, SiteLinkProofs, DetectorsProofs, DashboardProofs

\* What makes the types of each part inductive.
PartsTypeInv ==
  /\ part \in {"link", "detectors", "console", "reports", "panels"}
  /\ part = "link" => LinkInv
  /\ part = "detectors" => DetectorsTypeOK
  /\ part = "console" => ConsoleTypeInv
  /\ part = "reports" => ReportsTypeOK
  /\ part = "panels" => PanelsTypeInv

\* The types of every part hold, for all values of its constants, whatever its tasks, requests
\* and clicks do (Detectors, SiteLink, Console, Reports, Panels).
THEOREM PartsTypeCorrect == Spec => []PartsTypeOK
<1>1. Init => PartsTypeInv
  <2> SUFFICES ASSUME Init PROVE PartsTypeInv
    OBVIOUS
  <2>1. part = "link" => LinkInv
    BY LinkInvInit DEF Init
  <2>2. part = "detectors" => DetectorsTypeOK
    BY DetectorsTypesInit DEF Init
  <2>3. part = "console" => ConsoleTypeInv
    BY ConsoleTypesInit DEF Init
  <2>4. part = "reports" => ReportsTypeOK
    BY ReportsTypesInit DEF Init
  <2>5. part = "panels" => PanelsTypeInv
    BY PanelsTypesInit DEF Init
  <2> QED
    BY <2>1, <2>2, <2>3, <2>4, <2>5 DEF Init, PartsTypeInv
<1>2. PartsTypeInv /\ [Next]_partVars => PartsTypeInv'
  <2> SUFFICES ASSUME PartsTypeInv, [Next]_partVars PROVE PartsTypeInv'
    OBVIOUS
  <2>1. part' = part
    BY DEF Next, partVars
  <2>2. ASSUME part = "link" PROVE LinkInv'
    <3>1. [LinkNext]_linkVars
      BY <2>2 DEF Next, partVars
    <3> QED
      BY <2>2, <3>1, LinkInvNext DEF PartsTypeInv
  <2>3. ASSUME part = "detectors" PROVE DetectorsTypeOK'
    <3>1. [DetectorsNext]_detectorVars
      BY <2>3 DEF Next, partVars
    <3> QED
      BY <2>3, <3>1, DetectorsTypesNext DEF PartsTypeInv
  <2>4. ASSUME part = "console" PROVE ConsoleTypeInv'
    <3>1. [ConsoleNext]_consoleVars
      BY <2>4 DEF Next, partVars
    <3> QED
      BY <2>4, <3>1, ConsoleTypesNext DEF PartsTypeInv
  <2>5. ASSUME part = "reports" PROVE ReportsTypeOK'
    <3>1. [ReportsNext]_reportVars
      BY <2>5 DEF Next, partVars
    <3> QED
      BY <2>5, <3>1, ReportsTypesNext DEF PartsTypeInv
  <2>6. ASSUME part = "panels" PROVE PanelsTypeInv'
    <3>1. [PanelsNext]_panelVars
      BY <2>6 DEF Next, partVars
    <3> QED
      BY <2>6, <3>1, PanelsTypesNext DEF PartsTypeInv
  <2> QED
    BY <2>1, <2>2, <2>3, <2>4, <2>5, <2>6 DEF PartsTypeInv
<1>3. PartsTypeInv => PartsTypeOK
  BY ConsoleIsTyped, PanelsAreTyped DEF PartsTypeInv, PartsTypeOK, LinkInv
<1> QED
  BY <1>1, <1>2, <1>3, PTL DEF Spec

\* What makes each part safe; a part that rests does not leave the state it starts in.
PartsInv ==
  /\ part = "link" => LinkInv
  /\ part # "link" => \A i \in Slots : ~Used(i)
  /\ SweepInv /\ ConsoleInv /\ PanelsInv /\ Measured /\ ResolvedInv

LEMMA PartsInvInit == Init => PartsInv
<1> SUFFICES ASSUME Init PROVE PartsInv
  OBVIOUS
<1>1. part = "link" => LinkInv
  BY LinkInvInit DEF Init
<1>2. \A i \in Slots : part # "link" => ~Used(i)
  BY DEF Init, LinkInit, Used
<1>3. SweepInv
  BY SweepInvInit DEF Init
<1>4. ConsoleInv
  BY ConsoleInvInit DEF Init
<1>5. PanelsInv
  BY PanelsInvInit DEF Init
<1>6. Measured /\ ResolvedInv
  BY FiguresInit DEF Init
<1> QED
  BY <1>1, <1>2, <1>3, <1>4, <1>5, <1>6 DEF PartsInv

LEMMA PartsInvNext == PartsInv /\ [Next]_partVars => PartsInv'
<1> SUFFICES ASSUME PartsInv, [Next]_partVars PROVE PartsInv'
  OBVIOUS
<1>1. part' = part
  BY DEF Next, partVars
<1>2. part = "link" => LinkInv'
  <2>1. part = "link" => [LinkNext]_linkVars
    BY DEF Next, partVars
  <2> QED
    BY <2>1, LinkInvNext DEF PartsInv
<1>3. part # "link" => \A i \in Slots : ~Used(i)'
  <2>1. part # "link" => UNCHANGED linkVars
    BY DEF Next, partVars
  <2>2. part # "link" => calls' = calls
    BY <2>1 DEF linkVars
  <2> QED
    BY <2>2 DEF PartsInv, Used
<1>4. SweepInv'
  <2>1. [DetectorsNext]_detectorVars
    BY DEF Next, partVars
  <2> QED
    BY <2>1, SweepInvNext DEF PartsInv
<1>5. ConsoleInv'
  <2>1. [ConsoleNext]_consoleVars
    BY DEF Next, partVars
  <2> QED
    BY <2>1, ConsoleInvNext DEF PartsInv
<1>6. PanelsInv'
  <2>1. [PanelsNext]_panelVars
    BY DEF Next, partVars
  <2> QED
    BY <2>1, PanelsInvNext DEF PartsInv
<1>7. Measured' /\ ResolvedInv'
  <2>1. [ReportsNext]_reportVars
    BY DEF Next, partVars
  <2> QED
    BY <2>1, FiguresNext DEF PartsInv
<1> QED
  BY <1>1, <1>2, <1>3, <1>4, <1>5, <1>6, <1>7 DEF PartsInv

\* Of the parts side by side, as the runs look at them, all that is proved of each: a request is
\* served once, a snapshot's row has its content, and pages, panels and reports are truthful.
THEOREM PartsAreSafe ==
  Spec => [](ServedOnce /\ NoDanglingRow /\ PagesAreTruthful /\ PanelsAreTruthful
             /\ EveryFixIsReportedOnce)
<1>1. PartsInv => ServedOnce
  <2>1. LinkInv => ServedOnce
    BY DEF LinkInv, AllOnce, Once, ServedOnce
  <2> QED
    BY <2>1 DEF PartsInv, ServedOnce
<1>2. PartsInv => /\ NoDanglingRow /\ PagesAreTruthful /\ PanelsAreTruthful
                  /\ EveryFixIsReportedOnce
  BY SweepInvSafe, ConsoleInvSafe, PanelsInvSafe, OnceReported DEF PartsInv
<1> QED
  BY <1>1, <1>2, PartsInvInit, PartsInvNext, PTL DEF Spec

\* And bad news, but for a certificate that expires, improves no score, check, vital or state
\* and no incident's share of the revenue, whatever part is looked at.
THEOREM PartsTakeNoComfort ==
  Spec => [][Worsens /\ ~CertificateExpires => NothingImproves]_reportVars
<1>1. [Next]_partVars => [ReportsNext]_reportVars
  BY DEF Next, partVars
<1>2. Worsens => ReportsNext \/ ~[ReportsNext]_reportVars
  BY DEF Worsens
<1>3. PartsInv => Measured /\ ResolvedInv
  BY DEF PartsInv
<1> QED
  BY <1>1, <1>2, <1>3, PartsInvInit, PartsInvNext, NothingGetsBetter, PTL
  DEF Spec
==============================================================================
