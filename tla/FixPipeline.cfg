SPECIFICATION FairSpec
CONSTANTS
  Incidents = {i1}
  Plugins = {"p1", "p2", "p3"}
  Requests = {r1, r2}
  Sites <- MCSites
INVARIANTS TypeOK BusyIsOwned OpenIsQueued OnlyFixesStay FixesSurvive
PROPERTIES SearchIsExact DeclinedIsLeftAlone WorkEnds
CHECK_DEADLOCK FALSE
