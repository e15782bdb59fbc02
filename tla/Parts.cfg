SPECIFICATION Spec
CONSTANTS
  Window = 1
  Drift = 2
  RateMax = 2
  Slots = {1, 2}
  Events = {"e1", "e2"}
  Links <- SomeLinks
  Files = {"f1", "f2"}
  Snapshots = {"s1", "s2"}
  Watches = {"core", "checkout", "speed", "vitals", "expiry", "plugins", "snapshots"}
  MaxFailures = 1
  Tiers = {"t1", "t2", "t3"}
  Slugs = {"p", "q"}
  Named <- SomeNames
  Pages = {"stream", "settings", "updates", "card"}
  MaxVersion = 1
  MaxMoves <- SomeMoves
  Incidents = {"i1", "i2"}
  Known <- SomeIncidents
  SslDays = {0, 2, 14, 90}
  FirstMonth = 11
  MaxClock <- SomeClocks
  ThirtyDays = 3
  Topics = {"health", "store", "months"}
  Sites = {"s1", "s2"}
  Points = {"a", "b"}
  Invertible = {"a"}
  LogRows = 3
  Panels = {"catalog", "restore", "switch", "progress"}
  MaxClicks <- SomeClicks
INVARIANTS
  PartsTypeOK
  ServedOnce
  NoDanglingRow
  PagesAreTruthful
  EveryFixIsReportedOnce
  PanelsAreTruthful
PROPERTIES
  SwitchArrives
  EventsArrive
  OutageIsAlarmed
  ConditionsAreReported
  ViewCatchesUp
  BadNewsNeverHelps
\* A site may be deleted, and a bound may be reached.
CHECK_DEADLOCK FALSE
