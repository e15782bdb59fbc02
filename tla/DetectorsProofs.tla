-------------------------- MODULE DetectorsProofs --------------------------
(***************************************************************************)
(* That no crash of the retention sweep leaves a row without its content,  *)
(* for every set of snapshots: the sweep deletes rows first, and then only *)
(* objects whose rows it has deleted.  And that every check keeps to the   *)
(* values of its task, its records and the world it looks at.              *)
(***************************************************************************)
EXTENDS Detectors, TLAPS

\* What the sweep still has to delete has no row any more.
RowsFirst ==
  /\ truth \in [objects : SUBSET Snapshots, old : SUBSET Snapshots]
  /\ rows \in [rows : SUBSET Snapshots] /\ rows.rows \subseteq truth.objects
  /\ job = Idle \/ /\ job \in [at : {"objects"}, keys : SUBSET Snapshots]
                   /\ job.keys \cap rows.rows = {}

SweepInv == watch = "snapshots" => RowsFirst

\* What happens while the sweep is watched, on its own: nothing else moves.
Sweep ==
  \/ GrowOld \/ deleteSnapshotsOlderThan \/ deleteObject
  \/ job' = Idle /\ UNCHANGED <<truth, rows>>

\* A behaviour watches the same check all the time.
LEMMA WatchStays ==
  ASSUME DetectorsNext
  PROVE  watch' = watch
<1>1. CASE WorldSteps
  BY <1>1 DEF WorldSteps, Tamper, Repair, SettleBreach, CheckoutChanges, NextHour, SettleCheckout,
              PaceChanges, NextWindow, NextDay, Renew, Publish, Activate, Enlist, GrowOld,
              Becomes, Stores
<1>2. CASE TaskSteps
  <2>1. CoreSteps => watch' = watch
    BY DEF CoreSteps, verifyCoreFiles, repairFile, ScanAnswer, BreachInsert, BreachRead,
           BreachReopen, Holds, Stores
  <2>2. CheckoutSteps => watch' = watch
    BY DEF CheckoutSteps, CheckoutFail, CheckoutPass, CheckoutResolve, Holds, Stores
  <2>3. SpeedSteps => watch' = watch
    BY DEF SpeedSteps, measureTTFB, performancePing, FlushCache, AutoloadAudit, WarmCaches,
           Raise, Holds, Stores
  <2>4. DailySteps => watch' = watch
    BY DEF DailySteps, performanceCollector, fetchCrUX, checkCertificate, sslDomainWatch,
           Holds, Stores
  <2>5. PluginSteps \/ RetentionSteps => watch' = watch
    BY DEF PluginSteps, vulnerabilityFeedSync, scanPlugin, EnqueueUpdate, DeactivatePlugin,
           LogIsolation, RetentionSteps, deleteSnapshotsOlderThan, deleteObject, Holds, Stores
  <2> QED
    BY <1>2, <2>1, <2>2, <2>3, <2>4, <2>5 DEF TaskSteps
<1>3. CASE FailSteps
  BY <1>3 DEF FailSteps, TaskFails, FeedFails, SiteUnreachable, CrUXFails, Unasked, Holds
<1> QED
  BY <1>1, <1>2, <1>3 DEF DetectorsNext

\* A behaviour that watches the sweep takes no step of another check.
LEMMA OnlyTheSweep ==
  ASSUME watch = "snapshots", DetectorsNext
  PROVE  Sweep
<1>1. CASE WorldSteps
  <2>1. ~Tamper /\ ~Repair /\ ~SettleBreach
    BY DEF Tamper, Repair, SettleBreach
  <2>2. ~CheckoutChanges /\ ~NextHour /\ ~SettleCheckout
    BY DEF CheckoutChanges, NextHour, SettleCheckout, Running
  <2>3. ~PaceChanges /\ ~NextWindow /\ ~NextDay /\ ~Renew
    BY DEF PaceChanges, NextWindow, NextDay, Renew, Running
  <2>4. ~Publish /\ ~Activate /\ ~Enlist
    BY DEF Publish, Activate, Enlist
  <2> QED
    BY <1>1, <2>1, <2>2, <2>3, <2>4 DEF WorldSteps, Sweep
<1>2. CASE TaskSteps
  <2>1. ~CoreSteps
    BY DEF CoreSteps, verifyCoreFiles, repairFile, ScanAnswer, BreachInsert, BreachRead,
           BreachReopen, Running
  <2>2. ~CheckoutSteps
    BY DEF CheckoutSteps, CheckoutFail, CheckoutPass, CheckoutResolve, Running
  <2>3. ~SpeedSteps
    BY DEF SpeedSteps, measureTTFB, performancePing, FlushCache, AutoloadAudit, WarmCaches, Running
  <2>4. ~DailySteps
    BY DEF DailySteps, performanceCollector, fetchCrUX, checkCertificate, sslDomainWatch, Running
  <2>5. ~PluginSteps
    BY DEF PluginSteps, vulnerabilityFeedSync, scanPlugin, EnqueueUpdate, DeactivatePlugin,
           LogIsolation, Running
  <2> QED
    BY <1>2, <2>1, <2>2, <2>3, <2>4, <2>5 DEF TaskSteps, RetentionSteps, Sweep
<1>3. CASE FailSteps
  <2>1. ~FeedFails /\ ~SiteUnreachable /\ ~CrUXFails /\ ~Unasked
    BY DEF FeedFails, SiteUnreachable, CrUXFails, Unasked, Running
  <2> QED
    BY <1>3, <2>1 DEF FailSteps, TaskFails, Holds, Sweep
<1> QED
  BY <1>1, <1>2, <1>3 DEF DetectorsNext

\* Rows go before their objects, and a crash forgets what was still to go.
LEMMA SweepStep ==
  ASSUME RowsFirst, Sweep
  PROVE  RowsFirst'
<1>1. CASE GrowOld
  BY <1>1 DEF RowsFirst, GrowOld, Becomes
<1>2. CASE deleteSnapshotsOlderThan
  <2>1. truth' = truth
    BY <1>2 DEF deleteSnapshotsOlderThan, Stores
  <2>2. job' = [at |-> "objects", keys |-> truth.old \cap rows.rows]
    BY <1>2 DEF deleteSnapshotsOlderThan
  <2>3. rows' = [rows |-> rows.rows \ truth.old]
    BY <1>2 DEF deleteSnapshotsOlderThan, Stores
  <2> QED
    BY <2>1, <2>2, <2>3 DEF RowsFirst
<1>3. CASE deleteObject
  <2>1. PICK s \in job.keys :
          /\ truth' = [truth EXCEPT !.objects = @ \ {s}]
          /\ job' = IF job.keys = {s} THEN Idle ELSE [job EXCEPT !.keys = @ \ {s}]
    BY <1>3 DEF deleteObject
  <2>2. rows' = rows /\ job # Idle
    BY <1>3 DEF deleteObject, Running, Idle
  <2>3. s \notin rows.rows
    BY <2>1, <2>2 DEF RowsFirst
  <2> QED
    BY <2>1, <2>2, <2>3 DEF RowsFirst
<1>4. CASE job' = Idle /\ UNCHANGED <<truth, rows>>
  BY <1>4 DEF RowsFirst, Idle
<1> QED
  BY <1>1, <1>2, <1>3, <1>4 DEF Sweep

LEMMA SweepInvInit == \A kinds : DetectorsInit(kinds) => SweepInv
BY DEF DetectorsInit, SweepInv, RowsFirst, FirstTruth, FirstRows

LEMMA SweepInvNext == SweepInv /\ [DetectorsNext]_detectorVars => SweepInv'
<1> SUFFICES ASSUME SweepInv, [DetectorsNext]_detectorVars, watch' = "snapshots"
             PROVE  RowsFirst'
  BY DEF SweepInv
<1>1. CASE DetectorsNext
  <2>1. watch = "snapshots"
    BY <1>1, WatchStays
  <2> QED
    BY <1>1, <2>1, OnlyTheSweep, SweepStep DEF SweepInv
<1>2. CASE UNCHANGED detectorVars
  BY <1>2 DEF SweepInv, RowsFirst, detectorVars
<1> QED
  BY <1>1, <1>2

LEMMA SweepInvSafe == SweepInv => NoDanglingRow
BY DEF SweepInv, RowsFirst, NoDanglingRow

\* At every moment at which the worker may die, every row still has its content.
THEOREM RowsHaveContent ==
  DetectorsInit(Watches) /\ [][DetectorsNext]_detectorVars => []NoDanglingRow
<1>1. DetectorsInit(Watches) => SweepInv
  BY SweepInvInit
<1> QED
  BY <1>1, SweepInvNext, SweepInvSafe, PTL

-----------------------------------------------------------------------------
(***************************************************************************)
(* The types, one check at a time.                                         *)
(***************************************************************************)
DetectorsSpec == DetectorsInit(Watches) /\ [][DetectorsNext]_detectorVars

\* What a check works on; failures are counted apart.
Typed ==
  /\ truth \in Truths[watch] /\ rows \in Rows[watch]
  /\ job = Idle \/ job \in Jobs[watch]

LEMMA CoreTypes == Typed /\ (Tamper \/ Repair \/ SettleBreach \/ CoreSteps) => Typed'
<1> SUFFICES ASSUME Typed, Tamper \/ Repair \/ SettleBreach \/ CoreSteps PROVE Typed'
  OBVIOUS
<1> DEFINE World == [bad : SUBSET Files]
           Scans == [at : {"scan", "insert", "read", "reopen"},
                     left : SUBSET Files, found : SUBSET Files, failed : SUBSET Files]
           Breaches == [breach : Status]
<1>1. watch = "core" /\ watch' = watch
  BY DEF Tamper, Repair, SettleBreach, CoreSteps, verifyCoreFiles, repairFile, ScanAnswer,
         BreachInsert, BreachReadOnly, BreachRead, BreachReopen, Running, Becomes, Holds, Stores
<1>2. truth \in World /\ rows \in Breaches /\ (job = Idle \/ job \in Scans)
  BY <1>1 DEF Typed, Truths, Rows, Jobs
<1>3. SUFFICES truth' \in World /\ rows' \in Breaches /\ (job' = Idle \/ job' \in Scans)
  BY <1>1 DEF Typed, Truths, Rows, Jobs
<1>4. \A s \in Status : [breach |-> s] \in Breaches
  OBVIOUS
<1>5. \A j \in Scans, x \in {"scan", "insert", "read", "reopen"} : [j EXCEPT !.at = x] \in Scans
  OBVIOUS
<1>6. \A b \in SUBSET Files : [bad |-> b] \in World
  OBVIOUS
<1>7. job.at # "idle" => job \in Scans
  BY <1>2 DEF Idle
<1>a. CASE Tamper \/ Repair
  BY <1>a, <1>2, <1>6 DEF Tamper, Repair, Becomes
<1>b. CASE SettleBreach
  BY <1>b, <1>2, <1>4 DEF SettleBreach, Stores, Status
<1>c. CASE verifyCoreFiles
  BY <1>c, <1>2 DEF verifyCoreFiles, Holds
<1>d. CASE repairFile
  <2>1. job \in Scans
    BY <1>d, <1>7 DEF repairFile, Running
  <2>2. PICK f \in job.left :
          LET rest == [job EXCEPT !.left = @ \ {f}] IN
          \/ f \notin truth.bad /\ Holds(rest)
          \/ /\ f \in truth.bad
             /\ Holds([rest EXCEPT !.found = @ \cup {f}, !.failed = @ \cup {f}])
          \/ /\ f \in truth.bad
             /\ truth' = [bad |-> truth.bad \ {f}]
             /\ job' = [rest EXCEPT !.found = @ \cup {f}]
             /\ UNCHANGED <<watch, rows>>
    BY <1>d DEF repairFile
  <2>3. f \in Files
    BY <2>1
  <2>4. \A j \in Scans : /\ [j EXCEPT !.left = @ \ {f}] \in Scans
                         /\ [j EXCEPT !.found = @ \cup {f}] \in Scans
                         /\ [j EXCEPT !.found = @ \cup {f}, !.failed = @ \cup {f}] \in Scans
    BY <2>3
  <2>5. truth' \in World /\ rows' = rows
    BY <2>2, <1>2, <1>6 DEF Holds
  <2>6. job' \in Scans
    BY <2>1, <2>2, <2>4 DEF Holds
  <2> QED
    BY <2>5, <2>6, <1>2
<1>e. CASE ScanAnswer
  BY <1>e, <1>2, <1>4, <1>5, <1>7 DEF ScanAnswer, Running, Stores, Status
<1>f. CASE BreachInsert
  BY <1>f, <1>2, <1>4, <1>5, <1>7 DEF BreachInsert, Running, Stores, Status
<1>g. CASE BreachRead \/ BreachReopen
  BY <1>g, <1>2, <1>4, <1>5, <1>7 DEF BreachRead, BreachReopen, Running, Holds, Stores, Status
<1> QED
  BY <1>a, <1>b, <1>c, <1>d, <1>e, <1>f, <1>g DEF CoreSteps

LEMMA CheckoutTypes ==
  Typed /\ (CheckoutChanges \/ NextHour \/ SettleCheckout \/ CheckoutSteps) => Typed'
<1> SUFFICES ASSUME Typed, CheckoutChanges \/ NextHour \/ SettleCheckout \/ CheckoutSteps
             PROVE  Typed'
  OBVIOUS
<1> DEFINE Hours == {"now", "earlier"}
           Closing == [at : {"resolve"}, open : SUBSET Hours]
           Board == [now : Status, earlier : Status]
<1>1. watch = "checkout" /\ watch' = watch
  BY DEF CheckoutChanges, NextHour, SettleCheckout, CheckoutSteps, CheckoutFail, CheckoutPass,
         CheckoutResolve, Running, Becomes, Holds, Stores
<1>2. truth \in [ok : BOOLEAN] /\ rows \in Board /\ (job = Idle \/ job \in Closing)
  BY <1>1 DEF Typed, Truths, Rows, Jobs
<1>3. SUFFICES truth' \in [ok : BOOLEAN] /\ rows' \in Board /\ (job' = Idle \/ job' \in Closing)
  BY <1>1 DEF Typed, Truths, Rows, Jobs
<1>4. \A r \in Board, i \in Hours, s \in Status : [r EXCEPT ![i] = s] \in Board
  <2>1. \A r \in Board, s \in Status :
          [r EXCEPT !.now = s] \in Board /\ [r EXCEPT !.earlier = s] \in Board
    OBVIOUS
  <2> QED
    BY <2>1
<1>a. CASE CheckoutChanges
  BY <1>a, <1>2 DEF CheckoutChanges, Becomes
<1>b. CASE NextHour
  BY <1>b, <1>2 DEF NextHour, Stores, Status, Unresolved
<1>c. CASE SettleCheckout
  <2>1. /\ truth' = truth /\ job' = job
        /\ \E i \in Hours, s \in Status : rows' = [rows EXCEPT ![i] = s]
    BY <1>c DEF SettleCheckout, Stores, Status
  <2> QED
    BY <2>1, <1>2, <1>4
<1>d. CASE CheckoutFail
  <2>1. /\ truth' = truth /\ job' = job
        /\ rows' = [rows EXCEPT !.now = IF rows.now = "none" THEN "open" ELSE rows.now]
    BY <1>d DEF CheckoutFail, Stores
  <2> QED
    BY <2>1, <1>2 DEF Status
<1>e. CASE CheckoutPass
  <2>1. /\ truth' = truth /\ rows' = rows
        /\ job' = [at |-> "resolve", open |-> {i \in Hours : rows[i] = "open"}]
    BY <1>e DEF CheckoutPass, Holds
  <2> QED
    BY <2>1, <1>2
<1>f. CASE CheckoutResolve
  <2>1. job \in Closing
    BY <1>f, <1>2 DEF CheckoutResolve, Running, Idle
  <2>2. CASE job.open = {}
    BY <1>f, <2>2, <1>2 DEF CheckoutResolve, Holds
  <2>3. CASE job.open # {}
    <3>1. PICK i \in job.open :
            job' = [job EXCEPT !.open = @ \ {i}] /\ Stores([rows EXCEPT ![i] = "resolved"])
      BY <1>f, <2>3 DEF CheckoutResolve
    <3>2. i \in Hours /\ job' \in Closing
      BY <2>1, <3>1
    <3>3. rows' = [rows EXCEPT ![i] = "resolved"] /\ truth' = truth
      BY <3>1 DEF Stores
    <3>4. "resolved" \in Status /\ rows \in Board
      BY <1>2 DEF Status
    <3>5. rows' \in Board
      BY <3>2, <3>3, <3>4, <1>4
    <3> QED
      BY <3>2, <3>3, <3>5, <1>2
  <2> QED
    BY <2>2, <2>3
<1> QED
  BY <1>a, <1>b, <1>c, <1>d, <1>e, <1>f DEF CheckoutSteps

\* The measurements of the last hours: the newest is put before them, and a sixth is let go.
Pace == {"fine", "slow", "down"}
LEMMA NewestFirst ==
  ASSUME NEW n \in 0 .. 5, NEW pings \in [1 .. n -> Pace], NEW x \in Pace
  PROVE  \E m \in 0 .. 5 :
           SubSeq(<<x>> \o pings, 1, IF Len(pings) < 4 THEN Len(pings) + 1 ELSE 5)
             \in [1 .. m -> Pace]
<1>1. pings \in Seq(Pace) /\ Len(pings) = n
  OBVIOUS
<1>2. <<x>> \o pings \in Seq(Pace) /\ Len(<<x>> \o pings) = n + 1
  BY <1>1
<1> DEFINE all == <<x>> \o pings
           m == IF n < 4 THEN n + 1 ELSE 5
<1> HIDE DEF all
<1>3. m \in 0 .. n + 1 /\ m \in 0 .. 5 /\ m \in Nat
  OBVIOUS
<1>4. \A k \in 1 .. n + 1 : all[k] \in Pace
  BY <1>2 DEF all
<1>5. SubSeq(all, 1, m) = [k \in 1 .. m |-> all[k]]
  BY <1>3, <1>2 DEF all
<1>6. \A k \in 1 .. m : all[k] \in Pace
  BY <1>3, <1>4
<1>7. [k \in 1 .. m |-> all[k]] \in [1 .. m -> Pace]
  BY <1>6
<1>8. SubSeq(all, 1, m) \in [1 .. m -> Pace]
  BY <1>5, <1>7
<1> QED
  BY <1>1, <1>3, <1>8 DEF all

LEMMA SpeedTypes == Typed /\ (PaceChanges \/ NextWindow \/ SpeedSteps) => Typed'
<1> SUFFICES ASSUME Typed, PaceChanges \/ NextWindow \/ SpeedSteps PROVE Typed'
  OBVIOUS
<1> DEFINE Pings == UNION {[1 .. n -> Pace] : n \in 0 .. 5}
           Board == [pings : Pings, regression : BOOLEAN, emergency : BOOLEAN]
           Stops == {"judge", "flush", "audit", "warm"}
           Pinging == [at : Stops, pace : Paces]
<1>1. watch = "speed" /\ watch' = watch
  BY DEF PaceChanges, NextWindow, SpeedSteps, measureTTFB, performancePing, FlushCache,
         AutoloadAudit, WarmCaches, Raise, Running, Becomes, Holds, Stores
<1>2. truth \in [pace : Paces] /\ rows \in Board /\ (job = Idle \/ job \in Pinging)
  BY <1>1 DEF Typed, Truths, Rows, Jobs, Pace
<1>3. SUFFICES truth' \in [pace : Paces] /\ rows' \in Board /\ (job' = Idle \/ job' \in Pinging)
  BY <1>1 DEF Typed, Truths, Rows, Jobs, Pace
<1>p. "fine" \in Paces
  BY DEF Paces
<1> HIDE DEF Pings
<1>4. \A r \in Board, i \in {"regression", "emergency"}, b \in BOOLEAN :
        [r EXCEPT ![i] = b] \in Board
  <2>1. \A r \in Board, b \in BOOLEAN :
          [r EXCEPT !.regression = b] \in Board /\ [r EXCEPT !.emergency = b] \in Board
    OBVIOUS
  <2> QED
    BY <2>1
<1>5. \A j \in Pinging, x \in Stops : [j EXCEPT !.at = x] \in Pinging
  OBVIOUS
<1>6. job.at # "idle" => job \in Pinging
  BY <1>2 DEF Idle
<1>a. CASE PaceChanges
  BY <1>a, <1>2 DEF PaceChanges, Becomes
<1>b. CASE NextWindow
  <2>1. /\ truth' = truth /\ job' = job
        /\ \E i \in {"regression", "emergency"} : rows' = [rows EXCEPT ![i] = FALSE]
    BY <1>b DEF NextWindow, Stores
  <2>2. PICK i \in {"regression", "emergency"} : rows' = [rows EXCEPT ![i] = FALSE]
    BY <2>1
  <2>3. rows' \in Board
    BY <2>2, <1>2, <1>4
  <2> QED
    BY <2>1, <2>3, <1>2
<1>c. CASE measureTTFB
  <2> DEFINE x == IF truth.pace = "dire" THEN "slow" ELSE truth.pace
             old == rows.pings
             new == SubSeq(<<x>> \o old, 1, IF Len(old) < 4 THEN Len(old) + 1 ELSE 5)
  <2>1. /\ truth' = truth /\ rows' = [rows EXCEPT !.pings = new]
        /\ job' = IF truth.pace = "down" THEN Idle ELSE [at |-> "judge", pace |-> truth.pace]
    BY <1>c DEF measureTTFB
  <2>2. x \in Pace /\ old \in Pings
    BY <1>2 DEF Pace, Paces
  <2>3. PICK n \in 0 .. 5 : old \in [1 .. n -> Pace]
    BY <2>2 DEF Pings
  <2>4. new \in Pings
    <3>1. \E m \in 0 .. 5 : new \in [1 .. m -> Pace]
      BY <2>2, <2>3, NewestFirst
    <3> QED
      BY <3>1 DEF Pings
  <2> HIDE DEF new, x, old
  <2>5. rows' \in Board
    BY <2>1, <2>4, <1>2
  <2>6. job' = Idle \/ job' \in Pinging
    BY <2>1, <1>2
  <2> QED
    BY <2>1, <2>5, <2>6, <1>2
<1>d. CASE performancePing
  <2>1. job \in Pinging
    BY <1>d, <1>6 DEF performancePing, Running
  <2>2. ASSUME NEW i \in {"regression", "emergency"}, Raise(i)
        PROVE  truth' = truth /\ rows' \in Board /\ job' \in Pinging
    <3>1. truth' = truth /\ rows' = [rows EXCEPT ![i] = TRUE] /\ job' = [job EXCEPT !.at = "flush"]
      BY <2>2 DEF Raise, Stores
    <3>2. rows' \in Board
      BY <3>1, <1>2, <1>4
    <3> QED
      BY <3>1, <3>2, <2>1, <1>5
  <2>3. CASE Holds(Idle)
    BY <2>3, <1>2 DEF Holds
  <2>4. Raise("emergency") \/ Raise("regression") \/ Holds(Idle)
    BY <1>d DEF performancePing
  <2> QED
    BY <2>2, <2>3, <2>4, <1>2
<1>e. CASE FlushCache
  <2>1. job \in Pinging /\ rows' = rows
    BY <1>e, <1>6 DEF FlushCache, Running
  <2>2. \/ truth' = [pace |-> "fine"] /\ job' = Idle
        \/ truth' = truth /\ job' = [job EXCEPT !.at = "audit"]
    BY <1>e DEF FlushCache
  <2> QED
    BY <2>1, <2>2, <1>2, <1>5, <1>p
<1>f. CASE AutoloadAudit \/ WarmCaches
  <2>1. job \in Pinging /\ truth' = truth /\ rows' = rows
    BY <1>f, <1>6 DEF AutoloadAudit, WarmCaches, Running, Holds
  <2>2. job' = [job EXCEPT !.at = "warm"] \/ job' = Idle
    BY <1>f DEF AutoloadAudit, WarmCaches, Holds
  <2> QED
    BY <2>1, <2>2, <1>2, <1>5
<1> QED
  BY <1>a, <1>b, <1>c, <1>d, <1>e, <1>f DEF SpeedSteps

LEMMA VitalsTypes ==
  Typed /\ (NextDay \/ performanceCollector \/ fetchCrUX \/ CrUXFails) => Typed'
<1> SUFFICES ASSUME Typed, NextDay \/ performanceCollector \/ fetchCrUX \/ CrUXFails PROVE Typed'
  OBVIOUS
<1> DEFINE Days == [day : {"new", "same"}]
           Fetching == [at : {"fetch"}, form : {"desktop", "mobile"}]
           Board == [desktop : 0 .. 1, mobile : 0 .. 1]
<1>1. watch = "vitals" /\ watch' = watch
  BY DEF NextDay, performanceCollector, fetchCrUX, CrUXFails, Running, Holds, Stores
<1>2. truth \in Days /\ rows \in Board /\ (job = Idle \/ job \in Fetching)
  BY <1>1 DEF Typed, Truths, Rows, Jobs
<1>3. SUFFICES truth' \in Days /\ rows' \in Board /\ (job' = Idle \/ job' \in Fetching)
  BY <1>1 DEF Typed, Truths, Rows, Jobs
<1>4. job \in Fetching => NextForm = Idle \/ NextForm \in Fetching
  BY DEF NextForm
<1>5. job.at # "idle" => job \in Fetching
  BY <1>2 DEF Idle
<1>6. \A r \in Board, f \in {"desktop", "mobile"} : [r EXCEPT ![f] = 1] \in Board
  <2>1. \A r \in Board : [r EXCEPT !.desktop = 1] \in Board /\ [r EXCEPT !.mobile = 1] \in Board
    OBVIOUS
  <2> QED
    BY <2>1
<1>a. CASE NextDay
  BY <1>a, <1>2 DEF NextDay
<1>b. CASE performanceCollector
  BY <1>b, <1>2 DEF performanceCollector, Holds
<1>c. CASE fetchCrUX
  <2>1. /\ job \in Fetching /\ truth' = truth /\ job' = NextForm
        /\ rows' = [rows EXCEPT ![job.form] = 1]
    BY <1>c, <1>5 DEF fetchCrUX, Running, Stores
  <2>2. job.form \in {"desktop", "mobile"}
    BY <2>1
  <2>3. rows' \in Board
    BY <2>1, <2>2, <1>2, <1>6
  <2> QED
    BY <2>1, <2>3, <1>2, <1>4
<1>d. CASE CrUXFails
  BY <1>d, <1>2, <1>4, <1>5 DEF CrUXFails, Running, Holds
<1> QED
  BY <1>a, <1>b, <1>c, <1>d

LEMMA ExpiryTypes ==
  Typed /\ (Renew \/ checkCertificate \/ sslDomainWatch \/ Unasked) => Typed'
<1> SUFFICES ASSUME Typed, Renew \/ checkCertificate \/ sslDomainWatch \/ Unasked PROVE Typed'
  OBVIOUS
<1> DEFINE Dates == [cert : 0 .. 2, domain : 0 .. 2]
           Storing == [at : {"store"}, cert : 0 .. 2, domain : 0 .. 2]
<1>1. watch = "expiry" /\ watch' = watch
  BY DEF Renew, checkCertificate, sslDomainWatch, Unasked, Running, Becomes, Holds, Stores
<1>2. truth \in Dates /\ rows \in Dates /\ (job = Idle \/ job \in Storing)
  BY <1>1 DEF Typed, Truths, Rows, Jobs
<1>3. SUFFICES truth' \in Dates /\ rows' \in Dates /\ (job' = Idle \/ job' \in Storing)
  BY <1>1 DEF Typed, Truths, Rows, Jobs
<1>5. job.at # "idle" => job \in Storing
  BY <1>2 DEF Idle
<1>a. CASE Renew
  <2>1. \E d \in {"cert", "domain"} : truth' = [truth EXCEPT ![d] = 2]
    BY <1>a DEF Renew, Becomes
  <2>2. truth' = [truth EXCEPT !.cert = 2] \/ truth' = [truth EXCEPT !.domain = 2]
    BY <2>1
  <2> QED
    BY <1>a, <2>2, <1>2 DEF Renew, Becomes
<1>b. CASE checkCertificate
  BY <1>b, <1>2 DEF checkCertificate, Holds
<1>c. CASE sslDomainWatch
  BY <1>c, <1>2, <1>5 DEF sslDomainWatch, Running, Stores
<1>d. CASE Unasked
  <2>1. job \in Storing /\ truth' = truth /\ rows' = rows
    BY <1>d, <1>5 DEF Unasked, Running, Holds
  <2>2. \E d \in {"cert", "domain"} : job' = [job EXCEPT ![d] = 0]
    BY <1>d DEF Unasked, Holds
  <2>3. job' = [job EXCEPT !.cert = 0] \/ job' = [job EXCEPT !.domain = 0]
    BY <2>2
  <2> QED
    BY <2>1, <2>3, <1>2
<1> QED
  BY <1>a, <1>b, <1>c, <1>d

LEMMA PluginTypes ==
  Typed /\ (Publish \/ Activate \/ Enlist \/ PluginSteps \/ FeedFails \/ SiteUnreachable) => Typed'
<1> SUFFICES ASSUME Typed,
                    Publish \/ Activate \/ Enlist \/ PluginSteps \/ FeedFails \/ SiteUnreachable
             PROVE  Typed'
  OBVIOUS
<1> DEFINE World == [feed : Feed, on : BOOLEAN]
           Acting == [at : {"fetch", "act", "log"}, done : BOOLEAN]
           Board == [listed : BOOLEAN, advisory : Feed, queued : BOOLEAN,
                     log : {"none", "SUCCESS", "FAILED"}]
<1>1. watch = "plugins" /\ watch' = watch
  BY DEF Publish, Activate, Enlist, PluginSteps, vulnerabilityFeedSync, scanPlugin, EnqueueUpdate,
         DeactivatePlugin, LogIsolation, FeedFails, SiteUnreachable, Running, Becomes, Holds, Stores
<1>2. truth \in World /\ rows \in Board /\ (job = Idle \/ job \in Acting)
  BY <1>1 DEF Typed, Truths, Rows, Jobs
<1>3. SUFFICES truth' \in World /\ rows' \in Board /\ (job' = Idle \/ job' \in Acting)
  BY <1>1 DEF Typed, Truths, Rows, Jobs
<1>4. job.at # "idle" => job \in Acting
  BY <1>2 DEF Idle
<1>a. CASE Publish \/ Activate
  BY <1>a, <1>2 DEF Publish, Activate, Becomes
<1>b. CASE Enlist
  BY <1>b, <1>2 DEF Enlist, Stores
<1>c. CASE vulnerabilityFeedSync
  BY <1>c, <1>2 DEF vulnerabilityFeedSync, Holds
<1>d. CASE scanPlugin
  <2>1. job \in Acting /\ truth' = truth
    BY <1>d, <1>4 DEF scanPlugin, Running, Stores
  <2>2. /\ job' = IF truth.feed = "none" THEN Idle ELSE [job EXCEPT !.at = "act"]
        /\ rows' = [rows EXCEPT !.advisory =
                       IF truth.feed = "none" THEN rows.advisory ELSE truth.feed]
    BY <1>d DEF scanPlugin, Stores
  <2> QED
    BY <2>1, <2>2, <1>2
<1>e. CASE EnqueueUpdate
  <2>1. truth' = truth /\ job' = Idle
    BY <1>e DEF EnqueueUpdate, Stores
  <2>2. PICK queued \in BOOLEAN :
          rows' = [rows EXCEPT !.queued = rows.queued \/ queued,
                               !.log = IF queued THEN "SUCCESS" ELSE "FAILED"]
    BY <1>e DEF EnqueueUpdate, Stores
  <2>3. \A r \in Board, b \in BOOLEAN, l \in {"SUCCESS", "FAILED"} :
          [r EXCEPT !.queued = b, !.log = l] \in Board
    OBVIOUS
  <2> QED
    BY <2>1, <2>2, <2>3, <1>2
<1>f. CASE DeactivatePlugin
  <2>1. truth' = [truth EXCEPT !.on = FALSE] /\ rows' = rows
    BY <1>f DEF DeactivatePlugin
  <2>2. PICK answered \in BOOLEAN : job' = [at |-> "log", done |-> answered]
    BY <1>f DEF DeactivatePlugin
  <2> QED
    BY <2>1, <2>2, <1>2
<1>g. CASE LogIsolation
  BY <1>g, <1>2, <1>4 DEF LogIsolation, Running, Stores
<1>h. CASE FeedFails \/ SiteUnreachable
  <2>1. truth' = truth /\ rows' = rows
    BY <1>h DEF FeedFails, SiteUnreachable, Holds
  <2>2. job' = Idle \/ job' = [at |-> "log", done |-> FALSE]
    BY <1>h DEF FeedFails, SiteUnreachable, Holds
  <2>3. [at |-> "log", done |-> FALSE] \in Acting
    OBVIOUS
  <2> HIDE DEF Acting, World, Board
  <2> QED
    BY <2>1, <2>2, <2>3, <1>2
<1> QED
  BY <1>a, <1>b, <1>c, <1>d, <1>e, <1>f, <1>g, <1>h DEF PluginSteps

LEMMA RetentionTypes == Typed /\ (GrowOld \/ RetentionSteps) => Typed'
<1> SUFFICES ASSUME Typed, GrowOld \/ RetentionSteps PROVE Typed'
  OBVIOUS
<1> DEFINE World == [objects : SUBSET Snapshots, old : SUBSET Snapshots]
           Sweeping == [at : {"objects"}, keys : SUBSET Snapshots]
           Board == [rows : SUBSET Snapshots]
<1>1. watch = "snapshots" /\ watch' = watch
  BY DEF GrowOld, RetentionSteps, deleteSnapshotsOlderThan, deleteObject, Running, Becomes, Stores
<1>2. truth \in World /\ rows \in Board /\ (job = Idle \/ job \in Sweeping)
  BY <1>1 DEF Typed, Truths, Rows, Jobs
<1>3. SUFFICES truth' \in World /\ rows' \in Board /\ (job' = Idle \/ job' \in Sweeping)
  BY <1>1 DEF Typed, Truths, Rows, Jobs
<1>a. CASE GrowOld
  BY <1>a, <1>2 DEF GrowOld, Becomes
<1>b. CASE deleteSnapshotsOlderThan
  <2>1. /\ truth' = truth /\ rows' = [rows |-> rows.rows \ truth.old]
        /\ job' = [at |-> "objects", keys |-> truth.old \cap rows.rows]
    BY <1>b DEF deleteSnapshotsOlderThan, Stores
  <2> QED
    BY <2>1, <1>2
<1>c. CASE deleteObject
  <2>1. job \in Sweeping /\ rows' = rows
    BY <1>c, <1>2 DEF deleteObject, Running, Idle
  <2>2. PICK s \in job.keys :
          /\ truth' = [truth EXCEPT !.objects = @ \ {s}]
          /\ job' = IF job.keys = {s} THEN Idle ELSE [job EXCEPT !.keys = @ \ {s}]
    BY <1>c DEF deleteObject
  <2> QED
    BY <2>1, <2>2, <1>2
<1> QED
  BY <1>a, <1>b, <1>c DEF RetentionSteps

\* Every step is one of a check, or ends a task that was running.
LEMMA TypedStep == Typed /\ DetectorsNext => Typed'
<1> SUFFICES ASSUME Typed, DetectorsNext PROVE Typed'
  OBVIOUS
<1>1. CASE TaskFails
  BY <1>1 DEF TaskFails, Holds, Typed
<1>2. WorldSteps \/ TaskSteps \/ FailSteps
  BY DEF DetectorsNext
<1>3. WorldSteps => Typed'
  BY CoreTypes, CheckoutTypes, SpeedTypes, VitalsTypes, ExpiryTypes, PluginTypes, RetentionTypes
  DEF WorldSteps
<1>4. TaskSteps => Typed'
  BY CoreTypes, CheckoutTypes, SpeedTypes, VitalsTypes, ExpiryTypes, PluginTypes, RetentionTypes
  DEF TaskSteps, DailySteps
<1>5. FailSteps => Typed'
  BY <1>1, VitalsTypes, ExpiryTypes, PluginTypes DEF FailSteps
<1> QED
  BY <1>2, <1>3, <1>4, <1>5

LEMMA DetectorsTypesInit == DetectorsInit(Watches) => DetectorsTypeOK
<1> SUFFICES ASSUME DetectorsInit(Watches) PROVE DetectorsTypeOK
  OBVIOUS
<1>1. watch \in WatchKinds /\ watch \in Watches /\ failures \in 0 .. MaxFailures /\ job = Idle
  BY DetectorsAssumption DEF DetectorsInit
<1>2. truth = FirstTruth[watch] /\ rows = FirstRows[watch]
  BY DEF DetectorsInit
<1>3. FirstTruth[watch] \in Truths[watch]
  <2>1. FirstTruth["core"] \in Truths["core"] /\ FirstTruth["checkout"] \in Truths["checkout"]
    BY DEF FirstTruth, Truths
  <2>2. FirstTruth["speed"] \in Truths["speed"] /\ FirstTruth["vitals"] \in Truths["vitals"]
    BY DEF FirstTruth, Truths, Paces
  <2>3. FirstTruth["expiry"] \in Truths["expiry"]
    BY DEF FirstTruth, Truths
  <2>4. FirstTruth["plugins"] \in Truths["plugins"]
    BY DEF FirstTruth, Truths, Feed
  <2>5. FirstTruth["snapshots"] \in Truths["snapshots"]
    BY DEF FirstTruth, Truths
  <2> QED
    BY <2>1, <2>2, <2>3, <2>4, <2>5, <1>1 DEF WatchKinds
<1>4. FirstRows[watch] \in Rows[watch]
  <2>1. CASE watch = "speed"
    <3>1. <<>> \in [1 .. 0 -> {"fine", "slow", "down"}]
      OBVIOUS
    <3>2. <<>> \in UNION {[1 .. n -> {"fine", "slow", "down"}] : n \in 0 .. 5}
      BY <3>1
    <3> QED
      BY <2>1, <3>2 DEF FirstRows, Rows
  <2>2. CASE watch # "speed"
    <3>1. FirstRows["core"] \in Rows["core"] /\ FirstRows["checkout"] \in Rows["checkout"]
      BY DEF FirstRows, Rows, Status
    <3>2. FirstRows["vitals"] \in Rows["vitals"] /\ FirstRows["expiry"] \in Rows["expiry"]
      BY DEF FirstRows, Rows
    <3>3. FirstRows["plugins"] \in Rows["plugins"]
      BY DEF FirstRows, Rows, Feed
    <3>4. FirstRows["snapshots"] \in Rows["snapshots"]
      BY DEF FirstRows, Rows
    <3> QED
      BY <2>2, <3>1, <3>2, <3>3, <3>4, <1>1 DEF WatchKinds
  <2> QED
    BY <2>1, <2>2
<1> QED
  BY <1>1, <1>2, <1>3, <1>4 DEF DetectorsTypeOK

LEMMA DetectorsTypesNext == DetectorsTypeOK /\ [DetectorsNext]_detectorVars => DetectorsTypeOK'
<1> SUFFICES ASSUME DetectorsTypeOK, [DetectorsNext]_detectorVars PROVE DetectorsTypeOK'
  OBVIOUS
<1>1. Typed /\ watch \in Watches /\ failures \in 0 .. MaxFailures
  BY DEF DetectorsTypeOK, Typed
<1>2. CASE UNCHANGED detectorVars
  BY <1>2 DEF detectorVars, DetectorsTypeOK
<1>3. CASE DetectorsNext
  <2>1. Typed' /\ watch' = watch
    BY <1>1, <1>3, TypedStep, WatchStays
  <2>2. failures' = failures \/ (failures < MaxFailures /\ failures' = failures + 1)
    BY <1>3 DEF DetectorsNext, TaskSteps
  <2>3. failures' \in 0 .. MaxFailures
    BY <1>1, <2>2, DetectorsAssumption
  <2> QED
    BY <1>1, <2>1, <2>3 DEF DetectorsTypeOK, Typed
<1> QED
  BY <1>2, <1>3

\* A check that is restarted at any step, over a world that changes at any time, writes only what
\* its records can hold (apps/api/src/worker/tasks): among them never more than the five newest
\* measurements, and no incident in a status that is not one.
THEOREM DetectorsTypeCorrect == DetectorsSpec => []DetectorsTypeOK
BY DetectorsTypesInit, DetectorsTypesNext, PTL DEF DetectorsSpec
=============================================================================
