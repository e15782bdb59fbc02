----------------------------- MODULE Detectors -----------------------------
(***************************************************************************)
(* The worker's scheduled checks of one site, apps/api/src/worker/tasks/:  *)
(*   core-integrity-check.ts and the plugin's safety/IntegrityScanner.php  *)
(*   synthetic-checkout.ts, performance-ping.ts, performance-collector.ts  *)
(*   ssl-domain-watch.ts, vulnerability-sync.ts, snapshot-retention.ts     *)
(*                                                                         *)
(* They share no state, so that a behaviour watches one of them: truth is  *)
(* the world it looks at, job what the running task holds in memory, rows  *)
(* what the database holds.  A task that fails is over and runs again when *)
(* it is next due; the world may change between any two of its steps.      *)
(***************************************************************************)
EXTENDS Integers, SequencesExt

CONSTANTS
  Files,      \* core files of WordPress
  Snapshots,  \* snapshots with content in object storage
  Watches,    \* the checks considered
  MaxFailures \* bound: failures of tasks

WatchKinds == {"core", "checkout", "speed", "vitals", "expiry", "plugins", "snapshots"}
ASSUME DetectorsAssumption == Watches \subseteq WatchKinds /\ MaxFailures \in Nat

VARIABLES watch, truth, job, rows, failures
detectorVars == <<watch, truth, job, rows, failures>>

Status == {"none", "open", "fixing", "declined", "resolved"}
Unresolved == {"open", "fixing", "declined"}
Paces == {"fine", "slow", "dire", "down"}
Feed == {"none", "unpatched", "patched"}
Idle == [at |-> "idle"]

Truths ==
  [core |-> [bad : SUBSET Files],
   checkout |-> [ok : BOOLEAN],
   speed |-> [pace : Paces],
   vitals |-> [day : {"new", "same"}],
   expiry |-> [cert : 0 .. 2, domain : 0 .. 2],
   plugins |-> [feed : Feed, on : BOOLEAN],
   snapshots |-> [objects : SUBSET Snapshots, old : SUBSET Snapshots]]
Jobs ==
  [core |-> [at : {"scan", "insert", "read", "reopen"},
             left : SUBSET Files, found : SUBSET Files, failed : SUBSET Files],
   checkout |-> [at : {"resolve"}, open : SUBSET {"now", "earlier"}],
   speed |-> [at : {"judge", "flush", "audit", "warm"}, pace : Paces],
   vitals |-> [at : {"fetch"}, form : {"desktop", "mobile"}],
   expiry |-> [at : {"store"}, cert : 0 .. 2, domain : 0 .. 2],
   plugins |-> [at : {"fetch", "act", "log"}, done : BOOLEAN],
   snapshots |-> [at : {"objects"}, keys : SUBSET Snapshots]]
Rows ==
  [core |-> [breach : Status],
   checkout |-> [now : Status, earlier : Status],
   speed |-> [pings : UNION {[1 .. n -> {"fine", "slow", "down"}] : n \in 0 .. 5},
              regression : BOOLEAN, emergency : BOOLEAN],
   vitals |-> [desktop : 0 .. 1, mobile : 0 .. 1],
   expiry |-> [cert : 0 .. 2, domain : 0 .. 2],
   plugins |-> [listed : BOOLEAN, advisory : Feed, queued : BOOLEAN,
                log : {"none", "SUCCESS", "FAILED"}],
   snapshots |-> [rows : SUBSET Snapshots]]

DetectorsTypeOK ==
  /\ watch \in Watches
  /\ truth \in Truths[watch] /\ rows \in Rows[watch]
  /\ job = Idle \/ job \in Jobs[watch]
  /\ failures \in 0 .. MaxFailures

FirstTruth ==
  [core |-> [bad |-> {}], checkout |-> [ok |-> TRUE],
   speed |-> [pace |-> "fine"], vitals |-> [day |-> "new"],
   expiry |-> [cert |-> 1, domain |-> 1],
   plugins |-> [feed |-> "none", on |-> TRUE],
   snapshots |-> [objects |-> Snapshots, old |-> {}]]
FirstRows ==
  [core |-> [breach |-> "none"], checkout |-> [now |-> "none", earlier |-> "none"],
   speed |-> [pings |-> <<>>, regression |-> FALSE, emergency |-> FALSE],
   vitals |-> [desktop |-> 0, mobile |-> 0],
   expiry |-> [cert |-> 0, domain |-> 0],
   plugins |-> [listed |-> FALSE, advisory |-> "none", queued |-> FALSE, log |-> "none"],
   snapshots |-> [rows |-> Snapshots]]

DetectorsInit(kinds) ==
  /\ watch \in kinds
  /\ truth = FirstTruth[watch] /\ rows = FirstRows[watch] /\ job = Idle /\ failures = 0

Running(w, at) == watch = w /\ job.at = at
\* The world changes, a task remembers, a task writes.
Becomes(t) == truth' = t /\ UNCHANGED <<watch, job, rows>>
Holds(j) == job' = j /\ UNCHANGED <<watch, truth, rows>>
Stores(r) == rows' = r /\ UNCHANGED <<watch, truth>>

-----------------------------------------------------------------------------
(***************************************************************************)
(* The checksum audit.  The plugin scans and repairs file by file.         *)
(***************************************************************************)
Tamper == watch = "core" /\ \E f \in Files : Becomes([bad |-> truth.bad \cup {f}])
Repair == watch = "core" /\ \E f \in truth.bad : Becomes([bad |-> truth.bad \ {f}])

verifyCoreFiles ==
  /\ Running("core", "idle")
  /\ Holds([at |-> "scan", left |-> Files, found |-> {}, failed |-> {}])

repairFile ==
  /\ Running("core", "scan")
  /\ \E f \in job.left :
       LET rest == [job EXCEPT !.left = @ \ {f}] IN
       \/ f \notin truth.bad /\ Holds(rest)
       \/ /\ f \in truth.bad
          /\ Holds([rest EXCEPT !.found = @ \cup {f}, !.failed = @ \cup {f}])
       \/ /\ f \in truth.bad
          /\ truth' = [bad |-> truth.bad \ {f}]
          /\ job' = [rest EXCEPT !.found = @ \cup {f}]
          /\ UNCHANGED <<watch, rows>>

\* Nothing found leaves everything as it is; all repaired closes the incident, whatever
\* its status is.
ScanAnswer ==
  /\ Running("core", "scan") /\ job.left = {}
  /\ job' = IF job.failed = {} THEN Idle ELSE [job EXCEPT !.at = "insert"]
  /\ Stores([breach |-> IF job.found # {} /\ job.failed = {} /\ rows.breach # "none"
                        THEN "resolved" ELSE rows.breach])

BreachInsert ==
  /\ Running("core", "insert")
  /\ job' = IF rows.breach = "none" THEN Idle ELSE [job EXCEPT !.at = "read"]
  /\ Stores([breach |-> IF rows.breach = "none" THEN "open" ELSE rows.breach])

\* Fault: an incident of that fingerprint that is there already is left as it is.
BreachReadOnly == Running("core", "read") /\ Holds(Idle)

BreachRead ==
  /\ Running("core", "read")
  /\ Holds(IF rows.breach = "resolved" THEN [job EXCEPT !.at = "reopen"] ELSE Idle)

BreachReopen == Running("core", "reopen") /\ job' = Idle /\ Stores([breach |-> "open"])

\* The dashboard and the fix pipeline settle incidents at any time.
SettleBreach ==
  /\ watch = "core" /\ rows.breach \in Unresolved
  /\ \E s \in {"fixing", "declined", "resolved"} : Stores([breach |-> s])
  /\ UNCHANGED job

CoreSteps ==
  \/ verifyCoreFiles \/ repairFile \/ ScanAnswer
  \/ BreachInsert \/ BreachRead \/ BreachReopen

-----------------------------------------------------------------------------
(***************************************************************************)
(* The synthetic checkout.  Incidents are one per hour.                    *)
(***************************************************************************)
CheckoutChanges == watch = "checkout" /\ Becomes([ok |-> ~truth.ok])

CheckoutFail ==
  /\ Running("checkout", "idle") /\ ~truth.ok
  /\ Stores([rows EXCEPT !.now = IF @ = "none" THEN "open" ELSE @]) /\ UNCHANGED job

\* A healthy page: the open incidents are read, and then closed one by one.
CheckoutPass ==
  /\ Running("checkout", "idle") /\ truth.ok
  /\ Holds([at |-> "resolve", open |-> {i \in {"now", "earlier"} : rows[i] = "open"}])

CheckoutResolve ==
  /\ Running("checkout", "resolve")
  /\ IF job.open = {} THEN Holds(Idle)
     ELSE \E i \in job.open :
            job' = [job EXCEPT !.open = @ \ {i}] /\ Stores([rows EXCEPT ![i] = "resolved"])

NextHour ==
  /\ Running("checkout", "idle") /\ rows.now # "none"
  /\ Stores([now |-> "none",
             earlier |-> IF rows.now \in Unresolved THEN rows.now ELSE rows.earlier])
  /\ UNCHANGED job

SettleCheckout ==
  /\ watch = "checkout"
  /\ \E i \in {"now", "earlier"}, s \in {"fixing", "declined", "resolved"} :
       rows[i] \in Unresolved /\ Stores([rows EXCEPT ![i] = s])
  /\ UNCHANGED job

CheckoutSteps ==
  CheckoutFail \/ CheckoutPass \/ CheckoutResolve

-----------------------------------------------------------------------------
(***************************************************************************)
(* The response time, every fifteen minutes, and its remediation.          *)
(***************************************************************************)
PaceChanges ==
  /\ watch = "speed"
  /\ \E p \in Paces : Becomes([pace |-> p])

measureTTFB ==
  /\ Running("speed", "idle")
  /\ rows' = [rows EXCEPT !.pings =
       SubSeq(<<IF truth.pace = "dire" THEN "slow" ELSE truth.pace>> \o @, 1,
              IF Len(@) < 4 THEN Len(@) + 1 ELSE 5)]
  /\ job' = IF truth.pace = "down" THEN Idle ELSE [at |-> "judge", pace |-> truth.pace]
  /\ UNCHANGED <<watch, truth>>

\* The newest three measurements of the last hour, which holds four or five pings; one
\* that was not answered left no row.
getTrailingConsecutive(windows) ==
  LET hour == SelectSeq(SubSeq(rows.pings, 1, IF Len(rows.pings) < windows
                                              THEN Len(rows.pings) ELSE windows),
                        LAMBDA p : p # "down")
  IN Len(hour) >= 3 /\ \A i \in 1 .. 3 : hour[i] = "slow"

Raise(incident) ==
  /\ job' = [job EXCEPT !.at = "flush"]
  /\ Stores([rows EXCEPT ![incident] = TRUE])

performancePing ==
  /\ Running("speed", "judge")
  /\ IF job.pace = "dire" THEN Raise("emergency")
     ELSE \E windows \in {4, 5} :
            IF getTrailingConsecutive(windows) THEN Raise("regression") ELSE Holds(Idle)

\* Flushing the cache is enough, or the autoloaded options are looked at as well.
FlushCache ==
  /\ Running("speed", "flush")
  /\ \/ truth' = [pace |-> "fine"] /\ job' = Idle
     \/ UNCHANGED truth /\ job' = [job EXCEPT !.at = "audit"]
  /\ UNCHANGED <<watch, rows>>

AutoloadAudit == Running("speed", "audit") /\ Holds([job EXCEPT !.at = "warm"])
WarmCaches == Running("speed", "warm") /\ Holds(Idle)

\* The fingerprint carries the time: in the next window an incident is a new one.
NextWindow ==
  /\ Running("speed", "idle")
  /\ \E i \in {"regression", "emergency"} :
       rows[i] /\ Stores([rows EXCEPT ![i] = FALSE])
  /\ UNCHANGED job

SpeedSteps ==
  measureTTFB \/ performancePing \/ FlushCache \/ AutoloadAudit \/ WarmCaches

-----------------------------------------------------------------------------
(***************************************************************************)
(* The daily vitals and expiry dates; a failed request changes nothing.    *)
(***************************************************************************)
NextDay ==
  /\ Running("vitals", "idle")
  /\ truth' = [day |-> "new"] /\ rows' = [desktop |-> 0, mobile |-> 0]
  /\ UNCHANGED <<watch, job>>

\* One form factor after the other; one that fails is left out for the day.
performanceCollector ==
  Running("vitals", "idle") /\ Holds([at |-> "fetch", form |-> "desktop"])

NextForm == IF job.form = "desktop" THEN [job EXCEPT !.form = "mobile"] ELSE Idle

fetchCrUX ==
  /\ Running("vitals", "fetch")
  /\ job' = NextForm /\ Stores([rows EXCEPT ![job.form] = 1])

CrUXFails == Running("vitals", "fetch") /\ Holds(NextForm)

Renew == watch = "expiry" /\ \E d \in {"cert", "domain"} : Becomes([truth EXCEPT ![d] = 2])

\* What the certificate and the registry say, 0 when one of them could not be asked.
checkCertificate ==
  /\ Running("expiry", "idle")
  /\ Holds([at |-> "store", cert |-> truth.cert, domain |-> truth.domain])

Unasked ==
  /\ Running("expiry", "store")
  /\ \E d \in {"cert", "domain"} : job[d] # 0 /\ Holds([job EXCEPT ![d] = 0])

sslDomainWatch ==
  /\ Running("expiry", "store") /\ job' = Idle
  /\ Stores([cert |-> IF job.cert # 0 THEN job.cert ELSE rows.cert,
             domain |-> IF job.domain # 0 THEN job.domain ELSE rows.domain])

DailySteps ==
  performanceCollector \/ fetchCrUX \/ checkCertificate \/ sslDomainWatch

-----------------------------------------------------------------------------
(***************************************************************************)
(* Critical vulnerabilities: a plugin is updated, or switched off when     *)
(* there is no patch yet.                                                  *)
(***************************************************************************)
Publish == watch = "plugins" /\ \E f \in Feed : Becomes([truth EXCEPT !.feed = f])
Activate == watch = "plugins" /\ Becomes([truth EXCEPT !.on = TRUE])
\* A heartbeat's inventory: the plugin is installed from now on.
Enlist == /\ watch = "plugins" /\ ~rows.listed
          /\ Stores([rows EXCEPT !.listed = TRUE]) /\ UNCHANGED job

vulnerabilityFeedSync ==
  /\ Running("plugins", "idle") /\ rows.listed
  /\ Holds([at |-> "fetch", done |-> FALSE])

\* The advisory is upserted; only a critical one is acted on.
scanPlugin ==
  /\ Running("plugins", "fetch")
  /\ job' = IF truth.feed = "none" THEN Idle ELSE [job EXCEPT !.at = "act"]
  /\ Stores([rows EXCEPT !.advisory = IF truth.feed = "none" THEN @ ELSE truth.feed])

FeedFails == Running("plugins", "fetch") /\ Holds(Idle)

EnqueueUpdate ==
  /\ Running("plugins", "act") /\ rows.advisory = "patched"
  /\ job' = Idle
  /\ \E queued \in BOOLEAN :
       Stores([rows EXCEPT !.queued = @ \/ queued, !.log = IF queued THEN "SUCCESS" ELSE "FAILED"])

\* The call over MCP is answered or not, and may have worked all the same.
DeactivatePlugin ==
  /\ Running("plugins", "act") /\ rows.advisory = "unpatched"
  /\ truth' = [truth EXCEPT !.on = FALSE]
  /\ \E answered \in BOOLEAN : job' = [at |-> "log", done |-> answered]
  /\ UNCHANGED <<watch, rows>>

SiteUnreachable ==
  /\ Running("plugins", "act") /\ rows.advisory = "unpatched"
  /\ Holds([at |-> "log", done |-> FALSE])

LogIsolation ==
  /\ Running("plugins", "log") /\ job' = Idle
  /\ Stores([rows EXCEPT !.log = IF job.done THEN "SUCCESS" ELSE "FAILED"])

PluginSteps ==
  \/ vulnerabilityFeedSync \/ scanPlugin
  \/ EnqueueUpdate \/ DeactivatePlugin \/ LogIsolation

-----------------------------------------------------------------------------
(***************************************************************************)
(* Retention: rows first, then the objects whose keys they held.           *)
(***************************************************************************)
GrowOld == watch = "snapshots" /\ \E s \in Snapshots : Becomes([truth EXCEPT !.old = @ \cup {s}])

\* Fault: the objects first, the rows when they are gone.
DeleteObjectFirst ==
  /\ Running("snapshots", "idle")
  /\ \E s \in truth.old : truth' = [truth EXCEPT !.objects = @ \ {s}]
  /\ UNCHANGED <<watch, job, rows>>

deleteSnapshotsOlderThan ==
  /\ Running("snapshots", "idle") /\ truth.old \cap rows.rows # {}
  /\ job' = [at |-> "objects", keys |-> truth.old \cap rows.rows]
  /\ Stores([rows |-> rows.rows \ truth.old])

deleteObject ==
  /\ Running("snapshots", "objects")
  /\ \E s \in job.keys :
       /\ truth' = [truth EXCEPT !.objects = @ \ {s}]
       /\ job' = IF job.keys = {s} THEN Idle ELSE [job EXCEPT !.keys = @ \ {s}]
  /\ UNCHANGED <<watch, rows>>

RetentionSteps ==
  deleteSnapshotsOlderThan \/ deleteObject

-----------------------------------------------------------------------------
\* The worker dies, a request of the task throws, or the site stops answering.
TaskFails == job # Idle /\ Holds(Idle)

WorldSteps ==
  \/ Tamper \/ Repair \/ SettleBreach \/ CheckoutChanges \/ NextHour \/ SettleCheckout
  \/ PaceChanges \/ NextWindow \/ NextDay \/ Renew \/ Publish \/ Activate \/ Enlist \/ GrowOld
TaskSteps ==
  /\ \/ CoreSteps \/ CheckoutSteps \/ SpeedSteps
     \/ DailySteps \/ PluginSteps \/ RetentionSteps
  /\ UNCHANGED failures
FailSteps == TaskFails \/ FeedFails \/ SiteUnreachable \/ CrUXFails \/ Unasked

DetectorsNext ==
  \/ WorldSteps /\ UNCHANGED failures
  \/ TaskSteps
  \/ failures < MaxFailures /\ failures' = failures + 1 /\ FailSteps

(***************************************************************************)
(* Cron runs every task when it is due, a task goes on while nothing stops *)
(* it and the hours pass.                                                 *)
(***************************************************************************)
DetectorsFairness ==
  WF_detectorVars(TaskSteps) /\ SF_detectorVars(NextHour /\ UNCHANGED failures)

-----------------------------------------------------------------------------
\* A snapshot's row never outlives the content it points to: the sweep deletes the row
\* first, so that a crash leaves an orphan in object storage and not "a dangling
\* reference every future query has to guard against" (snapshot-retention.ts:29-35).
NoDanglingRow == watch = "snapshots" => rows.rows \subseteq truth.objects

\* What is there to be noticed, ...
Unnoticed(f) ==
  CASE watch = "core" -> f \in truth.bad /\ rows.breach \notin Unresolved
    [] watch = "checkout" -> ~truth.ok /\ {rows.now, rows.earlier} \cap Unresolved = {}
    [] watch = "speed" -> truth.pace \in {"slow", "dire"} /\ ~rows.regression /\ ~rows.emergency
    [] watch = "vitals" -> 0 \in {rows.desktop, rows.mobile}
    [] watch = "expiry" -> truth # rows
    [] watch = "plugins" -> truth.feed = "unpatched" /\ truth.on /\ rows.listed
    [] OTHER -> FALSE

\* The files differ by nothing: it is enough to look at one.
SomeFile == CHOOSE f \in Files : TRUE

\* ... is noticed in the end, although requests fail and workers die: a core file that
\* cannot be repaired has an unresolved incident, though its fingerprint is constant and
\* the last one may be closed while a scan is running; so has a checkout that does not
\* come back, and a page that stays slow; a renewed certificate's date becomes known; and
\* a plugin with a critical flaw and no patch is off, however often it is switched on.
ConditionsAreReported == Unnoticed(SomeFile) ~> ~Unnoticed(SomeFile)
=============================================================================
