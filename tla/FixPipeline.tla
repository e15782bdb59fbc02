---------------------------- MODULE FixPipeline ----------------------------
(***************************************************************************)
(* Incidents of one site and the job that repairs them:                    *)
(*   apps/api/src/worker/tasks/fix-pipeline.ts, diagnostics.ts             *)
(*   apps/api/src/router/router.ts             what the model proposes     *)
(*   apps/api/src/routes/{sites,ingestion,dashboard}.ts  who opens, decides*)
(*   plugin/wp7/MCPEndpoints.php, mu-watchdog/SyntaxWPWatchdog.php         *)
(*                                                                         *)
(* The worker runs one job at a time.  API requests, heartbeats, the owner *)
(* and the page's own fate interleave with each of its awaits.  A call to  *)
(* the site may be refused, and either leg of it may be lost.  The order   *)
(* of the plugin rows is the database's, so a split may take any half.     *)
(***************************************************************************)
EXTENDS Naturals, FiniteSets, Sequences

CONSTANTS
  Incidents,      \* fingerprints
  Plugins,        \* slugs in the site's inventory
  Requests,       \* API requests that may be under way at once
  Sites           \* the kinds of site and incident text considered

SiteKinds ==
  [staging : BOOLEAN,      \* has a staging URL
   watchdog : BOOLEAN,     \* the must-use plugin is installed
   loopback : BOOLEAN,     \* PHP sees 127.0.0.1 (a proxy on the same host)
   signature : {"none", "database", "woocommerce", "layout"},
   keys : BOOLEAN,         \* the router has a model to ask
   plugins : SUBSET Plugins,                     \* what is active at first
   faults : SUBSET {"crash", "lost", "stale"},   \* what may go wrong
   events : Nat]           \* bound: requests, heartbeats, changes of the surroundings

Unknown == "unknown"
Absent == "absent"         \* a name that no plugin of the inventory has
Report == "report"         \* the prose a report gives as the root cause

ASSUME PipelineAssumption ==
  /\ {Unknown, Absent, Report, "none", "elsewhere"} \cap Plugins = {}
  /\ IsFiniteSet(Plugins)
  /\ Sites \subseteq SiteKinds

VARIABLES
  site,       \* what does not change
  status,     \* incidents.status, "none" while there is no row
  cause,      \* incidents.root_cause
  jobs,       \* the fix_pipeline jobs, in the queue's order
  allowed,    \* the settings let deactivate_plugin run unattended
  listed,     \* plugin_inventory rows marked active
  active,     \* the plugins active on the site
  killed,     \* the kill switch, on the site
  culprit,    \* what breaks the page now: a plugin while active, or "elsewhere"
  beat,       \* the plugin list of a heartbeat under way
  work,       \* the worker
  request,    \* the API's requests
  events,     \* how much has come from outside so far
  wanted,     \* ghost: the plugins that nobody has decided to turn off
  faults,     \* ghost: what went wrong so far
  orphans     \* ghost: incidents whose request or job died under way

siteVars == <<active, killed, culprit>>
vars == <<site, status, cause, jobs, allowed, listed, active, killed, culprit, beat,
          work, request, events, wanted, faults, orphans>>

-----------------------------------------------------------------------------
Statuses == {"none", "open", "diagnosing", "fixing", "testing", "resolved",
             "escalated", "declined"}
Busy == {"diagnosing", "fixing", "testing"}

Job == [inc : Incidents, manual : BOOLEAN]
Intent == [action : {"deactivate_plugin", "flush_cache", "repair_db"},
           target : Plugins \cup {Absent}]
NoIntent == [action |-> "flush_cache", target |-> Absent]

SearchSteps == {"split", "disable", "check", "relist", "restore", "narrow"}
FixSteps == {"staging", "decide", "act", "mirror", "verify", "undo"}
WorkSteps == {"begin", "model"} \cup SearchSteps \cup FixSteps

Idle == [pc |-> "idle"]
RequestSteps == {"insert", "select", "reopen", "enqueue", "approve", "audit",
                 "enqueue_manual", "reconsider", "rollback", "reactivate", "escalate"}

WorkRecord ==
  [pc : WorkSteps, inc : Incidents, manual : BOOLEAN, auto : BOOLEAN,
   asked : SUBSET Plugins, cand : SUBSET Plugins, half : SUBSET Plugins,
   todo : SUBSET Plugins, healthy : BOOLEAN, intent : Intent, tries : 0 .. 3,
   clean : BOOLEAN]

RequestRecord ==
  [pc : RequestSteps, inc : Incidents, cause : Plugins \cup {Report, Unknown}]

TypeOK ==
  /\ site \in Sites
  /\ status \in [Incidents -> Statuses]
  /\ cause \in [Incidents -> Plugins \cup {Report, Unknown}]
  /\ jobs \in Seq(Job)
  /\ allowed \in BOOLEAN /\ killed \in BOOLEAN
  /\ listed \subseteq Plugins /\ active \subseteq Plugins /\ wanted \subseteq Plugins
  /\ culprit \in Plugins \cup {"none", "elsewhere"}
  /\ beat \in {Idle} \cup [pc : {"sent"}, plugins : SUBSET Plugins]
  /\ work \in {Idle} \cup WorkRecord
  /\ work.pc \in {"mirror", "verify", "undo"} => work.intent.target \in Plugins
  /\ request \in [Requests -> {Idle} \cup RequestRecord]
  /\ events \in Nat
  /\ faults \subseteq {"crash", "lost", "stale", "refused"}
  /\ orphans \subseteq Incidents

Init ==
  /\ site \in Sites
  /\ status = [i \in Incidents |-> "none"]
  /\ cause = [i \in Incidents |-> Report]
  /\ jobs = <<>>
  /\ allowed \in BOOLEAN
  /\ active = site.plugins /\ listed = active /\ wanted = active
  /\ killed = FALSE
  /\ culprit \in active \cup {"none", "elsewhere"}
  /\ beat = Idle /\ work = Idle
  /\ request = [r \in Requests |-> Idle] /\ events = 0
  /\ faults = {} /\ orphans = {}

-----------------------------------------------------------------------------
(***************************************************************************)
(* A signed call to the site's endpoint.  The watchdog, when installed,    *)
(* answers a deactivation before WordPress has loaded a plugin, whatever   *)
(* the kill switch says; everything else is the REST endpoint's.           *)
(***************************************************************************)
WatchdogTakes(verb, p) == site.watchdog /\ verb = "deactivate"

EndpointAccepts == site.loopback /\ ~killed

After(verb, p) == IF verb = "deactivate" THEN active \ {p} ELSE active \cup {p}

\* The site carries the call out, if it reaches it.
Taken(verb, p) == p \in Plugins /\ (WatchdogTakes(verb, p) \/ EndpointAccepts)

Served(verb, p) == IF Taken(verb, p) THEN After(verb, p) ELSE active

\* The outcomes of a call: the plugins active after it and the answer the caller has.
Answer(verb, p) ==
  [active |-> Served(verb, p),
   ok |-> Taken(verb, p) /\ (WatchdogTakes(verb, p) => p \in active),
   fault |-> IF Taken(verb, p) \/ p \notin Plugins THEN {} ELSE {"refused"}]

NoAnswer(after) == [active |-> after, ok |-> FALSE, fault |-> {"lost"}]

Calls(verb, p) ==
  {Answer(verb, p)} \cup
  IF "lost" \in site.faults THEN {NoAnswer(active), NoAnswer(Served(verb, p))} ELSE {}

\* The browser loads the page: a staging copy has a fate of its own.
PageBroken == culprit = "elsewhere" \/ culprit \in active
Loads(onStaging) == IF onStaging THEN BOOLEAN ELSE {~PageBroken}

-----------------------------------------------------------------------------
(***************************************************************************)
(* What the router proposes.                                               *)
(***************************************************************************)
KnownSignature ==
  CASE site.signature = "database"    -> {[action |-> "repair_db", target |-> Absent]}
    [] site.signature = "woocommerce" -> [action : {"deactivate_plugin"},
                                          target : site.plugins \cup {Absent}]
    [] site.signature = "layout"      -> {[action |-> "flush_cache", target |-> Absent]}
    [] OTHER -> {}

DevMock == [action |-> "deactivate_plugin", target |-> Absent]

Proposals ==
  IF site.signature # "none" THEN KnownSignature
  ELSE IF ~site.keys THEN {DevMock}
  ELSE [action : {"deactivate_plugin"}, target : site.plugins \cup {Absent}] \cup {NoIntent}

-----------------------------------------------------------------------------
(***************************************************************************)
(* The worker.                                                             *)
(***************************************************************************)
WorkOnly == UNCHANGED <<site, jobs, allowed, killed, culprit, beat, request, events,
                        orphans>>
OwnState == UNCHANGED <<status, cause, listed, active, wanted, faults>>

Enter(pc) == work' = [work EXCEPT !.pc = pc]
SetStatus(s) == status' = [status EXCEPT ![work.inc] = s]

\* The job ends and the incident is left in status s.
EndWith(s) == work' = Idle /\ SetStatus(s)

Started(j) ==
  [pc |-> "begin", inc |-> j.inc, manual |-> j.manual, auto |-> allowed, asked |-> {},
   cand |-> {}, half |-> {}, todo |-> {}, healthy |-> FALSE, intent |-> NoIntent,
   tries |-> 3, clean |-> FALSE]

\* The job looks the incident and the site up; what is settled or under way is skipped.
Pick ==
  /\ work = Idle /\ jobs # <<>>
  /\ LET j == Head(jobs) IN
       IF status[j.inc] \in Busy \cup {"resolved", "escalated"}
       THEN UNCHANGED work
       ELSE work' = Started(j)
  /\ jobs' = Tail(jobs)
  /\ UNCHANGED <<site, allowed, killed, culprit, beat, request, events, orphans>>
  /\ OwnState

Begin ==
  /\ work.pc = "begin"
  /\ SetStatus("diagnosing")
  /\ work' = [work EXCEPT !.pc = IF listed = {} THEN "narrow" ELSE "split",
                          !.asked = listed, !.cand = listed,
                          !.clean = listed \subseteq active /\ PageBroken]
  /\ UNCHANGED <<cause, listed, active, wanted, faults>> /\ WorkOnly

\* The half to turn off: of one candidate the candidate, else the second half.
Half(c) ==
  IF Cardinality(c) = 1 THEN {c}
  ELSE {h \in SUBSET c : Cardinality(h) = Cardinality(c) \div 2}

Split ==
  /\ work.pc = "split"
  /\ \E h \in Half(work.cand) :
       /\ listed' = listed \ h
       /\ work' = [work EXCEPT !.pc = "disable", !.half = h, !.todo = h]
  /\ UNCHANGED <<status, cause, active, wanted, faults>> /\ WorkOnly

\* One plugin after the other is turned off, or on again; no answer is looked at.
Toggle(pc, verb, next) ==
  /\ work.pc = pc
  /\ \E p \in work.todo : \E c \in Calls(verb, p) :
       /\ active' = c.active
       /\ faults' = faults \cup c.fault
       /\ work' = [work EXCEPT !.todo = @ \ {p},
                               !.pc = IF work.todo = {p} THEN next ELSE pc,
                               !.clean = @ /\ c.fault = {}]
  /\ UNCHANGED <<status, cause, listed, wanted>> /\ WorkOnly

Disable == Toggle("disable", "deactivate", "check")

Check ==
  /\ work.pc = "check"
  /\ \E h \in Loads(site.staging) : work' = [work EXCEPT !.pc = "relist", !.healthy = h]
  /\ OwnState /\ WorkOnly

Relist ==
  /\ work.pc = "relist"
  /\ listed' = listed \cup work.half
  /\ work' = [work EXCEPT !.pc = "restore", !.todo = work.half]
  /\ UNCHANGED <<status, cause, active, wanted, faults>> /\ WorkOnly

\* Fault: the loop that turns them on again is forgotten.
ForgottenRestore ==
  /\ work.pc = "restore" /\ Enter("narrow")
  /\ OwnState /\ WorkOnly


Restore == Toggle("restore", "activate", "narrow")

\* Fault: the halves are mixed up.
WrongSuspects == IF work.healthy THEN work.cand \ work.half ELSE work.half

\* What is still suspect after a check.
Suspects ==
  IF work.healthy THEN work.half ELSE work.cand \ work.half

\* Fault: the suspects are computed and not used.
StuckNarrow ==
  /\ work.pc = "narrow" /\ Cardinality(work.cand) > 1
  /\ Enter("split")
  /\ OwnState /\ WorkOnly


Narrow ==
  /\ work.pc = "narrow" /\ Cardinality(work.cand) > 1
  /\ work' = [work EXCEPT !.pc = "split", !.cand = Suspects]
  /\ OwnState /\ WorkOnly

\* One candidate is left, or there was none: the diagnosis.
Diagnosed ==
  /\ work.pc = "narrow" /\ Cardinality(work.cand) <= 1
  /\ SetStatus("fixing")
  /\ IF Suspects = {}
     THEN cause' = [cause EXCEPT ![work.inc] = Unknown]
     ELSE \E p \in Suspects : cause' = [cause EXCEPT ![work.inc] = p]
  /\ Enter("model")
  /\ UNCHANGED <<listed, active, wanted, faults>> /\ WorkOnly

Propose ==
  /\ work.pc = "model"
  /\ \E f \in Proposals :
       work' = [work EXCEPT !.pc = "staging", !.intent = f]
  /\ SetStatus("testing")
  /\ UNCHANGED <<cause, listed, active, wanted, faults>> /\ WorkOnly

\* Fault: the attempts are counted down past the last one.
CountlessModelFails ==
  /\ work.pc = "model" /\ site.signature = "none" /\ site.keys
  /\ work' = [work EXCEPT !.tries = @ - 1]
  /\ OwnState /\ WorkOnly

\* The model fails, or answers with what the schema refuses: three attempts.
ModelFails ==
  /\ work.pc = "model" /\ site.signature = "none" /\ site.keys
  /\ IF work.tries > 1
     THEN work' = [work EXCEPT !.tries = @ - 1] /\ UNCHANGED status
     ELSE EndWith("escalated")
  /\ UNCHANGED <<cause, listed, active, wanted, faults>> /\ WorkOnly

\* Fault: the early return leaves the incident as it is.
SilentStagingCheck ==
  /\ work.pc = "staging"
  /\ \E h \in IF site.staging THEN BOOLEAN ELSE {TRUE} :
       IF h THEN Enter("decide") ELSE work' = Idle
  /\ OwnState /\ WorkOnly


StagingCheck ==
  /\ work.pc = "staging"
  /\ \E h \in IF site.staging THEN BOOLEAN ELSE {TRUE} :
       IF h THEN Enter("decide") /\ UNCHANGED status ELSE EndWith("escalated")
  /\ UNCHANGED <<cause, listed, active, wanted, faults>> /\ WorkOnly

Permitted == work.auto \/ work.manual

Decide ==
  /\ work.pc = "decide"
  /\ IF Permitted /\ work.intent.action = "deactivate_plugin"
     THEN Enter("act") /\ UNCHANGED status
     ELSE EndWith("escalated")
  /\ UNCHANGED <<cause, listed, active, wanted, faults>> /\ WorkOnly

Act ==
  /\ work.pc = "act"
  /\ \E c \in Calls("deactivate", work.intent.target) :
       /\ active' = c.active
       /\ faults' = faults \cup c.fault
       /\ IF c.ok
          THEN /\ Enter("mirror")
               /\ wanted' = wanted \ {work.intent.target}
               /\ UNCHANGED status
          ELSE EndWith("escalated") /\ UNCHANGED wanted
  /\ UNCHANGED <<cause, listed>> /\ WorkOnly

\* Fault: the inventory is left to the next heartbeat.
LazyMirror == work.pc = "mirror" /\ Enter("verify") /\ OwnState /\ WorkOnly


Mirror ==
  /\ work.pc = "mirror"
  /\ listed' = listed \ {work.intent.target}
  /\ Enter("verify")
  /\ UNCHANGED <<status, cause, active, wanted, faults>> /\ WorkOnly

Verify ==
  /\ work.pc = "verify"
  /\ IF PageBroken THEN Enter("undo") /\ UNCHANGED status ELSE EndWith("resolved")
  /\ UNCHANGED <<cause, listed, active, wanted, faults>> /\ WorkOnly

\* The page is still broken: the plugin is turned on again, if the site lets it.
Undo ==
  /\ work.pc = "undo"
  /\ \E c \in Calls("activate", work.intent.target) :
       /\ active' = c.active
       /\ faults' = faults \cup c.fault
       /\ listed' = IF c.ok THEN listed \cup {work.intent.target} ELSE listed
  /\ wanted' = wanted \cup {work.intent.target}
  /\ EndWith("escalated")
  /\ UNCHANGED cause /\ WorkOnly

\* The worker dies, or a browser does and the task throws: the job is run again.
Crash ==
  /\ "crash" \in site.faults \ faults /\ work # Idle
  /\ jobs' = Append(jobs, [inc |-> work.inc, manual |-> work.manual])
  /\ orphans' = orphans \cup {work.inc}
  /\ faults' = faults \cup {"crash"}
  /\ work' = Idle
  /\ UNCHANGED <<site, status, cause, allowed, listed, siteVars, beat, request, events,
                 wanted>>

WorkerStep ==
  \/ Pick \/ Begin \/ Split \/ Disable \/ Check \/ Relist \/ Restore \/ Narrow
  \/ Diagnosed \/ Propose \/ ModelFails \/ StagingCheck \/ Decide \/ Act \/ Mirror
  \/ Verify \/ Undo

-----------------------------------------------------------------------------
(***************************************************************************)
(* The API.                                                                *)
(***************************************************************************)
Happens == events < site.events /\ events' = events + 1

Start(r, i, pc) ==
  /\ request[r] = Idle /\ Happens
  /\ request' = [request EXCEPT ![r] = IF pc = "idle" THEN Idle
                                       ELSE [pc |-> pc, inc |-> i, cause |-> cause[i]]]

At(r, pc) == request[r].pc = pc
Go(r, pc) == request' = [request EXCEPT ![r].pc = pc] /\ UNCHANGED events
Done(r) == request' = [request EXCEPT ![r] = Idle] /\ UNCHANGED events
ApiFrame == UNCHANGED <<site, allowed, killed, culprit, beat, orphans>>
ReadOnly == UNCHANGED <<status, cause, jobs, listed, active, work, wanted, faults>>

\* Fault: a declined incident is taken for one that came back.
ForgetfulEventSelect(r, i) ==
  /\ Start(r, i, CASE status[i] = "none" -> "insert"
                   [] status[i] \in {"resolved", "declined"} -> "reopen"
                   [] OTHER -> "idle")
  /\ ReadOnly /\ ApiFrame

\* The plugin reports a fatal error: the row is looked up by its fingerprint ...
EventSelect(r, i) ==
  /\ Start(r, i, CASE status[i] = "none" -> "insert"
                   [] status[i] = "resolved" -> "reopen"
                   [] OTHER -> "idle")
  /\ ReadOnly /\ ApiFrame

Open(i) ==
  /\ status' = [status EXCEPT ![i] = "open"]
  /\ UNCHANGED <<cause, jobs, listed, active, work, wanted, faults>> /\ ApiFrame

\* ... and inserted when there was none; a row inserted meanwhile answers with a 500.
EventInsert(r) ==
  /\ At(r, "insert")
  /\ \/ status[request[r].inc] = "none" /\ Open(request[r].inc) /\ Go(r, "enqueue")
     \/ status[request[r].inc] # "none" /\ Done(r) /\ ReadOnly /\ ApiFrame

\* A probe or a failed checkout inserts first and looks up what it ran into.
IngestInsert(r, i) ==
  \/ status[i] = "none" /\ Start(r, i, "enqueue") /\ Open(i)
  \/ status[i] # "none" /\ Start(r, i, "select") /\ ReadOnly /\ ApiFrame

IngestSelect(r) ==
  /\ At(r, "select")
  /\ IF status[request[r].inc] = "resolved" THEN Go(r, "reopen") ELSE Done(r)
  /\ ReadOnly /\ ApiFrame

\* Fault: the row is reopened and no job queued.
QuietReopen(r) == At(r, "reopen") /\ Open(request[r].inc) /\ Done(r)


Reopen(r) == At(r, "reopen") /\ Open(request[r].inc) /\ Go(r, "enqueue")

AddJob(r, pc, manual) ==
  /\ At(r, pc)
  /\ jobs' = Append(jobs, [inc |-> request[r].inc, manual |-> manual])
  /\ Done(r)
  /\ UNCHANGED <<status, cause, listed, active, work, wanted, faults>> /\ ApiFrame

Enqueue(r) == AddJob(r, "enqueue", FALSE)

\* The owner approves what the incident names as its cause, unless it is unknown.
Approve(r, i) ==
  /\ status[i] # "none"
  /\ Start(r, i, IF status[i] = "resolved" \/ cause[i] = Unknown THEN "idle" ELSE "approve")
  /\ ReadOnly /\ ApiFrame

ApproveOpen(r) == At(r, "approve") /\ Open(request[r].inc) /\ Go(r, "audit")

ApproveAudit(r) ==
  /\ At(r, "audit") /\ Go(r, "enqueue_manual") /\ ReadOnly /\ ApiFrame

EnqueueManual(r) == AddJob(r, "enqueue_manual", TRUE)

Decline(r, i) ==
  /\ status[i] # "none"
  /\ Start(r, i, "idle")
  /\ status' = [status EXCEPT ![i] = "declined"]
  /\ UNCHANGED <<cause, jobs, listed, active, work, wanted, faults>> /\ ApiFrame

Reconsider(r, i) ==
  /\ status[i] # "none"
  /\ Start(r, i, IF status[i] = "declined" THEN "escalate" ELSE "idle")
  /\ ReadOnly /\ ApiFrame

Escalate(r) ==
  /\ At(r, "escalate")
  /\ status' = [status EXCEPT ![request[r].inc] = "escalated"]
  /\ Done(r)
  /\ UNCHANGED <<cause, jobs, listed, active, work, wanted, faults>> /\ ApiFrame

\* The owner takes a deactivation back: inventory, site, incident, in this order.
Rollback(r, i) ==
  /\ status[i] # "none"
  /\ Start(r, i, IF cause[i] = Unknown THEN "escalate" ELSE "rollback")
  /\ ReadOnly /\ ApiFrame

RollbackList(r) ==
  /\ At(r, "rollback")
  /\ listed' = listed \cup ({request[r].cause} \cap Plugins)
  /\ Go(r, "reactivate")
  /\ UNCHANGED <<status, cause, jobs, active, work, wanted, faults>> /\ ApiFrame

RollbackCall(r) ==
  /\ At(r, "reactivate")
  /\ \E c \in Calls("activate", request[r].cause) :
       /\ active' = c.active
       /\ faults' = faults \cup c.fault
  /\ wanted' = wanted \cup ({request[r].cause} \cap Plugins)
  /\ work' = IF work = Idle THEN Idle ELSE [work EXCEPT !.clean = FALSE]
  /\ Go(r, "escalate")
  /\ UNCHANGED <<status, cause, jobs, listed>> /\ ApiFrame

\* The API process dies between two statements of a request.
CrashRequest(r) ==
  /\ "crash" \in site.faults \ faults /\ request[r] # Idle
  /\ orphans' = orphans \cup {request[r].inc}
  /\ faults' = faults \cup {"crash"}
  /\ Done(r)
  /\ UNCHANGED <<site, status, cause, jobs, allowed, listed, siteVars, beat, work, wanted>>

ApiStart(r, i) ==
  \/ EventSelect(r, i) \/ IngestInsert(r, i) \/ Approve(r, i) \/ Decline(r, i)
  \/ Reconsider(r, i) \/ Rollback(r, i)

ApiStep(r) ==
  \/ EventInsert(r) \/ IngestSelect(r) \/ Reopen(r) \/ Enqueue(r) \/ ApproveOpen(r)
  \/ ApproveAudit(r) \/ EnqueueManual(r) \/ Escalate(r) \/ RollbackList(r)
  \/ RollbackCall(r)

-----------------------------------------------------------------------------
(***************************************************************************)
(* The site and its owner.                                                 *)
(***************************************************************************)
SaveSettings ==
  /\ Happens
  /\ allowed' = ~allowed
  /\ UNCHANGED <<site, status, cause, jobs, listed, siteVars, beat, work, request,
                 wanted, faults, orphans>>

SetKillSwitch ==
  /\ Happens
  /\ killed' = ~killed
  /\ UNCHANGED <<site, status, cause, jobs, allowed, listed, active, culprit, beat, work,
                 request, wanted, faults, orphans>>

BeatFrame == UNCHANGED <<site, status, cause, jobs, allowed, siteVars, work, request,
                         wanted, orphans>>

\* A heartbeat carries the plugin list of the moment it is sent, and may get lost.
SendHeartbeat ==
  /\ beat = Idle /\ Happens
  /\ beat' = [pc |-> "sent", plugins |-> active]
  /\ UNCHANGED <<listed, faults>> /\ BeatFrame

RecordHeartbeat ==
  /\ beat # Idle /\ beat' = Idle
  /\ \/ beat.plugins = active /\ UNCHANGED faults
     \/ beat.plugins # active /\ "stale" \in site.faults /\ faults' = faults \cup {"stale"}
  /\ listed' = beat.plugins
  /\ UNCHANGED events /\ BeatFrame

LoseHeartbeat ==
  /\ beat # Idle /\ beat' = Idle
  /\ UNCHANGED <<listed, faults, events>> /\ BeatFrame

\* The page breaks, or heals, for a reason of its own.
PageChanges ==
  /\ Happens
  /\ \E c \in (active \cup {"none", "elsewhere"}) \ {culprit} : culprit' = c
  /\ work' = IF work = Idle THEN Idle ELSE [work EXCEPT !.clean = FALSE]
  /\ UNCHANGED <<site, status, cause, jobs, allowed, listed, active, killed, beat, request,
                 wanted, faults, orphans>>

SiteStep ==
  \/ SaveSettings \/ SetKillSwitch \/ SendHeartbeat \/ RecordHeartbeat \/ LoseHeartbeat
  \/ PageChanges

Next ==
  \/ WorkerStep \/ Crash \/ SiteStep
  \/ \E r \in Requests :
       ApiStep(r) \/ CrashRequest(r) \/ \E i \in Incidents : ApiStart(r, i)

Spec == Init /\ [][Next]_vars

\* The worker takes its next step, and a request its next statement.
Fairness == WF_vars(WorkerStep) /\ \A r \in Requests : WF_vars(ApiStep(r))
FairSpec == Spec /\ Fairness
-----------------------------------------------------------------------------
(***************************************************************************)
(* Properties.                                                             *)
(***************************************************************************)
Held(i) == work # Idle /\ work.inc = i

\* An incident that is marked as being worked on is in the worker's hand, or its job
\* died: nothing else would ever take it up again.
BusyIsOwned == \A i \in Incidents : status[i] \in Busy => Held(i) \/ i \in orphans

\* An open incident has a job in the queue, or one on its way into it or out of it.
OpenIsQueued ==
  \A i \in Incidents : status[i] = "open" =>
    \/ \E k \in DOMAIN jobs : jobs[k].inc = i
    \/ \E r \in Requests : request[r].pc \in {"enqueue", "audit", "enqueue_manual"}
                             /\ request[r].inc = i
    \/ Held(i) \/ i \in orphans

\* The plugins the search holds down for the moment.
InHand ==
  IF work = Idle THEN {}
  ELSE CASE work.pc = "disable" -> work.half \ work.todo
         [] work.pc \in {"check", "relist"} -> work.half
         [] work.pc = "restore" -> work.todo
         [] OTHER -> {}

\* While nothing fails, whatever the search turns off it turns on again: what stays off
\* was turned off by a fix.
OnlyFixesStay == faults = {} => wanted \subseteq active \cup InHand

\* A fix is not undone by the search for another incident's cause.
FixesSurvive ==
  faults = {} =>
    active \subseteq wanted \cup {request[r].cause : r \in {q \in Requests : At(q, "reactivate")}}

\* The search finds the culprit whenever it is one of the plugins asked about, and
\* blames nobody when it is not: with the page broken and nobody else touching it.
SearchIsExact ==
  [][Diagnosed /\ work.clean /\ ~site.staging
       => cause'[work.inc] = IF culprit \in work.asked THEN culprit ELSE Unknown]_vars

\* Declined or handed to a person, and nothing of it under way: no job in the queue or in
\* the worker's hand, no request about to reopen it or to queue a job for it.
AtRest(i) ==
  /\ status[i] \in {"declined", "escalated"}
  /\ ~Held(i) /\ ~\E k \in DOMAIN jobs : jobs[k].inc = i
  /\ ~\E r \in Requests :
       /\ request[r].pc \in {"reopen", "enqueue", "approve", "audit", "enqueue_manual"}
       /\ request[r].inc = i

\* Once it is at rest only an approval takes it up again, whatever the site reports and
\* whatever another request has read before.  A job already queued when the owner declines
\* is not called off: the job looks for "resolved", "escalated" and busy, not "declined".
DeclinedIsLeftAlone ==
  [][\A i \in Incidents : AtRest(i) =>
       AtRest(i)' \/ \E r \in Requests : At(r, "approve")' /\ request'[r].inc = i]_vars

\* An incident does not stay in the middle of the pipeline.
WorkEnds ==
  \A i \in Incidents : status[i] \in Busy ~> status[i] \notin Busy \/ i \in orphans
=============================================================================
