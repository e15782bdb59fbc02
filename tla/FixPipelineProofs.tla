------------------------- MODULE FixPipelineProofs -------------------------
(***************************************************************************)
(* What is proved about the repair of incidents, for every set of          *)
(* incidents, plugins and requests and every kind of site.                 *)
(***************************************************************************)
EXTENDS FixPipeline, FiniteSetTheorems, TLAPS

-----------------------------------------------------------------------------
(***************************************************************************)
(* Facts about the operators.                                              *)
(***************************************************************************)

\* Neither of the markers is a plugin.
LEMMA Markers ==
  /\ Absent \notin Plugins /\ Report \notin Plugins /\ Unknown \notin Plugins
  /\ "none" \notin Plugins /\ "elsewhere" \notin Plugins
BY PipelineAssumption

\* A call changes at most the plugin it names, and a call that succeeds has done so.
LEMMA CallFacts ==
  ASSUME NEW verb \in {"activate", "deactivate"}, NEW p, NEW c \in Calls(verb, p)
  PROVE  /\ c.active = active \/ (p \in Plugins /\ c.active = After(verb, p))
         /\ c.ok \in BOOLEAN
         /\ c.ok => p \in Plugins /\ c.active = After(verb, p)
         /\ c.fault \in {{}, {"refused"}, {"lost"}}
         /\ c.fault = {} /\ p \in Plugins => c.active = After(verb, p)
         /\ c.fault = {} /\ ~c.ok => p \notin Plugins \/ (verb = "deactivate" /\ p \notin active)
<1>1. CASE c = Answer(verb, p)
  <2>1. CASE Taken(verb, p)
    BY <1>1, <2>1 DEF Answer, Served, Taken, WatchdogTakes
  <2>2. CASE ~Taken(verb, p)
    BY <1>1, <2>2 DEF Answer, Served
  <2> QED
    BY <2>1, <2>2
<1>2. CASE c = NoAnswer(active)
  BY <1>2 DEF NoAnswer
<1>3. CASE c = NoAnswer(Served(verb, p))
  <2>1. CASE Taken(verb, p)
    BY <1>3, <2>1 DEF NoAnswer, Served, Taken
  <2>2. CASE ~Taken(verb, p)
    BY <1>3, <2>2 DEF NoAnswer, Served
  <2> QED
    BY <2>1, <2>2
<1> QED
  BY <1>1, <1>2, <1>3 DEF Calls

\* The list of plugins stays one of plugins.
LEMMA CallType ==
  ASSUME active \subseteq Plugins, NEW verb \in {"activate", "deactivate"}, NEW p,
         NEW c \in Calls(verb, p)
  PROVE  c.active \subseteq Plugins /\ c.fault \subseteq {"crash", "lost", "stale", "refused"}
BY CallFacts DEF After

\* A call of the search takes a plugin off its list, and goes on when it is empty.
LEMMA Toggled ==
  ASSUME NEW pc \in WorkSteps, NEW verb, NEW next \in WorkSteps, Toggle(pc, verb, next),
         work \in WorkRecord
  PROVE  work' \in WorkRecord /\ work'.pc \in {pc, next}
<1>1. PICK p \in work.todo : \E c \in Calls(verb, p) :
        work' = [work EXCEPT !.todo = @ \ {p},
                             !.pc = IF work.todo = {p} THEN next ELSE pc,
                             !.clean = @ /\ c.fault = {}]
  BY DEF Toggle
<1>2. PICK c \in Calls(verb, p) :
        work' = [work EXCEPT !.todo = @ \ {p},
                             !.pc = IF work.todo = {p} THEN next ELSE pc,
                             !.clean = @ /\ c.fault = {}]
  BY <1>1
<1>3. (work.clean /\ c.fault = {}) \in BOOLEAN
  OBVIOUS
<1> DEFINE clean == work.clean /\ c.fault = {}
<1>4. work' = [work EXCEPT !.todo = @ \ {p},
                           !.pc = IF work.todo = {p} THEN next ELSE pc,
                           !.clean = clean]
  BY <1>2
<1> HIDE DEF clean
<1> QED
  BY <1>3, <1>4 DEF WorkRecord, clean

-----------------------------------------------------------------------------
(***************************************************************************)
(* Types.                                                                  *)
(***************************************************************************)

\* The first state has the types.
LEMMA InitType == Init => TypeOK
<1> SUFFICES ASSUME Init PROVE TypeOK
  OBVIOUS
<1>1. site \in Sites /\ site.plugins \subseteq Plugins
  BY PipelineAssumption DEF Init, SiteKinds
<1>2. /\ work \in {Idle} \cup WorkRecord /\ work.pc = "idle"
      /\ request \in [Requests -> {Idle} \cup RequestRecord]
      /\ beat \in {Idle} \cup [pc : {"sent"}, plugins : SUBSET Plugins]
  BY DEF Init, Idle
<1>3. jobs \in Seq(Job) /\ status \in [Incidents -> Statuses]
  BY DEF Init, Statuses
<1> QED
  BY <1>1, <1>2, <1>3 DEF Init, TypeOK

\* A worker that is at some step has a job in hand.
LEMMA AtWork ==
  ASSUME TypeOK, work.pc # "idle"
  PROVE  work \in WorkRecord /\ work # Idle
BY DEF TypeOK, Idle

\* Moving on to another step changes nothing else of the job.
LEMMA EnterType ==
  ASSUME work \in WorkRecord, NEW pc \in WorkSteps, Enter(pc)
  PROVE  /\ work' \in WorkRecord /\ work' # Idle /\ work'.pc = pc
         /\ work'.inc = work.inc /\ work'.manual = work.manual
         /\ work'.intent = work.intent
BY DEF Enter, WorkRecord, Idle, WorkSteps, SearchSteps, FixSteps

\* The statuses stay statuses.
LEMMA StatusType ==
  ASSUME TypeOK, work \in WorkRecord, NEW s \in Statuses, SetStatus(s)
  PROVE  /\ status' \in [Incidents -> Statuses] /\ status'[work.inc] = s
         /\ \A i \in Incidents : i # work.inc => status'[i] = status[i]
BY DEF TypeOK, SetStatus, WorkRecord

\* So they do when the job ends.
LEMMA EndType ==
  ASSUME TypeOK, work \in WorkRecord, NEW s \in Statuses, EndWith(s)
  PROVE  /\ work' = Idle /\ work'.pc = "idle"
         /\ status' \in [Incidents -> Statuses] /\ status'[work.inc] = s
         /\ \A i \in Incidents : i # work.inc => status'[i] = status[i]
BY StatusType DEF EndWith, Idle

\* What is proposed is an intent of the schema.
LEMMA ProposalType ==
  ASSUME site \in Sites
  PROVE  Proposals \subseteq Intent
<1>1. site.plugins \subseteq Plugins
  BY PipelineAssumption DEF SiteKinds
<1>2. KnownSignature \subseteq Intent
  BY <1>1 DEF KnownSignature, Intent
<1> QED
  BY <1>1, <1>2 DEF Proposals, DevMock, NoIntent, Intent

\* The worker keeps all types.
LEMMA WorkerType ==
  ASSUME TypeOK, WorkerStep
  PROVE  TypeOK'
<1> USE DEF WorkSteps, SearchSteps, FixSteps
<1>1. CASE Pick
  <2>1. jobs' \in Seq(Job) /\ Head(jobs) \in Job
    BY <1>1 DEF TypeOK, Pick
  <2>2. work' \in {Idle} \cup WorkRecord /\ work'.pc \in {"idle", "begin"}
    <3>1. Started(Head(jobs)) \in WorkRecord
      BY <2>1 DEF TypeOK, Started, Job, WorkRecord, Intent, NoIntent
    <3>2. work = [pc |-> "idle"] /\ (work' = work \/ work' = Started(Head(jobs)))
      BY <1>1 DEF Pick, Idle
    <3>3. Started(Head(jobs)).pc = "begin"
      BY DEF Started
    <3> QED
      BY <3>1, <3>2, <3>3 DEF Idle
  <2> QED
    BY <1>1, <2>1, <2>2 DEF TypeOK, Pick, OwnState
<1>2. CASE Begin
  <2>0. work \in WorkRecord /\ work # Idle
    BY <1>2, AtWork DEF Begin
  <2>1. work' \in WorkRecord /\ work'.pc \in {"narrow", "split"}
    BY <1>2, <2>0 DEF WorkRecord, Begin, TypeOK
  <2>2. status' \in [Incidents -> Statuses]
    BY <1>2, <2>0, StatusType DEF Begin, Statuses
  <2> QED
    BY <1>2, <2>1, <2>2 DEF TypeOK, Begin, WorkOnly, OwnState
<1>3. CASE Split
  <2>0. work \in WorkRecord /\ work # Idle
    BY <1>3, AtWork DEF Split
  <2>1. PICK h \in Half(work.cand) :
           listed' = listed \ h /\ work' = [work EXCEPT !.pc = "disable", !.half = h, !.todo = h]
    BY <1>3 DEF Split
  <2>2. h \subseteq Plugins
    BY <2>0 DEF Half, WorkRecord
  <2>3. work' \in WorkRecord /\ work'.pc = "disable"
    BY <2>0, <2>1, <2>2 DEF WorkRecord
  <2> QED
    BY <1>3, <2>1, <2>3 DEF TypeOK, Split, WorkOnly
<1>4. CASE Disable
  <2>0. work \in WorkRecord /\ work # Idle
    BY <1>4, AtWork DEF Disable, Toggle
  <2>1. work' \in WorkRecord /\ work'.pc \in {"disable", "check"}
    <3>1. Toggle("disable", "deactivate", "check")
      BY <1>4 DEF Disable
    <3> QED
      BY <2>0, <3>1, Toggled
  <2>2. active' \subseteq Plugins /\ faults' \subseteq {"crash", "lost", "stale", "refused"}
    BY <1>4, CallType DEF Disable, Toggle, TypeOK
  <2> QED
    BY <1>4, <2>1, <2>2 DEF TypeOK, Disable, Toggle, WorkOnly
<1>5. CASE Check
  <2>0. work \in WorkRecord /\ work # Idle
    BY <1>5, AtWork DEF Check
  <2>1. PICK h \in BOOLEAN : work' = [work EXCEPT !.pc = "relist", !.healthy = h]
    BY <1>5 DEF Check, Loads, PageBroken
  <2>2. work' \in WorkRecord /\ work'.pc = "relist"
    BY <2>0, <2>1 DEF WorkRecord
  <2> QED
    BY <1>5, <2>2 DEF TypeOK, Check, WorkOnly, OwnState
<1>6. CASE Relist
  <2>0. work \in WorkRecord /\ work # Idle
    BY <1>6, AtWork DEF Relist
  <2>1. work' \in WorkRecord /\ work'.pc = "restore" /\ listed' \subseteq Plugins
    BY <1>6, <2>0 DEF WorkRecord, Relist, TypeOK
  <2> QED
    BY <1>6, <2>1 DEF TypeOK, Relist, WorkOnly, OwnState
<1>7. CASE Restore
  <2>0. work \in WorkRecord /\ work # Idle
    BY <1>7, AtWork DEF Restore, Toggle
  <2>1. work' \in WorkRecord /\ work'.pc \in {"restore", "narrow"}
    <3>1. Toggle("restore", "activate", "narrow")
      BY <1>7 DEF Restore
    <3> QED
      BY <2>0, <3>1, Toggled
  <2>2. active' \subseteq Plugins /\ faults' \subseteq {"crash", "lost", "stale", "refused"}
    BY <1>7, CallType DEF Restore, Toggle, TypeOK
  <2> QED
    BY <1>7, <2>1, <2>2 DEF TypeOK, Restore, Toggle, WorkOnly
<1>8. CASE Narrow
  <2>0. work \in WorkRecord /\ work # Idle
    BY <1>8, AtWork DEF Narrow
  <2>1. work' \in WorkRecord /\ work'.pc = "split"
    BY <1>8, <2>0 DEF WorkRecord, Narrow, Suspects, TypeOK
  <2> QED
    BY <1>8, <2>1 DEF TypeOK, Narrow, WorkOnly, OwnState
<1>9. CASE Diagnosed
  <2>0. work \in WorkRecord /\ work # Idle
    BY <1>9, AtWork DEF Diagnosed
  <2>1. work' \in WorkRecord /\ work'.pc = "model"
    BY <1>9, <2>0, EnterType DEF Diagnosed
  <2>2. status' \in [Incidents -> Statuses]
    BY <1>9, <2>0, StatusType DEF Diagnosed, Statuses
  <2>3. cause' \in [Incidents -> Plugins \cup {Report, Unknown}]
    BY <1>9, <2>0 DEF Diagnosed, Suspects, WorkRecord, TypeOK
  <2> QED
    BY <1>9, <2>1, <2>2, <2>3 DEF TypeOK, Diagnosed, WorkOnly
<1>10. CASE Propose
  <2>0. work \in WorkRecord /\ work # Idle
    BY <1>10, AtWork DEF Propose
  <2>1. PICK f \in Proposals : work' = [work EXCEPT !.pc = "staging", !.intent = f]
    BY <1>10 DEF Propose
  <2>2. work' \in WorkRecord /\ work'.pc = "staging"
    BY <2>0, <2>1, ProposalType DEF TypeOK, WorkRecord
  <2>3. status' \in [Incidents -> Statuses]
    BY <1>10, <2>0, StatusType DEF Propose, Statuses
  <2> QED
    BY <1>10, <2>2, <2>3 DEF TypeOK, Propose, WorkOnly
<1>11. CASE ModelFails
  <2>0. work \in WorkRecord /\ work # Idle
    BY <1>11, AtWork DEF ModelFails
  <2>1. CASE work.tries > 1
    <3>1. work' \in WorkRecord /\ work'.pc = "model"
      BY <1>11, <2>0, <2>1 DEF ModelFails, WorkRecord
    <3> QED
      BY <1>11, <2>1, <3>1 DEF TypeOK, ModelFails, WorkOnly
  <2>2. CASE ~(work.tries > 1)
    <3>1. work' = Idle /\ work'.pc = "idle" /\ status' \in [Incidents -> Statuses]
      BY <1>11, <2>0, <2>2, EndType DEF ModelFails, Statuses
    <3> QED
      BY <1>11, <3>1 DEF TypeOK, ModelFails, WorkOnly
  <2> QED
    BY <2>1, <2>2
<1>12. CASE StagingCheck
  <2>0. work \in WorkRecord /\ work # Idle
    BY <1>12, AtWork DEF StagingCheck
  <2>1. CASE Enter("decide") /\ UNCHANGED status
    <3>1. work' \in WorkRecord /\ work'.pc = "decide" /\ work'.intent = work.intent
      BY <2>0, <2>1, EnterType
    <3> QED
      BY <1>12, <2>1, <3>1 DEF TypeOK, StagingCheck, WorkOnly
  <2>2. CASE EndWith("escalated")
    <3>1. work' = Idle /\ work'.pc = "idle" /\ status' \in [Incidents -> Statuses]
      BY <2>0, <2>2, EndType DEF Statuses
    <3> QED
      BY <1>12, <3>1 DEF TypeOK, StagingCheck, WorkOnly
  <2> QED
    BY <1>12, <2>1, <2>2 DEF StagingCheck
<1>13. CASE Decide
  <2>0. work \in WorkRecord /\ work # Idle
    BY <1>13, AtWork DEF Decide
  <2>1. CASE Enter("act") /\ UNCHANGED status
    <3>1. work' \in WorkRecord /\ work'.pc = "act" /\ work'.intent = work.intent
      BY <2>0, <2>1, EnterType
    <3> QED
      BY <1>13, <2>1, <3>1 DEF TypeOK, Decide, WorkOnly
  <2>2. CASE EndWith("escalated")
    <3>1. work' = Idle /\ work'.pc = "idle" /\ status' \in [Incidents -> Statuses]
      BY <2>0, <2>2, EndType DEF Statuses
    <3> QED
      BY <1>13, <3>1 DEF TypeOK, Decide, WorkOnly
  <2> QED
    BY <1>13, <2>1, <2>2 DEF Decide
<1>14. CASE Act
  <2>0. work \in WorkRecord /\ work # Idle
    BY <1>14, AtWork DEF Act
  <2>1. PICK c \in Calls("deactivate", work.intent.target) :
           /\ active' = c.active /\ faults' = faults \cup c.fault
           /\ IF c.ok
              THEN /\ Enter("mirror")
                   /\ wanted' = wanted \ {work.intent.target}
                   /\ UNCHANGED status
              ELSE EndWith("escalated") /\ UNCHANGED wanted
    BY <1>14 DEF Act
  <2>2. active' \subseteq Plugins /\ faults' \subseteq {"crash", "lost", "stale", "refused"}
    BY <2>1, CallType DEF TypeOK
  <2>3. CASE c.ok
    <3>1. /\ work' \in WorkRecord /\ work'.pc = "mirror" /\ work'.intent = work.intent
          /\ work.intent.target \in Plugins
      BY <2>0, <2>1, <2>3, EnterType, CallFacts
    <3> QED
      BY <1>14, <2>1, <2>2, <2>3, <3>1 DEF TypeOK, Act, WorkOnly
  <2>4. CASE ~c.ok
    <3>1. work' = Idle /\ work'.pc = "idle" /\ status' \in [Incidents -> Statuses]
      BY <2>0, <2>1, <2>4, EndType DEF Statuses
    <3> QED
      BY <1>14, <2>1, <2>2, <2>4, <3>1 DEF TypeOK, Act, WorkOnly
  <2> QED
    BY <2>3, <2>4
<1>15. CASE Mirror
  <2>0. work \in WorkRecord /\ work # Idle
    BY <1>15, AtWork DEF Mirror
  <2>1. work' \in WorkRecord /\ work'.pc = "verify" /\ work'.intent = work.intent
    BY <1>15, <2>0, EnterType DEF Mirror
  <2> QED
    BY <1>15, <2>1 DEF TypeOK, Mirror, WorkOnly
<1>16. CASE Verify
  <2>0. work \in WorkRecord /\ work # Idle
    BY <1>16, AtWork DEF Verify
  <2>1. CASE Enter("undo") /\ UNCHANGED status
    <3>1. work' \in WorkRecord /\ work'.pc = "undo" /\ work'.intent = work.intent
      BY <2>0, <2>1, EnterType
    <3> QED
      BY <1>16, <2>1, <3>1 DEF TypeOK, Verify, WorkOnly
  <2>2. CASE EndWith("resolved")
    <3>1. work' = Idle /\ work'.pc = "idle" /\ status' \in [Incidents -> Statuses]
      BY <2>0, <2>2, EndType DEF Statuses
    <3> QED
      BY <1>16, <3>1 DEF TypeOK, Verify, WorkOnly
  <2> QED
    BY <1>16, <2>1, <2>2 DEF Verify
<1>17. CASE Undo
  <2>0. work \in WorkRecord /\ work # Idle
    BY <1>17, AtWork DEF Undo
  <2>1. /\ active' \subseteq Plugins /\ listed' \subseteq Plugins
        /\ faults' \subseteq {"crash", "lost", "stale", "refused"}
    BY <1>17, CallType DEF Undo, TypeOK
  <2>2. work' = Idle /\ work'.pc = "idle" /\ status' \in [Incidents -> Statuses]
    BY <1>17, <2>0, EndType DEF Undo, Statuses
  <2> QED
    BY <1>17, <2>1, <2>2 DEF TypeOK, Undo, WorkOnly
<1> QED
  BY <1>1, <1>2, <1>3, <1>4, <1>5, <1>6, <1>7, <1>8, <1>9, <1>10, <1>11, <1>12, <1>13, <1>14,
     <1>15, <1>16, <1>17 DEF WorkerStep

\* The surroundings keep all types.
LEMMA SurroundingsType ==
  ASSUME TypeOK, Crash \/ SiteStep
  PROVE  TypeOK'
<1>1. CASE Crash
  <2>1. work \in WorkRecord
    BY <1>1 DEF TypeOK, Crash
  <2>2. jobs' \in Seq(Job) /\ orphans' \subseteq Incidents
    BY <1>1, <2>1 DEF TypeOK, Crash, Job, WorkRecord
  <2> QED
    BY <1>1, <2>2 DEF TypeOK, Crash, Idle, siteVars
<1>2. CASE SaveSettings
  <2>1. events' \in Nat /\ allowed' \in BOOLEAN
    BY <1>2 DEF TypeOK, SaveSettings, Happens
  <2> QED
    BY <1>2, <2>1 DEF TypeOK, SaveSettings, siteVars
<1>7. CASE SetKillSwitch
  <2>1. events' \in Nat /\ killed' \in BOOLEAN
    BY <1>7 DEF TypeOK, SetKillSwitch, Happens
  <2> QED
    BY <1>7, <2>1 DEF TypeOK, SetKillSwitch
<1>3. CASE SendHeartbeat
  BY <1>3 DEF TypeOK, SendHeartbeat, Happens, BeatFrame, siteVars
<1>4. CASE RecordHeartbeat
  <2>1. listed' \subseteq Plugins
    BY <1>4 DEF TypeOK, RecordHeartbeat, Idle
  <2> QED
    BY <1>4, <2>1 DEF TypeOK, RecordHeartbeat, BeatFrame, siteVars, Idle
<1>5. CASE LoseHeartbeat
  BY <1>5 DEF TypeOK, LoseHeartbeat, BeatFrame, siteVars, Idle
<1>6. CASE PageChanges
  <2>1. culprit' \in Plugins \cup {"none", "elsewhere"}
    BY <1>6 DEF TypeOK, PageChanges
  <2>2. work' \in {Idle} \cup WorkRecord /\ work'.pc = work.pc /\ work'.intent = work.intent
    BY <1>6 DEF TypeOK, PageChanges, WorkRecord, Idle
  <2> QED
    BY <1>6, <2>1, <2>2 DEF TypeOK, PageChanges, Happens, siteVars
<1> QED
  BY <1>1, <1>2, <1>3, <1>4, <1>5, <1>6, <1>7 DEF SiteStep

\* A request that is at some step is one of the records, and moving it keeps it one.
LEMMA RequestMoves ==
  ASSUME TypeOK, NEW r \in Requests, request[r].pc # "idle"
  PROVE  /\ request[r] \in RequestRecord /\ request[r] # Idle
         /\ \A pc \in RequestSteps : Go(r, pc) =>
              request' \in [Requests -> {Idle} \cup RequestRecord]
         /\ Done(r) => request' \in [Requests -> {Idle} \cup RequestRecord]
<1>1. request[r] \in RequestRecord /\ request[r] # Idle
  BY DEF TypeOK, Idle
<1>2. ASSUME NEW pc \in RequestSteps, Go(r, pc)
      PROVE  request' \in [Requests -> {Idle} \cup RequestRecord]
  <2>1. [request[r] EXCEPT !.pc = pc] \in RequestRecord
    BY <1>1 DEF RequestRecord
  <2> QED
    BY <1>2, <2>1 DEF Go, TypeOK
<1>3. Done(r) => request' \in [Requests -> {Idle} \cup RequestRecord]
  BY DEF Done, TypeOK
<1> QED
  BY <1>1, <1>2, <1>3

\* So does starting one.
LEMMA StartType ==
  ASSUME TypeOK, NEW r \in Requests, NEW i \in Incidents,
         NEW pc \in RequestSteps \cup {"idle"}, Start(r, i, pc)
  PROVE  request' \in [Requests -> {Idle} \cup RequestRecord] /\ events' \in Nat
BY DEF TypeOK, Start, Happens, RequestRecord

\* The statements of a request keep all types.
LEMMA StatementType ==
  ASSUME TypeOK, NEW r \in Requests, ApiStep(r) \/ CrashRequest(r)
  PROVE  TypeOK'
<1> DEFINE RT == request' \in [Requests -> {Idle} \cup RequestRecord]
<1> USE DEF RequestSteps
<1>1. CASE EventInsert(r)
  <2>1. request[r] \in RequestRecord
    BY <1>1, RequestMoves DEF EventInsert, At
  <2>2. RT
    BY <1>1, RequestMoves DEF EventInsert, At
  <2>3. status' \in [Incidents -> Statuses]
    BY <1>1, <2>1 DEF TypeOK, EventInsert, Open, ReadOnly, RequestRecord, Statuses
  <2> QED
    BY <1>1, <2>2, <2>3
    DEF TypeOK, EventInsert, Go, Done, Open, ReadOnly, ApiFrame
<1>2. CASE IngestSelect(r)
  <2>1. request[r] \in RequestRecord
    BY <1>2, RequestMoves DEF IngestSelect, At
  <2>2. RT
    BY <1>2, RequestMoves DEF IngestSelect, At
  <2> QED
    BY <1>2, <2>2
    DEF TypeOK, IngestSelect, Go, Done, ReadOnly, ApiFrame
<1>3. CASE Reopen(r)
  <2>1. request[r] \in RequestRecord
    BY <1>3, RequestMoves DEF Reopen, At
  <2>2. RT
    BY <1>3, RequestMoves DEF Reopen, At
  <2>3. status' \in [Incidents -> Statuses]
    BY <1>3, <2>1 DEF TypeOK, Reopen, Open, ReadOnly, RequestRecord, Statuses
  <2> QED
    BY <1>3, <2>2, <2>3
    DEF TypeOK, Reopen, Go, Done, Open, ReadOnly, ApiFrame
<1>4. CASE ApproveOpen(r)
  <2>1. request[r] \in RequestRecord
    BY <1>4, RequestMoves DEF ApproveOpen, At
  <2>2. RT
    BY <1>4, RequestMoves DEF ApproveOpen, At
  <2>3. status' \in [Incidents -> Statuses]
    BY <1>4, <2>1 DEF TypeOK, ApproveOpen, Open, ReadOnly, RequestRecord, Statuses
  <2> QED
    BY <1>4, <2>2, <2>3
    DEF TypeOK, ApproveOpen, Go, Done, Open, ReadOnly, ApiFrame
<1>5. CASE ApproveAudit(r)
  <2>1. request[r] \in RequestRecord
    BY <1>5, RequestMoves DEF ApproveAudit, At
  <2>2. RT
    BY <1>5, RequestMoves DEF ApproveAudit, At
  <2> QED
    BY <1>5, <2>2
    DEF TypeOK, ApproveAudit, Go, Done, ReadOnly, ApiFrame
<1>6. CASE Escalate(r)
  <2>1. request[r] \in RequestRecord
    BY <1>6, RequestMoves DEF Escalate, At
  <2>2. RT
    BY <1>6, RequestMoves DEF Escalate, At
  <2>3. status' \in [Incidents -> Statuses]
    BY <1>6, <2>1 DEF TypeOK, Escalate, Open, ReadOnly, RequestRecord, Statuses
  <2> QED
    BY <1>6, <2>2, <2>3
    DEF TypeOK, Escalate, Go, Done, ReadOnly, ApiFrame
<1>7. CASE RollbackList(r)
  <2>1. request[r] \in RequestRecord
    BY <1>7, RequestMoves DEF RollbackList, At
  <2>2. RT
    BY <1>7, RequestMoves DEF RollbackList, At
  <2> QED
    BY <1>7, <2>2
    DEF TypeOK, RollbackList, Go, Done, ReadOnly, ApiFrame
<1>8. CASE RollbackCall(r)
  <2>1. request[r] \in RequestRecord
    BY <1>8, RequestMoves DEF RollbackCall, At
  <2>2. RT
    BY <1>8, RequestMoves DEF RollbackCall, At
  <2>3. active' \subseteq Plugins /\ faults' \subseteq {"crash", "lost", "stale", "refused"}
    BY <1>8, CallType DEF TypeOK, RollbackCall
  <2>4. work' \in {Idle} \cup WorkRecord /\ work'.pc = work.pc /\ work'.intent = work.intent
    BY <1>8 DEF TypeOK, RollbackCall, WorkRecord, Idle
  <2> QED
    BY <1>8, <2>2, <2>3, <2>4
    DEF TypeOK, RollbackCall, Go, Done, ReadOnly, ApiFrame
<1>9. CASE Enqueue(r)
  <2>1. request[r] \in RequestRecord
    BY <1>9, RequestMoves DEF Enqueue, AddJob, At
  <2>2. RT
    BY <1>9, RequestMoves DEF Enqueue, AddJob, At
  <2>3. jobs' \in Seq(Job)
    BY <1>9, <2>1 DEF TypeOK, Enqueue, AddJob, RequestRecord, Job
  <2> QED
    BY <1>9, <2>2, <2>3
    DEF TypeOK, Enqueue, AddJob, Go, Done, ReadOnly, ApiFrame
<1>10. CASE EnqueueManual(r)
  <2>1. request[r] \in RequestRecord
    BY <1>10, RequestMoves DEF EnqueueManual, AddJob, At
  <2>2. RT
    BY <1>10, RequestMoves DEF EnqueueManual, AddJob, At
  <2>3. jobs' \in Seq(Job)
    BY <1>10, <2>1 DEF TypeOK, EnqueueManual, AddJob, RequestRecord, Job
  <2> QED
    BY <1>10, <2>2, <2>3
    DEF TypeOK, EnqueueManual, AddJob, Go, Done, ReadOnly, ApiFrame
<1>11. CASE CrashRequest(r)
  <2>1. request[r] \in RequestRecord
    BY <1>11 DEF CrashRequest, TypeOK
  <2>2. RT /\ orphans' \subseteq Incidents
    BY <1>11, <2>1 DEF CrashRequest, TypeOK, Done, RequestRecord
  <2> QED
    BY <1>11, <2>2 DEF TypeOK, CrashRequest, Done, siteVars
<1> QED
  BY <1>1, <1>2, <1>3, <1>4, <1>5, <1>6, <1>7, <1>8, <1>9, <1>10, <1>11 DEF ApiStep

\* So does the first statement of one.
LEMMA RequestType ==
  ASSUME TypeOK, NEW r \in Requests, NEW i \in Incidents, ApiStart(r, i)
  PROVE  TypeOK'
<1> USE DEF RequestSteps
<1>1. request' \in [Requests -> {Idle} \cup RequestRecord] /\ events' \in Nat
  BY StartType
  DEF ApiStart, EventSelect, IngestInsert, Approve, Decline, Reconsider, Rollback
<1>2. status' \in [Incidents -> Statuses]
  BY DEF TypeOK, Statuses, ApiStart, EventSelect, IngestInsert, Approve, Decline, Reconsider,
         Rollback, Open, ReadOnly
<1> QED
  BY <1>1, <1>2
  DEF TypeOK, ApiStart, EventSelect, IngestInsert, Approve, Decline, Reconsider, Rollback,
      Open, ReadOnly, ApiFrame

\* Every step keeps all types.
LEMMA NextType == TypeOK /\ [Next]_vars => TypeOK'
<1> SUFFICES ASSUME TypeOK, [Next]_vars PROVE TypeOK'
  OBVIOUS
<1>1. CASE UNCHANGED vars
  BY <1>1 DEF TypeOK, vars
<1> QED
  BY <1>1, WorkerType, SurroundingsType, StatementType, RequestType DEF Next

\* No job, request, crash or lost answer ever leaves a row or the site in a state that
\* has no name.
THEOREM PipelineTypeCorrect == Spec => []TypeOK
BY InitType, NextType, PTL DEF Spec

-----------------------------------------------------------------------------
(***************************************************************************)
(* What a step does to incidents, jobs and requests, whatever else it does.*)
(***************************************************************************)

\* The job stays in hand.
GoesOn ==
  work'.pc # "idle" /\ work'.inc = work.inc /\ work'.manual = work.manual

\* A step of the job in hand marks its own incident busy, or ends with the incident
\* settled.
LEMMA WorkerEffect ==
  ASSUME TypeOK, WorkerStep, ~Pick
  PROVE  /\ work \in WorkRecord /\ work # Idle
         /\ UNCHANGED <<jobs, request, orphans>>
         /\ \/ GoesOn /\ (UNCHANGED status \/ \E s \in Busy : SetStatus(s))
            \/ \E s \in {"escalated", "resolved"} : EndWith(s)
<1> USE DEF Busy, WorkOnly, GoesOn
<1>1. CASE Begin
  BY <1>1, AtWork DEF Begin, WorkRecord
<1>2. CASE Split
  BY <1>2, AtWork DEF Split, OwnState, WorkRecord
<1>3. CASE Disable
  BY <1>3, AtWork DEF Disable, Toggle, OwnState, WorkRecord
<1>4. CASE Check
  BY <1>4, AtWork DEF Check, OwnState, WorkRecord
<1>5. CASE Relist
  BY <1>5, AtWork DEF Relist, OwnState, WorkRecord
<1>6. CASE Restore
  BY <1>6, AtWork DEF Restore, Toggle, OwnState, WorkRecord
<1>7. CASE Narrow
  BY <1>7, AtWork DEF Narrow, OwnState, WorkRecord
<1>8. CASE Diagnosed
  BY <1>8, AtWork, EnterType DEF Diagnosed, WorkSteps
<1>9. CASE Propose
  BY <1>9, AtWork DEF Propose, WorkRecord
<1>10. CASE ModelFails
  <2>1. work \in WorkRecord /\ work # Idle
    BY <1>10, AtWork DEF ModelFails
  <2>2. CASE work.tries > 1
    BY <1>10, <2>1, <2>2, EnterType DEF ModelFails, WorkRecord
  <2>3. CASE ~(work.tries > 1)
    BY <1>10, <2>1, <2>3 DEF ModelFails
  <2> QED
    BY <2>2, <2>3
<1>11. CASE StagingCheck
  <2>1. work \in WorkRecord /\ work # Idle
    BY <1>11, AtWork DEF StagingCheck
  <2>2. CASE Enter("decide") /\ UNCHANGED status
    BY <1>11, <2>1, <2>2, EnterType DEF StagingCheck, WorkSteps, FixSteps
  <2>3. CASE EndWith("escalated")
    BY <1>11, <2>1, <2>3 DEF StagingCheck
  <2> QED
    BY <1>11, <2>2, <2>3 DEF StagingCheck
<1>12. CASE Decide
  <2>1. work \in WorkRecord /\ work # Idle
    BY <1>12, AtWork DEF Decide
  <2>2. CASE Permitted /\ work.intent.action = "deactivate_plugin"
    BY <1>12, <2>1, <2>2, EnterType DEF Decide, WorkSteps, FixSteps
  <2>3. CASE ~(Permitted /\ work.intent.action = "deactivate_plugin")
    BY <1>12, <2>1, <2>3 DEF Decide
  <2> QED
    BY <2>2, <2>3
<1>13. CASE Act
  <2>1. work \in WorkRecord /\ work # Idle
    BY <1>13, AtWork DEF Act
  <2>2. CASE EndWith("escalated")
    BY <1>13, <2>1, <2>2 DEF Act
  <2>3. CASE Enter("mirror") /\ UNCHANGED status
    BY <1>13, <2>1, <2>3, EnterType DEF Act, WorkSteps, FixSteps
  <2> QED
    BY <1>13, <2>2, <2>3 DEF Act
<1>14. CASE Mirror
  BY <1>14, AtWork, EnterType DEF Mirror, WorkSteps, FixSteps
<1>15. CASE Verify
  <2>1. work \in WorkRecord /\ work # Idle
    BY <1>15, AtWork DEF Verify
  <2>2. CASE PageBroken
    BY <1>15, <2>1, <2>2, EnterType DEF Verify, WorkSteps, FixSteps
  <2>3. CASE ~(PageBroken)
    BY <1>15, <2>1, <2>3 DEF Verify
  <2> QED
    BY <2>2, <2>3
<1>16. CASE Undo
  BY <1>16, AtWork DEF Undo
<1> QED
  BY <1>1, <1>2, <1>3, <1>4, <1>5, <1>6, <1>7, <1>8,
     <1>9, <1>10, <1>11, <1>12, <1>13, <1>14, <1>15, <1>16
  DEF WorkerStep

\* So the status of the others stays, and its own is busy only while the job lasts.
LEMMA WorkerStatus ==
  ASSUME TypeOK, WorkerStep, ~Pick
  PROVE  /\ \A i \in Incidents : i # work.inc => status'[i] = status[i]
         /\ \/ GoesOn /\ (status' = status \/ status'[work.inc] \in Busy)
            \/ work' = Idle /\ status'[work.inc] \in {"escalated", "resolved"}
<1>1. work \in WorkRecord
  BY WorkerEffect
<1>2. CASE GoesOn /\ UNCHANGED status
  BY <1>2
<1>3. ASSUME NEW s \in Busy, SetStatus(s), GoesOn
      PROVE  /\ \A i \in Incidents : i # work.inc => status'[i] = status[i]
             /\ status'[work.inc] \in Busy
  BY <1>1, <1>3, StatusType DEF Busy, Statuses
<1>4. ASSUME NEW s \in {"escalated", "resolved"}, EndWith(s)
      PROVE  /\ \A i \in Incidents : i # work.inc => status'[i] = status[i]
             /\ work' = Idle /\ status'[work.inc] \in {"escalated", "resolved"}
  BY <1>1, <1>4, EndType DEF Statuses
<1> QED
  BY <1>2, <1>3, <1>4, WorkerEffect

\* Nobody else takes the job out of the worker's hand.
SameJob ==
  /\ work'.pc = work.pc
  /\ work.pc # "idle" => work'.inc = work.inc /\ work'.manual = work.manual

\* The site and its owner touch neither incidents nor jobs nor requests.
LEMMA SiteEffect ==
  ASSUME TypeOK, SiteStep
  PROVE  SameJob /\ UNCHANGED <<status, jobs, request, orphans>>
<1>1. CASE PageChanges
  BY <1>1 DEF PageChanges, SameJob, TypeOK, WorkRecord, Idle
<1>2. CASE SaveSettings \/ SetKillSwitch
  BY <1>2 DEF SaveSettings, SetKillSwitch, SameJob
<1>3. CASE SendHeartbeat \/ RecordHeartbeat \/ LoseHeartbeat
  BY <1>3 DEF SendHeartbeat, RecordHeartbeat, LoseHeartbeat, BeatFrame, SameJob
<1> QED
  BY <1>1, <1>2, <1>3 DEF SiteStep

\* A request moves on alone, and sets statuses that need no worker.
RequestOnly(r) ==
  /\ SameJob /\ orphans' = orphans
  /\ \A q \in Requests : q # r => request'[q] = request[q]
  /\ \A i \in Incidents : status'[i] = status[i] \/ status'[i] \in {"open", "declined", "escalated"}

\* Every statement of a request is such a step.
LEMMA RequestEffect ==
  ASSUME TypeOK, NEW r \in Requests,
         ApiStep(r) \/ \E i \in Incidents : ApiStart(r, i)
  PROVE  RequestOnly(r)
<1> USE DEF RequestOnly, SameJob
<1>0. request \in [Requests -> {Idle} \cup RequestRecord] /\ status \in [Incidents -> Statuses]
  BY DEF TypeOK
<1>1. CASE EventInsert(r)
  BY <1>0, <1>1 DEF EventInsert, Go, Done, ApiFrame, Open, ReadOnly
<1>2. CASE IngestSelect(r)
  BY <1>0, <1>2 DEF IngestSelect, Go, Done, ApiFrame, ReadOnly
<1>3. CASE Reopen(r)
  BY <1>0, <1>3 DEF Reopen, Go, Done, ApiFrame, Open
<1>4. CASE ApproveOpen(r)
  BY <1>0, <1>4 DEF ApproveOpen, Go, Done, ApiFrame, Open
<1>5. CASE ApproveAudit(r)
  BY <1>0, <1>5 DEF ApproveAudit, Go, ReadOnly, ApiFrame
<1>6. CASE Escalate(r)
  BY <1>0, <1>6 DEF Escalate, Go, Done, ApiFrame
<1>7. CASE RollbackList(r)
  BY <1>0, <1>7 DEF RollbackList, Go, Done, ApiFrame
<1>8. CASE RollbackCall(r)
  <2>1. SameJob
    BY <1>8 DEF RollbackCall, TypeOK, WorkRecord, Idle
  <2> QED
    BY <1>0, <1>8, <2>1 DEF RollbackCall, Go, ApiFrame
<1>9. CASE Enqueue(r)
  BY <1>0, <1>9 DEF Enqueue, Go, Done, ApiFrame, AddJob
<1>10. CASE EnqueueManual(r)
  BY <1>0, <1>10 DEF EnqueueManual, Go, Done, ApiFrame, AddJob
<1>11. ASSUME NEW i \in Incidents, ApiStart(r, i) PROVE RequestOnly(r)
  <2>1. CASE EventSelect(r, i)
    BY <1>0, <2>1 DEF EventSelect, Start, ApiFrame, ReadOnly
  <2>2. CASE IngestInsert(r, i)
    BY <1>0, <2>2 DEF IngestInsert, Start, ApiFrame, Open, ReadOnly
  <2>3. CASE Approve(r, i)
    BY <1>0, <2>3 DEF Approve, Start, ApiFrame, ReadOnly
  <2>4. CASE Decline(r, i)
    BY <1>0, <2>4 DEF Decline, Start, ApiFrame
  <2>5. CASE Reconsider(r, i)
    BY <1>0, <2>5 DEF Reconsider, Start, ApiFrame, ReadOnly
  <2>6. CASE Rollback(r, i)
    BY <1>0, <2>6 DEF Rollback, Start, ApiFrame, ReadOnly
  <2> QED
    BY <1>11, <2>1, <2>2, <2>3, <2>4, <2>5, <2>6 DEF ApiStart
<1> QED
  BY <1>1, <1>2, <1>3, <1>4, <1>5, <1>6, <1>7, <1>8, <1>9, <1>10, <1>11 DEF ApiStep

-----------------------------------------------------------------------------
(***************************************************************************)
(* Incidents at rest, open and busy.                                       *)
(***************************************************************************)

\* What is in the worker's hand stays there.
LEMMA HeldStays ==
  ASSUME TypeOK, SameJob, NEW i \in Incidents, Held(i)
  PROVE  Held(i)' /\ work'.manual = work.manual
BY DEF Held, SameJob, TypeOK, Idle, WorkRecord, WorkSteps, SearchSteps, FixSteps

\* So does what is not in it.
LEMMA SameHand ==
  ASSUME TypeOK, TypeOK', SameJob, NEW i \in Incidents, ~Held(i)
  PROVE  ~Held(i)'
BY DEF Held, SameJob, TypeOK, Idle, WorkRecord, WorkSteps, SearchSteps, FixSteps

\* No step marks an incident as being worked on without having it in hand.
LEMMA BusyStep == TypeOK /\ BusyIsOwned /\ [Next]_vars => BusyIsOwned'
<1> SUFFICES ASSUME TypeOK, BusyIsOwned, [Next]_vars, NEW i \in Incidents, status'[i] \in Busy
    PROVE  Held(i)' \/ i \in orphans'
  BY DEF BusyIsOwned
<1> USE DEF Held
<1>0. TypeOK' /\ (status[i] \in Busy => Held(i) \/ i \in orphans)
  BY NextType DEF BusyIsOwned
<1>1. CASE Pick
  BY <1>0, <1>1 DEF Pick, OwnState
<1>2. CASE WorkerStep /\ ~Pick
  <2>1. CASE i = work.inc
    BY <1>2, <2>1, WorkerEffect, WorkerStatus DEF GoesOn, Busy, Idle
  <2>2. CASE i # work.inc
    BY <1>0, <1>2, <2>2, WorkerEffect, WorkerStatus
  <2> QED
    BY <2>1, <2>2
<1>3. CASE Crash
  BY <1>0, <1>3 DEF Crash
<1>4. CASE SiteStep
  <2>1. SameJob /\ status'[i] = status[i] /\ orphans' = orphans
    BY <1>4, SiteEffect
  <2>2. Held(i) => Held(i)'
    BY <2>1, HeldStays
  <2> QED
    BY <1>0, <2>1, <2>2
<1>5. ASSUME NEW r \in Requests, CrashRequest(r) PROVE Held(i)' \/ i \in orphans'
  BY <1>0, <1>5 DEF CrashRequest
<1>6. ASSUME NEW r \in Requests, ApiStep(r) \/ \E j \in Incidents : ApiStart(r, j)
      PROVE  Held(i)' \/ i \in orphans'
  <2>1. RequestOnly(r)
    BY <1>6, RequestEffect
  <2>2. status[i] \in Busy
    BY <2>1 DEF RequestOnly, Busy
  <2>3. Held(i) => Held(i)'
    BY <2>1, HeldStays DEF RequestOnly
  <2> QED
    BY <1>0, <2>1, <2>2, <2>3 DEF RequestOnly
<1>7. CASE UNCHANGED vars
  BY <1>0, <1>7 DEF vars
<1> QED
  BY <1>1, <1>2, <1>3, <1>4, <1>5, <1>6, <1>7 DEF Next

\* An incident marked as being worked on is in the worker's hand, or its job died.
THEOREM BusyOwned == Spec => []BusyIsOwned
<1>1. Init => BusyIsOwned
  BY DEF Init, BusyIsOwned, Busy
<1> QED
  BY <1>1, BusyStep, PipelineTypeCorrect, PTL DEF Spec

-----------------------------------------------------------------------------
\* The queue: a job added is in it with all that were, and one taken was its first.
LEMMA QueueFacts ==
  ASSUME jobs \in Seq(Job)
  PROVE  /\ \A e \in Job : /\ Append(jobs, e) \in Seq(Job)
                           /\ \A k \in DOMAIN jobs : k \in DOMAIN Append(jobs, e)
                                                    /\ Append(jobs, e)[k] = jobs[k]
                           /\ Len(jobs) + 1 \in DOMAIN Append(jobs, e)
                           /\ Append(jobs, e)[Len(jobs) + 1] = e
                           /\ \A k \in DOMAIN Append(jobs, e) :
                                k \in DOMAIN jobs \/ Append(jobs, e)[k] = e
         /\ jobs # <<>> =>
              /\ 1 \in DOMAIN jobs /\ Head(jobs) = jobs[1]
              /\ \A k \in DOMAIN Tail(jobs) : k + 1 \in DOMAIN jobs /\ Tail(jobs)[k] = jobs[k + 1]
              /\ \A k \in DOMAIN jobs : k # 1 =>
                   \E n \in DOMAIN Tail(jobs) : Tail(jobs)[n] = jobs[k]
<1>1. ASSUME NEW e \in Job
      PROVE  /\ Append(jobs, e) \in Seq(Job)
             /\ \A k \in DOMAIN jobs : k \in DOMAIN Append(jobs, e) /\ Append(jobs, e)[k] = jobs[k]
             /\ Len(jobs) + 1 \in DOMAIN Append(jobs, e)
             /\ Append(jobs, e)[Len(jobs) + 1] = e
             /\ \A k \in DOMAIN Append(jobs, e) : k \in DOMAIN jobs \/ Append(jobs, e)[k] = e
  BY <1>1
<1>2. ASSUME jobs # <<>>
      PROVE  /\ 1 \in DOMAIN jobs /\ Head(jobs) = jobs[1]
             /\ \A k \in DOMAIN Tail(jobs) : k + 1 \in DOMAIN jobs /\ Tail(jobs)[k] = jobs[k + 1]
  BY <1>2
<1>3. ASSUME jobs # <<>>, NEW k \in DOMAIN jobs, k # 1
      PROVE  \E n \in DOMAIN Tail(jobs) : Tail(jobs)[n] = jobs[k]
  <2>1. k - 1 \in DOMAIN Tail(jobs) /\ Tail(jobs)[k - 1] = jobs[k]
    BY <1>3
  <2> QED
    BY <2>1
<1> QED
  BY <1>1, <1>2, <1>3

Queued(i) == \E k \in DOMAIN jobs : jobs[k].inc = i
OnItsWay(q, i) ==
  request[q].pc \in {"enqueue", "audit", "enqueue_manual"} /\ request[q].inc = i

\* Who opens a row has its job to queue, and who had a job to queue has it still or has
\* queued it.
LEMMA OpenersQueue ==
  ASSUME TypeOK, NEW r \in Requests, NEW i \in Incidents,
         ApiStep(r) \/ \E j \in Incidents : ApiStart(r, j)
  PROVE  /\ status'[i] = "open" => status[i] = "open" \/ OnItsWay(r, i)'
         /\ OnItsWay(r, i) => OnItsWay(r, i)' \/ Queued(i)'
         /\ Queued(i) => Queued(i)'
<1> USE DEF OnItsWay, Queued, At
<1>0. /\ request \in [Requests -> {Idle} \cup RequestRecord]
      /\ status \in [Incidents -> Statuses] /\ jobs \in Seq(Job)
      /\ request[r].pc # "idle" => request[r] \in RequestRecord
  BY RequestMoves DEF TypeOK
<1>1. CASE EventInsert(r)
  BY <1>0, <1>1 DEF EventInsert, Go, Done, RequestRecord, Open, ReadOnly
<1>2. CASE IngestSelect(r)
  BY <1>0, <1>2 DEF IngestSelect, Go, Done, RequestRecord, ReadOnly
<1>3. CASE Reopen(r)
  BY <1>0, <1>3 DEF Reopen, Go, Done, RequestRecord, Open
<1>4. CASE ApproveOpen(r)
  BY <1>0, <1>4 DEF ApproveOpen, Go, Done, RequestRecord, Open
<1>5. CASE ApproveAudit(r)
  BY <1>0, <1>5 DEF ApproveAudit, Go, ReadOnly, RequestRecord
<1>6. CASE Escalate(r)
  BY <1>0, <1>6 DEF Escalate, Go, Done, RequestRecord
<1>7. CASE RollbackList(r)
  BY <1>0, <1>7 DEF RollbackList, Go, Done, RequestRecord
<1>8. CASE RollbackCall(r)
  BY <1>0, <1>8 DEF RollbackCall, Go, Done, RequestRecord
<1>9. CASE Enqueue(r)
  <2>1. PICK e \in Job : jobs' = Append(jobs, e) /\ e.inc = request[r].inc
    BY <1>0, <1>9 DEF Enqueue, AddJob, Job, RequestRecord
  <2>2. Queued(i) => Queued(i)'
    BY <1>0, <2>1, QueueFacts
  <2>3. request[r].inc = i => Queued(i)'
    BY <1>0, <2>1, QueueFacts
  <2> QED
    BY <1>9, <2>2, <2>3 DEF Enqueue, AddJob
<1>10. CASE EnqueueManual(r)
  <2>1. PICK e \in Job : jobs' = Append(jobs, e) /\ e.inc = request[r].inc
    BY <1>0, <1>10 DEF EnqueueManual, AddJob, Job, RequestRecord
  <2>2. Queued(i) => Queued(i)'
    BY <1>0, <2>1, QueueFacts
  <2>3. request[r].inc = i => Queued(i)'
    BY <1>0, <2>1, QueueFacts
  <2> QED
    BY <1>10, <2>2, <2>3 DEF EnqueueManual, AddJob
<1>11. ASSUME NEW j \in Incidents, ApiStart(r, j)
      PROVE  /\ status'[i] = "open" => status[i] = "open" \/ OnItsWay(r, i)'
             /\ OnItsWay(r, i) => OnItsWay(r, i)' \/ Queued(i)'
             /\ Queued(i) => Queued(i)'
  <2>1. CASE EventSelect(r, j)
    BY <1>0, <2>1 DEF EventSelect, Start, Idle, ReadOnly
  <2>2. CASE IngestInsert(r, j)
    BY <1>0, <2>2 DEF IngestInsert, Start, Idle, Open, ReadOnly
  <2>3. CASE Approve(r, j)
    BY <1>0, <2>3 DEF Approve, Start, Idle, ReadOnly
  <2>4. CASE Decline(r, j)
    BY <1>0, <2>4 DEF Decline, Start, Idle
  <2>5. CASE Reconsider(r, j)
    BY <1>0, <2>5 DEF Reconsider, Start, Idle, ReadOnly
  <2>6. CASE Rollback(r, j)
    BY <1>0, <2>6 DEF Rollback, Start, Idle, ReadOnly
  <2> QED
    BY <1>11, <2>1, <2>2, <2>3, <2>4, <2>5, <2>6 DEF ApiStart
<1> QED
  BY <1>1, <1>2, <1>3, <1>4, <1>5, <1>6, <1>7, <1>8, <1>9, <1>10, <1>11 DEF ApiStep

\* No step leaves an open incident without a job, present or on its way.
LEMMA OpenStep == TypeOK /\ OpenIsQueued /\ [Next]_vars => OpenIsQueued'
<1> DEFINE Seen(i) == Queued(i) \/ (\E q \in Requests : OnItsWay(q, i)) \/ Held(i) \/ i \in orphans
<1> SUFFICES ASSUME TypeOK, OpenIsQueued, [Next]_vars, NEW i \in Incidents, status'[i] = "open"
    PROVE  Seen(i)'
  BY DEF OpenIsQueued, Queued, OnItsWay
<1>0. TypeOK' /\ jobs \in Seq(Job) /\ (status[i] = "open" => Seen(i))
  BY NextType DEF OpenIsQueued, TypeOK, Queued, OnItsWay
<1>1. CASE Pick
  <2>1. Seen(i) /\ work = Idle
    BY <1>0, <1>1 DEF Pick, OwnState
  <2>2. CASE Head(jobs).inc = i
    <3>1. work' = Started(Head(jobs))
      BY <1>1, <2>2 DEF Pick, OwnState, Busy
    <3> QED
      BY <2>2, <3>1 DEF Held, Started, Idle
  <2>3. CASE Head(jobs).inc # i /\ Queued(i)
    BY <1>0, <1>1, <2>3, QueueFacts DEF Pick, Queued
  <2>4. CASE \E q \in Requests : OnItsWay(q, i)
    BY <1>1, <2>4 DEF Pick, OnItsWay
  <2> QED
    BY <1>1, <2>1, <2>2, <2>3, <2>4 DEF Pick, Held
<1>2. CASE WorkerStep /\ ~Pick
  <2>1. CASE i = work.inc
    BY <1>0, <1>2, <2>1, WorkerEffect, WorkerStatus DEF GoesOn, Busy, Idle, Held, Queued, OnItsWay
  <2>2. CASE i # work.inc
    BY <1>0, <1>2, <2>2, WorkerEffect, WorkerStatus DEF Held, Queued, OnItsWay
  <2> QED
    BY <2>1, <2>2
<1>3. CASE Crash
  <2>1. Seen(i)
    BY <1>0, <1>3 DEF Crash
  <2>2. i = work.inc => i \in orphans'
    BY <1>3 DEF Crash
  <2>3. PICK e \in Job : jobs' = Append(jobs, e)
    BY <1>0, <1>3, AtWork DEF Crash, Job, WorkRecord, TypeOK
  <2>4. Queued(i) => Queued(i)'
    BY <1>0, <2>3, QueueFacts DEF Queued
  <2> QED
    BY <1>3, <2>1, <2>2, <2>4 DEF Crash, Held, OnItsWay
<1>4. CASE SiteStep
  <2>1. Seen(i) /\ SameJob /\ UNCHANGED <<jobs, request, orphans>>
    BY <1>0, <1>4, SiteEffect
  <2>2. Held(i) => Held(i)'
    BY <2>1, HeldStays
  <2> QED
    BY <2>1, <2>2 DEF Queued, OnItsWay
<1>5. ASSUME NEW r \in Requests, CrashRequest(r) PROVE Seen(i)'
  <2>1. Seen(i) /\ UNCHANGED <<jobs, work>> /\ orphans' = orphans \cup {request[r].inc}
    BY <1>0, <1>5 DEF CrashRequest
  <2>2. \A q \in Requests : q # r => request'[q] = request[q]
    BY <1>5 DEF CrashRequest, Done, TypeOK
  <2> QED
    BY <2>1, <2>2 DEF Queued, OnItsWay, Held
<1>6. ASSUME NEW r \in Requests, ApiStep(r) \/ \E j \in Incidents : ApiStart(r, j)
      PROVE  Seen(i)'
  <2>1. RequestOnly(r)
    BY <1>6, RequestEffect
  <2>2. Held(i) => Held(i)'
    BY <2>1, HeldStays DEF RequestOnly
  <2>3. \A q \in Requests : OnItsWay(q, i) => OnItsWay(q, i)' \/ Queued(i)'
    BY <1>6, <2>1, OpenersQueue DEF RequestOnly, OnItsWay
  <2>4. Queued(i) => Queued(i)'
    BY <1>6, OpenersQueue
  <2>5. status[i] = "open" \/ OnItsWay(r, i)'
    BY <1>6, OpenersQueue
  <2> QED
    BY <1>0, <2>1, <2>2, <2>3, <2>4, <2>5 DEF RequestOnly
<1>7. CASE UNCHANGED vars
  BY <1>0, <1>7 DEF vars, Queued, OnItsWay, Held
<1> QED
  BY <1>1, <1>2, <1>3, <1>4, <1>5, <1>6, <1>7 DEF Next

\* An open incident has a job in the queue, or one on its way into it or out of it.
THEOREM OpenQueued == Spec => []OpenIsQueued
<1>1. Init => OpenIsQueued
  BY DEF Init, OpenIsQueued
<1> QED
  BY <1>1, OpenStep, PipelineTypeCorrect, PTL DEF Spec

-----------------------------------------------------------------------------
\* The requests that reopen an incident or queue a job for it.
Stirring == {"reopen", "enqueue", "approve", "audit", "enqueue_manual"}
Stirs(q, i) == request[q].pc \in Stirring /\ request[q].inc = i

\* A request that does not stir an incident at rest leaves it at rest, and begins to stir
\* it only with an approval.
LEMMA RequestsLetRest ==
  ASSUME TypeOK, NEW r \in Requests, NEW i \in Incidents,
         ~Stirs(r, i), ~Queued(i), status[i] \in {"declined", "escalated"},
         ApiStep(r) \/ \E j \in Incidents : ApiStart(r, j)
  PROVE  /\ status'[i] \in {"declined", "escalated"} /\ ~Queued(i)'
         /\ ~Stirs(r, i)' \/ (At(r, "approve")' /\ request'[r].inc = i)
<1> USE DEF Stirs, Stirring, Queued, At
<1> DEFINE Rests == /\ status'[i] \in {"declined", "escalated"} /\ ~Queued(i)'
                    /\ ~Stirs(r, i)' \/ (At(r, "approve")' /\ request'[r].inc = i)
<1>0. /\ request \in [Requests -> {Idle} \cup RequestRecord]
      /\ status \in [Incidents -> Statuses] /\ jobs \in Seq(Job)
      /\ request[r].pc # "idle" => request[r] \in RequestRecord
  BY RequestMoves DEF TypeOK
<1>1. CASE EventInsert(r)
  BY <1>0, <1>1 DEF EventInsert, Go, Done, RequestRecord, Open, ReadOnly, Idle
<1>2. CASE IngestSelect(r)
  BY <1>0, <1>2 DEF IngestSelect, Go, Done, RequestRecord, ReadOnly, Idle
<1>3. CASE Reopen(r)
  BY <1>0, <1>3 DEF Reopen, Go, RequestRecord, Open
<1>4. CASE ApproveOpen(r)
  BY <1>0, <1>4 DEF ApproveOpen, Go, RequestRecord, Open
<1>5. CASE ApproveAudit(r)
  BY <1>0, <1>5 DEF ApproveAudit, Go, RequestRecord, ReadOnly
<1>6. CASE Escalate(r)
  BY <1>0, <1>6 DEF Escalate, Done, RequestRecord, Idle
<1>7. CASE RollbackList(r)
  BY <1>0, <1>7 DEF RollbackList, Go, RequestRecord
<1>8. CASE RollbackCall(r)
  BY <1>0, <1>8 DEF RollbackCall, Go, RequestRecord
<1>9. CASE Enqueue(r) \/ EnqueueManual(r)
  <2>1. request[r].inc # i /\ request[r] \in RequestRecord
    BY <1>0, <1>9 DEF Enqueue, EnqueueManual, AddJob
  <2>2. PICK e \in Job : jobs' = Append(jobs, e) /\ e.inc # i
    <3>1. PICK m \in BOOLEAN : jobs' = Append(jobs, [inc |-> request[r].inc, manual |-> m])
      BY <1>9 DEF Enqueue, EnqueueManual, AddJob
    <3>2. [inc |-> request[r].inc, manual |-> m] \in Job
      BY <2>1 DEF Job, RequestRecord
    <3> QED
      BY <2>1, <3>1, <3>2
  <2>3. ~Queued(i)'
    BY <1>0, <2>2, QueueFacts
  <2> QED
    BY <1>0, <1>9, <2>3 DEF Enqueue, EnqueueManual, AddJob, Done, Idle
<1>10. ASSUME NEW j \in Incidents, ApiStart(r, j) PROVE Rests
  <2>1. CASE EventSelect(r, j)
    BY <1>0, <2>1 DEF EventSelect, Start, Idle, ReadOnly
  <2>2. CASE IngestInsert(r, j)
    BY <1>0, <2>2 DEF IngestInsert, Start, Idle, Open, ReadOnly
  <2>3. CASE Approve(r, j)
    BY <1>0, <2>3 DEF Approve, Start, Idle, ReadOnly
  <2>4. CASE Decline(r, j)
    BY <1>0, <2>4 DEF Decline, Start, Idle
  <2>5. CASE Reconsider(r, j)
    BY <1>0, <2>5 DEF Reconsider, Start, Idle, ReadOnly
  <2>6. CASE Rollback(r, j)
    BY <1>0, <2>6 DEF Rollback, Start, Idle, ReadOnly
  <2> QED
    BY <1>10, <2>1, <2>2, <2>3, <2>4, <2>5, <2>6 DEF ApiStart
<1> QED
  BY <1>1, <1>2, <1>3, <1>4, <1>5, <1>6, <1>7, <1>8, <1>9, <1>10 DEF ApiStep

\* No step but the start of an approval takes up an incident at rest.
LEMMA RestStep ==
  ASSUME TypeOK, [Next]_vars, NEW i \in Incidents, AtRest(i)
  PROVE  AtRest(i)' \/ \E r \in Requests : At(r, "approve")' /\ request'[r].inc = i
<1> DEFINE Settled == status[i] \in {"declined", "escalated"}
           Stirred == \E q \in Requests : Stirs(q, i)
           Lifted == \E r \in Requests : At(r, "approve")' /\ request'[r].inc = i
<1> SUFFICES (Settled' /\ ~Held(i)' /\ ~Queued(i)' /\ ~Stirred') \/ Lifted
  BY DEF AtRest, Queued, Stirs, Stirring
<1>0. Settled /\ ~Held(i) /\ ~Queued(i) /\ ~Stirred /\ jobs \in Seq(Job) /\ TypeOK'
  BY NextType DEF AtRest, Queued, Stirs, Stirring, TypeOK
<1>1. CASE Pick
  <2>1. Head(jobs).inc # i /\ ~Queued(i)'
    BY <1>0, <1>1, QueueFacts DEF Pick, Queued
  <2> QED
    BY <1>0, <1>1, <2>1 DEF Pick, OwnState, Held, Started, Stirs
<1>2. CASE WorkerStep /\ ~Pick
  <2>1. /\ work \in WorkRecord /\ work # Idle /\ UNCHANGED <<jobs, request>>
        /\ GoesOn \/ work' = Idle
    BY <1>2, WorkerEffect DEF EndWith
  <2>2. i # work.inc
    BY <1>0, <2>1 DEF Held
  <2>3. status'[i] = status[i]
    BY <1>2, <2>2, WorkerStatus
  <2>4. ~Held(i)'
    BY <2>1, <2>2 DEF Held, GoesOn
  <2> QED
    BY <1>0, <2>1, <2>3, <2>4 DEF Queued, Stirs
<1>3. CASE Crash
  <2>1. work \in WorkRecord /\ work.inc # i
    BY <1>0, <1>3, AtWork DEF Crash, TypeOK, Held
  <2>2. PICK e \in Job : jobs' = Append(jobs, e) /\ e.inc # i
    BY <1>3, <2>1 DEF Crash, Job, WorkRecord
  <2>3. ~Queued(i)'
    BY <1>0, <2>2, QueueFacts DEF Queued
  <2> QED
    BY <1>0, <1>3, <2>3 DEF Crash, Held, Stirs
<1>4. CASE SiteStep
  <2>1. SameJob /\ UNCHANGED <<status, jobs, request>>
    BY <1>4, SiteEffect
  <2>2. ~Held(i)'
    BY <1>0, <2>1, SameHand
  <2> QED
    BY <1>0, <2>1, <2>2 DEF Queued, Stirs
<1>5. ASSUME NEW r \in Requests, CrashRequest(r)
      PROVE  Settled' /\ ~Held(i)' /\ ~Queued(i)' /\ ~Stirred'
  BY <1>0, <1>5 DEF CrashRequest, Done, TypeOK, Idle, Held, Queued, Stirs, Stirring
<1>6. ASSUME NEW r \in Requests, ApiStep(r) \/ \E j \in Incidents : ApiStart(r, j)
      PROVE  (Settled' /\ ~Held(i)' /\ ~Queued(i)' /\ ~Stirred') \/ Lifted
  <2>1. RequestOnly(r)
    BY <1>6, RequestEffect
  <2>2. ~Held(i)'
    BY <1>0, <2>1, SameHand DEF RequestOnly
  <2>3. /\ status'[i] \in {"declined", "escalated"} /\ ~Queued(i)'
        /\ ~Stirs(r, i)' \/ (At(r, "approve")' /\ request'[r].inc = i)
    BY <1>0, <1>6, RequestsLetRest
  <2>4. \A q \in Requests : q # r => ~Stirs(q, i)'
    BY <1>0, <2>1 DEF RequestOnly, Stirs
  <2> QED
    BY <2>2, <2>3, <2>4
<1>7. CASE UNCHANGED vars
  BY <1>0, <1>7 DEF vars, Held, Queued, Stirs
<1> QED
  BY <1>1, <1>2, <1>3, <1>4, <1>5, <1>6, <1>7 DEF Next

\* Whatever the site reports and whatever requests and jobs of other incidents are under
\* way, an incident declined or handed to a person is taken up again by an approval only.
THEOREM DeclinedRests == Spec => DeclinedIsLeftAlone
<1>1. TypeOK /\ [Next]_vars =>
        [\A i \in Incidents : AtRest(i) =>
           AtRest(i)' \/ \E r \in Requests : At(r, "approve")' /\ request'[r].inc = i]_vars
  BY RestStep
<1> QED
  BY <1>1, PipelineTypeCorrect, PTL DEF Spec, DeclinedIsLeftAlone

-----------------------------------------------------------------------------
(***************************************************************************)
(* What the search and the fixes leave behind.                             *)
(***************************************************************************)

\* A call of the search: its plugin is off the list, and unless something befell the call
\* the site has carried it out.
LEMMA ToggleEffect ==
  ASSUME TypeOK, NEW pc \in WorkSteps, NEW verb \in {"activate", "deactivate"},
         NEW next \in WorkSteps, Toggle(pc, verb, next)
  PROVE  \E p \in work.todo :
           /\ work \in WorkRecord /\ work.pc = pc /\ UNCHANGED <<listed, wanted>>
           /\ work' \in WorkRecord /\ work'.todo = work.todo \ {p}
           /\ work'.pc = IF work.todo = {p} THEN next ELSE pc
           /\ work'.asked = work.asked /\ work'.cand = work.cand /\ work'.half = work.half
           /\ work'.healthy = work.healthy
           /\ faults' = {} \/ work'.clean =>
                active' = After(verb, p) /\ work'.clean = work.clean
<1>1. PICK p \in work.todo : \E c \in Calls(verb, p) :
        /\ active' = c.active /\ faults' = faults \cup c.fault
        /\ work' = [work EXCEPT !.todo = @ \ {p},
                                !.pc = IF work.todo = {p} THEN next ELSE pc,
                                !.clean = @ /\ c.fault = {}]
  BY DEF Toggle
<1>2. PICK c \in Calls(verb, p) :
        /\ active' = c.active /\ faults' = faults \cup c.fault
        /\ work' = [work EXCEPT !.todo = @ \ {p},
                                !.pc = IF work.todo = {p} THEN next ELSE pc,
                                !.clean = @ /\ c.fault = {}]
  BY <1>1
<1>3. work \in WorkRecord /\ work.pc = pc /\ UNCHANGED <<listed, wanted>>
  BY AtWork DEF Toggle, WorkSteps, SearchSteps, FixSteps
<1>4. p \in Plugins
  BY <1>3 DEF WorkRecord
<1> DEFINE clean == work.clean /\ c.fault = {}
<1>5. work' = [work EXCEPT !.todo = @ \ {p},
                           !.pc = IF work.todo = {p} THEN next ELSE pc,
                           !.clean = clean]
  BY <1>2
<1>6. clean \in BOOLEAN /\ (clean => c.fault = {})
  BY <1>3 DEF WorkRecord
<1>7. work.clean \in BOOLEAN /\ (c.fault = {} => clean = work.clean)
  BY <1>3 DEF WorkRecord
<1> HIDE DEF clean
<1>8. /\ work'.todo = work.todo \ {p} /\ work'.clean = clean
      /\ work'.pc = IF work.todo = {p} THEN next ELSE pc
      /\ work'.asked = work.asked /\ work'.cand = work.cand /\ work'.half = work.half
      /\ work'.healthy = work.healthy
  BY <1>3, <1>5, <1>6 DEF WorkRecord
<1>9. faults' = {} \/ work'.clean => c.fault = {}
  BY <1>2, <1>6, <1>8
<1>10. c.fault = {} => active' = After(verb, p)
  BY <1>2, <1>4, CallFacts
<1>11. work' \in WorkRecord
  BY <1>3, Toggled
<1> QED
  BY <1>3, <1>7, <1>8, <1>9, <1>10, <1>11

\* Few steps outside the worker have to do with plugins: two statements of a rollback ...
Untouched == UNCHANGED <<site, active, wanted, work, culprit, faults>>
OthersReturn(r) == \A q \in Requests : q # r => request'[q] = request[q]
NotReturning(r) == request[r].pc # "reactivate"

LEMMA ApiTouches ==
  ASSUME TypeOK, NEW r \in Requests, ApiStep(r) \/ \E i \in Incidents : ApiStart(r, i)
  PROVE  /\ OthersReturn(r)
         /\ \/ RollbackList(r) \/ RollbackCall(r)
            \/ Untouched /\ listed' = listed /\ NotReturning(r)
<1> USE DEF Untouched, NotReturning
<1>1. OthersReturn(r)
  BY RequestEffect DEF RequestOnly, OthersReturn
<1>2. ASSUME ~RollbackList(r), ~RollbackCall(r), ApiStep(r)
      PROVE  Untouched /\ listed' = listed /\ NotReturning(r)
  BY <1>2 DEF ApiStep, EventInsert, IngestSelect, Reopen, Enqueue, EnqueueManual, AddJob,
     ApproveOpen, ApproveAudit, Escalate, Open, ReadOnly, ApiFrame, At
<1>3. ASSUME NEW i \in Incidents, ApiStart(r, i)
      PROVE  Untouched /\ listed' = listed /\ NotReturning(r)
  BY <1>3 DEF ApiStart, EventSelect, IngestInsert, Approve, Decline, Reconsider, Rollback,
     Open, ReadOnly, ApiFrame, Start, Idle
<1> QED
  BY <1>1, <1>2, <1>3

\* ... a heartbeat, and a change of the page.
LEMMA SiteTouches ==
  ASSUME SiteStep
  PROVE  /\ UNCHANGED <<site, active, wanted, request>>
         /\ \/ PageChanges /\ UNCHANGED <<listed, faults>>
            \/ RecordHeartbeat /\ UNCHANGED <<work, culprit>>
            \/ Untouched /\ listed' = listed
BY DEF SiteStep, SaveSettings, SetKillSwitch, SendHeartbeat, RecordHeartbeat, LoseHeartbeat,
   PageChanges, BeatFrame, siteVars, Untouched

\* The inductive form: what is still to be turned off is part of the half.
StaysInv == OnlyFixesStay /\ (work.pc = "disable" => work.todo \subseteq work.half)

\* The steps between the search and the fix, and after the fix, leave the plugins alone.
Beside ==
  Diagnosed \/ Propose \/ ModelFails \/ StagingCheck \/ Decide \/ Verify

LEMMA BesideEffect ==
  ASSUME TypeOK, Beside
  PROVE  /\ UNCHANGED <<site, active, wanted, faults, listed, culprit, request>>
         /\ work.pc \notin {"disable", "check", "relist", "restore", "mirror"}
         /\ work'.pc \notin SearchSteps \cup {"begin", "mirror"}
<1> USE DEF WorkOnly, SearchSteps
<1>0. work \in WorkRecord /\ work # Idle
  BY AtWork DEF Beside, Diagnosed, Propose, ModelFails, StagingCheck, Decide, Verify
<1>1. CASE Diagnosed
  BY <1>0, <1>1, EnterType DEF Diagnosed, WorkSteps
<1>2. CASE Propose
  BY <1>0, <1>2 DEF Propose, WorkRecord
<1>3. CASE ModelFails
  <2>1. CASE work.tries > 1
    BY <1>0, <1>3, <2>1 DEF ModelFails, WorkRecord
  <2>2. CASE ~(work.tries > 1)
    BY <1>0, <1>3, <2>2, EndType DEF ModelFails, Statuses
  <2> QED
    BY <2>1, <2>2
<1>4. CASE StagingCheck
  <2>1. CASE Enter("decide")
    BY <1>0, <1>4, <2>1, EnterType DEF StagingCheck, WorkSteps, FixSteps
  <2>2. CASE EndWith("escalated")
    BY <1>0, <1>4, <2>2, EndType DEF StagingCheck, Statuses
  <2> QED
    BY <1>4, <2>1, <2>2 DEF StagingCheck
<1>5. CASE Decide
  <2>1. CASE Enter("act")
    BY <1>0, <1>5, <2>1, EnterType DEF Decide, WorkSteps, FixSteps
  <2>2. CASE EndWith("escalated")
    BY <1>0, <1>5, <2>2, EndType DEF Decide, Statuses
  <2> QED
    BY <1>5, <2>1, <2>2 DEF Decide
<1>6. CASE Verify
  <2>1. CASE Enter("undo")
    BY <1>0, <1>6, <2>1, EnterType DEF Verify, WorkSteps, FixSteps
  <2>2. CASE EndWith("resolved")
    BY <1>0, <1>6, <2>2, EndType DEF Verify, Statuses
  <2> QED
    BY <1>6, <2>1, <2>2 DEF Verify
<1> QED
  BY <1>1, <1>2, <1>3, <1>4, <1>5, <1>6 DEF Beside

\* The steps of the search other than its calls: what they make of the job's record.
LEMMA SearchEffect ==
  ASSUME TypeOK
  PROVE  /\ Begin => /\ work \in WorkRecord
                     /\ work'.pc = IF listed = {} THEN "narrow" ELSE "split"
                     /\ work'.asked = listed /\ work'.cand = listed
                     /\ work'.half = work.half /\ work'.todo = work.todo
                     /\ work'.healthy = work.healthy
                     /\ work'.clean = (listed \subseteq active /\ PageBroken)
         /\ Split => /\ work \in WorkRecord
                     /\ work'.pc = "disable" /\ work'.half \in Half(work.cand)
                     /\ work'.todo = work'.half /\ work'.asked = work.asked
                     /\ work'.cand = work.cand /\ work'.clean = work.clean
                     /\ listed' = listed \ work'.half
         /\ Check => /\ work \in WorkRecord
                     /\ work'.pc = "relist" /\ work'.healthy \in Loads(site.staging)
                     /\ work'.half = work.half /\ work'.todo = work.todo
                     /\ work'.asked = work.asked /\ work'.cand = work.cand
                     /\ work'.clean = work.clean
         /\ Relist => /\ work \in WorkRecord
                      /\ work'.pc = "restore" /\ work'.todo = work.half
                      /\ work'.half = work.half /\ work'.healthy = work.healthy
                      /\ work'.asked = work.asked /\ work'.cand = work.cand
                      /\ work'.clean = work.clean
         /\ Narrow => /\ work \in WorkRecord
                      /\ work'.pc = "split" /\ work'.cand = Suspects
                      /\ work'.half = work.half /\ work'.todo = work.todo
                      /\ work'.asked = work.asked /\ work'.clean = work.clean
<1>1. Begin \/ Split \/ Check \/ Relist \/ Narrow => work \in WorkRecord
  BY AtWork DEF Begin, Split, Check, Relist, Narrow
<1>2. ASSUME Begin
      PROVE  /\ work'.pc = IF listed = {} THEN "narrow" ELSE "split"
             /\ work'.asked = listed /\ work'.cand = listed
             /\ work'.half = work.half /\ work'.todo = work.todo
             /\ work'.healthy = work.healthy
             /\ work'.clean = (listed \subseteq active /\ PageBroken)
  BY <1>1, <1>2 DEF Begin, WorkRecord
<1>3. ASSUME Split
      PROVE  /\ work'.pc = "disable" /\ work'.half \in Half(work.cand)
             /\ work'.todo = work'.half /\ work'.asked = work.asked
             /\ work'.cand = work.cand /\ work'.clean = work.clean
             /\ listed' = listed \ work'.half
  BY <1>1, <1>3 DEF Split, WorkRecord
<1>4. ASSUME Check
      PROVE  /\ work'.pc = "relist" /\ work'.healthy \in Loads(site.staging)
             /\ work'.half = work.half /\ work'.todo = work.todo
             /\ work'.asked = work.asked /\ work'.cand = work.cand
             /\ work'.clean = work.clean
  BY <1>1, <1>4 DEF Check, WorkRecord
<1>5. ASSUME Relist
      PROVE  /\ work'.pc = "restore" /\ work'.todo = work.half
             /\ work'.half = work.half /\ work'.healthy = work.healthy
             /\ work'.asked = work.asked /\ work'.cand = work.cand
             /\ work'.clean = work.clean
  BY <1>1, <1>5 DEF Relist, WorkRecord
<1>6. ASSUME Narrow
      PROVE  /\ work'.pc = "split" /\ work'.cand = Suspects
             /\ work'.half = work.half /\ work'.todo = work.todo
             /\ work'.asked = work.asked /\ work'.clean = work.clean
  BY <1>1, <1>6 DEF Narrow, WorkRecord
<1> QED
  BY <1>1, <1>2, <1>3, <1>4, <1>5, <1>6

\* What the search holds down, step by step.
HandKnown ==
  /\ work.pc = "disable" => InHand = work.half \ work.todo
  /\ work.pc \in {"check", "relist"} => InHand = work.half
  /\ work.pc = "restore" => InHand = work.todo
  /\ work.pc \notin {"disable", "check", "relist", "restore"} => InHand = {}

LEMMA HandFacts == TypeOK => HandKnown
<1> SUFFICES ASSUME TypeOK PROVE HandKnown
  OBVIOUS
<1>1. CASE work = Idle
  BY <1>1 DEF HandKnown, InHand, Idle
<1>2. CASE work # Idle
  <2>1. CASE work.pc = "disable"
    BY <1>2, <2>1 DEF HandKnown, InHand
  <2>2. CASE work.pc \in {"check", "relist"}
    BY <1>2, <2>2 DEF HandKnown, InHand
  <2>3. CASE work.pc = "restore"
    BY <1>2, <2>3 DEF HandKnown, InHand
  <2>4. CASE work.pc \notin {"disable", "check", "relist", "restore"}
    BY <1>2, <2>4 DEF HandKnown, InHand
  <2> QED
    BY <2>1, <2>2, <2>3, <2>4
<1> QED
  BY <1>1, <1>2

\* It is the same after a step that tells the worker no more than that it was disturbed.
LEMMA Disturbed ==
  ASSUME TypeOK, work' = IF work = Idle THEN Idle ELSE [work EXCEPT !.clean = FALSE]
  PROVE  /\ work'.pc = work.pc
         /\ work.pc # "idle" =>
              /\ ~work'.clean /\ work'.intent = work.intent /\ work'.cand = work.cand
              /\ work'.half = work.half /\ work'.todo = work.todo
              /\ work'.healthy = work.healthy
BY DEF TypeOK, WorkRecord, Idle

\* A fix that nothing befell has turned its plugin off, and nobody wants it on.
LEMMA ActEffect ==
  ASSUME TypeOK, Act, faults' = {}
  PROVE  \/ /\ work.intent.target \in Plugins
            /\ active' = active \ {work.intent.target}
            /\ wanted' = wanted \ {work.intent.target}
            /\ work'.pc = "mirror" /\ work'.intent = work.intent
         \/ active' = active /\ wanted' = wanted /\ work'.pc = "idle"
<1>1. PICK c \in Calls("deactivate", work.intent.target) :
         /\ active' = c.active /\ faults' = faults \cup c.fault
         /\ IF c.ok
            THEN Enter("mirror") /\ wanted' = wanted \ {work.intent.target}
            ELSE EndWith("escalated") /\ UNCHANGED wanted
  BY DEF Act
<1>2. work \in WorkRecord
  BY AtWork DEF Act
<1>3. c.fault = {}
  BY <1>1
<1>4. CASE c.ok
  BY <1>1, <1>2, <1>4, CallFacts, EnterType DEF After, WorkSteps, FixSteps
<1>5. CASE ~c.ok
  <2>1. active' = active
    <3>1. \/ c.active = active
          \/ work.intent.target \notin active /\ c.active = After("deactivate", work.intent.target)
      BY <1>3, <1>5, CallFacts
    <3> QED
      BY <1>1, <3>1 DEF After
  <2> QED
    BY <1>1, <1>2, <1>5, <2>1, EndType DEF Statuses
<1> QED
  BY <1>4, <1>5

\* Taking one back that nothing befell turns the plugin on.
LEMMA UndoEffect ==
  ASSUME TypeOK, Undo, faults' = {}
  PROVE  /\ work.intent.target \in Plugins
         /\ active' = active \cup {work.intent.target}
         /\ wanted' = wanted \cup {work.intent.target}
         /\ listed' \subseteq listed \cup {work.intent.target}
         /\ work'.pc = "idle"
<1>1. PICK c \in Calls("activate", work.intent.target) :
         /\ active' = c.active /\ faults' = faults \cup c.fault
         /\ listed' = IF c.ok THEN listed \cup {work.intent.target} ELSE listed
  BY DEF Undo
<1>2. work \in WorkRecord /\ work.intent.target \in Plugins
  BY AtWork DEF Undo, TypeOK
<1>3. c.fault = {}
  BY <1>1
<1>4. active' = active \cup {work.intent.target}
  BY <1>1, <1>2, <1>3, CallFacts DEF After
<1>5. work'.pc = "idle"
  BY <1>2, EndType DEF Undo, Statuses
<1> QED
  BY <1>1, <1>2, <1>4, <1>5 DEF Undo

\* So does a rollback.
LEMMA RollbackEffect ==
  ASSUME TypeOK, NEW r \in Requests, RollbackCall(r), faults' = {}
  PROVE  /\ active' = active \cup ({request[r].cause} \cap Plugins)
         /\ wanted' = wanted \cup ({request[r].cause} \cap Plugins)
         /\ listed' = listed /\ At(r, "reactivate")
<1>1. PICK c \in Calls("activate", request[r].cause) :
         active' = c.active /\ faults' = faults \cup c.fault
  BY DEF RollbackCall
<1>2. c.fault = {}
  BY <1>1
<1>3. CASE request[r].cause \in Plugins
  BY <1>1, <1>2, <1>3, CallFacts DEF RollbackCall, After
<1>4. CASE request[r].cause \notin Plugins
  BY <1>1, <1>2, <1>4, CallFacts DEF RollbackCall
<1> QED
  BY <1>3, <1>4 DEF RollbackCall

\* Faults are never forgotten, and a crash is one.
LEMMA FaultsStay == TypeOK /\ [Next]_vars /\ faults' = {} =>
                      faults = {} /\ ~Crash /\ \A r \in Requests : ~CrashRequest(r)
<1> SUFFICES ASSUME TypeOK, [Next]_vars, faults' = {}
    PROVE  faults = {} /\ ~Crash /\ \A r \in Requests : ~CrashRequest(r)
  OBVIOUS
<1>1. ~Crash /\ \A r \in Requests : ~CrashRequest(r)
  BY DEF Crash, CrashRequest
<1> SUFFICES faults = {}
  BY <1>1
<1>2. CASE WorkerStep
  <2>1. CASE Beside
    BY <2>1, BesideEffect
  <2>2. CASE Disable \/ Restore
    BY <2>2 DEF Disable, Restore, Toggle
  <2>3. CASE Act \/ Undo
    BY <2>3 DEF Act, Undo
  <2>4. CASE Pick \/ Begin \/ Split \/ Check \/ Relist \/ Narrow \/ Mirror
    BY <2>4 DEF Pick, Begin, Split, Check, Relist, Narrow, Mirror, OwnState
  <2> QED
    BY <1>2, <2>1, <2>2, <2>3, <2>4 DEF WorkerStep, Beside
<1>3. CASE SiteStep
  BY <1>3, SiteTouches DEF RecordHeartbeat, Untouched
<1>4. ASSUME NEW r \in Requests, ApiStep(r) \/ \E i \in Incidents : ApiStart(r, i)
      PROVE  faults = {}
  BY <1>4, ApiTouches DEF RollbackList, RollbackCall, Untouched
<1>5. CASE UNCHANGED vars
  BY <1>5 DEF vars
<1> QED
  BY <1>1, <1>2, <1>3, <1>4, <1>5 DEF Next

\* Whatever the search has turned off it still holds, and nothing else that is wanted is
\* off.
LEMMA StaysStep == TypeOK /\ StaysInv /\ [Next]_vars => StaysInv'
<1> SUFFICES ASSUME TypeOK, StaysInv, [Next]_vars PROVE StaysInv'
  OBVIOUS
<1>0. HandKnown /\ HandKnown'
  BY HandFacts, NextType, PTL
<1>1. work'.pc = "disable" => work'.todo \subseteq work'.half
  <2>1. CASE WorkerStep
    <3>1. CASE Beside
      BY <3>1, BesideEffect DEF SearchSteps
    <3>2. CASE Disable
      <4>1. \E p : work'.todo = work.todo \ {p} /\ work'.half = work.half
        BY <3>2, ToggleEffect DEF Disable, WorkSteps, SearchSteps
      <4>2. work.pc = "disable"
        BY <3>2 DEF Disable, Toggle
      <4> QED
        BY <4>1, <4>2 DEF StaysInv
    <3>3. CASE Restore
      <4>1. work'.pc \in {"restore", "narrow"}
        BY <3>3, AtWork, Toggled DEF Restore, Toggle, WorkSteps, SearchSteps
      <4> QED
        BY <4>1
    <3>4. CASE Begin \/ Split \/ Check \/ Relist \/ Narrow
      BY <3>4, SearchEffect
    <3>5. CASE Pick
      BY <3>5 DEF Pick, Started, Idle
    <3>6. CASE Act \/ Mirror \/ Undo
      <4>1. work'.pc \in {"mirror", "verify", "idle"}
        BY <3>6, AtWork, EnterType, EndType DEF Act, Mirror, Undo, WorkSteps, FixSteps, Statuses
      <4> QED
        BY <4>1
    <3> QED
      BY <2>1, <3>1, <3>2, <3>3, <3>4, <3>5, <3>6 DEF WorkerStep, Beside
  <2>2. CASE Crash \/ \E r \in Requests : CrashRequest(r)
    BY <2>2 DEF Crash, CrashRequest, Idle, StaysInv
  <2>3. CASE SiteStep
    BY <2>3, SiteTouches, Disturbed DEF StaysInv, PageChanges, Untouched
  <2>4. ASSUME NEW r \in Requests, ApiStep(r) \/ \E i \in Incidents : ApiStart(r, i)
        PROVE  work'.pc = "disable" => work'.todo \subseteq work'.half
    BY <2>4, ApiTouches, Disturbed DEF StaysInv, RollbackList, RollbackCall, Untouched
  <2>5. CASE UNCHANGED vars
    BY <2>5 DEF vars, StaysInv
  <2> QED
    BY <2>1, <2>2, <2>3, <2>4, <2>5 DEF Next
<1>2. ASSUME faults' = {} PROVE wanted' \subseteq active' \cup InHand'
  <2>0. /\ faults = {} /\ wanted \subseteq active \cup InHand
        /\ work.pc = "disable" => work.todo \subseteq work.half
        /\ ~Crash /\ \A r \in Requests : ~CrashRequest(r)
    BY <1>2, FaultsStay DEF StaysInv, OnlyFixesStay
  <2>1. CASE WorkerStep
    <3>1. CASE Beside
      BY <1>0, <2>0, <3>1, BesideEffect DEF HandKnown
    <3>2. CASE Disable
      <4>1. PICK p \in work.todo :
              /\ active' = After("deactivate", p)
              /\ work'.todo = work.todo \ {p} /\ work'.half = work.half
              /\ work'.pc = IF work.todo = {p} THEN "check" ELSE "disable"
        BY <1>2, <3>2, ToggleEffect DEF Disable, WorkSteps, SearchSteps
      <4>2. work.pc = "disable" /\ UNCHANGED wanted
        BY <3>2 DEF Disable, Toggle
      <4>3. InHand' = InHand \cup {p}
        BY <1>0, <2>0, <4>1, <4>2 DEF HandKnown
      <4> QED
        BY <2>0, <4>1, <4>2, <4>3 DEF After
    <3>3. CASE Restore
      <4>1. PICK p \in work.todo :
              /\ active' = After("activate", p)
              /\ work'.todo = work.todo \ {p}
              /\ work'.pc = IF work.todo = {p} THEN "narrow" ELSE "restore"
        BY <1>2, <3>3, ToggleEffect DEF Restore, WorkSteps, SearchSteps
      <4>2. work.pc = "restore" /\ UNCHANGED wanted
        BY <3>3 DEF Restore, Toggle
      <4>3. InHand \subseteq InHand' \cup {p}
        BY <1>0, <4>1, <4>2 DEF HandKnown
      <4> QED
        BY <2>0, <4>1, <4>2, <4>3 DEF After
    <3>4. CASE Begin \/ Split \/ Check \/ Relist \/ Narrow
      <4>1. UNCHANGED <<active, wanted>>
        BY <3>4 DEF Begin, Split, Check, Relist, Narrow, OwnState
      <4>2. InHand' = InHand
        <5>1. CASE Begin
          BY <1>0, <5>1, SearchEffect DEF HandKnown, Begin
        <5>2. CASE Split
          BY <1>0, <5>2, SearchEffect DEF HandKnown, Split
        <5>3. CASE Check
          BY <1>0, <5>3, SearchEffect DEF HandKnown, Check
        <5>4. CASE Relist
          BY <1>0, <5>4, SearchEffect DEF HandKnown, Relist
        <5>5. CASE Narrow
          BY <1>0, <5>5, SearchEffect DEF HandKnown, Narrow
        <5> QED
          BY <3>4, <5>1, <5>2, <5>3, <5>4, <5>5
      <4> QED
        BY <2>0, <4>1, <4>2
    <3>5. CASE Pick
      <4>1. UNCHANGED <<active, wanted>> /\ work.pc = "idle" /\ work'.pc \in {"idle", "begin"}
        BY <3>5 DEF Pick, OwnState, Started, Idle
      <4> QED
        BY <1>0, <2>0, <4>1 DEF HandKnown
    <3>6. CASE Act
      BY <1>0, <1>2, <2>0, <3>6, ActEffect DEF HandKnown, Act
    <3>7. CASE Mirror
      <4>1. UNCHANGED <<active, wanted>> /\ work.pc = "mirror" /\ work'.pc = "verify"
        BY <3>7, AtWork, EnterType DEF Mirror, WorkSteps, FixSteps
      <4> QED
        BY <1>0, <2>0, <4>1 DEF HandKnown
    <3>8. CASE Undo
      BY <1>0, <1>2, <2>0, <3>8, UndoEffect DEF HandKnown, Undo
    <3> QED
      BY <2>1, <3>1, <3>2, <3>3, <3>4, <3>5, <3>6, <3>7, <3>8 DEF WorkerStep, Beside
  <2>2. CASE SiteStep
    <3>1. UNCHANGED <<active, wanted>>
      BY <2>2, SiteTouches
    <3>2. InHand' = InHand
      BY <1>0, <2>2, SiteTouches, Disturbed DEF PageChanges, Untouched, HandKnown, InHand
    <3> QED
      BY <2>0, <3>1, <3>2
  <2>3. ASSUME NEW r \in Requests, ApiStep(r) \/ \E i \in Incidents : ApiStart(r, i)
        PROVE  wanted' \subseteq active' \cup InHand'
    <3>1. CASE RollbackCall(r)
      <4>1. InHand' = InHand
        BY <1>0, <3>1, Disturbed DEF HandKnown, RollbackCall
      <4> QED
        BY <1>2, <2>0, <3>1, <4>1, RollbackEffect
    <3>2. CASE RollbackList(r) \/ Untouched
      BY <2>0, <3>2 DEF RollbackList, Untouched, InHand
    <3> QED
      BY <2>3, <3>1, <3>2, ApiTouches
  <2>4. CASE UNCHANGED vars
    BY <2>0, <2>4 DEF vars, InHand
  <2> QED
    BY <2>0, <2>1, <2>2, <2>3, <2>4 DEF Next
<1> QED
  BY <1>1, <1>2 DEF StaysInv, OnlyFixesStay

\* While nothing fails, whatever the search turns off it turns on again.
THEOREM FixesOnlyStay == Spec => []OnlyFixesStay
<1>1. Init => StaysInv
  BY DEF Init, StaysInv, OnlyFixesStay, InHand, Idle
<1>2. StaysInv => OnlyFixesStay
  BY DEF StaysInv
<1> QED
  BY <1>1, <1>2, StaysStep, PipelineTypeCorrect, PTL DEF Spec

-----------------------------------------------------------------------------
\* The inductive form: what is on or listed as on is wanted, or an owner is about to have
\* it back, and so is all that the search may turn on again.
Returning == {request[r].cause : r \in {q \in Requests : At(q, "reactivate")}}
Vouched == wanted \cup Returning
InFix == IF work.pc = "mirror" THEN {work.intent.target} ELSE {}

FixesInv ==
  faults = {} =>
    /\ active \subseteq Vouched /\ listed \subseteq Vouched \cup InFix
    /\ work.pc \in SearchSteps => work.cand \cup work.half \cup work.todo \subseteq Vouched

\* A request vouches for a plugin until it has told the site.
LEMMA VouchedByApi ==
  ASSUME TypeOK, faults' = {}, NEW r \in Requests,
         ApiStep(r) \/ \E i \in Incidents : ApiStart(r, i)
  PROVE  Vouched \cap Plugins \subseteq Vouched'
<1>1. \A q \in Requests : q # r => request'[q] = request[q]
  BY ApiTouches DEF OthersReturn
<1>2. CASE RollbackCall(r)
  BY <1>1, <1>2, RollbackEffect DEF Vouched, Returning, At
<1>3. CASE RollbackList(r)
  BY <1>1, <1>3 DEF RollbackList, At, Vouched, Returning
<1>4. CASE Untouched /\ NotReturning(r)
  BY <1>1, <1>4 DEF Untouched, NotReturning, Vouched, Returning, At
<1> QED
  BY <1>2, <1>3, <1>4, ApiTouches

\* A job begins with nothing in hand and nothing found.
JustBegun == work.pc = "begin" => work.half = {} /\ work.todo = {} /\ ~work.healthy

LEMMA BegunStep == TypeOK /\ JustBegun /\ [Next]_vars => JustBegun'
<1> SUFFICES ASSUME TypeOK, JustBegun, [Next]_vars, work'.pc = "begin"
    PROVE  work'.half = {} /\ work'.todo = {} /\ ~work'.healthy
  BY DEF JustBegun
<1>1. CASE WorkerStep
  <2>1. CASE Pick
    BY <2>1 DEF Pick, Started, Idle
  <2>2. CASE Beside
    BY <2>2, BesideEffect
  <2>3. CASE Disable
    <3>1. work'.pc \in {"disable", "check"}
      BY <2>3, ToggleEffect DEF Disable, WorkSteps, SearchSteps
    <3> QED
      BY <3>1
  <2>4. CASE Restore
    <3>1. work'.pc \in {"restore", "narrow"}
      BY <2>4, ToggleEffect DEF Restore, WorkSteps, SearchSteps
    <3> QED
      BY <3>1
  <2>5. CASE Begin \/ Split \/ Check \/ Relist \/ Narrow
    BY <2>5, SearchEffect
  <2>6. CASE Act \/ Mirror \/ Undo
    BY <2>6, AtWork, EnterType, EndType DEF Act, Mirror, Undo, WorkSteps, FixSteps, Statuses
  <2> QED
    BY <1>1, <2>1, <2>2, <2>3, <2>4, <2>5, <2>6 DEF WorkerStep, Beside
<1>2. CASE Crash \/ \E r \in Requests : CrashRequest(r)
  BY <1>2 DEF Crash, CrashRequest, Idle, JustBegun
<1>3. CASE SiteStep
  BY <1>3, SiteTouches, Disturbed DEF JustBegun, PageChanges, Untouched
<1>4. ASSUME NEW r \in Requests, ApiStep(r) \/ \E i \in Incidents : ApiStart(r, i)
      PROVE  work'.half = {} /\ work'.todo = {} /\ ~work'.healthy
  BY <1>4, ApiTouches, Disturbed DEF JustBegun, RollbackList, RollbackCall, Untouched
<1>5. CASE UNCHANGED vars
  BY <1>5 DEF vars, JustBegun
<1> QED
  BY <1>1, <1>2, <1>3, <1>4, <1>5 DEF Next

\* What is vouched for stays so, but for a plugin that a fix turns off.
LEMMA VouchedStays ==
  ASSUME TypeOK, [Next]_vars, faults' = {}
  PROVE  (Vouched \cap Plugins) \ (IF Act THEN {work.intent.target} ELSE {}) \subseteq Vouched'
<1>1. CASE WorkerStep
  <2>1. UNCHANGED request
    BY <1>1, WorkerEffect DEF Pick
  <2>2. wanted \ (IF Act THEN {work.intent.target} ELSE {}) \subseteq wanted'
    <3>1. CASE Beside
      BY <3>1, BesideEffect
    <3>2. CASE Disable \/ Restore
      BY <3>2 DEF Disable, Restore, Toggle
    <3>3. CASE Act
      BY <3>3, ActEffect
    <3>4. CASE Undo
      BY <3>4, UndoEffect
    <3>5. CASE Pick \/ Begin \/ Split \/ Check \/ Relist \/ Narrow \/ Mirror
      BY <3>5 DEF Pick, Begin, Split, Check, Relist, Narrow, Mirror, OwnState
    <3> QED
      BY <1>1, <3>1, <3>2, <3>3, <3>4, <3>5 DEF WorkerStep, Beside
  <2> QED
    BY <2>1, <2>2 DEF Vouched, Returning, At
<1>2. CASE SiteStep
  BY <1>2, SiteTouches DEF Vouched, Returning, At
<1>3. ASSUME NEW r \in Requests, ApiStep(r) \/ \E i \in Incidents : ApiStart(r, i)
      PROVE  Vouched \cap Plugins \subseteq Vouched'
  BY <1>3, VouchedByApi
<1>4. CASE UNCHANGED vars
  BY <1>4 DEF vars, Vouched, Returning, At
<1> QED
  BY <1>1, <1>2, <1>3, <1>4, FaultsStay DEF Next

\* No step turns on, lists or asks about a plugin that nobody vouches for.
LEMMA FixesStep == TypeOK /\ JustBegun /\ FixesInv /\ [Next]_vars => FixesInv'
<1> SUFFICES ASSUME TypeOK, JustBegun, FixesInv, [Next]_vars, faults' = {}
    PROVE  /\ active' \subseteq Vouched' /\ listed' \subseteq Vouched' \cup InFix'
           /\ work'.pc \in SearchSteps =>
                work'.cand \cup work'.half \cup work'.todo \subseteq Vouched'
  BY DEF FixesInv
<1>0. /\ active \subseteq Vouched /\ listed \subseteq Vouched \cup InFix
      /\ work.pc \in SearchSteps => work.cand \cup work.half \cup work.todo \subseteq Vouched
      /\ ~Crash /\ \A r \in Requests : ~CrashRequest(r)
  BY FaultsStay DEF FixesInv
<1>1. active \subseteq Plugins /\ listed \subseteq Plugins
  BY DEF TypeOK
<1>2. work.pc \in SearchSteps => work.cand \cup work.half \cup work.todo \subseteq Plugins
  BY AtWork DEF SearchSteps, WorkRecord
<1>3. ~Act => Vouched \cap Plugins \subseteq Vouched'
  BY VouchedStays
<1>4. CASE WorkerStep
  <2>1. CASE Beside
    <3>1. ~Act
      BY <2>1 DEF Beside, Act, Diagnosed, Propose, ModelFails, StagingCheck, Decide, Verify
    <3> QED
      BY <1>0, <1>1, <1>3, <2>1, <3>1, BesideEffect DEF InFix
  <2>2. CASE Disable
    <3>1. PICK p \in work.todo :
            /\ active' = After("deactivate", p) /\ work.pc = "disable"
            /\ work'.todo = work.todo \ {p} /\ UNCHANGED listed
            /\ work'.cand = work.cand /\ work'.half = work.half
            /\ work'.pc = IF work.todo = {p} THEN "check" ELSE "disable"
      BY <2>2, ToggleEffect DEF Disable, WorkSteps, SearchSteps
    <3>2. ~Act
      BY <3>1 DEF Act
    <3> QED
      BY <1>0, <1>1, <1>2, <1>3, <3>1, <3>2 DEF After, InFix, SearchSteps
  <2>3. CASE Restore
    <3>1. PICK p \in work.todo :
            /\ active' = After("activate", p) /\ work.pc = "restore"
            /\ work'.todo = work.todo \ {p} /\ UNCHANGED listed
            /\ work'.cand = work.cand /\ work'.half = work.half
            /\ work'.pc = IF work.todo = {p} THEN "narrow" ELSE "restore"
      BY <2>3, ToggleEffect DEF Restore, WorkSteps, SearchSteps
    <3>2. ~Act
      BY <3>1 DEF Act
    <3> QED
      BY <1>0, <1>1, <1>2, <1>3, <3>1, <3>2 DEF After, InFix, SearchSteps
  <2>4. CASE Begin
    <3>1. ~Act /\ active' = active /\ listed' = listed /\ work.pc = "begin"
      BY <2>4 DEF Begin, Act
    <3>2. work'.half = {} /\ work'.todo = {}
      BY <2>4, <3>1, SearchEffect DEF JustBegun
    <3> QED
      BY <1>0, <1>1, <1>3, <2>4, <3>1, <3>2, SearchEffect DEF InFix
  <2>5. CASE Split
    <3>1. ~Act /\ active' = active /\ work.pc = "split" /\ work'.half \subseteq work.cand
      BY <2>5, SearchEffect DEF Split, Act, Half
    <3> QED
      BY <1>0, <1>1, <1>2, <1>3, <2>5, <3>1, SearchEffect DEF InFix, SearchSteps
  <2>6. CASE Check
    <3>1. ~Act /\ active' = active /\ listed' = listed /\ work.pc = "check"
      BY <2>6 DEF Check, Act, OwnState
    <3> QED
      BY <1>0, <1>1, <1>2, <1>3, <2>6, <3>1, SearchEffect DEF InFix, SearchSteps
  <2>7. CASE Relist
    <3>1. ~Act /\ active' = active /\ listed' = listed \cup work.half /\ work.pc = "relist"
      BY <2>7 DEF Relist, Act
    <3> QED
      BY <1>0, <1>1, <1>2, <1>3, <2>7, <3>1, SearchEffect DEF InFix, SearchSteps
  <2>8. CASE Narrow
    <3>1. ~Act /\ active' = active /\ listed' = listed /\ work.pc = "narrow"
      BY <2>8 DEF Narrow, Act, OwnState
    <3> QED
      BY <1>0, <1>1, <1>2, <1>3, <2>8, <3>1, SearchEffect DEF InFix, SearchSteps, Suspects
  <2>9. CASE Pick
    <3>1. /\ ~Act /\ active' = active /\ listed' = listed
          /\ work.pc = "idle" /\ work'.pc \in {"idle", "begin"}
      BY <2>9 DEF Pick, OwnState, Act, Started, Idle
    <3> QED
      BY <1>0, <1>1, <1>3, <3>1 DEF InFix, SearchSteps
  <2>10. CASE Act
    <3>1. listed' = listed /\ work.pc = "act"
      BY <2>10 DEF Act
    <3>2. (Vouched \cap Plugins) \ {work.intent.target} \subseteq Vouched'
      BY <2>10, VouchedStays
    <3>3. CASE work'.pc = "mirror" /\ work'.intent = work.intent
      BY <1>0, <1>1, <2>10, <3>1, <3>2, <3>3, ActEffect DEF InFix, SearchSteps
    <3>4. CASE active' = active /\ wanted' = wanted /\ work'.pc = "idle"
      <4>1. Vouched' = Vouched
        BY <2>10, <3>4 DEF Act, WorkOnly, Vouched, Returning, At
      <4> QED
        BY <1>0, <3>1, <3>4, <4>1 DEF InFix, SearchSteps
    <3> QED
      BY <2>10, <3>3, <3>4, ActEffect
  <2>11. CASE Mirror
    <3>1. /\ ~Act /\ active' = active /\ listed' = listed \ {work.intent.target}
          /\ work.pc = "mirror" /\ work'.pc = "verify"
      BY <2>11, AtWork, EnterType DEF Mirror, Act, WorkSteps, FixSteps
    <3> QED
      BY <1>0, <1>1, <1>3, <3>1 DEF InFix, SearchSteps
  <2>12. CASE Undo
    <3>1. ~Act /\ work.pc = "undo"
      BY <2>12 DEF Undo, Act
    <3>2. work.intent.target \in Vouched'
      BY <2>12, UndoEffect DEF Vouched
    <3> QED
      BY <1>0, <1>1, <1>3, <2>12, <3>1, <3>2, UndoEffect DEF InFix, SearchSteps
  <2> QED
    BY <1>4, <2>1, <2>2, <2>3, <2>4, <2>5, <2>6, <2>7, <2>8, <2>9, <2>10, <2>11, <2>12
    DEF WorkerStep, Beside
<1>5. CASE SiteStep
  <2>1. Vouched' = Vouched /\ active' = active
    BY <1>5, SiteTouches DEF Vouched, Returning, At
  <2>2. /\ work'.pc = work.pc
        /\ work.pc # "idle" => /\ work'.intent = work.intent /\ work'.cand = work.cand
                               /\ work'.half = work.half /\ work'.todo = work.todo
    BY <1>5, SiteTouches, Disturbed DEF PageChanges, Untouched
  <2>3. listed' = listed \/ listed' = active
    BY <1>5, SiteTouches DEF RecordHeartbeat
  <2> QED
    BY <1>0, <2>1, <2>2, <2>3 DEF InFix, SearchSteps
<1>6. ASSUME NEW r \in Requests, ApiStep(r) \/ \E i \in Incidents : ApiStart(r, i)
      PROVE  /\ active' \subseteq Vouched' /\ listed' \subseteq Vouched' \cup InFix'
             /\ work'.pc \in SearchSteps =>
                  work'.cand \cup work'.half \cup work'.todo \subseteq Vouched'
  <2>0. Vouched \cap Plugins \subseteq Vouched'
    BY <1>6, VouchedByApi
  <2>1. /\ work'.pc = work.pc
        /\ work.pc # "idle" => /\ work'.intent = work.intent /\ work'.cand = work.cand
                               /\ work'.half = work.half /\ work'.todo = work.todo
    BY <1>6, ApiTouches, Disturbed DEF RollbackList, RollbackCall, Untouched
  <2>2. CASE RollbackCall(r)
    <3>1. request[r].cause \in Plugins => request[r].cause \in Vouched'
      BY <2>2, RollbackEffect DEF Vouched
    <3> QED
      BY <1>0, <1>1, <1>2, <2>0, <2>1, <2>2, <3>1, RollbackEffect DEF InFix, SearchSteps
  <2>3. CASE RollbackList(r)
    <3>1. request'[r].pc = "reactivate" /\ request'[r].cause = request[r].cause
      BY <2>3, RequestMoves DEF RollbackList, Go, At, RequestRecord, TypeOK
    <3>2. request[r].cause \in Vouched'
      BY <3>1 DEF Vouched, Returning, At
    <3> QED
      BY <1>0, <1>1, <1>2, <2>0, <2>1, <2>3, <3>2 DEF RollbackList, InFix, SearchSteps
  <2>4. CASE Untouched /\ listed' = listed
    BY <1>0, <1>1, <1>2, <2>0, <2>1, <2>4 DEF Untouched, InFix, SearchSteps
  <2> QED
    BY <1>6, <2>2, <2>3, <2>4, ApiTouches
<1>7. CASE UNCHANGED vars
  BY <1>0, <1>7 DEF vars, InFix, Vouched, Returning, At
<1> QED
  BY <1>0, <1>4, <1>5, <1>6, <1>7 DEF Next

\* A fix is not undone by the search for another incident's cause.
THEOREM FixesOutlive == Spec => []FixesSurvive
<1>1. Init => FixesInv /\ JustBegun
  BY DEF Init, FixesInv, JustBegun, Vouched, InFix, Idle, SearchSteps
<1>2. FixesInv => FixesSurvive
  BY DEF FixesInv, FixesSurvive, Vouched, Returning
<1> QED
  BY <1>1, <1>2, FixesStep, BegunStep, PipelineTypeCorrect, PTL DEF Spec

-----------------------------------------------------------------------------
\* The invariant of the search: the culprit, if it is asked about, is still among the
\* candidates; what is off is what the search holds; and a verdict is about the half.
SearchInv ==
  work.pc \in SearchSteps /\ work.clean /\ ~site.staging =>
    /\ work.cand \subseteq work.asked
    /\ work.asked \ active = InHand
    /\ culprit = "elsewhere" \/ culprit \in active \cup InHand
    /\ culprit \in work.asked => culprit \in work.cand
    /\ work.pc # "split" =>
         /\ work.half \subseteq work.cand
         /\ Cardinality(work.cand) = 1 => work.half = work.cand
    /\ work.pc = "disable" => work.todo \subseteq work.half
    /\ work.pc = "restore" => work.todo \subseteq work.half
    /\ work.pc \in {"relist", "restore", "narrow"} => (work.healthy <=> culprit \in work.half)

\* The halves are what they should be, whatever the database's order.
LEMMA HalfFacts ==
  ASSUME NEW c, NEW h \in Half(c)
  PROVE  h \subseteq c /\ (Cardinality(c) = 1 => h = c)
BY DEF Half

\* The worker changes nothing of what kind of site it is.
LEMMA WorkerSite ==
  ASSUME WorkerStep
  PROVE  site' = site
BY DEF WorkerStep, Pick, Begin, Split, Disable, Check, Relist, Restore, Toggle, Narrow, Diagnosed,
  Propose, ModelFails, StagingCheck, Decide, Act, Mirror, Verify, Undo, WorkOnly

LEMMA CandFinite == ASSUME work \in WorkRecord PROVE IsFiniteSet(work.cand)
BY PipelineAssumption, FS_Subset DEF WorkRecord

\* The search's steps keep its invariant.
LEMMA SearchStep ==
  ASSUME TypeOK, TypeOK', JustBegun, SearchInv, HandKnown, HandKnown', WorkerStep
  PROVE  SearchInv'
<1> SUFFICES ASSUME work'.pc \in SearchSteps, work'.clean, ~site'.staging
    PROVE  /\ work'.cand \subseteq work'.asked
           /\ work'.asked \ active' = InHand'
           /\ culprit' = "elsewhere" \/ culprit' \in active' \cup InHand'
           /\ culprit' \in work'.asked => culprit' \in work'.cand
           /\ work'.pc # "split" =>
                /\ work'.half \subseteq work'.cand
                /\ Cardinality(work'.cand) = 1 => work'.half = work'.cand
           /\ work'.pc = "disable" => work'.todo \subseteq work'.half
           /\ work'.pc = "restore" => work'.todo \subseteq work'.half
           /\ work'.pc \in {"relist", "restore", "narrow"} =>
                (work'.healthy <=> culprit' \in work'.half)
  BY DEF SearchInv
<1>0. /\ ~site.staging
      /\ "elsewhere" \notin Plugins
  BY WorkerSite, Markers DEF SearchSteps
<1> USE DEF SearchSteps
<1>1. CASE Begin
  <2>1. /\ work'.pc = IF listed = {} THEN "narrow" ELSE "split"
        /\ work'.asked = listed /\ work'.cand = listed /\ ~work'.healthy /\ work'.half = {}
        /\ listed \subseteq active /\ PageBroken /\ active' = active /\ culprit' = culprit
    BY <1>1, SearchEffect DEF Begin, WorkOnly, JustBegun
  <2>2. InHand' = {}
    BY <2>1 DEF HandKnown
  <2>3. work'.pc # "split" => Cardinality(work'.cand) # 1
    BY <2>1, FS_EmptySet
  <2> QED
    BY <2>1, <2>2, <2>3 DEF PageBroken
<1>2. CASE Split
  <2>1. /\ work'.pc = "disable" /\ work'.half \in Half(work.cand) /\ work'.todo = work'.half
        /\ work'.asked = work.asked /\ work'.cand = work.cand /\ work.clean
        /\ work.pc = "split" /\ active' = active /\ culprit' = culprit /\ ~site.staging
    BY <1>0, <1>2, SearchEffect DEF Split, WorkOnly
  <2>2. work'.half \subseteq work.cand /\ (Cardinality(work.cand) = 1 => work'.half = work.cand)
    BY <2>1, HalfFacts
  <2>3. InHand = {} /\ InHand' = {}
    BY <2>1 DEF HandKnown
  <2> QED
    BY <2>1, <2>2, <2>3 DEF SearchInv
<1>3. CASE Disable
  <2>1. PICK p \in work.todo :
          /\ work.pc = "disable" /\ work'.todo = work.todo \ {p}
          /\ work'.pc = IF work.todo = {p} THEN "check" ELSE "disable"
          /\ work'.asked = work.asked /\ work'.cand = work.cand /\ work'.half = work.half
          /\ active' = active \ {p} /\ work.clean
    <3>0. Toggle("disable", "deactivate", "check") /\ {"disable", "check"} \subseteq WorkSteps
      BY <1>3 DEF Disable, WorkSteps
    <3>1. PICK p \in work.todo :
            /\ work.pc = "disable" /\ work'.todo = work.todo \ {p}
            /\ work'.pc = IF work.todo = {p} THEN "check" ELSE "disable"
            /\ work'.asked = work.asked /\ work'.cand = work.cand /\ work'.half = work.half
            /\ active' = After("deactivate", p) /\ work'.clean = work.clean
      BY <3>0, ToggleEffect
    <3> QED
      BY <3>1 DEF After
  <2>2. culprit' = culprit /\ ~site.staging
    BY <1>0, <1>3, <2>1 DEF Disable, Toggle, WorkOnly
  <2>3. /\ work.cand \subseteq work.asked /\ work.asked \ active = work.half \ work.todo
        /\ culprit = "elsewhere" \/ culprit \in active \cup (work.half \ work.todo)
        /\ culprit \in work.asked => culprit \in work.cand
        /\ work.half \subseteq work.cand /\ work.todo \subseteq work.half
        /\ Cardinality(work.cand) = 1 => work.half = work.cand
    BY <2>1, <2>2 DEF SearchInv, HandKnown
  <2>4. InHand' = work.half \ (work.todo \ {p})
    BY <2>1 DEF HandKnown
  <2> QED
    BY <2>1, <2>2, <2>3, <2>4
<1>4. CASE Check
  <2>1. /\ work.pc = "check" /\ work'.pc = "relist" /\ ~site.staging /\ work.clean
        /\ work'.asked = work.asked /\ work'.cand = work.cand /\ work'.half = work.half
        /\ work'.healthy = ~PageBroken /\ active' = active /\ culprit' = culprit
    BY <1>0, <1>4, AtWork DEF Check, Loads, WorkOnly, OwnState, WorkRecord
  <2>2. /\ work.cand \subseteq work.asked /\ work.asked \ active = work.half
        /\ culprit = "elsewhere" \/ culprit \in active \cup work.half
        /\ culprit \in work.asked => culprit \in work.cand
        /\ work.half \subseteq work.cand
        /\ Cardinality(work.cand) = 1 => work.half = work.cand
    BY <2>1 DEF SearchInv, HandKnown
  <2>3. InHand' = work.half
    BY <2>1 DEF HandKnown
  <2>4. work.half \subseteq Plugins
    BY <2>1, AtWork DEF WorkRecord
  <2> QED
    BY <1>0, <2>1, <2>2, <2>3, <2>4 DEF PageBroken
<1>5. CASE Relist
  <2>1. /\ work.pc = "relist" /\ work'.pc = "restore" /\ ~site.staging /\ work.clean
        /\ work'.asked = work.asked /\ work'.cand = work.cand /\ work'.half = work.half
        /\ work'.healthy = work.healthy /\ work'.todo = work.half
        /\ active' = active /\ culprit' = culprit
    BY <1>0, <1>5, AtWork DEF Relist, WorkOnly, WorkRecord
  <2>2. InHand = work.half /\ InHand' = work.half
    BY <2>1 DEF HandKnown
  <2> QED
    BY <2>1, <2>2 DEF SearchInv
<1>6. CASE Restore
  <2>1. PICK p \in work.todo :
          /\ work.pc = "restore" /\ work'.todo = work.todo \ {p}
          /\ work'.pc = IF work.todo = {p} THEN "narrow" ELSE "restore"
          /\ work'.asked = work.asked /\ work'.cand = work.cand /\ work'.half = work.half
          /\ work'.healthy = work.healthy /\ active' = active \cup {p} /\ work.clean
    BY <1>6, ToggleEffect DEF Restore, WorkSteps, After
  <2>2. culprit' = culprit /\ ~site.staging
    BY <1>0, <1>6, <2>1 DEF Restore, Toggle, WorkOnly
  <2>3. /\ work.cand \subseteq work.asked /\ work.asked \ active = work.todo
        /\ culprit = "elsewhere" \/ culprit \in active \cup work.todo
        /\ culprit \in work.asked => culprit \in work.cand
        /\ work.half \subseteq work.cand /\ work.todo \subseteq work.half
        /\ Cardinality(work.cand) = 1 => work.half = work.cand
        /\ work.healthy <=> culprit \in work.half
    BY <2>1, <2>2 DEF SearchInv, HandKnown
  <2>4. InHand' = work.todo \ {p}
    BY <2>1 DEF HandKnown
  <2> QED
    BY <2>1, <2>2, <2>3, <2>4
<1>7. CASE Narrow
  <2>1. /\ work.pc = "narrow" /\ work'.pc = "split" /\ ~site.staging /\ work.clean
        /\ work'.asked = work.asked /\ work'.cand = Suspects
        /\ active' = active /\ culprit' = culprit
    BY <1>0, <1>7, AtWork DEF Narrow, WorkOnly, OwnState, WorkRecord
  <2>2. InHand = {} /\ InHand' = {}
    BY <2>1 DEF HandKnown
  <2> QED
    BY <2>1, <2>2 DEF SearchInv, Suspects
<1>8. CASE Pick
  BY <1>8 DEF Pick, Started, Idle, JustBegun
<1>9. CASE Beside
  BY <1>9, BesideEffect
<1>10. CASE Act \/ Mirror \/ Undo
  BY <1>10, AtWork, EnterType, EndType DEF Act, Mirror, Undo, WorkSteps, FixSteps, Statuses
<1> QED
  BY <1>1, <1>2, <1>3, <1>4, <1>5, <1>6, <1>7, <1>8, <1>9, <1>10 DEF WorkerStep, Beside

\* What others do either leaves the search alone or spoils its claim to be exact.
LEMMA SearchKept ==
  TypeOK /\ TypeOK' /\ JustBegun /\ SearchInv /\ HandKnown /\ HandKnown' /\ [Next]_vars
    => SearchInv'
<1> SUFFICES ASSUME TypeOK, TypeOK', JustBegun, SearchInv, HandKnown, HandKnown', [Next]_vars
    PROVE  SearchInv'
  OBVIOUS
<1>1. CASE WorkerStep
  BY <1>1, SearchStep
<1>2. CASE Crash
  BY <1>2 DEF Crash, Idle, SearchInv, SearchSteps
<1>3. CASE UNCHANGED <<site, active, work, culprit>>
  BY <1>3 DEF SearchInv, InHand
<1>4. CASE work' = IF work = Idle THEN Idle ELSE [work EXCEPT !.clean = FALSE]
  BY <1>4, Disturbed DEF SearchInv, SearchSteps
<1>5. CASE SiteStep
  BY <1>3, <1>4, <1>5, SiteTouches DEF PageChanges, RecordHeartbeat, BeatFrame, Untouched
<1>6. ASSUME NEW r \in Requests, ApiStep(r) \/ \E i \in Incidents : ApiStart(r, i)
      PROVE  SearchInv'
  BY <1>3, <1>4, <1>6, ApiTouches
  DEF RollbackList, RollbackCall, ReadOnly, ApiFrame, Untouched
<1>7. CASE \E r \in Requests : CrashRequest(r)
  BY <1>3, <1>7 DEF CrashRequest, siteVars
<1>8. CASE UNCHANGED vars
  BY <1>3, <1>8 DEF vars
<1> QED
  BY <1>1, <1>2, <1>5, <1>6, <1>7, <1>8 DEF Next

\* With one candidate or none left, the diagnosis is the culprit or nobody.
LEMMA DiagnosisExact ==
  ASSUME TypeOK, SearchInv, Diagnosed, work.clean, ~site.staging
  PROVE  cause'[work.inc] = IF culprit \in work.asked THEN culprit ELSE Unknown
<1>1. /\ work \in WorkRecord /\ work.pc = "narrow" /\ IsFiniteSet(work.cand)
      /\ Cardinality(work.cand) <= 1
  BY AtWork, CandFinite DEF Diagnosed
<1>2. /\ culprit \in work.asked => culprit \in work.cand
      /\ work.cand \subseteq work.asked /\ work.half \subseteq work.cand
      /\ Cardinality(work.cand) = 1 => work.half = work.cand
      /\ work.healthy <=> culprit \in work.half
  BY <1>1 DEF SearchInv, SearchSteps
<1>3. cause \in [Incidents -> Plugins \cup {Report, Unknown}] /\ work.inc \in Incidents
  BY <1>1 DEF TypeOK, WorkRecord
<1>4. CASE Cardinality(work.cand) = 0
  <2>1. work.cand = {}
    BY <1>1, <1>4, FS_EmptySet
  <2> QED
    BY <1>2, <1>3, <2>1 DEF Diagnosed, Suspects
<1>5. CASE Cardinality(work.cand) = 1
  <2>1. PICK p : work.cand = {p}
    BY <1>1, <1>5, FS_Singleton
  <2>2. Suspects = IF culprit = p THEN {p} ELSE {}
    BY <1>2, <1>5, <2>1 DEF Suspects
  <2> QED
    BY <1>2, <1>3, <2>1, <2>2 DEF Diagnosed
<1> QED
  BY <1>1, <1>4, <1>5, FS_CardinalityType

\* However the rows are ordered and whatever else happens, a search that nobody disturbs
\* names the culprit if it was asked about, and otherwise nobody.
THEOREM DiagnosisIsExact == Spec => SearchIsExact
<1>1. Init => SearchInv /\ JustBegun
  BY DEF Init, SearchInv, JustBegun, Idle, SearchSteps
<1>2. TypeOK /\ SearchInv /\ [Next]_vars
        => [Diagnosed /\ work.clean /\ ~site.staging
              => cause'[work.inc] = IF culprit \in work.asked THEN culprit ELSE Unknown]_vars
  BY DiagnosisExact
<1> QED
  BY <1>1, <1>2, SearchKept, HandFacts, BegunStep, NextType, PipelineTypeCorrect, PTL
  DEF Spec, SearchIsExact
=============================================================================
