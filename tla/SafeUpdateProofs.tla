-------------------------- MODULE SafeUpdateProofs --------------------------
(***************************************************************************)
(* What is proved about safe updates: for every set of sites, of releases  *)
(* and of faults, and every number of jobs and of things that happen.      *)
(***************************************************************************)
EXTENDS SafeUpdate, TLAPS

USE SafeUpdateAssumption DEF None

-----------------------------------------------------------------------------
(***************************************************************************)
(* Types.                                                                  *)
(***************************************************************************)

\* A call that is carried out has all its fields, and keeps what it was asked for.
LEMMA PhpFields ==
  ASSUME TypeOK, php # Idle
  PROVE  /\ php \in PhpRecord
         /\ \A pc \in UpdateSteps \cup RollbackSteps \cup {"cleanup", "theme", "answer"},
               ok \in BOOLEAN :
              php' = [php EXCEPT !.pc = pc, !.ok = ok] =>
                /\ php' \in PhpRecord /\ php' # Idle /\ php'.pc = pc /\ php'.ok = ok
                /\ php'.verb = php.verb /\ php'.heard = php.heard
         /\ \A pc \in UpdateSteps \cup RollbackSteps \cup {"cleanup", "theme", "answer"} :
              PhpGo(pc) =>
                /\ php' \in PhpRecord /\ php' # Idle /\ php'.pc = pc /\ php'.ok = php.ok
                /\ php'.verb = php.verb /\ php'.heard = php.heard
         /\ \A ok \in BOOLEAN :
              PhpAnswers(ok) =>
                /\ php' \in PhpRecord /\ php' # Idle /\ php'.pc = "answer" /\ php'.ok = ok
                /\ php'.verb = php.verb /\ php'.heard = php.heard
<1>1. php \in PhpRecord
  BY DEF TypeOK
<1>2. \A r \in PhpRecord : r.pc # "idle" /\ r # Idle
  BY DEF PhpRecord, UpdateSteps, RollbackSteps, Idle
<1>3. ASSUME NEW pc \in UpdateSteps \cup RollbackSteps \cup {"cleanup", "theme", "answer"},
             NEW ok \in BOOLEAN, php' = [php EXCEPT !.pc = pc, !.ok = ok]
      PROVE  /\ php' \in PhpRecord /\ php'.pc = pc /\ php'.ok = ok
             /\ php'.verb = php.verb /\ php'.heard = php.heard
  BY <1>1, <1>3 DEF PhpRecord
<1>4. ASSUME NEW pc \in UpdateSteps \cup RollbackSteps \cup {"cleanup", "theme", "answer"},
             PhpGo(pc)
      PROVE  /\ php' \in PhpRecord /\ php'.pc = pc /\ php'.ok = php.ok
             /\ php'.verb = php.verb /\ php'.heard = php.heard
  BY <1>1, <1>4 DEF PhpRecord, PhpGo
<1>5. ASSUME NEW ok \in BOOLEAN, PhpAnswers(ok)
      PROVE  /\ php' \in PhpRecord /\ php'.pc = "answer" /\ php'.ok = ok
             /\ php'.verb = php.verb /\ php'.heard = php.heard
  BY <1>1, <1>5 DEF PhpRecord, PhpAnswers
<1> QED
  BY <1>1, <1>2, <1>3, <1>4, <1>5

\* So has a job in hand.
LEMMA JobFields ==
  ASSUME TypeOK, job # Idle
  PROVE  /\ job \in JobRecord
         /\ \A pc \in JobSteps :
              job' = [job EXCEPT !.pc = pc] =>
                /\ job' \in JobRecord /\ job' # Idle /\ job'.pc = pc /\ job'.kind = job.kind
                /\ job'.base = job.base /\ job'.before = job.before /\ job'.clean = job.clean
<1>1. job \in JobRecord
  BY DEF TypeOK
<1>2. \A r \in JobRecord : r.pc # "idle" /\ r # Idle
  BY DEF JobRecord, JobSteps, Idle
<1>3. ASSUME NEW pc \in JobSteps, job' = [job EXCEPT !.pc = pc]
      PROVE  /\ job' \in JobRecord /\ job'.pc = pc /\ job'.kind = job.kind
             /\ job'.base = job.base /\ job'.before = job.before /\ job'.clean = job.clean
  BY <1>1, <1>3 DEF JobRecord
<1> QED
  BY <1>1, <1>2, <1>3

LEMMA IdleIsIdle ==
  ASSUME TypeOK
  PROVE  (php.pc = "idle" <=> php = Idle) /\ (job.pc = "idle" <=> job = Idle)
BY DEF Idle, TypeOK, PhpRecord, JobRecord, UpdateSteps, RollbackSteps, JobSteps

\* What every step of a call leaves alone.
LEMMA PhpMoves ==
  ASSUME TypeOK, PhpStep \/ Die
  PROVE  /\ php # Idle /\ php' # Idle /\ php' \in PhpRecord
         /\ php'.verb = php.verb /\ php'.heard = php.heard
         /\ UNCHANGED <<site, latest, jobs, verdict, events, job>>
         /\ news \subseteq news' /\ faults \subseteq faults'
<1> USE DEF PhpAt, PhpFrame
<1>1. php # Idle
  BY IdleIsIdle DEF PhpStep, PreFlight, SnapshotDbState, Upgrade, MigrationBackup, RemoveFiles,
     RestoreFiles, ImportTables, RestoreOptions, Cleanup, UpgradeTheme, Die
<1> DEFINE Same == /\ php' # Idle /\ php' \in PhpRecord
                   /\ php'.verb = php.verb /\ php'.heard = php.heard
<1>2. CASE PreFlight
  BY <1>1, <1>2, PhpFields DEF PreFlight, Strikes, UpdateSteps
<1>3. CASE SnapshotDbState
  BY <1>1, <1>3, PhpFields DEF SnapshotDbState, UpdateSteps
<1>4. CASE Upgrade
  BY <1>1, <1>4, PhpFields DEF Upgrade, Strikes, UpdateSteps, RollbackSteps
<1>5. CASE MigrationBackup
  BY <1>1, <1>5, PhpFields DEF MigrationBackup
<1>6. CASE RemoveFiles
  BY <1>1, <1>6, PhpFields DEF RemoveFiles, RollbackSteps
<1>7. CASE RestoreFiles
  BY <1>1, <1>7, PhpFields DEF RestoreFiles, Strikes, RollbackSteps
<1>8. CASE ImportTables
  BY <1>1, <1>8, PhpFields DEF ImportTables, RollbackSteps
<1>9. CASE RestoreOptions
  BY <1>1, <1>9, PhpFields DEF RestoreOptions
<1>10. CASE Cleanup
  BY <1>1, <1>10, PhpFields DEF Cleanup
<1>11. CASE UpgradeTheme
  <2>1. (latest > theme) \in BOOLEAN
    OBVIOUS
  <2> QED
    BY <1>1, <1>11, <2>1, PhpFields DEF UpgradeTheme
<1>12. CASE Die
  BY <1>1, <1>12, PhpFields DEF Die, Strikes
<1> QED
  BY <1>1, <1>2, <1>3, <1>4, <1>5, <1>6, <1>7, <1>8, <1>9, <1>10, <1>11, <1>12 DEF PhpStep

LEMMA PhpStepType ==
  ASSUME TypeOK, PhpStep \/ Die
  PROVE  TypeOK'
<1> USE DEF Versions, VersionOrNone, FaultKinds
<1>1. /\ kept \in Kept /\ plugin \in PluginState /\ theme \in Versions /\ latest \in Versions
      /\ news \subseteq {"update_success", "rolled_back", "not_rolled_back"}
      /\ faults \subseteq FaultKinds
  BY DEF TypeOK
<1> DEFINE Fine == /\ kept' \in Kept /\ plugin' \in PluginState /\ theme' \in Versions
                   /\ news' \subseteq {"update_success", "rolled_back", "not_rolled_back"}
                   /\ faults' \subseteq FaultKinds
<1>2. ASSUME PreFlight PROVE Fine
  <2>1. plugin.code \in VersionOrNone
    BY <1>1 DEF PluginState
  <2>2. /\ [kept EXCEPT !.url = plugin.code] \in Kept /\ [kept EXCEPT !.dir = plugin.code] \in Kept
        /\ [kept EXCEPT !.dir = None] \in Kept
    BY <1>1, <2>1 DEF Kept
  <2> QED
    BY <1>1, <1>2, <2>2 DEF PreFlight, Strikes
<1>3. ASSUME SnapshotDbState PROVE Fine
  <2>1. [kept EXCEPT !.options = plugin.options, !.schema = plugin.schema] \in Kept
    <3>1. plugin.options \in VersionOrNone /\ plugin.schema \in VersionOrNone
      BY <1>1 DEF PluginState
    <3>2. [kept EXCEPT !.options = plugin.options] \in Kept
      BY <1>1, <3>1 DEF Kept
    <3>3. \A k \in Kept : [k EXCEPT !.schema = plugin.schema] \in Kept
      BY <3>1 DEF Kept
    <3> QED
      BY <3>2, <3>3
  <2> QED
    BY <1>1, <1>3, <2>1 DEF SnapshotDbState
<1>4. ASSUME Upgrade PROVE Fine
  <2>1. Upgraded \in PluginState
    BY <1>1 DEF Upgraded, PluginState
  <2>2. \A c \in {plugin.code, 0} : [plugin EXCEPT !.code = c] \in PluginState
    BY <1>1 DEF PluginState
  <2>3. InterceptTable \in Kept
    BY <1>1 DEF InterceptTable, Kept, PluginState
  <2>4. \A k \in Kept : InterceptOption(k) \in Kept
    BY <1>1 DEF InterceptOption, Kept, PluginState
  <2> QED
    BY <1>1, <1>4, <2>1, <2>2, <2>3, <2>4 DEF Upgrade, Strikes
<1>5. ASSUME MigrationBackup PROVE Fine
  BY <1>1, <1>5 DEF MigrationBackup, Kept, PluginState
<1>6. ASSUME RemoveFiles PROVE Fine
  BY <1>1, <1>6 DEF RemoveFiles, PluginState
<1>7. ASSUME RestoreFiles PROVE Fine
  <2>1. \A c \in VersionOrNone : [plugin EXCEPT !.code = c] \in PluginState
    BY <1>1 DEF PluginState
  <2>2. kept.url \in VersionOrNone /\ kept.dir \in VersionOrNone
        /\ [kept EXCEPT !.dir = None] \in Kept
    BY <1>1 DEF Kept
  <2> QED
    BY <1>1, <1>7, <2>1, <2>2 DEF RestoreFiles, Strikes
<1>8. ASSUME ImportTables PROVE Fine
  <2>1. Imported \in Versions
    BY <1>1 DEF Imported, Kept, PluginState
  <2> QED
    <3>1. [plugin EXCEPT !.schema = Imported] \in PluginState
      BY <1>1, <2>1 DEF PluginState
    <3>2. [kept EXCEPT !.targeted = None, !.prealter = None] \in Kept
      <4>1. [kept EXCEPT !.targeted = None] \in Kept
        BY <1>1 DEF Kept
      <4>2. \A k \in Kept : [k EXCEPT !.prealter = None] \in Kept
        BY DEF Kept
      <4> QED
        BY <4>1, <4>2
    <3> QED
      BY <1>1, <1>8, <3>1, <3>2 DEF ImportTables
<1>9. ASSUME RestoreOptions PROVE Fine
  BY <1>1, <1>9 DEF RestoreOptions, Kept, PluginState
<1>10. ASSUME Cleanup PROVE Fine
  BY <1>1, <1>10 DEF Cleanup, Kept, NothingKept
<1>11. ASSUME UpgradeTheme PROVE Fine
  BY <1>1, <1>11 DEF UpgradeTheme
<1>12. ASSUME Die PROVE Fine
  BY <1>1, <1>12 DEF Die, PluginState, Strikes
<1>13. Fine
  BY <1>2, <1>3, <1>4, <1>5, <1>6, <1>7, <1>8, <1>9, <1>10, <1>11, <1>12 DEF PhpStep
<1> QED
  BY <1>13, PhpMoves DEF TypeOK

\* A call starts as a record like any other.
LEMMA CallFields ==
  ASSUME NEW verb \in {"update", "rollback", "cleanup"}, NEW ok \in BOOLEAN,
         NEW first \in UpdateSteps \cup RollbackSteps \cup {"cleanup", "theme", "answer"}
  PROVE  [pc |-> first, verb |-> verb, heard |-> TRUE, ok |-> ok] \in PhpRecord \ {Idle}
BY DEF PhpRecord, Idle, UpdateSteps, RollbackSteps

LEMMA JobStepType ==
  ASSUME TypeOK, JobStep \/ GiveUp \/ Crash
  PROVE  TypeOK'
<1> USE DEF PhpAt, JobAt, Versions, VersionOrNone, FaultKinds
<1>1. UNCHANGED <<site, latest, plugin, kept, theme, news, events>>
  BY DEF JobStep, Take, CaptureBaseline, CallUpdate, HearUpdate, NetworkCheck, VisualDiff,
     ScrapeLog, CallRollback, HearRollback, CallCleanup, HearCleanup, Unheard, GiveUp, Crash,
     JobFrame
<1> DEFINE Fine == /\ php' \in {Idle} \cup PhpRecord
                   /\ job' \in {Idle} \cup JobRecord
                   /\ jobs' \in Seq(Kinds)
                   /\ verdict' \in Verdicts
                   /\ faults' \subseteq FaultKinds
<1>2. /\ php \in {Idle} \cup PhpRecord /\ job \in {Idle} \cup JobRecord
      /\ jobs \in Seq(Kinds) /\ verdict \in Verdicts /\ plugin \in PluginState
      /\ theme \in Versions
      /\ faults \subseteq FaultKinds
  BY DEF TypeOK
<1>3. ASSUME Take PROVE Fine
  <2>1. Head(jobs) \in Kinds /\ Tail(jobs) \in Seq(Kinds)
    BY <1>2, <1>3 DEF Take
  <2> QED
    BY <1>2, <1>3, <2>1 DEF Take, JobRecord, JobSteps
<1>4. ASSUME CaptureBaseline PROVE Fine
  <2>1. job # Idle
    BY <1>4, IdleIsIdle DEF CaptureBaseline
  <2>2. Installed \in VersionOrNone
    BY <1>2 DEF Installed, PluginState
  <2> QED
    BY <1>2, <1>4, <2>1, <2>2 DEF CaptureBaseline, JobEnds, JobRecord, JobSteps, Verdicts
<1>5. ASSUME CallUpdate PROVE Fine
  <2>1. job \in JobRecord
    BY <1>2, <1>5, IdleIsIdle DEF CallUpdate
  <2>2. [job EXCEPT !.pc = "updating", !.before = plugin, !.clean = FreshStart] \in JobRecord
    BY <1>2, <2>1 DEF JobRecord, JobSteps, FreshStart
  <2>3. php' \in PhpRecord
        /\ faults' \subseteq FaultKinds
    BY <1>2, <1>5, CallFields DEF CallUpdate, Call, Strikes, UpdateSteps
  <2>4. job' = [job EXCEPT !.pc = "updating", !.before = plugin, !.clean = FreshStart]
    BY <1>5 DEF CallUpdate, Call
  <2> QED
    BY <1>2, <1>5, <2>2, <2>3, <2>4 DEF CallUpdate
<1>6. ASSUME HearUpdate \/ HearRollback \/ HearCleanup PROVE Fine
  <2>1. job # Idle
    BY <1>6, IdleIsIdle DEF HearUpdate, HearRollback, HearCleanup, Answered
  <2> QED
    BY <1>2, <1>6, <2>1, JobFields DEF HearUpdate, HearRollback, HearCleanup, Answered, JobGo,
       JobEnds, Verdicts, JobSteps
<1>7. ASSUME NetworkCheck \/ VisualDiff \/ ScrapeLog PROVE Fine
  <2>1. job # Idle
    BY <1>7, IdleIsIdle DEF NetworkCheck, VisualDiff, ScrapeLog
  <2> QED
    BY <1>2, <1>7, <2>1, JobFields DEF NetworkCheck, VisualDiff, ScrapeLog, Failed, JobGo,
       JobEnds, Verdicts, JobSteps, Strikes
<1>8. ASSUME CallRollback \/ CallCleanup PROVE Fine
  <2>1. job # Idle
    BY <1>8, IdleIsIdle DEF CallRollback, CallCleanup
  <2>2. php' \in PhpRecord
        /\ faults' \subseteq FaultKinds
    BY <1>2, <1>8, CallFields DEF CallRollback, CallCleanup, Call, Strikes, RollbackSteps
  <2>3. JobGo("undoing") \/ JobGo("cleaning")
    BY <1>8 DEF CallRollback, CallCleanup, Call
  <2> QED
    BY <1>2, <1>8, <2>1, <2>2, <2>3, JobFields DEF CallRollback, CallCleanup, JobGo, JobSteps
<1>9. ASSUME Unheard PROVE Fine
  BY <1>2, <1>9 DEF Unheard
<1>10. ASSUME GiveUp PROVE Fine
  <2>1. [php EXCEPT !.heard = FALSE] \in {Idle} \cup PhpRecord
    BY <1>2 DEF PhpRecord, Idle
  <2> QED
    BY <1>2, <1>10, <2>1 DEF GiveUp, JobEnds, Verdicts, Strikes
<1>11. ASSUME Crash PROVE Fine
  <2>1. php # Idle => [php EXCEPT !.heard = FALSE] \in PhpRecord
    BY <1>2 DEF PhpRecord
  <2>2. job.kind \in Kinds
    BY <1>2, <1>11 DEF Crash, JobRecord
  <2> QED
    BY <1>2, <1>11, <2>1, <2>2 DEF Crash, Strikes
<1>12. Fine
  BY <1>3, <1>4, <1>5, <1>6, <1>7, <1>8, <1>9, <1>10, <1>11 DEF JobStep
<1> QED
  BY <1>1, <1>12 DEF TypeOK

LEMMA SurroundingsType ==
  ASSUME TypeOK, SurroundingsStep
  PROVE  TypeOK'
<1> USE DEF TypeOK, Outside, Happens, Versions, VersionOrNone
<1>1. ASSUME NEW k \in Kinds, QueueUpdate(k) PROVE TypeOK'
  BY <1>1 DEF QueueUpdate
<1>2. CASE Release
  BY <1>2 DEF Release
<1>3. CASE UpdateByHand
  <2>1. job' \in {Idle} \cup JobRecord
    BY <1>3 DEF UpdateByHand, Disturbed, JobRecord
  <2>2. plugin' \in PluginState
    BY <1>3 DEF UpdateByHand, PluginState
  <2> QED
    BY <1>3, <2>1, <2>2 DEF UpdateByHand
<1>4. CASE MigrateLater
  <2>1. plugin.code \in Versions
    BY <1>4 DEF MigrateLater, PluginState
  <2>2. plugin' \in PluginState
    BY <1>4, <2>1 DEF MigrateLater, PluginState
  <2> QED
    BY <1>4, <2>2 DEF MigrateLater
<1>5. CASE IsolateByUpdate
  BY <1>5 DEF IsolateByUpdate, Kinds
<1> QED
  BY <1>1, <1>2, <1>3, <1>4, <1>5 DEF SurroundingsStep

LEMMA TypeStep == TypeOK /\ [Next]_vars => TypeOK'
<1>1. TypeOK /\ UNCHANGED vars => TypeOK'
  BY DEF TypeOK, vars
<1> QED
  BY <1>1, PhpStepType, JobStepType, SurroundingsType DEF Next

\* Every variable keeps its type, whatever dies, gets lost or is released.
THEOREM TypeCorrect == Spec => []TypeOK
<1>1. Init => TypeOK
  BY DEF Init, TypeOK, Versions, VersionOrNone, PluginState, Kept, NothingKept, Verdicts
<1> QED
  BY <1>1, TypeStep, PTL DEF Spec

-----------------------------------------------------------------------------
(***************************************************************************)
(* Files that are gone.                                                    *)
(***************************************************************************)

\* What every step of the worker leaves alone, and where it leaves the call: started,
\* forgotten when it has been answered, or no longer listened to.
LEMMA JobMoves ==
  ASSUME TypeOK, JobStep \/ GiveUp \/ Crash
  PROVE  /\ UNCHANGED <<site, latest, plugin, kept, theme, news, events>>
         /\ faults \subseteq faults'
         /\ \/ php' = php
            \/ /\ php = Idle /\ php' # Idle
               /\ php'.pc \in {"preflight", "theme", "files", "cleanup", "answer"}
            \/ php # Idle /\ php.pc = "answer" /\ php' = Idle
            \/ php # Idle /\ php' # Idle /\ php'.pc = php.pc /\ php'.ok = php.ok
<1>1. UNCHANGED <<site, latest, plugin, kept, theme, news, events>>
  BY DEF JobStep, Take, CaptureBaseline, CallUpdate, HearUpdate, NetworkCheck, VisualDiff,
     ScrapeLog, CallRollback, HearRollback, CallCleanup, HearCleanup, Unheard, GiveUp, Crash,
     JobFrame
<1>2. faults \subseteq faults'
  BY DEF JobStep, Take, CaptureBaseline, CallUpdate, HearUpdate, NetworkCheck, VisualDiff,
     ScrapeLog, CallRollback, HearRollback, CallCleanup, HearCleanup, Unheard, GiveUp, Crash,
     Call, Strikes
<1> DEFINE Left ==
      \/ php' = php
      \/ /\ php = Idle /\ php' # Idle
         /\ php'.pc \in {"preflight", "theme", "files", "cleanup", "answer"}
      \/ php # Idle /\ php.pc = "answer" /\ php' = Idle
      \/ php # Idle /\ php' # Idle /\ php'.pc = php.pc /\ php'.ok = php.ok
<1>3. ASSUME Take \/ CaptureBaseline \/ NetworkCheck \/ VisualDiff \/ ScrapeLog PROVE Left
  BY <1>3 DEF Take, CaptureBaseline, NetworkCheck, VisualDiff, ScrapeLog
<1>4. ASSUME HearUpdate \/ HearRollback \/ HearCleanup \/ Unheard PROVE Left
  BY <1>4, IdleIsIdle DEF HearUpdate, HearRollback, HearCleanup, Unheard, Answered, PhpAt
<1>5. ASSUME CallUpdate \/ CallRollback \/ CallCleanup PROVE Left
  BY <1>5, CallFields DEF CallUpdate, CallRollback, CallCleanup, Call, UpdateSteps, RollbackSteps
<1>6. ASSUME php # Idle, php' = [php EXCEPT !.heard = FALSE]
      PROVE  Left
  <2>1. php \in PhpRecord
    BY <1>6, PhpFields
  <2>2. php'.pc = php.pc /\ php'.ok = php.ok /\ php'.pc # "idle"
    BY <1>6, <2>1 DEF PhpRecord, UpdateSteps, RollbackSteps
  <2> QED
    BY <1>6, <2>2 DEF Idle
<1>7. ASSUME GiveUp \/ Crash PROVE Left
  <2>1. php = Idle => [php EXCEPT !.heard = FALSE] = Idle
    BY DEF Idle
  <2> QED
    BY <1>6, <1>7, <2>1 DEF GiveUp, Crash
<1> QED
  BY <1>1, <1>2, <1>3, <1>4, <1>5, <1>7 DEF JobStep

\* Files that are missing are on their way back, or the site has told so or is about to.
GoneInv ==
  /\ php.pc = "restore" => kept.url # None \/ kept.dir # None
  /\ plugin.code = None =>
       \/ "not_rolled_back" \in news
       \/ "died" \in faults
       \/ php.pc \in {"files", "restore"}
       \/ php.pc \in {"tables", "options"} /\ ~php.ok

LEMMA GoneStep == TypeOK /\ GoneInv /\ [Next]_vars => GoneInv'
<1> SUFFICES ASSUME TypeOK, GoneInv, [Next]_vars PROVE GoneInv'
  OBVIOUS
<1> USE DEF PhpAt
<1>1. ASSUME PhpStep \/ Die PROVE GoneInv'
  <2> USE DEF GoneInv
  <2>0. /\ php # Idle /\ news \subseteq news' /\ faults \subseteq faults'
        /\ latest \in Nat /\ latest # None
    BY <1>1, PhpMoves DEF TypeOK, Versions
  <2>1. CASE PreFlight
    <3>1. php.pc = "preflight" /\ php'.pc \in {"answer", "snapshot"}
      BY <2>0, <2>1, PhpFields DEF PreFlight, UpdateSteps
    <3>2. plugin' = plugin
      BY <2>1 DEF PreFlight
    <3> QED
      BY <2>0, <3>1, <3>2
  <2>2. CASE SnapshotDbState
    <3>1. php.pc = "snapshot" /\ php'.pc = "upgrade"
      BY <2>0, <2>2, PhpFields DEF SnapshotDbState, UpdateSteps
    <3>2. plugin' = plugin
      BY <2>2 DEF SnapshotDbState
    <3> QED
      BY <2>0, <3>1, <3>2
  <2>3. CASE Upgrade
    <3>1. Upgraded.code # None
      BY <2>0 DEF Upgraded
    <3>2. (php'.pc = "backup" /\ plugin' = Upgraded) \/ php'.pc = "files"
      BY <2>0, <2>3, PhpFields DEF Upgrade, UpdateSteps, RollbackSteps
    <3> QED
      BY <3>1, <3>2
  <2>4. CASE MigrationBackup
    BY <2>0, <2>4, PhpFields DEF MigrationBackup
  <2>5. CASE RemoveFiles
    BY <2>0, <2>5, PhpFields DEF RemoveFiles, RollbackSteps
  <2>6. CASE RestoreFiles
    <3>1. php'.pc = "tables"
      BY <2>0, <2>6, PhpFields DEF RestoreFiles, RollbackSteps
    <3>2. php'.ok => plugin'.code = IF kept.url # None THEN kept.url ELSE kept.dir
      BY <2>0, <2>6, PhpFields DEF RestoreFiles, RollbackSteps, TypeOK, PluginState
    <3> QED
      BY <2>6, <3>1, <3>2 DEF RestoreFiles
  <2>7. CASE ImportTables
    BY <2>0, <2>7, PhpFields DEF ImportTables, RollbackSteps, TypeOK, PluginState
  <2>8. CASE RestoreOptions
    <3>1. plugin'.code = plugin.code
      BY <2>8 DEF RestoreOptions, TypeOK, PluginState
    <3>2. php'.pc \in {"cleanup", "answer"}
      BY <2>0, <2>8, PhpFields DEF RestoreOptions
    <3>3. ~php.ok => "not_rolled_back" \in news'
      BY <2>8 DEF RestoreOptions
    <3>4. php.pc = "options"
      BY <2>8 DEF RestoreOptions
    <3> QED
      BY <2>0, <3>1, <3>2, <3>3, <3>4
  <2>9. CASE Cleanup
    BY <2>0, <2>9, PhpFields DEF Cleanup
  <2>10. CASE UpgradeTheme
    <3>1. (latest > theme) \in BOOLEAN
      OBVIOUS
    <3> QED
      BY <2>0, <2>10, <3>1, PhpFields DEF UpgradeTheme
  <2>11. CASE Die
    BY <2>0, <2>11, PhpFields DEF Die, Strikes
  <2> QED
    BY <1>1, <2>1, <2>2, <2>3, <2>4, <2>5, <2>6, <2>7, <2>8, <2>9, <2>10, <2>11 DEF PhpStep
<1>2. CASE JobStep \/ GiveUp \/ Crash
  BY <1>2, JobMoves, IdleIsIdle DEF GoneInv, Idle
<1>3. CASE SurroundingsStep
  <2>1. /\ UNCHANGED <<php, kept, news, faults>>
        /\ plugin'.code = plugin.code \/ plugin'.code = latest
    <3>1. CASE MigrateLater
      BY <3>1 DEF MigrateLater, Outside, TypeOK, PluginState
    <3>2. CASE UpdateByHand
      BY <3>2 DEF UpdateByHand, Outside
    <3> QED
      BY <1>3, <3>1, <3>2 DEF SurroundingsStep, QueueUpdate, Release, IsolateByUpdate, Outside
  <2> QED
    BY <2>1 DEF GoneInv, TypeOK, Versions
<1>4. CASE UNCHANGED vars
  BY <1>4 DEF vars, GoneInv
<1> QED
  BY <1>1, <1>2, <1>3, <1>4 DEF Next

\* A plugin whose files are gone never goes unreported, whatever was kept, lost or crashed.
THEOREM MissingIsReported == Spec => []GoneIsReported
<1>1. Init => GoneInv
  BY DEF Init, GoneInv, Idle
<1>2. GoneInv => GoneIsReported
  BY DEF GoneInv, GoneIsReported, Idle
<1> QED
  BY <1>1, <1>2, GoneStep, TypeCorrect, PTL DEF Spec

-----------------------------------------------------------------------------
(***************************************************************************)
(* The job and its call.                                                   *)
(***************************************************************************)

\* Where a step takes a call.
LEMMA PhpPath ==
  ASSUME TypeOK, PhpStep \/ Die
  PROVE  \/ php'.pc = "answer"
         \/ php.pc = "preflight" /\ php'.pc = "snapshot"
         \/ php.pc = "snapshot" /\ php'.pc = "upgrade"
         \/ php.pc = "upgrade" /\ php'.pc \in {"backup", "files"}
         \/ php.pc = "files" /\ php'.pc \in {"restore", "tables"}
         \/ php.pc = "restore" /\ php'.pc = "tables"
         \/ php.pc = "tables" /\ php'.pc = "options"
         \/ php.pc = "options" /\ php.verb = "update" /\ php'.pc = "cleanup"
<1> USE DEF PhpAt
<1>0. php # Idle
  BY PhpMoves
<1>1. ASSUME PreFlight \/ SnapshotDbState \/ Upgrade \/ MigrationBackup
      PROVE  \/ php'.pc = "answer"
             \/ php.pc = "preflight" /\ php'.pc = "snapshot"
             \/ php.pc = "snapshot" /\ php'.pc = "upgrade"
             \/ php.pc = "upgrade" /\ php'.pc \in {"backup", "files"}
  BY <1>0, <1>1, PhpFields DEF PreFlight, SnapshotDbState, Upgrade, MigrationBackup, UpdateSteps,
     RollbackSteps
<1>2. ASSUME RemoveFiles \/ RestoreFiles \/ ImportTables \/ RestoreOptions \/ Cleanup
      PROVE  \/ php'.pc = "answer"
             \/ php.pc = "files" /\ php'.pc \in {"restore", "tables"}
             \/ php.pc = "restore" /\ php'.pc = "tables"
             \/ php.pc = "tables" /\ php'.pc = "options"
             \/ php.pc = "options" /\ php.verb = "update" /\ php'.pc = "cleanup"
  BY <1>0, <1>2, PhpFields DEF RemoveFiles, RestoreFiles, ImportTables, RestoreOptions, Cleanup,
     RollbackSteps
<1>3. ASSUME UpgradeTheme \/ Die PROVE php'.pc = "answer"
  <2>1. (latest > theme) \in BOOLEAN
    OBVIOUS
  <2> QED
    BY <1>0, <1>3, <2>1, PhpFields DEF UpgradeTheme, Die
<1> QED
  BY <1>1, <1>2, <1>3 DEF PhpStep

\* The job waits for the site to carry out what it has called for.
Awaits(verb, plugins, themes) ==
  /\ php # Idle /\ php.heard /\ php.verb = verb
  /\ php.pc \in {"answer"} \cup IF job.kind = "plugin" THEN plugins ELSE themes

Verifying == {"network", "visual", "log", "undo", "done"}

\* A job calls, then it waits; while it checks what it got, the site does nothing; and when
\* it begins, the site may still be busy with a call that nobody waits for any more.
Coupled ==
  /\ job.pc \in {"idle", "baseline", "update"} => php = Idle \/ ~php.heard
  /\ job.pc \in Verifying => php = Idle
  /\ job.pc = "updating" =>
       Awaits("update", UpdateSteps \cup RollbackSteps \cup {"cleanup"}, {"theme"})
  /\ job.pc = "undoing" => Awaits("rollback", RollbackSteps, {})
  /\ job.pc = "cleaning" => Awaits("cleanup", {"cleanup"}, {})

\* A call starts with its first step, or it gets lost.
Starts(first) ==
  \/ php'.pc = first /\ php'.ok /\ faults' = faults
  \/ php'.pc = "answer" /\ ~php'.ok /\ "lost" \in faults'

LEMMA CallStarts ==
  ASSUME TypeOK, CallUpdate \/ CallRollback \/ CallCleanup
  PROVE  /\ php = Idle /\ job # Idle /\ php' \in PhpRecord \ {Idle} /\ php'.heard
         /\ CallUpdate =>
              /\ php'.verb = "update"
              /\ Starts(IF job.kind = "theme" THEN "theme" ELSE "preflight")
              /\ job' = [job EXCEPT !.pc = "updating", !.before = plugin, !.clean = FreshStart]
         /\ CallRollback =>
              /\ php'.verb = "rollback"
              /\ Starts(IF job.kind = "theme" THEN "answer" ELSE "files")
              /\ job' = [job EXCEPT !.pc = "undoing"]
         /\ CallCleanup =>
              /\ php'.verb = "cleanup"
              /\ Starts(IF job.kind = "theme" THEN "answer" ELSE "cleanup")
              /\ job' = [job EXCEPT !.pc = "cleaning"]
<1>1. php = Idle /\ job # Idle
  BY IdleIsIdle DEF CallUpdate, CallRollback, CallCleanup, Call, JobAt
<1>2. php' \in PhpRecord \ {Idle} /\ php'.heard
  <2>1. \E verb \in {"update", "rollback", "cleanup"}, ok \in BOOLEAN,
           first \in {"theme", "preflight", "files", "cleanup", "answer"} :
          php' = [pc |-> first, verb |-> verb, heard |-> TRUE, ok |-> ok]
    BY DEF CallUpdate, CallRollback, CallCleanup, Call
  <2>2. PICK verb \in {"update", "rollback", "cleanup"}, ok \in BOOLEAN,
             first \in {"theme", "preflight", "files", "cleanup", "answer"} :
          php' = [pc |-> first, verb |-> verb, heard |-> TRUE, ok |-> ok]
    BY <2>1
  <2>3. [pc |-> first, verb |-> verb, heard |-> TRUE, ok |-> ok] \in PhpRecord \ {Idle}
    BY CallFields DEF UpdateSteps, RollbackSteps
  <2> QED
    BY <2>2, <2>3
<1>3. ASSUME CallUpdate
      PROVE  /\ php'.verb = "update"
             /\ Starts(IF job.kind = "theme" THEN "theme" ELSE "preflight")
             /\ job' = [job EXCEPT !.pc = "updating", !.before = plugin, !.clean = FreshStart]
  BY <1>3 DEF CallUpdate, Call, Starts, Strikes
<1>4. ASSUME CallRollback
      PROVE  /\ php'.verb = "rollback"
             /\ Starts(IF job.kind = "theme" THEN "answer" ELSE "files")
             /\ job' = [job EXCEPT !.pc = "undoing"]
  BY <1>4 DEF CallRollback, Call, JobGo, Starts, Strikes
<1>5. ASSUME CallCleanup
      PROVE  /\ php'.verb = "cleanup"
             /\ Starts(IF job.kind = "theme" THEN "answer" ELSE "cleanup")
             /\ job' = [job EXCEPT !.pc = "cleaning"]
  BY <1>5 DEF CallCleanup, Call, JobGo, Starts, Strikes
<1> QED
  BY <1>1, <1>2, <1>3, <1>4, <1>5

\* A job that has called for an update keeps its kind.
LEMMA UpdateFields ==
  ASSUME TypeOK, CallUpdate
  PROVE  /\ job' # Idle /\ job'.pc = "updating" /\ job'.kind = job.kind
         /\ job'.before = plugin /\ job'.clean = FreshStart
<1>1. job \in JobRecord
  BY CallStarts, JobFields
<1>2. job' = [job EXCEPT !.pc = "updating", !.before = plugin, !.clean = FreshStart]
  BY CallStarts
<1>3. job'.pc = "updating"
  BY <1>1, <1>2 DEF JobRecord
<1> QED
  BY <1>1, <1>2, <1>3 DEF JobRecord, Idle

\* What the other steps of a job may do to it.
LEMMA JobPath ==
  ASSUME TypeOK, JobStep \/ GiveUp \/ Crash, ~(CallUpdate \/ CallRollback \/ CallCleanup)
  PROVE  \/ job' = Idle
         \/ Take /\ php' = php /\ job' # Idle /\ job'.pc = "baseline" /\ ~job'.clean
         \/ CaptureBaseline /\ php' = php /\ job' # Idle /\ job'.pc = "update"
         \/ HearUpdate /\ php.ok /\ job' = [job EXCEPT !.pc = "network"]
         \/ /\ NetworkCheck /\ php' = php
            /\ \E pc \in {"visual", "undo"} : job' = [job EXCEPT !.pc = pc]
         \/ /\ VisualDiff /\ php' = php
            /\ \E pc \in {"log", "undo"} : job' = [job EXCEPT !.pc = pc]
         \/ /\ ScrapeLog /\ php' = php
            /\ \E pc \in {"done", "undo"} : job' = [job EXCEPT !.pc = pc]
         \/ Unheard /\ job' = job
<1>1. CASE HearUpdate \/ HearRollback \/ HearCleanup
  BY <1>1 DEF HearUpdate, HearRollback, HearCleanup, JobGo, JobEnds
<1>2. CASE NetworkCheck \/ VisualDiff \/ ScrapeLog
  BY <1>2 DEF NetworkCheck, VisualDiff, ScrapeLog, Failed, JobGo, JobEnds
<1>3. CASE Take
  BY <1>3 DEF Take, Idle
<1>4. CASE CaptureBaseline
  <2>1. job \in JobRecord
    BY <1>4, IdleIsIdle, JobFields DEF CaptureBaseline, JobAt
  <2>2. job' = Idle \/ job' = [job EXCEPT !.pc = "update", !.base = Installed]
    BY <1>4 DEF CaptureBaseline, JobEnds
  <2>3. [job EXCEPT !.pc = "update", !.base = Installed].pc = "update"
    BY <2>1 DEF JobRecord
  <2> QED
    BY <1>4, <2>2, <2>3 DEF CaptureBaseline, Idle
<1>5. CASE GiveUp \/ Crash \/ Unheard
  BY <1>5 DEF GiveUp, Crash, Unheard, JobEnds
<1> QED
  BY <1>1, <1>2, <1>3, <1>4, <1>5 DEF JobStep

LEMMA CoupledStep == TypeOK /\ Coupled /\ [Next]_vars => Coupled'
<1> SUFFICES ASSUME TypeOK, Coupled, [Next]_vars PROVE Coupled'
  OBVIOUS
<1>1. CASE PhpStep \/ Die
  <2>1. php # Idle /\ php' # Idle /\ php'.verb = php.verb /\ php'.heard = php.heard /\ job' = job
    BY <1>1, PhpMoves
  <2>2. /\ job.pc = "updating" /\ job.kind = "plugin" =>
             php'.pc \in {"answer"} \cup UpdateSteps \cup RollbackSteps \cup {"cleanup"}
        /\ job.pc = "updating" /\ job.kind # "plugin" => php'.pc = "answer"
    BY <1>1, PhpPath DEF Coupled, Awaits, UpdateSteps, RollbackSteps
  <2>3. /\ job.pc = "undoing" =>
             php'.pc \in {"answer"} \cup IF job.kind = "plugin" THEN RollbackSteps ELSE {}
        /\ job.pc = "cleaning" => php'.pc = "answer"
    BY <1>1, PhpPath DEF Coupled, Awaits, RollbackSteps
  <2> QED
    BY <2>1, <2>2, <2>3 DEF Coupled, Awaits
<1>2. CASE CallUpdate
  <2>1. php' # Idle /\ php'.heard /\ php'.verb = "update"
        /\ Starts(IF job.kind = "theme" THEN "theme" ELSE "preflight")
    BY <1>2, CallStarts
  <2>2. job.kind \in {"plugin", "theme"}
    BY <1>2, CallStarts, JobFields DEF JobRecord, Kinds
  <2>3. job'.pc = "updating" /\ job'.kind = job.kind
    BY <1>2, UpdateFields
  <2> QED
    BY <2>1, <2>2, <2>3 DEF Coupled, Awaits, Verifying, UpdateSteps, Starts
<1>3. CASE CallRollback \/ CallCleanup
  <2>0. job # Idle /\ job.kind \in {"plugin", "theme"}
    BY <1>3, CallStarts, JobFields DEF JobRecord, Kinds
  <2>1. php' # Idle /\ php'.heard
    BY <1>3, CallStarts
  <2>2. CASE CallRollback
    <3>1. php'.verb = "rollback"
          /\ Starts(IF job.kind = "theme" THEN "answer" ELSE "files")
      BY <2>2, CallStarts
    <3>2. job'.pc = "undoing" /\ job'.kind = job.kind
      BY <2>0, <2>2, CallStarts, JobFields DEF JobSteps
    <3> QED
      BY <2>0, <2>1, <3>1, <3>2 DEF Coupled, Awaits, Verifying, RollbackSteps, Starts
  <2>3. CASE CallCleanup
    <3>1. php'.verb = "cleanup"
          /\ Starts(IF job.kind = "theme" THEN "answer" ELSE "cleanup")
      BY <2>3, CallStarts
    <3>2. job'.pc = "cleaning" /\ job'.kind = job.kind
      BY <2>0, <2>3, CallStarts, JobFields DEF JobSteps
    <3> QED
      BY <2>0, <2>1, <3>1, <3>2 DEF Coupled, Awaits, Verifying, Starts
  <2> QED
    BY <1>3, <2>2, <2>3
<1>4. CASE /\ JobStep \/ GiveUp \/ Crash
           /\ ~(CallUpdate \/ CallRollback \/ CallCleanup)
  <2>1. CASE job' = Idle
    <3>1. CASE GiveUp \/ Crash
      <4>1. php \in {Idle} \cup PhpRecord
        BY DEF TypeOK
      <4>2. php' = Idle \/ ~php'.heard
        BY <3>1, <4>1 DEF GiveUp, Crash, PhpRecord, Idle
      <4> QED
        BY <2>1, <4>2 DEF Coupled, Verifying, Idle
    <3>2. CASE CaptureBaseline \/ HearUpdate \/ HearRollback \/ HearCleanup \/ Unheard
      BY <2>1, <3>2 DEF CaptureBaseline, HearUpdate, HearRollback, HearCleanup, Unheard, Answered,
         Coupled, Verifying, Idle, JobAt
    <3>3. CASE NetworkCheck \/ VisualDiff \/ ScrapeLog
      BY <2>1, <3>3 DEF NetworkCheck, VisualDiff, ScrapeLog, Coupled, Verifying, Idle, JobAt
    <3>4. CASE Take
      BY <2>1, <3>4 DEF Take, Idle
    <3> QED
      BY <1>4, <3>1, <3>2, <3>3, <3>4 DEF JobStep
  <2>2. CASE Take /\ php' = php /\ job'.pc = "baseline"
    BY <2>2 DEF Take, Coupled, Verifying, Idle
  <2>3. CASE CaptureBaseline /\ php' = php /\ job'.pc = "update"
    BY <2>3 DEF CaptureBaseline, Coupled, Verifying, JobAt
  <2>4. ASSUME HearUpdate \/ NetworkCheck \/ VisualDiff \/ ScrapeLog,
               NEW pc \in Verifying, job' = [job EXCEPT !.pc = pc]
        PROVE  Coupled'
    <3>1. job # Idle
      BY <2>4, IdleIsIdle DEF HearUpdate, NetworkCheck, VisualDiff, ScrapeLog, JobAt, Answered
    <3>2. job'.pc = pc
      BY <2>4, <3>1, JobFields DEF JobSteps, Verifying
    <3>3. php' = Idle
      BY <2>4 DEF HearUpdate, NetworkCheck, VisualDiff, ScrapeLog, JobAt, Answered, Coupled,
         Verifying
    <3> QED
      BY <2>4, <3>2, <3>3 DEF Coupled, Verifying
  <2>5. CASE Unheard /\ job' = job
    BY <2>5 DEF Unheard, Coupled, Awaits
  <2> QED
    BY <1>4, <2>1, <2>2, <2>3, <2>4, <2>5, JobPath DEF Verifying
<1>5. CASE SurroundingsStep
  <2>1. php' = php /\ (job' = job \/ job' = [job EXCEPT !.clean = FALSE])
    BY <1>5 DEF SurroundingsStep, QueueUpdate, Release, UpdateByHand, MigrateLater,
       IsolateByUpdate, Outside, Disturbed
  <2>2. job'.pc = job.pc /\ (job # Idle => job'.kind = job.kind)
    BY <2>1 DEF TypeOK, JobRecord, Idle
  <2> QED
    BY <2>1, <2>2, IdleIsIdle DEF Coupled, Awaits
<1>6. CASE UNCHANGED vars
  BY <1>6 DEF vars, Coupled, Awaits
<1> QED
  BY <1>1, <1>2, <1>3, <1>4, <1>5, <1>6 DEF Next, JobStep

LEMMA CoupledInvariant == Spec => []Coupled
<1>1. Init => Coupled
  BY DEF Init, Coupled, Idle, Verifying
<1> QED
  BY <1>1, CoupledStep, TypeCorrect, PTL DEF Spec

-----------------------------------------------------------------------------
(***************************************************************************)
(* Nothing broken is verified.                                             *)
(***************************************************************************)

\* What a verification has found so far is still so, unless the owner has stepped in.
PassInv ==
  job # Idle /\ (job.clean \/ job.kind = "theme") =>
    /\ job.pc \in {"visual", "log", "done", "cleaning"} => QualityOf(Installed) # "gateway"
    /\ job.pc \in {"log", "done", "cleaning"} => LooksAlike
    /\ job.pc \in {"done", "cleaning"} /\ QualityOf(Installed) = "log" => "lost" \in faults

\* The same job on the same files gets the same results.
LEMMA SameResults ==
  ASSUME site' = site, job'.kind = job.kind, job'.base = job.base,
         theme' = theme, plugin'.code = plugin.code
  PROVE  QualityOf(Installed)' = QualityOf(Installed) /\ LooksAlike' = LooksAlike
BY DEF QualityOf, Installed, Look, LooksAlike

LEMMA PassStep == TypeOK /\ Coupled /\ PassInv /\ [Next]_vars => PassInv'
<1> SUFFICES ASSUME TypeOK, Coupled, PassInv, [Next]_vars PROVE PassInv'
  OBVIOUS
<1>1. CASE PhpStep \/ Die
  <2>1. php # Idle /\ UNCHANGED <<site, job>> /\ faults \subseteq faults'
    BY <1>1, PhpMoves
  <2>2. job.pc \notin {"visual", "log", "done"}
    BY <2>1 DEF Coupled, Verifying
  <2>3. CASE job.pc = "cleaning"
    <3>1. php.pc \in {"cleanup", "answer"}
      BY <2>3 DEF Coupled, Awaits
    <3>2. theme' = theme /\ plugin' = plugin
      BY <1>1, <3>1 DEF PhpStep, PreFlight, SnapshotDbState, Upgrade, MigrationBackup,
         RemoveFiles, RestoreFiles, ImportTables, RestoreOptions, Cleanup, UpgradeTheme, Die, PhpAt
    <3> QED
      BY <2>1, <2>2, <3>2, SameResults DEF PassInv
  <2> QED
    BY <2>1, <2>2, <2>3 DEF PassInv
<1>2. CASE CallUpdate
  BY <1>2, UpdateFields DEF PassInv
<1>3. CASE CallRollback \/ CallCleanup
  <2>0. job # Idle
    BY <1>3, CallStarts
  <2>1. CASE CallRollback
    BY <2>0, <2>1, CallStarts, JobFields DEF PassInv, JobSteps
  <2>2. CASE CallCleanup
    <3>1. /\ job'.pc = "cleaning" /\ job'.kind = job.kind /\ job'.base = job.base
          /\ job'.clean = job.clean /\ job.pc = "done"
      BY <2>0, <2>2, CallStarts, JobFields DEF JobSteps, CallCleanup, JobAt
    <3>2. UNCHANGED <<site, theme, plugin>> /\ faults \subseteq faults'
      BY <2>2, JobMoves DEF JobStep
    <3> QED
      BY <2>0, <3>1, <3>2, SameResults DEF PassInv
  <2> QED
    BY <1>3, <2>1, <2>2
<1>4. CASE /\ JobStep \/ GiveUp \/ Crash
           /\ ~(CallUpdate \/ CallRollback \/ CallCleanup)
  <2>0. UNCHANGED <<site, theme, plugin>> /\ faults \subseteq faults'
    BY <1>4, JobMoves
  <2>1. ASSUME NEW pc \in JobSteps, job' = [job EXCEPT !.pc = pc], job # Idle
        PROVE  /\ job'.pc = pc /\ job'.kind = job.kind /\ job'.clean = job.clean
               /\ QualityOf(Installed)' = QualityOf(Installed) /\ LooksAlike' = LooksAlike
    BY <2>0, <2>1, JobFields, SameResults
  <2>2. CASE job' = Idle
    BY <2>2 DEF PassInv
  <2>3. CASE job'.pc \in {"baseline", "update"}
    BY <2>3 DEF PassInv
  <2>4. CASE HearUpdate /\ job' = [job EXCEPT !.pc = "network"]
    <3>1. job # Idle
      BY <2>4, IdleIsIdle DEF HearUpdate, Answered, JobAt
    <3> QED
      BY <2>1, <2>4, <3>1 DEF PassInv, JobSteps
  <2>5. ASSUME NetworkCheck, NEW pc \in {"visual", "undo"}, job' = [job EXCEPT !.pc = pc]
        PROVE  PassInv'
    <3>1. job # Idle
      BY <2>5, IdleIsIdle DEF NetworkCheck, JobAt
    <3>2. job'.pc = pc
      BY <2>1, <2>5, <3>1 DEF JobSteps
    <3>3. pc = "visual" => QualityOf(Installed) # "gateway"
      <4>1. PICK ok \in Outcomes(QualityOf(Installed) # "gateway") :
              JobGo(IF ok THEN "visual" ELSE "undo")
        BY <2>5 DEF NetworkCheck
      <4>2. job' = [job EXCEPT !.pc = IF ok THEN "visual" ELSE "undo"]
        BY <4>1 DEF JobGo
      <4>3. pc = IF ok THEN "visual" ELSE "undo"
        BY <3>1, <3>2, <4>2, JobFields DEF JobSteps
      <4> QED
        BY <4>1, <4>3 DEF Outcomes
    <3> QED
      BY <2>1, <2>5, <3>1, <3>3 DEF PassInv, JobSteps
  <2>6. ASSUME VisualDiff, NEW pc \in {"log", "undo"}, job' = [job EXCEPT !.pc = pc]
        PROVE  PassInv'
    <3>1. job # Idle /\ job.pc = "visual"
      BY <2>6, IdleIsIdle DEF VisualDiff, JobAt
    <3>2. job'.pc = pc
      BY <2>1, <2>6, <3>1 DEF JobSteps
    <3>3. pc = "log" => LooksAlike
      <4>1. PICK ok \in Outcomes(LooksAlike) : IF ok THEN JobGo("log") ELSE Failed
        BY <2>6 DEF VisualDiff
      <4>2. ~ok => job' = Idle \/ job' = [job EXCEPT !.pc = "undo"]
        BY <4>1 DEF Failed, JobGo, JobEnds
      <4>3. ~ok => job'.pc # "log"
        BY <3>1, <4>2, JobFields DEF JobSteps, Idle
      <4> QED
        BY <3>2, <4>1, <4>3 DEF Outcomes
    <3> QED
      BY <2>1, <2>6, <3>1, <3>3 DEF PassInv, JobSteps
  <2>7. ASSUME ScrapeLog, NEW pc \in {"done", "undo"}, job' = [job EXCEPT !.pc = pc]
        PROVE  PassInv'
    <3>1. job # Idle /\ job.pc = "log"
      BY <2>7, IdleIsIdle DEF ScrapeLog, JobAt
    <3>2. job'.pc = pc
      BY <2>1, <2>7, <3>1 DEF JobSteps
    <3>3. pc = "done" => QualityOf(Installed) # "log" \/ "lost" \in faults'
      <4>1. CASE Strikes("lost")
        BY <4>1 DEF Strikes
      <4>2. CASE \E ok \in Outcomes(QualityOf(Installed) # "log") :
                   IF ok THEN JobGo("done") ELSE Failed
        <5>1. PICK ok \in Outcomes(QualityOf(Installed) # "log") :
                IF ok THEN JobGo("done") ELSE Failed
          BY <4>2
        <5>2. ~ok => job' = Idle \/ job' = [job EXCEPT !.pc = "undo"]
          BY <5>1 DEF Failed, JobGo, JobEnds
        <5>3. ~ok => job'.pc # "done"
          BY <3>1, <5>2, JobFields DEF JobSteps, Idle
        <5> QED
          BY <3>2, <5>1, <5>3 DEF Outcomes
      <4> QED
        BY <2>7, <4>1, <4>2 DEF ScrapeLog
    <3> QED
      BY <2>1, <2>7, <3>1, <3>3 DEF PassInv, JobSteps
  <2>8. CASE job' = job
    BY <2>0, <2>8, SameResults DEF PassInv
  <2> QED
    BY <1>4, <2>2, <2>3, <2>4, <2>5, <2>6, <2>7, <2>8, JobPath
<1>5. CASE SurroundingsStep
  <2>1. UNCHANGED <<site, theme, faults>>
    BY <1>5 DEF SurroundingsStep, QueueUpdate, Release, UpdateByHand, MigrateLater,
       IsolateByUpdate, Outside
  <2>2. CASE job' = job /\ plugin'.code = plugin.code
    BY <2>1, <2>2, SameResults DEF PassInv
  <2>3. CASE UpdateByHand
    <3>1. CASE job = Idle
      BY <2>3, <3>1 DEF UpdateByHand, Disturbed, PassInv
    <3>2. CASE job # Idle
      <4>1. /\ job'.pc = job.pc /\ job'.kind = job.kind /\ job'.base = job.base /\ ~job'.clean
        BY <2>3, <3>2, JobFields DEF UpdateByHand, Disturbed, JobRecord
      <4>2. CASE job.kind = "theme"
        BY <2>1, <3>2, <4>1, <4>2 DEF PassInv, LooksAlike, Look, QualityOf, Installed
      <4> QED
        BY <4>1, <4>2 DEF PassInv
    <3> QED
      BY <3>1, <3>2
  <2>4. CASE MigrateLater
    BY <2>2, <2>4 DEF MigrateLater, TypeOK, PluginState
  <2> QED
    BY <1>5, <2>2, <2>3, <2>4 DEF SurroundingsStep, QueueUpdate, Release, IsolateByUpdate
<1>6. CASE UNCHANGED vars
  BY <1>6, SameResults DEF vars, PassInv
<1> QED
  BY <1>1, <1>2, <1>3, <1>4, <1>5, <1>6 DEF Next, JobStep

\* No update passes with a page that does not answer, looks different or logs a fatal error,
\* unless its log could not be read, or the owner changed the plugin under way.
THEOREM BrokenNeverPasses == Spec => []NothingBrokenPasses
<1>1. Init => PassInv
  BY DEF Init, PassInv
<1>2. PassInv => NothingBrokenPasses
  BY DEF PassInv, NothingBrokenPasses, Idle
<1> QED
  BY <1>1, <1>2, PassStep, CoupledInvariant, TypeCorrect, PTL DEF Spec

-----------------------------------------------------------------------------
(***************************************************************************)
(* What the site keeps.                                                    *)
(***************************************************************************)
NoLeftovers == kept.targeted = None /\ kept.prealter = None /\ kept.ledger = None

\* Something is kept of an update: it has been made, and is neither undone nor verified yet.
Updated ==
  /\ job # Idle /\ job.kind = "plugin"
  /\ \/ job.pc \in Verifying
     \/ job.pc = "updating" /\ php.pc = "backup"
     \/ job.pc = "updating" /\ php.pc = "answer" /\ php.ok
     \/ job.pc = "undoing" /\ php.pc \in {"files", "restore", "tables"}
     \/ job.pc = "undoing" /\ php.pc = "options" /\ kept.targeted = None /\ kept.prealter = None
     \/ job.pc = "cleaning" /\ php.pc = "cleanup"

\* As long as nothing has gone wrong, an update's leftovers are gone before the next one.
Tidy ==
  faults = {} =>
    /\ job.pc \in {"idle", "baseline", "update"} => php = Idle
    /\ NoLeftovers \/ Updated

\* A call that nobody has given up is carried out for the job that waits for it.
LEMMA CallsJob ==
  ASSUME TypeOK, Coupled, php # Idle, job.pc \in {"idle", "baseline", "update"} => php = Idle
  PROVE  /\ job # Idle /\ job.pc \in {"updating", "undoing", "cleaning"} /\ php.heard
         /\ job.kind # "plugin" => php.pc \in {"theme", "answer"}
<1>1. job \in {Idle} \cup JobRecord
  BY DEF TypeOK
<1>2. job.pc \in {"idle"} \cup JobSteps
  BY <1>1 DEF JobRecord, Idle
<1>3. job.pc \in {"updating", "undoing", "cleaning"}
  BY <1>2 DEF Coupled, Verifying, JobSteps
<1> QED
  BY <1>3, IdleIsIdle DEF Coupled, Awaits

LEMMA TidyPhp ==
  ASSUME TypeOK, Coupled, faults' = {}, NoLeftovers \/ Updated, PhpStep \/ Die,
         job.pc \in {"idle", "baseline", "update"} => php = Idle
  PROVE  /\ job'.pc \notin {"idle", "baseline", "update"}
         /\ NoLeftovers' \/ Updated'
<1> USE DEF PhpAt
<1>1. php # Idle /\ job' = job
  BY PhpMoves
<1>2. /\ job # Idle /\ job.pc \in {"updating", "undoing", "cleaning"}
      /\ job.kind # "plugin" => php.pc \in {"theme", "answer"}
  BY <1>1, CallsJob
<1>3. kept \in Kept
  BY DEF TypeOK
<1>4. php.pc \in {"preflight", "snapshot", "upgrade", "theme"} => NoLeftovers
  BY <1>2 DEF Updated, Verifying
<1>5. job.pc = "updating" /\ php.pc # "backup" /\ php.pc # "answer" => NoLeftovers
  BY DEF Updated, Verifying
<1>6. /\ php.pc = "backup" => job.pc = "updating"
      /\ php.pc \in {"files", "restore", "tables", "options"} => job.pc \in {"updating", "undoing"}
  BY <1>2 DEF Coupled, Awaits, UpdateSteps, RollbackSteps
<1> DEFINE Goal == NoLeftovers' \/ Updated'
<1>7. ASSUME PreFlight \/ SnapshotDbState \/ UpgradeTheme PROVE Goal
  BY <1>3, <1>4, <1>7 DEF PreFlight, SnapshotDbState, UpgradeTheme, NoLeftovers, Kept
<1>8. ASSUME Upgrade PROVE Goal
  <2>1. php.pc = "upgrade" /\ (php'.pc = "backup" \/ kept' = kept)
    BY <1>1, <1>8, PhpFields DEF Upgrade, UpdateSteps
  <2>2. php'.pc = "backup" => Updated'
    BY <1>1, <1>2, <2>1 DEF Updated, Coupled, Awaits, RollbackSteps
  <2> QED
    BY <1>4, <2>1, <2>2 DEF NoLeftovers
<1>9. ASSUME MigrationBackup PROVE Goal
  <2>1. php.pc = "backup" /\ php'.pc = "answer" /\ php'.ok
    BY <1>1, <1>9, PhpFields DEF MigrationBackup
  <2> QED
    BY <1>1, <1>2, <1>6, <2>1 DEF Updated
<1>10. ASSUME RemoveFiles \/ RestoreFiles PROVE Goal
  <2>1. /\ php.pc \in {"files", "restore"} /\ php'.pc \in {"restore", "tables"}
        /\ kept'.targeted = kept.targeted /\ kept'.prealter = kept.prealter
        /\ kept'.ledger = kept.ledger
    BY <1>1, <1>3, <1>10, PhpFields DEF RemoveFiles, RestoreFiles, RollbackSteps, Kept
  <2>2. job.pc = "undoing" => Updated'
    BY <1>1, <1>2, <2>1 DEF Updated
  <2> QED
    BY <1>5, <1>6, <2>1, <2>2 DEF NoLeftovers
<1>11. ASSUME ImportTables PROVE Goal
  <2>1. /\ php.pc = "tables" /\ php'.pc = "options" /\ kept'.ledger = kept.ledger
        /\ kept'.targeted = None /\ kept'.prealter = None
    BY <1>1, <1>3, <1>11, PhpFields DEF ImportTables, RollbackSteps, Kept
  <2>2. job.pc = "undoing" => Updated'
    BY <1>1, <1>2, <2>1 DEF Updated
  <2> QED
    BY <1>5, <1>6, <2>1, <2>2 DEF NoLeftovers
<1>12. ASSUME RestoreOptions PROVE Goal
  <2>1. /\ php.pc = "options" /\ kept'.ledger = None
        /\ kept'.targeted = kept.targeted /\ kept'.prealter = kept.prealter
    BY <1>3, <1>12 DEF RestoreOptions, Kept
  <2>2. kept.targeted = None /\ kept.prealter = None
    BY <1>2, <2>1 DEF Updated, Verifying, NoLeftovers
  <2> QED
    BY <2>1, <2>2 DEF NoLeftovers
<1>13. ASSUME Cleanup PROVE Goal
  BY <1>13 DEF Cleanup, NothingKept, NoLeftovers
<1>14. ~Die
  BY DEF Die, Strikes
<1> QED
  BY <1>1, <1>2, <1>7, <1>8, <1>9, <1>10, <1>11, <1>12, <1>13, <1>14 DEF PhpStep

LEMMA TidyStep == TypeOK /\ Coupled /\ Tidy /\ [Next]_vars => Tidy'
<1> SUFFICES ASSUME TypeOK, Coupled, Tidy, [Next]_vars, faults' = {}
    PROVE  /\ job'.pc \in {"idle", "baseline", "update"} => php' = Idle
           /\ NoLeftovers' \/ Updated'
  BY DEF Tidy
<1>0. faults = {}
  <2>1. ASSUME SurroundingsStep PROVE faults' = faults
    BY <2>1 DEF SurroundingsStep, QueueUpdate, Release, UpdateByHand, MigrateLater,
       IsolateByUpdate, Outside
  <2>2. faults \subseteq faults'
    BY <2>1, PhpMoves, JobMoves DEF Next, vars
  <2> QED
    BY <2>2
<1>1. /\ job.pc \in {"idle", "baseline", "update"} => php = Idle
      /\ NoLeftovers \/ Updated
  BY <1>0 DEF Tidy
<1>2. CASE PhpStep \/ Die
  BY <1>1, <1>2, TidyPhp
<1>3. CASE CallUpdate \/ CallRollback \/ CallCleanup
  <2>1. /\ job # Idle /\ job \in JobRecord
        /\ "lost" \notin faults'
    BY <1>3, CallStarts, JobFields
  <2>2. kept' = kept
    BY <1>3, JobMoves DEF JobStep
  <2>3. CASE CallUpdate
    <3>1. job'.pc = "updating" /\ job.pc = "update"
      BY <2>3, UpdateFields DEF CallUpdate, JobAt
    <3> QED
      BY <1>1, <2>2, <3>1 DEF NoLeftovers, Updated, Verifying
  <2>4. CASE CallRollback
    <3>1. job'.pc = "undoing" /\ job'.kind = job.kind /\ job' # Idle /\ job.pc = "undo"
      BY <2>1, <2>4, CallStarts, JobFields DEF JobSteps, CallRollback, JobAt
    <3>2. job.kind # "theme" => php'.pc = "files"
      BY <2>1, <2>4, CallStarts DEF Starts
    <3> QED
      BY <1>1, <2>2, <3>1, <3>2 DEF NoLeftovers, Updated
  <2>5. CASE CallCleanup
    <3>1. job'.pc = "cleaning" /\ job'.kind = job.kind /\ job' # Idle /\ job.pc = "done"
      BY <2>1, <2>5, CallStarts, JobFields DEF JobSteps, CallCleanup, JobAt
    <3>2. job.kind # "theme" => php'.pc = "cleanup"
      BY <2>1, <2>5, CallStarts DEF Starts
    <3> QED
      BY <1>1, <2>2, <3>1, <3>2 DEF NoLeftovers, Updated
  <2> QED
    BY <1>3, <2>3, <2>4, <2>5
<1>4. CASE /\ JobStep \/ GiveUp \/ Crash
           /\ ~(CallUpdate \/ CallRollback \/ CallCleanup)
  <2>0. kept' = kept
    BY <1>4, JobMoves
  <2>1. ~GiveUp /\ ~Crash
    BY DEF GiveUp, Crash, Strikes
  <2>2. ~Unheard
    BY <1>1, CallsJob, IdleIsIdle DEF Unheard, PhpAt, Idle
  <2>3. CASE job' = Idle
    <3>1. php' = Idle
      BY <1>1, <1>4, <2>1, <2>2, <2>3, IdleIsIdle DEF JobStep, Take, CaptureBaseline, HearUpdate,
         NetworkCheck, VisualDiff, ScrapeLog, HearRollback, HearCleanup, Answered, JobAt, Coupled,
         Verifying
    <3>2. ~Updated
      <4>1. CASE CaptureBaseline \/ Take
        BY <2>3, <4>1 DEF CaptureBaseline, Take, JobAt, Updated, Verifying, Idle
      <4>2. CASE HearUpdate
        <5>1. ~php.ok
          <6> SUFFICES ASSUME php.ok PROVE FALSE
            OBVIOUS
          <6>1. job # Idle /\ job' = [job EXCEPT !.pc = "network"]
            BY <4>2, IdleIsIdle DEF HearUpdate, Answered, JobAt, JobGo
          <6> QED
            BY <2>3, <6>1, JobFields DEF JobSteps
        <5> QED
          BY <4>2, <5>1 DEF HearUpdate, Answered, JobAt, PhpAt, Updated, Verifying
      <4>3. CASE HearRollback \/ HearCleanup
        BY <4>3 DEF HearRollback, HearCleanup, Answered, JobAt, PhpAt, Updated, Verifying
      <4>4. CASE NetworkCheck \/ VisualDiff \/ ScrapeLog
        <5>1. job # Idle
          BY <4>4, IdleIsIdle DEF NetworkCheck, VisualDiff, ScrapeLog, JobAt
        <5>2. \A pc \in JobSteps : ~JobGo(pc)
          BY <2>3, <5>1, JobFields DEF JobGo
        <5>3. job.kind = "theme"
          BY <4>4, <5>2 DEF NetworkCheck, VisualDiff, ScrapeLog, Failed, JobSteps
        <5> QED
          BY <5>3 DEF Updated
      <4> QED
        BY <1>4, <2>1, <2>2, <4>1, <4>2, <4>3, <4>4 DEF JobStep
    <3> QED
      BY <1>1, <2>0, <3>1, <3>2 DEF NoLeftovers
  <2>4. CASE Take /\ php' = php /\ job'.pc = "baseline"
    <3>1. php' = Idle /\ ~Updated
      BY <1>1, <2>4, IdleIsIdle DEF Take, Updated
    <3> QED
      BY <1>1, <2>0, <3>1 DEF NoLeftovers
  <2>5. CASE CaptureBaseline /\ php' = php /\ job'.pc = "update"
    <3>1. php' = Idle /\ ~Updated
      BY <1>1, <2>5 DEF CaptureBaseline, JobAt, Updated, Verifying
    <3> QED
      BY <1>1, <2>0, <3>1 DEF NoLeftovers
  <2>6. ASSUME HearUpdate \/ NetworkCheck \/ VisualDiff \/ ScrapeLog,
               NEW pc \in Verifying, job' = [job EXCEPT !.pc = pc]
        PROVE  /\ job'.pc \in {"idle", "baseline", "update"} => php' = Idle
               /\ NoLeftovers' \/ Updated'
    <3>1. job # Idle
      BY <2>6, IdleIsIdle DEF HearUpdate, NetworkCheck, VisualDiff, ScrapeLog, JobAt, Answered
    <3>2. job'.pc = pc /\ job'.kind = job.kind /\ job' # Idle
      BY <2>6, <3>1, JobFields DEF JobSteps, Verifying
    <3> QED
      BY <1>1, <2>0, <3>2 DEF NoLeftovers, Updated, Verifying
  <2> QED
    BY <1>4, <2>2, <2>3, <2>4, <2>5, <2>6, JobPath DEF Verifying
<1>5. CASE SurroundingsStep
  <2>1. /\ UNCHANGED <<php, kept>>
        /\ \/ job' = job
           \/ job # Idle /\ job' = [job EXCEPT !.clean = FALSE]
    <3>1. CASE UpdateByHand
      BY <3>1 DEF UpdateByHand, Outside, Disturbed
    <3> QED
      BY <1>5, <3>1 DEF SurroundingsStep, QueueUpdate, Release, MigrateLater, IsolateByUpdate,
         Outside
  <2>2. /\ job'.pc = job.pc
        /\ job # Idle => job'.kind = job.kind /\ job' # Idle
    BY <2>1, JobFields DEF JobRecord, Idle
  <2> QED
    BY <1>1, <2>1, <2>2 DEF NoLeftovers, Updated
<1>6. CASE UNCHANGED vars
  BY <1>1, <1>6 DEF vars, NoLeftovers, Updated
<1> QED
  BY <1>2, <1>3, <1>4, <1>5, <1>6 DEF Next, JobStep

LEMMA TidyInvariant == Spec => []Tidy
<1>1. Init => Tidy
  BY DEF Init, Tidy, NoLeftovers, NothingKept
<1> QED
  BY <1>1, TidyStep, CoupledInvariant, TypeCorrect, PTL DEF Spec

-----------------------------------------------------------------------------
(***************************************************************************)
(* The way back.                                                           *)
(***************************************************************************)

\* The job of an update that started on a tidy site and that nobody has meddled with.
Undisturbed == job # Idle /\ job.kind = "plugin" /\ job.clean

HasWay ==
  /\ job.before.code # None
  /\ job.before.code = IF kept.url # None THEN kept.url ELSE kept.dir
OptionsKept == kept.options = job.before.options /\ kept.ledger \in {None, job.before.options}
Reversible == site.migration \in {"none", "dbdelta"}
TablesKept == Reversible => Imported = job.before.schema
AllKept == HasWay /\ OptionsKept /\ TablesKept

FilesBack == plugin.code = job.before.code
OptionsBack == plugin.options = job.before.options
TablesBack == Reversible => plugin.schema = job.before.schema
AllBack == FilesBack /\ OptionsBack /\ TablesBack

FilesFailed == faults \cap {"download", "rename"} # {}

\* Where such an update is: first nothing has changed, then all is kept, and if it failed the
\* site has gone back on its own, unless a download or a rename failed, or an answer or the
\* request was lost.
UpdateInv ==
  /\ php.pc \in {"preflight", "snapshot", "upgrade"} => plugin = job.before /\ NoLeftovers
  /\ php.pc = "preflight" => kept.url \in {None, job.before.code}
  /\ php.pc \in {"snapshot", "upgrade"} => HasWay
  /\ php.pc = "upgrade" => kept.options = job.before.options
  /\ php.pc = "backup" => AllKept /\ kept.targeted = None
  /\ php.pc \in {"tables", "options", "cleanup"} /\ ~php.ok => FilesFailed
  /\ php.pc = "cleanup" => (php.ok => FilesBack) /\ OptionsBack /\ TablesBack
  /\ php.pc = "answer" /\ php.ok => AllKept
  /\ php.pc = "answer" /\ ~php.ok /\ NothingLost => AllBack

\* Where a rollback is, the update's own or one that is called for: what is not back is kept.
RollbackInv ==
  /\ php.pc \in {"files", "restore"} => AllKept
  /\ php.pc = "tables" => (php.ok => FilesBack) /\ OptionsKept /\ TablesKept
  /\ php.pc = "options" => (php.ok => FilesBack) /\ OptionsKept /\ TablesBack

WayInv ==
  Undisturbed =>
    /\ job.pc = "updating" => UpdateInv /\ RollbackInv
    /\ job.pc \in {"network", "visual", "log", "undo"} => AllKept
    /\ job.pc = "undoing" => RollbackInv /\ (php.pc = "answer" /\ php.ok => AllBack)

\* A rollback goes one step on.
LEMMA RollbackStep ==
  ASSUME TypeOK, job # Idle, RollbackInv, UNCHANGED <<site, job>>,
         RemoveFiles \/ RestoreFiles \/ ImportTables \/ RestoreOptions
  PROVE  /\ RollbackInv'
         /\ php'.pc = "tables" /\ ~php'.ok => FilesFailed'
         /\ ImportTables \/ RestoreOptions => php'.ok = php.ok /\ faults' = faults
         /\ RestoreOptions => (php'.ok => FilesBack') /\ OptionsBack' /\ TablesBack'
<1> USE DEF PhpAt
<1>0. php # Idle /\ kept \in Kept /\ plugin \in PluginState
  BY PhpMoves DEF PhpStep, TypeOK
<1>1. CASE RemoveFiles
  <2>1. php.pc = "files" /\ AllKept
    BY <1>1 DEF RemoveFiles, RollbackInv
  <2>2. kept' = kept /\ (kept.url # None \/ kept.dir # None)
    BY <1>1, <2>1 DEF RemoveFiles, AllKept, HasWay
  <2>3. php'.pc = "restore" /\ plugin'.schema = plugin.schema
    BY <1>0, <1>1, <2>2, PhpFields DEF RemoveFiles, RollbackSteps, PluginState
  <2>4. AllKept'
    BY <2>1, <2>2, <2>3 DEF AllKept, HasWay, OptionsKept, TablesKept, Reversible, Imported
  <2> QED
    BY <1>1, <2>1, <2>3, <2>4 DEF RollbackInv, ImportTables, RestoreOptions
<1>2. CASE RestoreFiles
  <2>1. php.pc = "restore" /\ AllKept
    BY <1>2 DEF RestoreFiles, RollbackInv
  <2>2. /\ php'.pc = "tables" /\ plugin'.schema = plugin.schema
        /\ kept'.options = kept.options /\ kept'.ledger = kept.ledger
        /\ kept'.prealter = kept.prealter /\ kept'.targeted = kept.targeted
        /\ php'.ok => plugin'.code = IF kept.url # None THEN kept.url ELSE kept.dir
        /\ ~php'.ok => FilesFailed'
    BY <1>0, <1>2, PhpFields DEF RestoreFiles, RollbackSteps, PluginState, Kept, Strikes,
       FilesFailed
  <2>3. OptionsKept' /\ TablesKept' /\ (php'.ok => FilesBack')
    BY <2>1, <2>2 DEF AllKept, HasWay, OptionsKept, TablesKept, FilesBack, Reversible, Imported
  <2> QED
    BY <1>2, <2>1, <2>2, <2>3 DEF RollbackInv, ImportTables, RestoreOptions
<1>3. CASE ImportTables
  <2>1. php.pc = "tables" /\ (php.ok => FilesBack) /\ OptionsKept /\ TablesKept
    BY <1>3 DEF ImportTables, RollbackInv
  <2>2. /\ php'.pc = "options" /\ php'.ok = php.ok
        /\ plugin'.schema = Imported /\ plugin'.code = plugin.code
        /\ kept'.options = kept.options /\ kept'.ledger = kept.ledger
    BY <1>0, <1>3, PhpFields DEF ImportTables, RollbackSteps, PluginState, Kept
  <2>3. OptionsKept' /\ TablesBack' /\ (php'.ok => FilesBack')
    BY <2>1, <2>2 DEF OptionsKept, TablesKept, TablesBack, FilesBack, Reversible
  <2> QED
    BY <1>3, <2>1, <2>2, <2>3 DEF RollbackInv, ImportTables, RestoreOptions
<1>4. CASE RestoreOptions
  <2>1. php.pc = "options" /\ (php.ok => FilesBack) /\ OptionsKept /\ TablesBack
    BY <1>4 DEF RestoreOptions, RollbackInv
  <2>2. /\ php'.pc \in {"cleanup", "answer"} /\ php'.ok = php.ok
        /\ plugin'.schema = plugin.schema /\ plugin'.code = plugin.code
    BY <1>0, <1>4, PhpFields DEF RestoreOptions, PluginState
  <2>3. plugin'.options = IF kept.ledger # None THEN kept.ledger
                          ELSE IF kept.options # None THEN kept.options ELSE plugin.options
    BY <1>0, <1>4 DEF RestoreOptions, PluginState
  <2>4. job.before.options # None
    BY JobFields DEF JobRecord, PluginState, Versions
  <2>5. (php'.ok => FilesBack') /\ OptionsBack' /\ TablesBack'
    BY <2>1, <2>2, <2>3, <2>4 DEF OptionsKept, TablesBack, FilesBack, OptionsBack, Reversible
  <2> QED
    BY <1>4, <2>1, <2>2, <2>5 DEF RollbackInv, ImportTables, RestoreOptions
<1> QED
  BY <1>1, <1>2, <1>3, <1>4

\* An update goes one step on.
LEMMA UpdateStep ==
  ASSUME TypeOK, Coupled, Undisturbed, job.pc = "updating", UpdateInv, RollbackInv, PhpStep \/ Die
  PROVE  UpdateInv' /\ RollbackInv'
<1> USE DEF PhpAt
<1>0. /\ php # Idle /\ kept \in Kept /\ plugin \in PluginState /\ job \in JobRecord
      /\ UNCHANGED <<site, job, latest>> /\ php.verb = "update" /\ php.pc # "theme"
  BY PhpMoves, JobFields DEF TypeOK, Undisturbed, Coupled, Awaits, UpdateSteps, RollbackSteps
<1>1. /\ job.before \in PluginState /\ job.before.schema # None /\ job.before.options # None
      /\ job.before.schema \in Versions /\ job.before.options \in Versions
  BY <1>0 DEF JobRecord, PluginState, Versions
<1>2. CASE PreFlight
  <2>1. plugin = job.before /\ NoLeftovers /\ kept.url \in {None, job.before.code}
    BY <1>2 DEF PreFlight, UpdateInv
  <2>2. CASE PhpAnswers(FALSE) /\ plugin' = plugin
    <3>1. php'.pc = "answer" /\ ~php'.ok
      BY <1>0, <2>2, PhpFields
    <3>2. AllBack'
      BY <1>0, <2>1, <2>2 DEF AllBack, FilesBack, OptionsBack, TablesBack
    <3> QED
      BY <3>1, <3>2 DEF UpdateInv, RollbackInv
  <2>3. CASE /\ plugin.code # None /\ PhpGo("snapshot") /\ plugin' = plugin
             /\ \/ kept' = [kept EXCEPT !.url = plugin.code]
                \/ kept' = [kept EXCEPT !.dir = plugin.code]
    <3>1. php'.pc = "snapshot"
      BY <1>0, <2>3, PhpFields DEF UpdateSteps
    <3>2. NoLeftovers' /\ HasWay'
      BY <1>0, <2>1, <2>3 DEF NoLeftovers, HasWay, Kept
    <3>3. plugin' = job'.before
      BY <1>0, <2>1, <2>3
    <3> QED
      BY <3>1, <3>2, <3>3 DEF UpdateInv, RollbackInv
  <2> QED
    BY <1>2, <2>2, <2>3 DEF PreFlight
<1>3. CASE SnapshotDbState
  <2>1. plugin = job.before /\ NoLeftovers /\ HasWay /\ plugin' = plugin
    BY <1>3 DEF SnapshotDbState, UpdateInv
  <2>2. php'.pc = "upgrade"
    BY <1>0, <1>3, PhpFields DEF SnapshotDbState, UpdateSteps
  <2>3. /\ kept'.options = plugin.options /\ kept'.url = kept.url /\ kept'.dir = kept.dir
        /\ kept'.targeted = kept.targeted /\ kept'.prealter = kept.prealter
        /\ kept'.ledger = kept.ledger
    BY <1>0, <1>3 DEF SnapshotDbState, Kept
  <2> QED
    BY <1>0, <2>1, <2>2, <2>3 DEF UpdateInv, RollbackInv, NoLeftovers, HasWay
<1>4. CASE Upgrade
  <2>1. /\ plugin = job.before /\ NoLeftovers /\ HasWay /\ kept.options = job.before.options
    BY <1>4 DEF Upgrade, UpdateInv
  <2>2. CASE /\ plugin' = Upgraded /\ PhpGo("backup")
             /\ kept' = CASE site.migration = "dbdelta" -> InterceptOption(InterceptTable)
                          [] site.migration = "direct"  -> InterceptOption(kept)
                          [] OTHER -> kept
    <3>1. php'.pc = "backup"
      BY <1>0, <2>2, PhpFields DEF UpdateSteps
    <3>2. /\ kept'.url = kept.url /\ kept'.dir = kept.dir /\ kept'.options = kept.options
          /\ kept'.targeted = None /\ kept'.ledger \in {None, plugin.options}
          /\ site.migration = "dbdelta" => kept'.prealter = plugin.schema
          /\ site.migration = "none" => kept'.prealter = None
      <4>1. CASE site.migration = "dbdelta"
        BY <1>0, <2>1, <2>2, <4>1 DEF InterceptOption, InterceptTable, Kept, NoLeftovers
      <4>2. CASE site.migration = "direct"
        BY <1>0, <2>1, <2>2, <4>2 DEF InterceptOption, Kept, NoLeftovers
      <4>3. CASE site.migration \notin {"dbdelta", "direct"}
        BY <1>0, <2>1, <2>2, <4>3 DEF NoLeftovers
      <4> QED
        BY <4>1, <4>2, <4>3
    <3>3. site.migration = "none" => plugin'.schema = plugin.schema
      BY <2>2 DEF Upgraded
    <3>4. AllKept'
      BY <1>0, <1>1, <2>1, <3>2, <3>3 DEF AllKept, HasWay, OptionsKept, TablesKept, Reversible,
         Imported
    <3> QED
      BY <3>1, <3>2, <3>4 DEF UpdateInv, RollbackInv
  <2>3. CASE /\ PhpGo("files") /\ kept' = kept
             /\ \/ plugin' = plugin
                \/ \E c \in {plugin.code, None} : plugin' = [plugin EXCEPT !.code = c]
    <3>1. php'.pc = "files"
      BY <1>0, <2>3, PhpFields DEF RollbackSteps
    <3>2. plugin'.schema = plugin.schema
      BY <1>0, <2>3 DEF PluginState
    <3>3. AllKept'
      BY <1>0, <2>1, <2>3, <3>2 DEF AllKept, HasWay, OptionsKept, TablesKept, NoLeftovers,
         Imported
    <3> QED
      BY <3>1, <3>3 DEF UpdateInv, RollbackInv
  <2> QED
    BY <1>4, <2>2, <2>3 DEF Upgrade
<1>5. CASE MigrationBackup
  <2>1. AllKept /\ kept.targeted = None
    BY <1>5 DEF MigrationBackup, UpdateInv
  <2>2. /\ php'.pc = "answer" /\ php'.ok /\ plugin' = plugin
    BY <1>0, <1>5, PhpFields DEF MigrationBackup
  <2>3. /\ kept'.url = kept.url /\ kept'.dir = kept.dir /\ kept'.options = kept.options
        /\ kept'.ledger = kept.ledger /\ kept'.prealter = kept.prealter
        /\ kept'.targeted \in {None, plugin.schema}
    BY <1>0, <1>5, <2>1 DEF MigrationBackup, Kept
  <2>4. AllKept'
    BY <1>0, <2>1, <2>2, <2>3 DEF AllKept, HasWay, OptionsKept, TablesKept, Reversible, Imported
  <2> QED
    BY <2>2, <2>4 DEF UpdateInv, RollbackInv
<1>6. CASE RemoveFiles \/ RestoreFiles \/ ImportTables
  <2>1. job # Idle
    BY DEF Undisturbed
  <2>2. /\ RollbackInv'
        /\ php'.pc = "tables" /\ ~php'.ok => FilesFailed'
        /\ ImportTables => php'.ok = php.ok /\ faults' = faults
    BY <1>0, <1>6, <2>1, RollbackStep
  <2>3. \/ php'.pc \in {"restore", "tables"} /\ ~ImportTables
        \/ php'.pc = "options" /\ ImportTables /\ php.pc = "tables"
    BY <1>0, <1>6, PhpFields DEF RemoveFiles, RestoreFiles, ImportTables, RollbackSteps
  <2> QED
    BY <2>2, <2>3 DEF UpdateInv, FilesFailed
<1>7. CASE RestoreOptions
  <2>1. job # Idle
    BY DEF Undisturbed
  <2>2. /\ RollbackInv' /\ php'.ok = php.ok /\ faults' = faults
        /\ (php'.ok => FilesBack') /\ OptionsBack' /\ TablesBack'
    BY <1>0, <1>7, <2>1, RollbackStep
  <2>3. php.pc = "options" /\ php'.pc = "cleanup"
    BY <1>0, <1>7, PhpFields DEF RestoreOptions
  <2> QED
    BY <2>2, <2>3 DEF UpdateInv, FilesFailed
<1>8. CASE Cleanup
  <2>1. php'.pc = "answer" /\ ~php'.ok
    BY <1>0, <1>8, PhpFields DEF Cleanup
  <2>2. /\ php.pc = "cleanup" /\ plugin' = plugin /\ faults' = faults
    BY <1>8 DEF Cleanup
  <2>3. NothingLost' => AllBack'
    BY <1>0, <2>2 DEF UpdateInv, NothingLost, FilesFailed, AllBack, FilesBack,
       OptionsBack, TablesBack, Reversible
  <2> QED
    BY <2>1, <2>3 DEF UpdateInv, RollbackInv
<1>9. CASE Die
  <2>1. php'.pc = "answer" /\ ~php'.ok /\ "died" \in faults'
    BY <1>0, <1>9, PhpFields DEF Die, Strikes
  <2> QED
    BY <2>1 DEF UpdateInv, RollbackInv, NothingLost
<1>10. ~UpgradeTheme
  BY <1>0 DEF UpgradeTheme
<1> QED
  BY <1>2, <1>3, <1>4, <1>5, <1>6, <1>7, <1>8, <1>9, <1>10 DEF PhpStep

LEMMA WayStep == TypeOK /\ Coupled /\ Tidy /\ WayInv /\ [Next]_vars => WayInv'
<1> SUFFICES ASSUME TypeOK, Coupled, Tidy, WayInv, [Next]_vars PROVE WayInv'
  OBVIOUS
<1>0. ASSUME UNCHANGED <<site, plugin, kept>>, job'.before = job.before
      PROVE  AllKept' = AllKept /\ AllBack' = AllBack
  BY <1>0 DEF AllKept, HasWay, OptionsKept, TablesKept, Imported, AllBack, FilesBack, OptionsBack,
     TablesBack, Reversible
<1>1. CASE PhpStep \/ Die
  <2>0. php # Idle /\ UNCHANGED <<site, job>>
    BY <1>1, PhpMoves
  <2>1. CASE Undisturbed /\ job.pc = "updating"
    BY <1>1, <2>0, <2>1, UpdateStep DEF WayInv, Undisturbed
  <2>2. CASE Undisturbed /\ job.pc = "undoing"
    <3>1. RollbackInv /\ job # Idle /\ php.pc \in RollbackSteps \cup {"answer"}
          /\ php.verb = "rollback"
      BY <2>2 DEF WayInv, Coupled, Awaits, Undisturbed
    <3>2. CASE RemoveFiles \/ RestoreFiles \/ ImportTables
      <4>1. RollbackInv'
        BY <2>0, <3>1, <3>2, RollbackStep
      <4>2. php'.pc # "answer"
        <5>1. RemoveFiles => php'.pc \in {"restore", "tables"}
          BY <2>0, PhpFields DEF RemoveFiles, RollbackSteps
        <5>2. RestoreFiles => php'.pc = "tables"
          BY <2>0, PhpFields DEF RestoreFiles, RollbackSteps
        <5>3. ImportTables => php'.pc = "options"
          BY <2>0, PhpFields DEF ImportTables, RollbackSteps
        <5> QED
          BY <3>2, <5>1, <5>2, <5>3
      <4> QED
        BY <2>0, <2>2, <4>1, <4>2 DEF WayInv
    <3>3. CASE RestoreOptions
      BY <2>0, <2>2, <3>1, <3>3, RollbackStep DEF WayInv, AllBack
    <3>4. CASE Die
      BY <2>0, <2>2, <3>4, PhpFields DEF Die, WayInv, RollbackInv
    <3> QED
      BY <1>1, <3>1, <3>2, <3>3, <3>4 DEF PhpStep, PreFlight, SnapshotDbState, Upgrade,
         MigrationBackup, Cleanup, UpgradeTheme, PhpAt, RollbackSteps
  <2>3. job.pc \notin {"network", "visual", "log", "undo"}
    BY <2>0 DEF Coupled, Verifying
  <2> QED
    BY <2>0, <2>1, <2>2, <2>3 DEF WayInv, Undisturbed
<1>2. CASE CallUpdate
  <2>1. job'.pc = "updating" /\ job'.before = plugin /\ job'.clean = FreshStart
    BY <1>2, UpdateFields
  <2>2. SUFFICES ASSUME job'.kind = "plugin", FreshStart PROVE UpdateInv' /\ RollbackInv'
    BY <2>1 DEF WayInv, Undisturbed
  <2>3. /\ job # Idle /\ job.kind = "plugin"
        /\ Starts("preflight")
    BY <1>2, <2>2, CallStarts, UpdateFields
  <2>4. UNCHANGED <<site, plugin, kept>>
    BY <1>2, JobMoves DEF JobStep
  <2>5. NoLeftovers
    BY <1>2, <2>2 DEF CallUpdate, JobAt, FreshStart, Tidy, Updated, Verifying
  <2>6. CASE php'.pc = "preflight"
    BY <2>1, <2>2, <2>4, <2>5, <2>6 DEF FreshStart, UpdateInv, RollbackInv, NoLeftovers
  <2>7. CASE php'.pc = "answer" /\ ~php'.ok /\ "lost" \in faults'
    BY <2>7 DEF UpdateInv, RollbackInv, NothingLost
  <2> QED
    BY <2>3, <2>6, <2>7 DEF Starts
<1>3. CASE CallRollback
  <2>1. /\ job'.pc = "undoing" /\ job'.kind = job.kind /\ job' # Idle /\ job # Idle
        /\ job.pc = "undo" /\ job'.before = job.before /\ job'.clean = job.clean
    BY <1>3, CallStarts, JobFields DEF JobSteps, CallRollback, JobAt
  <2>2. UNCHANGED <<site, plugin, kept>>
    BY <1>3, JobMoves DEF JobStep
  <2>3. SUFFICES ASSUME Undisturbed
        PROVE  RollbackInv' /\ (php'.pc = "answer" /\ php'.ok => AllBack')
    BY <2>1 DEF WayInv, Undisturbed
  <2>4. AllKept'
    BY <1>0, <2>1, <2>2, <2>3 DEF WayInv
  <2>5. Starts("files")
    BY <1>3, <2>3, CallStarts DEF Undisturbed
  <2> QED
    BY <2>4, <2>5 DEF Starts, RollbackInv
<1>4. CASE CallCleanup
  <2>1. job'.pc = "cleaning"
    BY <1>4, CallStarts, JobFields DEF JobSteps
  <2> QED
    BY <2>1 DEF WayInv
<1>5. CASE /\ JobStep \/ GiveUp \/ Crash
           /\ ~(CallUpdate \/ CallRollback \/ CallCleanup)
  <2>0. UNCHANGED <<site, plugin, kept>>
    BY <1>5, JobMoves
  <2>1. CASE job' = Idle
    BY <2>1 DEF WayInv, Undisturbed
  <2>2. CASE job'.pc \in {"baseline", "update"}
    BY <2>2 DEF WayInv
  <2>3. ASSUME NEW pc \in Verifying, job' = [job EXCEPT !.pc = pc], job # Idle,
               Undisturbed => AllKept
        PROVE  WayInv'
    <3>1. /\ job'.pc = pc /\ job'.kind = job.kind /\ job'.before = job.before
          /\ job'.clean = job.clean
      BY <2>3, JobFields DEF JobSteps, Verifying
    <3> QED
      BY <1>0, <2>0, <2>3, <3>1 DEF WayInv, Undisturbed, Verifying
  <2>4. CASE HearUpdate /\ php.ok /\ job' = [job EXCEPT !.pc = "network"]
    <3>1. job # Idle
      BY <2>4, IdleIsIdle DEF HearUpdate, Answered, JobAt
    <3>2. Undisturbed => AllKept
      BY <2>4 DEF HearUpdate, Answered, JobAt, PhpAt, WayInv, UpdateInv
    <3> QED
      BY <2>3, <2>4, <3>1, <3>2 DEF Verifying
  <2>5. ASSUME NetworkCheck \/ VisualDiff \/ ScrapeLog,
               NEW pc \in Verifying, job' = [job EXCEPT !.pc = pc]
        PROVE  WayInv'
    <3>1. job # Idle
      BY <2>5, IdleIsIdle DEF NetworkCheck, VisualDiff, ScrapeLog, JobAt
    <3>2. Undisturbed => AllKept
      BY <2>5 DEF NetworkCheck, VisualDiff, ScrapeLog, JobAt, WayInv
    <3> QED
      BY <2>3, <2>5, <3>1, <3>2
  <2>6. CASE Unheard /\ job' = job
    <3>1. job.pc \notin {"updating", "undoing"}
      BY <2>6 DEF Unheard, Coupled, Awaits
    <3> QED
      BY <1>0, <2>0, <2>6, <3>1 DEF WayInv, Undisturbed
  <2> QED
    BY <1>5, <2>1, <2>2, <2>4, <2>5, <2>6, JobPath DEF Verifying
<1>6. CASE SurroundingsStep
  <2>0. UNCHANGED <<site, kept, php, faults>>
    BY <1>6 DEF SurroundingsStep, QueueUpdate, Release, UpdateByHand, MigrateLater,
       IsolateByUpdate, Outside
  <2>1. CASE job' = job /\ plugin' = plugin
    BY <2>0, <2>1 DEF WayInv, Undisturbed, UpdateInv, RollbackInv, FilesFailed, AllKept,
       HasWay, OptionsKept, TablesKept, Imported, AllBack, FilesBack, OptionsBack, TablesBack,
       Reversible, NoLeftovers, NothingLost
  <2>2. CASE UpdateByHand
    <3>1. job' = Idle \/ ~job'.clean
      BY <2>2, JobFields DEF UpdateByHand, Disturbed, JobRecord
    <3> QED
      BY <3>1 DEF WayInv, Undisturbed
  <2>3. CASE MigrateLater
    <3>1. php = Idle /\ ~Reversible /\ job' = job
      BY <2>3 DEF MigrateLater, Reversible
    <3>2. job.pc \notin {"updating", "undoing"}
      BY <3>1 DEF Coupled, Awaits
    <3>3. AllKept' = AllKept
      BY <2>0, <3>1 DEF AllKept, HasWay, OptionsKept, TablesKept, Reversible
    <3> QED
      BY <3>1, <3>2, <3>3 DEF WayInv, Undisturbed
  <2> QED
    BY <1>6, <2>1, <2>2, <2>3 DEF SurroundingsStep, QueueUpdate, Release, IsolateByUpdate
<1>7. CASE UNCHANGED vars
  BY <1>7 DEF vars, WayInv, Undisturbed, UpdateInv, RollbackInv, FilesFailed, AllKept, HasWay,
     OptionsKept, TablesKept, Imported, AllBack, FilesBack, OptionsBack, TablesBack,
     Reversible, NoLeftovers, NothingLost
<1> QED
  BY <1>1, <1>2, <1>3, <1>4, <1>5, <1>6, <1>7 DEF Next, JobStep

LEMMA WayInvariant == Spec => []WayInv
<1>1. Init => WayInv
  BY DEF Init, WayInv, Undisturbed
<1> QED
  BY <1>1, WayStep, TidyInvariant, CoupledInvariant, TypeCorrect, PTL DEF Spec

\* As long as an update is being verified there is a way back: the old version's files, or
\* where to get them, and the old options.
THEOREM WayBackIsKept == Spec => []WayBack
<1>1. WayInv => WayBack
  BY DEF WayInv, Undisturbed, WayBack, AllKept, HasWay, OptionsKept, Idle
<1> QED
  BY <1>1, WayInvariant, PTL

\* A rollback reported as successful has brought files, options and tables back.
THEOREM RollbackBringsBack == Spec => RollbackRestores
<1>1. ASSUME TypeOK, WayInv, HearRollback, verdict' = "restored", job.clean
      PROVE  AsBefore
  <2>1. Undisturbed /\ job.pc = "undoing" /\ php.pc = "answer" /\ php.ok
    BY <1>1, IdleIsIdle DEF HearRollback, Answered, JobAt, PhpAt, JobEnds, Undisturbed
  <2>2. AllBack /\ plugin' = plugin
    BY <1>1, <2>1 DEF WayInv, HearRollback, JobFrame
  <2> QED
    BY <2>2 DEF AllBack, FilesBack, OptionsBack, TablesBack, Reversible, AsBefore
<1> QED
  BY <1>1, WayInvariant, TypeCorrect, PTL DEF RollbackRestores

\* An update that fails has brought them back by the time the worker hears of it, unless the
\* download or the rename that brings the files back failed, an answer was lost or the request
\* died: then the audit log claims it and it need not be so.
THEOREM FailureBringsBack == Spec => FailureRestores
<1>1. ASSUME TypeOK, WayInv, HearUpdate, job' = Idle, job.kind = "plugin", job.clean, NothingLost
      PROVE  AsBefore
  <2>1. Undisturbed /\ job.pc = "updating" /\ php.pc = "answer"
    BY <1>1, IdleIsIdle DEF HearUpdate, Answered, JobAt, PhpAt, Undisturbed
  <2>2. ~php.ok
    <3> SUFFICES ASSUME php.ok PROVE FALSE
      OBVIOUS
    <3>1. job # Idle /\ job' = [job EXCEPT !.pc = "network"]
      BY <1>1, <2>1 DEF HearUpdate, JobGo, Undisturbed
    <3> QED
      BY <1>1, <3>1, JobFields DEF JobSteps
  <2>3. AllBack /\ plugin' = plugin
    BY <1>1, <2>1, <2>2 DEF WayInv, UpdateInv, HearUpdate, JobFrame
  <2> QED
    BY <2>3 DEF AllBack, FilesBack, OptionsBack, TablesBack, Reversible, AsBefore
<1> QED
  BY <1>1, WayInvariant, TypeCorrect, PTL DEF FailureRestores

=============================================================================
