----------------------------- MODULE SafeUpdate -----------------------------
(***************************************************************************)
(* Updating one plugin, or one theme, of a site with a way back:           *)
(*   apps/api/src/worker/tasks/safe-update-verifier.ts    the worker's job *)
(*   apps/api/src/worker/tasks/vulnerability-sync.ts      who asks for one *)
(*   apps/api/src/routes/dashboard.ts       POST /api/updates/...          *)
(*   packages/plugin/safety/SafeUpdate.php, wp7/ActionExecutor.php         *)
(*                                                                         *)
(* The worker calls the site, which carries a call out in steps of its     *)
(* own: it may die between two of them, and its answer may get lost while  *)
(* it goes on.  The site serves one call at a time.                        *)
(***************************************************************************)
EXTENDS Naturals, Sequences

CONSTANTS
  Newest,      \* versions are numbered from 1 to Newest
  Sites        \* the kinds of site and release considered

Versions == 1 .. Newest
None == 0      \* no version: nothing kept, or no files left
VersionOrNone == 0 .. Newest

\* A process that dies, a call or an answer that is lost, a request that dies; a download, a
\* copy, a rename or a package that fails; and a check that fails for no good reason.
FaultKinds == {"crash", "lost", "died", "download", "copy", "rename", "package", "flaky"}

SiteKinds ==
  [quality : [Versions -> {"good", "gateway", "visual", "log"}],  \* what is wrong with a version
   migration : {"none", "dbdelta", "direct", "later"},  \* how it alters its tables
   wporg : BOOLEAN,      \* the plugin comes from wordpress.org
   ignored : BOOLEAN,    \* it is on the owner's ignore list
   faults : SUBSET FaultKinds,
   kinds : SUBSET {"plugin", "theme"},    \* what updates are asked for
   events : Nat]         \* bound: jobs, releases and changes by hand

ASSUME SafeUpdateAssumption == Newest \in Nat \ {0} /\ Sites \subseteq SiteKinds

VARIABLES
  site,      \* what does not change
  latest,    \* the newest version on offer
  plugin,    \* the site's files, tables and options, each of some version
  kept,      \* what the site keeps for a rollback
  php,       \* the call the site is carrying out
  theme,     \* the version of the theme
  jobs,      \* the queue
  job,       \* the job in the worker's hand
  verdict,   \* the last job's last word in the audit log
  news,      \* what the site told the audit log of its own accord
  events, faults

vars == <<site, latest, plugin, kept, php, theme, jobs, job, verdict, news, events, faults>>

-----------------------------------------------------------------------------
Kinds == {"plugin", "theme"}
PluginState == [code : VersionOrNone, schema : Versions, options : Versions]
Kept ==
  [url : VersionOrNone,        \* where to download the old version from
   dir : VersionOrNone,        \* a copy of the plugin's directory
   options : VersionOrNone,    \* the options before the update
   schema : VersionOrNone,     \* the columns before the update
   targeted : VersionOrNone,   \* a dump made after the update
   prealter : VersionOrNone,   \* a dump made before dbDelta altered a table
   ledger : VersionOrNone]     \* the options before they were overwritten
NothingKept == [url |-> None, dir |-> None, options |-> None, schema |-> None,
                targeted |-> None, prealter |-> None, ledger |-> None]

Idle == [pc |-> "idle"]
UpdateSteps == {"preflight", "snapshot", "upgrade", "backup"}
RollbackSteps == {"files", "restore", "tables", "options"}
PhpRecord == [pc : UpdateSteps \cup RollbackSteps \cup {"cleanup", "theme", "answer"},
              verb : {"update", "rollback", "cleanup"}, heard : BOOLEAN, ok : BOOLEAN]
JobSteps == {"baseline", "update", "updating", "network", "visual", "log", "undo", "undoing",
             "done", "cleaning"}
JobRecord == [pc : JobSteps, kind : Kinds, base : VersionOrNone, before : PluginState,
              clean : BOOLEAN]
Verdicts == {"none", "aborted", "failed", "restored", "not_restored", "success"}

TypeOK ==
  /\ site \in Sites
  /\ latest \in Versions /\ theme \in Versions
  /\ plugin \in PluginState /\ kept \in Kept
  /\ php \in {Idle} \cup PhpRecord
  /\ jobs \in Seq(Kinds)
  /\ job \in {Idle} \cup JobRecord
  /\ verdict \in Verdicts
  /\ news \subseteq {"update_success", "rolled_back", "not_rolled_back"}
  /\ events \in Nat
  /\ faults \subseteq FaultKinds

Init ==
  /\ site \in Sites
  /\ latest \in {v \in Versions : v <= 2} /\ theme = 1
  /\ plugin = [code |-> 1, schema |-> 1, options |-> 1] /\ kept = NothingKept
  /\ php = Idle /\ jobs = <<>> /\ job = Idle
  /\ verdict = "none" /\ news = {}
  /\ events = 0 /\ faults = {}

\* One kind of fault strikes once.
Strikes(f) == f \in site.faults \ faults /\ faults' = faults \cup {f}

-----------------------------------------------------------------------------
(***************************************************************************)
(* The site carries out a call.                                            *)
(***************************************************************************)
PhpFrame == UNCHANGED <<site, latest, jobs, verdict, events>>

PhpAt(pc) == php.pc = pc
PhpGo(pc) == php' = [php EXCEPT !.pc = pc]
PhpAnswers(ok) == php' = [php EXCEPT !.pc = "answer", !.ok = ok]

\* A way back is laid: a download of the installed version, or a copy of its files.
PreFlight ==
  /\ PhpAt("preflight")
  /\ \/ /\ site.ignored \/ plugin.code = None
        /\ PhpAnswers(FALSE) /\ UNCHANGED <<kept, faults>>
     \/ /\ ~site.ignored /\ plugin.code # None /\ PhpGo("snapshot")
        /\ \/ site.wporg /\ kept' = [kept EXCEPT !.url = plugin.code] /\ UNCHANGED faults
           \/ /\ kept' = [kept EXCEPT !.dir = plugin.code]
              /\ IF site.wporg THEN Strikes("flaky") ELSE UNCHANGED faults
     \/ /\ ~site.ignored /\ plugin.code # None /\ Strikes("copy")
        /\ kept' = [kept EXCEPT !.dir = None] /\ PhpAnswers(FALSE)
  /\ UNCHANGED <<plugin, theme, news, job>> /\ PhpFrame

SnapshotDbState ==
  /\ PhpAt("snapshot") /\ PhpGo("upgrade")
  /\ kept' = [kept EXCEPT !.options = plugin.options, !.schema = plugin.schema]
  /\ UNCHANGED <<plugin, theme, news, job, faults>> /\ PhpFrame

\* The tables a query of dbDelta names, and the options, are saved before they change;
\* of two saves of a table the last is imported last, of an option the first is kept.
InterceptTable == [kept EXCEPT !.prealter = plugin.schema]
InterceptOption(k) == [k EXCEPT !.ledger = IF @ = None THEN plugin.options ELSE @]

Upgraded ==
  [code |-> latest,
   schema |-> IF site.migration \in {"dbdelta", "direct"} THEN latest ELSE plugin.schema,
   options |-> IF site.migration \in {"dbdelta", "direct"} THEN latest ELSE plugin.options]

\* Fault: the dump of a table never gets past its first rows.
EndlessUpgrade == PhpAt("upgrade") /\ UNCHANGED vars

\* Fault: an upgrade that failed is not rolled back.
BareUpgrade ==
  /\ PhpAt("upgrade")
  /\ \/ latest > plugin.code /\ plugin' = Upgraded /\ PhpGo("backup") /\ UNCHANGED faults
     \/ /\ latest > plugin.code /\ Strikes("package") /\ PhpAnswers(FALSE)
        /\ \E c \in {plugin.code, None} : plugin' = [plugin EXCEPT !.code = c]
  /\ UNCHANGED <<kept, theme, news, job>> /\ PhpFrame

Upgrade ==
  /\ PhpAt("upgrade")
  /\ \/ /\ latest > plugin.code
        /\ plugin' = Upgraded
        /\ kept' = CASE site.migration = "dbdelta" -> InterceptOption(InterceptTable)
                     [] site.migration = "direct"  -> InterceptOption(kept)
                     [] OTHER -> kept
        /\ PhpGo("backup") /\ UNCHANGED faults
     \/ latest = plugin.code /\ PhpGo("files") /\ UNCHANGED <<plugin, kept, faults>>
     \/ /\ latest > plugin.code /\ Strikes("package")
        /\ \E c \in {plugin.code, None} : plugin' = [plugin EXCEPT !.code = c]
        /\ PhpGo("files") /\ UNCHANGED kept
  /\ UNCHANGED <<theme, news, job>> /\ PhpFrame

\* Fault: the leftovers are cleaned up before the update is verified.
EagerMigrationBackup ==
  /\ PhpAt("backup") /\ PhpAnswers(TRUE)
  /\ kept' = NothingKept
  /\ UNCHANGED <<plugin, theme, news, job, faults>> /\ PhpFrame

\* What the migration has changed is dumped: after the change.
MigrationBackup ==
  /\ PhpAt("backup") /\ PhpAnswers(TRUE)
  /\ kept' = IF plugin.schema # kept.schema THEN [kept EXCEPT !.targeted = plugin.schema]
             ELSE kept
  /\ UNCHANGED <<plugin, theme, news, job, faults>> /\ PhpFrame

\* A rollback removes the files when it has, or believes it has, others to put there.
RemoveFiles ==
  /\ PhpAt("files")
  /\ IF kept.url # None \/ kept.dir # None
     THEN plugin' = [plugin EXCEPT !.code = None] /\ PhpGo("restore")
     ELSE UNCHANGED plugin /\ php' = [php EXCEPT !.pc = "tables", !.ok = FALSE]
  /\ UNCHANGED <<kept, theme, news, job, faults>> /\ PhpFrame

\* Fault: a download that failed goes unnoticed.
UnnoticedRestoreFiles ==
  /\ PhpAt("restore")
  /\ \/ /\ plugin' = [plugin EXCEPT !.code = IF kept.url # None THEN kept.url ELSE kept.dir]
        /\ UNCHANGED faults
     \/ kept.url # None /\ Strikes("download") /\ UNCHANGED plugin
  /\ php' = [php EXCEPT !.pc = "tables", !.ok = TRUE]
  /\ UNCHANGED <<kept, theme, news, job>> /\ PhpFrame

\* The files that were there are gone already when the download, or the rename of the copy,
\* turns out to fail.
RestoreFiles ==
  /\ PhpAt("restore")
  /\ \/ /\ plugin' = [plugin EXCEPT !.code = IF kept.url # None THEN kept.url ELSE kept.dir]
        /\ kept' = IF kept.url # None THEN kept ELSE [kept EXCEPT !.dir = None]
        /\ php' = [php EXCEPT !.pc = "tables", !.ok = TRUE] /\ UNCHANGED faults
     \/ /\ Strikes(IF kept.url # None THEN "download" ELSE "rename")
        /\ php' = [php EXCEPT !.pc = "tables", !.ok = FALSE] /\ UNCHANGED <<plugin, kept>>
  /\ UNCHANGED <<theme, news, job>> /\ PhpFrame

\* Fault: the dumps are imported in the opposite order.
ImportedBackwards ==
  IF kept.targeted # None THEN kept.targeted
  ELSE IF kept.prealter # None THEN kept.prealter ELSE plugin.schema

\* Fault: a dump is imported whether there is one or not.
ImportedBlindly == kept.prealter

\* Two dumps are imported one after the other: the last one stays.
Imported ==
  IF kept.prealter # None THEN kept.prealter
  ELSE IF kept.targeted # None THEN kept.targeted ELSE plugin.schema

ImportTables ==
  /\ PhpAt("tables") /\ PhpGo("options")
  /\ plugin' = [plugin EXCEPT !.schema = Imported]
  /\ kept' = [kept EXCEPT !.targeted = None, !.prealter = None]
  /\ UNCHANGED <<theme, news, job, faults>> /\ PhpFrame

\* The snapshot is written back, then the ledger; and the control plane is told.
RestoreOptions ==
  /\ PhpAt("options")
  /\ plugin' = [plugin EXCEPT !.options = IF kept.ledger # None THEN kept.ledger
                                          ELSE IF kept.options # None THEN kept.options ELSE @]
  /\ kept' = [kept EXCEPT !.ledger = None]
  /\ news' = news \cup {IF php.ok THEN "rolled_back" ELSE "not_rolled_back"}
  /\ PhpGo(IF php.verb = "update" THEN "cleanup" ELSE "answer")
  /\ UNCHANGED <<theme, job, faults>> /\ PhpFrame

Cleanup ==
  /\ PhpAt("cleanup")
  /\ kept' = NothingKept
  /\ news' = news \cup {"update_success"}
  /\ PhpAnswers(php.verb = "cleanup")
  /\ UNCHANGED <<plugin, theme, job, faults>> /\ PhpFrame

\* A theme is upgraded in one go, with no way back.
UpgradeTheme ==
  /\ PhpAt("theme")
  /\ theme' = latest /\ PhpAnswers(latest > theme)
  /\ UNCHANGED <<plugin, kept, news, job, faults>> /\ PhpFrame

\* The request ends in a fatal error, or by its time limit: during the upgrade the old
\* files may be gone already.
Die ==
  /\ php # Idle /\ ~PhpAt("answer") /\ Strikes("died")
  /\ php' = [php EXCEPT !.pc = "answer", !.ok = FALSE]
  /\ IF PhpAt("upgrade")
     THEN \E c \in {plugin.code, None} : plugin' = [plugin EXCEPT !.code = c]
     ELSE UNCHANGED plugin
  /\ UNCHANGED <<kept, theme, news, job>> /\ PhpFrame

PhpStep ==
  \/ PreFlight \/ SnapshotDbState \/ Upgrade \/ MigrationBackup \/ RemoveFiles
  \/ RestoreFiles \/ ImportTables \/ RestoreOptions \/ Cleanup \/ UpgradeTheme

-----------------------------------------------------------------------------
(***************************************************************************)
(* The job.                                                                *)
(***************************************************************************)
JobFrame == UNCHANGED <<site, latest, plugin, kept, theme, news, events>>
JobAt(pc) == job.pc = pc
JobGo(pc) == job' = [job EXCEPT !.pc = pc] /\ UNCHANGED verdict
JobEnds(v) == job' = Idle /\ verdict' = v

Installed == IF job.kind = "theme" THEN theme ELSE plugin.code
QualityOf(v) == IF v = None THEN "good" ELSE site.quality[v]

\* A check of the page passes or fails by the version, or fails for no good reason.
Outcomes(passes) == {passes} \cup IF "flaky" \in site.faults THEN {FALSE} ELSE {}

Take ==
  /\ job = Idle /\ jobs # <<>>
  /\ jobs' = Tail(jobs)
  /\ job' = [pc |-> "baseline", kind |-> Head(jobs), base |-> None, before |-> plugin,
             clean |-> FALSE]
  /\ UNCHANGED <<php, verdict, faults>> /\ JobFrame

\* The picture of the homepage is taken even of an error page; only a page that does not load
\* ends the job.
Loads(v) ==
  {TRUE} \cup IF QualityOf(v) = "gateway" \/ "flaky" \in site.faults THEN {FALSE} ELSE {}

CaptureBaseline ==
  /\ JobAt("baseline")
  /\ \E ok \in Loads(Installed) :
       IF ok THEN job' = [job EXCEPT !.pc = "update", !.base = Installed] /\ UNCHANGED verdict
             ELSE JobEnds("aborted")
  /\ UNCHANGED <<php, jobs, faults>> /\ JobFrame

\* A call: it reaches the site, which must be done with the one before, or gets lost.
Call(verb, first, wait) ==
  \/ /\ php = Idle
     /\ php' = [pc |-> first, verb |-> verb, heard |-> TRUE, ok |-> TRUE]
     /\ UNCHANGED faults /\ wait
  \/ /\ Strikes("lost")
     /\ php' = [pc |-> "answer", verb |-> verb, heard |-> TRUE, ok |-> FALSE]
     /\ php = Idle /\ wait

\* No way back is left over that leads elsewhere.
FreshStart == faults = {} /\ kept.url \in {None, plugin.code}

CallUpdate ==
  /\ JobAt("update")
  /\ Call("update", IF job.kind = "theme" THEN "theme" ELSE "preflight",
          job' = [job EXCEPT !.pc = "updating", !.before = plugin, !.clean = FreshStart])
  /\ UNCHANGED <<jobs, verdict>> /\ JobFrame

\* The answer arrives ...
Answered(pc) == JobAt(pc) /\ PhpAt("answer") /\ php.heard /\ php' = Idle

HearUpdate ==
  /\ Answered("updating")
  /\ IF php.ok THEN JobGo("network") ELSE JobEnds("failed")
  /\ UNCHANGED <<jobs, faults>> /\ JobFrame

NetworkCheck ==
  /\ JobAt("network")
  /\ \E ok \in Outcomes(QualityOf(Installed) # "gateway") : JobGo(IF ok THEN "visual" ELSE "undo")
  /\ UNCHANGED <<php, jobs, faults>> /\ JobFrame

\* A theme that looks wrong, or logs an error, stays; only its job fails.
Failed == IF job.kind = "theme" THEN JobEnds("not_restored") ELSE JobGo("undo")

\* What a version looks like: as it should, changed, or an error page.
Look(v) == IF QualityOf(v) \in {"visual", "gateway"} THEN QualityOf(v) ELSE "good"
LooksAlike == Look(Installed) = Look(job.base)

\* Fault: the pictures are compared and the result is forgotten.
UncheckedVisualDiff ==
  /\ JobAt("visual") /\ JobGo("log")
  /\ UNCHANGED <<php, jobs, faults>> /\ JobFrame

VisualDiff ==
  /\ JobAt("visual")
  /\ \E ok \in Outcomes(LooksAlike) : IF ok THEN JobGo("log") ELSE Failed
  /\ UNCHANGED <<php, jobs, faults>> /\ JobFrame

\* A log that cannot be read is passed over.
ScrapeLog ==
  /\ JobAt("log")
  /\ \/ /\ \E ok \in Outcomes(QualityOf(Installed) # "log") : IF ok THEN JobGo("done") ELSE Failed
        /\ UNCHANGED faults
     \/ Strikes("lost") /\ JobGo("done")
  /\ UNCHANGED <<php, jobs>> /\ JobFrame

\* The network check has a theme's slug rolled back as a plugin's: nothing is kept for it.
CallRollback ==
  /\ JobAt("undo")
  /\ Call("rollback", IF job.kind = "theme" THEN "answer" ELSE "files", JobGo("undoing"))
  /\ UNCHANGED jobs /\ JobFrame

HearRollback ==
  /\ Answered("undoing")
  /\ JobEnds(IF php.ok /\ job.kind = "plugin" THEN "restored" ELSE "not_restored")
  /\ UNCHANGED <<jobs, faults>> /\ JobFrame

CallCleanup ==
  /\ JobAt("done")
  /\ Call("cleanup", IF job.kind = "theme" THEN "answer" ELSE "cleanup", JobGo("cleaning"))
  /\ UNCHANGED jobs /\ JobFrame

HearCleanup ==
  /\ Answered("cleaning")
  /\ JobEnds("success")
  /\ UNCHANGED <<jobs, faults>> /\ JobFrame

\* ... or gets lost, and the site goes on with what it was doing.
GiveUp ==
  /\ job.pc \in {"updating", "undoing", "cleaning"} /\ Strikes("lost")
  /\ php' = [php EXCEPT !.heard = FALSE]
  /\ JobEnds(CASE JobAt("updating") -> "failed"
               [] JobAt("undoing")  -> "not_restored"
               [] JobAt("cleaning") -> "success")
  /\ UNCHANGED jobs /\ JobFrame

\* Nobody waits for the answer any more.
Unheard ==
  /\ PhpAt("answer") /\ ~php.heard /\ php' = Idle
  /\ UNCHANGED <<jobs, job, verdict, faults>> /\ JobFrame

\* The worker dies, or the browser does and the task throws: the job is run again.
Crash ==
  /\ job # Idle /\ Strikes("crash")
  /\ jobs' = Append(jobs, job.kind)
  /\ job' = Idle
  /\ php' = IF php = Idle THEN Idle ELSE [php EXCEPT !.heard = FALSE]
  /\ UNCHANGED verdict /\ JobFrame

JobStep ==
  \/ Take \/ CaptureBaseline \/ CallUpdate \/ HearUpdate \/ NetworkCheck \/ VisualDiff
  \/ ScrapeLog \/ CallRollback \/ HearRollback \/ CallCleanup \/ HearCleanup \/ Unheard

-----------------------------------------------------------------------------
(***************************************************************************)
(* The surroundings.                                                       *)
(***************************************************************************)
Happens == events < site.events /\ events' = events + 1
Outside == UNCHANGED <<site, kept, php, theme, verdict, news, faults>>
Disturbed == job' = IF job = Idle THEN Idle ELSE [job EXCEPT !.clean = FALSE]

\* The dashboard asks for an update, whether there is one or not.
QueueUpdate(k) ==
  /\ Happens /\ k \in site.kinds
  /\ jobs' = Append(jobs, k)
  /\ UNCHANGED <<latest, plugin, job>> /\ Outside

Release ==
  /\ Happens /\ latest < Newest
  /\ latest' = latest + 1
  /\ UNCHANGED <<plugin, jobs, job>> /\ Outside

\* The owner updates the plugin by hand.
UpdateByHand ==
  /\ Happens /\ php = Idle /\ plugin.code \notin {None, latest}
  /\ plugin' = [code |-> latest, schema |-> latest, options |-> latest]
  /\ Disturbed
  /\ UNCHANGED <<latest, jobs>> /\ Outside

\* Some plugins alter their tables when a page is first loaded with the new code.
MigrateLater ==
  /\ site.migration = "later" /\ php = Idle /\ plugin.code > plugin.schema
  /\ plugin' = [plugin EXCEPT !.schema = plugin.code, !.options = plugin.code]
  /\ UNCHANGED <<latest, jobs, job, events>> /\ Outside

\* A critical advisory queues an update too, if a patch is known to exist.
IsolateByUpdate ==
  /\ Happens /\ "plugin" \in site.kinds
  /\ jobs' = Append(jobs, "plugin")
  /\ UNCHANGED <<latest, plugin, job>> /\ Outside

SurroundingsStep ==
  \/ \E k \in Kinds : QueueUpdate(k)
  \/ Release \/ UpdateByHand \/ MigrateLater \/ IsolateByUpdate

Next == PhpStep \/ Die \/ JobStep \/ GiveUp \/ Crash \/ SurroundingsStep

Spec == Init /\ [][Next]_vars

\* The site goes on with a request, and the worker with a job.
FairSpec == Spec /\ WF_vars(PhpStep) /\ WF_vars(JobStep)

-----------------------------------------------------------------------------
(***************************************************************************)
(* Properties.                                                             *)
(***************************************************************************)
\* As it was when the update was called for; a migration that does not go through
\* dbDelta leaves its tables altered.
AsBefore ==
  /\ plugin'.code = job.before.code /\ plugin'.options = job.before.options
  /\ site.migration \in {"none", "dbdelta"} => plugin'.schema = job.before.schema

\* A rollback reported as successful has brought files, options and tables back.
RollbackRestores ==
  [][HearRollback /\ verdict' = "restored" /\ job.clean => AsBefore]_vars

NothingLost == faults \cap {"download", "rename", "lost", "died"} = {}

\* So has an update that failed: "pre-update state automatically restored by plugin", if
\* neither the download nor the rename that brings the files back failed, no answer was lost
\* and no request died.  With any of these the audit log says the same and it is not so: the
\* plugin may be gone, and the copy of it with the cleanup that follows.
FailureRestores ==
  [][HearUpdate /\ job' = Idle /\ job.kind = "plugin" /\ job.clean /\ NothingLost
       => AsBefore]_vars

\* Nothing broken is verified: neither a page that does not answer, nor one that looks
\* different, nor one that logs a fatal error, if the log could be read.
NothingBrokenPasses ==
  job.pc \in {"done", "cleaning"} /\ (job.clean \/ job.kind = "theme") =>
    /\ QualityOf(Installed) # "gateway" /\ LooksAlike
    /\ QualityOf(Installed) = "log" => "lost" \in faults

\* While an update is being verified, there is a way back to the version before it.
WayBack ==
  job.pc \in {"network", "visual", "log", "undo"} /\ job.kind = "plugin" /\ job.clean =>
    /\ job.before.code = IF kept.url # None THEN kept.url ELSE kept.dir
    /\ kept.options = job.before.options

\* A plugin whose files are gone is never unreported: the site has told so.
GoneIsReported ==
  plugin.code = None /\ php = Idle => "not_rolled_back" \in news \/ "died" \in faults

\* Every update that is asked for is decided in the end, and the site is let alone.
QueueDrains == jobs # <<>> ~> jobs = <<>> /\ job = Idle /\ php = Idle
=============================================================================
