------------------------------- MODULE Panels -------------------------------
(***************************************************************************)
(* Pages of the dashboard that ask before they show, and their API routes: *)
(*   components/layout/app-shell.tsx (SiteSwitcher), app/updates/page.tsx  *)
(*     with /api/updates, /api/updates/sync, /api/updates/core             *)
(*   app/restore-points/page.tsx with /api/restore-points/:id/revert       *)
(*   app/settings/page.tsx (kill switch), GET /api/stepper/:incidentId     *)
(*                                                                         *)
(* A behaviour looks at one panel.  held is what the control plane holds   *)
(* for it, seen what the browser shows, requests what is under way.       *)
(***************************************************************************)
EXTENDS Integers, FiniteSetsExt

CONSTANTS
  Sites,      \* sites of the organisation
  Points,     \* restore points of a site, in the database
  Invertible, \* those whose action has an inverse
  LogRows,    \* rows that a run of the fix pipeline writes into the audit log
  Panels,     \* the panels considered
  MaxClicks   \* bound: what the user does and what fails, for each panel

PanelKinds == {"catalog", "restore", "switch", "progress"}
ASSUME PanelsAssumption ==
  /\ Panels \subseteq PanelKinds /\ MaxClicks \in [PanelKinds -> Nat]
  /\ LogRows \in Nat \ {0} /\ Sites # {} /\ Invertible \subseteq Points

VARIABLES panel, held, seen, requests, clicks
panelVars == <<panel, held, seen, requests, clicks>>

Absent == "none"
Manual == "manual"  \* the page's "Manual backup"
Shown == Points \cup {Manual}
Core == {"old", "new"}
IdleRound == [at |-> "idle", rows |-> {}]

Round == [at : {"idle", "send", "status"}, rows : SUBSET (1 .. LogRows)]

Helds ==
  [catalog |-> [Sites -> Core],
   restore |-> SUBSET Points,
   switch |-> BOOLEAN,
   progress |-> [rows : 0 .. LogRows, over : BOOLEAN]]
Seens ==
  [catalog |-> [chosen : Sites, list : Sites \cup {Absent}, site : Sites \cup {Absent},
                core : Core, updated : BOOLEAN, checking : BOOLEAN, mixed : BOOLEAN],
   restore |-> [points : SUBSET Shown, target : Shown \cup {Absent}, step : 0 .. 2,
                current : Shown \cup {Absent}, crossed : BOOLEAN],
   switch |-> [active : BOOLEAN, saving : BOOLEAN, lost : BOOLEAN],
   progress |-> [rows : SUBSET (1 .. LogRows), closed : BOOLEAN]]
Requests ==
  [catalog |-> SUBSET ([of : Sites, what : {"sync", "synced", "list", "core", "cored", "refused"}]
                       \cup [of : Sites, what : {"site"}, core : Core \cup {Absent}]),
   restore |-> SUBSET [of : Shown, at : {"sent", "ok", "failed"}],
   switch |-> [at : {"none"}] \cup [at : {"sent", "ok", "failed"}, active : BOOLEAN],
   progress |-> [cursor : 0 .. LogRows,
                 rounds : [1 .. 2 -> Round]]]

PanelsTypeOK ==
  /\ panel \in Panels /\ clicks \in 0 .. MaxClicks[panel]
  /\ held \in Helds[panel] /\ seen \in Seens[panel] /\ requests \in Requests[panel]

PanelsInit(kinds) ==
  /\ panel \in kinds /\ clicks = 0
  /\ \E first \in Sites :
       seen = [catalog |-> [chosen |-> first, list |-> Absent, site |-> Absent, core |-> "old",
                            updated |-> FALSE, checking |-> TRUE, mixed |-> FALSE],
               restore |-> [points |-> Points, target |-> Absent, step |-> 0, current |-> Absent,
                            crossed |-> FALSE],
               switch |-> [active |-> FALSE, saving |-> FALSE, lost |-> FALSE],
               progress |-> [rows |-> {}, closed |-> FALSE]][panel]
       /\ requests = [catalog |-> {[of |-> first, what |-> "sync"]}, restore |-> {},
                       switch |-> [at |-> "none"],
                       progress |-> [cursor |-> 0, rounds |-> [k \in 1 .. 2 |-> IdleRound]]][panel]
  /\ held = [catalog |-> [s \in Sites |-> "old"], restore |-> {}, switch |-> FALSE,
             progress |-> [rows |-> 0, over |-> FALSE]][panel]

ByHand == clicks < MaxClicks[panel] /\ clicks' = clicks + 1 /\ UNCHANGED panel
Quietly == UNCHANGED <<panel, clicks>>
Request(of, what) == [of |-> of, what |-> what]
Ask(of) == [of |-> of, what |-> "site", core |-> Absent]

-----------------------------------------------------------------------------
(***************************************************************************)
(* The site switcher and the list of updates.  A load is a sync with the   *)
(* site, and then two requests; nothing ties an answer to the site that is *)
(* chosen when it comes.                                                   *)
(***************************************************************************)
Select(s) ==
  /\ panel = "catalog" /\ ByHand
  /\ seen' = [seen EXCEPT !.chosen = s, !.checking = TRUE, !.mixed = \E c \in requests : c.of # s]
  /\ requests' = requests \cup {Request(s, "sync")} /\ UNCHANGED held

CheckAgain ==
  /\ panel = "catalog" /\ ~seen.checking /\ ByHand
  /\ seen' = [seen EXCEPT !.checking = TRUE]
  /\ requests' = requests \cup {Request(seen.chosen, "sync")} /\ UNCHANGED held

\* The route asks the site over MCP, which sends a heartbeat, or does not answer.
SyncSite(s) ==
  /\ panel = "catalog" /\ Request(s, "sync") \in requests
  /\ requests' = (requests \ {Request(s, "sync")}) \cup {Request(s, "synced")}
  /\ Quietly /\ UNCHANGED <<held, seen>>

\* Whatever the sync has come to, the lists are fetched.
HearSync(s) ==
  /\ panel = "catalog" /\ Request(s, "synced") \in requests
  /\ requests' = (requests \ {Request(s, "synced")}) \cup {Request(s, "list"), Ask(s)}
  /\ seen' = [seen EXCEPT !.checking = FALSE]
  /\ Quietly /\ UNCHANGED held

\* Fault: the list that comes first stays.
HearListOnce(s) ==
  /\ panel = "catalog" /\ Request(s, "list") \in requests
  /\ requests' = requests \ {Request(s, "list")}
  /\ seen' = [seen EXCEPT !.list = IF @ = Absent THEN s ELSE @]
  /\ Quietly /\ UNCHANGED held

HearList(s) ==
  /\ panel = "catalog" /\ Request(s, "list") \in requests
  /\ requests' = requests \ {Request(s, "list")}
  /\ seen' = [seen EXCEPT !.list = s]
  /\ Quietly /\ UNCHANGED held

AnswerSite(s) ==
  /\ panel = "catalog" /\ Ask(s) \in requests
  /\ requests' = (requests \ {Ask(s)}) \cup {[Ask(s) EXCEPT !.core = held[s]]}
  /\ Quietly /\ UNCHANGED <<held, seen>>

HearSite(s, v) ==
  /\ panel = "catalog" /\ v # Absent /\ [Ask(s) EXCEPT !.core = v] \in requests
  /\ requests' = requests \ {[Ask(s) EXCEPT !.core = v]}
  /\ seen' = [seen EXCEPT !.site = s, !.core = v]
  /\ Quietly /\ UNCHANGED held

\* A request that fails leaves what is shown, which may be another site's.
FailRequest(c) ==
  /\ panel = "catalog" /\ c.what \in {"list", "site"} /\ ByHand
  /\ requests' = requests \ {c} /\ seen' = [seen EXCEPT !.mixed = TRUE] /\ UNCHANGED held

UpdateCore ==
  /\ panel = "catalog" /\ seen.site # Absent /\ seen.core = "old" /\ ~seen.updated /\ ByHand
  /\ \A c \in requests : c.what \notin {"core", "cored", "refused"}
  /\ requests' = requests \cup {Request(seen.site, "core")} /\ UNCHANGED <<held, seen>>

CoreAtSite(s) ==
  /\ panel = "catalog" /\ Request(s, "core") \in requests
  /\ \/ /\ held' = [held EXCEPT ![s] = "new"]
        /\ requests' = (requests \ {Request(s, "core")}) \cup {Request(s, "cored")}
     \/ requests' = (requests \ {Request(s, "core")}) \cup {Request(s, "refused")} /\ UNCHANGED held
  /\ Quietly /\ UNCHANGED seen

\* The answer is put down to the site that is shown by then, and for good.
HearCore(s) ==
  /\ panel = "catalog"
  /\ \E what \in {"cored", "refused"} :
       /\ Request(s, what) \in requests /\ requests' = requests \ {Request(s, what)}
       /\ seen' = IF what = "cored" THEN [seen EXCEPT !.updated = TRUE, !.core = "new"] ELSE seen
  /\ Quietly /\ UNCHANGED held

CatalogSteps ==
  \/ CheckAgain \/ UpdateCore
  \/ \E c \in (IF panel = "catalog" THEN requests ELSE {}) : FailRequest(c)
  \/ \E s \in Sites :
       \/ Select(s) \/ SyncSite(s) \/ HearSync(s) \/ HearList(s) \/ AnswerSite(s)
       \/ CoreAtSite(s) \/ HearCore(s) \/ \E v \in Core : HearSite(s, v)

-----------------------------------------------------------------------------
(***************************************************************************)
(* The restore points.  The dialog may be closed while its request is      *)
(* under way, and opened for another point.                                *)
(***************************************************************************)
OpenDialog(p) ==
  /\ panel = "restore" /\ p \in seen.points /\ seen.target = Absent /\ ByHand
  /\ seen' = [seen EXCEPT !.target = p, !.step = 0, !.crossed = \E c \in requests : c.of # p]
  /\ UNCHANGED <<held, requests>>

closeRestoreModal ==
  /\ panel = "restore" /\ seen.target # Absent /\ ByHand
  /\ seen' = [seen EXCEPT !.target = Absent, !.step = 0] /\ UNCHANGED <<held, requests>>

triggerRestore ==
  /\ panel = "restore" /\ seen.target # Absent /\ seen.step = 0 /\ ByHand
  /\ seen' = [seen EXCEPT !.step = 1]
  /\ requests' = requests \cup {[of |-> seen.target, at |-> "sent"]} /\ UNCHANGED held

\* A backup is added to the list after a while, and nowhere else.
triggerBackup ==
  /\ panel = "restore" /\ Manual \notin seen.points /\ ByHand
  /\ seen' = [seen EXCEPT !.points = @ \cup {Manual}] /\ UNCHANGED <<held, requests>>

\* A corrective order is put into the queue of the site, if the action has an inverse: the
\* answer does not wait for the site, and is no other when there is no inverse.  It may fail
\* before the order is issued and after it.
Revert(p) ==
  /\ panel = "restore" /\ [of |-> p, at |-> "sent"] \in requests
  /\ \E at \in {"ok", "failed"}, queued \in BOOLEAN :
       /\ at = "ok" => p \in Points /\ (queued <=> p \in Invertible)
       /\ queued => p \in Invertible
       /\ held' = IF queued THEN held \cup {p} ELSE held
       /\ requests' = (requests \ {[of |-> p, at |-> "sent"]}) \cup {[of |-> p, at |-> at]}
  /\ Quietly /\ UNCHANGED seen

HearRevert(p) ==
  /\ panel = "restore"
  /\ \E at \in {"ok", "failed"} :
       /\ [of |-> p, at |-> at] \in requests /\ requests' = requests \ {[of |-> p, at |-> at]}
       /\ seen' = IF at = "ok" THEN [seen EXCEPT !.step = 2, !.current = p]
                  ELSE [seen EXCEPT !.step = 0]
  /\ Quietly /\ UNCHANGED held

RestoreSteps ==
  \/ closeRestoreModal \/ triggerRestore \/ triggerBackup
  \/ \E p \in Shown : OpenDialog(p) \/ Revert(p) \/ HearRevert(p)

-----------------------------------------------------------------------------
(***************************************************************************)
(* The kill switch shows what was asked for, and takes it back.            *)
(***************************************************************************)
toggleKillSwitch ==
  /\ panel = "switch" /\ ~seen.saving /\ ByHand
  /\ seen' = [seen EXCEPT !.active = ~@, !.saving = TRUE]
  /\ requests' = [at |-> "sent", active |-> ~seen.active] /\ UNCHANGED held

SetSwitch ==
  /\ panel = "switch" /\ requests.at = "sent"
  /\ \E at \in {"ok", "failed"}, applied \in BOOLEAN :
       /\ at = "ok" => applied
       /\ held' = IF applied THEN requests.active ELSE held
       /\ requests' = [requests EXCEPT !.at = at]
       /\ seen' = [seen EXCEPT !.lost = at = "failed" /\ (applied \/ @)]
  /\ Quietly

HearSwitch ==
  /\ panel = "switch" /\ requests.at \in {"ok", "failed"}
  /\ requests' = [at |-> "none"]
  /\ seen' = [seen EXCEPT !.saving = FALSE,
                          !.active = IF requests.at = "ok" THEN @ ELSE ~requests.active]
  /\ Quietly /\ UNCHANGED held

SwitchSteps == toggleKillSwitch \/ SetSwitch \/ HearSwitch

-----------------------------------------------------------------------------
(***************************************************************************)
(* The progress of an incident.  The pipeline writes its status before the *)
(* row that says so.                                                       *)
(***************************************************************************)
WriteRow ==
  /\ panel = "progress" /\ held.rows < (IF held.over THEN LogRows ELSE LogRows - 1)
  /\ held' = [held EXCEPT !.rows = @ + 1] /\ Quietly /\ UNCHANGED <<seen, requests>>

EndIncident ==
  /\ panel = "progress" /\ held.rows = LogRows - 1 /\ ~held.over
  /\ held' = [held EXCEPT !.over = TRUE] /\ Quietly /\ UNCHANGED <<seen, requests>>

\* Every three seconds, whether or not the last round is over: the rows after the last one.
\* Its time is cut to milliseconds, so that it may come again.
ReadRows(k) ==
  /\ panel = "progress" /\ requests.rounds[k].at = "idle" /\ ~seen.closed
  /\ \E from \in {requests.cursor, requests.cursor + 1} :
       requests' = [requests EXCEPT !.rounds[k] =
                      [at |-> "send", rows |-> (from .. held.rows) \ {0}]]
  /\ Quietly /\ UNCHANGED <<held, seen>>

SendRows(k) ==
  /\ panel = "progress" /\ requests.rounds[k].at = "send"
  /\ LET rows == requests.rounds[k].rows IN
     /\ seen' = [seen EXCEPT !.rows = IF seen.closed THEN @ ELSE @ \cup rows]
     /\ requests' = [cursor |-> IF rows = {} THEN requests.cursor ELSE Max(rows),
                  rounds |-> [requests.rounds EXCEPT ![k] = [at |-> "status", rows |-> {}]]]
  /\ Quietly /\ UNCHANGED held

ReadStatus(k) ==
  /\ panel = "progress" /\ requests.rounds[k].at = "status"
  /\ requests' = [requests EXCEPT !.rounds[k] = IdleRound]
  /\ seen' = [seen EXCEPT !.closed = @ \/ held.over] /\ Quietly /\ UNCHANGED held

ProgressSteps ==
  WriteRow \/ EndIncident \/ \E k \in 1 .. 2 : ReadRows(k) \/ SendRows(k) \/ ReadStatus(k)

PanelsNext == CatalogSteps \/ RestoreSteps \/ SwitchSteps \/ ProgressSteps

-----------------------------------------------------------------------------
\* With one site's requests under way at a time and none of them lost, the updates shown
\* are those of the site that is chosen, and core is called up to date only when the site
\* is, or a core update was done on some site before.
CatalogIsOfItsSite ==
  panel = "catalog" /\ requests = {} /\ ~seen.mixed =>
    /\ seen.list = seen.chosen /\ seen.site = seen.chosen
    /\ seen.core = "new" => held[seen.site] = "new" \/ seen.updated

\* "The action tied to this restore point has been reverted on your site" claims more than
\* there is.  When it is shown, the order that undoes the action is in the queue of the site
\* if the action has an inverse, and nothing is undone if it has none; not even that is
\* known when the dialog was opened while another point's request was under way.
RestoreIsQueued ==
  panel = "restore" /\ seen.step = 2 /\ seen.target # Absent /\ ~seen.crossed
    => seen.target \in Points /\ (seen.target \in Invertible => seen.target \in held)

\* At rest the kill switch shows what is stored, unless an answer was lost on its way.
SwitchIsStored ==
  panel = "switch" /\ ~seen.saving /\ ~seen.lost => seen.active = held

\* What the progress stream has sent is the beginning of the audit log, without a hole,
\* though its rounds overlap.
ProgressHasNoHole ==
  panel = "progress" => \E n \in 0 .. held.rows : seen.rows = 1 .. n

PanelsAreTruthful ==
  CatalogIsOfItsSite /\ RestoreIsQueued /\ SwitchIsStored /\ ProgressHasNoHole
=============================================================================
