------------------------------ MODULE SiteLink ------------------------------
(***************************************************************************)
(* What passes between a site and the control plane of the site's own      *)
(* accord, and what the control plane concludes from its silence:          *)
(*   packages/plugin/core/Heartbeat.php, EventQueue.php, ErrorCapture.php  *)
(*   packages/plugin/mu-watchdog/SyntaxWPWatchdog.php   the second reporter *)
(*   apps/api/src/auth/site-auth.ts, middleware/rate-limit.ts              *)
(*   apps/api/src/routes/sites.ts       POST heartbeat, events             *)
(*   apps/api/src/worker/tasks/heartbeat-drift.ts, site-auth-nonce-prune.ts *)
(*                                                                         *)
(* Time is counted in heartbeat intervals and kept as ages, which stop at  *)
(* a bound past which nothing looks at them.                               *)
(***************************************************************************)
EXTENDS Integers

CONSTANTS
  Window,    \* how old, or how far ahead, a request's timestamp may be
  Drift,     \* how long a site may be silent
  RateMax,   \* requests of a class in one interval
  Slots,     \* requests under way at the same time
  Events,    \* what may happen on the site
  Links      \* the kinds of site considered

LinkKinds ==
  [skew : Int,                                  \* how far the site's clock is ahead
   does : SUBSET {"beat", "events", "watchdog", "outage", "drift", "delete"},
   faults : SUBSET {"lost", "copied", "died", "overlap"},
   toggles : Nat]                               \* bound: changes of the kill switch

ASSUME LinkAssumption ==
  /\ Window \in Nat /\ Drift \in Nat /\ RateMax \in Nat \ {0}
  /\ Links \subseteq LinkKinds

VARIABLES
  link,        \* what does not change
  up,          \* the site runs and has visitors
  known,       \* the control plane has the site
  wanted,      \* the kill switch as the dashboard set it
  switch,      \* the kill switch of the plugin
  pending,     \* option syntaxwp_pending_events
  pusher,      \* a page load that adds an event to it
  pushed,      \* the events that happened
  dropped,     \* those that one page load lost for another
  recorded,    \* those in the audit log
  calls,       \* requests under way, and what the control plane keeps for them
  beatAge,     \* since the site last sent a heartbeat
  lastBeat,    \* since the control plane last recorded one
  rates,       \* rate limiter, per class
  alarm,       \* the incident <site>_heartbeat_drift
  drift,       \* what the drift check has read
  toggles, linkFaults

linkVars == <<link, up, known, wanted, switch, pending, pusher, pushed, dropped, recorded, calls,
              beatAge, lastBeat, rates, alarm, drift, toggles, linkFaults>>

-----------------------------------------------------------------------------
Classes == {"heartbeat", "events"}
NoNonce == -1
Free == [kind |-> "free"]
Call ==
  [kind : Classes, content : SUBSET Events,
   age : Int,                       \* server clock minus timestamp
   copies : 0 .. 2,                 \* on the network
   nonce : {NoNonce} \cup Nat,      \* age of its row in site_auth_nonces
   at : {"network", "handler"}, seen : BOOLEAN,
   served : BOOLEAN,
   reply : {"none", "ok", "refused"}, waiting : BOOLEAN]
NoPusher == [copy |-> {}, event |-> "none"]

LinkTypeOK ==
  /\ link \in Links
  /\ up \in BOOLEAN /\ known \in BOOLEAN /\ wanted \in BOOLEAN /\ switch \in BOOLEAN
  /\ pending \subseteq Events /\ pushed \subseteq Events
  /\ dropped \subseteq Events /\ recorded \subseteq Events
  /\ pusher \in {NoPusher} \cup [copy : SUBSET Events, event : Events]
  /\ calls \in [Slots -> {Free} \cup Call]
  /\ beatAge \in 0 .. 1 /\ lastBeat \in 0 .. Drift + 1
  /\ rates \in [Classes -> [count : 0 .. RateMax, age : 0 .. 1]]
  /\ alarm \in {"none", "open", "resolved"}
  /\ drift \in {"idle", "quiet", "gap"}
  /\ toggles \in Nat
  /\ linkFaults \subseteq {"lost", "copied", "died", "overlap"}

LinkInit(kinds) ==
  /\ link \in kinds
  /\ up = TRUE /\ known = TRUE /\ wanted = FALSE /\ switch = FALSE
  /\ pending = {} /\ pusher = NoPusher /\ pushed = {} /\ dropped = {} /\ recorded = {}
  /\ calls = [i \in Slots |-> Free]
  /\ beatAge = 1 /\ lastBeat = 0
  /\ rates = [c \in Classes |-> [count |-> 0, age |-> 1]]
  /\ alarm = "none" /\ drift = "idle"
  /\ toggles = 0 /\ linkFaults = {}

Befalls(f) == f \in link.faults \ linkFaults /\ linkFaults' = linkFaults \cup {f}

Used(i) == calls[i] # Free

\* A request of which no copy is left and for which nobody waits is forgotten, its nonce
\* with it, unless the network may still come up with a copy that is in time.
Kept(call) ==
  IF /\ call.copies = 0 /\ call.at = "network" /\ ~call.waiting
     /\ "copied" \notin link.faults \ linkFaults \/ call.age > Window
  THEN Free ELSE call

SiteFrame == UNCHANGED <<link, up, pusher, pushed>>
OptionFrame == UNCHANGED <<pending, dropped>>
PlaneFrame == UNCHANGED <<known, wanted, recorded, lastBeat, rates, alarm, drift, toggles>>

-----------------------------------------------------------------------------
(***************************************************************************)
(* The site.                                                               *)
(***************************************************************************)
Send(i, kind, content, waits) ==
  /\ ~Used(i) /\ \A j \in Slots : j < i => Used(j)
  /\ calls' = [calls EXCEPT ![i] =
       [kind |-> kind, content |-> content, age |-> 0 - link.skew, copies |-> 1,
        nonce |-> NoNonce, at |-> "network", seen |-> FALSE, served |-> FALSE,
        reply |-> "none", waiting |-> waits]]

Beat(i) ==
  /\ up /\ "beat" \in link.does
  /\ beatAge' = 0
  /\ Send(i, "heartbeat", {}, TRUE)
  /\ UNCHANGED switch /\ SiteFrame /\ OptionFrame /\ PlaneFrame

\* A page load finds that a heartbeat is due; so may a second one at the same time.
SendHeartbeat(i) == beatAge >= 1 /\ Beat(i) /\ UNCHANGED linkFaults
SendHeartbeatTwice(i) == beatAge = 0 /\ Befalls("overlap") /\ Beat(i)

\* An event is added in two steps: the option is read, and written back.
PushRead(e) ==
  /\ up /\ "events" \in link.does
  /\ pusher = NoPusher /\ e \notin pushed
  /\ pushed' = pushed \cup {e}
  /\ pusher' = [copy |-> pending, event |-> e]
  /\ UNCHANGED <<link, up, switch, calls, beatAge, linkFaults>> /\ OptionFrame /\ PlaneFrame

PushWrite ==
  /\ pusher # NoPusher
  /\ pending' = pusher.copy \cup {pusher.event}
  /\ dropped' = dropped \cup (pending \ pending')
  /\ pusher' = NoPusher
  /\ UNCHANGED <<link, up, pushed, switch, calls, beatAge, linkFaults>> /\ PlaneFrame

\* Every page load that finds events sends all of them.
Flush(i) ==
  /\ up /\ pending # {}
  /\ Send(i, "events", pending, TRUE)
  /\ UNCHANGED <<switch, beatAge, linkFaults>> /\ SiteFrame /\ OptionFrame /\ PlaneFrame

\* The watchdog reports a fatal error itself, waits for no answer and keeps nothing.
ReportEvent(i, e) ==
  /\ up /\ "watchdog" \in link.does /\ e \notin pushed
  /\ pushed' = pushed \cup {e} /\ dropped' = dropped \cup {e}
  /\ Send(i, "events", {e}, FALSE)
  /\ UNCHANGED <<link, up, pusher, pending, switch, beatAge, linkFaults>> /\ PlaneFrame

Heard(i) == Used(i) /\ calls[i].waiting /\ calls[i].reply # "none"
Settled(i) == [calls EXCEPT ![i] = Kept([@ EXCEPT !.waiting = FALSE])]

\* Fault: a switch that is on is never taken back.
HearHeartbeatOnce(i) ==
  /\ Heard(i) /\ calls[i].kind = "heartbeat"
  /\ switch' = (switch \/ (calls[i].reply = "ok" /\ calls[i].seen))
  /\ calls' = Settled(i)
  /\ UNCHANGED <<beatAge, linkFaults>> /\ SiteFrame /\ OptionFrame /\ PlaneFrame

\* A heartbeat's answer is taken at its word, and the word of a refusal is "not active".
HearHeartbeat(i) ==
  /\ Heard(i) /\ calls[i].kind = "heartbeat"
  /\ switch' = (calls[i].reply = "ok" /\ calls[i].seen)
  /\ calls' = Settled(i)
  /\ UNCHANGED <<beatAge, linkFaults>> /\ SiteFrame /\ OptionFrame /\ PlaneFrame

\* Fault: the status of the answer is not looked at.
HearEventsUnchecked(i) ==
  /\ Heard(i) /\ calls[i].kind = "events"
  /\ pending' = {} /\ dropped' = dropped \cup (pending \ calls[i].content)
  /\ calls' = Settled(i)
  /\ UNCHANGED <<switch, beatAge, linkFaults>> /\ SiteFrame /\ PlaneFrame

\* The option is deleted once its events have arrived, whatever it holds by then.
HearEvents(i) ==
  /\ Heard(i) /\ calls[i].kind = "events"
  /\ IF calls[i].reply = "ok"
     THEN pending' = {} /\ dropped' = dropped \cup (pending \ calls[i].content)
     ELSE OptionFrame
  /\ calls' = Settled(i)
  /\ UNCHANGED <<switch, beatAge, linkFaults>> /\ SiteFrame /\ PlaneFrame

NothingComes(i) == calls[i].copies = 0 /\ calls[i].at = "network" /\ calls[i].reply = "none"

\* No answer in time: nothing changes.
Timeout(i) ==
  /\ Used(i) /\ calls[i].waiting /\ NothingComes(i)
  /\ calls' = Settled(i)
  /\ UNCHANGED <<switch, beatAge, linkFaults>> /\ SiteFrame /\ OptionFrame /\ PlaneFrame

\* The answer is lost, or comes too late.
LoseAnswer(i) ==
  /\ Used(i) /\ calls[i].waiting /\ ~NothingComes(i) /\ Befalls("lost")
  /\ calls' = Settled(i)
  /\ UNCHANGED <<switch, beatAge>> /\ SiteFrame /\ OptionFrame /\ PlaneFrame

-----------------------------------------------------------------------------
(***************************************************************************)
(* The network and the control plane.                                      *)
(***************************************************************************)
NetFrame == UNCHANGED <<switch, beatAge>> /\ SiteFrame /\ OptionFrame

Copy(i) ==
  /\ Used(i) /\ calls[i].copies \in {0, 1} /\ Befalls("copied")
  /\ calls' = [calls EXCEPT ![i].copies = @ + 1]
  /\ NetFrame /\ PlaneFrame

Lose(i) ==
  /\ Used(i) /\ calls[i].copies > 0 /\ Befalls("lost")
  /\ calls' = [calls EXCEPT ![i] = Kept([@ EXCEPT !.copies = 0])]
  /\ NetFrame /\ PlaneFrame

Answered(call, reply) ==
  [call EXCEPT !.reply = IF call.waiting /\ @ = "none" THEN reply ELSE @]

\* verifySiteAuth: the timestamp, the site, the signature, and the nonce, whose insert
\* fails if it is there already.
Authentic(call) ==
  /\ call.age \in -Window .. Window /\ known
  /\ call.nonce = NoNonce

VerifySiteAuth(i) ==
  /\ Used(i) /\ calls[i].copies > 0 /\ calls[i].at = "network"
  /\ LET call == [calls[i] EXCEPT !.copies = @ - 1] IN
     calls' = [calls EXCEPT ![i] =
       IF Authentic(call) THEN [call EXCEPT !.nonce = 0, !.at = "handler", !.seen = wanted]
       ELSE Kept(Answered(call, "refused"))]
  /\ UNCHANGED linkFaults /\ NetFrame /\ PlaneFrame

Rate(c) == IF rates[c].age >= 1 THEN [count |-> 0, age |-> 0] ELSE rates[c]
\* Fault: the limiter lets one request more through.
BarelyWithinRate(c) == Rate(c).count <= RateMax
WithinRate(c) == Rate(c).count < RateMax
Done(i, reply) == calls' = [calls EXCEPT ![i] = Kept([Answered(@, reply) EXCEPT !.at = "network"])]

\* Past the limiter's count a request is refused, its nonce spent.
LimitRate(i) ==
  /\ Used(i) /\ calls[i].at = "handler"
  /\ ~WithinRate(calls[i].kind)
  /\ Done(i, "refused")
  /\ UNCHANGED linkFaults /\ NetFrame /\ PlaneFrame

\* The handler: a heartbeat is recorded, or every event gets its row in the audit log.
Serve(i) ==
  /\ Used(i) /\ calls[i].at = "handler"
  /\ LET c == calls[i].kind IN
     /\ WithinRate(c)
     /\ rates' = [rates EXCEPT ![c] = [Rate(c) EXCEPT !.count = @ + 1]]
     /\ lastBeat' = IF c = "heartbeat" THEN 0 ELSE lastBeat
  /\ calls' = [calls EXCEPT ![i] =
       Kept([Answered(@, "ok") EXCEPT !.at = "network", !.served = TRUE])]
  /\ recorded' = recorded \cup calls[i].content
  /\ UNCHANGED <<known, wanted, alarm, drift, toggles, linkFaults>> /\ NetFrame

\* The API process dies between two events: those before are recorded, nobody is told.
DieServing(i) ==
  /\ Used(i) /\ calls[i].at = "handler" /\ Befalls("died")
  /\ calls' = [calls EXCEPT ![i] = Kept([@ EXCEPT !.at = "network"])]
  /\ \E some \in SUBSET calls[i].content : recorded' = recorded \cup some
  /\ rates' = [c \in Classes |-> [count |-> 0, age |-> 1]]
  /\ UNCHANGED <<known, wanted, lastBeat, alarm, drift, toggles>> /\ NetFrame

\* Fault: the prune job takes rows that are still within the window.
PruneNoncesEarly ==
  /\ \E i \in Slots : Used(i) /\ calls[i].nonce >= Window - 1
  /\ calls' = [i \in Slots |->
       IF Used(i) /\ calls[i].nonce >= Window - 1 THEN [calls[i] EXCEPT !.nonce = NoNonce]
       ELSE calls[i]]
  /\ UNCHANGED linkFaults /\ NetFrame /\ PlaneFrame

\* The prune job: rows older than the window, by the time they were written.
PruneNonces ==
  /\ \E i \in Slots : Used(i) /\ calls[i].nonce > Window
  /\ calls' = [i \in Slots |->
       IF Used(i) /\ calls[i].nonce > Window THEN [calls[i] EXCEPT !.nonce = NoNonce]
       ELSE calls[i]]
  /\ UNCHANGED linkFaults /\ NetFrame /\ PlaneFrame

\* The drift check: it reads when the site was last heard of ...
DriftRead ==
  /\ drift = "idle" /\ known /\ "drift" \in link.does
  /\ drift' = IF lastBeat > Drift THEN "gap" ELSE "quiet"
  /\ UNCHANGED <<known, wanted, recorded, lastBeat, rates, alarm, toggles, calls, linkFaults>>
  /\ NetFrame

\* Fault: an alarm stays open once raised.
DriftActUnresolving ==
  /\ drift # "idle" /\ drift' = "idle"
  /\ alarm' = IF drift = "gap" /\ alarm = "none" /\ known THEN "open" ELSE alarm
  /\ UNCHANGED <<known, wanted, recorded, lastBeat, rates, toggles, calls, linkFaults>>
  /\ NetFrame

\* ... and then looks at the alarm.  One that was resolved is never raised again: its
\* fingerprint is taken.
DriftAct ==
  /\ drift # "idle" /\ drift' = "idle"
  /\ alarm' = IF drift = "gap" /\ alarm = "none" /\ known THEN "open"
              ELSE IF drift = "quiet" /\ alarm = "open" THEN "resolved" ELSE alarm
  /\ UNCHANGED <<known, wanted, recorded, lastBeat, rates, toggles, calls, linkFaults>>
  /\ NetFrame

ToggleKillSwitch ==
  /\ known /\ toggles < link.toggles /\ toggles' = toggles + 1
  /\ wanted' = ~wanted
  /\ UNCHANGED <<known, recorded, lastBeat, rates, alarm, drift, calls, linkFaults>> /\ NetFrame

\* A deleted site takes its incidents and nonces along.
DeleteSite ==
  /\ known /\ "delete" \in link.does
  /\ known' = FALSE /\ alarm' = "none"
  /\ calls' = [i \in Slots |->
       IF Used(i) THEN [calls[i] EXCEPT !.nonce = NoNonce] ELSE Free]
  /\ UNCHANGED <<wanted, recorded, lastBeat, rates, drift, toggles, linkFaults>> /\ NetFrame

-----------------------------------------------------------------------------
(***************************************************************************)
(* Time and the surroundings.                                              *)
(***************************************************************************)
Older(age, bound) == IF age < bound THEN age + 1 ELSE age
OlderCall(call) ==
  [call EXCEPT !.age = Older(@, Window + 1),
               !.nonce = IF @ = NoNonce THEN @ ELSE Older(@, Window + 1)]

UnderWay(i) == Used(i) /\ (calls[i].waiting \/ calls[i].at = "handler")

\* An interval passes: no request takes as long as two of them, and a site that is up
\* sends its heartbeat.
Tick ==
  /\ \A i \in Slots : UnderWay(i) => calls[i].age = 0 - link.skew
  /\ up /\ "beat" \in link.does /\ (\E i \in Slots : ~Used(i)) => beatAge = 0
  /\ calls' = [i \in Slots |-> IF Used(i) THEN Kept(OlderCall(calls[i])) ELSE Free]
  /\ beatAge' = 1
  /\ lastBeat' = IF "drift" \in link.does THEN Older(lastBeat, Drift + 1) ELSE lastBeat
  /\ rates' = [c \in Classes |-> [rates[c] EXCEPT !.age = 1]]
  /\ UNCHANGED <<switch, known, wanted, recorded, alarm, drift, toggles, linkFaults>>
  /\ SiteFrame /\ OptionFrame

\* The site goes down, or nobody visits it any more; and comes back.
Outage ==
  /\ "outage" \in link.does
  /\ up' = ~up
  /\ UNCHANGED <<link, pusher, pushed, switch, beatAge, calls, linkFaults>>
  /\ OptionFrame /\ PlaneFrame

CallSteps(i) ==
  \/ VerifySiteAuth(i) \/ LimitRate(i) \/ Serve(i)
  \/ HearHeartbeat(i) \/ HearEvents(i) \/ Timeout(i)
DriftSteps == DriftRead \/ DriftAct
LinkFaultSteps ==
  \/ \E i \in Slots : Copy(i) \/ Lose(i) \/ LoseAnswer(i) \/ DieServing(i) \/ SendHeartbeatTwice(i)
LinkOtherSteps ==
  \/ \E e \in Events : PushRead(e) \/ \E i \in Slots : ReportEvent(i, e)
  \/ ToggleKillSwitch \/ DeleteSite \/ Outage

LinkNext ==
  \/ \E i \in Slots : SendHeartbeat(i) \/ Flush(i) \/ CallSteps(i)
  \/ PushWrite \/ PruneNonces \/ DriftSteps \/ Tick
  \/ LinkFaultSteps \/ LinkOtherSteps

(***************************************************************************)
(* A site that has visitors sends what is due, a request goes its finite   *)
(* way to an answer or a timeout, the worker's cron runs, and time passes. *)
(***************************************************************************)
LinkFairness ==
  /\ SF_linkVars(Tick) /\ WF_linkVars(PushWrite)
  /\ SF_linkVars(\E i \in Slots : SendHeartbeat(i)) /\ SF_linkVars(\E i \in Slots : Flush(i))
  /\ \A i \in Slots : WF_linkVars(CallSteps(i))
  /\ WF_linkVars(DriftSteps)

\* The link on its own, without a word about what must happen.
LinkSpec == LinkInit(Links) /\ [][LinkNext]_linkVars

-----------------------------------------------------------------------------
\* A request that the network delivers twice is acted on once, as long as the site's
\* clock is not ahead of the control plane's: recordNonceIfUnused refuses the second,
\* and its row outlives the window in which the timestamp is good.
ServedOnce ==
  \A i \in Slots : Used(i) /\ calls[i].at = "handler" /\ link.skew <= 0 => ~calls[i].served

\* The clocks agree so well that a request is in time even when it takes an interval.
OnTime == link.skew \in 1 - Window .. Window
Settles == OnTime /\ link.does \cap {"outage", "delete"} = {}

\* The kill switch reaches the site: once the dashboard leaves it alone, the plugin's
\* copy comes to agree with it and stays so, whatever refusals, lost answers and
\* overlapping heartbeats came before.
SwitchArrives == Settles => <>[](switch = wanted)

\* The events of a site all end up in the audit log, but for those that the plugin's own
\* queue is known to lose (EventQueue reads and deletes its option without a lock, the
\* watchdog keeps nothing); a refused or unanswered delivery is tried again.
EventsArrive == Settles => <>[](pushed \subseteq recorded \cup dropped)

\* What a site that falls silent, and one that is back, call for.
Unalarmed == known /\ ~up /\ alarm = "none"
StillAlarmed == known /\ up /\ alarm = "open"

\* A site that falls silent for the first time raises the alarm, unless it comes back
\* first; one that is back sees its alarm resolved, though the check that looks and the
\* write that follows are two steps.
OutageIsAlarmed == OnTime /\ (Unalarmed \/ StillAlarmed) ~> ~Unalarmed /\ ~StillAlarmed
=============================================================================
