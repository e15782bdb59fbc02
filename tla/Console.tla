------------------------------ MODULE Console ------------------------------
(***************************************************************************)
(* The pages of the dashboard that keep a state of their own, and the API  *)
(* routes that feed them:                                                  *)
(*   apps/dashboard/lib/stream-context.tsx   GET /api/stream, /api/incidents *)
(*   apps/dashboard/app/settings/page.tsx    POST /api/settings, kill-switch *)
(*   apps/dashboard/app/updates/page.tsx     POST and GET /api/updates/...   *)
(*   apps/dashboard/components/shared/execution-stepper.tsx                  *)
(*                                                                         *)
(* A behaviour looks at one page.  server is what the database holds for   *)
(* it, shown what the browser shows, wire what is under way between them.  *)
(***************************************************************************)
EXTENDS Integers, SequencesExt

CONSTANTS
  Tiers,       \* settings of a site, as one value
  Slugs,       \* plugins with an update
  Named,       \* the slugs in whose audit rows a slug is found: those that contain it
  Pages,       \* the pages considered
  MaxVersion,  \* bound: changes of a site's incidents
  MaxMoves     \* bound: what the user does on each page

PageKinds == {"stream", "settings", "updates", "card"}
ASSUME ConsoleAssumption ==
  /\ Pages \subseteq PageKinds /\ MaxVersion \in Nat /\ MaxMoves \in [PageKinds -> Nat]
  /\ Tiers # {}
  /\ Named \in [Slugs -> SUBSET Slugs] /\ \A s \in Slugs : s \in Named[s]

VARIABLES page, server, shown, wire, moves
consoleVars == <<page, server, shown, wire, moves>>

Nothing == [at |-> "nothing"]
Two == 1 .. 2

\* One update being put together by the stream, and the stream of a site.
Sends == {Nothing} \cup [at : {"started"}] \cup [at : {"read"}, version : 0 .. MaxVersion]
Stages == {"diagnosing", "testing", "awaiting-approval", "declined", "resolved"}
Phases == {"awaiting", "deploying", "resolved", "declined", "restoring"}

Servers ==
  [stream |-> 0 .. MaxVersion,
   settings |-> [tier : Tiers, had : SUBSET Tiers],
   updates |-> [job : [Slugs -> {"none", "queued", "ended"}], log : SUBSET Slugs],
   card |-> Stages]
Showns ==
  [stream |-> [mine : BOOLEAN, version : 0 .. MaxVersion, stale : BOOLEAN],
   settings |-> [tier : Tiers, overlapped : BOOLEAN],
   updates |-> [batch : SUBSET Slugs, over : SUBSET Slugs, mixed : BOOLEAN],
   card |-> [stage : Stages, phase : Phases, late : BOOLEAN]]
Wires ==
  [stream |->
     [at : {"token", "open", "ended"}, sends : [Two -> Sends],
      written : Seq(0 .. MaxVersion), last : -1 .. MaxVersion, leak : BOOLEAN,
      refetch : {Nothing} \cup [at : {"asked"}]
                \cup [at : {"answered"}, version : 0 .. MaxVersion]],
   settings |-> [Two -> {Nothing} \cup
                        [at : {"sent", "applied", "failed"}, tier : Tiers, prev : Tiers]],
   updates |-> [post : {Nothing} \cup [at : {"sent", "failed", "done"}, left : SUBSET Slugs],
                polls : [Two -> {Nothing} \cup [at : {"asked"}, batch : SUBSET Slugs,
                                                left : SUBSET Slugs, seen : SUBSET Slugs]]],
   card |-> {Nothing} \cup [at : {"sent", "ok", "failed"},
                            what : {"approve", "decline", "rollback", "reconsider"}]]

ConsoleTypeOK ==
  /\ page \in Pages /\ moves \in 0 .. MaxMoves[page]
  /\ server \in Servers[page] /\ shown \in Showns[page]
  /\ wire \in Wires[page]

NewStream ==
  [at |-> "token", sends |-> [k \in Two |-> Nothing], written |-> <<>>, last |-> -1,
   leak |-> FALSE, refetch |-> Nothing]
Asked == [at |-> "asked"]
FirstTier == CHOOSE t \in Tiers : TRUE

ConsoleInit(kinds) ==
  /\ page \in kinds /\ moves = 0
  /\ server = [stream |-> 0,
               settings |-> [tier |-> FirstTier, had |-> {FirstTier}],
               updates |-> [job |-> [s \in Slugs |-> "none"], log |-> {}],
               card |-> "awaiting-approval"][page]
  /\ shown = [stream |-> [mine |-> FALSE, version |-> 0, stale |-> FALSE],
              settings |-> [tier |-> FirstTier, overlapped |-> FALSE],
              updates |-> [batch |-> {}, over |-> {}, mixed |-> FALSE],
              card |-> [stage |-> "awaiting-approval", phase |-> "awaiting", late |-> FALSE]][page]
  /\ wire = [stream |-> [NewStream EXCEPT !.refetch = Asked],
             settings |-> [k \in Two |-> Nothing],
             updates |-> [post |-> Nothing, polls |-> [k \in Two |-> Nothing]],
             card |-> Nothing][page]

ByUser == moves < MaxMoves[page] /\ moves' = moves + 1 /\ UNCHANGED page
ByItself == UNCHANGED <<page, moves>>

-----------------------------------------------------------------------------
(***************************************************************************)
(* The live stream.  sendUpdate reads, compares, writes and notes what it  *)
(* wrote; a notification may start one while another is under way.  What   *)
(* is written is shown at once.                                            *)
(***************************************************************************)
Started(st) ==
  IF \E k \in Two : st.sends[k] = Nothing
  THEN [st EXCEPT !.sends[CHOOSE k \in Two : st.sends[k] = Nothing] = [at |-> "started"]]
  ELSE st

\* A change of the site's incidents is announced, unless the notification is missed.
Change ==
  /\ page = "stream" /\ server < MaxVersion /\ server' = server + 1
  /\ UNCHANGED wire \/ (wire.at = "open" /\ wire' = Started(wire))
  /\ ByItself /\ UNCHANGED shown

SendRead(k) ==
  /\ page = "stream" /\ wire.sends[k].at = "started" /\ Len(wire.written) < 2
  /\ wire' = [wire EXCEPT !.sends[k] = [at |-> "read", version |-> server]]
  /\ ByItself /\ UNCHANGED <<server, shown>>

SendWrite(k) ==
  /\ page = "stream" /\ wire.sends[k].at = "read"
  /\ LET v == wire.sends[k].version
         st == [wire EXCEPT !.sends[k] = Nothing] IN
     \/ v = st.last /\ wire' = st /\ UNCHANGED shown
     \/ /\ v # st.last
        /\ wire' = [st EXCEPT !.written = Append(@, v)]
        /\ shown' = [mine |-> TRUE, version |-> v, stale |-> FALSE]
  /\ ByItself /\ UNCHANGED server

\* Writes are acknowledged in their order; only then is the payload remembered.
SendDone ==
  /\ page = "stream" /\ wire.written # <<>>
  /\ wire' = [wire EXCEPT !.last = Head(wire.written), !.written = Tail(@)]
  /\ ByItself /\ UNCHANGED <<server, shown>>

\* Fault: the poll stops once something has been sent.
PollOnce ==
  /\ page = "stream" /\ wire.at = "open" /\ wire.last = -1
  /\ wire' = Started(wire) /\ ByItself /\ UNCHANGED <<server, shown>>

\* "Poll only reconciles state if a DB trigger or network notification was missed."
Poll ==
  /\ page = "stream" /\ wire.at = "open"
  /\ wire' = Started(wire) /\ ByItself /\ UNCHANGED <<server, shown>>

\* The page has its token and connects.
Connect ==
  /\ page = "stream" /\ wire.at = "token"
  /\ wire' = Started([wire EXCEPT !.at = "open"])
  /\ ByItself /\ UNCHANGED <<server, shown>>

\* A network error is retried; a stream that the server ends is not.
Disconnect ==
  /\ page = "stream" /\ wire.at = "open" /\ ByUser
  /\ \E at \in {"token", "ended"} :
       wire' = [NewStream EXCEPT !.at = at, !.leak = wire.leak, !.refetch = wire.refetch]
  /\ UNCHANGED <<server, shown>>

\* Another site is chosen: abort, refetch, connect.  A connection whose abort came before
\* its token is opened all the same, and goes on showing the site left behind.
SwitchSite ==
  /\ page = "stream" /\ ByUser
  /\ shown' = [shown EXCEPT !.mine = FALSE]
  /\ wire' = [NewStream EXCEPT !.leak = wire.leak \/ wire.at = "token", !.refetch = Asked]
  /\ UNCHANGED server

ShowOtherSite ==
  /\ page = "stream" /\ wire.leak /\ ByUser
  /\ shown' = [shown EXCEPT !.mine = FALSE, !.stale = TRUE] /\ UNCHANGED <<server, wire>>

Refetch ==
  /\ page = "stream" /\ ByUser
  /\ wire' = [wire EXCEPT !.refetch = Asked] /\ UNCHANGED <<server, shown>>

AnswerRefetch ==
  /\ page = "stream" /\ wire.refetch.at = "asked"
  /\ wire' = [wire EXCEPT !.refetch = [at |-> "answered", version |-> server]]
  /\ ByItself /\ UNCHANGED <<server, shown>>

\* Only the newest refetch is shown; whether the stream was faster is not looked at.
ShowRefetch ==
  /\ page = "stream" /\ wire.refetch.at = "answered"
  /\ shown' = [mine |-> TRUE, version |-> wire.refetch.version,
               stale |-> wire.refetch.version < server]
  /\ wire' = [wire EXCEPT !.refetch = Nothing]
  /\ ByItself /\ UNCHANGED server

StreamSteps ==
  \/ Change \/ SendDone \/ Poll \/ Connect \/ AnswerRefetch \/ ShowRefetch
  \/ \E k \in Two : SendRead(k) \/ SendWrite(k)
StreamMoves == Disconnect \/ SwitchSite \/ ShowOtherSite \/ Refetch

-----------------------------------------------------------------------------
(***************************************************************************)
(* The settings form shows what was chosen before it is saved.             *)
(***************************************************************************)
Choose(k, t) ==
  /\ page = "settings" /\ wire[k] = Nothing /\ t # shown.tier /\ ByUser
  /\ wire' = [wire EXCEPT ![k] = [at |-> "sent", tier |-> t, prev |-> shown.tier]]
  /\ shown' = [tier |-> t, overlapped |-> shown.overlapped \/ \E j \in Two : wire[j] # Nothing]
  /\ UNCHANGED server

ApplySettings(k) ==
  /\ page = "settings" /\ wire[k].at = "sent"
  /\ server' = [tier |-> wire[k].tier, had |-> server.had \cup {wire[k].tier}]
  /\ wire' = [wire EXCEPT ![k].at = "applied"]
  /\ ByItself /\ UNCHANGED shown

\* The request is refused or lost, or its answer is.
FailSettings(k) ==
  /\ page = "settings" /\ wire[k].at \in {"sent", "applied"} /\ ByUser
  /\ wire' = [wire EXCEPT ![k].at = "failed"] /\ UNCHANGED <<server, shown>>

\* Fault: a failed save leaves the form as it is.
HearSettingsOnly(k) ==
  /\ page = "settings" /\ wire[k].at \in {"applied", "failed"}
  /\ wire' = [wire EXCEPT ![k] = Nothing] /\ ByItself /\ UNCHANGED <<server, shown>>

HearSettings(k) ==
  /\ page = "settings" /\ wire[k].at \in {"applied", "failed"}
  /\ shown' = IF wire[k].at = "failed" THEN [shown EXCEPT !.tier = wire[k].prev] ELSE shown
  /\ wire' = [wire EXCEPT ![k] = Nothing] /\ ByItself /\ UNCHANGED server

SettingsSteps == \E k \in Two : ApplySettings(k) \/ HearSettings(k)
SettingsMoves == \E k \in Two : FailSettings(k) \/ \E t \in Tiers : Choose(k, t)

-----------------------------------------------------------------------------
(***************************************************************************)
(* The updates page: a batch is queued, and the audit log is polled until  *)
(* every slug has an ending in it, which may be that of an earlier run.    *)
(***************************************************************************)
StartBatch(batch) ==
  /\ page = "updates" /\ batch # {} /\ wire.post = Nothing /\ ByUser
  /\ shown' = [batch |-> batch, over |-> {},
               mixed |-> \/ shown.batch # {} \/ \E k \in Two : wire.polls[k] # Nothing
                         \/ \E s \in batch : \E t \in Named[s] :
                              t \in server.log \cup (batch \ {s}) \/ server.job[t] = "queued"]
  /\ wire' = [wire EXCEPT !.post = [at |-> "sent", left |-> batch]]
  /\ UNCHANGED server

\* The route adds one job after the other, and may fail in between.
AddJob(s) ==
  /\ page = "updates" /\ wire.post.at = "sent" /\ s \in wire.post.left
  /\ server' = [server EXCEPT !.job[s] = "queued"]
  /\ wire' = [wire EXCEPT !.post.left = @ \ {s},
                          !.post.at = IF wire.post.left = {s} THEN "done" ELSE @]
  /\ ByItself /\ UNCHANGED shown

FailPost ==
  /\ page = "updates" /\ wire.post.at = "sent" /\ ByUser
  /\ wire' = [wire EXCEPT !.post.at = "failed"] /\ UNCHANGED <<server, shown>>

HearPost ==
  /\ page = "updates" /\ wire.post.at \in {"done", "failed"}
  /\ shown' = IF wire.post.at = "done" THEN shown ELSE [shown EXCEPT !.batch = {}]
  /\ wire' = [wire EXCEPT !.post = Nothing] /\ ByItself /\ UNCHANGED server

\* The safe update of a slug ends, well or badly, with one row in the audit log.
EndJob(s) ==
  /\ page = "updates" /\ server.job[s] = "queued"
  /\ server' = [job |-> [server.job EXCEPT ![s] = "ended"], log |-> server.log \cup {s}]
  /\ ByItself /\ UNCHANGED <<shown, wire>>

\* A quarter of an hour later the row is not looked at any more.
Expire(s) ==
  /\ page = "updates" /\ s \in server.log /\ server.job[s] # "queued" /\ shown.batch = {}
  /\ server' = [server EXCEPT !.log = @ \ {s}] /\ ByItself /\ UNCHANGED <<shown, wire>>

\* The interval does not wait for its last round of requests, and asks for each slug.
AskStatus(k) ==
  /\ page = "updates" /\ shown.batch # {} /\ wire.polls[k] = Nothing
  /\ \A j \in Two : j < k => wire.polls[j] # Nothing
  /\ wire' = [wire EXCEPT !.polls[k] = [at |-> "asked", batch |-> shown.batch,
                left |-> shown.batch, seen |-> {}]]
  /\ ByItself /\ UNCHANGED <<server, shown>>

\* The route looks for rows with the slug anywhere in their summary: LIKE %slug%.
HearStatus(k, s) ==
  /\ page = "updates" /\ wire.polls[k] # Nothing /\ s \in wire.polls[k].left
  /\ LET poll == wire.polls[k] IN
     \E found \in {{}} \cup {{s} : t \in server.log \cap Named[s]} :
       wire' = [wire EXCEPT !.polls[k] = [poll EXCEPT !.left = @ \ {s}, !.seen = @ \cup found]]
  /\ ByItself /\ UNCHANGED <<server, shown>>

AllOver(poll) == poll.seen = poll.batch

EndPoll(k) ==
  /\ page = "updates" /\ wire.polls[k] # Nothing /\ wire.polls[k].left = {}
  /\ wire' = [wire EXCEPT !.polls[k] = Nothing]
  /\ shown' = IF AllOver(wire.polls[k])
              THEN [shown EXCEPT !.over = @ \cup shown.batch, !.batch = {}]
              ELSE shown
  /\ ByItself /\ UNCHANGED server

UpdatesSteps ==
  \/ HearPost
  \/ \E s \in Slugs : AddJob(s) \/ EndJob(s) \/ Expire(s)
  \/ \E k \in Two : AskStatus(k) \/ EndPoll(k) \/ \E s \in Slugs : HearStatus(k, s)
UpdatesMoves == FailPost \/ \E batch \in SUBSET Slugs : StartBatch(batch)

-----------------------------------------------------------------------------
(***************************************************************************)
(* The card of an incident: the stage the stream reports, and the phase    *)
(* the card is in, which the buttons change as well.                       *)
(***************************************************************************)
PhaseOf(stage) ==
  CASE stage = "resolved" -> "resolved" [] stage = "declined" -> "declined"
    [] stage = "awaiting-approval" -> "awaiting" [] OTHER -> "deploying"

\* The fix pipeline, a detector or another user moves the incident.
MoveIncident ==
  /\ page = "card" /\ server' \in Stages \ {server} /\ ByUser /\ UNCHANGED <<shown, wire>>

\* The phase follows only a stage that differs from the last one seen.
SeeStage ==
  /\ page = "card" /\ server # shown.stage
  /\ shown' = [stage |-> server, phase |-> PhaseOf(server), late |-> FALSE]
  /\ ByItself /\ UNCHANGED <<server, wire>>

Actions == [approve |-> "awaiting", decline |-> "awaiting",
            rollback |-> "resolved", reconsider |-> "declined"]

Click(what) ==
  /\ page = "card" /\ wire = Nothing /\ shown.phase = Actions[what] /\ ByUser
  /\ what \in {"approve", "decline"} => shown.stage = "awaiting-approval"
  /\ wire' = [at |-> "sent", what |-> what]
  /\ shown' = [shown EXCEPT !.phase = CASE what = "approve" -> "deploying"
                                        [] what = "rollback" -> "restoring" [] OTHER -> @]
  /\ UNCHANGED server

Decided(what) ==
  CASE what = "approve" -> IF server = "resolved" THEN server ELSE "diagnosing"
    [] what = "decline" -> "declined" [] OTHER -> "awaiting-approval"

Handle ==
  /\ page = "card" /\ wire # Nothing /\ wire.at = "sent"
  /\ \/ wire' = [wire EXCEPT !.at = "failed"] /\ UNCHANGED server
     \/ /\ wire.what = "reconsider" => server = "declined"
        /\ server' = Decided(wire.what)
        /\ \E at \in {"ok", "failed"} : wire' = [wire EXCEPT !.at = at]
  /\ ByItself /\ UNCHANGED shown

HeardPhase(what, ok) ==
  CASE what = "approve" -> IF ok THEN shown.phase ELSE "awaiting"
    [] what = "rollback" -> IF ok THEN "awaiting" ELSE "resolved"
    [] what = "decline" -> IF ok THEN "declined" ELSE shown.phase
    [] OTHER -> IF ok THEN "awaiting" ELSE shown.phase

HearAction ==
  /\ page = "card" /\ wire # Nothing /\ wire.at # "sent"
  /\ shown' = [shown EXCEPT !.phase = HeardPhase(wire.what, wire.at = "ok"),
                            !.late = wire.what = "rollback" /\ shown.stage # "resolved"]
  /\ wire' = Nothing /\ ByItself /\ UNCHANGED server

CardSteps == SeeStage \/ Handle \/ HearAction
CardMoves == MoveIncident \/ \E what \in DOMAIN Actions : Click(what)

ConsoleSteps == StreamSteps \/ SettingsSteps \/ UpdatesSteps \/ CardSteps
ConsoleMoves == StreamMoves \/ SettingsMoves \/ UpdatesMoves \/ CardMoves
ConsoleNext == ConsoleSteps \/ ConsoleMoves

(***************************************************************************)
(* The API answers, an answer is shown, a token comes, and the stream's    *)
(* interval goes round.                                                    *)
(***************************************************************************)
ConsoleFairness ==
  /\ WF_consoleVars(SendDone) /\ WF_consoleVars(Connect) /\ WF_consoleVars(Poll)
  /\ \A k \in Two : WF_consoleVars(SendRead(k) \/ SendWrite(k))
  /\ WF_consoleVars(AnswerRefetch \/ ShowRefetch)

-----------------------------------------------------------------------------
\* A form never settles on a value that the control plane never had: a save that fails
\* is taken back (settings/page.tsx:196-198), unless another one was under way.
FormShowsApplied ==
  page = "settings" /\ (\A k \in Two : wire[k] = Nothing) /\ ~shown.overlapped
    => shown.tier \in server.had

\* "The batch is only done once every queued slug has reached a terminal event": true of
\* a batch that starts when nothing is under way, no slug of it has an ending in the log,
\* and no slug whose name contains that of another has one, is queued or is in the batch.
\* Of a batch in which one name contains another it is not true.
BatchIsOver ==
  page = "updates" /\ ~shown.mixed => \A s \in shown.over : server.job[s] # "queued"

\* "Server state is authoritative: approval only starts deployment": the card says that
\* an incident is fixed only when the server said so, unless a rollback failed after the
\* incident had moved on.
CardClaimsFixed ==
  page = "card" /\ shown.phase = "resolved" => shown.stage = "resolved" \/ shown.late

PagesAreTruthful == FormShowsApplied /\ BatchIsOver /\ CardClaimsFixed

Live == IF page = "stream" THEN wire.at = "open" ELSE FALSE
ShowsServer ==
  IF page = "stream" THEN shown.stale \/ (shown.mine /\ shown.version = server) ELSE TRUE

\* While its stream stays open, the page comes to show what the database holds, whatever
\* updates overlapped and notifications were missed; a stale answer that overtakes the
\* stream, and the stream of the site left behind, are the two exceptions.
ViewCatchesUp == <>[]Live => <>[]ShowsServer
=============================================================================
