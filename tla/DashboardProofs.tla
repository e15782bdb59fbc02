--------------------------- MODULE DashboardProofs ---------------------------
(***************************************************************************)
(* What is proved about the pages of the dashboard: that what they show is *)
(* true, for every number of sites, restore points, plugins, settings and  *)
(* rows, and for as many clicks as the user likes.                         *)
(***************************************************************************)
EXTENDS Console, Panels, Reports, FiniteSetTheorems, TLAPS

ConsoleSpec == ConsoleInit(Pages) /\ [][ConsoleNext]_consoleVars
PanelsSpec == PanelsInit(Panels) /\ [][PanelsNext]_panelVars
ReportsSpec == ReportsInit(Topics) /\ [][ReportsNext]_reportVars

-----------------------------------------------------------------------------
(***************************************************************************)
(* The panels.                                                             *)
(***************************************************************************)

\* A behaviour looks at one panel, and only that panel's steps are taken.
LEMMA PanelStays ==
  ASSUME PanelsNext
  PROVE  /\ panel' = panel
         /\ panel = "catalog" => CatalogSteps
         /\ panel = "restore" => RestoreSteps
         /\ panel = "switch" => SwitchSteps
         /\ panel = "progress" => ProgressSteps
<1> USE DEF ByHand, Quietly
<1>1. CatalogSteps => panel = "catalog" /\ panel' = panel
  BY DEF CatalogSteps, CheckAgain, UpdateCore, FailRequest, Select, SyncSite, HearSync, HearList,
     AnswerSite, CoreAtSite, HearCore, HearSite
<1>2. RestoreSteps => panel = "restore" /\ panel' = panel
  BY DEF RestoreSteps, closeRestoreModal, triggerRestore, triggerBackup, OpenDialog, Revert,
     HearRevert
<1>3. SwitchSteps => panel = "switch" /\ panel' = panel
  BY DEF SwitchSteps, toggleKillSwitch, SetSwitch, HearSwitch
<1>4. ProgressSteps => panel = "progress" /\ panel' = panel
  BY DEF ProgressSteps, WriteRow, EndIncident, ReadRows, SendRows, ReadStatus
<1> QED
  BY <1>1, <1>2, <1>3, <1>4 DEF PanelsNext

\* The kill switch: what was asked for is shown while it is under way, and what is stored is
\* the opposite until it is set.
SwitchInv ==
  /\ held \in BOOLEAN
  /\ seen \in [active : BOOLEAN, saving : BOOLEAN, lost : BOOLEAN]
  /\ requests \in [at : {"none"}] \cup [at : {"sent", "ok", "failed"}, active : BOOLEAN]
  /\ seen.saving <=> requests.at # "none"
  /\ requests.at = "none" /\ ~seen.lost => seen.active = held
  /\ requests.at = "sent" => seen.active = requests.active
  /\ requests.at = "ok" => seen.active = requests.active /\ held = requests.active /\ ~seen.lost
  /\ requests.at \in {"sent", "failed"} /\ ~seen.lost => held = ~requests.active

LEMMA SwitchStep == SwitchInv /\ SwitchSteps => SwitchInv'
<1> SUFFICES ASSUME SwitchInv, SwitchSteps PROVE SwitchInv'
  OBVIOUS
<1> USE DEF SwitchInv
<1>1. CASE toggleKillSwitch
  <2>1. /\ held' = held /\ seen'.active = ~seen.active /\ seen'.saving /\ seen'.lost = seen.lost
        /\ seen' \in [active : BOOLEAN, saving : BOOLEAN, lost : BOOLEAN]
    BY <1>1 DEF toggleKillSwitch
  <2>2. requests' = [at |-> "sent", active |-> ~seen.active] /\ requests.at = "none"
    BY <1>1 DEF toggleKillSwitch
  <2> QED
    BY <2>1, <2>2
<1>2. CASE SetSwitch
  <2>1. requests \in [at : {"sent", "ok", "failed"}, active : BOOLEAN] /\ requests.at = "sent"
    BY <1>2 DEF SetSwitch
  <2>2. PICK at \in {"ok", "failed"}, applied \in BOOLEAN :
          /\ at = "ok" => applied
          /\ held' = IF applied THEN requests.active ELSE held
          /\ requests' = [requests EXCEPT !.at = at]
          /\ seen' = [seen EXCEPT !.lost = at = "failed" /\ (applied \/ @)]
    BY <1>2 DEF SetSwitch
  <2>3. /\ requests' \in [at : {"sent", "ok", "failed"}, active : BOOLEAN]
        /\ requests'.at = at /\ requests'.active = requests.active
    BY <2>1, <2>2
  <2>4. /\ seen' \in [active : BOOLEAN, saving : BOOLEAN, lost : BOOLEAN]
        /\ seen'.active = seen.active /\ seen'.saving = seen.saving
        /\ seen'.lost <=> at = "failed" /\ (applied \/ seen.lost)
    BY <2>2
  <2> QED
    BY <2>1, <2>2, <2>3, <2>4
<1>3. CASE HearSwitch
  <2>1. /\ held' = held /\ requests' = [at |-> "none"]
        /\ requests \in [at : {"sent", "ok", "failed"}, active : BOOLEAN]
        /\ requests.at \in {"ok", "failed"}
    BY <1>3 DEF HearSwitch
  <2>2. /\ seen' \in [active : BOOLEAN, saving : BOOLEAN, lost : BOOLEAN]
        /\ seen'.active = IF requests.at = "ok" THEN seen.active ELSE ~requests.active
        /\ ~seen'.saving /\ seen'.lost = seen.lost
    BY <1>3, <2>1 DEF HearSwitch
  <2> QED
    BY <2>1, <2>2
<1> QED
  BY <1>1, <1>2, <1>3 DEF SwitchSteps

\* The restore points: what was reported as done is queued if it can be, and while a dialog is
\* open that was opened with no other point's request under way, every request is for its point.
Dialogs == [points : SUBSET Shown, target : Shown \cup {Absent}, step : 0 .. 2,
            current : Shown \cup {Absent}, crossed : BOOLEAN]
Queued(p) == p \in Points /\ (p \in Invertible => p \in held)
RestoreInv ==
  /\ seen \in Dialogs
  /\ \A c \in requests : c.at = "ok" => Queued(c.of)
  /\ seen.target # Absent /\ ~seen.crossed =>
       /\ \A c \in requests : c.of = seen.target
       /\ seen.step = 2 => Queued(seen.target)

LEMMA RestoreStep == RestoreInv /\ RestoreSteps => RestoreInv'
<1> SUFFICES ASSUME RestoreInv, RestoreSteps PROVE RestoreInv'
  OBVIOUS
<1> USE DEF RestoreInv, Dialogs, Queued
<1>1. CASE closeRestoreModal
  <2>1. seen'.target = Absent /\ requests' = requests /\ held' = held
    BY <1>1 DEF closeRestoreModal
  <2>2. [seen EXCEPT !.target = Absent] \in Dialogs
    OBVIOUS
  <2>3. \A d \in Dialogs : [d EXCEPT !.step = 0] \in Dialogs
    OBVIOUS
  <2>4. seen' \in Dialogs
    BY <1>1, <2>2, <2>3 DEF closeRestoreModal
  <2> QED
    BY <2>1, <2>4
<1>2. CASE triggerRestore
  BY <1>2 DEF triggerRestore
<1>3. CASE triggerBackup
  BY <1>3 DEF triggerBackup, Shown
<1>4. ASSUME NEW p \in Shown, OpenDialog(p) PROVE RestoreInv'
  <2>1. /\ seen'.target = p /\ seen'.step = 0 /\ requests' = requests /\ held' = held
        /\ seen'.crossed <=> \E c \in requests : c.of # p
    BY <1>4 DEF OpenDialog
  <2>2. seen' \in Dialogs
    <3>1. \A d \in Dialogs : [d EXCEPT !.target = p] \in Dialogs
      OBVIOUS
    <3>2. \A d \in Dialogs : [d EXCEPT !.step = 0] \in Dialogs
      OBVIOUS
    <3>3. \A d \in Dialogs, b \in BOOLEAN : [d EXCEPT !.crossed = b] \in Dialogs
      OBVIOUS
    <3>4. (\E c \in requests : c.of # p) \in BOOLEAN
      OBVIOUS
    <3> HIDE DEF Dialogs
    <3> QED
      BY <1>4, <3>1, <3>2, <3>3, <3>4 DEF OpenDialog
  <2> QED
    BY <2>1, <2>2
<1>5. ASSUME NEW p \in Shown, Revert(p) PROVE RestoreInv'
  BY <1>5 DEF Revert
<1>6. ASSUME NEW p \in Shown, HearRevert(p) PROVE RestoreInv'
  <2>1. PICK at \in {"ok", "failed"} :
          /\ [of |-> p, at |-> at] \in requests
          /\ requests' = requests \ {[of |-> p, at |-> at]}
          /\ seen' = IF at = "ok" THEN [seen EXCEPT !.step = 2, !.current = p]
                     ELSE [seen EXCEPT !.step = 0]
    BY <1>6 DEF HearRevert
  <2>2. /\ seen'.target = seen.target /\ (seen'.crossed <=> seen.crossed)
        /\ at = "failed" => seen'.step = 0
        /\ held' = held
    BY <1>6, <2>1 DEF HearRevert
  <2>3. seen' \in Dialogs
    <3>1. \A d \in Dialogs, n \in 0 .. 2 : [d EXCEPT !.step = n] \in Dialogs
      OBVIOUS
    <3>2. \A d \in Dialogs : [d EXCEPT !.current = p] \in Dialogs
      OBVIOUS
    <3>3. seen \in Dialogs /\ 0 \in 0 .. 2 /\ 2 \in 0 .. 2
      OBVIOUS
    <3>4. [seen EXCEPT !.step = 2] \in Dialogs /\ [seen EXCEPT !.step = 0] \in Dialogs
      BY <3>1, <3>3
    <3>5. [[seen EXCEPT !.step = 2] EXCEPT !.current = p] \in Dialogs
      BY <3>2, <3>4
    <3> HIDE DEF Dialogs
    <3> QED
      BY <2>1, <3>4, <3>5
  <2>4. at = "ok" => Queued(p)
    <3>1. at = "ok" => [of |-> p, at |-> at] \in requests /\ [of |-> p, at |-> at].at = "ok"
      BY <2>1
    <3> QED
      BY <3>1
  <2>5. seen.target # Absent /\ ~seen.crossed => p = seen.target
    <3>1. [of |-> p, at |-> at] \in requests /\ [of |-> p, at |-> at].of = p
      BY <2>1
    <3> QED
      BY <3>1
  <2> QED
    BY <2>1, <2>2, <2>3, <2>4, <2>5
<1> QED
  BY <1>1, <1>2, <1>3, <1>4, <1>5, <1>6 DEF RestoreSteps

\* The progress: what was sent is the first n rows.  A round that was read begins at the next
\* row or before, so that it leaves no hole, and ends with the last row it read; and while the
\* stream is open its cursor is not ahead of what was sent.
Slice(from, to) == (from .. to) \ {0}
Sent(n) ==
  /\ seen.rows = 1 .. n
  /\ ~seen.closed => requests.cursor <= n
  /\ \A k \in 1 .. 2 : requests.rounds[k].at = "send" =>
       \E from \in 0 .. n + 1, to \in 0 .. held.rows : requests.rounds[k].rows = Slice(from, to)
AnyRound == [at : {"idle", "send", "status"}, rows : SUBSET Nat]
ProgressInv ==
  /\ held \in [rows : Nat, over : BOOLEAN]
  /\ seen \in [rows : SUBSET Nat, closed : BOOLEAN]
  /\ requests \in [cursor : Nat, rounds : [1 .. 2 -> AnyRound]]
  /\ \E n \in 0 .. held.rows : Sent(n)

LEMMA SliceMax ==
  ASSUME NEW from \in Nat, NEW to \in Nat, Slice(from, to) # {}
  PROVE  Max(Slice(from, to)) = to
<1>1. to \in Slice(from, to) /\ \A x \in Slice(from, to) : x <= to /\ x \in Nat
  BY DEF Slice
<1>2. \A y \in Slice(from, to) : (\A x \in Slice(from, to) : x <= y) => y = to
  BY <1>1
<1> QED
  BY <1>1, <1>2 DEF Max

\* A round that begins at the next row or before makes what was sent longer, without a hole.
LEMMA SliceFits ==
  ASSUME NEW n \in Nat, NEW from \in Nat, NEW to \in Nat, from <= n + 1
  PROVE  /\ to <= n => (1 .. n) \cup Slice(from, to) = 1 .. n
         /\ ~(to <= n) => (1 .. n) \cup Slice(from, to) = 1 .. to
<1>1. CASE to <= n
  <2>1. Slice(from, to) \subseteq 1 .. n
    BY <1>1 DEF Slice
  <2>2. (1 .. n) \cup Slice(from, to) = 1 .. n
    BY <2>1
  <2> QED
    BY <1>1, <2>2
<1>2. CASE ~(to <= n)
  <2>1. \A x \in Int : x \in 1 .. to <=> x \in 1 .. n \/ x \in Slice(from, to)
    BY <1>2 DEF Slice
  <2>2. (1 .. n) \cup Slice(from, to) = 1 .. to
    BY <2>1 DEF Slice
  <2> QED
    BY <1>2, <2>2
<1> QED
  BY <1>1, <1>2

LEMMA ProgressStep == ProgressInv /\ ProgressSteps => ProgressInv'
<1> SUFFICES ASSUME ProgressInv, ProgressSteps PROVE ProgressInv'
  OBVIOUS
<1> DEFINE Asks == [cursor : Nat, rounds : [1 .. 2 -> AnyRound]]
<1>a. /\ held \in [rows : Nat, over : BOOLEAN] /\ seen \in [rows : SUBSET Nat, closed : BOOLEAN]
      /\ requests \in Asks
  BY DEF ProgressInv
<1>b. \A k \in 1 .. 2, r \in AnyRound : LET new == [requests EXCEPT !.rounds[k] = r] IN
        /\ new \in Asks /\ new.cursor = requests.cursor /\ new.rounds[k] = r
        /\ \A j \in 1 .. 2 \ {k} : new.rounds[j] = requests.rounds[j]
  BY <1>a
<1>c. PICK n \in 0 .. held.rows : Sent(n)
  BY DEF ProgressInv
<1>1. CASE WriteRow
  <2>1. /\ seen' = seen /\ requests' = requests /\ held'.rows = held.rows + 1
        /\ held' \in [rows : Nat, over : BOOLEAN]
    BY <1>1, <1>a DEF WriteRow
  <2>2. n \in 0 .. held'.rows /\ \A x \in 0 .. held.rows : x \in 0 .. held'.rows
    BY <2>1, <1>a
  <2>3. Sent(n)'
    BY <2>1, <2>2, <1>c DEF Sent
  <2> QED
    BY <2>1, <2>2, <2>3, <1>a DEF ProgressInv
<1>2. CASE EndIncident
  <2>1. /\ seen' = seen /\ requests' = requests /\ held'.rows = held.rows
        /\ held' \in [rows : Nat, over : BOOLEAN]
    BY <1>2, <1>a DEF EndIncident
  <2>2. Sent(n)'
    BY <2>1, <1>c DEF Sent
  <2> QED
    BY <2>1, <2>2, <1>a DEF ProgressInv
<1>3. ASSUME NEW k \in 1 .. 2, ReadRows(k) PROVE ProgressInv'
  <2>1. PICK from \in {requests.cursor, requests.cursor + 1} :
          requests' = [requests EXCEPT !.rounds[k] =
                         [at |-> "send", rows |-> Slice(from, held.rows)]]
    BY <1>3 DEF ReadRows, Slice
  <2> DEFINE r == [at |-> "send", rows |-> Slice(from, held.rows)]
  <2>2. held' = held /\ seen' = seen /\ ~seen.closed
    BY <1>3 DEF ReadRows
  <2>3. from \in 0 .. n + 1 /\ held.rows \in 0 .. held.rows /\ r \in AnyRound
    <3>1. requests.cursor \in Nat /\ requests.cursor <= n /\ held.rows \in Nat
      BY <2>2, <1>a, <1>c DEF Sent
    <3>2. from \in Nat /\ from <= n + 1
      BY <3>1
    <3>3. Slice(from, held.rows) \subseteq Nat
      BY <3>1, <3>2 DEF Slice
    <3> QED
      BY <3>1, <3>2, <3>3 DEF AnyRound
  <2>4. /\ requests' \in Asks /\ requests'.cursor = requests.cursor /\ requests'.rounds[k] = r
        /\ \A j \in 1 .. 2 \ {k} : requests'.rounds[j] = requests.rounds[j]
    <3>1. requests' = [requests EXCEPT !.rounds[k] = r]
      BY <2>1
    <3> HIDE DEF r
    <3> QED
      BY <3>1, <2>3, <1>b
  <2>5. Sent(n)'
    BY <2>2, <2>3, <2>4, <1>c DEF Sent
  <2> QED
    BY <2>2, <2>4, <2>5, <1>a DEF ProgressInv
<1>4. ASSUME NEW k \in 1 .. 2, SendRows(k) PROVE ProgressInv'
  <2> DEFINE rows == requests.rounds[k].rows
             r == [at |-> "status", rows |-> {}]
             cursor == IF rows = {} THEN requests.cursor ELSE Max(rows)
  <2>1. /\ held' = held /\ seen' = [seen EXCEPT !.rows = IF seen.closed THEN @ ELSE @ \cup rows]
        /\ requests' = [cursor |-> cursor, rounds |-> [requests.rounds EXCEPT ![k] = r]]
    BY <1>4 DEF SendRows
  <2>2. PICK from \in 0 .. n + 1, to \in 0 .. held.rows : rows = Slice(from, to)
    BY <1>4, <1>c DEF SendRows, Sent
  <2>3. n \in Nat /\ from \in Nat /\ to \in Nat /\ held.rows \in Nat
    BY <1>a
  <2>4. cursor \in Nat /\ (rows # {} => cursor = to)
    <3>1. rows # {} => Max(rows) = to
      BY <2>2, <2>3, SliceMax
    <3> QED
      BY <3>1, <2>3, <1>a
  <2>5. rows \subseteq Nat /\ r \in AnyRound
    BY <2>2, <2>3 DEF Slice, AnyRound
  <2>6. seen' \in [rows : SUBSET Nat, closed : BOOLEAN] /\ (seen'.closed <=> seen.closed)
        /\ seen'.rows = IF seen.closed THEN seen.rows ELSE seen.rows \cup rows
    BY <2>1, <2>5, <1>a
  <2>7. /\ requests' \in Asks /\ requests'.cursor = cursor /\ requests'.rounds[k] = r
        /\ \A j \in 1 .. 2 \ {k} : requests'.rounds[j] = requests.rounds[j]
    <3> HIDE DEF r, cursor
    <3> QED
      BY <2>1, <2>4, <2>5, <1>a
  <2>8. CASE seen.closed
    <3>1. Sent(n)'
      BY <2>1, <2>6, <2>7, <2>8, <1>c DEF Sent
    <3> QED
      BY <3>1, <2>1, <2>6, <2>7, <1>a DEF ProgressInv
  <2>9. CASE ~seen.closed
    <3> DEFINE m == IF to <= n THEN n ELSE to
    <3>1. m \in Nat /\ n <= m /\ to <= m /\ (1 .. n) \cup Slice(from, to) = 1 .. m
      <4>1. from <= n + 1
        BY <2>3
      <4> HIDE DEF rows, r, cursor
      <4> QED
        BY <4>1, <2>3, SliceFits
    <3>2. m \in 0 .. held.rows /\ \A x \in 0 .. n + 1 : x \in 0 .. m + 1
      BY <2>3, <3>1
    <3>3. seen'.rows = 1 .. m
      BY <2>2, <2>6, <2>9, <3>1, <1>c DEF Sent
    <3>4. cursor <= m
      <4>1. requests.cursor <= n /\ requests.cursor \in Nat
        BY <2>9, <1>a, <1>c DEF Sent
      <4>2. CASE rows = {}
        BY <4>1, <4>2, <2>3, <3>1
      <4>3. CASE rows # {}
        BY <4>3, <2>2, <2>4, <3>1
      <4> QED
        BY <4>2, <4>3
    <3>5. \A j \in 1 .. 2 : requests'.rounds[j].at = "send" =>
            \E f \in 0 .. m + 1, t \in 0 .. held.rows : requests'.rounds[j].rows = Slice(f, t)
      <4> SUFFICES ASSUME NEW j \in 1 .. 2, requests'.rounds[j].at = "send"
                   PROVE  \E f \in 0 .. m + 1, t \in 0 .. held.rows :
                            requests'.rounds[j].rows = Slice(f, t)
        OBVIOUS
      <4>1. j # k /\ requests'.rounds[j] = requests.rounds[j]
        BY <2>7
      <4>2. PICK f \in 0 .. n + 1, t \in 0 .. held.rows : requests.rounds[j].rows = Slice(f, t)
        BY <4>1, <1>c DEF Sent
      <4> QED
        BY <4>1, <4>2, <3>2
    <3>6. Sent(m)'
      BY <2>1, <2>7, <3>3, <3>4, <3>5 DEF Sent
    <3> QED
      BY <3>2, <3>6, <2>1, <2>6, <2>7, <1>a DEF ProgressInv
  <2> QED
    BY <2>8, <2>9
<1>5. ASSUME NEW k \in 1 .. 2, ReadStatus(k) PROVE ProgressInv'
  <2>1. /\ held' = held /\ requests' = [requests EXCEPT !.rounds[k] = IdleRound]
        /\ seen' = [seen EXCEPT !.closed = @ \/ held.over]
    BY <1>5 DEF ReadStatus
  <2>2. seen' \in [rows : SUBSET Nat, closed : BOOLEAN] /\ seen'.rows = seen.rows
        /\ (seen.closed => seen'.closed)
    BY <2>1, <1>a
  <2>3. IdleRound \in AnyRound /\ IdleRound.at = "idle"
    BY DEF IdleRound, AnyRound
  <2>4. /\ requests' \in Asks /\ requests'.cursor = requests.cursor
        /\ requests'.rounds[k] = IdleRound
        /\ \A j \in 1 .. 2 \ {k} : requests'.rounds[j] = requests.rounds[j]
    BY <2>1, <2>3, <1>b
  <2>5. Sent(n)'
    BY <2>1, <2>2, <2>3, <2>4, <1>c DEF Sent
  <2> QED
    BY <2>1, <2>2, <2>4, <2>5, <1>a DEF ProgressInv
<1> QED
  BY <1>1, <1>2, <1>3, <1>4, <1>5 DEF ProgressSteps

\* The updates shown: while the requests of one site at a time were under way and none was
\* lost, every load is for the site that is chosen, and what is not shown yet of that site is
\* on its way; a site that answered that its core is new has it.
Loads == [of : Sites, what : {"sync", "synced", "list", "core", "cored", "refused"}]
Answers == [of : Sites, what : {"site"}, core : Core \cup {Absent}]
Views ==
  [chosen : Sites, list : Sites \cup {Absent}, site : Sites \cup {Absent},
   core : Core, updated : BOOLEAN, checking : BOOLEAN, mixed : BOOLEAN]
Pending(kinds) == \E c \in requests : c.what \in kinds

CatalogTyped ==
  /\ held \in [Sites -> Core] /\ seen \in Views /\ requests \in SUBSET (Loads \cup Answers)
CoreIsNew ==
  /\ \A c \in requests : c.what = "site" /\ c.core = "new" => held[c.of] = "new"
  /\ seen.core = "new" /\ ~seen.updated => seen.site \in Sites /\ held[seen.site] = "new"
OneSite ==
  /\ \A c \in requests : c.what \in {"sync", "synced", "list", "site"} => c.of = seen.chosen
  /\ seen.list = seen.chosen \/ Pending({"sync", "synced", "list"})
  /\ seen.site = seen.chosen \/ Pending({"sync", "synced", "site"})
CatalogInv == CatalogTyped /\ CoreIsNew /\ (~seen.mixed => OneSite)

LEMMA CatalogStep == CatalogInv /\ CatalogSteps => CatalogInv'
<1> SUFFICES ASSUME CatalogInv, CatalogSteps PROVE CatalogInv'
  OBVIOUS
<1> USE DEF CatalogInv
<1>a. \A s \in Sites, what \in {"sync", "synced", "list", "core", "cored", "refused"} :
        /\ Request(s, what) \in Loads /\ Request(s, what).of = s
        /\ Request(s, what).what = what
  BY DEF Request, Loads
<1>b. \A s \in Sites : Ask(s) \in Answers /\ Ask(s).of = s /\ Ask(s).what = "site"
                       /\ Ask(s).core = Absent
  BY DEF Ask, Answers
<1>c. \A s \in Sites, v \in Core : LET a == [Ask(s) EXCEPT !.core = v] IN
        a \in Answers /\ a.of = s /\ a.what = "site" /\ a.core = v
  BY DEF Ask, Answers
<1>d. Absent # "new" /\ Core = {"old", "new"}
  BY DEF Absent, Core
<1>1. ASSUME NEW s \in Sites, Select(s) PROVE CatalogInv'
  <2> DEFINE mixed == \E c \in requests : c.of # s
  <2>1. /\ held' = held /\ requests' = requests \cup {Request(s, "sync")}
        /\ seen' = [seen EXCEPT !.chosen = s, !.checking = TRUE, !.mixed = mixed]
    BY <1>1 DEF Select
  <2>2. /\ seen' \in Views /\ seen'.chosen = s /\ (seen'.mixed <=> mixed)
        /\ seen'.core = seen.core /\ seen'.updated = seen.updated /\ seen'.site = seen.site
    <3> DEFINE one == [seen EXCEPT !.chosen = s]
               two == [one EXCEPT !.checking = TRUE]
    <3>1. /\ one \in Views /\ one.chosen = s /\ one.core = seen.core
          /\ one.updated = seen.updated /\ one.site = seen.site
      BY DEF Views, CatalogTyped
    <3>2. /\ two \in Views /\ two.chosen = s /\ two.core = seen.core
          /\ two.updated = seen.updated /\ two.site = seen.site
      <4> HIDE DEF one
      <4> QED
        BY <3>1 DEF Views
    <3>3. seen' = [two EXCEPT !.mixed = mixed] /\ mixed \in BOOLEAN
      BY <2>1
    <3> HIDE DEF one, two, mixed
    <3> QED
      BY <3>2, <3>3 DEF Views
  <2>3. CatalogTyped'
    BY <2>1, <2>2, <1>a DEF CatalogTyped
  <2>4. CoreIsNew'
    BY <2>1, <2>2, <1>a DEF CoreIsNew
  <2>5. ~seen'.mixed => OneSite'
    BY <2>1, <2>2, <1>a DEF OneSite, Pending
  <2> QED
    BY <2>3, <2>4, <2>5
<1>2. CASE CheckAgain
  <2>1. /\ held' = held /\ requests' = requests \cup {Request(seen.chosen, "sync")}
        /\ seen' = [seen EXCEPT !.checking = TRUE] /\ seen.chosen \in Sites
    BY <1>2 DEF CheckAgain, CatalogTyped, Views
  <2>2. /\ seen' \in Views /\ seen'.chosen = seen.chosen /\ (seen'.mixed <=> seen.mixed)
        /\ seen'.core = seen.core /\ seen'.updated = seen.updated /\ seen'.site = seen.site
    BY <2>1 DEF CatalogTyped, Views
  <2>3. CatalogTyped'
    BY <2>1, <2>2, <1>a DEF CatalogTyped
  <2>4. CoreIsNew'
    BY <2>1, <2>2, <1>a DEF CoreIsNew
  <2>5. OneSite => OneSite'
    BY <2>1, <2>2, <1>a DEF OneSite, Pending
  <2> QED
    BY <2>2, <2>3, <2>4, <2>5
<1>3. ASSUME NEW s \in Sites, SyncSite(s) PROVE CatalogInv'
  <2>1. /\ held' = held /\ seen' = seen /\ Request(s, "sync") \in requests
        /\ requests' = (requests \ {Request(s, "sync")}) \cup {Request(s, "synced")}
    BY <1>3 DEF SyncSite
  <2>2. CatalogTyped'
    BY <2>1, <1>a DEF CatalogTyped
  <2>3. CoreIsNew'
    BY <2>1, <1>a DEF CoreIsNew
  <2>4. OneSite => OneSite'
    BY <2>1, <1>a DEF OneSite, Pending
  <2> QED
    BY <2>1, <2>2, <2>3, <2>4
<1>4. ASSUME NEW s \in Sites, HearSync(s) PROVE CatalogInv'
  <2>1. /\ held' = held /\ Request(s, "synced") \in requests
        /\ requests' = (requests \ {Request(s, "synced")}) \cup {Request(s, "list"), Ask(s)}
        /\ seen' = [seen EXCEPT !.checking = FALSE]
    BY <1>4 DEF HearSync
  <2>2. /\ seen' \in Views /\ seen'.chosen = seen.chosen /\ (seen'.mixed <=> seen.mixed)
        /\ seen'.core = seen.core /\ seen'.updated = seen.updated /\ seen'.site = seen.site
    BY <2>1 DEF CatalogTyped, Views
  <2>3. CatalogTyped'
    BY <2>1, <2>2, <1>a, <1>b DEF CatalogTyped
  <2>4. CoreIsNew'
    BY <2>1, <2>2, <1>a, <1>b, <1>d DEF CoreIsNew
  <2>5. OneSite => OneSite'
    BY <2>1, <2>2, <1>a, <1>b DEF OneSite, Pending
  <2> QED
    BY <2>2, <2>3, <2>4, <2>5
<1>5. ASSUME NEW s \in Sites, HearList(s) PROVE CatalogInv'
  <2>1. /\ held' = held /\ Request(s, "list") \in requests
        /\ requests' = requests \ {Request(s, "list")} /\ seen' = [seen EXCEPT !.list = s]
    BY <1>5 DEF HearList
  <2>2. /\ seen' \in Views /\ seen'.chosen = seen.chosen /\ (seen'.mixed <=> seen.mixed)
        /\ seen'.core = seen.core /\ seen'.updated = seen.updated /\ seen'.site = seen.site
        /\ seen'.list = s
    BY <2>1 DEF CatalogTyped, Views
  <2>3. CatalogTyped'
    BY <2>1, <2>2 DEF CatalogTyped
  <2>4. CoreIsNew'
    BY <2>1, <2>2 DEF CoreIsNew
  <2>5. OneSite => OneSite'
    BY <2>1, <2>2, <1>a DEF OneSite, Pending
  <2> QED
    BY <2>2, <2>3, <2>4, <2>5
<1>6. ASSUME NEW s \in Sites, AnswerSite(s) PROVE CatalogInv'
  <2> DEFINE answer == [Ask(s) EXCEPT !.core = held[s]]
  <2>1. /\ held' = held /\ seen' = seen /\ Ask(s) \in requests
        /\ requests' = (requests \ {Ask(s)}) \cup {answer}
    BY <1>6 DEF AnswerSite
  <2>2. answer \in Answers /\ answer.of = s /\ answer.what = "site" /\ answer.core = held[s]
    BY <1>c DEF CatalogTyped
  <2> HIDE DEF answer
  <2>3. CatalogTyped'
    BY <2>1, <2>2 DEF CatalogTyped
  <2>4. CoreIsNew'
    BY <2>1, <2>2 DEF CoreIsNew
  <2>5. OneSite => OneSite'
    BY <2>1, <2>2, <1>b DEF OneSite, Pending
  <2> QED
    BY <2>1, <2>3, <2>4, <2>5
<1>7. ASSUME NEW s \in Sites, NEW v \in Core, HearSite(s, v) PROVE CatalogInv'
  <2> DEFINE answer == [Ask(s) EXCEPT !.core = v]
  <2>1. /\ held' = held /\ answer \in requests /\ requests' = requests \ {answer}
        /\ seen' = [seen EXCEPT !.site = s, !.core = v]
    BY <1>7 DEF HearSite
  <2>2. answer \in Answers /\ answer.of = s /\ answer.what = "site" /\ answer.core = v
    BY <1>c
  <2>3. /\ seen' \in Views /\ seen'.chosen = seen.chosen /\ (seen'.mixed <=> seen.mixed)
        /\ seen'.core = v /\ seen'.updated = seen.updated /\ seen'.site = s
        /\ seen'.list = seen.list
    <3> DEFINE one == [seen EXCEPT !.site = s]
    <3>1. /\ one \in Views /\ one.chosen = seen.chosen /\ (one.mixed <=> seen.mixed)
          /\ one.updated = seen.updated /\ one.site = s /\ one.list = seen.list
      BY DEF Views, CatalogTyped
    <3>2. seen' = [one EXCEPT !.core = v]
      BY <2>1
    <3> HIDE DEF one
    <3> QED
      BY <3>1, <3>2 DEF Views
  <2> HIDE DEF answer
  <2>4. CatalogTyped'
    BY <2>1, <2>3 DEF CatalogTyped
  <2>5. CoreIsNew'
    BY <2>1, <2>2, <2>3 DEF CoreIsNew
  <2>6. OneSite => OneSite'
    BY <2>1, <2>2, <2>3 DEF OneSite, Pending
  <2> QED
    BY <2>3, <2>4, <2>5, <2>6
<1>8. ASSUME NEW c \in requests, FailRequest(c) PROVE CatalogInv'
  <2>1. /\ held' = held /\ requests' = requests \ {c} /\ seen' = [seen EXCEPT !.mixed = TRUE]
    BY <1>8 DEF FailRequest
  <2>2. /\ seen' \in Views /\ seen'.mixed
        /\ seen'.core = seen.core /\ seen'.updated = seen.updated /\ seen'.site = seen.site
    BY <2>1 DEF CatalogTyped, Views
  <2> QED
    BY <2>1, <2>2 DEF CatalogTyped, CoreIsNew
<1>9. CASE UpdateCore
  <2>1. /\ held' = held /\ seen' = seen /\ seen.site \in Sites
        /\ requests' = requests \cup {Request(seen.site, "core")}
    BY <1>9 DEF UpdateCore, CatalogTyped, Views
  <2>2. CatalogTyped'
    BY <2>1, <1>a DEF CatalogTyped
  <2>3. CoreIsNew'
    BY <2>1, <1>a DEF CoreIsNew
  <2>4. OneSite => OneSite'
    BY <2>1, <1>a DEF OneSite, Pending
  <2> QED
    BY <2>1, <2>2, <2>3, <2>4
<1>10. ASSUME NEW s \in Sites, CoreAtSite(s) PROVE CatalogInv'
  <2>1. PICK what \in {"cored", "refused"} :
          requests' = (requests \ {Request(s, "core")}) \cup {Request(s, what)}
    BY <1>10 DEF CoreAtSite
  <2>2. /\ seen' = seen /\ held' \in [Sites -> Core]
        /\ \A r \in Sites : held[r] = "new" => held'[r] = "new"
    BY <1>10, <1>d DEF CoreAtSite, CatalogTyped
  <2>3. CatalogTyped'
    BY <2>1, <2>2, <1>a DEF CatalogTyped
  <2>4. CoreIsNew'
    <3>1. \A c \in requests : c.of \in Sites
      BY DEF CatalogTyped, Loads, Answers
    <3> QED
      BY <2>1, <2>2, <3>1, <1>a DEF CoreIsNew
  <2>5. OneSite => OneSite'
    BY <2>1, <2>2, <1>a DEF OneSite, Pending
  <2> QED
    BY <2>2, <2>3, <2>4, <2>5
<1>11. ASSUME NEW s \in Sites, HearCore(s) PROVE CatalogInv'
  <2>1. PICK what \in {"cored", "refused"} :
          /\ requests' = requests \ {Request(s, what)}
          /\ seen' = IF what = "cored" THEN [seen EXCEPT !.updated = TRUE, !.core = "new"]
                     ELSE seen
    BY <1>11 DEF HearCore
  <2>2. held' = held
    BY <1>11 DEF HearCore
  <2>3. /\ seen' \in Views /\ seen'.chosen = seen.chosen /\ (seen'.mixed <=> seen.mixed)
        /\ seen'.list = seen.list /\ seen'.site = seen.site
        /\ seen'.updated \/ (seen'.core = seen.core /\ (seen'.updated <=> seen.updated))
    <3> DEFINE one == [seen EXCEPT !.updated = TRUE]
    <3>1. /\ one \in Views /\ one.chosen = seen.chosen /\ (one.mixed <=> seen.mixed)
          /\ one.updated /\ one.site = seen.site /\ one.list = seen.list
      BY DEF Views, CatalogTyped
    <3>2. what = "cored" => seen' = [one EXCEPT !.core = "new"]
      BY <2>1
    <3> HIDE DEF one
    <3> QED
      BY <2>1, <3>1, <3>2, <1>d DEF Views, CatalogTyped
  <2>4. CatalogTyped'
    BY <2>1, <2>2, <2>3 DEF CatalogTyped
  <2>5. CoreIsNew'
    BY <2>1, <2>2, <2>3 DEF CoreIsNew
  <2>6. OneSite => OneSite'
    BY <2>1, <2>3, <1>a DEF OneSite, Pending
  <2> QED
    BY <2>3, <2>4, <2>5, <2>6
<1> QED
  BY <1>1, <1>2, <1>3, <1>4, <1>5, <1>6, <1>7, <1>8, <1>9, <1>10, <1>11 DEF CatalogSteps

PanelsInv ==
  /\ panel = "catalog" => CatalogInv
  /\ panel = "restore" => RestoreInv
  /\ panel = "switch" => SwitchInv
  /\ panel = "progress" => ProgressInv

LEMMA PanelsInvInit ==
  ASSUME NEW kinds, PanelsInit(kinds)
  PROVE  PanelsInv
<1>1. ASSUME panel = "catalog" PROVE CatalogInv
  <2>1. PICK first \in Sites :
          /\ seen = [chosen |-> first, list |-> Absent, site |-> Absent, core |-> "old",
                     updated |-> FALSE, checking |-> TRUE, mixed |-> FALSE]
          /\ requests = {[of |-> first, what |-> "sync"]}
    BY <1>1 DEF PanelsInit
  <2>2. held = [s \in Sites |-> "old"]
    BY <1>1 DEF PanelsInit
  <2>3. CatalogTyped
    BY <2>1, <2>2 DEF CatalogTyped, Views, Loads, Answers, Core
  <2>4. CoreIsNew /\ OneSite
    BY <2>1 DEF CoreIsNew, OneSite, Pending
  <2> QED
    BY <2>3, <2>4 DEF CatalogInv
<1>2. ASSUME panel = "restore" PROVE RestoreInv
  <2>1. /\ seen = [points |-> Points, target |-> Absent, step |-> 0, current |-> Absent,
                   crossed |-> FALSE]
        /\ requests = {}
    BY <1>2 DEF PanelsInit
  <2> QED
    BY <2>1 DEF RestoreInv, Dialogs, Shown
<1>3. ASSUME panel = "switch" PROVE SwitchInv
  <2>1. /\ seen = [active |-> FALSE, saving |-> FALSE, lost |-> FALSE]
        /\ requests = [at |-> "none"] /\ held = FALSE
    BY <1>3 DEF PanelsInit
  <2> QED
    BY <2>1 DEF SwitchInv
<1>4. ASSUME panel = "progress" PROVE ProgressInv
  <2>1. /\ seen = [rows |-> {}, closed |-> FALSE] /\ held = [rows |-> 0, over |-> FALSE]
        /\ requests = [cursor |-> 0, rounds |-> [k \in 1 .. 2 |-> IdleRound]]
    BY <1>4 DEF PanelsInit
  <2>2. IdleRound \in AnyRound /\ IdleRound.at = "idle"
    BY DEF IdleRound, AnyRound
  <2>3. Sent(0)
    BY <2>1, <2>2 DEF Sent
  <2> QED
    BY <2>1, <2>2, <2>3 DEF ProgressInv
<1> QED
  BY <1>1, <1>2, <1>3, <1>4 DEF PanelsInv

LEMMA PanelsInvNext == PanelsInv /\ [PanelsNext]_panelVars => PanelsInv'
<1>1. PanelsInv /\ UNCHANGED panelVars => PanelsInv'
  <2> SUFFICES ASSUME PanelsInv, UNCHANGED panelVars PROVE PanelsInv'
    OBVIOUS
  <2>1. panel' = panel /\ held' = held /\ seen' = seen /\ requests' = requests
    BY DEF panelVars
  <2>2. CatalogInv => CatalogInv'
    BY <2>1 DEF CatalogInv, CatalogTyped, CoreIsNew, OneSite, Pending
  <2>3. RestoreInv => RestoreInv'
    BY <2>1 DEF RestoreInv, Queued
  <2>4. SwitchInv => SwitchInv'
    BY <2>1 DEF SwitchInv
  <2>5. ProgressInv => ProgressInv'
    BY <2>1 DEF ProgressInv, Sent
  <2> QED
    BY <2>1, <2>2, <2>3, <2>4, <2>5 DEF PanelsInv
<1> QED
  BY <1>1, PanelStays, CatalogStep, RestoreStep, SwitchStep, ProgressStep DEF PanelsInv

LEMMA PanelsInvSafe == PanelsInv => PanelsAreTruthful
<1>1. CatalogInv /\ panel = "catalog" => CatalogIsOfItsSite
  BY DEF CatalogInv, CoreIsNew, OneSite, Pending, CatalogIsOfItsSite
<1>2. RestoreInv /\ panel = "restore" => RestoreIsQueued
  BY DEF RestoreInv, Queued, RestoreIsQueued
<1>3. SwitchInv /\ panel = "switch" => SwitchIsStored
  BY DEF SwitchInv, SwitchIsStored
<1>4. ProgressInv /\ panel = "progress" => ProgressHasNoHole
  BY DEF ProgressInv, Sent, ProgressHasNoHole
<1> QED
  BY <1>1, <1>2, <1>3, <1>4 DEF PanelsInv, PanelsAreTruthful, CatalogIsOfItsSite,
     RestoreIsQueued, SwitchIsStored, ProgressHasNoHole

\* The list of updates is of the site that is chosen; when the action of a restore point is
\* called reverted the order that undoes it is queued, if there is one; the kill switch shows
\* what is stored; and the progress of an incident has no hole
\* (updates/page.tsx and app-shell.tsx, restore-points/page.tsx, settings/page.tsx, GET
\* /api/stepper/:incidentId), each with the exception that its definition names.
THEOREM PanelsTellTheTruth == PanelsSpec => []PanelsAreTruthful
<1>1. PanelsInit(Panels) => PanelsInv
  BY PanelsInvInit
<1> QED
  BY <1>1, PanelsInvNext, PanelsInvSafe, PTL DEF PanelsSpec

-----------------------------------------------------------------------------
(***************************************************************************)
(* The pages.                                                              *)
(***************************************************************************)

\* A behaviour looks at one page, and only that page's steps are taken.
LEMMA PageStays ==
  ASSUME ConsoleNext
  PROVE  /\ page' = page
         /\ page = "settings" => SettingsSteps \/ SettingsMoves
         /\ page = "updates" => UpdatesSteps \/ UpdatesMoves
         /\ page = "card" => CardSteps \/ CardMoves
<1> USE DEF ByUser, ByItself
<1>1. StreamSteps \/ StreamMoves => page = "stream" /\ page' = page
  BY DEF StreamSteps, StreamMoves, Change, SendDone, Poll, Connect, AnswerRefetch, ShowRefetch,
     SendRead, SendWrite, Disconnect, SwitchSite, ShowOtherSite, Refetch
<1>2. SettingsSteps \/ SettingsMoves => page = "settings" /\ page' = page
  BY DEF SettingsSteps, SettingsMoves, ApplySettings, HearSettings, FailSettings, Choose
<1>3. UpdatesSteps \/ UpdatesMoves => page = "updates" /\ page' = page
  BY DEF UpdatesSteps, UpdatesMoves, HearPost, AddJob, EndJob, Expire, AskStatus, EndPoll,
     HearStatus, FailPost, StartBatch
<1>4. CardSteps \/ CardMoves => page = "card" /\ page' = page
  BY DEF CardSteps, CardMoves, SeeStage, Handle, HearAction, MoveIncident, Click
<1> QED
  BY <1>1, <1>2, <1>3, <1>4 DEF ConsoleNext, ConsoleSteps, ConsoleMoves

\* The card: it says "resolved" when the stage is, or after a rollback that came too late, and
\* then nothing is under way.
CardInv ==
  /\ shown \in [stage : Stages, phase : Phases, late : BOOLEAN]
  /\ server \in Stages
  /\ wire \in {Nothing} \cup [at : {"sent", "ok", "failed"}, what : DOMAIN Actions]
  /\ shown.phase = "resolved" => shown.stage = "resolved" \/ (shown.late /\ wire = Nothing)

LEMMA CardStep == CardInv /\ (CardSteps \/ CardMoves) => CardInv'
<1> SUFFICES ASSUME CardInv, CardSteps \/ CardMoves PROVE CardInv'
  OBVIOUS
<1> DEFINE Cards == [stage : Stages, phase : Phases, late : BOOLEAN]
           Calls == [at : {"sent", "ok", "failed"}, what : DOMAIN Actions]
<1> USE DEF CardInv
<1>a. DOMAIN Actions = {"approve", "decline", "rollback", "reconsider"}
  BY DEF Actions
<1>b. \A c \in Calls : c # Nothing /\ c.at \in {"sent", "ok", "failed"}
  BY DEF Nothing
<1>c. \A d \in Cards, p \in Phases : [d EXCEPT !.phase = p] \in Cards
  OBVIOUS
<1>d. \A d \in Cards, b \in BOOLEAN : [d EXCEPT !.late = b] \in Cards
  OBVIOUS
<1>1. CASE MoveIncident
  BY <1>1 DEF MoveIncident
<1>2. CASE SeeStage
  <2>1. PhaseOf(server) \in Phases /\ (PhaseOf(server) = "resolved" => server = "resolved")
    BY DEF PhaseOf, Phases, Stages
  <2>2. shown' = [stage |-> server, phase |-> PhaseOf(server), late |-> FALSE]
        /\ server' = server /\ wire' = wire
    BY <1>2 DEF SeeStage
  <2>3. shown' \in Cards
    BY <2>1, <2>2
  <2> QED
    BY <2>1, <2>2, <2>3
<1>3. ASSUME NEW what \in DOMAIN Actions, Click(what) PROVE CardInv'
  <2>1. /\ server' = server /\ wire' \in Calls /\ shown.phase = Actions[what]
        /\ shown' = [shown EXCEPT !.phase = CASE what = "approve" -> "deploying"
                                        [] what = "rollback" -> "restoring" [] OTHER -> @]
    BY <1>3 DEF Click
  <2>2. /\ shown'.stage = shown.stage
        /\ shown'.phase = CASE what = "approve" -> "deploying"
                            [] what = "rollback" -> "restoring" [] OTHER -> shown.phase
    BY <2>1
  <2>3. shown'.phase \in Phases
    BY <2>2, <1>a DEF Phases
  <2>4. shown' \in Cards
    BY <2>1, <2>2, <2>3
  <2>5. shown'.phase # "resolved"
    BY <2>1, <2>2, <1>a DEF Actions
  <2> QED
    BY <2>1, <2>4, <2>5
<1>4. CASE Handle
  <2>1. /\ shown' = shown /\ wire \in Calls
        /\ \E at \in {"ok", "failed"} : wire' = [wire EXCEPT !.at = at]
        /\ server' = server \/ server' = Decided(wire.what)
    BY <1>4, <1>b DEF Handle
  <2>2. wire' \in Calls
    BY <2>1
  <2>3. Decided(wire.what) \in Stages
    BY <2>1 DEF Decided, Stages
  <2>4. shown.phase = "resolved" => shown.stage = "resolved"
    BY <2>1, <1>b
  <2> QED
    BY <2>1, <2>2, <2>3, <2>4
<1>5. CASE HearAction
  <2> DEFINE ok == wire.at = "ok"
             late == wire.what = "rollback" /\ shown.stage # "resolved"
  <2>1. /\ wire \in Calls /\ wire' = Nothing /\ server' = server
        /\ shown' = [[shown EXCEPT !.phase = HeardPhase(wire.what, ok)] EXCEPT !.late = late]
    BY <1>5, <1>b DEF HearAction
  <2>2. HeardPhase(wire.what, ok) \in Phases
    BY <2>1 DEF HeardPhase, Phases
  <2>3. [shown EXCEPT !.phase = HeardPhase(wire.what, ok)] \in Cards
    BY <2>2, <1>c
  <2>4. late \in BOOLEAN
    OBVIOUS
  <2>5. shown' \in Cards /\ shown'.phase = HeardPhase(wire.what, ok) /\ shown'.stage = shown.stage
        /\ (shown'.late <=> late)
    BY <2>1, <2>2, <2>3, <2>4, <1>d
  <2>6. HeardPhase(wire.what, ok) = "resolved" => wire.what = "rollback" \/ shown.phase = "resolved"
    BY <2>1, <1>a DEF HeardPhase
  <2>7. shown.phase = "resolved" => shown.stage = "resolved"
    BY <2>1, <1>b
  <2> QED
    BY <2>1, <2>5, <2>6, <2>7
<1> QED
  BY <1>1, <1>2, <1>3, <1>4, <1>5 DEF CardSteps, CardMoves

\* The settings: while no two saves overlapped, at most one is under way; the form shows what it
\* asks for until it has failed, and what it takes back was stored at some time.
Values == Tiers \cup {FirstTier}
Saves == [at : {"sent", "applied", "failed"}, tier : Values, prev : Values]
SettingsInv ==
  /\ server.had \subseteq Values
  /\ shown \in [tier : Values, overlapped : BOOLEAN]
  /\ wire \in [Two -> {Nothing} \cup Saves]
  /\ ~shown.overlapped =>
       /\ \A j, k \in Two : wire[j] # Nothing /\ wire[k] # Nothing => j = k
       /\ (\A k \in Two : wire[k] = Nothing) => shown.tier \in server.had
       /\ \A k \in Two : wire[k] # Nothing =>
            /\ wire[k].prev \in server.had
            /\ wire[k].at = "applied" => wire[k].tier \in server.had
            /\ wire[k].at # "failed" => shown.tier = wire[k].tier

LEMMA SettingsStep == SettingsInv /\ (SettingsSteps \/ SettingsMoves) => SettingsInv'
<1> SUFFICES ASSUME SettingsInv, SettingsSteps \/ SettingsMoves PROVE SettingsInv'
  OBVIOUS
<1> USE DEF SettingsInv
<1>a. \A c \in Saves : c # Nothing /\ c.at \in {"sent", "applied", "failed"} /\ c.at # "nothing"
  BY DEF Saves, Nothing
<1>b. \A c \in Saves, at \in {"sent", "applied", "failed"} :
        /\ [c EXCEPT !.at = at] \in Saves /\ [c EXCEPT !.at = at].at = at
        /\ [c EXCEPT !.at = at].tier = c.tier /\ [c EXCEPT !.at = at].prev = c.prev
  BY DEF Saves
<1>c. Nothing.at = "nothing"
  BY DEF Nothing
<1>1. ASSUME NEW k \in Two, NEW t \in Tiers, Choose(k, t) PROVE SettingsInv'
  <2> DEFINE new == [at |-> "sent", tier |-> t, prev |-> shown.tier]
  <2>1. /\ wire' = [wire EXCEPT ![k] = new] /\ server' = server /\ wire[k] = Nothing
        /\ shown' = [tier |-> t,
                     overlapped |-> shown.overlapped \/ \E j \in Two : wire[j] # Nothing]
    BY <1>1 DEF Choose
  <2>2. new \in Saves /\ new.at = "sent" /\ new.tier = t /\ new.prev = shown.tier
    BY DEF Saves, Values
  <2>3. wire' \in [Two -> {Nothing} \cup Saves] /\ shown' \in [tier : Values, overlapped : BOOLEAN]
    BY <2>1, <2>2 DEF Values
  <2>4. ~shown'.overlapped => ~shown.overlapped /\ (\A j \in Two : wire[j] = Nothing)
    BY <2>1
  <2>5. wire'[k] = new /\ shown'.tier = t /\ \A j \in Two \ {k} : wire'[j] = wire[j]
    BY <2>1
  <2> QED
    BY <2>1, <2>2, <2>3, <2>4, <2>5, <1>a
<1>2. ASSUME NEW k \in Two, ApplySettings(k) PROVE SettingsInv'
  <2>1. /\ wire' = [wire EXCEPT ![k] = [@ EXCEPT !.at = "applied"]] /\ shown' = shown
        /\ wire[k] \in Saves /\ wire[k].at = "sent"
        /\ server'.had = server.had \cup {wire[k].tier}
    BY <1>2, <1>c DEF ApplySettings
  <2>2. [wire[k] EXCEPT !.at = "applied"] \in Saves
    BY <2>1, <1>b
  <2>3. wire' \in [Two -> {Nothing} \cup Saves]
    BY <2>1, <2>2
  <2>4. wire'[k] = [wire[k] EXCEPT !.at = "applied"] /\ \A j \in Two \ {k} : wire'[j] = wire[j]
    BY <2>1
  <2>5. /\ wire'[k].at = "applied" /\ wire'[k].tier = wire[k].tier
        /\ wire'[k].prev = wire[k].prev /\ wire'[k] # Nothing /\ wire[k] # Nothing
    BY <2>1, <2>4, <1>a, <1>b
  <2>6. wire[k].tier \in Values
    BY <2>1 DEF Saves
  <2> QED
    BY <2>1, <2>3, <2>4, <2>5, <2>6
<1>3. ASSUME NEW k \in Two, FailSettings(k) PROVE SettingsInv'
  <2>1. /\ wire' = [wire EXCEPT ![k] = [@ EXCEPT !.at = "failed"]] /\ shown' = shown
        /\ wire[k] \in Saves /\ server' = server
    BY <1>3, <1>c DEF FailSettings
  <2>2. [wire[k] EXCEPT !.at = "failed"] \in Saves
    BY <2>1, <1>b
  <2>3. wire' \in [Two -> {Nothing} \cup Saves]
    BY <2>1, <2>2
  <2>4. wire'[k] = [wire[k] EXCEPT !.at = "failed"] /\ \A j \in Two \ {k} : wire'[j] = wire[j]
    BY <2>1
  <2>5. /\ wire'[k].at = "failed" /\ wire'[k].tier = wire[k].tier
        /\ wire'[k].prev = wire[k].prev /\ wire'[k] # Nothing /\ wire[k] # Nothing
    BY <2>1, <2>4, <1>a, <1>b
  <2> QED
    BY <2>1, <2>3, <2>4, <2>5
<1>4. ASSUME NEW k \in Two, HearSettings(k) PROVE SettingsInv'
  <2>1. /\ wire' = [wire EXCEPT ![k] = Nothing] /\ server' = server
        /\ wire[k] \in Saves /\ wire[k].at \in {"applied", "failed"}
        /\ shown' = IF wire[k].at = "failed" THEN [shown EXCEPT !.tier = wire[k].prev] ELSE shown
    BY <1>4, <1>c DEF HearSettings
  <2>2. wire' \in [Two -> {Nothing} \cup Saves] /\ wire'[k] = Nothing
        /\ \A j \in Two \ {k} : wire'[j] = wire[j]
    BY <2>1
  <2>3. /\ shown' \in [tier : Values, overlapped : BOOLEAN]
        /\ shown'.overlapped <=> shown.overlapped
        /\ shown'.tier = IF wire[k].at = "failed" THEN wire[k].prev ELSE shown.tier
    BY <2>1 DEF Saves
  <2>4. wire[k] # Nothing
    BY <2>1, <1>a
  <2>5. ~shown.overlapped => \A j \in Two : wire'[j] = Nothing
    BY <2>2, <2>4
  <2> QED
    BY <2>1, <2>2, <2>3, <2>4, <2>5
<1> QED
  BY <1>1, <1>2, <1>3, <1>4 DEF SettingsSteps, SettingsMoves

\* The updates: a slug is settled when no job of it is waiting, and none will be added by the
\* request under way.  For a batch that starts with nothing under way, what has been counted as
\* over or is about to be is settled: the log has no row of an earlier run, nor one that only
\* contains the name.
Finished(s) ==
  server.job[s] # "queued" /\ (wire.post.at = "sent" => s \notin wire.post.left)
Posts == [at : {"sent", "failed", "done"}, left : SUBSET Slugs]
Polls == [at : {"asked"}, batch : SUBSET Slugs, left : SUBSET Slugs, seen : SUBSET Slugs]

UpdatesTyped ==
  /\ server \in [job : [Slugs -> {"none", "queued", "ended"}], log : SUBSET Slugs]
  /\ shown \in [batch : SUBSET Slugs, over : SUBSET Slugs, mixed : BOOLEAN]
  /\ wire \in [post : {Nothing} \cup Posts, polls : [Two -> {Nothing} \cup Polls]]
\* The other slugs whose rows are taken for those of s.
Others(s) == Named[s] \ {s}
UpdatesSettled ==
  /\ wire.post.at = "sent" => \A s \in wire.post.left : server.job[s] # "queued"
  /\ \A s \in shown.over : Finished(s)
  /\ shown.batch # {} =>
       /\ \A s \in shown.batch \cap server.log : Finished(s)
       /\ \A s \in shown.batch : \A t \in Others(s) : Finished(t) /\ t \notin server.log
       /\ \A k \in Two : wire.polls[k] # Nothing =>
            /\ wire.polls[k].batch = shown.batch /\ wire.polls[k].left \subseteq shown.batch
            /\ \A s \in wire.polls[k].seen : Finished(s)
UpdatesInv == UpdatesTyped /\ (~shown.mixed => UpdatesSettled)

LEMMA OthersAreSlugs ==
  ASSUME UpdatesTyped PROVE \A s \in shown.batch : Others(s) \subseteq Slugs
BY ConsoleAssumption DEF Others, UpdatesTyped

LEMMA UpdatesStep == UpdatesInv /\ (UpdatesSteps \/ UpdatesMoves) => UpdatesInv'
<1> SUFFICES ASSUME UpdatesInv, UpdatesSteps \/ UpdatesMoves PROVE UpdatesInv'
  OBVIOUS
<1> DEFINE Wire == [post : {Nothing} \cup Posts, polls : [Two -> {Nothing} \cup Polls]]
<1> USE DEF UpdatesInv
<1>a. /\ \A c \in Posts : c # Nothing /\ c.at \in {"sent", "failed", "done"}
      /\ Nothing.at = "nothing"
      /\ \A c \in Polls : c # Nothing
  BY DEF Posts, Polls, Nothing
<1>b. /\ \A w \in Wire, c \in {Nothing} \cup Posts :
           LET new == [w EXCEPT !.post = c] IN
           new \in Wire /\ new.post = c /\ new.polls = w.polls
      /\ \A w \in Wire, k \in Two, c \in {Nothing} \cup Polls :
           LET new == [w EXCEPT !.polls[k] = c] IN
           /\ new \in Wire /\ new.post = w.post /\ new.polls[k] = c
           /\ \A j \in Two \ {k} : new.polls[j] = w.polls[j]
  OBVIOUS
<1>1. ASSUME NEW batch \in SUBSET Slugs, StartBatch(batch) PROVE UpdatesInv'
  <2> DEFINE post == [at |-> "sent", left |-> batch]
  <2>1. /\ server' = server /\ wire' = [wire EXCEPT !.post = post]
        /\ shown' = [batch |-> batch, over |-> {},
               mixed |-> \/ shown.batch # {} \/ \E k \in Two : wire.polls[k] # Nothing
                         \/ \E s \in batch : \E t \in Named[s] :
                              t \in server.log \cup (batch \ {s}) \/ server.job[t] = "queued"]
    BY <1>1 DEF StartBatch
  <2>2. post \in Posts /\ post.left = batch
    BY DEF Posts
  <2>3. wire' \in Wire /\ wire'.post = post /\ wire'.polls = wire.polls
    BY <2>1, <2>2, <1>b DEF UpdatesTyped
  <2>4. UpdatesTyped'
    BY <2>1, <2>3 DEF UpdatesTyped
  <2>5. ~shown'.mixed => /\ \A k \in Two : wire.polls[k] = Nothing
                         /\ \A s \in batch : s \notin server.log /\ server.job[s] # "queued"
                         /\ \A s \in batch : \A t \in Others(s) :
                              /\ t \notin server.log /\ t \notin batch
                              /\ server.job[t] # "queued"
    BY <2>1, ConsoleAssumption DEF Others
  <2>6. ~shown'.mixed => \A s \in batch : \A t \in Others(s) : Finished(t)'
    BY <2>1, <2>2, <2>3, <2>5 DEF Finished
  <2> QED
    BY <2>1, <2>2, <2>3, <2>4, <2>5, <2>6 DEF UpdatesSettled, Finished
<1>2. ASSUME NEW s \in Slugs, AddJob(s) PROVE UpdatesInv'
  <2> DEFINE at == IF wire.post.left = {s} THEN "done" ELSE wire.post.at
             mid == [wire.post EXCEPT !.left = @ \ {s}]
             post == [mid EXCEPT !.at = at]
  <2>1. /\ shown' = shown /\ server' = [server EXCEPT !.job[s] = "queued"]
        /\ wire' = [wire EXCEPT !.post.left = @ \ {s},
                          !.post.at = IF wire.post.left = {s} THEN "done" ELSE @]
        /\ wire.post.at = "sent" /\ s \in wire.post.left
    BY <1>2 DEF AddJob
  <2>2. wire.post \in Posts
    BY <2>1, <1>a DEF UpdatesTyped
  <2>3. mid \in Posts /\ mid.left = wire.post.left \ {s} /\ mid.at = "sent"
    BY <2>1, <2>2 DEF Posts
  <2>4. post \in Posts /\ post.left = wire.post.left \ {s} /\ post.at = at
    <3>1. at \in {"sent", "done"}
      BY <2>1
    <3>2. \A c \in Posts, a \in {"sent", "done"} :
            [c EXCEPT !.at = a] \in Posts /\ [c EXCEPT !.at = a].left = c.left
            /\ [c EXCEPT !.at = a].at = a
      BY DEF Posts
    <3> HIDE DEF at, mid
    <3> QED
      BY <2>3, <3>1, <3>2
  <2>5. wire' \in Wire /\ wire'.post.left = wire.post.left \ {s} /\ wire'.polls = wire.polls
    <3>1. wire'.post = post /\ wire'.polls = wire.polls /\ wire' = [wire EXCEPT !.post = post]
      BY <2>1, <2>2 DEF UpdatesTyped, Posts
    <3> QED
      BY <2>4, <3>1, <1>b DEF UpdatesTyped
  <2>6. /\ server'.log = server.log /\ server'.job[s] = "queued"
        /\ \A r \in Slugs \ {s} : server'.job[r] = server.job[r]
        /\ server' \in [job : [Slugs -> {"none", "queued", "ended"}], log : SUBSET Slugs]
    BY <2>1 DEF UpdatesTyped
  <2>7. UpdatesTyped'
    BY <2>1, <2>5, <2>6 DEF UpdatesTyped
  <2>8. ASSUME NEW r \in Slugs, Finished(r) PROVE r # s /\ Finished(r)'
    BY <2>1, <2>5, <2>6, <2>8 DEF Finished
  <2>9. ASSUME ~shown.mixed PROVE UpdatesSettled'
    <3>1. UpdatesSettled
      BY <2>9
    <3>2. \A r \in wire'.post.left : server'.job[r] # "queued"
      BY <2>1, <2>2, <2>5, <2>6, <3>1 DEF UpdatesSettled, Posts
    <3>3. \A r \in shown'.over : Finished(r)'
      BY <2>1, <2>8, <3>1 DEF UpdatesSettled, UpdatesTyped
    <3>4. \A r \in shown'.batch \cap server'.log : shown'.batch # {} => Finished(r)'
      BY <2>1, <2>6, <2>8, <3>1 DEF UpdatesSettled, UpdatesTyped
    <3>6. \A r \in shown'.batch : \A t \in Others(r) :
            shown'.batch # {} => Finished(t)' /\ t \notin server'.log
      BY <2>1, <2>6, <2>8, <3>1, OthersAreSlugs DEF UpdatesSettled, UpdatesTyped
    <3>5. ASSUME NEW k \in Two, shown'.batch # {}, wire'.polls[k] # Nothing
          PROVE  /\ wire'.polls[k].batch = shown'.batch
                 /\ wire'.polls[k].left \subseteq shown'.batch
                 /\ \A r \in wire'.polls[k].seen : Finished(r)'
      <4>1. wire.polls[k] \in Polls
        BY <2>5, <3>5 DEF UpdatesTyped
      <4> QED
        BY <2>1, <2>5, <2>8, <3>1, <3>5, <4>1 DEF UpdatesSettled, Polls
    <3> QED
      BY <3>2, <3>3, <3>4, <3>5, <3>6 DEF UpdatesSettled
  <2> QED
    BY <2>1, <2>7, <2>9
<1>3. CASE FailPost
  <2> DEFINE post == [wire.post EXCEPT !.at = "failed"]
  <2>1. /\ server' = server /\ shown' = shown /\ wire.post.at = "sent"
        /\ wire' = [wire EXCEPT !.post = post]
    BY <1>3 DEF FailPost
  <2>2. post \in Posts /\ post.at = "failed"
    BY <2>1, <1>a DEF UpdatesTyped, Posts
  <2>3. wire' \in Wire /\ wire'.post = post /\ wire'.polls = wire.polls
    BY <2>1, <2>2, <1>b DEF UpdatesTyped
  <2> QED
    BY <2>1, <2>2, <2>3 DEF UpdatesTyped, UpdatesSettled, Finished
<1>4. CASE HearPost
  <2>1. /\ server' = server /\ wire.post.at \in {"done", "failed"}
        /\ wire' = [wire EXCEPT !.post = Nothing]
        /\ shown' = IF wire.post.at = "done" THEN shown ELSE [shown EXCEPT !.batch = {}]
    BY <1>4 DEF HearPost
  <2>2. wire' \in Wire /\ wire'.post = Nothing /\ wire'.polls = wire.polls
    BY <2>1, <1>b DEF UpdatesTyped
  <2>3. /\ shown'.over = shown.over /\ (shown'.mixed <=> shown.mixed)
        /\ shown'.batch \in {shown.batch, {}}
        /\ shown' \in [batch : SUBSET Slugs, over : SUBSET Slugs, mixed : BOOLEAN]
    BY <2>1 DEF UpdatesTyped
  <2>4. UpdatesTyped'
    BY <2>1, <2>2, <2>3 DEF UpdatesTyped
  <2>5. \A s \in Slugs : Finished(s) => Finished(s)'
    BY <2>1, <2>2, <1>a DEF Finished
  <2>6. ASSUME UpdatesSettled PROVE UpdatesSettled'
    <3>1. wire'.post.at # "sent"
      BY <2>2, <1>a
    <3>2. \A s \in shown'.over : Finished(s)'
      BY <2>3, <2>5, <2>6 DEF UpdatesSettled, UpdatesTyped
    <3>3. \A s \in shown'.batch \cap server'.log : shown'.batch # {} => Finished(s)'
      BY <2>1, <2>3, <2>5, <2>6 DEF UpdatesSettled, UpdatesTyped
    <3>5. \A s \in shown'.batch : \A t \in Others(s) :
            shown'.batch # {} => Finished(t)' /\ t \notin server'.log
      BY <2>1, <2>3, <2>5, <2>6, OthersAreSlugs DEF UpdatesSettled, UpdatesTyped
    <3>4. ASSUME NEW k \in Two, shown'.batch # {}, wire'.polls[k] # Nothing
          PROVE  /\ wire'.polls[k].batch = shown'.batch
                 /\ wire'.polls[k].left \subseteq shown'.batch
                 /\ \A s \in wire'.polls[k].seen : Finished(s)'
      <4>1. wire.polls[k] \in Polls
        BY <2>2, <3>4 DEF UpdatesTyped
      <4> QED
        BY <2>2, <2>3, <2>5, <2>6, <3>4, <4>1 DEF UpdatesSettled, Polls
    <3> QED
      BY <3>1, <3>2, <3>3, <3>4, <3>5 DEF UpdatesSettled
  <2> QED
    BY <2>3, <2>4, <2>6
<1>5. ASSUME NEW s \in Slugs, EndJob(s) PROVE UpdatesInv'
  <2>1. /\ shown' = shown /\ wire' = wire /\ server.job[s] = "queued"
        /\ server' = [job |-> [server.job EXCEPT ![s] = "ended"], log |-> server.log \cup {s}]
    BY <1>5 DEF EndJob
  <2>2. /\ server'.log = server.log \cup {s} /\ server'.job[s] = "ended"
        /\ \A r \in Slugs \ {s} : server'.job[r] = server.job[r]
        /\ server' \in [job : [Slugs -> {"none", "queued", "ended"}], log : SUBSET Slugs]
    BY <2>1 DEF UpdatesTyped
  <2>3. UpdatesTyped'
    BY <2>1, <2>2 DEF UpdatesTyped
  <2>4. \A r \in Slugs : Finished(r) => Finished(r)'
    BY <2>1, <2>2 DEF Finished
  <2>5. ASSUME UpdatesSettled PROVE UpdatesSettled'
    <3>1. Finished(s)'
      BY <2>1, <2>2, <2>5 DEF UpdatesSettled, Finished
    <3>2. wire.post.at = "sent" => wire.post \in Posts
      BY <1>a DEF UpdatesTyped
    <3>3. wire'.post.at = "sent" => \A r \in wire'.post.left : server'.job[r] # "queued"
      BY <2>1, <2>2, <2>5, <3>2 DEF UpdatesSettled, Posts
    <3>4. \A k \in Two : wire.polls[k] # Nothing => wire.polls[k] \in Polls
      BY DEF UpdatesTyped
    <3>5. shown.over \subseteq Slugs /\ shown.batch \subseteq Slugs
      BY DEF UpdatesTyped
    <3>6. \A k \in Two : wire.polls[k] # Nothing => wire.polls[k].seen \subseteq Slugs
      BY <3>4 DEF Polls
    <3>7. \A r \in shown.batch : \A t \in Others(r) :
            shown.batch # {} => Finished(t)' /\ t \notin server'.log
      BY <2>1, <2>2, <2>4, <2>5, OthersAreSlugs DEF UpdatesSettled, UpdatesTyped, Finished
    <3> QED
      BY <2>1, <2>2, <2>4, <2>5, <3>1, <3>3, <3>5, <3>6, <3>7 DEF UpdatesSettled
  <2> QED
    BY <2>1, <2>3, <2>5
<1>6. ASSUME NEW s \in Slugs, Expire(s) PROVE UpdatesInv'
  <2>1. shown' = shown /\ wire' = wire /\ server' = [server EXCEPT !.log = @ \ {s}]
    BY <1>6 DEF Expire
  <2>2. /\ server'.log = server.log \ {s} /\ server'.job = server.job
        /\ server' \in [job : [Slugs -> {"none", "queued", "ended"}], log : SUBSET Slugs]
    BY <2>1 DEF UpdatesTyped
  <2> QED
    BY <2>1, <2>2 DEF UpdatesTyped, UpdatesSettled, Finished
<1>7. ASSUME NEW k \in Two, AskStatus(k) PROVE UpdatesInv'
  <2> DEFINE poll == [at |-> "asked", batch |-> shown.batch, left |-> shown.batch, seen |-> {}]
  <2>1. server' = server /\ shown' = shown /\ wire' = [wire EXCEPT !.polls[k] = poll]
    BY <1>7 DEF AskStatus
  <2>2. /\ poll \in Polls /\ poll.batch = shown.batch /\ poll.left = shown.batch /\ poll.seen = {}
    BY DEF Polls, UpdatesTyped
  <2>3. /\ wire' \in Wire /\ wire'.post = wire.post /\ wire'.polls[k] = poll
        /\ \A j \in Two \ {k} : wire'.polls[j] = wire.polls[j]
    <3> HIDE DEF poll
    <3> QED
      BY <2>1, <2>2, <1>b DEF UpdatesTyped
  <2>4. UpdatesTyped'
    BY <2>1, <2>3 DEF UpdatesTyped
  <2>5. \A r : Finished(r)' <=> Finished(r)
    BY <2>1, <2>3 DEF Finished
  <2>6. UpdatesSettled => UpdatesSettled'
    <3> HIDE DEF poll
    <3> QED
      BY <2>1, <2>2, <2>3, <2>5 DEF UpdatesSettled
  <2> QED
    BY <2>1, <2>4, <2>6
<1>8. ASSUME NEW k \in Two, NEW s \in Slugs, HearStatus(k, s) PROVE UpdatesInv'
  <2>1. PICK found \in {{}} \cup {{s} : t \in server.log \cap Named[s]} :
          wire' = [wire EXCEPT !.polls[k] =
                     [wire.polls[k] EXCEPT !.left = @ \ {s}, !.seen = @ \cup found]]
    BY <1>8 DEF HearStatus
  <2> DEFINE old == wire.polls[k]
             poll == [old EXCEPT !.left = @ \ {s}, !.seen = @ \cup found]
  <2>2. server' = server /\ shown' = shown /\ s \in old.left /\ old # Nothing /\ old \in Polls
    BY <1>8 DEF HearStatus, UpdatesTyped
  <2>3. /\ poll \in Polls /\ poll.batch = old.batch /\ poll.left = old.left \ {s}
        /\ poll.seen = old.seen \cup found
    <3>1. found \in SUBSET Slugs
      BY DEF UpdatesTyped
    <3> DEFINE mid == [old EXCEPT !.left = @ \ {s}]
    <3>2. /\ mid \in Polls /\ mid.batch = old.batch /\ mid.left = old.left \ {s}
          /\ mid.seen = old.seen
      <4> HIDE DEF old
      <4> QED
        BY <2>2 DEF Polls
    <3>3. \A p \in Polls : LET q == [p EXCEPT !.seen = @ \cup found] IN
            /\ q \in Polls /\ q.batch = p.batch /\ q.left = p.left
            /\ q.seen = p.seen \cup found
      BY <3>1 DEF Polls
    <3>4. poll = [mid EXCEPT !.seen = @ \cup found]
      OBVIOUS
    <3> HIDE DEF poll, mid, old
    <3> QED
      BY <3>2, <3>3, <3>4
  <2>4. /\ wire' \in Wire /\ wire'.post = wire.post /\ wire'.polls[k] = poll
        /\ \A j \in Two \ {k} : wire'.polls[j] = wire.polls[j]
    <3>1. wire' = [wire EXCEPT !.polls[k] = poll]
      BY <2>1
    <3> HIDE DEF poll
    <3> QED
      BY <3>1, <2>3, <1>b DEF UpdatesTyped
  <2>5. UpdatesTyped'
    BY <2>2, <2>4 DEF UpdatesTyped
  <2>6. ASSUME UpdatesSettled PROVE UpdatesSettled'
    <3>1. shown.batch # {} => \A r \in found : r \in shown.batch \cap server.log
      BY <2>2, <2>6 DEF UpdatesSettled, Others
    <3> HIDE DEF poll
    <3>2. \A r : Finished(r)' <=> Finished(r)
      BY <2>2, <2>4 DEF Finished
    <3> QED
      BY <2>2, <2>3, <2>4, <2>6, <3>1, <3>2 DEF UpdatesSettled
  <2> QED
    BY <2>2, <2>5, <2>6
<1>9. ASSUME NEW k \in Two, EndPoll(k) PROVE UpdatesInv'
  <2>1. /\ server' = server /\ wire' = [wire EXCEPT !.polls[k] = Nothing]
        /\ wire.polls[k] # Nothing
        /\ shown' = IF AllOver(wire.polls[k])
                    THEN [shown EXCEPT !.over = @ \cup shown.batch, !.batch = {}] ELSE shown
    BY <1>9 DEF EndPoll
  <2>2. /\ wire' \in Wire /\ wire'.post = wire.post /\ wire'.polls[k] = Nothing
        /\ \A j \in Two \ {k} : wire'.polls[j] = wire.polls[j]
    BY <2>1, <1>b DEF UpdatesTyped
  <2>3. \A r : Finished(r)' <=> Finished(r)
    BY <2>1, <2>2 DEF Finished
  <2>4. CASE ~AllOver(wire.polls[k])
    BY <2>1, <2>2, <2>3, <2>4 DEF UpdatesTyped, UpdatesSettled
  <2>5. CASE AllOver(wire.polls[k])
    <3> DEFINE Form == [batch : SUBSET Slugs, over : SUBSET Slugs, mixed : BOOLEAN]
               mid == [shown EXCEPT !.over = @ \cup shown.batch]
    <3>1. mid \in Form /\ mid.over = shown.over \cup shown.batch /\ (mid.mixed <=> shown.mixed)
      BY DEF UpdatesTyped
    <3>2. shown' = [mid EXCEPT !.batch = {}]
      BY <2>1, <2>5
    <3>3. /\ shown' \in Form /\ shown'.over = shown.over \cup shown.batch
          /\ shown'.batch = {} /\ (shown'.mixed <=> shown.mixed)
      <4> HIDE DEF mid
      <4> QED
        BY <3>1, <3>2
    <3>4. UpdatesTyped'
      BY <2>1, <2>2, <3>3 DEF UpdatesTyped
    <3>5. UpdatesSettled => \A s \in shown.batch : Finished(s)
      BY <2>1, <2>5 DEF UpdatesSettled, AllOver
    <3> QED
      BY <2>1, <2>2, <2>3, <3>3, <3>4, <3>5 DEF UpdatesSettled
  <2> QED
    BY <2>4, <2>5
<1> QED
  BY <1>1, <1>2, <1>3, <1>4, <1>5, <1>6, <1>7, <1>8, <1>9 DEF UpdatesSteps, UpdatesMoves

ConsoleInv ==
  /\ page = "settings" => SettingsInv
  /\ page = "updates" => UpdatesInv
  /\ page = "card" => CardInv

LEMMA ConsoleInvInit ==
  ASSUME NEW kinds, ConsoleInit(kinds)
  PROVE  ConsoleInv
<1>1. ASSUME page = "settings" PROVE SettingsInv
  <2>1. /\ server = [tier |-> FirstTier, had |-> {FirstTier}]
        /\ shown = [tier |-> FirstTier, overlapped |-> FALSE]
        /\ wire = [k \in Two |-> Nothing]
    BY <1>1 DEF ConsoleInit
  <2> QED
    BY <2>1 DEF SettingsInv, Values
<1>2. ASSUME page = "updates" PROVE UpdatesInv
  <2>1. /\ server = [job |-> [s \in Slugs |-> "none"], log |-> {}]
        /\ shown = [batch |-> {}, over |-> {}, mixed |-> FALSE]
        /\ wire = [post |-> Nothing, polls |-> [k \in Two |-> Nothing]]
    BY <1>2 DEF ConsoleInit
  <2> QED
    BY <2>1 DEF UpdatesInv, UpdatesTyped, UpdatesSettled, Nothing
<1>3. ASSUME page = "card" PROVE CardInv
  BY <1>3 DEF ConsoleInit, CardInv, Stages, Phases
<1> QED
  BY <1>1, <1>2, <1>3 DEF ConsoleInv

LEMMA ConsoleInvNext == ConsoleInv /\ [ConsoleNext]_consoleVars => ConsoleInv'
<1>1. ConsoleInv /\ UNCHANGED consoleVars => ConsoleInv'
  BY DEF ConsoleInv, SettingsInv, UpdatesInv, UpdatesTyped, UpdatesSettled, Finished, CardInv,
     consoleVars
<1> QED
  BY <1>1, PageStays, SettingsStep, UpdatesStep, CardStep DEF ConsoleInv

LEMMA ConsoleInvSafe == ConsoleInv => PagesAreTruthful
<1>1. SettingsInv /\ page = "settings" => FormShowsApplied
  BY DEF SettingsInv, FormShowsApplied
<1>2. UpdatesInv /\ page = "updates" => BatchIsOver
  BY DEF UpdatesInv, UpdatesSettled, Finished, BatchIsOver
<1>3. CardInv /\ page = "card" => CardClaimsFixed
  BY DEF CardInv, CardClaimsFixed
<1> QED
  BY <1>1, <1>2, <1>3 DEF ConsoleInv, PagesAreTruthful, FormShowsApplied, BatchIsOver,
     CardClaimsFixed

\* The settings form settles on nothing that the control plane never had, a batch of updates
\* is called over only when no job of it is waiting, and the card of an incident claims a fix
\* only when the server does (settings/page.tsx:196-198, updates/page.tsx,
\* execution-stepper.tsx), each with the exception that its definition names.
THEOREM PagesTellTheTruth == ConsoleSpec => []PagesAreTruthful
<1>1. ConsoleInit(Pages) => ConsoleInv
  BY ConsoleInvInit
<1> QED
  BY <1>1, ConsoleInvNext, ConsoleInvSafe, PTL DEF ConsoleSpec

-----------------------------------------------------------------------------
(***************************************************************************)
(* The reports.                                                            *)
(***************************************************************************)

\* An incident that is resolved was so at some tick of the clock.
ResolvedInv ==
  /\ clock \in Nat
  /\ incident \in [Incidents -> [status : Statuses, detected : Int, resolved : Int]]
  /\ \A i \in Incidents : incident[i].status = "resolved" => incident[i].resolved \in Nat

LEMMA ResolvedStep == ResolvedInv /\ ReportsNext => ResolvedInv'
<1> SUFFICES ASSUME ResolvedInv, ReportsNext PROVE ResolvedInv'
  OBVIOUS
<1> USE DEF ResolvedInv, Set, Records, Never, Statuses
<1>1. ASSUME NEW i \in Incidents, Open(i) PROVE ResolvedInv'
  BY <1>1 DEF Open
<1>2. ASSUME NEW i \in Incidents, TakeUp(i) PROVE ResolvedInv'
  BY <1>2 DEF TakeUp
<1>3. ASSUME NEW i \in Incidents, Resolve(i) PROVE ResolvedInv'
  <2>1. /\ UNCHANGED clock
        /\ incident' = [incident EXCEPT ![i] = [@ EXCEPT !.status = "resolved", !.resolved = clock]]
    BY <1>3 DEF Resolve
  <2> DEFINE Record == [status : Statuses, detected : Int, resolved : Int]
             new == [incident[i] EXCEPT !.status = "resolved", !.resolved = clock]
  <2>2. new \in Record /\ new.status = "resolved" /\ new.resolved = clock
    <3>1. \A r \in Record : [r EXCEPT !.status = "resolved"] \in Record
      OBVIOUS
    <3>2. \A r \in Record : [r EXCEPT !.resolved = clock] \in Record
      OBVIOUS
    <3>3. incident[i] \in Record
      OBVIOUS
    <3>4. [[incident[i] EXCEPT !.status = "resolved"] EXCEPT !.resolved = clock] \in Record
      BY <3>1, <3>2, <3>3
    <3> QED
      BY <3>3, <3>4
  <2> QED
    BY <2>1, <2>2
<1>4. CASE Pass
  BY <1>4 DEF Pass
<1>5. CASE UNCHANGED <<clock, incident>>
  BY <1>5
<1>6. RepairFails \/ Age \/ RenewCertificate \/ Measure => UNCHANGED <<clock, incident>>
  BY DEF RepairFails, Age, RenewCertificate, Measure
<1>8. \A d \in DomainDays : Register(d) => UNCHANGED <<clock, incident>>
  BY DEF Register
<1>7. \A a \in Advisories : Advise(a) \/ Withdraw(a) => UNCHANGED <<clock, incident>>
  BY DEF Advise, Withdraw
<1> QED
  BY <1>1, <1>2, <1>3, <1>4, <1>5, <1>6, <1>7, <1>8 DEF ReportsNext

\* A month is its year and its number in the year.
LEMMA MonthOfId ==
  ASSUME NEW m \in Int
  PROVE  12 * IdOf(m).year + (IdOf(m).month - 1) = m
<1>1. IdOf(m).year = m \div 12 /\ IdOf(m).month = (m % 12) + 1
  BY DEF IdOf
<1>2. m \div 12 \in Int /\ m % 12 \in 0 .. 11 /\ m = 12 * (m \div 12) + (m % 12)
  OBVIOUS
<1> QED
  BY <1>1, <1>2

\* The month that counts an instant is the month of that instant, and it counts all of
\* its instants outside the gaps.
LEMMA CountedIsMonth ==
  ASSUME NEW m \in Int, NEW t \in Nat
  PROVE  /\ startOfMonth(m) < t /\ t <= endOfMonth(m) => m = MonthOf(t)
         /\ ~InGap(t) => startOfMonth(MonthOf(t)) < t /\ t <= endOfMonth(MonthOf(t))
<1>1. t \div 4 \in Nat /\ t % 4 \in 0 .. 3 /\ t = 4 * (t \div 4) + (t % 4)
  OBVIOUS
<1>2. FirstMonth \in Nat
  BY ReportsAssumption
<1> QED
  BY <1>1, <1>2 DEF startOfMonth, endOfMonth, MonthOf, InGap

LEMMA OnceReported == ResolvedInv => EveryFixIsReportedOnce
<1> SUFFICES ASSUME ResolvedInv PROVE EveryFixIsReportedOnce
  OBVIOUS
<1>1. FirstMonth \in Nat /\ clock \in Nat /\ Listed \subseteq Int
  <2>1. FirstMonth \in Nat /\ clock \in Nat
    BY ReportsAssumption DEF ResolvedInv
  <2>2. MonthOf(clock) \in Int
    BY <2>1 DEF MonthOf
  <2> QED
    BY <2>1, <2>2 DEF Listed
<1>2. ASSUME NEW m \in Listed, NEW i \in Counted(m)
      PROVE  i \in Incidents /\ incident[i].status = "resolved" /\ m = MonthOf(incident[i].resolved)
  <2>1. /\ i \in Incidents /\ incident[i].status = "resolved"
        /\ startOfMonth(m) < incident[i].resolved /\ incident[i].resolved <= endOfMonth(m)
    BY <1>1 DEF Counted, ResolvedIn
  <2>2. m \in Int /\ incident[i].resolved \in Nat
    BY <1>1, <2>1 DEF ResolvedInv
  <2> QED
    BY <2>1, <2>2, CountedIsMonth
<1>3. ASSUME NEW i \in Incidents, NEW reports, reports = {m \in Listed : i \in Counted(m)}
      PROVE  /\ Cardinality(reports) <= 1
             /\ incident[i].status = "resolved" /\ MonthOf(incident[i].resolved) \in Listed
                /\ ~InGap(incident[i].resolved) => reports = {MonthOf(incident[i].resolved)}
  <2>1. reports \subseteq {MonthOf(incident[i].resolved)}
    BY <1>2, <1>3
  <2>2. Cardinality(reports) <= 1
    <3>1. reports = {} \/ reports = {MonthOf(incident[i].resolved)}
      BY <2>1
    <3>2. Cardinality({}) = 0 /\ Cardinality({MonthOf(incident[i].resolved)}) = 1
      BY FS_EmptySet, FS_Singleton
    <3> QED
      BY <3>1, <3>2
  <2>3. ASSUME incident[i].status = "resolved", MonthOf(incident[i].resolved) \in Listed,
               ~InGap(incident[i].resolved)
        PROVE  MonthOf(incident[i].resolved) \in reports
    <3> DEFINE at == incident[i].resolved
    <3>1. at \in Nat
      BY <2>3 DEF ResolvedInv
    <3>2. startOfMonth(MonthOf(at)) < at /\ at <= endOfMonth(MonthOf(at))
      BY <1>1, <2>3, <3>1, CountedIsMonth
    <3>3. i \in Counted(MonthOf(at))
      BY <2>3, <3>2 DEF Counted, ResolvedIn
    <3> QED
      BY <1>3, <2>3, <3>3
  <2> QED
    BY <2>1, <2>2, <2>3
<1>4. ASSUME NEW m \in Listed PROVE Export(IdOf(m)) = Counted(m)
  BY <1>1, MonthOfId DEF Export, Counted
<1> QED
  BY <1>3, <1>4 DEF EveryFixIsReportedOnce

\* In the monthly reports (dashboard.ts:1209-1250) an incident resolved outside the gaps
\* between the months is counted in exactly one of them, if its month is still listed, and
\* any incident in at most one; and the CSV of a report has what the report counts.
THEOREM FixesAreReportedOnce == ReportsSpec => []EveryFixIsReportedOnce
<1>1. ReportsInit(Topics) => ResolvedInv
  BY DEF ReportsInit, ResolvedInv, Statuses, Never
<1>2. ResolvedInv /\ [ReportsNext]_reportVars => ResolvedInv'
  <2>1. ResolvedInv /\ UNCHANGED reportVars => ResolvedInv'
    BY DEF ResolvedInv, reportVars
  <2> QED
    BY <2>1, ResolvedStep
<1> QED
  BY <1>1, <1>2, OnceReported, PTL DEF ReportsSpec
-----------------------------------------------------------------------------
(***************************************************************************)
(* The figures.                                                            *)
(***************************************************************************)
SiteRecord ==
  [ssl : Nat, domain : DomainDays, advisories : SUBSET Advisories, repairFailed : BOOLEAN,
   synthetic : Ttfbs \cup {Never}, desktop : Ttfbs \cup {Never}]
Measured == site \in SiteRecord

\* What a step may do to the records of a site: no repair is forgotten.
LEMMA SiteRecords ==
  ASSUME Measured, ReportsNext
  PROVE  Measured' /\ topic' = topic /\ (site.repairFailed => site'.repairFailed)
<1> USE DEF Records, Measured, SiteRecord
<1>1. ASSUME UNCHANGED <<topic, site>>
      PROVE  Measured' /\ topic' = topic /\ (site.repairFailed => site'.repairFailed)
  BY <1>1
<1>2. Pass => UNCHANGED <<topic, site>>
  BY DEF Pass
<1>3. \A i \in Incidents : Open(i) \/ TakeUp(i) \/ Resolve(i) => UNCHANGED <<topic, site>>
  BY DEF Open, TakeUp, Resolve
<1>4. CASE RepairFails
  BY <1>4 DEF RepairFails
<1>5. \A d \in SslDays : d \in Nat
  BY ReportsAssumption
<1>6. CASE Age
  <2>1. PICK d \in SslDays : Records([site EXCEPT !.ssl = d])
    BY <1>6 DEF Age, Longest
  <2> QED
    BY <1>5, <1>6, <2>1 DEF Age
<1>7. CASE RenewCertificate
  <2>1. PICK d \in SslDays : Records([site EXCEPT !.ssl = d])
    BY <1>7 DEF RenewCertificate, Longest
  <2> QED
    BY <1>5, <1>7, <2>1 DEF RenewCertificate
<1>8. CASE Measure
  <2>1. PICK f \in {"synthetic", "desktop"}, p \in Ttfbs : Records([site EXCEPT ![f] = p])
    BY <1>8 DEF Measure
  <2>2. CASE f = "synthetic"
    BY <2>1, <2>2
  <2>3. CASE f = "desktop"
    BY <2>1, <2>3
  <2> QED
    BY <2>1, <2>2, <2>3
<1>9. ASSUME NEW a \in Advisories, Advise(a) \/ Withdraw(a)
      PROVE  Measured' /\ topic' = topic /\ (site.repairFailed => site'.repairFailed)
  BY <1>9 DEF Advise, Withdraw
<1>10. ASSUME NEW d \in DomainDays, Register(d)
       PROVE  Measured' /\ topic' = topic /\ (site.repairFailed => site'.repairFailed)
  BY <1>10 DEF Register
<1> QED
  BY <1>1, <1>2, <1>3, <1>4, <1>6, <1>7, <1>8, <1>9, <1>10 DEF ReportsNext

\* A score is lost, not won, by figures that are worse.
Metrics ==
  [uptime : Nat, highVulns : Nat, coreUpdate : BOOLEAN, pluginUpdates : Nat, ssl : Nat,
   autoload : Nat, openIncidents : Nat, backupHours : Nat, ttfb : Nat,
   unpatched : BOOLEAN, breach : BOOLEAN]
Worse(m, n) ==
  /\ n.uptime <= m.uptime /\ m.highVulns <= n.highVulns /\ (m.coreUpdate => n.coreUpdate)
  /\ m.pluginUpdates <= n.pluginUpdates /\ n.ssl <= m.ssl /\ m.autoload <= n.autoload
  /\ m.openIncidents <= n.openIncidents /\ m.backupHours <= n.backupHours /\ m.ttfb <= n.ttfb
  /\ (m.unpatched => n.unpatched) /\ (m.breach => n.breach)

LEMMA ScoreFalls ==
  ASSUME NEW m \in Metrics, NEW n \in Metrics, Worse(m, n)
  PROVE  calculateHealthScore(n) <= calculateHealthScore(m)
<1> DEFINE up(x) == Off(15, x.uptime < 999)
           down(x) == Off(25, x.uptime < 990)
           vulns(x) == 5 * Least(x.highVulns, 4)
           core(x) == Off(10, x.coreUpdate)
           plugins(x) == Off(10, x.pluginUpdates > 5)
           cert(x) == Off(15, x.ssl < 14)
           end(x) == Off(30, x.ssl < 3)
           load(x) == Off(5, x.autoload > 1000)
           open(x) == 10 * x.openIncidents
           backup(x) == Off(10, x.backupHours > 24)
           none(x) == Off(20, x.backupHours > 72)
           slow(x) == Off(10, x.ttfb > 600)
           first(x) == up(x) + down(x) + vulns(x) + core(x) + plugins(x) + cert(x)
<1>1. /\ Lost(m) = first(m) + end(m) + load(m) + open(m) + backup(m) + none(m) + slow(m)
      /\ Lost(n) = first(n) + end(n) + load(n) + open(n) + backup(n) + none(n) + slow(n)
  BY DEF Lost
<1>2. up(m) \in Nat /\ up(n) \in Nat /\ up(m) <= up(n)
  BY DEF Metrics, Worse, Off, Least
<1>3. down(m) \in Nat /\ down(n) \in Nat /\ down(m) <= down(n)
  BY DEF Metrics, Worse, Off, Least
<1>4. vulns(m) \in Nat /\ vulns(n) \in Nat /\ vulns(m) <= vulns(n)
  BY DEF Metrics, Worse, Off, Least
<1>5. core(m) \in Nat /\ core(n) \in Nat /\ core(m) <= core(n)
  BY DEF Metrics, Worse, Off, Least
<1>6. plugins(m) \in Nat /\ plugins(n) \in Nat /\ plugins(m) <= plugins(n)
  BY DEF Metrics, Worse, Off, Least
<1>7. cert(m) \in Nat /\ cert(n) \in Nat /\ cert(m) <= cert(n)
  BY DEF Metrics, Worse, Off, Least
<1>8. end(m) \in Nat /\ end(n) \in Nat /\ end(m) <= end(n)
  BY DEF Metrics, Worse, Off, Least
<1>9. load(m) \in Nat /\ load(n) \in Nat /\ load(m) <= load(n)
  BY DEF Metrics, Worse, Off, Least
<1>10. open(m) \in Nat /\ open(n) \in Nat /\ open(m) <= open(n)
  BY DEF Metrics, Worse, Off, Least
<1>11. backup(m) \in Nat /\ backup(n) \in Nat /\ backup(m) <= backup(n)
  BY DEF Metrics, Worse, Off, Least
<1>12. none(m) \in Nat /\ none(n) \in Nat /\ none(m) <= none(n)
  BY DEF Metrics, Worse, Off, Least
<1>13. slow(m) \in Nat /\ slow(n) \in Nat /\ slow(m) <= slow(n)
  BY DEF Metrics, Worse, Off, Least
<1> HIDE DEF up, down, vulns, core, plugins, cert, end, load, open, backup, none, slow
<1>14. first(m) \in Nat /\ first(n) \in Nat /\ first(m) <= first(n)
  BY <1>2, <1>3, <1>4, <1>5, <1>6, <1>7
<1> HIDE DEF first
<1>15. Lost(m) \in Nat /\ Lost(n) \in Nat /\ Lost(m) <= Lost(n)
  BY <1>1, <1>8, <1>9, <1>10, <1>11, <1>12, <1>13, <1>14
<1> QED
  BY <1>15 DEF calculateHealthScore, Worse, Greatest, Metrics

\* The advisories are four kinds, so that any set of them can be counted.
LEMMA AdvisoriesCount ==
  ASSUME NEW A \in SUBSET Advisories, NEW B \in SUBSET A
  PROVE  /\ Cardinality(A) \in Nat /\ Cardinality(B) \in Nat
         /\ Cardinality(B) <= Cardinality(A)
<1> DEFINE a(s, p) == [severity |-> s, patched |-> p]
<1>1. Advisories = (({a("critical", TRUE)} \cup {a("critical", FALSE)})
                     \cup {a("high", TRUE)}) \cup {a("high", FALSE)}
  <2>1. ASSUME NEW r \in Advisories PROVE \E s \in Severities, p \in BOOLEAN : r = a(s, p)
    <3>1. r.severity \in Severities /\ r.patched \in BOOLEAN /\ r = a(r.severity, r.patched)
      BY <2>1 DEF Advisories
    <3> QED
      BY <3>1
  <2>2. \A s \in Severities, p \in BOOLEAN : a(s, p) \in Advisories
    BY DEF Advisories
  <2>3. \A p \in BOOLEAN : p = TRUE \/ p = FALSE
    OBVIOUS
  <2> HIDE DEF a
  <2> QED
    BY <2>1, <2>2, <2>3 DEF Severities
<1>2. \A x : IsFiniteSet({x})
  BY FS_Singleton
<1>3. IsFiniteSet(Advisories)
  BY <1>1, <1>2, FS_Union
<1>4. IsFiniteSet(A) /\ IsFiniteSet(B) /\ Cardinality(B) <= Cardinality(A)
  BY <1>3, FS_Subset
<1> QED
  BY <1>4, FS_CardinalityType

\* What the security page puts into its score; the other figures have their best values.
Given(s, h, u, b) ==
  [Unknown EXCEPT !.ssl = s, !.highVulns = h, !.unpatched = u, !.breach = b]
Otherwise(m) ==
  /\ m \in Metrics
  /\ m.uptime = 1000 /\ m.coreUpdate = FALSE /\ m.pluginUpdates = 0 /\ m.autoload = 0
  /\ m.openIncidents = 0 /\ m.backupHours = 1000 /\ m.ttfb = 0

LEMMA GivenMetrics ==
  ASSUME NEW s \in Nat, NEW h \in Nat, NEW u \in BOOLEAN, NEW b \in BOOLEAN
  PROVE  /\ Otherwise(Given(s, h, u, b))
         /\ Given(s, h, u, b).ssl = s /\ Given(s, h, u, b).highVulns = h
         /\ (Given(s, h, u, b).unpatched <=> u) /\ (Given(s, h, u, b).breach <=> b)
<1> DEFINE m1 == [Unknown EXCEPT !.ssl = s]
           m2 == [m1 EXCEPT !.highVulns = h]
           m3 == [m2 EXCEPT !.unpatched = u]
           m4 == [m3 EXCEPT !.breach = b]
<1> USE DEF Otherwise, Metrics
<1>1. Otherwise(Unknown)
  BY DEF Unknown
<1>2. Otherwise(m1) /\ m1.ssl = s
  BY <1>1
<1>3. Otherwise(m2) /\ m2.ssl = s /\ m2.highVulns = h
  <2> HIDE DEF m1
  <2> QED
    BY <1>2
<1>4. Otherwise(m3) /\ m3.ssl = s /\ m3.highVulns = h /\ (m3.unpatched <=> u)
  <2> HIDE DEF m2
  <2> QED
    BY <1>3
<1>5. /\ Otherwise(m4) /\ m4.ssl = s /\ m4.highVulns = h
      /\ (m4.unpatched <=> u) /\ (m4.breach <=> b)
  <2> HIDE DEF m3
  <2> QED
    BY <1>4
<1>6. Given(s, h, u, b) = m4
  BY DEF Given
<1> HIDE DEF m4
<1> QED
  BY <1>5, <1>6

LEMMA SecurityFalls ==
  ASSUME Measured, ReportsNext, Worsens, ~(site.ssl > 0 /\ site'.ssl = 0)
  PROVE  SecurityScore' <= SecurityScore
<1> DEFINE days == IF site.ssl > 0 THEN site.ssl ELSE 999
           high == Cardinality({a \in site.advisories : a.severity = "high"})
<1>1. /\ site \in SiteRecord /\ site' \in SiteRecord /\ topic' = topic
      /\ site.repairFailed => site'.repairFailed
  BY SiteRecords DEF Measured
<1>2. /\ site.advisories \subseteq site'.advisories /\ site'.ssl <= site.ssl
      /\ \A i \in Incidents : incident'[i].status \in {incident[i].status, "open"}
  BY DEF Worsens
<1>3. days \in Nat /\ days' \in Nat /\ days' <= days
  BY <1>1, <1>2 DEF SiteRecord
<1>4. high \in Nat /\ high' \in Nat /\ high <= high'
  <2> DEFINE A == {a \in site'.advisories : a.severity = "high"}
             B == {a \in site.advisories : a.severity = "high"}
  <2>1. A \in SUBSET Advisories /\ B \in SUBSET A
    BY <1>1, <1>2 DEF SiteRecord
  <2>2. high = Cardinality(B) /\ high' = Cardinality(A)
    OBVIOUS
  <2> HIDE DEF A, B, high
  <2> QED
    BY <2>1, <2>2, AdvisoriesCount
<1>5. /\ UnpatchedCritical \in BOOLEAN /\ UnpatchedCritical' \in BOOLEAN
      /\ UnpatchedCritical => UnpatchedCritical'
  BY <1>2 DEF UnpatchedCritical
<1>6. Breach \in BOOLEAN /\ Breach' \in BOOLEAN /\ (Breach => Breach')
  BY <1>1, <1>2 DEF Breach
<1>7. /\ SecurityScore = calculateHealthScore(Given(days, high, UnpatchedCritical, Breach))
      /\ SecurityScore'
           = calculateHealthScore(Given(days', high', UnpatchedCritical', Breach'))
  <2>1. Unknown.ssl = 999
    BY DEF Unknown
  <2> QED
    BY <2>1 DEF SecurityScore, Given
<1> HIDE DEF days, high
<1> DEFINE m == Given(days, high, UnpatchedCritical, Breach)
           n == Given(days', high', UnpatchedCritical', Breach')
<1>8. /\ Otherwise(m) /\ m.ssl = days /\ m.highVulns = high
      /\ (m.unpatched <=> UnpatchedCritical) /\ (m.breach <=> Breach)
  BY <1>3, <1>4, <1>5, <1>6, GivenMetrics
<1>9. /\ Otherwise(n) /\ n.ssl = days' /\ n.highVulns = high'
      /\ (n.unpatched <=> UnpatchedCritical') /\ (n.breach <=> Breach')
  BY <1>3, <1>4, <1>5, <1>6, GivenMetrics
<1> HIDE DEF m, n
<1>10. m \in Metrics /\ n \in Metrics /\ Worse(m, n)
  BY <1>3, <1>4, <1>5, <1>6, <1>8, <1>9 DEF Otherwise, Worse
<1>11. calculateHealthScore(n) <= calculateHealthScore(m)
  BY <1>10, ScoreFalls
<1> QED
  BY <1>7, <1>11 DEF m, n

LEMMA SpeedFalls ==
  ASSUME Measured, ReportsNext, Worsens
  PROVE  SpeedScore' <= SpeedScore
<1> DEFINE m == [Unknown EXCEPT !.ttfb = Ttfb]
           n == [Unknown EXCEPT !.ttfb = Ttfb']
<1>1. Ttfb \in Nat /\ Ttfb' \in Nat /\ Ttfb <= Ttfb'
  <2>1. site \in SiteRecord /\ site' \in SiteRecord
    BY SiteRecords DEF Measured
  <2>2. Ttfb \in Nat /\ Ttfb' \in Nat
    BY <2>1 DEF Ttfb, SiteRecord, Ttfbs, Never
  <2> QED
    BY <2>2 DEF Worsens
<1>2. /\ m \in Metrics /\ n \in Metrics /\ Worse(m, n)
  <2>1. Unknown \in Metrics
    BY DEF Unknown, Metrics
  <2>2. /\ m \in Metrics /\ n \in Metrics /\ m.ttfb = Ttfb /\ n.ttfb = Ttfb'
        /\ m.uptime = n.uptime /\ m.highVulns = n.highVulns /\ (m.coreUpdate <=> n.coreUpdate)
        /\ m.pluginUpdates = n.pluginUpdates /\ m.ssl = n.ssl /\ m.autoload = n.autoload
        /\ m.openIncidents = n.openIncidents /\ m.backupHours = n.backupHours
        /\ (m.unpatched <=> n.unpatched) /\ (m.breach <=> n.breach)
    BY <1>1, <2>1 DEF Metrics
  <2> HIDE DEF m, n
  <2> QED
    BY <1>1, <2>2 DEF Metrics, Worse
<1>3. SpeedScore = calculateHealthScore(m) /\ SpeedScore' = calculateHealthScore(n)
  BY DEF SpeedScore
<1> HIDE DEF m, n
<1> QED
  BY <1>2, <1>3, ScoreFalls

\* A step that makes nothing better leaves alone what is resolved and stays so.
LEMMA ResolvedStays ==
  ASSUME ResolvedInv, ReportsNext, NEW i \in Incidents,
         incident'[i].status \in {incident[i].status, "open"}, incident'[i].status = "resolved"
  PROVE  incident'[i] = incident[i] /\ clock <= clock'
<1> USE DEF ResolvedInv, Set, Records
<1>1. incident[i].status = "resolved"
  OBVIOUS
<1>2. ASSUME NEW j \in Incidents, Open(j) PROVE incident'[i] = incident[i] /\ clock <= clock'
  BY <1>2 DEF Open
<1>3. ASSUME NEW j \in Incidents, TakeUp(j) PROVE incident'[i] = incident[i] /\ clock <= clock'
  BY <1>1, <1>3 DEF TakeUp
<1>4. ASSUME NEW j \in Incidents, Resolve(j) PROVE incident'[i] = incident[i] /\ clock <= clock'
  <2>1. i # j
    BY <1>1, <1>4 DEF Resolve
  <2> QED
    BY <1>4, <2>1 DEF Resolve
<1>5. CASE incident' = incident /\ clock <= clock'
  BY <1>5
<1>6. ASSUME ~(\E j \in Incidents : Open(j) \/ TakeUp(j) \/ Resolve(j))
      PROVE  incident' = incident /\ clock <= clock'
  <2>1. CASE Pass
    BY <2>1 DEF Pass
  <2>2. ASSUME NEW new, Records(new) PROVE incident' = incident /\ clock <= clock'
    BY <2>2
  <2> HIDE DEF Records
  <2>3. CASE RepairFails \/ Age \/ RenewCertificate \/ Measure
    BY <2>2, <2>3 DEF RepairFails, Age, RenewCertificate, Measure
  <2>4. ASSUME NEW a \in Advisories, Advise(a) \/ Withdraw(a)
        PROVE  incident' = incident /\ clock <= clock'
    BY <2>2, <2>4 DEF Advise, Withdraw
  <2>5. ASSUME NEW d \in DomainDays, Register(d) PROVE incident' = incident /\ clock <= clock'
    BY <2>2, <2>5 DEF Register
  <2> QED
    BY <1>6, <2>1, <2>3, <2>4, <2>5 DEF ReportsNext
<1> QED
  BY <1>2, <1>3, <1>4, <1>5, <1>6

LEMMA RevenueFalls ==
  ASSUME ResolvedInv, ReportsNext, Worsens, NEW i \in Incidents
  PROVE  RevenueOf(i)' <= RevenueOf(i)
<1>1. incident[i] \in [status : Statuses, detected : Int, resolved : Int] /\ clock \in Nat
  BY DEF ResolvedInv
<1>2. RevenueOf(i) \in Nat
  <2> DEFINE ticks == Greatest(1, incident[i].resolved - incident[i].detected)
  <2>1. ticks \in Nat
    BY <1>1 DEF Greatest
  <2> HIDE DEF ticks
  <2>2. estimateRevenueLoss(ticks, incident[i].detected) \in Nat
    BY <2>1 DEF estimateRevenueLoss
  <2> QED
    BY <2>2 DEF RevenueOf, ticks
<1>3. CASE i \in Protected'
  <2>1. incident'[i] = incident[i] /\ clock <= clock'
    BY <1>3, ResolvedStays DEF Protected, Worsens
  <2>2. i \in Protected
    <3>1. clock' \in Nat
      BY ResolvedStep DEF ResolvedInv
    <3> QED
      BY <1>1, <1>3, <2>1, <3>1, ReportsAssumption DEF Protected
  <2>3. RevenueOf(i)' = RevenueOf(i)
    BY <1>3, <2>1, <2>2 DEF RevenueOf
  <2> QED
    BY <1>2, <2>3
<1>4. CASE i \notin Protected'
  BY <1>2, <1>4 DEF RevenueOf
<1> QED
  BY <1>3, <1>4

LEMMA FiguresInit == \A topics : ReportsInit(topics) => Measured /\ ResolvedInv
<1> TAKE topics
<1>1. ReportsInit(topics) => Measured
  BY ReportsAssumption DEF ReportsInit, Longest, Measured, SiteRecord, DomainDays
<1>2. ReportsInit(topics) => ResolvedInv
  BY DEF ReportsInit, ResolvedInv, Statuses, Never
<1> QED
  BY <1>1, <1>2

LEMMA FiguresNext ==
  Measured /\ ResolvedInv /\ [ReportsNext]_reportVars => Measured' /\ ResolvedInv'
<1>1. Measured /\ ResolvedInv /\ UNCHANGED reportVars => Measured' /\ ResolvedInv'
  BY DEF Measured, ResolvedInv, reportVars
<1> QED
  BY <1>1, SiteRecords, ResolvedStep

LEMMA NothingGetsBetter ==
  ASSUME Measured, ResolvedInv, ReportsNext, Worsens, ~CertificateExpires
  PROVE  NothingImproves
<1>1. site \in SiteRecord /\ site' \in SiteRecord
  BY SiteRecords DEF Measured
<1>2. Checks' \subseteq Checks
  BY <1>1 DEF Checks, Worsens, SiteRecord, DomainDays
<1>3. buildVitals' => buildVitals
  BY <1>1 DEF buildVitals, Worsens, SiteRecord, Ttfbs, Never
<1>4. CheckoutHealthy' => CheckoutHealthy
  BY DEF CheckoutHealthy, Worsens
<1> QED
  BY <1>2, <1>3, <1>4, SecurityFalls, SpeedFalls, RevenueFalls
     DEF NothingImproves, CertificateExpires

\* Whatever goes wrong with a site, but for a certificate that expires, no score, check, vital
\* or state of the dashboard improves by it, nor what any incident adds to the revenue that was
\* saved (health-score.ts, GET /api/security, /api/performance and /api/store).  This is
\* BadNewsNeverHelps without the figure that is shown for the revenue: a sum, or the mock.
THEOREM NoBadNewsHelps ==
  ReportsSpec => [][Worsens /\ ~CertificateExpires => NothingImproves]_reportVars
<1>1. Worsens => ReportsNext \/ ~[ReportsNext]_reportVars
  BY DEF Worsens
<1>2. ReportsInit(Topics) => Measured /\ ResolvedInv
  BY FiguresInit
<1> QED
  BY <1>1, <1>2, FiguresNext, NothingGetsBetter, PTL DEF ReportsSpec

-----------------------------------------------------------------------------
(***************************************************************************)
(* The types of the reports.                                               *)
(***************************************************************************)
Clocks == 0 .. MaxClock[topic]
Times == Never .. MaxClock[topic]
Cases == [status : Statuses, detected : Times, resolved : Times]
Facts ==
  [ssl : SslDays, domain : DomainDays, advisories : SUBSET Advisories, repairFailed : BOOLEAN,
   synthetic : Ttfbs \cup {Never}, desktop : Ttfbs \cup {Never}]

LEMMA ReportsTypesInit == ReportsInit(Topics) => ReportsTypeOK
<1> SUFFICES ASSUME ReportsInit(Topics) PROVE ReportsTypeOK
  OBVIOUS
<1>0. MaxClock[topic] \in Nat
  BY ReportsAssumption DEF ReportsInit
<1>1. topic \in Topics /\ clock \in Clocks
  BY <1>0 DEF ReportsInit, Clocks
<1>2. Never \in Times
  BY <1>0 DEF Never, Times
<1>3. incident = [i \in Incidents |-> [status |-> "none", detected |-> Never, resolved |-> Never]]
  BY DEF ReportsInit
<1>4. incident \in [Incidents -> Cases]
  BY <1>2, <1>3 DEF Cases, Statuses
<1>5. \E days \in SslDays :
        site = [ssl |-> days, domain |-> 31, advisories |-> {}, repairFailed |-> FALSE,
                synthetic |-> Never, desktop |-> Never]
  BY DEF ReportsInit, Longest
<1>6. site \in Facts
  BY <1>5 DEF Facts, DomainDays
<1> QED
  BY <1>1, <1>4, <1>6 DEF ReportsTypeOK, Cases, Facts, Clocks, Times

LEMMA ReportsTypesNext == ReportsTypeOK /\ [ReportsNext]_reportVars => ReportsTypeOK'
<1> SUFFICES ASSUME ReportsTypeOK, [ReportsNext]_reportVars PROVE ReportsTypeOK'
  OBVIOUS
<1>a. /\ topic \in Topics /\ clock \in Clocks
      /\ incident \in [Incidents -> Cases] /\ site \in Facts
  BY DEF ReportsTypeOK, Cases, Facts, Clocks, Times
<1>b. SUFFICES /\ topic' = topic /\ clock' \in Clocks
               /\ incident' \in [Incidents -> Cases] /\ site' \in Facts
  BY <1>a DEF ReportsTypeOK, Cases, Facts, Clocks, Times
<1>0. MaxClock[topic] \in Nat
  BY <1>a, ReportsAssumption
<1>c. clock \in Times /\ Never \in Times
  BY <1>a, <1>0 DEF Never, Clocks, Times
<1>d. \A i \in Incidents : incident[i] \in Cases
  BY <1>a
<1>e. \A i \in Incidents, c \in Cases : [incident EXCEPT ![i] = c] \in [Incidents -> Cases]
  BY <1>a
<1>1. ASSUME NEW i \in Incidents, Open(i) PROVE incident' \in [Incidents -> Cases]
  <2>1. [status |-> "open", detected |-> clock, resolved |-> Never] \in Cases
    BY <1>c DEF Cases, Statuses
  <2> QED
    BY <1>1, <1>e, <2>1 DEF Open, Set
<1>2. ASSUME NEW i \in Incidents, TakeUp(i) PROVE incident' \in [Incidents -> Cases]
  <2>1. [incident[i] EXCEPT !.status = "fixing"] \in Cases
    BY <1>d DEF Cases, Statuses
  <2>2. incident' = [incident EXCEPT ![i] = [incident[i] EXCEPT !.status = "fixing"]]
    BY <1>2 DEF TakeUp
  <2> QED
    BY <1>e, <2>1, <2>2
<1>3. ASSUME NEW i \in Incidents, Resolve(i) PROVE incident' \in [Incidents -> Cases]
  <2> DEFINE new == [incident[i] EXCEPT !.status = "resolved", !.resolved = clock]
  <2>1. new \in Cases
    BY <1>c, <1>d DEF Cases, Statuses
  <2>2. incident' = [incident EXCEPT ![i] = new]
    BY <1>3, <1>a DEF Resolve
  <2> QED
    BY <1>e, <2>1, <2>2
<1>4. \A i \in Incidents : Open(i) \/ TakeUp(i) \/ Resolve(i) => UNCHANGED <<topic, clock, site>>
  BY DEF Open, TakeUp, Resolve
<1>5. CASE Pass
  BY <1>5, <1>a, <1>0 DEF Pass, Clocks
<1>6. ASSUME NEW f, Records(f), f \in Facts
      PROVE  /\ topic' = topic /\ clock' \in Clocks
             /\ incident' \in [Incidents -> Cases] /\ site' \in Facts
  BY <1>6, <1>a DEF Records
<1>7. CASE RepairFails
  <2>1. [site EXCEPT !.repairFailed = TRUE] \in Facts
    BY <1>a DEF Facts
  <2> QED
    BY <1>6, <1>7, <2>1 DEF RepairFails
<1>8. CASE Age \/ RenewCertificate
  <2>1. PICK d \in SslDays : Records([site EXCEPT !.ssl = d])
    BY <1>8 DEF Age, RenewCertificate, Longest
  <2>2. [site EXCEPT !.ssl = d] \in Facts
    BY <1>a DEF Facts
  <2> QED
    BY <1>6, <2>1, <2>2
<1>9. CASE Measure
  <2>1. PICK f \in {"synthetic", "desktop"}, p \in Ttfbs : Records([site EXCEPT ![f] = p])
    BY <1>9 DEF Measure
  <2>2. [site EXCEPT !.synthetic = p] \in Facts /\ [site EXCEPT !.desktop = p] \in Facts
    BY <1>a DEF Facts
  <2>3. [site EXCEPT ![f] = p] \in Facts
    BY <2>2
  <2> QED
    BY <1>6, <2>1, <2>3
<1>10. ASSUME NEW a \in Advisories, Advise(a) \/ Withdraw(a)
       PROVE  /\ topic' = topic /\ clock' \in Clocks
              /\ incident' \in [Incidents -> Cases] /\ site' \in Facts
  <2>1. /\ [site EXCEPT !.advisories = @ \cup {a}] \in Facts
        /\ [site EXCEPT !.advisories = @ \ {a}] \in Facts
    BY <1>a DEF Facts
  <2> QED
    BY <1>6, <1>10, <2>1 DEF Advise, Withdraw
<1>11. CASE UNCHANGED reportVars
  BY <1>11, <1>a DEF reportVars
<1>12. ASSUME NEW d \in DomainDays, Register(d)
       PROVE  /\ topic' = topic /\ clock' \in Clocks
              /\ incident' \in [Incidents -> Cases] /\ site' \in Facts
  <2>1. [site EXCEPT !.domain = d] \in Facts
    BY <1>a DEF Facts
  <2> QED
    BY <1>6, <1>12, <2>1 DEF Register
<1> QED
  BY <1>a, <1>1, <1>2, <1>3, <1>4, <1>5, <1>7, <1>8, <1>9, <1>10, <1>11, <1>12 DEF ReportsNext

\* Whatever the detectors, the fix pipeline and time do to the records of a site, its incidents
\* and figures keep to the values that the routes of the dashboard are written for
\* (health-score.ts, dashboard.ts).
THEOREM ReportsTypeCorrect == ReportsSpec => []ReportsTypeOK
BY ReportsTypesInit, ReportsTypesNext, PTL DEF ReportsSpec

-----------------------------------------------------------------------------
(***************************************************************************)
(* The types of the panels: those of the restore points and of the         *)
(* progress need more than what makes the panels truthful.                 *)
(***************************************************************************)
Reverts == [of : Shown, at : {"sent", "ok", "failed"}]
RestoreTyped == held \subseteq Points /\ seen \in Dialogs /\ requests \subseteq Reverts

LEMMA RestoreTypes == RestoreTyped /\ RestoreSteps => RestoreTyped'
<1> SUFFICES ASSUME RestoreTyped, RestoreSteps PROVE RestoreTyped'
  OBVIOUS
<1>a. held \subseteq Points /\ seen \in Dialogs /\ requests \subseteq Reverts
  BY DEF RestoreTyped
<1>b. \A p \in Shown, at \in {"sent", "ok", "failed"} : [of |-> p, at |-> at] \in Reverts
  BY DEF Reverts
<1>c. Manual \in Shown /\ Points \subseteq Shown /\ 0 \in 0 .. 2 /\ 1 \in 0 .. 2 /\ 2 \in 0 .. 2
  BY DEF Shown
<1>1. ASSUME NEW p \in Shown, OpenDialog(p) PROVE RestoreTyped'
  <2> DEFINE crossed == \E c \in requests : c.of # p
  <2>1. /\ held' = held /\ requests' = requests /\ crossed \in BOOLEAN
        /\ seen' = [seen EXCEPT !.target = p, !.step = 0, !.crossed = crossed]
    BY <1>1 DEF OpenDialog
  <2> HIDE DEF crossed
  <2>2. seen' \in Dialogs
    BY <2>1, <1>a, <1>c DEF Dialogs
  <2> QED
    BY <2>1, <2>2, <1>a DEF RestoreTyped
<1>2. CASE closeRestoreModal
  <2>1. /\ held' = held /\ requests' = requests
        /\ seen' = [seen EXCEPT !.target = Absent, !.step = 0]
    BY <1>2 DEF closeRestoreModal
  <2>2. seen' \in Dialogs
    BY <2>1, <1>a, <1>c DEF Dialogs
  <2> QED
    BY <2>1, <2>2, <1>a DEF RestoreTyped
<1>3. CASE triggerRestore
  <2>1. /\ held' = held /\ requests' = requests \cup {[of |-> seen.target, at |-> "sent"]}
        /\ seen' = [seen EXCEPT !.step = 1] /\ seen.target # Absent
    BY <1>3 DEF triggerRestore
  <2>2. seen' \in Dialogs /\ seen.target \in Shown
    BY <2>1, <1>a, <1>c DEF Dialogs
  <2>3. requests' \subseteq Reverts
    BY <2>1, <2>2, <1>a, <1>b
  <2> QED
    BY <2>1, <2>2, <2>3, <1>a DEF RestoreTyped
<1>4. CASE triggerBackup
  <2>1. /\ held' = held /\ requests' = requests
        /\ seen' = [seen EXCEPT !.points = seen.points \cup {Manual}]
    BY <1>4 DEF triggerBackup
  <2>2. seen' \in Dialogs
    BY <2>1, <1>a, <1>c DEF Dialogs
  <2> QED
    BY <2>1, <2>2, <1>a DEF RestoreTyped
<1>5. ASSUME NEW p \in Shown, Revert(p) PROVE RestoreTyped'
  <2>1. PICK at \in {"ok", "failed"}, queued \in BOOLEAN :
          /\ queued => p \in Invertible
          /\ held' = IF queued THEN held \cup {p} ELSE held
          /\ requests' = (requests \ {[of |-> p, at |-> "sent"]}) \cup {[of |-> p, at |-> at]}
    BY <1>5 DEF Revert
  <2>2. held' \subseteq Points /\ seen' = seen
    BY <2>1, <1>5, <1>a, PanelsAssumption DEF Revert
  <2>3. [of |-> p, at |-> at] \in Reverts
    BY <1>b
  <2>4. requests' \subseteq Reverts
    BY <2>1, <2>3, <1>a
  <2> QED
    BY <2>2, <2>4, <1>a DEF RestoreTyped
<1>6. ASSUME NEW p \in Shown, HearRevert(p) PROVE RestoreTyped'
  <2>1. PICK at \in {"ok", "failed"} :
          /\ requests' = requests \ {[of |-> p, at |-> at]}
          /\ seen' = IF at = "ok" THEN [seen EXCEPT !.step = 2, !.current = p]
                     ELSE [seen EXCEPT !.step = 0]
    BY <1>6 DEF HearRevert
  <2>2. [seen EXCEPT !.step = 2, !.current = p] \in Dialogs /\ [seen EXCEPT !.step = 0] \in Dialogs
    BY <1>a, <1>c DEF Dialogs
  <2>3. held' = held
    BY <1>6 DEF HearRevert
  <2> QED
    BY <2>1, <2>2, <2>3, <1>a DEF RestoreTyped
<1> QED
  BY <1>1, <1>2, <1>3, <1>4, <1>5, <1>6 DEF RestoreSteps

\* No round reads a row that the run does not have, and the cursor stays among them.
ProgressTyped ==
  /\ held \in [rows : 0 .. LogRows, over : BOOLEAN]
  /\ seen \in [rows : SUBSET (1 .. LogRows), closed : BOOLEAN]
  /\ requests \in [cursor : 0 .. LogRows, rounds : [1 .. 2 -> Round]]

LEMMA ProgressTypes == ProgressInv /\ ProgressTyped /\ ProgressSteps => ProgressTyped'
<1> SUFFICES ASSUME ProgressInv, ProgressTyped, ProgressSteps PROVE ProgressTyped'
  OBVIOUS
<1> DEFINE Runs == [rows : 0 .. LogRows, over : BOOLEAN]
           Streams == [rows : SUBSET (1 .. LogRows), closed : BOOLEAN]
           Reads == [cursor : 0 .. LogRows, rounds : [1 .. 2 -> Round]]
<1>a. LogRows \in Nat \ {0} /\ held \in Runs /\ seen \in Streams /\ requests \in Reads
  BY PanelsAssumption DEF ProgressTyped
<1>b. SUFFICES held' \in Runs /\ seen' \in Streams /\ requests' \in Reads
  BY DEF ProgressTyped
<1>c. \A k \in 1 .. 2, r \in Round : [requests EXCEPT !.rounds[k] = r] \in Reads
  BY <1>a
<1>d. IdleRound \in Round /\ [at |-> "status", rows |-> {}] \in Round
  BY DEF IdleRound, Round
<1>e. \A k \in 1 .. 2 : requests.rounds[k] \in Round
  BY <1>a
<1>1. CASE WriteRow
  <2>1. /\ seen' = seen /\ requests' = requests /\ held' = [held EXCEPT !.rows = held.rows + 1]
        /\ held.rows < (IF held.over THEN LogRows ELSE LogRows - 1)
    BY <1>1 DEF WriteRow
  <2>2. held.rows + 1 \in 0 .. LogRows
    BY <2>1, <1>a
  <2> QED
    BY <2>1, <2>2, <1>a
<1>2. CASE EndIncident
  BY <1>2, <1>a DEF EndIncident
<1>3. ASSUME NEW k \in 1 .. 2, ReadRows(k)
      PROVE  held' \in Runs /\ seen' \in Streams /\ requests' \in Reads
  <2>1. PICK from \in {requests.cursor, requests.cursor + 1} :
          requests' = [requests EXCEPT !.rounds[k] =
                         [at |-> "send", rows |-> (from .. held.rows) \ {0}]]
    BY <1>3 DEF ReadRows
  <2>2. (from .. held.rows) \ {0} \subseteq 1 .. LogRows
    BY <1>a
  <2>3. [at |-> "send", rows |-> (from .. held.rows) \ {0}] \in Round
    BY <2>2 DEF Round
  <2>4. held' = held /\ seen' = seen
    BY <1>3 DEF ReadRows
  <2> QED
    BY <2>1, <2>3, <2>4, <1>a, <1>c
<1>4. ASSUME NEW k \in 1 .. 2, SendRows(k)
      PROVE  held' \in Runs /\ seen' \in Streams /\ requests' \in Reads
  <2> DEFINE rows == requests.rounds[k].rows
             cursor == IF rows = {} THEN requests.cursor ELSE Max(rows)
  <2>1. /\ held' = held /\ requests.rounds[k].at = "send"
        /\ seen' = [seen EXCEPT !.rows = IF seen.closed THEN seen.rows ELSE seen.rows \cup rows]
        /\ requests' = [cursor |-> cursor,
                        rounds |-> [requests.rounds EXCEPT ![k] = [at |-> "status", rows |-> {}]]]
    BY <1>4 DEF SendRows
  <2>2. rows \subseteq 1 .. LogRows
    BY <1>e DEF Round
  <2>3. cursor \in 0 .. LogRows
    <3>1. PICK n \in 0 .. held.rows : Sent(n)
      BY DEF ProgressInv
    <3>2. PICK from \in 0 .. n + 1, to \in 0 .. held.rows : rows = Slice(from, to)
      BY <2>1, <3>1 DEF Sent
    <3>3. from \in Nat /\ to \in Nat /\ to \in 0 .. LogRows
      BY <1>a, <3>1, <3>2
    <3>4. rows # {} => Max(rows) = to
      BY <3>2, <3>3, SliceMax
    <3> QED
      BY <3>3, <3>4, <1>a
  <2> HIDE DEF rows, cursor
  <2>4. seen' \in Streams
    BY <2>1, <2>2, <1>a
  <2>5. requests' \in Reads
    BY <2>1, <2>3, <1>a, <1>d
  <2> QED
    BY <2>1, <2>4, <2>5, <1>a
<1>5. ASSUME NEW k \in 1 .. 2, ReadStatus(k)
      PROVE  held' \in Runs /\ seen' \in Streams /\ requests' \in Reads
  <2>1. /\ held' = held /\ requests' = [requests EXCEPT !.rounds[k] = IdleRound]
        /\ seen' = [seen EXCEPT !.closed = seen.closed \/ held.over]
    BY <1>5 DEF ReadStatus
  <2> QED
    BY <2>1, <1>a, <1>c, <1>d
<1> QED
  BY <1>1, <1>2, <1>3, <1>4, <1>5 DEF ProgressSteps

PanelsTypeInv ==
  /\ PanelsInv /\ panel \in Panels /\ clicks \in 0 .. MaxClicks[panel]
  /\ panel = "restore" => RestoreTyped
  /\ panel = "progress" => ProgressTyped

LEMMA PanelsTypesInit == PanelsInit(Panels) => PanelsTypeInv
<1> SUFFICES ASSUME PanelsInit(Panels) PROVE PanelsTypeInv
  OBVIOUS
<1>1. panel \in Panels /\ panel \in PanelKinds /\ clicks = 0
  BY PanelsAssumption DEF PanelsInit
<1>2. clicks \in 0 .. MaxClicks[panel]
  BY <1>1, PanelsAssumption
<1>3. ASSUME panel = "restore" PROVE RestoreTyped
  <2>1. /\ seen = [points |-> Points, target |-> Absent, step |-> 0, current |-> Absent,
                   crossed |-> FALSE]
        /\ requests = {} /\ held = {}
    BY <1>3 DEF PanelsInit
  <2> QED
    BY <2>1 DEF RestoreTyped, Dialogs, Shown
<1>4. ASSUME panel = "progress" PROVE ProgressTyped
  <2>1. /\ seen = [rows |-> {}, closed |-> FALSE] /\ held = [rows |-> 0, over |-> FALSE]
        /\ requests = [cursor |-> 0, rounds |-> [k \in 1 .. 2 |-> IdleRound]]
    BY <1>4 DEF PanelsInit
  <2>2. IdleRound \in Round /\ LogRows \in Nat
    BY PanelsAssumption DEF IdleRound, Round
  <2> QED
    BY <2>1, <2>2 DEF ProgressTyped
<1> QED
  BY <1>1, <1>2, <1>3, <1>4, PanelsInvInit DEF PanelsTypeInv

\* What the user does is counted, as far as it is followed.
LEMMA ClicksCount ==
  ASSUME PanelsNext
  PROVE  clicks' = clicks \/ (clicks < MaxClicks[panel] /\ clicks' = clicks + 1)
<1> USE DEF ByHand, Quietly
<1> DEFINE counted == clicks' = clicks \/ (clicks < MaxClicks[panel] /\ clicks' = clicks + 1)
<1>1. CatalogSteps => counted
  BY DEF CatalogSteps, CheckAgain, UpdateCore, FailRequest, Select, SyncSite, HearSync, HearList,
     AnswerSite, CoreAtSite, HearCore, HearSite
<1>2. RestoreSteps => counted
  BY DEF RestoreSteps, closeRestoreModal, triggerRestore, triggerBackup, OpenDialog, Revert,
     HearRevert
<1>3. SwitchSteps => counted
  BY DEF SwitchSteps, toggleKillSwitch, SetSwitch, HearSwitch
<1>4. ProgressSteps => counted
  BY DEF ProgressSteps, WriteRow, EndIncident, ReadRows, SendRows, ReadStatus
<1> QED
  BY <1>1, <1>2, <1>3, <1>4 DEF PanelsNext

LEMMA PanelsTypesNext == PanelsTypeInv /\ [PanelsNext]_panelVars => PanelsTypeInv'
<1> SUFFICES ASSUME PanelsTypeInv, [PanelsNext]_panelVars PROVE PanelsTypeInv'
  OBVIOUS
<1>1. PanelsInv' /\ panel \in Panels /\ panel \in PanelKinds /\ clicks \in 0 .. MaxClicks[panel]
  BY PanelsInvNext, PanelsAssumption DEF PanelsTypeInv
<1>2. CASE PanelsNext
  <2>1. panel' = panel
    BY <1>2, PanelStays
  <2>2. clicks' \in 0 .. MaxClicks[panel]
    BY <1>1, <1>2, ClicksCount, PanelsAssumption
  <2>3. panel = "restore" => RestoreTyped'
    BY <1>2, PanelStays, RestoreTypes DEF PanelsTypeInv
  <2>4. panel = "progress" => ProgressTyped'
    BY <1>2, PanelStays, ProgressTypes DEF PanelsTypeInv, PanelsInv
  <2> QED
    BY <1>1, <2>1, <2>2, <2>3, <2>4 DEF PanelsTypeInv
<1>3. CASE UNCHANGED panelVars
  BY <1>1, <1>3 DEF panelVars, PanelsTypeInv, RestoreTyped, ProgressTyped
<1> QED
  BY <1>2, <1>3

LEMMA PanelsAreTyped == PanelsTypeInv => PanelsTypeOK
<1> SUFFICES ASSUME PanelsTypeInv PROVE PanelsTypeOK
  OBVIOUS
<1>1. panel \in Panels /\ panel \in PanelKinds /\ clicks \in 0 .. MaxClicks[panel]
  BY PanelsAssumption DEF PanelsTypeInv
<1>2. CASE panel = "catalog"
  <2>1. CatalogTyped
    BY <1>2 DEF PanelsTypeInv, PanelsInv, CatalogInv
  <2> QED
    BY <1>1, <1>2, <2>1
    DEF PanelsTypeOK, CatalogTyped, Helds, Seens, Requests, Views, Loads, Answers
<1>3. CASE panel = "restore"
  BY <1>1, <1>3
  DEF PanelsTypeOK, PanelsTypeInv, RestoreTyped, Dialogs, Reverts, Helds, Seens, Requests
<1>4. CASE panel = "switch"
  BY <1>1, <1>4 DEF PanelsTypeOK, PanelsTypeInv, PanelsInv, SwitchInv, Helds, Seens, Requests
<1>5. CASE panel = "progress"
  BY <1>1, <1>5 DEF PanelsTypeOK, PanelsTypeInv, ProgressTyped, Helds, Seens, Requests
<1> QED
  BY <1>1, <1>2, <1>3, <1>4, <1>5 DEF PanelKinds

\* However answers overtake one another and rounds overlap, a panel holds only sites, restore
\* points and rows that there are: the cursor of the progress stream stays within the rows of
\* the run (GET /api/stepper/:incidentId), and only points of the database are reverted.
THEOREM PanelsTypeCorrect == PanelsSpec => []PanelsTypeOK
BY PanelsTypesInit, PanelsTypesNext, PanelsAreTyped, PTL DEF PanelsSpec

-----------------------------------------------------------------------------
(***************************************************************************)
(* The types of the pages.                                                 *)
(***************************************************************************)
Versions == 0 .. MaxVersion
Refetches == {Nothing} \cup [at : {"asked"}] \cup [at : {"answered"}, version : Versions]
Lines ==
  [at : {"token", "open", "ended"}, sends : [Two -> Sends], written : Seq(Versions),
   last : -1 .. MaxVersion, leak : BOOLEAN, refetch : Refetches]
Looks == [mine : BOOLEAN, version : Versions, stale : BOOLEAN]
StreamTyped == server \in Versions /\ shown \in Looks /\ wire \in Lines

\* What may be put into the state of a stream.
LEMMA LineParts ==
  ASSUME NEW st \in Lines
  PROVE  /\ \A k \in Two, s \in Sends : [st EXCEPT !.sends[k] = s] \in Lines
         /\ \A r \in Refetches : [st EXCEPT !.refetch = r] \in Lines
         /\ \A at \in {"token", "open", "ended"} : [st EXCEPT !.at = at] \in Lines
         /\ Started(st) \in Lines
<1>1. \A k \in Two, s \in Sends : [st EXCEPT !.sends[k] = s] \in Lines
  BY DEF Lines
<1>2. \A r \in Refetches : [st EXCEPT !.refetch = r] \in Lines
  BY DEF Lines
<1>3. \A at \in {"token", "open", "ended"} : [st EXCEPT !.at = at] \in Lines
  BY DEF Lines
<1>4. Started(st) \in Lines
  <2>1. [at |-> "started"] \in Sends
    BY DEF Sends
  <2> DEFINE free == CHOOSE k \in Two : st.sends[k] = Nothing
  <2>2. CASE \E k \in Two : st.sends[k] = Nothing
    <3>1. free \in Two
      BY <2>2
    <3> HIDE DEF free
    <3>2. [st EXCEPT !.sends[free] = [at |-> "started"]] \in Lines
      BY <1>1, <2>1, <3>1
    <3> QED
      BY <2>2, <3>2 DEF Started, free
  <2>3. CASE ~\E k \in Two : st.sends[k] = Nothing
    BY <2>3 DEF Started
  <2> QED
    BY <2>2, <2>3
<1> QED
  BY <1>1, <1>2, <1>3, <1>4

LEMMA NewLine ==
  /\ Nothing \in Sends /\ Nothing \in Refetches /\ Asked \in Refetches
  /\ NewStream \in Lines
  /\ \A at \in {"token", "ended"}, b \in BOOLEAN, r \in Refetches :
       [NewStream EXCEPT !.at = at, !.leak = b, !.refetch = r] \in Lines
<1>1. Nothing \in Sends /\ Nothing \in Refetches /\ Asked \in Refetches
  BY DEF Sends, Refetches, Asked
<1>2. -1 \in -1 .. MaxVersion /\ <<>> \in Seq(Versions)
  BY ConsoleAssumption
<1>3. NewStream \in Lines
  BY <1>1, <1>2 DEF NewStream, Lines
<1>4. \A st \in Lines : \A at \in {"token", "ended"}, b \in BOOLEAN, r \in Refetches :
        [st EXCEPT !.at = at, !.leak = b, !.refetch = r] \in Lines
  BY DEF Lines
<1> QED
  BY <1>1, <1>3, <1>4

LEMMA StreamTypes == StreamTyped /\ (StreamSteps \/ StreamMoves) => StreamTyped'
<1> SUFFICES ASSUME StreamTyped, StreamSteps \/ StreamMoves PROVE StreamTyped'
  OBVIOUS
<1>a. server \in Versions /\ shown \in Looks /\ wire \in Lines
  BY DEF StreamTyped
<1>b. SUFFICES server' \in Versions /\ shown' \in Looks /\ wire' \in Lines
  BY DEF StreamTyped
<1>c. Started(wire) \in Lines
  BY <1>a, LineParts
<1>1. CASE Change
  <2>1. server' \in Versions
    BY <1>1, <1>a, ConsoleAssumption DEF Change, Versions
  <2>2. shown' = shown /\ (wire' = wire \/ wire' = Started(wire))
    BY <1>1 DEF Change
  <2> QED
    BY <2>1, <2>2, <1>a, <1>c
<1>2. CASE SendDone
  <2>1. /\ server' = server /\ shown' = shown /\ wire.written # <<>>
        /\ wire' = [wire EXCEPT !.last = Head(wire.written), !.written = Tail(wire.written)]
    BY <1>2 DEF SendDone
  <2>2. wire.written \in Seq(Versions)
    BY <1>a DEF Lines
  <2>3. Head(wire.written) \in Versions /\ Tail(wire.written) \in Seq(Versions)
    BY <2>1, <2>2
  <2>4. Head(wire.written) \in -1 .. MaxVersion
    BY <2>3, ConsoleAssumption DEF Versions
  <2>5. wire' \in Lines
    BY <2>1, <2>3, <2>4, <1>a DEF Lines
  <2> QED
    BY <2>1, <2>5, <1>a
<1>3. CASE Poll
  BY <1>3, <1>a, <1>c DEF Poll
<1>4. CASE Connect
  <2>1. wire' = Started([wire EXCEPT !.at = "open"]) /\ server' = server /\ shown' = shown
    BY <1>4 DEF Connect
  <2>2. [wire EXCEPT !.at = "open"] \in Lines
    BY <1>a, LineParts
  <2> QED
    BY <2>1, <2>2, <1>a, LineParts
<1>5. CASE AnswerRefetch
  <2>1. /\ wire' = [wire EXCEPT !.refetch = [at |-> "answered", version |-> server]]
        /\ server' = server /\ shown' = shown
    BY <1>5 DEF AnswerRefetch
  <2>2. [at |-> "answered", version |-> server] \in Refetches
    BY <1>a DEF Refetches
  <2> QED
    BY <2>1, <2>2, <1>a, LineParts
<1>6. CASE ShowRefetch
  <2>1. /\ wire' = [wire EXCEPT !.refetch = Nothing] /\ server' = server
        /\ shown' = [mine |-> TRUE, version |-> wire.refetch.version,
                     stale |-> wire.refetch.version < server]
        /\ wire.refetch.at = "answered"
    BY <1>6 DEF ShowRefetch
  <2>2. wire.refetch \in Refetches
    BY <1>a DEF Lines
  <2>3. wire.refetch.version \in Versions
    BY <2>1, <2>2 DEF Refetches, Nothing
  <2>4. shown' \in Looks
    BY <2>1, <2>3 DEF Looks
  <2>5. wire' \in Lines
    BY <2>1, <1>a, LineParts, NewLine
  <2> QED
    BY <2>1, <2>4, <2>5, <1>a
<1>7. ASSUME NEW k \in Two, SendRead(k)
      PROVE  server' \in Versions /\ shown' \in Looks /\ wire' \in Lines
  <2>1. /\ wire' = [wire EXCEPT !.sends[k] = [at |-> "read", version |-> server]]
        /\ server' = server /\ shown' = shown
    BY <1>7 DEF SendRead
  <2>2. [at |-> "read", version |-> server] \in Sends
    BY <1>a DEF Sends, Versions
  <2>3. wire' \in Lines
    BY <2>1, <2>2, <1>a, LineParts
  <2> QED
    BY <2>1, <2>3, <1>a
<1>8. ASSUME NEW k \in Two, SendWrite(k)
      PROVE  server' \in Versions /\ shown' \in Looks /\ wire' \in Lines
  <2> DEFINE v == wire.sends[k].version
             st == [wire EXCEPT !.sends[k] = Nothing]
  <2>1. /\ server' = server /\ wire.sends[k].at = "read"
        /\ \/ wire' = st /\ shown' = shown
           \/ /\ wire' = [st EXCEPT !.written = Append(st.written, v)]
              /\ shown' = [mine |-> TRUE, version |-> v, stale |-> FALSE]
    BY <1>8 DEF SendWrite
  <2>2. wire.sends[k] \in Sends
    BY <1>a DEF Lines
  <2>3. v \in Versions
    BY <2>1, <2>2 DEF Sends, Nothing, Versions
  <2>4. st \in Lines
    BY <1>a, LineParts, NewLine
  <2> HIDE DEF st, v
  <2>5. st.written \in Seq(Versions)
    BY <2>4 DEF Lines
  <2>6. Append(st.written, v) \in Seq(Versions)
    BY <2>3, <2>5
  <2>7. [st EXCEPT !.written = Append(st.written, v)] \in Lines
    BY <2>4, <2>6 DEF Lines
  <2>8. [mine |-> TRUE, version |-> v, stale |-> FALSE] \in Looks
    BY <2>3 DEF Looks
  <2> QED
    BY <2>1, <2>4, <2>7, <2>8, <1>a
<1>9. CASE Disconnect
  <2>1. PICK at \in {"token", "ended"} :
          wire' = [NewStream EXCEPT !.at = at, !.leak = wire.leak, !.refetch = wire.refetch]
    BY <1>9 DEF Disconnect
  <2>2. wire.leak \in BOOLEAN /\ wire.refetch \in Refetches
    BY <1>a DEF Lines
  <2>3. wire' \in Lines /\ server' = server /\ shown' = shown
    BY <1>9, <2>1, <2>2, NewLine DEF Disconnect
  <2> QED
    BY <2>3, <1>a
<1>10. CASE SwitchSite
  <2> DEFINE leak == wire.leak \/ wire.at = "token"
  <2>1. /\ server' = server /\ shown' = [shown EXCEPT !.mine = FALSE]
        /\ wire' = [NewStream EXCEPT !.leak = leak, !.refetch = Asked]
    BY <1>10 DEF SwitchSite
  <2>2. leak \in BOOLEAN
    BY <1>a DEF Lines
  <2> HIDE DEF leak
  <2>3. \A st \in Lines : [st EXCEPT !.leak = leak, !.refetch = Asked] \in Lines
    BY <2>2, NewLine DEF Lines
  <2>4. shown' \in Looks
    BY <2>1, <1>a DEF Looks
  <2> QED
    BY <2>1, <2>3, <2>4, <1>a, NewLine
<1>11. CASE ShowOtherSite
  BY <1>11, <1>a DEF ShowOtherSite, Looks
<1>12. CASE Refetch
  BY <1>12, <1>a, LineParts, NewLine DEF Refetch
<1> QED
  BY <1>1, <1>2, <1>3, <1>4, <1>5, <1>6, <1>7, <1>8, <1>9, <1>10, <1>11, <1>12
  DEF StreamSteps, StreamMoves

\* There is a tier to begin with, so that every value of the form is one.
LEMMA ValuesAreTiers == Values = Tiers
BY ConsoleAssumption DEF Values, FirstTier

Stored == [tier : Tiers, had : SUBSET Tiers]
SettingsTyped == server \in Stored

LEMMA SettingsTypes ==
  SettingsInv /\ SettingsTyped /\ (SettingsSteps \/ SettingsMoves) => SettingsTyped'
<1> SUFFICES ASSUME SettingsInv, SettingsTyped, SettingsSteps \/ SettingsMoves PROVE SettingsTyped'
  OBVIOUS
<1>1. ASSUME NEW k \in Two, ApplySettings(k) PROVE SettingsTyped'
  <2>1. /\ server' = [tier |-> wire[k].tier, had |-> server.had \cup {wire[k].tier}]
        /\ wire[k].at = "sent"
    BY <1>1 DEF ApplySettings
  <2>2. wire[k] \in Saves
    BY <2>1 DEF SettingsInv, Nothing
  <2>3. wire[k].tier \in Tiers
    BY <2>2, ValuesAreTiers DEF Saves
  <2> QED
    BY <2>1, <2>3 DEF SettingsTyped, Stored
<1>2. ASSUME server' = server PROVE SettingsTyped'
  BY <1>2 DEF SettingsTyped
<1>3. \A k \in Two : HearSettings(k) \/ FailSettings(k) => server' = server
  BY DEF HearSettings, FailSettings
<1>4. \A k \in Two, t \in Tiers : Choose(k, t) => server' = server
  BY DEF Choose
<1> QED
  BY <1>1, <1>2, <1>3, <1>4 DEF SettingsSteps, SettingsMoves

ConsoleTypeInv ==
  /\ ConsoleInv /\ page \in Pages /\ moves \in 0 .. MaxMoves[page]
  /\ page = "stream" => StreamTyped
  /\ page = "settings" => SettingsTyped

LEMMA ConsoleTypesInit == ConsoleInit(Pages) => ConsoleTypeInv
<1> SUFFICES ASSUME ConsoleInit(Pages) PROVE ConsoleTypeInv
  OBVIOUS
<1>1. page \in Pages /\ page \in PageKinds /\ moves = 0
  BY ConsoleAssumption DEF ConsoleInit
<1>2. moves \in 0 .. MaxMoves[page]
  BY <1>1, ConsoleAssumption
<1>3. ASSUME page = "stream" PROVE StreamTyped
  <2>1. /\ server = 0 /\ shown = [mine |-> FALSE, version |-> 0, stale |-> FALSE]
        /\ wire = [NewStream EXCEPT !.refetch = Asked]
    BY <1>3 DEF ConsoleInit
  <2>2. 0 \in Versions
    BY ConsoleAssumption DEF Versions
  <2>3. wire \in Lines
    BY <2>1, NewLine, LineParts
  <2> QED
    BY <2>1, <2>2, <2>3 DEF StreamTyped, Looks
<1>4. ASSUME page = "settings" PROVE SettingsTyped
  <2>1. server = [tier |-> FirstTier, had |-> {FirstTier}]
    BY <1>4 DEF ConsoleInit
  <2>2. FirstTier \in Tiers
    BY ConsoleAssumption DEF FirstTier
  <2> QED
    BY <2>1, <2>2 DEF SettingsTyped, Stored
<1> QED
  BY <1>1, <1>2, <1>3, <1>4, ConsoleInvInit DEF ConsoleTypeInv

\* Only the stream's page takes the stream's steps.
LEMMA StreamStays == ConsoleNext /\ page = "stream" => StreamSteps \/ StreamMoves
<1>1. SettingsSteps \/ SettingsMoves => page = "settings"
  BY DEF SettingsSteps, SettingsMoves, ApplySettings, HearSettings, FailSettings, Choose
<1>2. UpdatesSteps \/ UpdatesMoves => page = "updates"
  BY DEF UpdatesSteps, UpdatesMoves, HearPost, AddJob, EndJob, Expire, AskStatus, EndPoll,
     HearStatus, FailPost, StartBatch
<1>3. CardSteps \/ CardMoves => page = "card"
  BY DEF CardSteps, CardMoves, SeeStage, Handle, HearAction, MoveIncident, Click
<1> QED
  BY <1>1, <1>2, <1>3 DEF ConsoleNext, ConsoleSteps, ConsoleMoves

LEMMA MovesCount ==
  ASSUME ConsoleNext
  PROVE  moves' = moves \/ (moves < MaxMoves[page] /\ moves' = moves + 1)
<1> USE DEF ByUser, ByItself
<1> DEFINE counted == moves' = moves \/ (moves < MaxMoves[page] /\ moves' = moves + 1)
<1>1. StreamSteps \/ StreamMoves => counted
  BY DEF StreamSteps, StreamMoves, Change, SendDone, Poll, Connect, AnswerRefetch, ShowRefetch,
     SendRead, SendWrite, Disconnect, SwitchSite, ShowOtherSite, Refetch
<1>2. SettingsSteps \/ SettingsMoves => counted
  BY DEF SettingsSteps, SettingsMoves, ApplySettings, HearSettings, FailSettings, Choose
<1>3. UpdatesSteps \/ UpdatesMoves => counted
  BY DEF UpdatesSteps, UpdatesMoves, HearPost, AddJob, EndJob, Expire, AskStatus, EndPoll,
     HearStatus, FailPost, StartBatch
<1>4. CardSteps \/ CardMoves => counted
  BY DEF CardSteps, CardMoves, SeeStage, Handle, HearAction, MoveIncident, Click
<1> QED
  BY <1>1, <1>2, <1>3, <1>4 DEF ConsoleNext, ConsoleSteps, ConsoleMoves

LEMMA ConsoleTypesNext == ConsoleTypeInv /\ [ConsoleNext]_consoleVars => ConsoleTypeInv'
<1> SUFFICES ASSUME ConsoleTypeInv, [ConsoleNext]_consoleVars PROVE ConsoleTypeInv'
  OBVIOUS
<1>1. ConsoleInv' /\ page \in Pages /\ page \in PageKinds /\ moves \in 0 .. MaxMoves[page]
  BY ConsoleInvNext, ConsoleAssumption DEF ConsoleTypeInv
<1>2. CASE ConsoleNext
  <2>1. page' = page
    BY <1>2, PageStays
  <2>2. moves' \in 0 .. MaxMoves[page]
    BY <1>1, <1>2, MovesCount, ConsoleAssumption
  <2>3. page = "stream" => StreamTyped'
    BY <1>2, StreamStays, StreamTypes DEF ConsoleTypeInv
  <2>4. page = "settings" => SettingsTyped'
    BY <1>2, PageStays, SettingsTypes DEF ConsoleTypeInv, ConsoleInv
  <2> QED
    BY <1>1, <2>1, <2>2, <2>3, <2>4 DEF ConsoleTypeInv
<1>3. CASE UNCHANGED consoleVars
  BY <1>1, <1>3 DEF consoleVars, ConsoleTypeInv, StreamTyped, SettingsTyped
<1> QED
  BY <1>2, <1>3

LEMMA ConsoleIsTyped == ConsoleTypeInv => ConsoleTypeOK
<1> SUFFICES ASSUME ConsoleTypeInv PROVE ConsoleTypeOK
  OBVIOUS
<1>1. page \in Pages /\ page \in PageKinds /\ moves \in 0 .. MaxMoves[page]
  BY ConsoleAssumption DEF ConsoleTypeInv
<1>2. CASE page = "stream"
  BY <1>1, <1>2
  DEF ConsoleTypeOK, ConsoleTypeInv, StreamTyped, Versions, Looks, Lines, Refetches,
      Servers, Showns, Wires
<1>3. CASE page = "settings"
  <2>1. /\ server \in Stored /\ shown \in [tier : Tiers, overlapped : BOOLEAN]
        /\ wire \in [Two -> {Nothing} \cup [at : {"sent", "applied", "failed"},
                                            tier : Tiers, prev : Tiers]]
    BY <1>3, ValuesAreTiers DEF ConsoleTypeInv, ConsoleInv, SettingsInv, SettingsTyped, Saves
  <2> QED
    BY <1>1, <1>3, <2>1 DEF ConsoleTypeOK, Stored, Servers, Showns, Wires
<1>4. CASE page = "updates"
  <2>1. UpdatesTyped
    BY <1>4 DEF ConsoleTypeInv, ConsoleInv, UpdatesInv
  <2> QED
    BY <1>1, <1>4, <2>1 DEF ConsoleTypeOK, UpdatesTyped, Posts, Polls, Servers, Showns, Wires
<1>5. CASE page = "card"
  <2>1. DOMAIN Actions = {"approve", "decline", "rollback", "reconsider"}
    BY DEF Actions
  <2>2. /\ server \in Stages /\ shown \in [stage : Stages, phase : Phases, late : BOOLEAN]
        /\ wire \in {Nothing} \cup [at : {"sent", "ok", "failed"},
                                    what : {"approve", "decline", "rollback", "reconsider"}]
    BY <1>5, <2>1 DEF ConsoleTypeInv, ConsoleInv, CardInv
  <2> QED
    BY <1>1, <1>5, <2>2 DEF ConsoleTypeOK, Servers, Showns, Wires
<1> QED
  BY <1>1, <1>2, <1>3, <1>4, <1>5 DEF PageKinds

\* Whatever saves, polls, refetches and updates of the stream overlap, a page holds and shows
\* only tiers, plugins and versions that there are or were (stream-context.tsx,
\* settings/page.tsx, updates/page.tsx, execution-stepper.tsx), and its card one of its phases.
THEOREM ConsoleTypeCorrect == ConsoleSpec => []ConsoleTypeOK
BY ConsoleTypesInit, ConsoleTypesNext, ConsoleIsTyped, PTL DEF ConsoleSpec
==============================================================================
