------------------------------ MODULE Reports ------------------------------
(***************************************************************************)
(* What the dashboard's read routes make of the records of one site:       *)
(*   packages/shared/src/health-score.ts, revenue-loss.ts                  *)
(*   apps/api/src/routes/dashboard.ts   GET /api/security, /api/store,     *)
(*     /api/performance, /api/reports, /api/reports/:id/export             *)
(*                                                                         *)
(* The routes are operators on the state; the actions change the records   *)
(* the way the detectors, the fix pipeline and time do.  A behaviour is    *)
(* about one topic, and its clock counts what that topic counts.           *)
(***************************************************************************)
EXTENDS Integers, FiniteSetsExt

CONSTANTS
  Incidents,  \* incidents of the site
  Known,      \* bound: those that a topic looks at
  SslDays,    \* bound: days to expiry that are looked at, 0 for a date that is past
  FirstMonth, \* months are counted from a January
  MaxClock,   \* bound: the clock, for each topic
  ThirtyDays, \* bound: how far the store looks back, in ticks of its clock
  Topics      \* the topics considered

TopicKinds == {"health", "store", "months"}
ASSUME ReportsAssumption ==
  /\ Topics \subseteq TopicKinds /\ FirstMonth \in Nat /\ ThirtyDays \in Nat
  /\ MaxClock \in [TopicKinds -> Nat] /\ Known \in [TopicKinds -> SUBSET Incidents]
  /\ SslDays \subseteq Nat /\ SslDays # {}

VARIABLES topic, clock, incident, site
reportVars == <<topic, clock, incident, site>>

Never == -1
Statuses == {"none", "open", "fixing", "resolved"}
Severities == {"critical", "high"}
Advisories == [severity : Severities, patched : BOOLEAN]
Ttfbs == {300, 900}
\* Days to the renewal of the domain, on either side of the only threshold.
DomainDays == {30, 31}

ReportsTypeOK ==
  /\ topic \in Topics /\ clock \in 0 .. MaxClock[topic]
  /\ incident \in [Incidents -> [status : Statuses, detected : Never .. MaxClock[topic],
                                 resolved : Never .. MaxClock[topic]]]
  /\ site \in [ssl : SslDays, domain : DomainDays, advisories : SUBSET Advisories,
               repairFailed : BOOLEAN, synthetic : Ttfbs \cup {Never}, desktop : Ttfbs \cup {Never}]

Longest(days) == {d \in days : \A e \in days : e <= d}

ReportsInit(topics) ==
  /\ topic \in topics /\ clock = 0
  /\ incident = [i \in Incidents |-> [status |-> "none", detected |-> Never, resolved |-> Never]]
  /\ \E days \in Longest(SslDays) :
       site = [ssl |-> days, domain |-> 31, advisories |-> {}, repairFailed |-> FALSE,
               synthetic |-> Never, desktop |-> Never]

-----------------------------------------------------------------------------
(***************************************************************************)
(* The health score.  A metric that is not given has its best value, but   *)
(* for the age of the last backup.                                         *)
(***************************************************************************)
Off(points, condition) == IF condition THEN points ELSE 0
Least(a, b) == IF a < b THEN a ELSE b
Greatest(a, b) == IF a < b THEN b ELSE a

\* Uptime in tenths of a per cent.
Unknown ==
  [uptime |-> 1000, highVulns |-> 0, coreUpdate |-> FALSE, pluginUpdates |-> 0, ssl |-> 999,
   autoload |-> 0, openIncidents |-> 0, backupHours |-> 1000, ttfb |-> 0,
   unpatched |-> FALSE, breach |-> FALSE]

Lost(m) ==
  Off(15, m.uptime < 999) + Off(25, m.uptime < 990) + 5 * Least(m.highVulns, 4)
  + Off(10, m.coreUpdate) + Off(10, m.pluginUpdates > 5)
  + Off(15, m.ssl < 14) + Off(30, m.ssl < 3) + Off(5, m.autoload > 1000)
  + 10 * m.openIncidents + Off(10, m.backupHours > 24) + Off(20, m.backupHours > 72)
  + Off(10, m.ttfb > 600)

calculateHealthScore(m) ==
  IF m.unpatched \/ m.breach THEN 0 ELSE Greatest(0, 100 - Lost(m))

\* Fault: "every" for "some".
EveryCriticalUnpatched ==
  LET critical == {a \in site.advisories : a.severity = "critical"}
  IN  critical # {} /\ \A a \in critical : ~a.patched

UnpatchedCritical == \E a \in site.advisories : a.severity = "critical" /\ ~a.patched

\* An open breach, or a repair that failed at some time.
Breach ==
  topic = "health" /\ (site.repairFailed \/ \E i \in Incidents : incident[i].status = "open")

\* A date that is past is left out, like one that is not known.
SecurityScore ==
  calculateHealthScore(
    [Unknown EXCEPT !.ssl = IF site.ssl > 0 THEN site.ssl ELSE @,
                    !.highVulns = Cardinality({a \in site.advisories : a.severity = "high"}),
                    !.unpatched = UnpatchedCritical, !.breach = Breach])

Checks ==
  {c \in {"ssl", "domain", "feed"} :
     CASE c = "ssl" -> site.ssl > 14 [] c = "domain" -> site.domain > 30
       [] OTHER -> site.advisories = {}}

\* The newest synthetic measurement goes before the field data.
Ttfb == IF site.synthetic # Never THEN site.synthetic
        ELSE IF site.desktop # Never THEN site.desktop ELSE 0
SpeedScore == calculateHealthScore([Unknown EXCEPT !.ttfb = Ttfb])

\* A vital is healthy below its target, and when the snapshot lacks it.
buildVitals == site.desktop < 600

-----------------------------------------------------------------------------
(***************************************************************************)
(* The store: a tick is two hours, from noon on, and 6 PM to 10 PM are     *)
(* peak hours.  The order value that stands for an hour's revenue is 10.   *)
(***************************************************************************)
HourAt(t) == (12 + 2 * t) % 24
estimateRevenueLoss(ticks, detected) ==
  2 * ticks * (IF HourAt(detected) \in 18 .. 22 THEN 18 ELSE 10)

\* Resolved in the last thirty days.
Protected ==
  {i \in Incidents : incident[i].status = "resolved" /\ incident[i].resolved > clock - ThirtyDays}
\* What an incident adds to the figure: the time it took, at the price of its hour.
RevenueOf(i) ==
  IF i \in Protected
  THEN estimateRevenueLoss(Greatest(1, incident[i].resolved - incident[i].detected),
                           incident[i].detected)
  ELSE 0
\* "Default to mock value if none protected yet to avoid empty screens".
Mock == 14280
Protected30d ==
  LET sum == MapThenSumSet(RevenueOf, Incidents) IN IF sum = 0 THEN Mock ELSE sum

\* Only an incident that nobody has taken up counts.
CheckoutHealthy == \A i \in Incidents : incident[i].status # "open"

-----------------------------------------------------------------------------
(***************************************************************************)
(* The monthly reports.  A month has four ticks: its first instant, a time *)
(* before its last day, the last day, and the fraction of a second after   *)
(* 23:59:59 that ends it.                                                  *)
(***************************************************************************)
MonthOf(t) == FirstMonth + t \div 4
startOfMonth(m) == 4 * (m - FirstMonth)
endOfMonth(m) == startOfMonth(m) + 2

ResolvedIn(from, to) ==
  {i \in Incidents : /\ incident[i].status = "resolved"
                     /\ incident[i].resolved > from /\ incident[i].resolved <= to}

\* Fault: the month ends when its last day begins.
LastDayLost(m) == ResolvedIn(startOfMonth(m), endOfMonth(m) - 1)

Counted(m) == ResolvedIn(startOfMonth(m), endOfMonth(m))

\* This month and the two before it, by year and month: r-<year>-<month>.
Listed == {MonthOf(clock) - i : i \in 0 .. 2}
IdOf(m) == [year |-> m \div 12, month |-> (m % 12) + 1]

Export(id) ==
  LET m == 12 * id.year + (id.month - 1) IN ResolvedIn(startOfMonth(m), endOfMonth(m))

-----------------------------------------------------------------------------
Set(i, r) == incident' = [incident EXCEPT ![i] = r]
Records(s) == site' = s /\ UNCHANGED <<topic, clock, incident>>

\* A detector opens an incident, or opens it again: when it was resolved is forgotten.
Open(i) ==
  /\ i \in Known[topic] /\ incident[i].status \in {"none", "resolved"}
  /\ Set(i, [status |-> "open", detected |-> clock, resolved |-> Never])
  /\ UNCHANGED <<topic, clock, site>>

\* The fix pipeline takes it up.
TakeUp(i) ==
  /\ incident[i].status = "open" /\ incident' = [incident EXCEPT ![i].status = "fixing"]
  /\ UNCHANGED <<topic, clock, site>>

Resolve(i) ==
  /\ incident[i].status \in {"open", "fixing"}
  /\ incident' = [incident EXCEPT ![i].status = "resolved", ![i].resolved = clock]
  /\ UNCHANGED <<topic, clock, site>>

Pass ==
  /\ topic # "health" /\ clock < MaxClock[topic] /\ clock' = clock + 1
  /\ UNCHANGED <<topic, incident, site>>

\* Vulnerability feed: an advisory is published, a patch comes out, a plugin is removed.
Advise(a) == topic = "health" /\ Records([site EXCEPT !.advisories = @ \cup {a}])
Withdraw(a) ==
  topic = "health" /\ a \in site.advisories /\ Records([site EXCEPT !.advisories = @ \ {a}])

RepairFails == topic = "health" /\ Records([site EXCEPT !.repairFailed = TRUE])

\* The certificate comes nearer to its end, or is renewed.
Age ==
  /\ topic = "health"
  /\ \E d \in Longest({d \in SslDays : d < site.ssl}) : Records([site EXCEPT !.ssl = d])
RenewCertificate ==
  topic = "health" /\ \E d \in Longest(SslDays) : Records([site EXCEPT !.ssl = d])

\* The registration of the domain comes near to its end, or is renewed.
Register(d) == topic = "health" /\ Records([site EXCEPT !.domain = d])

Measure ==
  /\ topic = "health"
  /\ \E f \in {"synthetic", "desktop"}, p \in Ttfbs : Records([site EXCEPT ![f] = p])

ReportsNext ==
  \/ Pass \/ RepairFails \/ Age \/ RenewCertificate \/ Measure
  \/ \E d \in DomainDays : Register(d)
  \/ \E i \in Incidents : Open(i) \/ TakeUp(i) \/ Resolve(i)
  \/ \E a \in Advisories : Advise(a) \/ Withdraw(a)

-----------------------------------------------------------------------------
\* Resolved at the first instant of a month, or after 23:59:59 on its last day: such an
\* incident is in no report.
InGap(t) == t % 4 \in {0, 3}

\* The monthly reports (dashboard.ts:1209-1250): across the end of the year and whenever it
\* is looked at, an incident resolved in one of the last three months is counted in one of
\* them, outside the gaps, and in no two of them; and the CSV of a report has the
\* incidents that it counts.
EveryFixIsReportedOnce ==
  topic = "months" =>
    /\ \A i \in Incidents :
         LET reports == {m \in Listed : i \in Counted(m)}
             at == incident[i].resolved
         IN  /\ Cardinality(reports) <= 1
             /\ incident[i].status = "resolved" /\ MonthOf(at) \in Listed /\ ~InGap(at)
                  => reports = {MonthOf(at)}
    /\ \A m \in Listed : Export(IdOf(m)) = Counted(m)

\* Something happened, and nothing got better.
Worsens ==
  /\ reportVars' # reportVars
  /\ \A i \in Incidents : incident'[i].status \in {incident[i].status, "open"}
  /\ site.advisories \subseteq site'.advisories
  /\ site'.ssl <= site.ssl /\ site'.domain <= site.domain
  /\ Ttfb' >= Ttfb /\ site'.desktop >= site.desktop

\* A certificate that expires: it stops counting against the score.
CertificateExpires == site.ssl > 0 /\ site'.ssl = 0

\* No score rises, no check or vital turns healthy, nor does the store, and no incident
\* adds more to the revenue that was protected.
NothingImproves ==
  /\ SecurityScore' <= SecurityScore /\ SpeedScore' <= SpeedScore
  /\ Checks' \subseteq Checks /\ (buildVitals' => buildVitals)
  /\ (CheckoutHealthy' => CheckoutHealthy)
  /\ \A i \in Incidents : RevenueOf(i)' <= RevenueOf(i)

\* Bad news never improves a figure of the dashboard (dashboard.ts:350-433, :1150-1202): not
\* the scores, the checks, the vitals, the state of the store, nor the protected revenue
\* that is shown.  The two exceptions: a certificate that expires, and the loss of the last
\* incident that counts for the revenue, when the page shows the mock value instead.
BadNewsNeverHelps ==
  [][Worsens /\ ~CertificateExpires =>
       NothingImproves /\ (Protected30d' <= Protected30d \/ Protected' = {})]_reportVars
=============================================================================
