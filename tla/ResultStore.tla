----------------------------- MODULE ResultStore -----------------------------
(***************************************************************************)
(* The results of one process: the table check_results (models.py), what   *)
(* the scheduled and the manual check write to it and to the status gauge  *)
(* (scheduler.py, main.py, metrics.py), the daily purge, and the queries   *)
(* of the API over it.                                                     *)
(*                                                                         *)
(* The clock is that of the host, which may be set back.  A run that is in *)
(* flight when its service is removed still ends here, so a check may be   *)
(* stored of any name (module Monitor has the runs themselves).            *)
(*                                                                         *)
(* "peak", "written", "lost", "asked" and "deserved" are history.          *)
(***************************************************************************)
EXTENDS Checks, FiniteSets

CONSTANTS
    Name,        \* service names
    Svc,         \* Svc[n]: the ServiceConfig of n, whenever it is in the file
    Window,      \* windows of /uptime, in days (the code has 1, 7 and 30)
    Retention,   \* settings.retention_days; 0 or less keeps everything
    MaxRows,     \* results in a behaviour (bound)
    MaxNow       \* clock readings (bound)

ASSUME StoreAssumption ==
    /\ Svc \in [Name -> Config]
    /\ Window \subseteq Nat
    /\ Retention \in Int
    /\ MaxRows \in Nat
    /\ MaxNow \in Nat

VARIABLES
    now,        \* the clock
    rows,       \* check_results
    nextId,     \* the sequence of its primary key
    gauge,      \* gauge[n]: monitor_service_status, "none" without a series
    peak,       \* the latest reading the clock ever had
    written,    \* every row ever committed
    lost,       \* the names whose last commit raised, with or without effect
    asked,      \* asked[n]: the limits that the last check on the gauge went by
    deserved    \* deserved[n]: what the last check on the gauge had said of n
                \* with the timeout and thresholds of services.yaml

vars == <<now, rows, nextId, gauge, peak, written, lost, asked, deserved>>

Row == [id : Nat, name : Name, status : States, created_at : Nat]

AnyLimits == {None, Settings} \union Request \union {Svc[n] : n \in Name}

TypeOK ==
    /\ now \in 0..MaxNow
    /\ rows \subseteq written
    /\ written \subseteq Row
    /\ nextId \in 1..(MaxRows + 1)
    /\ gauge \in [Name -> States \union {"none"}]
    /\ peak \in now..MaxNow
    /\ lost \subseteq Name
    /\ asked \in [Name -> AnyLimits]
    /\ deserved \in [Name -> States \union {"none"}]
    /\ \A r \in written : r.id < nextId /\ r.created_at <= peak
    /\ \A r, q \in written : r.id = q.id => r = q

NoGauge == [n \in Name |-> "none"]

NotAsked == [n \in Name |-> None]

Init ==
    /\ now = 0
    /\ rows = {}
    /\ nextId = 1
    /\ gauge = NoGauge
    /\ peak = 0
    /\ written = {}
    /\ lost = {}
    /\ asked = NotAsked
    /\ deserved = NoGauge

-----------------------------------------------------------------------------
(* Checks.                                                                 *)

\* Seeded mistake: rows share a primary key.
SameId == nextId

NextId == nextId + 1

\* session.add and commit of a CheckResult, whose created_at is _utcnow().
Insert(n, status) ==
    LET row == [id |-> nextId, name |-> n, status |-> status, created_at |-> now] IN
    /\ nextId <= MaxRows
    /\ rows' = rows \union {row}
    /\ written' = written \union {row}
    /\ nextId' = NextId

\* What the scheduled check can say of n.
Due == [n \in Name |-> {Outcome(Scheduled(Svc[n]), probe) : probe \in Probe}]

\* What a manual check by these limits can say of n, and what is due by the
\* configured ones on the same probe.
Report ==
    [n \in Name |->
        {[due  |-> Outcome(Scheduled(Svc[n]), probe),
          said |-> Outcome(Manual(Svc[n], req), probe),
          by   |-> Limits(Svc[n], req)] : probe \in Probe, req \in Request}]

\* record_outcome, as far as the status gauge goes.
Record(n, status, due, by) ==
    /\ gauge' = [gauge EXCEPT ![n] = status]
    /\ deserved' = [deserved EXCEPT ![n] = due]
    /\ asked' = [asked EXCEPT ![n] = by]

Stored(n, status) == Insert(n, status) /\ lost' = lost \ {n}

\* A commit that raises may have reached the database or not.
StoreRaises(n, status) ==
    /\ Insert(n, status) \/ UNCHANGED <<rows, written, nextId>>
    /\ lost' = lost \union {n}

\* _run_service_job: a write that fails suppresses nothing else.
ScheduledCheck(n) ==
    \E due \in Due[n] :
        /\ Stored(n, due) \/ StoreRaises(n, due)
        /\ Record(n, due, due, Svc[n])
        /\ UNCHANGED <<now, peak>>

\* Seeded mistake: the metric is recorded before the commit, which may fail.
MetricFirst(n, report) ==
    /\ Stored(n, report.said) \/ UNCHANGED <<rows, written, nextId, lost>>
    /\ Record(n, report.said, report.due, report.by)

CommitThenRecord(n, report) ==
    /\ Stored(n, report.said)
    /\ Record(n, report.said, report.due, report.by)

\* The request ends with status 500 and the metric is not recorded; a commit that
\* raises without effect leaves no trace.
CommitRaises(n, report) ==
    /\ Insert(n, report.said)
    /\ lost' = lost \union {n}
    /\ UNCHANGED <<gauge, asked, deserved>>

\* /checks/run.
ManualCheck(n) ==
    \E report \in Report[n] :
        /\ CommitThenRecord(n, report) \/ CommitRaises(n, report)
        /\ UNCHANGED <<now, peak>>

-----------------------------------------------------------------------------
(* Removal, restart, purge and the clock.                                  *)

\* A /reload that removes service n: clear_service.
Remove(n) ==
    /\ gauge' = [gauge EXCEPT ![n] = "none"]
    /\ deserved' = [deserved EXCEPT ![n] = "none"]
    /\ asked' = [asked EXCEPT ![n] = None]
    /\ UNCHANGED <<now, rows, nextId, peak, written, lost>>

\* Another process: the rows are still there, the gauges are not.
Restart ==
    /\ gauge' = NoGauge
    /\ deserved' = NoGauge
    /\ asked' = NotAsked
    /\ UNCHANGED <<now, rows, nextId, peak, written, lost>>

\* Seeded mistake: the cutoff itself is purged.
ExpiredInclusive(r) == r.created_at <= now - Retention

Expired(r) == r.created_at < now - Retention

\* _purge_old_results, a job that exists only with a positive retention.
Purge ==
    /\ Retention > 0
    /\ rows' = {r \in rows : ~Expired(r)}
    /\ UNCHANGED <<now, nextId, gauge, peak, written, lost, asked, deserved>>

Tick ==
    /\ now < MaxNow
    /\ now' = now + 1
    /\ peak' = IF now' > peak THEN now' ELSE peak
    /\ UNCHANGED <<rows, nextId, gauge, written, lost, asked, deserved>>

SetBack ==
    /\ now' \in 0..(now - 1)
    /\ UNCHANGED <<rows, nextId, gauge, peak, written, lost, asked, deserved>>

Next ==
    \/ \E n \in Name : ScheduledCheck(n)
    \/ \E n \in Name : ManualCheck(n)
    \/ \E n \in Name : Remove(n)
    \/ Restart
    \/ Purge
    \/ Tick
    \/ SetBack

Spec == Init /\ [][Next]_vars

-----------------------------------------------------------------------------
(* The queries of the API.                                                 *)

Of(log, n) == {r \in log : r.name = n}

\* Seeded mistake: the newest row is the last one inserted.
NewestById(n) == {r \in Of(rows, n) : \A q \in Of(rows, n) : q.id <= r.id}

\* list_services joins back on name and newest timestamp ...
Newest(n) ==
    {r \in Of(rows, n) : \A q \in Of(rows, n) : q.created_at <= r.created_at}

\* ... and of several such rows shows whichever the database returns last: the
\* statuses that /services may show.
ServiceStatus(n) ==
    IF Newest(n) = {} THEN {"unknown"} ELSE {r.status : r \in Newest(n)}

\* Counts of get_uptime over a window, in the log as it would be at this moment.
Uptime(log, n, window) ==
    LET recent == {r \in Of(log, n) : r.created_at >= now - window} IN
    [total |-> Cardinality(recent),
     up    |-> Cardinality({r \in recent : r.status # "down"})]

\* ORDER BY created_at DESC, id DESC
Before(r, q) ==
    r.created_at > q.created_at \/ (r.created_at = q.created_at /\ r.id > q.id)

\* get_history: the first "limit" rows in that order.
History(n, limit) ==
    {r \in Of(rows, n) : Cardinality({q \in Of(rows, n) : Before(q, r)}) < limit}

-----------------------------------------------------------------------------
(* Safety.                                                                 *)

\* The card of a service and its sidebar agree: /services shows the first row of
\* /history, or if several results share its timestamp, one of them
\* (main.py:386-405, main.py:493-498).
ServicesAgree ==
    \A n \in Name :
        /\ Of(rows, n) = {} <=> ServiceStatus(n) = {"unknown"}
        /\ \A first \in History(n, 1) :
             /\ first.status \in ServiceStatus(n)
             /\ \A status \in ServiceStatus(n) : \E q \in Of(rows, n) :
                    q.status = status /\ q.created_at = first.created_at

\* The purge takes nothing that a query can still ask for: /uptime is what it
\* would be had nothing ever been purged, for every window that fits into the
\* retention, less what the clock was set back since (scheduler.py:99-103,
\* main.py:438-444; both default to 30 days, so the cutoffs coincide).
RetentionInvisible ==
    \A n \in Name, window \in Window :
        (Retention > 0 => window + (peak - now) <= Retention)
            => Uptime(rows, n, window) = Uptime(written, n, window)

\* Every way in which a check of n may be built.
Built ==
    [n \in Name |-> {Scheduled(Svc[n])} \union {Manual(Svc[n], req) : req \in Request}]

\* The states that the criteria of n, configured or requested, can amount to.
Deserving ==
    [n \in Name |->
        {s \in States : \E check \in Built[n], probe \in Probe :
            IsWorst(s, Verdicts(check, probe))}]

\* No check hides a worse verdict behind a milder one, of whatever service and
\* whatever it measures, and so every result ever stored is the worst of the
\* verdicts on some probe (http_check.py:80-103, scheduler.py:22-46).
ResultsAreWorst ==
    /\ StateIsWorst
    /\ \A r \in written : r.status \in Deserving[r.name]

\* The last result of a service that was stored.
LastStored(n) == {r \in Of(written, n) : \A q \in Of(written, n) : q.id <= r.id}

\* Prometheus and /services tell the same story of a service: unless its last
\* commit raised, the gauge is the last result that was stored, and /services
\* shows just that as long as it is retained and the clock puts it after the
\* others (scheduler.py:57-82; main.py:542-551 commits first and then records).
GaugeAgrees ==
    \A n \in Name :
        (gauge[n] # "none" /\ n \notin lost) =>
            \E last \in LastStored(n) :
                /\ last.status = gauge[n]
                /\ Newest(n) = {last} => ServiceStatus(n) = {gauge[n]}

\* A manual check is not the configured one: it goes by the timeout and thresholds of
\* its request, or for a system check by those of the settings (main.py:300-326,
\* scheduler.py:22-46).  What it puts on the gauge is no worse than the configured
\* verdict when those limits are laxer, no better when they are stricter, and the
\* same when both hold.
LimitsDecide ==
    \A n \in Name : gauge[n] # "none" =>
        /\ Laxer(Svc[n].type, asked[n], Svc[n]) => Severity[gauge[n]] <= Severity[deserved[n]]
        /\ Laxer(Svc[n].type, Svc[n], asked[n]) => Severity[deserved[n]] <= Severity[gauge[n]]

-----------------------------------------------------------------------------
(* What the documentation says, stronger than what the code does.          *)

\* "Give an HTTP or TCP service a latency_ms threshold and a reachable-but-slow
\* response is reported as DEGRADED" (README.md:246-247), and likewise for
\* certificates (README.md:261-263): what is reported follows the thresholds.
ThresholdsApply ==
    \A n \in Name :
        (Svc[n].type # "system" /\ gauge[n] # "none") => gauge[n] = deserved[n]
=============================================================================
