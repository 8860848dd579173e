-------------------------------- MODULE Checks --------------------------------
(***************************************************************************)
(* The checks (checks/*.py): what a probe finds, classified into a state,  *)
(* and the two ways a check is built, by the scheduler from services.yaml  *)
(* and by the API from a request (_build_check, twice).                    *)
(*                                                                         *)
(* A service is a record of its type, whether its target is https, its     *)
(* timeout and its thresholds.  A probe is what the network or psutil      *)
(* would answer now, to whichever check asks.                              *)
(***************************************************************************)
EXTENDS Integers

CONSTANTS
    None,        \* Python's None
    Config,      \* services as services.yaml may have them
    Probe,       \* what a probe may find
    Request,     \* the limits that a request to /checks/run may carry
    Settings     \* settings.default_timeout, .cpu_threshold, .memory_threshold
                 \* and .disk_threshold

States == {"up", "degraded", "down"}

\* ServiceConfig and its ServiceThresholds, over a set of limits.
ServiceConfig(Limit) ==
    [type : {"http", "tcp", "system"}, https : BOOLEAN, timeout : Limit,
     latency_ms : Limit \union {None}, cert_expiry_days : Limit \union {None},
     cpu : Limit, memory : Limit, disk : Limit]

\* CheckRequest: its name, type and target are those of the service.
CheckRequest(Limit) ==
    [timeout : Limit, latency_ms : Limit \union {None},
     cert_expiry_days : Limit \union {None}]

\* "wait": the longest that the request or the connection waits for one answer,
\* None when it fails however long it waits; "expected": with status 200;
\* "handshake": the same for a certificate, which has "days" to live.  A timeout
\* bounds every wait, not their sum, so "latency" may be longer.
Finding(Measure) ==
    [wait : Measure \union {None}, expected : BOOLEAN,
     handshake : Measure \union {None}, days : Measure,
     latency : Measure, cpu : Measure, memory : Measure, disk : Measure]

ASSUME ChecksAssumption ==
    /\ None \notin Int
    /\ Settings \in [timeout : Int, cpu : Int, memory : Int, disk : Int]
    /\ Config \subseteq ServiceConfig(Int)
    /\ Request \subseteq CheckRequest(Int)
    /\ Probe \subseteq Finding(Int)

-----------------------------------------------------------------------------
(* The state of a check (run of HttpCheck, TcpCheck, SystemCheck).         *)

InTime(wait, check) == wait # None /\ wait < check.timeout

Answered(check, probe) == InTime(probe.wait, check)

\* _check_certificate: None when certificates are not checked, and a handshake
\* that fails or times out counts as expired.
CertDays(check, probe) ==
    IF check.cert_expiry_days = None \/ ~check.https THEN None
    ELSE IF InTime(probe.handshake, check) THEN probe.days ELSE 0

Slow(check, probe) ==
    check.latency_ms # None /\ probe.latency > check.latency_ms

\* Seeded mistake: the unexpected status is looked at before the certificate.
StatusFirst(check, probe) ==
    LET days == CertDays(check, probe) IN
    IF ~Answered(check, probe) THEN "down"
    ELSE IF ~probe.expected THEN "degraded"
    ELSE IF days # None /\ days <= 0 THEN "down"
    ELSE IF days # None /\ days < check.cert_expiry_days THEN "degraded"
    ELSE IF Slow(check, probe) THEN "degraded" ELSE "up"

HttpState(check, probe) ==
    LET days == CertDays(check, probe) IN
    IF ~Answered(check, probe) THEN "down"
    ELSE IF days # None /\ days <= 0 THEN "down"
    ELSE IF ~probe.expected THEN "degraded"
    ELSE IF days # None /\ days < check.cert_expiry_days THEN "degraded"
    ELSE IF Slow(check, probe) THEN "degraded" ELSE "up"

TcpState(check, probe) ==
    IF ~Answered(check, probe) THEN "down" ELSE IF Slow(check, probe) THEN "degraded" ELSE "up"

SystemState(check, probe) ==
    IF \/ probe.cpu > check.cpu
       \/ probe.memory > check.memory
       \/ probe.disk > check.disk
    THEN "degraded" ELSE "up"

Outcome(check, probe) ==
    CASE check.type = "http"   -> HttpState(check, probe)
      [] check.type = "tcp"    -> TcpState(check, probe)
      [] check.type = "system" -> SystemState(check, probe)

-----------------------------------------------------------------------------
(* The two builders.                                                       *)

\* scheduler._build_check: the timeout and the thresholds of services.yaml.
Scheduled(svc) == svc

\* Seeded mistake: a request without a certificate threshold has one of zero.
ManualOnZero(svc, req) ==
    [svc EXCEPT !.timeout = req.timeout, !.latency_ms = req.latency_ms,
                !.cert_expiry_days =
                    IF req.cert_expiry_days = None THEN 0 ELSE req.cert_expiry_days,
                !.cpu = Settings.cpu, !.memory = Settings.memory,
                !.disk = Settings.disk]

\* main._build_check: of the service only its type and target; the timeout and the
\* thresholds are those of the request, and for a system check of the settings.
Manual(svc, req) ==
    [svc EXCEPT !.timeout = req.timeout, !.latency_ms = req.latency_ms,
                !.cert_expiry_days = req.cert_expiry_days,
                !.cpu = Settings.cpu, !.memory = Settings.memory,
                !.disk = Settings.disk]

\* What the dashboard sends: the default timeout and no thresholds.
FromDashboard ==
    [timeout |-> Settings.timeout, latency_ms |-> None, cert_expiry_days |-> None]

\* The limits that a manual check of svc goes by.
Limits(svc, req) == IF svc.type = "system" THEN Settings ELSE req

-----------------------------------------------------------------------------
(* Reference: every criterion gives its own verdict, and the worst counts. *)

Severity == [s \in States |-> IF s = "up" THEN 0 ELSE IF s = "degraded" THEN 1 ELSE 2]

Verdict(holds, state) == IF holds THEN state ELSE "up"

Verdicts(check, probe) ==
    LET days == CertDays(check, probe) IN
    CASE check.type = "system" ->
           {Verdict(probe[m] > check[m], "degraded") : m \in {"cpu", "memory", "disk"}}
      [] check.type # "system" /\ ~Answered(check, probe) -> {"down"}
      [] check.type = "tcp" /\ Answered(check, probe) -> {Verdict(Slow(check, probe), "degraded")}
      [] check.type = "http" /\ Answered(check, probe) ->
           {Verdict(days # None /\ days <= 0, "down"),
            Verdict(days # None /\ days < check.cert_expiry_days, "degraded"),
            Verdict(~probe.expected, "degraded"),
            Verdict(Slow(check, probe), "degraded")}

IsWorst(state, verdicts) ==
    /\ state \in verdicts
    /\ \A v \in verdicts : Severity[v] <= Severity[state]

\* The order in which run() looks at certificate, status and latency never hides
\* a worse verdict behind a milder one (http_check.py:80-103): the class
\* docstrings give each criterion a state, and the worst of those that apply is
\* the state of the check.
StateIsWorst ==
    \A check \in Config, probe \in Probe :
        IsWorst(Outcome(check, probe), Verdicts(check, probe))

-----------------------------------------------------------------------------
(* Comparing limits.                                                       *)

Above(limit, other) == limit = None \/ (other # None /\ limit >= other)

Below(limit, other) == limit = None \/ (other # None /\ limit <= other)

\* By limits a, a check of this type forgives at least what it does by limits b.
Laxer(type, a, b) ==
    IF type = "system"
    THEN \A m \in {"cpu", "memory", "disk"} : a[m] >= b[m]
    ELSE /\ a.timeout >= b.timeout
         /\ Above(a.latency_ms, b.latency_ms)
         /\ Below(a.cert_expiry_days, b.cert_expiry_days)
=============================================================================
