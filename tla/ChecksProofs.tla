----------------------------- MODULE ChecksProofs -----------------------------
(***************************************************************************)
(* The classification of every check, for all integer thresholds and       *)
(* measurements.                                                           *)
(***************************************************************************)
EXTENDS Checks, TLAPS

\* run() ends in one of the three states.
LEMMA OutcomeIsState ==
    ASSUME NEW check, check.type \in {"http", "tcp", "system"}, NEW probe
    PROVE  Outcome(check, probe) \in States
BY DEF Outcome, HttpState, TcpState, SystemState, States

\* The state of any one check is the worst of the verdicts of its criteria.
LEMMA OutcomeIsWorst ==
    ASSUME NEW check \in ServiceConfig(Int), NEW probe \in Probe
    PROVE  IsWorst(Outcome(check, probe), Verdicts(check, probe))
<1> DEFINE days == CertDays(check, probe)
<1>1. /\ check.type \in {"http", "tcp", "system"}
      /\ check.https \in BOOLEAN
      /\ check.latency_ms \in Int \union {None}
      /\ check.cert_expiry_days \in Int \union {None}
  BY DEF ServiceConfig
<1>2. /\ Answered(check, probe) \in BOOLEAN /\ probe.expected \in BOOLEAN
      /\ probe.days \in Int /\ probe.latency \in Int
  BY ChecksAssumption DEF Finding, Answered, InTime
<1>3. CASE check.type = "system"
  <2>1. Verdicts(check, probe) =
          {Verdict(probe[m] > check[m], "degraded") : m \in {"cpu", "memory", "disk"}}
    BY <1>3 DEF Verdicts
  <2>2. Outcome(check, probe) = SystemState(check, probe)
    BY <1>3 DEF Outcome
  <2>3. Verdicts(check, probe) =
          {Verdict(probe.cpu > check.cpu, "degraded"),
           Verdict(probe.memory > check.memory, "degraded"),
           Verdict(probe.disk > check.disk, "degraded")}
    BY <2>1
  <2> QED BY <2>2, <2>3 DEF SystemState, Verdict, IsWorst, Severity, States
<1>4. CASE check.type = "tcp"
  <2>1. Verdicts(check, probe) =
          IF Answered(check, probe) THEN {Verdict(Slow(check, probe), "degraded")} ELSE {"down"}
    BY <1>2, <1>4 DEF Verdicts
  <2>2. Outcome(check, probe) = TcpState(check, probe)
    BY <1>4 DEF Outcome
  <2> QED BY <1>2, <2>1, <2>2 DEF TcpState, Verdict, IsWorst, Severity, States
<1>5. CASE check.type = "http"
  <2>1. CASE ~Answered(check, probe)
    <3>1. Verdicts(check, probe) = {"down"}
      BY <1>5, <2>1 DEF Verdicts
    <3>2. Outcome(check, probe) = "down"
      BY <1>5, <2>1 DEF Outcome, HttpState
    <3> QED BY <3>1, <3>2 DEF IsWorst, Severity, States
  <2>2. CASE Answered(check, probe)
    <3>1. Verdicts(check, probe) =
            {Verdict(days # None /\ days <= 0, "down"),
             Verdict(days # None /\ days < check.cert_expiry_days, "degraded"),
             Verdict(~probe.expected, "degraded"),
             Verdict(Slow(check, probe), "degraded")}
      BY <1>5, <2>2 DEF Verdicts
    <3>2. Outcome(check, probe) = HttpState(check, probe)
      BY <1>5 DEF Outcome
    <3> QED BY <1>2, <2>2, <3>1, <3>2 DEF HttpState, Verdict, IsWorst, Severity, States
  <2> QED BY <1>2, <2>1, <2>2
<1> QED BY <1>1, <1>3, <1>4, <1>5

\* Whatever a probe finds, the state of a check is the worst of the verdicts of its
\* criteria (http_check.py:64-103, tcp_check.py:23-49, system_check.py:27-39): no
\* order of tests hides one, at any threshold and any measurement.
THEOREM WorstVerdict == StateIsWorst
BY OutcomeIsWorst, ChecksAssumption DEF StateIsWorst

-----------------------------------------------------------------------------
(* Limits.                                                                 *)

\* A probe that a stricter timeout accepts is accepted by a laxer one, and whatever
\* the laxer check finds fault with, the stricter one does.
LEMMA LaxerFindings ==
    ASSUME NEW a \in ServiceConfig(Int), NEW b \in ServiceConfig(Int), a.type # "system",
           a.type = b.type, a.https = b.https, Laxer(a.type, a, b), NEW probe \in Probe
    PROVE  /\ Answered(b, probe) => Answered(a, probe)
           /\ Slow(a, probe) => Slow(b, probe)
           /\ CertDays(a, probe) # None =>
                /\ CertDays(a, probe) \in Int
                /\ CertDays(b, probe) \in Int
                /\ CertDays(b, probe) # None
                /\ CertDays(a, probe) <= 0 => CertDays(b, probe) <= 0
                /\ CertDays(a, probe) < a.cert_expiry_days =>
                     CertDays(b, probe) <= 0 \/ CertDays(b, probe) < b.cert_expiry_days
  <1>1. /\ a.timeout \in Int /\ a.latency_ms \in Int \union {None}
        /\ a.cert_expiry_days \in Int \union {None}
        /\ b.timeout \in Int /\ b.latency_ms \in Int \union {None}
        /\ b.cert_expiry_days \in Int \union {None}
    BY DEF ServiceConfig
  <1>2. /\ probe.wait \in Int \union {None} /\ probe.handshake \in Int \union {None}
        /\ probe.days \in Int /\ probe.latency \in Int /\ None \notin Int
    BY ChecksAssumption DEF Finding
  <1>3. /\ a.timeout >= b.timeout
        /\ a.latency_ms # None => b.latency_ms # None /\ a.latency_ms >= b.latency_ms
        /\ a.cert_expiry_days # None =>
             b.cert_expiry_days # None /\ a.cert_expiry_days <= b.cert_expiry_days
    BY DEF Laxer, Above, Below
  <1>4. \A wait \in {probe.wait, probe.handshake} : InTime(wait, b) => InTime(wait, a)
    BY <1>1, <1>2, <1>3 DEF InTime
  <1>5. Slow(a, probe) => Slow(b, probe)
    BY <1>1, <1>2, <1>3 DEF Slow
  <1>6. ASSUME CertDays(a, probe) # None
        PROVE  /\ CertDays(a, probe) \in Int
               /\ CertDays(b, probe) \in Int
               /\ CertDays(b, probe) # None
               /\ CertDays(a, probe) <= 0 => CertDays(b, probe) <= 0
               /\ CertDays(a, probe) < a.cert_expiry_days =>
                    CertDays(b, probe) <= 0 \/ CertDays(b, probe) < b.cert_expiry_days
    <2>1. a.cert_expiry_days \in Int /\ b.cert_expiry_days \in Int /\ a.https /\ b.https
      BY <1>1, <1>3, <1>6 DEF CertDays
    <2>2. /\ CertDays(a, probe) = IF InTime(probe.handshake, a) THEN probe.days ELSE 0
          /\ CertDays(b, probe) = IF InTime(probe.handshake, b) THEN probe.days ELSE 0
      BY <1>2, <2>1 DEF CertDays
    <2>3. InTime(probe.handshake, b) => InTime(probe.handshake, a)
      BY <1>4
    <2>4. CASE InTime(probe.handshake, b)
      BY <1>2, <1>3, <2>1, <2>2, <2>3, <2>4
    <2>5. CASE ~InTime(probe.handshake, b)
      BY <1>2, <2>2, <2>5
    <2>6. QED
      BY <2>4, <2>5
  <1>7. QED
    BY <1>4, <1>5, <1>6 DEF Answered

\* A check whose timeout and thresholds are no stricter than those of another is
\* no more severe on the same probe (http_check.py:64-103, tcp_check.py:23-49,
\* system_check.py:27-39): no limit works backwards, and no order of tests lets
\* a laxer check end in a worse state.
THEOREM LaxerIsMilder ==
    ASSUME NEW a \in ServiceConfig(Int), NEW b \in ServiceConfig(Int),
           a.type = b.type, a.https = b.https, Laxer(a.type, a, b), NEW probe \in Probe
    PROVE  Severity[Outcome(a, probe)] <= Severity[Outcome(b, probe)]
  <1>1. a.type \in {"http", "tcp", "system"}
    BY DEF ServiceConfig
  <1>2. /\ \A s \in States : Severity[s] \in 0..2 /\ Severity["up"] <= Severity[s]
        /\ \A s \in States : Severity[s] <= Severity["down"]
        /\ "up" \in States /\ "degraded" \in States /\ "down" \in States
    BY DEF Severity, States
  <1>3. CASE a.type = "system"
    <2>1. /\ a.cpu \in Int /\ a.memory \in Int /\ a.disk \in Int
          /\ b.cpu \in Int /\ b.memory \in Int /\ b.disk \in Int
          /\ probe.cpu \in Int /\ probe.memory \in Int /\ probe.disk \in Int
      BY ChecksAssumption DEF ServiceConfig, Finding
    <2>2. a.cpu >= b.cpu /\ a.memory >= b.memory /\ a.disk >= b.disk
      BY <1>3 DEF Laxer
    <2>3. SystemState(a, probe) = "up" \/ SystemState(b, probe) = "degraded"
      BY <2>1, <2>2 DEF SystemState
    <2>4. /\ Outcome(a, probe) = SystemState(a, probe)
          /\ Outcome(b, probe) = SystemState(b, probe)
      BY <1>3 DEF Outcome
    <2>5. SystemState(a, probe) \in {"up", "degraded"} /\ SystemState(b, probe) \in States
      BY DEF SystemState, States
    <2>6. QED
      BY <1>2, <2>3, <2>4, <2>5
  <1>4. CASE a.type = "tcp"
    <2>1. /\ Answered(b, probe) => Answered(a, probe)
          /\ Slow(a, probe) => Slow(b, probe)
      BY <1>4, LaxerFindings
    <2>2. /\ Outcome(a, probe) = TcpState(a, probe)
          /\ Outcome(b, probe) = TcpState(b, probe)
      BY <1>4 DEF Outcome
    <2>3. QED
      BY <2>1, <2>2 DEF TcpState, Severity, States
  <1>5. CASE a.type = "http"
    <2> DEFINE da == CertDays(a, probe)
               db == CertDays(b, probe)
    <2>1. /\ Answered(b, probe) => Answered(a, probe)
          /\ Slow(a, probe) => Slow(b, probe)
          /\ da # None =>
               /\ db # None
               /\ da <= 0 => db <= 0
               /\ da < a.cert_expiry_days => db <= 0 \/ db < b.cert_expiry_days
      BY <1>5, LaxerFindings
    <2>2. /\ Outcome(a, probe) = HttpState(a, probe)
          /\ Outcome(b, probe) = HttpState(b, probe)
      BY <1>5 DEF Outcome
    <2>3. HttpState(a, probe) \in States /\ HttpState(b, probe) \in States
      BY DEF HttpState, States
    <2>4. HttpState(a, probe) = "down" => HttpState(b, probe) = "down"
      BY <2>1 DEF HttpState
    <2>5. HttpState(a, probe) = "degraded" => HttpState(b, probe) \in {"degraded", "down"}
      BY <2>1 DEF HttpState
    <2>6. QED
      BY <2>2, <2>3, <2>4, <2>5 DEF Severity, States
  <1>6. QED
    BY <1>1, <1>3, <1>4, <1>5
=============================================================================
