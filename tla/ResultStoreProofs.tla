-------------------------- MODULE ResultStoreProofs --------------------------
(***************************************************************************)
(* Proofs about ResultStore, for any services, thresholds, probes, windows *)
(* and retention, and any clock that runs, stops or is set back: what the  *)
(* queries say of the rows that are left, and the gauge of the rows that   *)
(* were written.                                                           *)
(***************************************************************************)
EXTENDS ResultStore, ChecksProofs, FiniteSetTheorems

-----------------------------------------------------------------------------
(* What a check does, scheduled or manual.                                 *)

\* The verdict is no worse than what is due if the limits are laxer than the
\* configured ones, and no better if they are stricter.
Decides(n, by, status, due) ==
    /\ Laxer(Svc[n].type, by, Svc[n]) => Severity[status] <= Severity[due]
    /\ Laxer(Svc[n].type, Svc[n], by) => Severity[due] <= Severity[status]

\* A check that is recorded, or a manual one that is stored only.
Checked(n, status, due, by) ==
    /\ \/ Stored(n, status)
       \/ StoreRaises(n, status)
    /\ \/ Record(n, status, due, by)
       \/ n \in lost' /\ UNCHANGED <<gauge, asked, deserved>>
    /\ UNCHANGED <<now, peak>>

\* A manual check is built as the service with the limits it goes by.
LEMMA ManualBuilt ==
    ASSUME NEW svc \in Config, NEW req \in Request
    PROVE  /\ Manual(svc, req) \in ServiceConfig(Int)
           /\ Manual(svc, req).type = svc.type
           /\ Manual(svc, req).https = svc.https
           /\ Laxer(svc.type, Limits(svc, req), svc) <=> Laxer(svc.type, Manual(svc, req), svc)
           /\ Laxer(svc.type, svc, Limits(svc, req)) <=> Laxer(svc.type, svc, Manual(svc, req))
  <1> DEFINE manual == Manual(svc, req)
  <1>1. svc \in ServiceConfig(Int) /\ req \in CheckRequest(Int)
    BY ChecksAssumption
  <1>2. /\ req.timeout \in Int /\ req.latency_ms \in Int \union {None}
        /\ req.cert_expiry_days \in Int \union {None}
        /\ Settings.cpu \in Int /\ Settings.memory \in Int /\ Settings.disk \in Int
    BY <1>1, ChecksAssumption DEF CheckRequest
  <1>3. /\ manual \in ServiceConfig(Int)
        /\ manual.type = svc.type /\ manual.https = svc.https
        /\ manual.timeout = req.timeout /\ manual.latency_ms = req.latency_ms
        /\ manual.cert_expiry_days = req.cert_expiry_days
        /\ manual.cpu = Settings.cpu /\ manual.memory = Settings.memory
        /\ manual.disk = Settings.disk
    BY <1>1, <1>2 DEF Manual, ServiceConfig
  <1> HIDE DEF manual
  <1>4. CASE svc.type = "system"
    <2>1. \A m \in {"cpu", "memory", "disk"} : manual[m] = Settings[m]
      BY <1>3
    <2>2. QED
      BY <1>3, <1>4, <2>1 DEF Laxer, Limits, manual
  <1>5. CASE svc.type # "system"
    BY <1>3, <1>5 DEF Laxer, Limits, manual
  <1>6. QED
    BY <1>4, <1>5

\* Either check reports the worst of the verdicts on some probe, and departs from
\* what is due only the way its limits do.
LEMMA CheckReports ==
    ASSUME NEW n \in Name, ScheduledCheck(n) \/ ManualCheck(n)
    PROVE  \E status, due \in States, by \in AnyLimits :
               /\ Checked(n, status, due, by)
               /\ status \in Deserving[n]
               /\ Decides(n, by, status, due)
  <1>1. Svc[n] \in Config /\ Svc[n] \in ServiceConfig(Int)
    BY StoreAssumption, ChecksAssumption
  <1>2. \A check \in Built[n] : check \in ServiceConfig(Int)
    BY <1>1, ManualBuilt DEF Built, Scheduled
  <1>3. \A check \in Built[n], probe \in Probe :
            Outcome(check, probe) \in States /\ Outcome(check, probe) \in Deserving[n]
    <2> SUFFICES ASSUME NEW check \in Built[n], NEW probe \in Probe
                 PROVE  Outcome(check, probe) \in States /\ Outcome(check, probe) \in Deserving[n]
      OBVIOUS
    <2>1. check.type \in {"http", "tcp", "system"}
      BY <1>2 DEF ServiceConfig
    <2>2. Outcome(check, probe) \in States
      BY <2>1, OutcomeIsState
    <2>3. IsWorst(Outcome(check, probe), Verdicts(check, probe))
      BY <1>2, OutcomeIsWorst
    <2>4. QED
      BY <2>2, <2>3 DEF Deserving
  <1>4. /\ Scheduled(Svc[n]) \in Built[n]
        /\ \A req \in Request : Manual(Svc[n], req) \in Built[n]
    BY DEF Built
  <1>5. CASE ScheduledCheck(n)
    <2>1. PICK due \in Due[n] : Checked(n, due, due, Svc[n])
      BY <1>5 DEF ScheduledCheck, Checked
    <2>2. due \in States /\ due \in Deserving[n]
      BY <1>3, <1>4 DEF Due
    <2>3. \A s \in States : Severity[s] <= Severity[s]
      BY DEF Severity, States
    <2>4. QED
      BY <2>1, <2>2, <2>3 DEF Decides, AnyLimits
  <1>6. CASE ManualCheck(n)
    <2>1. PICK req \in Request, probe \in Probe :
              Checked(n, Outcome(Manual(Svc[n], req), probe),
                         Outcome(Scheduled(Svc[n]), probe), Limits(Svc[n], req))
      <3>1. PICK report \in Report[n] : Checked(n, report.said, report.due, report.by)
        BY <1>6 DEF ManualCheck, CommitThenRecord, CommitRaises, StoreRaises, Checked
      <3>2. QED
        BY <3>1 DEF Report
    <2>2. /\ Outcome(Scheduled(Svc[n]), probe) \in States
          /\ Outcome(Manual(Svc[n], req), probe) \in States
          /\ Outcome(Manual(Svc[n], req), probe) \in Deserving[n]
      BY <1>3, <1>4
    <2>3. Decides(n, Limits(Svc[n], req), Outcome(Manual(Svc[n], req), probe),
                  Outcome(Scheduled(Svc[n]), probe))
      BY <1>1, ManualBuilt, LaxerIsMilder DEF Decides, Scheduled
    <2>4. Limits(Svc[n], req) \in AnyLimits
      BY DEF Limits, AnyLimits
    <2>5. QED
      BY <2>1, <2>2, <2>3, <2>4
  <1>7. QED
    BY <1>5, <1>6

-----------------------------------------------------------------------------
(* Types.                                                                  *)

LEMMA TypeInit == Init => TypeOK
  <1>1. None \in AnyLimits
    BY DEF AnyLimits
  <1>2. Init => asked \in [Name -> AnyLimits]
    BY <1>1 DEF Init, NotAsked
  <1>3. QED
    BY <1>2, StoreAssumption DEF Init, TypeOK, NoGauge

LEMMA InsertRow ==
    ASSUME NEW n, NEW status, Insert(n, status)
    PROVE  \E row : /\ rows' = rows \union {row} /\ written' = written \union {row}
                    /\ row.id = nextId /\ row.name = n /\ row.status = status
                    /\ row.created_at = now
  <1> DEFINE row == [id |-> nextId, name |-> n, status |-> status, created_at |-> now]
  <1>1. row.id = nextId /\ row.name = n /\ row.status = status /\ row.created_at = now
    OBVIOUS
  <1>2. rows' = rows \union {row} /\ written' = written \union {row}
    BY DEF Insert
  <1> HIDE DEF row
  <1>3. QED
    BY <1>1, <1>2

LEMMA InsertType ==
    ASSUME TypeOK, NEW n \in Name, NEW status \in States, Insert(n, status),
           UNCHANGED <<now, peak>>
    PROVE  /\ rows' \subseteq written'
           /\ written' \subseteq Row
           /\ nextId' \in 1..(MaxRows + 1)
           /\ \A r \in written' : r.id < nextId' /\ r.created_at <= peak
           /\ \A r, q \in written' : r.id = q.id => r = q
  <1> DEFINE row == [id |-> nextId, name |-> n, status |-> status, created_at |-> now]
  <1>1. /\ nextId <= MaxRows
        /\ rows' = rows \union {row}
        /\ written' = written \union {row}
        /\ nextId' = nextId + 1
    BY DEF Insert, NextId
  <1>2. nextId \in Nat /\ MaxRows \in Nat /\ now \in Nat /\ peak \in Nat /\ now <= peak
    BY StoreAssumption DEF TypeOK
  <1>3. row \in Row /\ row.id = nextId /\ row.created_at = now
    BY <1>2 DEF Row
  <1>4. \A r \in written : r.id \in Nat /\ r.id < nextId /\ r.created_at <= peak
    BY DEF TypeOK, Row
  <1> HIDE DEF row
  <1>5. nextId' \in 1..(MaxRows + 1)
    BY <1>1, <1>2 DEF TypeOK
  <1>6. \A r \in written' : r.id < nextId' /\ r.created_at <= peak
    BY <1>1, <1>2, <1>3, <1>4
  <1>7. \A r, q \in written' : r.id = q.id => r = q
    BY <1>1, <1>2, <1>3, <1>4 DEF TypeOK
  <1>8. QED
    BY <1>1, <1>3, <1>5, <1>6, <1>7 DEF TypeOK

LEMMA TypeNext == TypeOK /\ [Next]_vars => TypeOK'
  <1> SUFFICES ASSUME TypeOK, [Next]_vars
               PROVE  TypeOK'
    OBVIOUS
  <1>1. ASSUME NEW n \in Name, ScheduledCheck(n) \/ ManualCheck(n)
        PROVE  TypeOK'
    <2>1. PICK status, due \in States, by \in AnyLimits : Checked(n, status, due, by)
      BY <1>1, CheckReports
    <2>2. /\ gauge' \in [Name -> States \union {"none"}]
          /\ asked' \in [Name -> AnyLimits]
          /\ deserved' \in [Name -> States \union {"none"}]
      BY <2>1 DEF Checked, Record, TypeOK
    <2>3. lost' \subseteq Name
      BY <2>1 DEF Checked, Stored, StoreRaises, TypeOK
    <2>4. CASE Insert(n, status)
      BY <2>1, <2>2, <2>3, <2>4, InsertType DEF Checked, TypeOK
    <2>5. CASE UNCHANGED <<rows, written, nextId>>
      BY <2>1, <2>2, <2>3, <2>5 DEF Checked, TypeOK
    <2>6. QED
      BY <2>1, <2>4, <2>5 DEF Checked, Stored, StoreRaises
  <1>2. CASE (\E n \in Name : Remove(n)) \/ Restart
    BY <1>2 DEF Remove, Restart, NoGauge, NotAsked, AnyLimits, TypeOK
  <1>3. CASE Purge
    BY <1>3 DEF Purge, TypeOK
  <1>4. CASE Tick \/ SetBack
    <2>1. /\ now \in Nat /\ MaxNow \in Nat /\ peak \in Nat /\ now <= peak /\ peak <= MaxNow
          /\ \A r \in written : r.created_at \in Nat
      BY StoreAssumption DEF TypeOK, Row
    <2>2. /\ now' \in 0..MaxNow
          /\ peak' \in now'..MaxNow
          /\ peak' >= peak
      BY <1>4, <2>1 DEF Tick, SetBack
    <2>3. \A r \in written : r.created_at <= peak'
      BY <2>1, <2>2 DEF TypeOK
    <2>4. QED
      BY <1>4, <2>2, <2>3 DEF Tick, SetBack, TypeOK
  <1>5. CASE UNCHANGED vars
    BY <1>5 DEF vars, TypeOK
  <1>6. QED
    BY <1>1, <1>2, <1>3, <1>4, <1>5 DEF Next

\* Type correctness, with primary keys that are never given twice.
THEOREM TypeCorrect == Spec => []TypeOK
  BY TypeInit, TypeNext, PTL DEF Spec

-----------------------------------------------------------------------------
(* What is stored.                                                         *)

LEMMA WorstNext == TypeOK /\ ResultsAreWorst /\ [Next]_vars => ResultsAreWorst'
  <1> SUFFICES ASSUME TypeOK, ResultsAreWorst, [Next]_vars
               PROVE  \A r \in written' : r.status \in Deserving[r.name]
    BY DEF ResultsAreWorst, StateIsWorst, Deserving
  <1>1. ASSUME NEW n \in Name, ScheduledCheck(n) \/ ManualCheck(n)
        PROVE  \A r \in written' : r.status \in Deserving[r.name]
    <2>1. PICK status, due \in States, by \in AnyLimits :
              Checked(n, status, due, by) /\ status \in Deserving[n]
      BY <1>1, CheckReports
    <2>2. CASE UNCHANGED written
      BY <2>2 DEF ResultsAreWorst
    <2>3. CASE Insert(n, status)
      BY <2>1, <2>3, InsertRow DEF ResultsAreWorst
    <2>4. QED
      BY <2>1, <2>2, <2>3 DEF Checked, Stored, StoreRaises
  <1>2. CASE UNCHANGED written
    BY <1>2 DEF ResultsAreWorst
  <1>3. QED
    BY <1>1, <1>2 DEF Next, vars, Remove, Restart, Purge, Tick, SetBack

\* Every result ever stored is the worst of the verdicts of the service's criteria,
\* those of services.yaml or those of a manual check, on some probe
\* (checks/*.py, scheduler.py:54-72, main.py:531-543).
THEOREM EveryResultIsWorst == Spec => []ResultsAreWorst
  <1>1. Init => ResultsAreWorst
    BY WorstVerdict DEF Init, ResultsAreWorst
  <1>2. QED
    BY <1>1, TypeInit, TypeNext, WorstNext, PTL DEF Spec

-----------------------------------------------------------------------------
(* The purge.                                                              *)

\* What was written within the retention, counted from the latest time the clock
\* ever showed, is still there.
Retained ==
    \A r \in written : (Retention > 0 => r.created_at >= peak - Retention) => r \in rows

LEMMA RetainedNext == TypeOK /\ Retained /\ [Next]_vars => Retained'
  <1> SUFFICES ASSUME TypeOK, Retained, [Next]_vars
               PROVE  Retained'
    OBVIOUS
  <1>0. /\ now \in Nat /\ peak \in Nat /\ now <= peak /\ Retention \in Int
        /\ \A r \in written : r.created_at \in Nat
    BY StoreAssumption DEF TypeOK, Row
  <1>1. ASSUME NEW n \in Name, ScheduledCheck(n) \/ ManualCheck(n)
        PROVE  Retained'
    <2>1. PICK status, due \in States, by \in AnyLimits : Checked(n, status, due, by)
      BY <1>1, CheckReports
    <2>2. CASE UNCHANGED <<rows, written>>
      BY <2>1, <2>2 DEF Checked, Retained
    <2>3. CASE Insert(n, status)
      BY <2>1, <2>3 DEF Checked, Insert, Retained
    <2>4. QED
      BY <2>1, <2>2, <2>3 DEF Checked, Stored, StoreRaises
  <1>2. CASE Purge
    <2>1. \A r \in written : r.created_at >= peak - Retention => ~Expired(r)
      BY <1>0 DEF Expired
    <2>2. QED
      BY <1>2, <2>1 DEF Purge, Retained
  <1>3. CASE Tick \/ SetBack
    <2>1. peak' \in Nat /\ peak' >= peak /\ UNCHANGED <<rows, written>>
      BY <1>0, <1>3 DEF Tick, SetBack
    <2>2. \A r \in written : r.created_at >= peak' - Retention => r.created_at >= peak - Retention
      BY <1>0, <2>1
    <2>3. QED
      BY <2>1, <2>2 DEF Retained
  <1>4. CASE UNCHANGED <<rows, written, peak>>
    BY <1>4 DEF Retained
  <1>5. QED
    BY <1>1, <1>2, <1>3, <1>4 DEF Next, vars, Remove, Restart

\* A window that fits counts the same rows before and after every purge.
LEMMA RetainedCounts == TypeOK /\ Retained => RetentionInvisible
  <1> SUFFICES ASSUME TypeOK, Retained, NEW n \in Name, NEW window \in Window,
                      Retention > 0 => window + (peak - now) <= Retention
               PROVE  Uptime(rows, n, window) = Uptime(written, n, window)
    BY DEF RetentionInvisible
  <1>1. /\ now \in Nat /\ peak \in Nat /\ Retention \in Int /\ window \in Nat
        /\ \A r \in written : r.created_at \in Nat
        /\ rows \subseteq written
    BY StoreAssumption DEF TypeOK, Row
  <1>2. \A r \in written : r.created_at >= now - window => r \in rows
    BY <1>1 DEF Retained
  <1>3. {r \in Of(rows, n) : r.created_at >= now - window} =
            {r \in Of(written, n) : r.created_at >= now - window}
    BY <1>1, <1>2 DEF Of
  <1>4. QED
    BY <1>3 DEF Uptime

\* /uptime never notices the purge in a window that fits into the retention, less
\* what the clock was set back (scheduler.py:99-103, main.py:438-444), for every
\* window and every retention.
THEOREM PurgeIsInvisible == Spec => []RetentionInvisible
  <1>1. Init => Retained
    BY DEF Init, Retained
  <1>2. QED
    BY <1>1, TypeInit, TypeNext, RetainedNext, RetainedCounts, PTL DEF Spec

-----------------------------------------------------------------------------
(* The newest result.                                                      *)

\* The table is finite, and every service with results has a newest one.
HasNewest ==
    /\ IsFiniteSet(rows)
    /\ \A n \in Name : Of(rows, n) # {} => Newest(n) # {}

LEMMA NewestNext == TypeOK /\ HasNewest /\ [Next]_vars => HasNewest'
  <1> SUFFICES ASSUME TypeOK, HasNewest, [Next]_vars
               PROVE  HasNewest'
    OBVIOUS
  <1>0. /\ now \in Nat /\ Retention \in Int
        /\ \A r \in rows : r.created_at \in Nat
    BY StoreAssumption DEF TypeOK, Row
  <1>1. ASSUME NEW n \in Name, ScheduledCheck(n) \/ ManualCheck(n)
        PROVE  HasNewest'
    <2>1. PICK status, due \in States, by \in AnyLimits : Checked(n, status, due, by)
      BY <1>1, CheckReports
    <2>2. CASE UNCHANGED rows
      BY <2>2 DEF HasNewest, Newest, Of
    <2>3. CASE Insert(n, status)
      <3>1. PICK row : rows' = rows \union {row} /\ row.name = n /\ row.created_at = now
        BY <2>3, InsertRow
      <3>2. IsFiniteSet(rows')
        BY <3>1, FS_AddElement DEF HasNewest
      <3>3. ASSUME NEW m \in Name, Of(rows, m)' # {}
            PROVE  Newest(m)' # {}
        <4>1. CASE m # n
          <5>1. Of(rows, m)' = Of(rows, m)
            BY <3>1, <4>1 DEF Of
          <5>2. QED
            BY <3>3, <5>1 DEF HasNewest, Newest
        <4>2. CASE m = n
          <5>1. /\ Of(rows', m) = Of(rows, m) \union {row}
                /\ Newest(m)' = {r \in Of(rows', m) :
                                    \A q \in Of(rows', m) : q.created_at <= r.created_at}
            BY <3>1, <4>2 DEF Of, Newest
          <5>2. CASE Of(rows, m) = {}
            <6>1. row \in Newest(m)'
              BY <1>0, <3>1, <5>1, <5>2
            <6>2. QED
              BY <6>1
          <5>3. CASE Of(rows, m) # {}
            <6>1. PICK top \in Of(rows, m) :
                      \A q \in Of(rows, m) : q.created_at <= top.created_at
              BY <5>3 DEF HasNewest, Newest
            <6>2. /\ top.created_at \in Nat
                  /\ \A q \in Of(rows, m) : q.created_at \in Nat
              BY <1>0 DEF Of
            <6>3. row \in Newest(m)' \/ top \in Newest(m)'
              BY <1>0, <3>1, <5>1, <6>1, <6>2
            <6>4. QED
              BY <6>3
          <5>4. QED
            BY <5>2, <5>3
        <4>3. QED
          BY <4>1, <4>2
      <3>4. QED
        BY <3>2, <3>3 DEF HasNewest
    <2>4. QED
      BY <2>1, <2>2, <2>3 DEF Checked, Stored, StoreRaises
  <1>2. CASE Purge
    <2>1. /\ rows' \subseteq rows
          /\ \A r \in rows : r \in rows' <=> r.created_at >= now - Retention
      BY <1>0, <1>2 DEF Purge, Expired
    <2>2. IsFiniteSet(rows')
      BY <2>1, FS_Subset DEF HasNewest
    <2>3. ASSUME NEW m \in Name, Of(rows, m)' # {}
          PROVE  Newest(m)' # {}
      <3>1. PICK left \in Of(rows, m)' : TRUE
        BY <2>3
      <3>2. left \in Of(rows, m) /\ left \in rows'
        BY <2>1, <3>1 DEF Of
      <3>3. PICK top \in Of(rows, m) :
                \A q \in Of(rows, m) : q.created_at <= top.created_at
        BY <3>2 DEF HasNewest, Newest
      <3>4. top \in Of(rows, m)'
        <4>1. /\ left.created_at \in Nat /\ top.created_at \in Nat
              /\ left.created_at >= now - Retention
              /\ left.created_at <= top.created_at
          BY <1>0, <2>1, <3>2, <3>3 DEF Of
        <4>2. top.created_at >= now - Retention
          BY <1>0, <4>1
        <4>3. QED
          BY <2>1, <4>2 DEF Of
      <3>5. top \in Newest(m)'
        BY <2>1, <3>3, <3>4 DEF Newest, Of
      <3>6. QED
        BY <3>5
    <2>4. QED
      BY <2>2, <2>3 DEF HasNewest
  <1>3. CASE UNCHANGED rows
    BY <1>3 DEF HasNewest, Newest, Of
  <1>4. QED
    BY <1>1, <1>2, <1>3 DEF Next, vars, Remove, Restart, Tick, SetBack

\* The first row of /history is one of those that /services may show.
LEMMA FirstIsNewest ==
    ASSUME TypeOK, HasNewest, NEW n \in Name, NEW first \in History(n, 1)
    PROVE  first \in Newest(n)
  <1> DEFINE earlier == {q \in Of(rows, n) : Before(q, first)}
  <1>1. first \in Of(rows, n) /\ Cardinality(earlier) < 1
    BY DEF History
  <1>2. IsFiniteSet(earlier)
    BY FS_Subset DEF HasNewest, Of
  <1>3. Cardinality(earlier) \in Nat
    BY <1>2, FS_CardinalityType
  <1>4. earlier = {}
    BY <1>1, <1>2, <1>3, FS_EmptySet
  <1>5. \A q \in Of(rows, n) : q.created_at \in Nat
    BY DEF TypeOK, Row, Of
  <1>6. QED
    BY <1>1, <1>4, <1>5 DEF Newest, Before

LEMMA NewestAgrees == TypeOK /\ HasNewest => ServicesAgree
  <1> SUFFICES ASSUME TypeOK, HasNewest, NEW n \in Name
               PROVE  /\ Of(rows, n) = {} <=> ServiceStatus(n) = {"unknown"}
                      /\ \A first \in History(n, 1) :
                           /\ first.status \in ServiceStatus(n)
                           /\ \A status \in ServiceStatus(n) : \E q \in Of(rows, n) :
                                  q.status = status /\ q.created_at = first.created_at
    BY DEF ServicesAgree
  <1>1. \A r \in Of(rows, n) : r.status # "unknown" /\ r.created_at \in Nat
    BY DEF TypeOK, Row, Of, States
  <1>2. Newest(n) \subseteq Of(rows, n)
    BY DEF Newest
  <1>3. Of(rows, n) = {} <=> Newest(n) = {}
    BY <1>2 DEF HasNewest
  <1>4. Newest(n) # {} => ServiceStatus(n) # {"unknown"}
    BY <1>1, <1>2 DEF ServiceStatus
  <1>5. Newest(n) = {} => ServiceStatus(n) = {"unknown"}
    BY DEF ServiceStatus
  <1>6. ASSUME NEW first \in History(n, 1)
        PROVE  /\ first.status \in ServiceStatus(n)
               /\ \A status \in ServiceStatus(n) : \E q \in Of(rows, n) :
                      q.status = status /\ q.created_at = first.created_at
    <2>1. first \in Newest(n)
      BY <1>6, FirstIsNewest
    <2>2. ServiceStatus(n) = {r.status : r \in Newest(n)}
      BY <2>1 DEF ServiceStatus
    <2>3. \A r \in Newest(n) : r \in Of(rows, n) /\ r.created_at = first.created_at
      BY <1>1, <1>2, <2>1 DEF Newest
    <2>4. QED
      BY <2>1, <2>2, <2>3
  <1>7. QED
    BY <1>3, <1>4, <1>5, <1>6

\* /services and /history agree on the latest result of a service up to a tie of time
\* stamps (main.py:386-405, main.py:493-498), whatever was written and purged and
\* however the clock moved.
THEOREM ServicesShowTheNewest == Spec => []ServicesAgree
  <1>1. Init => HasNewest
    BY FS_EmptySet DEF Init, HasNewest, Of
  <1>2. QED
    BY <1>1, TypeInit, TypeNext, NewestNext, NewestAgrees, PTL DEF Spec

-----------------------------------------------------------------------------
(* The gauge.                                                              *)

\* What GaugeAgrees says of the log; what /services shows follows.
GaugeIsStored ==
    \A n \in Name :
        (gauge[n] # "none" /\ n \notin lost) =>
            \E last \in LastStored(n) : last.status = gauge[n]

LEMMA GaugeNext == TypeOK /\ GaugeIsStored /\ [Next]_vars => GaugeIsStored'
  <1> SUFFICES ASSUME TypeOK, GaugeIsStored, [Next]_vars
               PROVE  GaugeIsStored'
    OBVIOUS
  <1>1. ASSUME NEW n \in Name, ScheduledCheck(n) \/ ManualCheck(n)
        PROVE  GaugeIsStored'
    <2>1. PICK status, due \in States, by \in AnyLimits : Checked(n, status, due, by)
      BY <1>1, CheckReports
    <2>2. \A m \in Name \ {n} : gauge'[m] = gauge[m] /\ (m \in lost' <=> m \in lost)
      BY <2>1 DEF Checked, Record, Stored, StoreRaises, TypeOK
    <2>3. \A m \in Name \ {n} : LastStored(m)' = LastStored(m)
      <3>1. \A m \in Name \ {n} : Of(written, m)' = Of(written, m)
        <4>1. CASE UNCHANGED written
          BY <4>1 DEF Of
        <4>2. CASE Insert(n, status)
          BY <4>2, InsertRow DEF Of
        <4>3. QED
          BY <2>1, <4>1, <4>2 DEF Checked, Stored, StoreRaises
      <3>2. QED
        BY <3>1 DEF LastStored
    <2>4. ASSUME n \notin lost'
          PROVE  \E last \in LastStored(n)' : last.status = gauge'[n]
      <3>1. Insert(n, status) /\ gauge'[n] = status
        BY <2>1, <2>4 DEF Checked, Stored, StoreRaises, Record, TypeOK
      <3>2. PICK row : /\ written' = written \union {row}
                       /\ row.id = nextId /\ row.name = n /\ row.status = status
        BY <3>1, InsertRow
      <3>3. nextId \in Nat /\ \A r \in written : r.id \in Nat /\ r.id < nextId
        BY DEF TypeOK, Row
      <3>4. row \in LastStored(n)'
        BY <3>2, <3>3 DEF LastStored, Of
      <3>5. QED
        BY <3>1, <3>2, <3>4
    <2>5. QED
      BY <2>2, <2>3, <2>4 DEF GaugeIsStored
  <1>2. CASE UNCHANGED <<written, lost>> /\ \A n \in Name : gauge'[n] \in {gauge[n], "none"}
    <2>1. \A m \in Name : LastStored(m)' = LastStored(m)
      BY <1>2 DEF LastStored, Of
    <2>2. QED
      BY <1>2, <2>1 DEF GaugeIsStored
  <1>3. QED
    BY <1>1, <1>2 DEF Next, vars, Remove, Restart, Purge, Tick, SetBack, NoGauge, TypeOK

LEMMA StoredAgrees == GaugeIsStored => GaugeAgrees
  BY DEF GaugeIsStored, GaugeAgrees, ServiceStatus

\* The status gauge is the last result stored, unless the last commit raised
\* (scheduler.py:57-82, main.py:542-551), across reloads, restarts and purges.
THEOREM GaugeIsTheLastResult == Spec => []GaugeAgrees
  <1>1. Init => GaugeIsStored
    BY DEF Init, GaugeIsStored, NoGauge
  <1>2. QED
    BY <1>1, TypeInit, TypeNext, GaugeNext, StoredAgrees, PTL DEF Spec

LEMMA DecideNext == TypeOK /\ LimitsDecide /\ [Next]_vars => LimitsDecide'
  <1> SUFFICES ASSUME TypeOK, LimitsDecide, [Next]_vars
               PROVE  LimitsDecide'
    OBVIOUS
  <1>1. ASSUME NEW n \in Name, ScheduledCheck(n) \/ ManualCheck(n)
        PROVE  LimitsDecide'
    <2>1. PICK status, due \in States, by \in AnyLimits :
              Checked(n, status, due, by) /\ Decides(n, by, status, due)
      BY <1>1, CheckReports
    <2>2. CASE Record(n, status, due, by)
      <3>1. /\ gauge'[n] = status /\ deserved'[n] = due /\ asked'[n] = by
            /\ \A m \in Name \ {n} : /\ gauge'[m] = gauge[m]
                                       /\ deserved'[m] = deserved[m]
                                       /\ asked'[m] = asked[m]
        BY <2>2 DEF Record, TypeOK
      <3>2. QED
        BY <2>1, <3>1 DEF LimitsDecide, Decides
    <2>3. CASE UNCHANGED <<gauge, asked, deserved>>
      BY <2>3 DEF LimitsDecide
    <2>4. QED
      BY <2>1, <2>2, <2>3 DEF Checked
  <1>2. CASE \A n \in Name :
              \/ gauge'[n] = "none"
              \/ gauge'[n] = gauge[n] /\ asked'[n] = asked[n] /\ deserved'[n] = deserved[n]
    BY <1>2 DEF LimitsDecide
  <1>3. QED
    BY <1>1, <1>2 DEF Next, vars, Remove, Restart, Purge, Tick, SetBack, NoGauge, TypeOK

\* What a manual check puts on the gauge departs from the configured verdict only the
\* way its timeout and thresholds depart from the configured ones (main.py:300-326,
\* scheduler.py:22-46): for any services, settings, requests and probes.
THEOREM GaugeFollowsLimits == Spec => []LimitsDecide
  <1>1. Init => LimitsDecide
    BY DEF Init, LimitsDecide, NoGauge
  <1>2. QED
    BY <1>1, TypeInit, TypeNext, DecideNext, PTL DEF Spec
=============================================================================
