---------------------------- MODULE MonitorProofs ----------------------------
(***************************************************************************)
(* Proofs about Monitor, for any services, files and callers: the types,   *)
(* that the scheduler runs the services in force unless a reload raised,   *)
(* and that a left-over series has one of the known causes.                *)
(***************************************************************************)
EXTENDS Monitor, TLAPS

USE DEF jobVars, runVars, seenVars

-----------------------------------------------------------------------------
(* Types.                                                                  *)

LEMMA RecordType ==
    ASSUME TypeOK, NEW n \in Name, NEW check \in ConfigType, Record(n, check)
    PROVE  series' \subseteq Name \X Label
  BY DEF TypeOK, Record, ConfigType, Label

LEMMA ReconcileType ==
    ASSUME TypeOK, NEW new \in File, NEW gone, NEW cut, NEW put,
           Reconcile(new, gone, cut, put)
    PROVE  /\ jobs' \in [Name -> ConfigType \union {Absent}]
           /\ due' \subseteq {n \in Name : jobs'[n] # Absent}
           /\ series' \subseteq Name \X Label
  BY MonitorAssumption DEF TypeOK, Reconcile, TurnLost

LEMMA TypeInit == Init => TypeOK
  BY MonitorAssumption DEF Init, TypeOK

LEMMA TypeNext == TypeOK /\ [Next]_vars => TypeOK'
  <1> SUFFICES ASSUME TypeOK, [Next]_vars
               PROVE  TypeOK'
    OBVIOUS
  <1>1. ASSUME NEW n \in Name, Elapse(n)
        PROVE  TypeOK'
    BY <1>1 DEF TypeOK, Elapse
  <1>2. ASSUME NEW n \in Name, Fire(n)
        PROVE  TypeOK'
    BY <1>2 DEF TypeOK, Fire
  <1>3. ASSUME NEW n \in Name, Probe(n)
        PROVE  TypeOK'
    <2>1. with[n] \in ConfigType
      BY <1>3, MonitorAssumption DEF Probe, TypeOK
    <2>2. series' \subseteq Name \X Label
      BY <1>3, <2>1, RecordType DEF Probe
    <2>3. QED
      BY <1>3, <2>2 DEF TypeOK, Probe, Stored
  <1>4. ASSUME NEW n \in Name, ProbeRaises(n) \/ Notified(n)
        PROVE  TypeOK'
    BY <1>4 DEF TypeOK, ProbeRaises, Notified, EndRun
  <1>5. CASE Purge \/ Pause \/ Resume \/ Database
    BY <1>5 DEF TypeOK, Purge, Pause, Resume, Database
  <1>6. ASSUME NEW new \in File, Reload(new)
        PROVE  TypeOK'
    <2>1. /\ jobs' \in [Name -> ConfigType \union {Absent}]
          /\ due' \subseteq {n \in Name : jobs'[n] # Absent}
          /\ series' \subseteq Name \X Label
      BY <1>6, ReconcileType DEF Reload
    <2>2. services' \in [Name -> ConfigType \union {Absent}]
      BY <1>6, MonitorAssumption DEF Reload
    <2>3. strays' \subseteq Name
      BY <1>6 DEF Reload, Reconcile, Removed, Changed, TypeOK
    <2>4. QED
      BY <1>6, <2>1, <2>2, <2>3 DEF TypeOK, Reload
  <1>7. ASSUME NEW new \in File, ReloadRaises(new)
        PROVE  TypeOK'
    <2>1. PICK bad \in Changed(new) : \E put \in SUBSET (Changed(new) \ {bad}) :
              Reconcile(new, Removed(new), {bad}, put)
      BY <1>7 DEF ReloadRaises
    <2>5. PICK put \in SUBSET (Changed(new) \ {bad}) :
              Reconcile(new, Removed(new), {bad}, put)
      BY <2>1
    <2>2. /\ jobs' \in [Name -> ConfigType \union {Absent}]
          /\ due' \subseteq {n \in Name : jobs'[n] # Absent}
          /\ series' \subseteq Name \X Label
      BY <2>5, ReconcileType
    <2>3. strays' \subseteq Name
      BY <2>5 DEF Reconcile, Removed, Changed, TypeOK
    <2>4. QED
      BY <1>7, <2>2, <2>3 DEF TypeOK, ReloadRaises
  <1>8. ASSUME NEW c \in Client, NEW n \in Name, ManualRequest(c, n)
        PROVE  TypeOK'
    <2>1. services[n] \in ConfigType
      BY <1>8 DEF ManualRequest, TypeOK
    <2>2. [services[n] EXCEPT !.cert = (services[n].type = "http")] \in ConfigType
      BY <2>1 DEF ConfigType
    <2>3. QED
      BY <1>8, <2>2 DEF TypeOK, ManualRequest
  <1>9. ASSUME NEW c \in Client, ManualDone(c)
        PROVE  TypeOK'
    <2>1. client[c][1] \in Name /\ client[c][2] \in ConfigType
      BY <1>9 DEF ManualDone, TypeOK
    <2>2. series' \subseteq Name \X Label /\ rows' \subseteq Name
      BY <1>9, <2>1, RecordType DEF ManualDone, TypeOK, Stored
    <2>3. QED
      BY <1>9, <2>2 DEF TypeOK, ManualDone
  <1>10. CASE UNCHANGED vars
    BY <1>10 DEF TypeOK, vars
  <1>11. QED
    BY <1>1, <1>2, <1>3, <1>4, <1>5, <1>6, <1>7, <1>8, <1>9, <1>10 DEF Next, Run

\* Type correctness.
THEOREM TypeCorrect == Spec => []TypeOK
  BY TypeInit, TypeNext, PTL DEF Spec

-----------------------------------------------------------------------------
(* The jobs are the services.                                              *)

LEMMA JobsNext ==
    ASSUME TypeOK, JobsMatchServices, [Next]_vars
    PROVE  JobsMatchServices'
  <1>1. ASSUME NEW new \in File, Reload(new)
        PROVE  jobs' = services'
    <2>1. new \in [Name -> ConfigType \union {Absent}]
      BY MonitorAssumption
    <2>2. jobs' = [n \in Name |-> IF n \in Removed(new) THEN Absent
                                 ELSE IF n \in Changed(new) THEN new[n] ELSE jobs[n]]
      BY <1>1 DEF Reload, Reconcile
    <2>3. \A n \in Name : jobs'[n] = new[n]
      BY <2>2 DEF Removed, Changed, Live
    <2>4. jobs' = new
      BY <2>1, <2>2, <2>3
    <2>5. QED
      BY <1>1, <2>4 DEF Reload
  <1>2. ASSUME NEW new \in File, ReloadRaises(new)
        PROVE  halfway'
    BY <1>2 DEF ReloadRaises
  <1>3. CASE UNCHANGED <<services, jobs, halfway>>
    BY <1>3 DEF JobsMatchServices
  <1>4. QED
    BY <1>1, <1>2, <1>3 DEF JobsMatchServices, Next, vars, Run, Elapse, Fire, Probe,
       ProbeRaises, Notified, Purge, Pause, Resume, ManualRequest, ManualDone, Database

\* Unless the last reload raised, the scheduler runs the services in force.
THEOREM JobsAreServices == Spec => []JobsMatchServices
  <1>1. Init => JobsMatchServices
    BY DEF Init, JobsMatchServices
  <1>2. QED
    BY <1>1, TypeInit, TypeNext, JobsNext, PTL DEF Spec

-----------------------------------------------------------------------------
(* The causes of a left-over series.                                       *)

\* Whatever belonged to a live job before the jobs are reconciled still does, or
\* has got a cause, unless it is a series that is cleared.
LEMMA ReconcileOwned ==
    ASSUME TypeOK, NEW new \in File, NEW cut \in SUBSET Name, NEW put \in SUBSET Name,
           Reconcile(new, Removed(new), cut, put),
           \A n \in cut \union put : new[n] # Absent,
           NEW n \in Name, NEW type, Owned(n, type)
    PROVE  \/ Owned(n, type)'
           \/ n \in Removed(new) /\ ~InFlight(n) /\ jobs[n].type = type
  <1>1. CASE n \in strays
    BY <1>1 DEF Reconcile, Owned
  <1>2. CASE n \notin strays /\ n \in Removed(new)
    BY <1>2 DEF Reconcile, Owned
  <1>3. CASE n \notin strays /\ n \notin Removed(new) /\ n \in cut \union put
    <2>1. jobs[n] # Absent /\ jobs[n].type = type
      BY <1>3 DEF Owned
    <2>2. CASE SameType(jobs[n], jobs'[n])
      BY <2>1, <2>2 DEF SameType, Owned
    <2>3. CASE ~SameType(jobs[n], jobs'[n])
      BY <1>3, <2>1, <2>3 DEF Reconcile, Owned
    <2>4. QED
      BY <2>2, <2>3
  <1>4. CASE n \notin strays /\ n \notin Removed(new) /\ n \notin cut \union put
    <2>1. jobs'[n] = jobs[n]
      BY <1>4 DEF Reconcile, TypeOK
    <2>2. QED
      BY <1>4, <2>1 DEF Owned
  <1>5. QED
    BY <1>1, <1>2, <1>3, <1>4

LEMMA ReconcileExplained ==
    ASSUME TypeOK, SeriesExplained, NEW new \in File,
           NEW cut \in SUBSET Name, NEW put \in SUBSET Name,
           Reconcile(new, Removed(new), cut, put),
           \A n \in cut \union put : new[n] # Absent,
           UNCHANGED <<at, with, client>>
    PROVE  SeriesExplained'
  <1>1. ASSUME NEW s \in series'
        PROVE  Owned(s[1], IF s[2] = "cert" THEN "http" ELSE s[2])'
    <2>1. s \in series /\ s[1] \in Name /\ s = <<s[1], s[2]>>
      BY DEF Reconcile, TypeOK
    <2>2. s[1] \in Removed(new) => s \notin Clear(s[1])
      BY <2>1 DEF Reconcile, Removed, Live
    <2>3. s[1] \in Removed(new) =>
              s[2] # "cert" /\ s[2] # jobs[s[1]].type
      BY <2>1, <2>2 DEF Clear
    <2>4. Owned(s[1], IF s[2] = "cert" THEN "http" ELSE s[2])
      BY <2>1 DEF SeriesExplained
    <2>5. QED
      BY <2>1, <2>3, <2>4, ReconcileOwned
  <1>2. ASSUME NEW n \in Name, at'[n] = "probe"
        PROVE  Owned(n, with[n].type)'
    <2>1. InFlight(n) /\ Owned(n, with[n].type)
      BY <1>2 DEF InFlight, SeriesExplained
    <2>2. QED
      BY <2>1, ReconcileOwned
  <1>3. ASSUME NEW c \in Client, client'[c] # Absent
        PROVE  Owned(client[c][1], client[c][2].type)'
    <2>1. client[c][1] \in Name
      BY <1>3 DEF TypeOK
    <2>2. InFlight(client[c][1]) /\ Owned(client[c][1], client[c][2].type)
      BY <1>3 DEF InFlight, SeriesExplained
    <2>3. QED
      BY <2>1, <2>2, ReconcileOwned
  <1>4. QED
    BY <1>1, <1>2, <1>3 DEF SeriesExplained

\* What a check records belongs to whom the check belongs to.
LEMMA RecordExplained ==
    ASSUME SeriesExplained, NEW n \in Name, NEW check \in ConfigType,
           Owned(n, check.type), Record(n, check), UNCHANGED <<jobs, strays>>,
           NEW s \in series'
    PROVE  Owned(s[1], IF s[2] = "cert" THEN "http" ELSE s[2])'
  <1>1. CASE s \in series
    BY <1>1 DEF SeriesExplained, Owned
  <1>2. CASE s = <<n, check.type>>
    <2>1. check.type # "cert"
      BY DEF ConfigType, Type
    <2>2. QED
      BY <1>2, <2>1 DEF Owned
  <1>3. CASE s = <<n, "cert">> /\ check.cert
    <2>1. check.type = "http"
      BY <1>3 DEF ConfigType
    <2>2. QED
      BY <1>3, <2>1 DEF Owned
  <1>4. QED
    BY <1>1, <1>2, <1>3 DEF Record, ConfigType

LEMMA ExplainedNext ==
    ASSUME TypeOK, SeriesExplained, [Next]_vars
    PROVE  SeriesExplained'
  <1>1. ASSUME NEW n \in Name, Fire(n)
        PROVE  SeriesExplained'
    <2>1. jobs[n] # Absent
      BY <1>1 DEF Fire, TypeOK
    <2>2. \A m \in Name : at'[m] = "probe" => Owned(m, with[m].type)'
      BY <1>1, <2>1 DEF Fire, TypeOK, SeriesExplained, Owned
    <2>3. QED
      BY <1>1, <2>2 DEF Fire, SeriesExplained, Owned
  <1>2. ASSUME NEW n \in Name, Probe(n)
        PROVE  SeriesExplained'
    <2>1. with[n] \in ConfigType /\ Owned(n, with[n].type)
      BY <1>2, MonitorAssumption DEF Probe, TypeOK, SeriesExplained
    <2>2. Record(n, with[n]) /\ UNCHANGED <<jobs, strays>>
      BY <1>2 DEF Probe
    <2>3. \A s \in series' : Owned(s[1], IF s[2] = "cert" THEN "http" ELSE s[2])'
      BY <2>1, <2>2, RecordExplained
    <2>4. \A m \in Name : at'[m] = "probe" => at[m] = "probe" /\ with'[m] = with[m]
      BY <1>2 DEF Probe, TypeOK
    <2>5. QED
      BY <1>2, <2>3, <2>4 DEF Probe, SeriesExplained, Owned
  <1>3. ASSUME NEW n \in Name, ProbeRaises(n) \/ Notified(n)
        PROVE  SeriesExplained'
    <2>1. \A m \in Name : at'[m] = "probe" => at[m] = "probe" /\ with'[m] = with[m]
      BY <1>3 DEF ProbeRaises, Notified, EndRun, TypeOK
    <2>2. QED
      BY <1>3, <2>1 DEF ProbeRaises, Notified, SeriesExplained, Owned
  <1>4. ASSUME NEW new \in File, Reload(new)
        PROVE  SeriesExplained'
    BY <1>4, ReconcileExplained DEF Reload, Changed
  <1>5. ASSUME NEW new \in File, ReloadRaises(new)
        PROVE  SeriesExplained'
    <2>1. PICK bad \in Changed(new) : \E put \in SUBSET (Changed(new) \ {bad}) :
              Reconcile(new, Removed(new), {bad}, put)
      BY <1>5 DEF ReloadRaises
    <2>2. PICK put \in SUBSET (Changed(new) \ {bad}) :
              Reconcile(new, Removed(new), {bad}, put)
      BY <2>1
    <2>3. UNCHANGED <<at, with, client>>
      BY <1>5 DEF ReloadRaises
    <2>4. QED
      BY <2>2, <2>3, ReconcileExplained DEF Changed
  <1>6. ASSUME NEW c \in Client, NEW n \in Name, ManualRequest(c, n)
        PROVE  SeriesExplained'
    <2>1. services[n] # Absent /\ services[n] \in ConfigType
      BY <1>6 DEF ManualRequest, TypeOK
    <2>2. [services[n] EXCEPT !.cert = (services[n].type = "http")].type = services[n].type
      BY <2>1 DEF ConfigType
    <2>3. Owned(n, services[n].type)'
      BY <1>6, <2>1 DEF ManualRequest, SameType, Owned
    <2>4. \A d \in Client :
              client'[d] # Absent => Owned(client[d][1], client[d][2].type)'
      BY <1>6, <2>2, <2>3 DEF ManualRequest, SeriesExplained, Owned, TypeOK
    <2>5. QED
      BY <1>6, <2>4 DEF ManualRequest, SeriesExplained, Owned
  <1>7. ASSUME NEW c \in Client, ManualDone(c)
        PROVE  SeriesExplained'
    <2>1. /\ client[c][1] \in Name
          /\ client[c][2] \in ConfigType
          /\ Owned(client[c][1], client[c][2].type)
      BY <1>7 DEF ManualDone, TypeOK, SeriesExplained
    <2>2. UNCHANGED <<jobs, strays, at, with>>
      BY <1>7 DEF ManualDone
    <2>3. \A s \in series' : Owned(s[1], IF s[2] = "cert" THEN "http" ELSE s[2])'
      <3>1. CASE Record(client[c][1], client[c][2])
        BY <2>1, <2>2, <3>1, RecordExplained
      <3>2. CASE UNCHANGED series
        BY <2>2, <3>2 DEF SeriesExplained, Owned
      <3>3. QED
        BY <1>7, <3>1, <3>2 DEF ManualDone
    <2>4. \A d \in Client : client'[d] # Absent => client'[d] = client[d]
      BY <1>7 DEF ManualDone, TypeOK
    <2>5. QED
      BY <2>2, <2>3, <2>4 DEF SeriesExplained, Owned
  <1>8. CASE UNCHANGED <<jobs, at, with, client, series, strays>>
    BY <1>8 DEF SeriesExplained, Owned
  <1>9. QED
    BY <1>1, <1>2, <1>3, <1>4, <1>5, <1>6, <1>7, <1>8
    DEF Next, Run, vars, Elapse, Purge, Pause, Resume, Database

\* A series without a live job of its type has one of the known causes.
THEOREM SeriesHaveACause == Spec => []SeriesExplained
  <1>1. Init => SeriesExplained
    BY DEF Init, SeriesExplained
  <1>2. QED
    BY <1>1, TypeInit, TypeNext, ExplainedNext, PTL DEF Spec
=============================================================================
