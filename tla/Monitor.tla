------------------------------- MODULE Monitor -------------------------------
(***************************************************************************)
(* One process of the monitor: the check jobs of the scheduler             *)
(* (scheduler.py), their hot reload and the manual check of the API        *)
(* (main.py), and the metric series they leave (metrics.py).               *)
(*                                                                         *)
(* Everything runs on one event loop, so a piece of code between two       *)
(* awaits is one step: a job run is Fire, Probe (or ProbeRaises), Notified;*)
(* a manual check is ManualRequest and ManualDone; /reload has no await.   *)
(* A restart is Init, which is why the results that Init finds stored are  *)
(* arbitrary.                                                              *)
(*                                                                         *)
(* "halfway" and "strays" are history: the code does not have them.        *)
(***************************************************************************)
EXTENDS Integers

CONSTANTS
    Name,      \* service names
    File,      \* the valid contents services.yaml may take
    Absent,    \* value of a service that is not in the file, of a free slot
    Client     \* callers of /checks/run, one request at a time each (bound)

Type == {"http", "tcp", "system"}

\* What of a ServiceConfig matters here.  "cert": an HTTPS service with a
\* certificate threshold; "sound": its probe ends in an outcome (an unreadable
\* disk path, a port above 65535 raise instead); "fits": the interval trigger
\* accepts the interval (now + interval is a date).
ConfigType ==
    {config \in [type : Type, cert : BOOLEAN, sound : BOOLEAN, fits : BOOLEAN] :
        config.cert => config.type = "http"}

ASSUME MonitorAssumption ==
    /\ Absent \notin ConfigType
    /\ Absent \notin Name \X ConfigType
    /\ File \subseteq [Name -> ConfigType \union {Absent}]

VARIABLES
    services,  \* app.state.services
    jobs,      \* jobs[n]: args[0] of job check_n, Absent when there is none
    due,       \* the names whose job is at its next_run_time
    paused,    \* the scheduler is paused (a standby, see LeaderElection)
    at,        \* at[n]: "idle", or the await the run of check_n is at
    with,      \* with[n]: the config being probed, Absent when no probe is awaited
    client,    \* client[c]: name and check of the request of c, or Absent
    series,    \* the labels <<name, type>> that /metrics exports
    rows,      \* the names with at least one stored result
    dbUp,      \* the database accepts a write
    halfway,   \* the last reload raised half way
    strays     \* names with a reason to have a series nobody clears

jobVars == <<services, jobs, due, paused>>
runVars == <<at, with>>
seenVars == <<series, rows>>
vars == <<services, jobs, due, paused, at, with, client, series, rows, dbUp,
          halfway, strays>>

Label == Type \union {"cert"}

TypeOK ==
    /\ services \in [Name -> ConfigType \union {Absent}]
    /\ jobs \in [Name -> ConfigType \union {Absent}]
    /\ due \subseteq {n \in Name : jobs[n] # Absent}
    /\ paused \in BOOLEAN
    /\ at \in [Name -> {"idle", "probe", "notify"}]
    /\ with \in [Name -> ConfigType \union {Absent}]
    /\ \A n \in Name : with[n] = Absent <=> at[n] # "probe"
    /\ client \in [Client -> (Name \X ConfigType) \union {Absent}]
    /\ series \subseteq Name \X Label
    /\ rows \subseteq Name
    /\ dbUp \in BOOLEAN
    /\ halfway \in BOOLEAN
    /\ strays \subseteq Name

Fits(file) == \A n \in Name : file[n] # Absent => file[n].fits

\* lifespan: the jobs of the file, or none if it is missing; with a file whose
\* jobs the scheduler refuses the process does not start.
Init ==
    /\ services \in {file \in File : Fits(file)} \union {[n \in Name |-> Absent]}
    /\ jobs = services
    /\ due = {}
    /\ paused \in BOOLEAN
    /\ at = [n \in Name |-> "idle"]
    /\ with = [n \in Name |-> Absent]
    /\ client = [c \in Client |-> Absent]
    /\ series = {}
    /\ rows \in SUBSET Name
    /\ dbUp \in BOOLEAN
    /\ halfway = FALSE
    /\ strays = {}

-----------------------------------------------------------------------------
(* What a finished check leaves.                                           *)

\* record_outcome: the certificate gauge only when the days were measured.
Record(n, check) ==
    \E measured \in {FALSE, check.cert} :
        series' = series \union {<<n, check.type>>}
                         \union (IF measured THEN {<<n, "cert">>} ELSE {})

\* Seeded mistake: the certificate gauge, which has no type label, is left.
ClearLabelled(n) == {<<n, jobs[n].type>>}

\* clear_service, with the type on the removed job.
Clear(n) == {<<n, jobs[n].type>>, <<n, "cert">>}

-----------------------------------------------------------------------------
(* The scheduler: one interval job per service.                            *)

Elapse(n) ==
    /\ jobs[n] # Absent
    /\ n \notin due
    /\ due' = due \union {n}
    /\ UNCHANGED <<services, jobs, paused, runVars, client, seenVars, dbUp, halfway, strays>>

\* The executor counts the instances of a job by its id: while a run of an
\* earlier check_n is in flight, a new one is skipped (max_instances=1).
Fire(n) ==
    /\ n \in due
    /\ ~paused
    /\ due' = due \ {n}
    /\ IF at[n] = "idle"
         THEN /\ at' = [at EXCEPT ![n] = "probe"]
              /\ with' = [with EXCEPT ![n] = jobs[n]]
         ELSE UNCHANGED runVars
    /\ UNCHANGED <<services, jobs, paused, client, seenVars, dbUp, halfway, strays>>

EndRun(n) ==
    /\ at' = [at EXCEPT ![n] = "idle"]
    /\ with' = [with EXCEPT ![n] = Absent]

\* Seeded mistake: the write is not committed.
Forgotten(n) == rows

Stored(n) == rows \union {n}

\* check.run() returned: store the result if the database takes it, export the
\* metrics in any case, and call the notifier.
Probe(n) ==
    /\ at[n] = "probe"
    /\ with[n].sound
    /\ rows' = IF dbUp THEN Stored(n) ELSE rows
    /\ Record(n, with[n])
    /\ at' = [at EXCEPT ![n] = "notify"]
    /\ with' = [with EXCEPT ![n] = Absent]
    /\ UNCHANGED <<jobVars, client, dbUp, halfway, strays>>

\* Seeded mistake: a run that raised still counts as an instance of its job.
KeepsSlot(n) ==
    /\ at[n] = "probe"
    /\ ~with[n].sound
    /\ UNCHANGED vars

\* check.run() raised: nothing is stored, exported or announced.
ProbeRaises(n) ==
    /\ at[n] = "probe"
    /\ ~with[n].sound
    /\ EndRun(n)
    /\ UNCHANGED <<jobVars, client, seenVars, dbUp, halfway, strays>>

\* notify returned or raised (module Notifier).
Notified(n) ==
    /\ at[n] = "notify"
    /\ EndRun(n)
    /\ UNCHANGED <<jobVars, client, seenVars, dbUp, halfway, strays>>

\* The daily job: results older than the retention go, which may be all of a
\* service that has not been checked lately.
Purge ==
    /\ ~paused
    /\ dbUp
    /\ rows' \in SUBSET rows
    /\ UNCHANGED <<jobVars, runVars, client, series, dbUp, halfway, strays>>

\* The leadership loop.  Jobs that were due for longer than the misfire grace
\* time when the scheduler resumes are not run until their next time.
Pause ==
    /\ ~paused
    /\ paused' = TRUE
    /\ UNCHANGED <<services, jobs, due, runVars, client, seenVars, dbUp, halfway, strays>>

Resume ==
    /\ paused
    /\ paused' = FALSE
    /\ due' \in SUBSET due
    /\ UNCHANGED <<services, jobs, runVars, client, seenVars, dbUp, halfway, strays>>

-----------------------------------------------------------------------------
(* The API.                                                                *)

InFlight(n) == at[n] = "probe" \/ \E c \in Client : client[c] # Absent /\ client[c][1] = n

\* Seeded mistakes: the diff is taken against the list the API serves; a job
\* whose service is gone stays; every service of the file is replaced.
Served == services
NoneRemoved(new) == {}
EveryService(new) == {n \in Name : new[n] # Absent}

Live == jobs
Removed(new) == {n \in Name : Live[n] # Absent /\ new[n] = Absent}
Changed(new) == {n \in Name : new[n] # Absent /\ Live[n] # new[n]}

SameType(one, other) == one # Absent /\ other # Absent /\ one.type = other.type

\* Seeded mistake: a job that goes without a successor keeps its turn.
KeepsTurn(gone, put) == due \ put

\* A job that goes or is replaced is no longer due: its successor starts over.
TurnLost(gone, put) == due \ (gone \union put)

\* reconcile_jobs takes the jobs of "gone" away and clears their series, drops
\* those of "cut" without a successor, and replaces or adds those of "put".
\* Clearing is not enough for a name with a check still in flight; replacing or
\* cutting a job clears nothing, which matters when its type goes with it.
Reconcile(new, gone, cut, put) ==
    /\ jobs' = [n \in Name |-> IF n \in gone \union cut THEN Absent
                               ELSE IF n \in put THEN new[n] ELSE jobs[n]]
    /\ due' = TurnLost(gone \union cut, put)
    /\ series' = series \ UNION {Clear(n) : n \in {m \in gone : jobs[m] # Absent}}
    /\ strays' = strays \union {n \in gone : InFlight(n)}
                        \union {n \in cut \union put :
                                  jobs[n] # Absent /\ ~SameType(jobs[n], jobs'[n])}

\* POST /reload with a valid file.
Reload(new) ==
    /\ \A n \in Changed(new) : new[n].fits
    /\ Reconcile(new, Removed(new), {}, Changed(new))
    /\ services' = new
    /\ halfway' = FALSE
    /\ UNCHANGED <<paused, runVars, client, rows, dbUp>>

\* The same when the trigger of one changed service refuses its interval: the
\* exception leaves reconcile_jobs, with the old job of that service and all of
\* the removed ones gone and those before it in the file already replaced.
ReloadRaises(new) ==
    \E bad \in Changed(new) :
    \E put \in SUBSET (Changed(new) \ {bad}) :
        /\ ~new[bad].fits
        /\ \A n \in put : new[n].fits
        /\ Reconcile(new, Removed(new), {bad}, put)
        /\ halfway' = TRUE
        /\ UNCHANGED <<services, paused, runVars, client, rows, dbUp>>

\* POST /checks/run: the caller names a configured service, and may ask for the
\* certificate of any HTTP service.
ManualRequest(c, n) ==
    /\ client[c] = Absent
    /\ services[n] # Absent
    /\ client' = [client EXCEPT ![c] =
                    <<n, [services[n] EXCEPT !.cert = services[n].type = "http"]>>]
    /\ strays' = IF SameType(services[n], jobs[n]) THEN strays ELSE strays \union {n}
    /\ UNCHANGED <<jobVars, runVars, seenVars, dbUp, halfway>>

\* A probe or a commit that raises answers 500 and records nothing.
ManualDone(c) ==
    /\ client[c] # Absent
    /\ LET n == client[c][1]  check == client[c][2] IN
       IF check.sound /\ dbUp
         THEN rows' = Stored(n) /\ Record(n, check)
         ELSE UNCHANGED seenVars
    /\ client' = [client EXCEPT ![c] = Absent]
    /\ UNCHANGED <<jobVars, runVars, dbUp, halfway, strays>>

-----------------------------------------------------------------------------

Database ==
    /\ dbUp' = ~dbUp
    /\ UNCHANGED <<jobVars, runVars, client, seenVars, halfway, strays>>

Run(n) ==
    \/ Probe(n)
    \/ ProbeRaises(n)
    \/ Notified(n)

Next ==
    \/ \E n \in Name : Elapse(n)
    \/ \E n \in Name : Fire(n)
    \/ \E n \in Name : Run(n)
    \/ Purge
    \/ Pause
    \/ Resume
    \/ \E new \in File : Reload(new)
    \/ \E new \in File : ReloadRaises(new)
    \/ \E c \in Client, n \in Name : ManualRequest(c, n)
    \/ \E c \in Client : ManualDone(c)
    \/ Database

Spec == Init /\ [][Next]_vars

\* Time passes, the scheduler wakes up for a due job, and a run in flight ends:
\* probes and providers have timeouts, Redis answers or raises.  Nobody has to
\* call the API, and the database and the leadership change only if they happen to.
Fairness ==
    \A n \in Name : WF_vars(Elapse(n)) /\ WF_vars(Fire(n)) /\ WF_vars(Run(n))

FairSpec == Spec /\ Fairness

-----------------------------------------------------------------------------
(* Safety.                                                                 *)

\* The scheduler and /services agree, and a reload that raised is healed by the
\* next one that does not: the diff is against the live jobs (scheduler.py:144).
JobsMatchServices == ~halfway => jobs = services

Owned(n, type) == n \in strays \/ (jobs[n] # Absent /\ jobs[n].type = type)

\* A series that does not belong to a live job, or a check in flight that is
\* about to write one, has one of the known causes: a check in flight when the
\* service was removed, a type that was changed, a reload that raised.
\* Otherwise clear_service leaves nothing behind (scheduler.py:152-157).
SeriesExplained ==
    /\ \A s \in series : Owned(s[1], IF s[2] = "cert" THEN "http" ELSE s[2])
    /\ \A n \in Name : at[n] = "probe" => Owned(n, with[n].type)
    /\ \A c \in Client :
          client[c] # Absent => Owned(client[c][1], client[c][2].type)

-----------------------------------------------------------------------------
(* Liveness.                                                               *)

Settled(n) == <>[][jobs'[n] = jobs[n]]_vars

\* A service whose configuration settles keeps being checked and its outcomes
\* keep reaching the notifier, however often the file is reloaded and whatever
\* the database does ("Unchanged services keep running undisturbed",
\* README.md:144; scheduler.py:57-59), as long as its probe does not raise.
KeepsChecking ==
    \A n \in Name :
        (Settled(n) /\ <>[](jobs[n] # Absent /\ jobs[n].sound /\ ~paused))
            => []<>(at[n] = "notify")

\* A probe that raises does not stop the monitor from trying again: every run of
\* a service with a job ends, and another starts (scheduler.py:54-55 has no
\* handler, and with max_instances=1 a run that lingers would be the last one).
KeepsProbing ==
    \A n \in Name :
        (Settled(n) /\ <>[](jobs[n] # Absent /\ ~paused))
            => []<>(at[n] = "idle") /\ []<>(at[n] = "probe")

\* With a database that works again, every such service keeps having results to
\* show, whatever the daily purge takes away.
ResultsStored ==
    \A n \in Name :
        (Settled(n) /\ <>[](jobs[n] # Absent /\ jobs[n].sound /\ ~paused /\ dbUp))
            => []<>(n \in rows)

\* Once a service is gone for good no run of it is in flight any more, so nothing
\* of it is announced again (scheduler.py:150-158); a manual check that a caller
\* asked for in time may still be waiting.
RemovedStops ==
    \A n \in Name : <>[](services[n] = Absent /\ ~halfway) => <>[](at[n] = "idle")

-----------------------------------------------------------------------------
(* What the documentation says, stronger than what the code does.          *)

\* "Drop a service's metric series so a removed service stops being reported"
\* (metrics.py:80)
RemovedNotReported == \A s \in series : services[s[1]] # Absent
=============================================================================
