------------------------------ MODULE HAMonitor ------------------------------
(***************************************************************************)
(* Several replicas with MONITOR_HA_ENABLED, one service: LeaderElection   *)
(* decides whose scheduler runs, each run of its job probes the service    *)
(* and calls notify (Notifier, a runner per replica), and all of them      *)
(* share one Redis.                                                        *)
(*                                                                         *)
(* Pausing a scheduler does not end the run it has in flight, and neither  *)
(* does the release of the lock at shutdown.                               *)
(***************************************************************************)
EXTENDS LeaderElection, FiniteSets

CONSTANTS
    NumProviders, Unreliable, FailureThreshold, FailCap, MaxAborts,
    Staying,      \* replicas of which one stays up (one, as they are alike)
    Seen          \* the states the service may be in (bound)

VARIABLES
    probing,      \* the replicas with a run that awaits its probe
    run,          \* run[i]: the await of notify the run of i is at
    health, state, fails, cur, conf, prov, told, row, torn, aborts,
    overlapped    \* history: two calls of notify were in progress at once

N == INSTANCE Notifier WITH Runner <- Instance, pc <- run

notifierVars == <<run, health, state, fails, cur, conf, prov, told, row, torn, aborts>>
haVars == <<vars, notifierVars, probing, overlapped>>

ASSUME HAAssumption ==
    /\ N!NotifierAssumption
    /\ Staying \subseteq Instance
    /\ Seen \subseteq N!Outcome
    /\ "up" \in Seen

Busy(i)      == run[i] # "idle"
Notifying    == {i \in Instance : Busy(i)}
Executing(i) == i \in probing \/ Busy(i)

HATypeOK ==
    /\ TypeOK
    /\ N!TypeOK
    /\ probing \subseteq {i \in Instance : ~Busy(i) /\ sched[i] # "stopped"}
    /\ Notifying \subseteq {i \in Instance : sched[i] # "stopped"}
    /\ overlapped \in BOOLEAN

HAInit ==
    /\ Init
    /\ N!Init
    /\ probing = {}
    /\ overlapped = FALSE

NoteOverlap == overlapped' = (overlapped \/ Cardinality(Notifying') > 1)

-----------------------------------------------------------------------------

\* Seeded mistake: a standby checks as well.
AnyScheduler(i) == sched[i] # "stopped"

Schedules(i) == Running(i)

\* The trigger fires; one run at a time (max_instances=1).
Fire(i) ==
    /\ Schedules(i)
    /\ ~Executing(i)
    /\ probing' = probing \union {i}
    /\ UNCHANGED <<vars, notifierVars, overlapped>>

\* The probe has an outcome, and notify is called.
Probed(i) ==
    /\ i \in probing
    /\ probing' = probing \ {i}
    /\ N!Begin(i)
    /\ NoteOverlap
    /\ UNCHANGED vars

AtRedis(i) == run[i] \in {"get", "delete", "incr", "set"}

\* The other steps of the run; those at Redis need the connection.
Notify(i) ==
    /\ AtRedis(i) => conn[i]
    /\ \/ N!GetState(i)
       \/ N!DeleteFails(i)
       \/ N!IncrFails(i)
       \/ N!Deliver(i)
       \/ N!SendFails(i)
       \/ N!SetState(i)
    /\ UNCHANGED <<vars, probing, overlapped>>

\* A Redis call of notify raises because the replica is cut off.
NotifyRaises(i) ==
    /\ AtRedis(i)
    /\ ~conn[i]
    /\ N!Abort(i)
    /\ UNCHANGED <<vars, probing, overlapped>>

\* Seeded mistake: the probe outlives the process.
EndNotify(i) ==
    /\ IF Busy(i) THEN N!Abort(i) ELSE UNCHANGED notifierVars
    /\ UNCHANGED <<probing, overlapped>>

\* The process ends, and its run with it.
EndRun(i) ==
    /\ probing' = probing \ {i}
    /\ IF Busy(i) THEN N!Abort(i) ELSE UNCHANGED notifierVars
    /\ UNCHANGED overlapped

Exit(i) == Finish(i) /\ EndRun(i)
Die(i)  == Crash(i) /\ EndRun(i)

\* Everything else that LeaderElection does leaves the runs alone: the loop ...
Round(i) ==
    /\ SetNX(i) \/ Renew(i) \/ Reply(i) \/ CallFails(i) \/ Release(i)
    /\ UNCHANGED <<notifierVars, probing, overlapped>>

\* ... and what happens to a replica.
Happens(i) ==
    /\ Start(i) \/ Stop(i) \/ Disconnect(i) \/ Reconnect(i)
    /\ UNCHANGED <<notifierVars, probing, overlapped>>

TimePasses ==
    /\ Tick
    /\ UNCHANGED <<notifierVars, probing, overlapped>>

ServiceChanges ==
    /\ N!HealthChange
    /\ health' \in Seen
    /\ UNCHANGED <<vars, probing, overlapped>>

HANext ==
    \/ \E i \in Instance : Fire(i) \/ Probed(i) \/ Notify(i) \/ NotifyRaises(i)
    \/ \E i \in Instance : Round(i) \/ Happens(i)
    \/ \E i \in Instance : Exit(i) \/ Die(i)
    \/ TimePasses
    \/ ServiceChanges

HASpec == HAInit /\ [][HANext]_haVars

\* Time passes, every live replica's event loop runs, and what it awaits ends.
HAFairness ==
    /\ WF_vars(TimePasses)
    /\ \A i \in Instance :
         /\ WF_<<pc, timer>>(Round(i) \/ Exit(i))
         /\ WF_<<probing, run, prov>>(Fire(i) \/ Probed(i) \/ Notify(i))

HAFairSpec == HASpec /\ HAFairness

-----------------------------------------------------------------------------
(* Safety.                                                                 *)

Overlap == \E i, j \in Instance : i # j /\ Executing(i) /\ Executing(j)

\* As long as nothing fails and nobody is shut down, a service is checked by one
\* replica at a time, whoever wins the first election (README.md:393-395).
NoOverlapWithoutFault == Overlap => faults > 0

\* The replicas hand the alert state over in Redis: as long as no two calls of
\* notify met, what the providers that work delivered last agrees with the state key
\* between two calls, also when the leader changed in between or died, unless a
\* broadcast was interrupted (leader.py:9-11, notifier.py:62-84).
ToldAcrossReplicas ==
    (~overlapped /\ ~torn /\ Notifying = {}) =>
        \A p \in N!Reliable : told[p] = N!Norm(state)

\* To the operators the replicas are one notifier: until two calls of notify meet,
\* every step is one of the contract or none, also when an outage is counted by one
\* leader and announced by the next, or a leader dies in the middle (leader.py:9-11,
\* notifier.py:62-84).
KeepsContract ==
    [][overlapped' \/ [N!Contract!ContractNext]_(N!Contract!contractVars)]_haVars

-----------------------------------------------------------------------------
(* Liveness.                                                               *)

\* If some replica stays up and connected, monitoring goes on: the state that the
\* service settles in is in the end what Redis records, for good, whichever leader
\* crashed, was cut off or shut down in the middle of a run, and although runs of
\* an old and a new leader may interleave.
ConfirmedInTheEnd ==
    ((\E i \in Staying : <>[]Ready(i)) /\ <>[][FALSE]_health)
        => <>[](N!Norm(state) = health)

-----------------------------------------------------------------------------
(* What the documentation says, stronger than what the code does.          *)

\* "the lock alone prevents double-execution" (README.md:408)
NoDoubleExecution == ~Overlap
=============================================================================
