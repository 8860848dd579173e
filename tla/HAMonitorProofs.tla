---------------------------- MODULE HAMonitorProofs ----------------------------
(***************************************************************************)
(* Theorems about HAMonitor, for any set of replicas, any leader_ttl, list *)
(* of providers and threshold.  What holds of the election and of notify   *)
(* alone is taken from their own proofs: the steps of HAMonitor are steps  *)
(* of both.                                                                *)
(***************************************************************************)
EXTENDS HAMonitor, LeaderElectionProofs, FiniteSetTheorems

P == INSTANCE NotifierProofs WITH Runner <- Instance, pc <- run

LEMMA NotifierConstants == P!NotifierAssumption
  BY HAAssumption
     DEF N!NotifierAssumption, P!NotifierAssumption, N!Provider, P!Provider,
         N!Threshold, P!Threshold, N!AtLeastOne, P!AtLeastOne

-----------------------------------------------------------------------------
(* The parts.                                                              *)

\* What each step does to the election.
LEMMA ElectionStep == [HANext]_haVars => [Next]_vars
<1> SUFFICES ASSUME [HANext]_haVars PROVE [Next]_vars
  OBVIOUS
<1>1. ASSUME NEW i \in Instance,
             Fire(i) \/ Probed(i) \/ Notify(i) \/ NotifyRaises(i)
      PROVE  UNCHANGED vars
  BY <1>1 DEF Fire, Probed, Notify, NotifyRaises
<1>2. ASSUME NEW i \in Instance, Round(i) \/ Exit(i) PROVE Step(i)
  BY <1>2 DEF Round, Exit, Step
<1>3. ASSUME NEW i \in Instance, Happens(i) \/ Die(i) PROVE Environment(i)
  BY <1>3 DEF Happens, Die, Environment
<1>4. TimePasses => Tick
  BY DEF TimePasses
<1>5. ServiceChanges \/ UNCHANGED haVars => UNCHANGED vars
  BY DEF ServiceChanges, haVars
<1>6. QED
  BY <1>1, <1>2, <1>3, <1>4, <1>5 DEF HANext, Next

\* What each step does to the calls of notify.
LEMMA SameSteps ==
    ASSUME NEW i \in Instance
    PROVE  /\ N!Begin(i) => P!Begin(i)
           /\ N!GetState(i) \/ N!DeleteFails(i) \/ N!IncrFails(i) => P!Step(i)
           /\ N!Deliver(i) \/ N!SendFails(i) \/ N!SetState(i) => P!Step(i)
           /\ N!Abort(i) => P!Abort(i)
<1>1. N!Begin(i) => P!Begin(i)
  BY DEF N!Begin, P!Begin, N!Unhealthy, P!Unhealthy, N!Bump, P!Bump
<1>2. N!GetState(i) => P!GetState(i)
  BY DEF N!GetState, P!GetState, N!Unhealthy, P!Unhealthy
<1>3. N!DeleteFails(i) => P!DeleteFails(i)
  BY DEF N!DeleteFails, P!DeleteFails, N!AfterUp, P!AfterUp, N!Cleared, P!Cleared,
         N!Unhealthy, P!Unhealthy
<1>4. N!IncrFails(i) => P!IncrFails(i)
  BY DEF N!IncrFails, P!IncrFails, N!Confirms, P!Confirms, N!Return, P!Return,
         N!Bump, P!Bump, N!Threshold, P!Threshold, N!AtLeastOne, P!AtLeastOne
<1>5. N!Deliver(i) => P!Deliver(i)
  BY DEF N!Deliver, P!Deliver, N!NextProvider, P!NextProvider, N!IsLast, P!IsLast
<1>6. N!SendFails(i) => P!SendFails(i)
  BY DEF N!SendFails, P!SendFails, N!Swallow, P!Swallow, N!NextProvider,
         P!NextProvider, N!IsLast, P!IsLast
<1>7. N!SetState(i) => P!SetState(i)
  BY DEF N!SetState, P!SetState, N!Return, P!Return
<1>8. N!Abort(i) => P!Abort(i)
  BY DEF N!Abort, P!Abort, N!Return, P!Return
<1>9. QED
  BY <1>1, <1>2, <1>3, <1>4, <1>5, <1>6, <1>7, <1>8 DEF P!Step

LEMMA SameChange == N!HealthChange => P!HealthChange
  BY DEF N!HealthChange, P!HealthChange, N!Outcome, P!Outcome

\* A step of HAMonitor is a step of some run, a change of the service, or leaves
\* the notifier alone.
LEMMA NotifierSteps ==
    [HANext]_haVars =>
        \/ UNCHANGED notifierVars
        \/ N!HealthChange
        \/ \E i \in Instance : N!Step(i) \/ N!Abort(i)
<1> SUFFICES ASSUME [HANext]_haVars
             PROVE  \/ UNCHANGED notifierVars
                    \/ N!HealthChange
                    \/ \E i \in Instance : N!Step(i) \/ N!Abort(i)
  OBVIOUS
<1>1. ASSUME NEW i \in Instance, Fire(i) \/ Round(i) \/ Happens(i)
      PROVE  UNCHANGED notifierVars
  BY <1>1 DEF Fire, Round, Happens
<1>2. ASSUME NEW i \in Instance, Probed(i) \/ Notify(i) PROVE N!Step(i)
  BY <1>2 DEF Probed, Notify, N!Step
<1>3. ASSUME NEW i \in Instance, NotifyRaises(i) PROVE N!Abort(i)
  BY <1>3 DEF NotifyRaises
<1>4. ASSUME NEW i \in Instance, Exit(i) \/ Die(i)
      PROVE  N!Abort(i) \/ UNCHANGED notifierVars
  BY <1>4 DEF Exit, Die, EndRun
<1>5. TimePasses \/ UNCHANGED haVars => UNCHANGED notifierVars
  BY DEF TimePasses, haVars
<1>6. ServiceChanges => N!HealthChange
  BY DEF ServiceChanges
<1>7. QED
  BY <1>1, <1>2, <1>3, <1>4, <1>5, <1>6 DEF HANext

\* The runs of the schedulers do not disturb the election: what is proved of
\* LeaderElection holds of the replicas that check and notify.
THEOREM RefinesElection == HASpec => Spec
<1>1. HAInit => Init
  BY DEF HAInit
<1>2. QED
  BY <1>1, ElectionStep, PTL DEF HASpec, Spec

\* The runs of all replicas together are calls of notify, with one runner per
\* replica, on one Redis: the death of a replica is the death of its call.
THEOREM RefinesNotifier == HASpec => N!Spec
<1>1. HAInit => N!Init
  BY DEF HAInit
<1>2. [HANext]_haVars => [N!Next]_(N!vars)
  BY NotifierSteps DEF N!Next, N!vars, notifierVars
<1>3. QED
  BY <1>1, <1>2, PTL DEF HASpec, N!Spec

\* No run of any replica breaks what the lock promises: two valid leases, a
\* scheduler that runs past MaxHold, replicas without a leader past MaxWait.
THEOREM ElectionPromises ==
    HASpec => [](ExclusiveLease /\ HoldBound /\ TakeoverBound /\ SchedulerFollowsLoop)
  BY RefinesElection, NoSplitBrain, BoundedHold, TakeoverInTime, SchedulerInStep, PTL

-----------------------------------------------------------------------------
(* Types.                                                                  *)

\* Where a run can be: in one await of a replica that is up.
RunsLive ==
    \A i \in Instance :
        /\ i \in probing => ~Busy(i)
        /\ Executing(i) => sched[i] # "stopped"

\* HATypeOK with what makes it inductive.
HATypeInv ==
    /\ TypeOK
    /\ P!TypeInv
    /\ probing \subseteq Instance
    /\ RunsLive
    /\ overlapped \in BOOLEAN

LEMMA NotifierTypes == P!TypeInv => N!TypeOK
  BY DEF P!TypeInv, P!TypeOK, N!TypeOK, P!Outcome, N!Outcome, P!PC, N!PC,
         P!Provider, N!Provider

LEMMA NotifierTypeInit == HAInit => P!TypeInv
<1>1. N!Init => P!Init
  BY DEF N!Init, P!Init, N!Provider, P!Provider
<1>2. QED
  BY <1>1, P!TypeInit, NotifierConstants DEF HAInit

LEMMA NotifierTypeStep == P!TypeInv /\ [HANext]_haVars => P!TypeInv'
<1> SUFFICES ASSUME P!TypeInv, [HANext]_haVars PROVE P!TypeInv'
  OBVIOUS
<1>1. [P!Next]_(P!vars)
  <2>1. ASSUME NEW i \in Instance, N!Step(i) \/ N!Abort(i) PROVE P!Next
    BY <2>1, SameSteps DEF N!Step, P!Step, P!Next
  <2>2. N!HealthChange => P!Next
    BY SameChange DEF P!Next
  <2>3. UNCHANGED notifierVars => UNCHANGED P!vars
    BY DEF notifierVars, P!vars
  <2>4. QED BY <2>1, <2>2, <2>3, NotifierSteps
<1>2. QED
  BY <1>1, P!TypeStep, NotifierConstants

\* A step of a call concerns the run of its own replica.
LEMMA CallMoves ==
    ASSUME P!TypeInv, NEW i \in Instance,
           \/ N!GetState(i) \/ N!DeleteFails(i) \/ N!IncrFails(i)
           \/ N!Deliver(i) \/ N!SendFails(i) \/ N!SetState(i) \/ N!Abort(i)
    PROVE  Busy(i) /\ \A k \in Instance \ {i} : run'[k] = run[k]
<1> USE DEF P!TypeInv, P!TypeOK, Busy
<1>1. CASE N!GetState(i) \/ N!DeleteFails(i)
  BY <1>1 DEF N!GetState, N!DeleteFails
<1>2. CASE N!IncrFails(i)
  BY <1>2 DEF N!IncrFails, N!Return
<1>3. CASE N!Deliver(i) \/ N!SendFails(i)
  BY <1>3 DEF N!Deliver, N!SendFails, N!Swallow, N!NextProvider
<1>4. CASE N!SetState(i) \/ N!Abort(i)
  BY <1>4 DEF N!SetState, N!Abort, N!Return
<1>5. QED BY <1>1, <1>2, <1>3, <1>4

LEMMA BeginMoves ==
    ASSUME P!TypeInv, NEW i \in Instance, N!Begin(i)
    PROVE  ~Busy(i) /\ Busy(i)' /\ \A k \in Instance \ {i} : run'[k] = run[k]
  BY DEF N!Begin, P!TypeInv, P!TypeOK, Busy

LEMMA EndRunMoves ==
    ASSUME P!TypeInv, NEW i \in Instance, EndRun(i)
    PROVE  /\ i \notin probing' /\ ~Busy(i)'
           /\ \A k \in Instance \ {i} :
                 run'[k] = run[k] /\ (k \in probing' <=> k \in probing)
  BY DEF EndRun, N!Abort, N!Return, P!TypeInv, P!TypeOK, Busy, notifierVars

\* Only the end of the process stops a scheduler.
LEMMA SchedulerLives ==
    ASSUME TypeOK, NEW k \in Instance, sched[k] # "stopped",
           \/ \E i \in Instance : \/ SetNX(i) \/ Renew(i) \/ Reply(i) \/ CallFails(i)
                                  \/ Release(i) \/ Start(i) \/ Stop(i)
                                  \/ Disconnect(i) \/ Reconnect(i)
           \/ Tick
    PROVE  sched'[k] # "stopped"
<1> USE DEF TypeOK
<1>1. ASSUME NEW i \in Instance, SetNX(i) \/ Renew(i) \/ Release(i) \/ Stop(i)
      PROVE  sched'[k] # "stopped"
  BY <1>1 DEF SetNX, Renew, Release, Stop
<1>2. ASSUME NEW i \in Instance, Reply(i) \/ CallFails(i) PROVE sched'[k] # "stopped"
  BY <1>2 DEF Reply, CallFails, Lead, StandBy
<1>3. ASSUME NEW i \in Instance, Start(i) \/ Disconnect(i) \/ Reconnect(i)
      PROVE  sched'[k] # "stopped"
  BY <1>3 DEF Start, Disconnect, Reconnect, loopVars
<1>4. CASE Tick
  BY <1>4 DEF Tick
<1>5. QED BY <1>1, <1>2, <1>3, <1>4

LEMMA HATypeInit == HAInit => HATypeInv
<1> SUFFICES ASSUME HAInit PROVE HATypeInv
  OBVIOUS
<1>1. probing = {} /\ overlapped \in BOOLEAN /\ \A i \in Instance : ~Busy(i)
  BY DEF HAInit, N!Init, Busy
<1>2. QED
  BY <1>1, TypeInit, NotifierTypeInit DEF HAInit, HATypeInv, RunsLive, Executing

LEMMA RunsLiveStep == HATypeInv /\ [HANext]_haVars => RunsLive'
<1> SUFFICES ASSUME HATypeInv, [HANext]_haVars PROVE RunsLive'
  OBVIOUS
<1> USE DEF HATypeInv, RunsLive, Executing
<1>1. ASSUME NEW i \in Instance, Fire(i) PROVE RunsLive'
  <2>1. UNCHANGED <<run, sched>>
    BY <1>1 DEF Fire, vars, notifierVars
  <2>2. QED BY <1>1, <2>1 DEF Fire, Schedules, Running, Busy
<1>2. ASSUME NEW i \in Instance, Probed(i) PROVE RunsLive'
  <2>1. sched' = sched
    BY <1>2 DEF Probed, vars
  <2>2. QED BY <1>2, <2>1, BeginMoves DEF Probed, Busy
<1>3. ASSUME NEW i \in Instance, Notify(i) \/ NotifyRaises(i) PROVE RunsLive'
  <2>1. UNCHANGED <<sched, probing>>
    BY <1>3 DEF Notify, NotifyRaises, vars
  <2>2. Busy(i) /\ \A k \in Instance \ {i} : run'[k] = run[k]
    BY <1>3, CallMoves DEF Notify, NotifyRaises
  <2>3. QED BY <2>1, <2>2 DEF Busy
<1>4. ASSUME NEW i \in Instance, Exit(i) \/ Die(i) PROVE RunsLive'
  <2>1. \A k \in Instance \ {i} : sched'[k] = sched[k]
    BY <1>4 DEF Exit, Die, Finish, Crash, Vanish, TypeOK
  <2>2. QED BY <1>4, <2>1, EndRunMoves DEF Exit, Die, Busy
<1>5. ASSUME NEW i \in Instance, Round(i) \/ Happens(i) PROVE RunsLive'
  <2>1. UNCHANGED <<run, probing>>
    BY <1>5 DEF Round, Happens, notifierVars
  <2>2. QED BY <1>5, <2>1, SchedulerLives DEF Round, Happens, Busy
<1>6. CASE TimePasses
  <2>1. UNCHANGED <<run, probing, sched>>
    BY <1>6 DEF TimePasses, Tick, notifierVars
  <2>2. QED BY <2>1 DEF Busy
<1>7. CASE ServiceChanges
  <2>1. UNCHANGED <<run, probing, sched>>
    BY <1>7 DEF ServiceChanges, N!HealthChange, vars
  <2>2. QED BY <2>1 DEF Busy
<1>8. CASE UNCHANGED haVars
  <2>1. UNCHANGED <<run, probing, sched>>
    BY <1>8 DEF haVars, notifierVars, vars
  <2>2. QED BY <2>1 DEF Busy
<1>9. QED
  BY <1>1, <1>2, <1>3, <1>4, <1>5, <1>6, <1>7, <1>8 DEF HANext

LEMMA HATypeStep == HATypeInv /\ [HANext]_haVars => HATypeInv'
<1> SUFFICES ASSUME HATypeInv, [HANext]_haVars PROVE HATypeInv'
  OBVIOUS
<1>1. TypeOK'
  BY ElectionStep, TypeStep DEF HATypeInv
<1>2. P!TypeInv'
  BY NotifierTypeStep DEF HATypeInv
<1>3. RunsLive'
  BY RunsLiveStep
<1>4. probing' \subseteq Instance
  BY DEF HATypeInv, HANext, haVars, Fire, Probed, Notify, NotifyRaises, Round, Happens,
         Exit, Die, EndRun, TimePasses, ServiceChanges
<1>5. overlapped' \in BOOLEAN
  BY Zenon DEF HATypeInv, HANext, haVars, Fire, Probed, NoteOverlap, Notify,
         NotifyRaises, Round, Happens, Exit, Die, EndRun, TimePasses, ServiceChanges
<1>6. QED BY <1>1, <1>2, <1>3, <1>4, <1>5 DEF HATypeInv

\* Every variable keeps its type, and a run is in one place of a process that is up:
\* no call outlives its replica.
THEOREM HATypeCorrect == HASpec => []HATypeOK
<1>1. HATypeInv => HATypeOK
  BY NotifierTypes DEF HATypeInv, RunsLive, HATypeOK, Executing, Notifying
<1>2. QED
  BY <1>1, HATypeInit, HATypeStep, PTL DEF HASpec

-----------------------------------------------------------------------------
(* One replica checks, as long as nothing fails.                           *)

\* What is true until the first fault: everybody reaches Redis, no round has
\* failed, nobody shuts down, and only replicas that run their scheduler check.
CalmAt(i) ==
    /\ conn[i] /\ errors[i] = 0
    /\ pc[i] \notin {"release", "released"}
    /\ Executing(i) => Running(i)

CalmInv == faults = 0 => \A i \in Instance : CalmAt(i)

LEMMA CalmInit == HAInit => CalmInv
<1> SUFFICES ASSUME HAInit, NEW i \in Instance PROVE CalmAt(i)
  BY DEF CalmInv
<1>1. conn[i]
  BY Zenon DEF HAInit, Init
<1>2. errors[i] = 0 /\ pc[i] = "off" /\ ~Executing(i)
  BY DEF HAInit, Init, N!Init, Executing, Busy
<1>3. QED BY <1>1, <1>2 DEF CalmAt

\* A scheduler that runs goes on, and replicas stay calm, in any step of the
\* election that is no fault.
LEMMA CalmElection ==
    ASSUME LeaderInv, LeaderInv', [Next]_vars, faults = 0, faults' = 0,
           \A i \in Instance : CalmAt(i),
           NEW k \in Instance
    PROVE  /\ conn'[k] /\ errors'[k] = 0 /\ pc'[k] \notin {"release", "released"}
           /\ Running(k) => Running(k)'
<1> USE DEF LeaderInv, TypeOK, CalmAt
<1>1. /\ ~\E i \in Instance : CallFails(i) \/ Release(i) \/ Finish(i)
      /\ ~\E i \in Instance : Stop(i) \/ Crash(i) \/ Disconnect(i) \/ Reconnect(i)
  BY DEF CallFails, Release, Finish, Stop, Crash, Disconnect, Reconnect
<1>2. ASSUME NEW i \in Instance, SetNX(i) \/ Renew(i)
      PROVE  /\ UNCHANGED <<conn, errors, sched>>
             /\ pc'[k] \notin {"release", "released"}
  BY <1>2 DEF SetNX, Renew, Grant, Owns
<1>3. ASSUME NEW i \in Instance, Reply(i) \/ Start(i)
      PROVE  /\ UNCHANGED conn /\ errors'[k] = 0
             /\ pc'[k] \notin {"release", "released"}
             /\ sched[k] = "running" => sched'[k] # "stopped"
  <2>1. CASE Reply(i)
    <3>1. /\ UNCHANGED conn /\ errors'[k] = 0
          /\ pc'[k] \notin {"release", "released"}
      BY <2>1 DEF Reply, Sleep
    <3>2. QED BY <2>1, <3>1 DEF Reply, Lead, StandBy
  <2>2. CASE Start(i)
    BY <2>2 DEF Start
  <2>3. QED BY <1>3, <2>1, <2>2
<1>4. CASE Tick \/ UNCHANGED vars
  BY <1>4 DEF Tick, vars, Running
<1>5. Running(k) => sched'[k] # "paused"
  BY OnlyFailuresDemote
<1>6. CASE \E i \in Instance : SetNX(i) \/ Renew(i)
  BY <1>2, <1>6 DEF Running
<1>7. CASE \E i \in Instance : Reply(i) \/ Start(i)
  BY <1>3, <1>5, <1>7 DEF Running
<1>8. QED
  BY <1>1, <1>4, <1>6, <1>7 DEF Next, Step, Environment

LEMMA FaultsStay ==
    ASSUME TypeOK, [Next]_vars, faults' = 0
    PROVE  faults = 0
  BY DEF TypeOK, Next, Step, Environment, SetNX, Renew, Reply, CallFails, Release,
         Finish, Start, Stop, Crash, Disconnect, Reconnect, Tick, vars

LEMMA CalmStep ==
    HATypeInv /\ LeaderInv /\ LeaderInv' /\ CalmInv /\ [HANext]_haVars => CalmInv'
<1> SUFFICES ASSUME HATypeInv, LeaderInv, LeaderInv', CalmInv, [HANext]_haVars,
                    faults' = 0, NEW k \in Instance
             PROVE  CalmAt(k)'
  BY DEF CalmInv
<1>1. [Next]_vars /\ faults = 0
  BY ElectionStep, FaultsStay DEF HATypeInv
<1>2. \A i \in Instance : CalmAt(i)
  BY <1>1 DEF CalmInv
<1>3. /\ conn'[k] /\ errors'[k] = 0 /\ pc'[k] \notin {"release", "released"}
      /\ Running(k) => Running(k)'
  BY <1>1, <1>2, CalmElection
<1>4. Executing(k)' => Running(k)
  <2>1. ASSUME NEW i \in Instance, Fire(i) PROVE Executing(k)' => Running(k)
    <3>1. run' = run
      BY <2>1 DEF Fire, notifierVars
    <3>2. QED BY <2>1, <3>1, <1>2 DEF Fire, Schedules, CalmAt, Executing, Busy
  <2>2. ASSUME NEW i \in Instance, Probed(i) PROVE Executing(k)' => Running(k)
    <3>1. i \in probing /\ probing' = probing \ {i} /\ \A j \in Instance \ {i} : run'[j] = run[j]
      BY <2>2, BeginMoves DEF Probed, HATypeInv
    <3>2. QED BY <3>1, <1>2 DEF CalmAt, Executing, Busy
  <2>3. ASSUME NEW i \in Instance, Notify(i) \/ NotifyRaises(i)
        PROVE  Executing(k)' => Running(k)
    <3>1. probing' = probing /\ Busy(i) /\ \A j \in Instance \ {i} : run'[j] = run[j]
      BY <2>3, CallMoves DEF Notify, NotifyRaises, HATypeInv
    <3>2. QED BY <3>1, <1>2 DEF CalmAt, Executing, Busy
  <2>4. ASSUME NEW i \in Instance, Exit(i) \/ Die(i) PROVE Executing(k)' => Running(k)
    <3>1. EndRun(i)
      BY <2>4 DEF Exit, Die
    <3>2. QED BY <3>1, <1>2, EndRunMoves DEF CalmAt, Executing, Busy, HATypeInv
  <2>5. ASSUME NEW i \in Instance, Round(i) \/ Happens(i)
        PROVE  Executing(k)' => Running(k)
    <3>1. UNCHANGED <<run, probing>>
      BY <2>5 DEF Round, Happens, notifierVars
    <3>2. QED BY <3>1, <1>2 DEF CalmAt, Executing, Busy
  <2>6. CASE TimePasses \/ ServiceChanges \/ UNCHANGED haVars
    <3>1. UNCHANGED <<run, probing>>
      BY <2>6 DEF TimePasses, ServiceChanges, N!HealthChange, haVars, notifierVars
    <3>2. QED BY <3>1, <1>2 DEF CalmAt, Executing, Busy
  <2>7. QED BY <2>1, <2>2, <2>3, <2>4, <2>5, <2>6 DEF HANext
<1>5. QED BY <1>3, <1>4 DEF CalmAt

\* Two replicas that run their schedulers in the calm would own one key.
LEMMA CalmIsExclusive ==
    ASSUME RoomToRenew
    PROVE  LeaderInv /\ CalmInv => NoOverlapWithoutFault
<1> SUFFICES ASSUME LeaderInv, CalmInv, faults = 0,
                    NEW i \in Instance, NEW j \in Instance,
                    Executing(i), Executing(j)
             PROVE  i = j
  BY DEF NoOverlapWithoutFault, Overlap, LeaderInv, TypeOK
<1>1. ASSUME NEW k \in Instance, Executing(k) PROVE holder = k
  <2>1. Running(k) /\ errors[k] = 0 /\ pc[k] \notin {"release", "released"}
    BY <1>1 DEF CalmInv, CalmAt
  <2>2. InLoop(k)
    BY <2>1 DEF LeaderInv, OffInv, TypeOK, PC, InLoop, Running
  <2>3. wasLeader[k]
    BY <2>1, <2>2 DEF LeaderInv, SchedInv
  <2>4. QED BY <2>1, <2>2, <2>3, LeaderOwns DEF LeaderInv
<1>2. QED BY <1>1

\* Until the first crash, shutdown or disconnection at most one replica checks the
\* service at any time (src/README.md:393-395), whichever of them the lock was
\* given to, provided that a late round still renews the lease in time.
THEOREM CalmChecksOnce ==
    ASSUME RoomToRenew
    PROVE  HASpec => []NoOverlapWithoutFault
<1>1. HAInit => HATypeInv /\ LeaderInv /\ CalmInv
  BY HATypeInit, LeaderInit, CalmInit DEF HAInit
<1>2. LeaderInv /\ [HANext]_haVars => LeaderInv'
  BY ElectionStep, LeaderStep
<1>3. LeaderInv /\ CalmInv => NoOverlapWithoutFault
  BY CalmIsExclusive
<1>4. QED
  BY <1>1, <1>2, <1>3, HATypeStep, CalmStep, PTL DEF HASpec

-----------------------------------------------------------------------------
(* What Redis says and what was announced, across replicas.                *)

Idle == \A i \in Instance : ~Busy(i)

\* Between two calls the providers that work know what the state key says.
AllKnow == ~torn => \A p \in P!Reliable : told[p] = P!Norm(state)

\* AgreeInv of the notifier, for the replica whose turn it is: as long as no two
\* calls met there is at most one in progress, and what it read is still true.
HandOver ==
    ~overlapped =>
        /\ \A i, j \in Instance : (Busy(i) /\ Busy(j)) => i = j
        /\ \A i \in Instance : Busy(i) => P!RunInv(i)
        /\ Idle => AllKnow

LEMMA HandOverInit == HAInit => HandOver
<1> SUFFICES ASSUME HAInit PROVE HandOver
  OBVIOUS
<1>1. \A i \in Instance : ~Busy(i)
  BY DEF HAInit, N!Init, Busy
<1>2. AllKnow
  BY DEF HAInit, N!Init, AllKnow, N!Provider, P!Provider, P!Reliable, P!Norm
<1>3. QED BY <1>1, <1>2 DEF HandOver

\* A call that is about to begin finds the state that RunInv asks for.
LEMMA IdleRun ==
    ASSUME P!TypeInv, AllKnow, NEW i \in Instance, ~Busy(i)
    PROVE  P!RunInv(i)
<1>1. run[i] = "idle" /\ prov[i] = 1
  BY DEF Busy, P!TypeInv, P!ProvInv
<1>2. \A p \in P!Reliable : p \in Int /\ p >= 1
  BY NotifierConstants DEF P!NotifierAssumption, P!Reliable, P!Provider
<1>3. QED
  BY <1>1, <1>2 DEF P!RunInv, AllKnow

\* A call that ends leaves it so.
LEMMA RunIdle ==
    ASSUME P!TypeInv, NEW i \in Instance, P!RunInv(i), ~Busy(i)
    PROVE  AllKnow
<1>1. prov[i] = 1
  BY DEF Busy, P!TypeInv, P!ProvInv
<1>2. \A p \in P!Reliable : p \in Int /\ p >= 1
  BY NotifierConstants DEF P!NotifierAssumption, P!Reliable, P!Provider
<1>3. QED
  BY <1>1, <1>2 DEF P!RunInv, AllKnow

LEMMA RunIdleNext ==
    P!TypeInv' => \A i \in Instance : (P!RunInv(i) /\ ~Busy(i))' => AllKnow'
<1>1. P!TypeInv => \A i \in Instance : (P!RunInv(i) /\ ~Busy(i)) => AllKnow
  BY RunIdle
<1>2. (P!TypeInv => \A i \in Instance : (P!RunInv(i) /\ ~Busy(i)) => AllKnow)'
  BY <1>1, PTL
<1>3. QED BY <1>2

\* A step of the only call there is.
Alone(i) ==
    /\ P!RunInv(i)
    /\ P!Step(i) \/ P!Abort(i)
    /\ \A k \in Instance \ {i} : ~Busy(k) /\ run'[k] = run[k]

alertVars == <<run, cur, conf, prov, state, fails, told, torn>>

\* Two calls that meet are noticed when the second begins.
LEMMA MeetingIsNoted ==
    ASSUME NEW i \in Instance, NEW j \in Instance, i # j,
           \A k \in Instance : Busy(k) <=> k \in {i, j}
    PROVE  Cardinality(Notifying) > 1
<1>1. Notifying = {i} \union {j}
  BY DEF Notifying
<1>2. IsFiniteSet({i}) /\ Cardinality({i}) = 1
  BY FS_Singleton
<1>3. Cardinality({i} \union {j}) = 2
  BY <1>2, FS_AddElement
<1>4. QED BY <1>1, <1>3

LEMMA MeetingIsNotedNext ==
    \A i, j \in Instance :
        (i # j /\ \A k \in Instance : Busy(k)' <=> k \in {i, j})
            => Cardinality(Notifying') > 1
<1>1. \A i, j \in Instance :
        (i # j /\ \A k \in Instance : Busy(k) <=> k \in {i, j})
            => Cardinality(Notifying) > 1
  BY MeetingIsNoted
<1>2. (\A i, j \in Instance :
        (i # j /\ \A k \in Instance : Busy(k) <=> k \in {i, j})
            => Cardinality(Notifying) > 1)'
  BY <1>1, PTL
<1>3. QED BY <1>2

\* Until two calls meet, a step is one of a call that is alone or none of a call.
LEMMA OneCallAtATime ==
    HATypeInv /\ HandOver /\ [HANext]_haVars /\ ~overlapped' =>
        ~overlapped /\ (UNCHANGED alertVars \/ \E i \in Instance : Alone(i))
<1> SUFFICES ASSUME HATypeInv, HandOver, [HANext]_haVars, ~overlapped'
             PROVE  ~overlapped /\ (UNCHANGED alertVars \/ \E i \in Instance : Alone(i))
  OBVIOUS
<1> USE DEF HATypeInv
<1>1. ASSUME NEW i \in Instance, Probed(i) PROVE ~overlapped /\ Alone(i)
  <2>1. N!Begin(i) /\ NoteOverlap
    BY <1>1 DEF Probed
  <2>2. ~overlapped /\ ~(Cardinality(Notifying') > 1)
    BY <2>1, Zenon DEF NoteOverlap
  <2>3. ~Busy(i) /\ Busy(i)' /\ \A k \in Instance \ {i} : run'[k] = run[k]
    BY <2>1, BeginMoves
  <2>4. ASSUME NEW j \in Instance, Busy(j) PROVE FALSE
    <3>1. i # j /\ \A k \in Instance : Busy(k)' <=> k \in {i, j}
      BY <2>2, <2>3, <2>4 DEF HandOver, Busy
    <3>2. QED BY <2>2, <3>1, MeetingIsNotedNext
  <2>5. P!RunInv(i)
    BY <2>2, <2>3, <2>4, IdleRun DEF HandOver, Idle
  <2>6. P!Step(i)
    BY <2>1, SameSteps DEF P!Step
  <2>7. QED BY <2>2, <2>3, <2>4, <2>5, <2>6 DEF Alone
<1>2. ASSUME NEW i \in Instance, UNCHANGED overlapped,
             \/ N!GetState(i) \/ N!DeleteFails(i) \/ N!IncrFails(i)
             \/ N!Deliver(i) \/ N!SendFails(i) \/ N!SetState(i) \/ N!Abort(i)
      PROVE  ~overlapped /\ Alone(i)
  <2>1. Busy(i) /\ \A k \in Instance \ {i} : run'[k] = run[k]
    BY <1>2, CallMoves
  <2>2. ~overlapped /\ P!RunInv(i) /\ \A k \in Instance \ {i} : ~Busy(k)
    BY <1>2, <2>1 DEF HandOver
  <2>3. P!Step(i) \/ P!Abort(i)
    BY <1>2, SameSteps
  <2>4. QED BY <2>1, <2>2, <2>3 DEF Alone
<1>3. ASSUME NEW i \in Instance, Notify(i) \/ NotifyRaises(i)
      PROVE  ~overlapped /\ Alone(i)
  BY <1>2, <1>3 DEF Notify, NotifyRaises
<1>4. ASSUME UNCHANGED <<notifierVars, overlapped>>
      PROVE  ~overlapped /\ UNCHANGED alertVars
  BY <1>4 DEF notifierVars, alertVars
<1>5. ASSUME NEW i \in Instance, Exit(i) \/ Die(i)
      PROVE  ~overlapped /\ (UNCHANGED alertVars \/ Alone(i))
  BY <1>2, <1>4, <1>5 DEF Exit, Die, EndRun
<1>6. ASSUME NEW i \in Instance, Fire(i) \/ Round(i) \/ Happens(i)
      PROVE  ~overlapped /\ UNCHANGED alertVars
  BY <1>4, <1>6 DEF Fire, Round, Happens
<1>7. CASE TimePasses \/ UNCHANGED haVars
  BY <1>4, <1>7 DEF TimePasses, haVars
<1>8. CASE ServiceChanges
  BY <1>8 DEF ServiceChanges, N!HealthChange, alertVars
<1>9. QED
  BY <1>1, <1>3, <1>5, <1>6, <1>7, <1>8 DEF HANext

LEMMA HandOverStep ==
    HATypeInv /\ HATypeInv' /\ HandOver /\ [HANext]_haVars => HandOver'
<1> SUFFICES ASSUME HATypeInv, HATypeInv', HandOver, [HANext]_haVars, ~overlapped'
             PROVE  HandOver'
  BY DEF HandOver
<1>1. ~overlapped /\ (UNCHANGED alertVars \/ \E i \in Instance : Alone(i))
  BY OneCallAtATime
<1>2. CASE UNCHANGED alertVars
  BY <1>1, <1>2 DEF alertVars, HandOver, Idle, AllKnow, Busy, P!RunInv, P!Norm
<1>3. ASSUME NEW i \in Instance, Alone(i) PROVE HandOver'
  <2>1. P!RunInv(i)'
    BY <1>3, P!RunStep, NotifierConstants DEF Alone, HATypeInv
  <2>2. \A k \in Instance \ {i} : ~Busy(k)'
    BY <1>3 DEF Alone, Busy
  <2>3. Idle' => AllKnow'
    BY <2>1, RunIdleNext DEF Idle, HATypeInv
  <2>4. QED
    BY <2>1, <2>2, <2>3 DEF HandOver
<1>4. QED BY <1>1, <1>2, <1>3

\* The replicas hand the alert state over: whoever led, died or was cut off before,
\* between two calls the providers that work last delivered what Redis holds, as
\* long as no two calls met and no broadcast was interrupted.
THEOREM AlertStateIsHandedOver == HASpec => []ToldAcrossReplicas
<1>1. HAInit => HATypeInv /\ HandOver
  BY HATypeInit, HandOverInit
<1>2. HATypeInv /\ HandOver => ToldAcrossReplicas
  BY DEF HandOver, Idle, AllKnow, ToldAcrossReplicas, Notifying, N!Reliable, P!Reliable,
         N!Provider, P!Provider, N!Norm, P!Norm
<1>3. QED
  BY <1>1, <1>2, HATypeStep, HandOverStep, PTL DEF HASpec

-----------------------------------------------------------------------------
(* The replicas together implement the contract of the notifier.           *)

LEMMA SameAnnounced == N!announced = P!announced /\ N!Norm(state) = P!Norm(state)
  BY DEF N!announced, P!announced, N!Announcing, P!Announcing, N!Norm, P!Norm

LEMMA SameContract ==
    [P!Contract!ContractNext]_(P!Contract!contractVars)
        => [N!Contract!ContractNext]_(N!Contract!contractVars)
<1>1. (N!announced = P!announced /\ N!Norm(state) = P!Norm(state))'
  BY SameAnnounced, PTL
<1>2. N!Threshold = P!Threshold
  BY DEF N!Threshold, P!Threshold, N!AtLeastOne, P!AtLeastOne
<1>3. P!Contract!Unhealthy = N!Contract!Unhealthy
  BY DEF P!Contract!Unhealthy, N!Contract!Unhealthy
<1>4. QED
  BY <1>1, <1>2, <1>3, SameAnnounced
     DEF P!Contract!ContractNext, N!Contract!ContractNext,
         P!Contract!contractVars, N!Contract!contractVars,
         P!Contract!Healthy, N!Contract!Healthy, P!Contract!Failing, N!Contract!Failing,
         P!Contract!Keep, N!Contract!Keep, P!Contract!TakeBack, N!Contract!TakeBack

LEMMA HandOverImplements ==
    HATypeInv /\ HandOver /\ [HANext]_haVars =>
        overlapped' \/ [N!Contract!ContractNext]_(N!Contract!contractVars)
<1> SUFFICES ASSUME HATypeInv, HandOver, [HANext]_haVars, ~overlapped'
             PROVE  [P!Contract!ContractNext]_(P!Contract!contractVars)
  BY SameContract
<1>1. CASE UNCHANGED alertVars
  BY <1>1 DEF alertVars, P!Contract!contractVars, P!announced, P!Announcing, P!Norm
<1>2. ASSUME NEW i \in Instance, Alone(i)
      PROVE  [P!Contract!ContractNext]_(P!Contract!contractVars)
  <2>1. P!Announcing \subseteq {i} /\ P!Announcing' \subseteq {i}
    BY <1>2 DEF Alone, P!Announcing, Busy
  <2>2. QED
    BY <1>2, <2>1, P!RunImplements, NotifierConstants DEF Alone, HATypeInv
<1>3. QED
  BY <1>1, <1>2, OneCallAtATime

\* To the operators the replicas are one notifier: until two calls meet, each step of
\* any replica is one step of the contract or none, whoever counted the failures
\* before and whoever died in the middle.
THEOREM ReplicasKeepContract == HASpec => KeepsContract
<1>1. HAInit => HATypeInv /\ HandOver
  BY HATypeInit, HandOverInit
<1>2. QED
  BY <1>1, HATypeStep, HandOverStep, HandOverImplements, PTL DEF HASpec, KeepsContract

-----------------------------------------------------------------------------
(* Together: in the calm no two calls meet, so nothing is left to assume.  *)

CallsApart == faults = 0 => ~overlapped

LEMMA CallsApartStep ==
    ASSUME RoomToRenew
    PROVE  HATypeInv /\ HATypeInv' /\ LeaderInv' /\ CalmInv' /\ CallsApart /\ [HANext]_haVars
             => CallsApart'
<1> SUFFICES ASSUME HATypeInv, HATypeInv', LeaderInv', CalmInv', CallsApart, [HANext]_haVars,
                    faults' = 0
             PROVE  ~overlapped'
  BY DEF CallsApart
<1>1. ~overlapped
  BY ElectionStep, FaultsStay DEF CallsApart, HATypeInv
<1>2. ASSUME NEW i \in Instance, Probed(i) PROVE ~overlapped'
  <2>1. N!Begin(i) /\ NoteOverlap
    BY <1>2 DEF Probed
  <2>2. (LeaderInv /\ CalmInv => NoOverlapWithoutFault)'
    BY CalmIsExclusive, PTL
  <2>3. \A j, k \in Instance : (Busy(j)' /\ Busy(k)') => j = k
    BY <2>2 DEF NoOverlapWithoutFault, Overlap, Executing, LeaderInv, TypeOK
  <2>4. Busy(i)'
    BY <2>1, BeginMoves DEF HATypeInv
  <2>5. Notifying' = {i}
    BY <2>3, <2>4 DEF Notifying
  <2>6. ~(Cardinality(Notifying') > 1)
    BY <2>5, FS_Singleton
  <2>7. QED BY <1>1, <2>1, <2>6, Zenon DEF NoteOverlap
<1>3. (\A i \in Instance : ~Probed(i)) => UNCHANGED overlapped
  BY DEF HANext, haVars, Fire, Notify, NotifyRaises, Round, Happens, Exit, Die, EndRun,
         TimePasses, ServiceChanges
<1>4. QED BY <1>1, <1>2, <1>3

\* Without a fault the replicas implement the contract of the notifier with no
\* proviso (notifier.py:62-84): whichever of them the lock was given to keeps it.
THEOREM CalmKeepsContract ==
    ASSUME RoomToRenew
    PROVE  HASpec =>
               /\ [](faults = 0 => ~overlapped)
               /\ [][faults' = 0 => [N!Contract!ContractNext]_(N!Contract!contractVars)]_haVars
<1>1. HAInit => HATypeInv /\ LeaderInv /\ CalmInv /\ HandOver /\ CallsApart
  BY HATypeInit, LeaderInit, CalmInit, HandOverInit DEF HAInit, CallsApart
<1>2. LeaderInv /\ [HANext]_haVars => LeaderInv'
  BY ElectionStep, LeaderStep
<1>3. CallsApart <=> (faults = 0 => ~overlapped)
  BY DEF CallsApart
<1>4. CallsApart' <=> (faults' = 0 => ~overlapped')
  BY DEF CallsApart
<1>5. QED
  BY <1>1, <1>2, <1>3, <1>4, HATypeStep, CalmStep, HandOverStep, CallsApartStep,
     HandOverImplements, PTL DEF HASpec
=============================================================================
