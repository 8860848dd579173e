---------------------------- MODULE LeaderElection ----------------------------
(***************************************************************************)
(* The replicas of the monitor compete for one Redis lock (leader.py); the *)
(* leadership loop of each (_leadership_loop in main.py) resumes its       *)
(* scheduler while it holds the lock and pauses it otherwise.  Time is     *)
(* discrete: Tick advances every timer, and the expiry of the lock, by one *)
(* second.                                                                 *)
(*                                                                         *)
(* A round of the loop is SET NX EX, then the owner-checked renewal if the *)
(* key exists, then the reply.  A replica can lose Redis between any two   *)
(* of these.                                                               *)
(*                                                                         *)
(* "age", "wait" and "faults" are history: the code does not have them.    *)
(***************************************************************************)
EXTENDS Integers

CONSTANTS
    Instance,     \* the replicas
    NoOne,        \* value of the lock when the key is absent
    Gone,         \* value of the lock when its owner no longer exists
    LeaderTTL,    \* settings.leader_ttl in seconds, any integer
    Delay,        \* seconds a round may be late or take, in all (bound)
    MaxFaults     \* crashes, disconnections and shutdowns (bound)

AtLeastOne(n) == IF n < 1 THEN 1 ELSE n

\* Seeded mistake: one renewal per TTL.
FullInterval == AtLeastOne(LeaderTTL)

LockTTL  == AtLeastOne(LeaderTTL)            \* LeaderLock._ttl
Interval == AtLeastOne(LeaderTTL \div 2)     \* of the leadership loop

\* The failures in a row after which the leader stands by: the least k with
\* k * Interval >= LeaderTTL, as in the hold condition of the loop.
HoldRounds ==
    IF LeaderTTL <= Interval THEN 1 ELSE IF LeaderTTL <= 2 * Interval THEN 2 ELSE 3

\* How long a scheduler may run on a lease that is not renewed.
MaxHold == HoldRounds * Interval + (HoldRounds + 1) * Delay

\* How long replicas that reach Redis may be without a running scheduler: a
\* late round is refused in the last second of the lease, the next is as late,
\* and then another replica takes the lock and its answer is late.
MaxWait == LockTTL - 1 + Interval + 3 * Delay

AgeCap  == LockTTL + MaxHold + 1             \* also: "runs on no lease"
WaitCap == MaxWait + 1

ASSUME LeaderAssumption ==
    /\ NoOne \notin Instance
    /\ Gone \notin Instance
    /\ NoOne # Gone
    /\ LeaderTTL \in Int
    /\ Delay \in Nat
    /\ MaxFaults \in Nat

VARIABLES
    holder,     \* Redis monitor:leader: a replica, NoOne or Gone
    ttl,        \* seconds until the key expires, 0 when it is absent
    pc,         \* pc[i]: the await replica i is at
    timer,      \* timer[i]: seconds until the loop of i wakes; late below 0
    errors,     \* errors[i]: failed rounds in a row, 3 for 3 or more
    wasLeader,  \* was_leader of the loop
    sched,      \* the scheduler of i: stopped, paused or running
    conn,       \* conn[i]: i can reach Redis
    age,        \* age[i]: seconds since Redis last granted i the lease
    wait,       \* wait[i]: seconds i has been ready with no running scheduler
    faults      \* faults so far

lockVars == <<holder, ttl>>
loopVars == <<pc, timer, errors, wasLeader, sched>>
vars == <<holder, ttl, pc, timer, errors, wasLeader, sched, conn, age, wait, faults>>

\* "sleep": between two rounds.  "eval": SET NX was refused.  "granted" and
\* "denied": the answer of the round is on its way.  "release", "released":
\* the shutdown of the lifespan, before and after the lock is given up.
LoopPC == {"sleep", "eval", "granted", "denied"}
PC == LoopPC \union {"off", "release", "released"}

TypeOK ==
    /\ holder \in Instance \union {NoOne, Gone}
    /\ ttl \in 0..LockTTL
    /\ pc \in [Instance -> PC]
    /\ timer \in [Instance -> (-Delay)..Interval]
    /\ errors \in [Instance -> 0..3]
    /\ wasLeader \in [Instance -> BOOLEAN]
    /\ sched \in [Instance -> {"stopped", "paused", "running"}]
    /\ conn \in [Instance -> BOOLEAN]
    /\ age \in [Instance -> 0..AgeCap]
    /\ wait \in [Instance -> 0..WaitCap]
    /\ faults \in 0..MaxFaults

Init ==
    /\ holder = NoOne
    /\ ttl = 0
    /\ pc = [i \in Instance |-> "off"]
    /\ timer = [i \in Instance |-> 0]
    /\ errors = [i \in Instance |-> 0]
    /\ wasLeader = [i \in Instance |-> FALSE]
    /\ sched = [i \in Instance |-> "stopped"]
    /\ conn = [i \in Instance |-> TRUE]
    /\ age = [i \in Instance |-> AgeCap]
    /\ wait = [i \in Instance |-> 0]
    /\ faults = 0

InLoop(i)  == pc[i] \in LoopPC
Running(i) == sched[i] = "running"
Ready(i)   == InLoop(i) /\ conn[i]

-----------------------------------------------------------------------------
(* The lock (leader.py).                                                   *)

Grant(i) ==
    /\ holder' = i
    /\ ttl' = LockTTL
    /\ age' = [age EXCEPT ![i] = 0]
    /\ pc' = [pc EXCEPT ![i] = "granted"]

\* acquire_or_renew, first await: SET key id NX EX ttl.
SetNX(i) ==
    /\ pc[i] = "sleep"
    /\ timer[i] <= 0
    /\ conn[i]
    /\ \/ holder = NoOne /\ Grant(i)
       \/ /\ holder # NoOne
          /\ pc' = [pc EXCEPT ![i] = "eval"]
          /\ UNCHANGED <<lockVars, age>>
    /\ UNCHANGED <<timer, errors, wasLeader, sched, conn, wait, faults>>

\* Seeded mistake: the renewal does not compare the owner.
OwnsAny(i) == holder # NoOne

Owns(i) == holder = i

\* acquire_or_renew, second await: the Lua compare-and-expire.
Renew(i) ==
    /\ pc[i] = "eval"
    /\ conn[i]
    /\ \/ Owns(i) /\ Grant(i)
       \/ /\ ~Owns(i)
          /\ pc' = [pc EXCEPT ![i] = "denied"]
          /\ UNCHANGED <<lockVars, age>>
    /\ UNCHANGED <<timer, errors, wasLeader, sched, conn, wait, faults>>

-----------------------------------------------------------------------------
(* The loop (_leadership_loop in main.py).                                 *)

\* Seeded mistake: the loop sleeps a whole TTL.
SleepTTL(i) ==
    /\ pc' = [pc EXCEPT ![i] = "sleep"]
    /\ timer' = [timer EXCEPT ![i] = LockTTL]

Sleep(i) ==
    /\ pc' = [pc EXCEPT ![i] = "sleep"]
    /\ timer' = [timer EXCEPT ![i] = Interval]

\* is_leader is known: resume or pause on a change, remember it.
Lead(i) ==
    /\ sched' = [sched EXCEPT ![i] = IF wasLeader[i] THEN @ ELSE "running"]
    /\ wasLeader' = [wasLeader EXCEPT ![i] = TRUE]
    /\ UNCHANGED age

\* Seeded mistakes: the loop gives up without pausing the scheduler, or pauses
\* it without remembering that it did.
NoPause(i) ==
    /\ wasLeader' = [wasLeader EXCEPT ![i] = FALSE]
    /\ age' = [age EXCEPT ![i] = AgeCap]
    /\ UNCHANGED sched

ForgetPause(i) ==
    /\ sched' = [sched EXCEPT ![i] = IF wasLeader[i] THEN "paused" ELSE @]
    /\ age' = [age EXCEPT ![i] = AgeCap]
    /\ UNCHANGED wasLeader

StandBy(i) ==
    /\ sched' = [sched EXCEPT ![i] = IF wasLeader[i] THEN "paused" ELSE @]
    /\ wasLeader' = [wasLeader EXCEPT ![i] = FALSE]
    /\ age' = [age EXCEPT ![i] = AgeCap]

\* acquire_or_renew returned.
Reply(i) ==
    /\ conn[i]
    /\ \/ pc[i] = "granted" /\ Lead(i)
       \/ pc[i] = "denied" /\ StandBy(i)
    /\ errors' = [errors EXCEPT ![i] = 0]
    /\ Sleep(i)
    /\ UNCHANGED <<lockVars, conn, wait, faults>>

\* Seeded mistake: one round more than the hold condition allows.
HoldsLonger(i, n) == wasLeader[i] /\ n * Interval <= LeaderTTL

Holds(i, n) == wasLeader[i] /\ n * Interval < LeaderTTL

\* acquire_or_renew raised, at the call or while waiting for its answer: hold
\* leadership through a brief blip, then stand by.
CallFails(i) ==
    /\ InLoop(i)
    /\ pc[i] = "sleep" => timer[i] <= 0
    /\ ~conn[i]
    /\ errors' = [errors EXCEPT ![i] = IF @ < 3 THEN @ + 1 ELSE 3]
    /\ IF Holds(i, errors'[i]) THEN UNCHANGED <<wasLeader, sched, age>>
                               ELSE StandBy(i)
    /\ Sleep(i)
    /\ UNCHANGED <<lockVars, conn, wait, faults>>

-----------------------------------------------------------------------------
(* The life of a replica (lifespan in main.py).                            *)

\* Start-up with HA enabled: scheduler.start(paused=True), a fresh instance id,
\* and the first round of the loop at once.
Start(i) ==
    /\ pc[i] = "off"
    /\ pc' = [pc EXCEPT ![i] = "sleep"]
    /\ timer' = [timer EXCEPT ![i] = 0]
    /\ errors' = [errors EXCEPT ![i] = 0]
    /\ wasLeader' = [wasLeader EXCEPT ![i] = FALSE]
    /\ sched' = [sched EXCEPT ![i] = "paused"]
    /\ UNCHANGED <<lockVars, conn, age, wait, faults>>

\* Shutdown: the loop is cancelled at whichever await it is ...
Stop(i) ==
    /\ InLoop(i)
    /\ faults < MaxFaults
    /\ faults' = faults + 1
    /\ pc' = [pc EXCEPT ![i] = "release"]
    /\ timer' = [timer EXCEPT ![i] = 0]
    /\ wait' = [j \in Instance |-> 0]
    /\ UNCHANGED <<lockVars, errors, wasLeader, sched, conn, age>>

\* ... then the lock is released, by the Lua compare-and-delete ...
Release(i) ==
    /\ pc[i] = "release"
    /\ conn[i]
    /\ IF Owns(i) THEN holder' = NoOne /\ ttl' = 0 ELSE UNCHANGED lockVars
    /\ pc' = [pc EXCEPT ![i] = "released"]
    /\ age' = [age EXCEPT ![i] = AgeCap]
    /\ UNCHANGED <<timer, errors, wasLeader, sched, conn, wait, faults>>

\* The process is no more.  A lock it left behind has no owner: the next start
\* has another instance id.
Vanish(i) ==
    /\ holder' = IF holder = i THEN Gone ELSE holder
    /\ pc' = [pc EXCEPT ![i] = "off"]
    /\ timer' = [timer EXCEPT ![i] = 0]
    /\ errors' = [errors EXCEPT ![i] = 0]
    /\ wasLeader' = [wasLeader EXCEPT ![i] = FALSE]
    /\ sched' = [sched EXCEPT ![i] = "stopped"]
    /\ age' = [age EXCEPT ![i] = AgeCap]
    /\ UNCHANGED <<ttl, conn>>

\* ... and only then the scheduler stops.  A release that raises ends the
\* lifespan, and with it the process, at once.
Finish(i) ==
    /\ \/ pc[i] = "released"
       \/ pc[i] = "release" /\ ~conn[i]
    /\ Vanish(i)
    /\ UNCHANGED <<wait, faults>>

Crash(i) ==
    /\ pc[i] # "off"
    /\ faults < MaxFaults
    /\ faults' = faults + 1
    /\ wait' = [j \in Instance |-> 0]
    /\ Vanish(i)

-----------------------------------------------------------------------------
(* The network and the clock.                                              *)

Disconnect(i) ==
    /\ conn[i]
    /\ faults < MaxFaults
    /\ faults' = faults + 1
    /\ conn' = [conn EXCEPT ![i] = FALSE]
    /\ wait' = [j \in Instance |-> 0]
    /\ UNCHANGED <<lockVars, loopVars, age>>

Reconnect(i) ==
    /\ ~conn[i]
    /\ conn' = [conn EXCEPT ![i] = TRUE]
    /\ UNCHANGED <<lockVars, loopVars, age, wait, faults>>

\* No round, and no shutdown, is more than Delay seconds late.
OnTime(i) == pc[i] = "off" \/ timer[i] > -Delay

Waiting(i) == Ready(i) /\ \A j \in Instance : ~Running(j)

Tick ==
    /\ \A i \in Instance : OnTime(i)
    /\ timer' = [i \in Instance |-> IF pc[i] = "off" THEN timer[i] ELSE timer[i] - 1]
    /\ ttl' = IF ttl > 0 THEN ttl - 1 ELSE 0
    /\ holder' = IF ttl' = 0 THEN NoOne ELSE holder
    /\ age' = [i \in Instance |-> IF age[i] < AgeCap THEN age[i] + 1 ELSE AgeCap]
    /\ wait' = [i \in Instance |->
                  IF ~Waiting(i) THEN 0
                  ELSE IF wait[i] < WaitCap THEN wait[i] + 1 ELSE WaitCap]
    /\ UNCHANGED <<pc, errors, wasLeader, sched, conn, faults>>

-----------------------------------------------------------------------------

Step(i) ==
    \/ SetNX(i)
    \/ Renew(i)
    \/ Reply(i)
    \/ CallFails(i)
    \/ Release(i)
    \/ Finish(i)

Environment(i) ==
    \/ Start(i)
    \/ Stop(i)
    \/ Crash(i)
    \/ Disconnect(i)
    \/ Reconnect(i)

Next ==
    \/ \E i \in Instance : Step(i)
    \/ \E i \in Instance : Environment(i)
    \/ Tick

Spec == Init /\ [][Next]_vars

\* Time passes, and the event loop of every live replica runs: a due await is
\* resumed, and a Redis call ends in an answer or an exception.  Replicas start,
\* stop, fail and reconnect only if they happen to.
Fairness == WF_vars(Tick) /\ \A i \in Instance : WF_vars(Step(i))

FairSpec == Spec /\ Fairness

-----------------------------------------------------------------------------
(* Safety.                                                                 *)

\* No split brain on a valid lease (leader.py:9-11): of two loops that run their
\* schedulers at once, one runs on a lease that Redis has already expired.
ExclusiveLease ==
    \A i, j \in Instance :
        (i # j /\ InLoop(i) /\ InLoop(j) /\ Running(i) /\ Running(j))
            => age[i] >= LockTTL \/ age[j] >= LockTTL

\* The overlap the hold branch allows is bounded (main.py:124-132): whatever
\* fails, a scheduler runs at most MaxHold seconds past its last grant.
HoldBound ==
    \A i \in Instance : (InLoop(i) /\ Running(i)) => age[i] <= MaxHold

\* Fail-over: replicas that reach Redis are not without a running scheduler for
\* longer than the rest of the lease, one round of the loop and its delays.
TakeoverBound == \A i \in Instance : wait[i] <= MaxWait

\* The loop and its scheduler never disagree (main.py:135-141): was_leader is
\* what decides both the next resume or pause and the hold branch.
SchedulerFollowsLoop ==
    \A i \in Instance : InLoop(i) => (Running(i) <=> wasLeader[i])

\* A round may be late and slow and still renew the lease in time.
RoomToRenew == Interval + 2 * Delay < LockTTL

\* A leader that reaches Redis keeps the lease: its scheduler is paused only in
\* a round that failed or after one (main.py:118, the loop renews twice a TTL).
\* Needs RoomToRenew.
NoSpuriousStepDown ==
    [][\A i \in Instance :
         (Running(i) /\ sched'[i] = "paused") => ~conn[i] \/ errors[i] > 0]_vars

-----------------------------------------------------------------------------
(* What the documentation says, stronger than what the code does.          *)

\* "so a dead leader is replaced within one TTL" (main.py:114-115)
TakeoverWithinTTL == \A i \in Instance : wait[i] <= LockTTL

\* "hold leadership through a brief blip (up to one TTL)" (main.py:126-128)
HoldsAtMostOneTTL ==
    \A i \in Instance : (InLoop(i) /\ Running(i)) => age[i] <= LockTTL

-----------------------------------------------------------------------------
(* Liveness.                                                               *)

OneLeader ==
    \E i \in Instance : Running(i) /\ \A j \in Instance \ {i} : ~Running(j)

\* If some replica stays up and connected, then once the faults are over one
\* scheduler runs, alone and for good.  Needs RoomToRenew.
LeaderElected == (\E i \in Instance : <>[]Ready(i)) => <>[]OneLeader
=============================================================================
