------------------------- MODULE LeaderElectionProofs -------------------------
(***************************************************************************)
(* Theorems about LeaderElection, for any set of replicas, any leader_ttl, *)
(* any Delay and any number of faults.                                     *)
(***************************************************************************)
EXTENDS LeaderElection, TLAPS

-----------------------------------------------------------------------------
(* The durations.                                                          *)

\* What the proofs need of the durations.  Three rounds of the loop always
\* last at least a TTL, which is why "errors" saturates at 3.
LEMMA Durations ==
    /\ LockTTL \in Nat /\ LockTTL >= 1
    /\ Interval \in Nat /\ Interval >= 1
    /\ 3 * Interval >= LeaderTTL
  BY LeaderAssumption, SMTT(30) DEF LockTTL, Interval, AtLeastOne

LEMMA HoldDurations ==
    /\ HoldRounds \in 1..3
    /\ MaxHold \in Nat
    /\ MaxWait \in Nat
    /\ AgeCap \in Nat /\ AgeCap > LockTTL
    /\ WaitCap \in Nat
<1>1. HoldRounds \in 1..3
  BY DEF HoldRounds
<1>2. MaxHold \in Nat
  <2>1. CASE HoldRounds = 1
    BY <2>1, Durations, LeaderAssumption DEF MaxHold
  <2>2. CASE HoldRounds = 2
    BY <2>2, Durations, LeaderAssumption DEF MaxHold
  <2>3. CASE HoldRounds = 3
    BY <2>3, Durations, LeaderAssumption DEF MaxHold
  <2>4. QED BY <1>1, <2>1, <2>2, <2>3
<1>3. MaxWait \in Nat
  BY Durations, LeaderAssumption DEF MaxWait
<1>4. QED
  BY <1>1, <1>2, <1>3, Durations DEF AgeCap, WaitCap

-----------------------------------------------------------------------------
(* Types.                                                                  *)

LEMMA TypeInit == Init => TypeOK
  BY LeaderAssumption, Durations, HoldDurations DEF Init, TypeOK, PC, LoopPC

\* The part of TypeOK that a change of leadership can disturb.
SchedTypeOK ==
    /\ wasLeader \in [Instance -> BOOLEAN]
    /\ sched \in [Instance -> {"stopped", "paused", "running"}]
    /\ age \in [Instance -> 0..AgeCap]

LEMMA LeadTypes ==
    ASSUME TypeOK, NEW i \in Instance, Lead(i)
    PROVE  SchedTypeOK'
<1>1. wasLeader' \in [Instance -> BOOLEAN]
  BY Zenon DEF TypeOK, Lead
<1>2. sched' \in [Instance -> {"stopped", "paused", "running"}]
  <2>1. CASE wasLeader[i]
    BY <2>1 DEF TypeOK, Lead
  <2>2. CASE ~wasLeader[i]
    BY <2>2 DEF TypeOK, Lead
  <2>3. QED BY <2>1, <2>2
<1>3. QED
  BY <1>1, <1>2 DEF TypeOK, Lead, SchedTypeOK

LEMMA StandByTypes ==
    ASSUME TypeOK, NEW i \in Instance, StandBy(i)
    PROVE  SchedTypeOK'
<1>1. wasLeader' \in [Instance -> BOOLEAN]
  BY Zenon DEF TypeOK, StandBy
<1>2. sched' \in [Instance -> {"stopped", "paused", "running"}]
  <2>1. CASE wasLeader[i]
    BY <2>1 DEF TypeOK, StandBy
  <2>2. CASE ~wasLeader[i]
    BY <2>2 DEF TypeOK, StandBy
  <2>3. QED BY <2>1, <2>2
<1>3. QED
  BY <1>1, <1>2, HoldDurations DEF TypeOK, StandBy, SchedTypeOK

LEMMA TypeStep == TypeOK /\ [Next]_vars => TypeOK'
<1> SUFFICES ASSUME TypeOK, [Next]_vars PROVE TypeOK'
  OBVIOUS
<1> USE LeaderAssumption, Durations, HoldDurations DEF TypeOK
<1>1. ASSUME NEW i \in Instance, SetNX(i) PROVE TypeOK'
  BY <1>1 DEF SetNX, Grant, lockVars, PC, LoopPC
<1>2. ASSUME NEW i \in Instance, Renew(i) PROVE TypeOK'
  BY <1>2 DEF Renew, Grant, Owns, lockVars, PC, LoopPC
<1>3. ASSUME NEW i \in Instance, Reply(i) PROVE TypeOK'
  <2>1. UNCHANGED <<holder, ttl, conn, wait, faults>>
    BY <1>3 DEF Reply, lockVars
  <2>2. SchedTypeOK'
    BY <1>3, LeadTypes, StandByTypes DEF Reply
  <2>3. pc' \in [Instance -> PC] /\ timer' \in [Instance -> (-Delay)..Interval]
    BY <1>3 DEF Reply, Sleep, PC, LoopPC
  <2>4. errors' \in [Instance -> 0..3]
    BY <1>3 DEF Reply
  <2>5. QED BY <2>1, <2>2, <2>3, <2>4 DEF SchedTypeOK
<1>4. ASSUME NEW i \in Instance, CallFails(i) PROVE TypeOK'
  <2>1. UNCHANGED <<holder, ttl, conn, wait, faults>>
    BY <1>4 DEF CallFails, lockVars
  <2>2. SchedTypeOK'
    <3>1. CASE Holds(i, errors'[i])
      BY <1>4, <3>1 DEF CallFails, SchedTypeOK
    <3>2. CASE ~Holds(i, errors'[i])
      BY <1>4, <3>2, StandByTypes DEF CallFails
    <3>3. QED BY <3>1, <3>2
  <2>3. pc' \in [Instance -> PC] /\ timer' \in [Instance -> (-Delay)..Interval]
    BY <1>4 DEF CallFails, Sleep, PC, LoopPC
  <2>4. errors' \in [Instance -> 0..3]
    BY <1>4 DEF CallFails
  <2>5. QED BY <2>1, <2>2, <2>3, <2>4 DEF SchedTypeOK
<1>5. ASSUME NEW i \in Instance, Release(i) PROVE TypeOK'
  BY <1>5 DEF Release, Owns, lockVars, PC, LoopPC
<1>6. ASSUME NEW i \in Instance, Finish(i) PROVE TypeOK'
  BY <1>6 DEF Finish, Vanish, PC, LoopPC
<1>7. ASSUME NEW i \in Instance, Start(i) PROVE TypeOK'
  BY <1>7 DEF Start, lockVars, PC, LoopPC
<1>8. ASSUME NEW i \in Instance, Stop(i) PROVE TypeOK'
  BY <1>8 DEF Stop, lockVars, PC, LoopPC
<1>9. ASSUME NEW i \in Instance, Crash(i) PROVE TypeOK'
  BY <1>9 DEF Crash, Vanish, PC, LoopPC
<1>10. ASSUME NEW i \in Instance, Disconnect(i) PROVE TypeOK'
  BY <1>10 DEF Disconnect, lockVars, loopVars
<1>11. ASSUME NEW i \in Instance, Reconnect(i) PROVE TypeOK'
  BY <1>11 DEF Reconnect, lockVars, loopVars
<1>12. CASE Tick
  BY <1>12 DEF Tick, OnTime, PC, LoopPC
<1>13. CASE UNCHANGED vars
  BY <1>13 DEF vars
<1>14. QED
  BY <1>1, <1>2, <1>3, <1>4, <1>5, <1>6, <1>7, <1>8, <1>9, <1>10, <1>11,
     <1>12, <1>13 DEF Next, Step, Environment

\* Every variable keeps its type; in particular no loop is ever later than
\* Delay, and no scheduler leaves its three states.
THEOREM TypeCorrect == Spec => []TypeOK
  BY TypeInit, TypeStep, PTL DEF Spec

-----------------------------------------------------------------------------
(* The lease.                                                              *)

\* The strengthening that makes ExclusiveLease inductive: a replica whose last
\* grant is younger than the TTL still owns the key, and the key expires exactly
\* when the grant is a TTL old.
Lease ==
    \A i \in Instance :
        age[i] < LockTTL => holder = i /\ ttl = LockTTL - age[i]

LEMMA LeaseInit == Init => Lease
  BY Durations, HoldDurations DEF Init, Lease

LEMMA LeaseStep == TypeOK /\ Lease /\ [Next]_vars => Lease'
<1> SUFFICES ASSUME TypeOK, Lease, [Next]_vars PROVE Lease'
  OBVIOUS
<1> USE LeaderAssumption, Durations, HoldDurations DEF Lease, TypeOK
<1>1. ASSUME NEW i \in Instance, SetNX(i) PROVE Lease'
  BY <1>1 DEF SetNX, Grant, lockVars
<1>2. ASSUME NEW i \in Instance, Renew(i) PROVE Lease'
  BY <1>2 DEF Renew, Grant, Owns, lockVars
<1>3. ASSUME NEW i \in Instance, Reply(i) PROVE Lease'
  BY <1>3 DEF Reply, Lead, StandBy, lockVars
<1>4. ASSUME NEW i \in Instance, CallFails(i) PROVE Lease'
  BY <1>4 DEF CallFails, StandBy, lockVars
<1>5. ASSUME NEW i \in Instance, Release(i) PROVE Lease'
  BY <1>5 DEF Release, Owns, lockVars
<1>6. ASSUME NEW i \in Instance, Vanish(i) PROVE Lease'
  BY <1>6 DEF Vanish
<1>7. ASSUME NEW i \in Instance, Environment(i) PROVE Lease'
  BY <1>6, <1>7 DEF Environment, Start, Stop, Crash, Disconnect, Reconnect, lockVars
<1>8. CASE Tick
  BY <1>8 DEF Tick
<1>9. CASE UNCHANGED vars
  BY <1>9 DEF vars
<1>10. QED
  BY <1>1, <1>2, <1>3, <1>4, <1>5, <1>6, <1>7, <1>8, <1>9 DEF Next, Step, Finish

\* No two loops run their schedulers on leases that are both still valid in
\* Redis, whatever crashes, disconnects or shuts down.
THEOREM NoSplitBrain == Spec => []ExclusiveLease
<1>1. Init => TypeOK /\ Lease
  BY TypeInit, LeaseInit
<1>2. TypeOK /\ Lease /\ [Next]_vars => (TypeOK /\ Lease)'
  BY TypeStep, LeaseStep
<1>3. TypeOK /\ Lease => ExclusiveLease
  BY Durations DEF TypeOK, Lease, ExclusiveLease
<1>4. QED
  BY <1>1, <1>2, <1>3, PTL DEF Spec

-----------------------------------------------------------------------------
(* The loop and its scheduler.                                             *)

\* SchedulerFollowsLoop with what makes it inductive: the scheduler of a loop is
\* never stopped, so "not running" is "paused".
SchedInv ==
    \A i \in Instance : InLoop(i) =>
        /\ Running(i) <=> wasLeader[i]
        /\ ~Running(i) => sched[i] = "paused"

LEMMA SchedInit == Init => SchedInv
  BY DEF Init, SchedInv, InLoop, LoopPC

LEMMA LeadFollows ==
    ASSUME TypeOK, NEW i \in Instance, Lead(i), sched[i] = "running" <=> wasLeader[i]
    PROVE  /\ wasLeader'[i] /\ sched'[i] = "running"
           /\ \A j \in Instance \ {i} :
                 wasLeader'[j] = wasLeader[j] /\ sched'[j] = sched[j]
<1>1. wasLeader'[i] /\ \A j \in Instance \ {i} : wasLeader'[j] = wasLeader[j]
  BY Zenon DEF TypeOK, Lead
<1>2. \A j \in Instance \ {i} : sched'[j] = sched[j]
  BY DEF TypeOK, Lead
<1>3. sched'[i] = "running"
  <2>1. CASE wasLeader[i]
    BY <2>1 DEF TypeOK, Lead
  <2>2. CASE ~wasLeader[i]
    BY <2>2 DEF TypeOK, Lead
  <2>3. QED BY <2>1, <2>2
<1>4. QED BY <1>1, <1>2, <1>3

LEMMA StandByFollows ==
    ASSUME TypeOK, NEW i \in Instance, StandBy(i),
           ~wasLeader[i] => sched[i] = "paused"
    PROVE  /\ ~wasLeader'[i] /\ sched'[i] = "paused"
           /\ \A j \in Instance \ {i} :
                 wasLeader'[j] = wasLeader[j] /\ sched'[j] = sched[j]
<1>1. ~wasLeader'[i] /\ \A j \in Instance \ {i} : wasLeader'[j] = wasLeader[j]
  BY Zenon DEF TypeOK, StandBy
<1>2. \A j \in Instance \ {i} : sched'[j] = sched[j]
  BY DEF TypeOK, StandBy
<1>3. sched'[i] = "paused"
  <2>1. CASE wasLeader[i]
    BY <2>1 DEF TypeOK, StandBy
  <2>2. CASE ~wasLeader[i]
    BY <2>2 DEF TypeOK, StandBy
  <2>3. QED BY <2>1, <2>2
<1>4. QED BY <1>1, <1>2, <1>3

LEMMA SchedStep == TypeOK /\ SchedInv /\ [Next]_vars => SchedInv'
<1> SUFFICES ASSUME TypeOK, SchedInv, [Next]_vars,
                    NEW k \in Instance, InLoop(k)'
             PROVE  /\ Running(k)' <=> wasLeader'[k]
                    /\ ~Running(k)' => sched'[k] = "paused"
  BY DEF SchedInv
<1> USE DEF InLoop, Running, LoopPC
<1>1. ASSUME NEW i \in Instance, SetNX(i) \/ Renew(i)
      PROVE  InLoop(k) /\ UNCHANGED <<wasLeader, sched>>
  BY <1>1 DEF SetNX, Renew, Grant, Owns, TypeOK
<1>2. ASSUME NEW i \in Instance, Reply(i)
      PROVE  /\ InLoop(i) /\ (k # i => InLoop(k))
             /\ \/ wasLeader'[i] /\ sched'[i] = "running"
                \/ ~wasLeader'[i] /\ sched'[i] = "paused"
             /\ k # i => wasLeader'[k] = wasLeader[k] /\ sched'[k] = sched[k]
  <2>1. InLoop(i) /\ (k # i => InLoop(k))
    BY <1>2 DEF Reply, Sleep, TypeOK
  <2>2. /\ sched[i] = "running" <=> wasLeader[i]
        /\ ~wasLeader[i] => sched[i] = "paused"
    BY <2>1 DEF SchedInv
  <2>3. CASE Lead(i)
    BY <2>1, <2>2, <2>3, LeadFollows
  <2>4. CASE StandBy(i)
    BY <2>1, <2>2, <2>4, StandByFollows
  <2>5. QED BY <1>2, <2>3, <2>4 DEF Reply
<1>3. ASSUME NEW i \in Instance, CallFails(i)
      PROVE  \/ InLoop(k) /\ UNCHANGED <<wasLeader, sched>>
             \/ k = i /\ ~wasLeader'[i] /\ sched'[i] = "paused"
             \/ k # i /\ InLoop(k) /\ wasLeader'[k] = wasLeader[k] /\ sched'[k] = sched[k]
  <2>1. InLoop(i) /\ (k # i => InLoop(k))
    BY <1>3 DEF CallFails, Sleep, TypeOK
  <2>2. ~wasLeader[i] => sched[i] = "paused"
    BY <2>1 DEF SchedInv
  <2>3. CASE StandBy(i)
    BY <2>1, <2>2, <2>3, StandByFollows
  <2>4. CASE UNCHANGED <<wasLeader, sched, age>>
    BY <2>1, <2>4
  <2>5. QED BY <1>3, <2>3, <2>4 DEF CallFails
<1>4. ASSUME NEW i \in Instance, Start(i)
      PROVE  \/ k = i /\ ~wasLeader'[i] /\ sched'[i] = "paused"
             \/ k # i /\ InLoop(k) /\ wasLeader'[k] = wasLeader[k] /\ sched'[k] = sched[k]
  BY <1>4, Zenon DEF Start, TypeOK
<1>5. ASSUME NEW i \in Instance, Vanish(i)
      PROVE  InLoop(k) /\ wasLeader'[k] = wasLeader[k] /\ sched'[k] = sched[k]
  <2>1. k # i
    BY <1>5 DEF Vanish, TypeOK
  <2>2. QED BY <1>5, <2>1, Zenon DEF Vanish, TypeOK
<1>6. ASSUME NEW i \in Instance, Release(i) \/ Stop(i) \/ Disconnect(i) \/ Reconnect(i)
      PROVE  InLoop(k) /\ UNCHANGED <<wasLeader, sched>>
  BY <1>6 DEF Release, Owns, Stop, Disconnect, Reconnect, loopVars, TypeOK
<1>7. CASE Tick \/ UNCHANGED vars
  BY <1>7 DEF Tick, vars, SchedInv
<1>8. CASE \E i \in Instance : Step(i)
  <2> PICK i \in Instance : Step(i)
    BY <1>8
  <2>1. CASE Reply(i)
    BY <2>1, <1>2, Zenon DEF SchedInv
  <2>2. CASE CallFails(i)
    BY <2>2, <1>3, Zenon DEF SchedInv
  <2>3. QED
    BY <1>1, <1>5, <1>6, <2>1, <2>2, Zenon DEF Step, Finish, SchedInv
<1>9. CASE \E i \in Instance : Environment(i)
  <2> PICK i \in Instance : Environment(i)
    BY <1>9
  <2>1. CASE Start(i)
    BY <2>1, <1>4, Zenon DEF SchedInv
  <2>2. QED
    BY <1>5, <1>6, <2>1, Zenon DEF Environment, Crash, SchedInv
<1>10. QED
  BY <1>7, <1>8, <1>9 DEF Next

\* A loop that thinks it leads has a running scheduler, one that does not has a
\* paused one, whatever order of failures and answers led there.
THEOREM SchedulerInStep == Spec => []SchedulerFollowsLoop
<1>1. Init => TypeOK /\ SchedInv
  BY TypeInit, SchedInit
<1>2. TypeOK /\ SchedInv /\ [Next]_vars => (TypeOK /\ SchedInv)'
  BY TypeStep, SchedStep
<1>3. SchedInv => SchedulerFollowsLoop
  BY DEF SchedInv, SchedulerFollowsLoop
<1>4. QED
  BY <1>1, <1>2, <1>3, PTL DEF Spec

-----------------------------------------------------------------------------
(* How long a scheduler runs on one lease.                                 *)

Spent(n) == n * (Interval + Delay)     \* the length of n late rounds

\* A round adds Interval + Delay, and a scheduler that still runs after n failed
\* rounds stops, at the latest, at the end of the next one.
LEMMA Rounds ==
    ASSUME NEW n \in 0..3
    PROVE  /\ Spent(n) \in Nat
           /\ n < 3 => Spent(n + 1) = Spent(n) + Interval + Delay
           /\ n < HoldRounds => Delay + Spent(n) + Interval + Delay <= MaxHold
           /\ n > 0 /\ n * Interval < LeaderTTL => n < HoldRounds
<1> USE Durations, HoldDurations, LeaderAssumption
<1>1. CASE n = 0
  <2>1. CASE HoldRounds = 1 BY <1>1, <2>1 DEF Spent, MaxHold
  <2>2. CASE HoldRounds = 2 BY <1>1, <2>2 DEF Spent, MaxHold
  <2>3. CASE HoldRounds = 3 BY <1>1, <2>3 DEF Spent, MaxHold
  <2>4. QED BY <2>1, <2>2, <2>3
<1>2. CASE n = 1
  <2>1. CASE HoldRounds = 1 BY <1>2, <2>1 DEF Spent, HoldRounds
  <2>2. CASE HoldRounds = 2 BY <1>2, <2>2 DEF Spent, MaxHold
  <2>3. CASE HoldRounds = 3 BY <1>2, <2>3 DEF Spent, MaxHold
  <2>4. QED BY <2>1, <2>2, <2>3
<1>3. CASE n = 2
  <2>1. CASE HoldRounds = 1 BY <1>3, <2>1 DEF Spent, HoldRounds
  <2>2. CASE HoldRounds = 2 BY <1>3, <2>2 DEF Spent, HoldRounds
  <2>3. CASE HoldRounds = 3 BY <1>3, <2>3 DEF Spent, MaxHold
  <2>4. QED BY <2>1, <2>2, <2>3
<1>4. CASE n = 3
  BY <1>4 DEF Spent
<1>5. QED BY <1>1, <1>2, <1>3, <1>4

\* The strengthening that makes HoldBound inductive: while the loop leads, its
\* last grant is no older than the failed rounds since and the time since the
\* loop last fell asleep.
HoldAt(i) ==
    /\ pc[i] \in LoopPC \ {"sleep"} => timer[i] <= 0
    /\ pc[i] = "granted" => age[i] <= -timer[i]
    /\ (InLoop(i) /\ wasLeader[i]) => errors[i] < HoldRounds
    /\ (InLoop(i) /\ wasLeader[i] /\ pc[i] # "granted") =>
          age[i] <= Delay + Spent(errors[i]) + Interval - timer[i]

HoldInv == \A i \in Instance : HoldAt(i)

LEMMA HoldInit == Init => HoldInv
  BY DEF Init, HoldInv, HoldAt, InLoop, LoopPC

\* What one replica does to the clause of any replica k.
LEMMA HoldKept ==
    ASSUME NEW k \in Instance, HoldAt(k),
           pc'[k] = pc[k], timer'[k] = timer[k], age'[k] = age[k],
           errors'[k] = errors[k], wasLeader'[k] = wasLeader[k]
    PROVE  HoldAt(k)'
  BY DEF HoldAt, InLoop

LEMMA HoldReply ==
    ASSUME TypeOK, HoldInv, NEW i \in Instance, Reply(i), NEW k \in Instance
    PROVE  HoldAt(k)'
<1> USE Durations, HoldDurations, LeaderAssumption DEF InLoop, LoopPC
<1>1. CASE k # i
  <2>1. wasLeader'[k] = wasLeader[k]
    BY <1>1, Zenon DEF Reply, Lead, StandBy, TypeOK
  <2>2. pc'[k] = pc[k] /\ timer'[k] = timer[k] /\ age'[k] = age[k] /\ errors'[k] = errors[k]
    BY <1>1 DEF Reply, Lead, StandBy, Sleep, TypeOK
  <2>3. QED BY <2>1, <2>2, HoldKept DEF HoldInv
<1>2. CASE k = i
  <2>1. pc'[i] = "sleep" /\ timer'[i] = Interval /\ errors'[i] = 0
    BY DEF Reply, Sleep, TypeOK
  <2>2. CASE pc[i] = "granted" /\ Lead(i)
    <3>1. age'[i] <= Delay
      BY <2>2 DEF HoldInv, HoldAt, Lead, TypeOK
    <3>2. age'[i] <= Delay + Spent(errors'[i]) + Interval - timer'[i]
      BY <2>1, <2>2, <3>1, Rounds DEF Lead, TypeOK
    <3>3. QED BY <1>2, <2>1, <3>2 DEF HoldAt
  <2>3. CASE StandBy(i)
    <3>1. ~wasLeader'[i]
      BY <2>3, Zenon DEF StandBy, TypeOK
    <3>2. QED BY <1>2, <2>1, <3>1 DEF HoldAt
  <2>4. QED BY <2>2, <2>3 DEF Reply
<1>3. QED BY <1>1, <1>2

LEMMA HoldCallFails ==
    ASSUME TypeOK, HoldInv, NEW i \in Instance, CallFails(i), NEW k \in Instance
    PROVE  HoldAt(k)'
<1> USE Durations, HoldDurations, LeaderAssumption DEF InLoop, LoopPC
<1>1. CASE k # i
  <2>1. wasLeader'[k] = wasLeader[k]
    BY <1>1, Zenon DEF CallFails, StandBy, TypeOK
  <2>2. age'[k] = age[k]
    BY <1>1, Zenon DEF CallFails, StandBy, TypeOK
  <2>3. pc'[k] = pc[k] /\ timer'[k] = timer[k] /\ errors'[k] = errors[k]
    BY <1>1 DEF CallFails, Sleep, TypeOK
  <2>4. QED BY <2>1, <2>2, <2>3, HoldKept DEF HoldInv
<1>2. CASE k = i
  <2>1. pc'[i] = "sleep" /\ timer'[i] = Interval
    BY DEF CallFails, Sleep, TypeOK
  <2>2. errors'[i] = IF errors[i] < 3 THEN errors[i] + 1 ELSE 3
    BY DEF CallFails, TypeOK
  <2>3. CASE Holds(i, errors'[i]) /\ UNCHANGED <<wasLeader, sched, age>>
    <3>1. wasLeader[i] /\ errors'[i] * Interval < LeaderTTL
      BY <2>3 DEF Holds
    <3>2. errors[i] < HoldRounds /\ errors[i] \in 0..2 /\ errors'[i] = errors[i] + 1
      BY <2>2, <3>1 DEF HoldInv, HoldAt, CallFails, TypeOK
    <3>3. errors'[i] < HoldRounds
      BY <3>1, <3>2, Rounds
    <3>4. age[i] <= Delay + Spent(errors[i]) + Interval + Delay
      <4>1. CASE pc[i] = "granted"
        BY <3>2, <4>1, Rounds DEF HoldInv, HoldAt, TypeOK
      <4>2. CASE pc[i] # "granted"
        BY <3>1, <3>2, <4>2, Rounds DEF HoldInv, HoldAt, CallFails, TypeOK
      <4>3. QED BY <4>1, <4>2
    <3>5. age'[i] <= Delay + Spent(errors'[i]) + Interval - timer'[i]
      BY <2>1, <2>3, <3>2, <3>4, Rounds DEF TypeOK
    <3>6. QED BY <1>2, <2>1, <3>3, <3>5 DEF HoldAt
  <2>4. CASE StandBy(i)
    <3>1. ~wasLeader'[i]
      BY <2>4, Zenon DEF StandBy, TypeOK
    <3>2. QED BY <1>2, <2>1, <3>1 DEF HoldAt
  <2>5. QED BY <2>3, <2>4 DEF CallFails
<1>3. QED BY <1>1, <1>2

LEMMA HoldStep == TypeOK /\ HoldInv /\ [Next]_vars => HoldInv'
<1> SUFFICES ASSUME TypeOK, HoldInv, [Next]_vars, NEW k \in Instance
             PROVE  HoldAt(k)'
  BY DEF HoldInv
<1> USE Durations, HoldDurations, LeaderAssumption DEF InLoop, LoopPC
<1>1. ASSUME NEW i \in Instance, SetNX(i) \/ Renew(i) PROVE HoldAt(k)'
  <2>1. timer[i] <= 0
    BY <1>1 DEF SetNX, Renew, HoldInv, HoldAt
  <2>2. UNCHANGED <<timer, errors, wasLeader>> /\ pc[i] \in {"sleep", "eval"}
    BY <1>1 DEF SetNX, Renew
  <2>3. \/ age' = [age EXCEPT ![i] = 0] /\ pc' = [pc EXCEPT ![i] = "granted"]
        \/ UNCHANGED age /\ \E a \in {"eval", "denied"} : pc' = [pc EXCEPT ![i] = a]
    BY <1>1 DEF SetNX, Renew, Grant, Owns
  <2>4. QED BY <2>1, <2>2, <2>3 DEF HoldInv, HoldAt, TypeOK
<1>2. ASSUME NEW i \in Instance, Start(i) \/ Vanish(i) PROVE HoldAt(k)'
  <2>1. CASE k = i
    <3>1. ~wasLeader'[k] /\ pc'[k] \in {"off", "sleep"}
      BY <1>2, <2>1, Zenon DEF Start, Vanish, TypeOK
    <3>2. QED BY <3>1 DEF HoldAt
  <2>2. CASE k # i
    <3>1. wasLeader'[k] = wasLeader[k] /\ age'[k] = age[k]
      BY <1>2, <2>2, Zenon DEF Start, Vanish, TypeOK
    <3>2. pc'[k] = pc[k] /\ timer'[k] = timer[k] /\ errors'[k] = errors[k]
      BY <1>2, <2>2 DEF Start, Vanish, TypeOK
    <3>3. QED BY <3>1, <3>2, HoldKept DEF HoldInv
  <2>3. QED BY <2>1, <2>2
<1>3. ASSUME NEW i \in Instance, Stop(i) \/ Release(i) PROVE HoldAt(k)'
  <2>1. CASE k = i
    BY <1>3, <2>1 DEF Stop, Release, HoldAt, TypeOK
  <2>2. CASE k # i
    <3>1. wasLeader'[k] = wasLeader[k] /\ age'[k] = age[k] /\ errors'[k] = errors[k]
      BY <1>3, <2>2 DEF Stop, Release, TypeOK
    <3>2. pc'[k] = pc[k] /\ timer'[k] = timer[k]
      BY <1>3, <2>2 DEF Stop, Release, TypeOK
    <3>3. QED BY <3>1, <3>2, HoldKept DEF HoldInv
  <2>3. QED BY <2>1, <2>2
<1>4. ASSUME NEW i \in Instance, Disconnect(i) \/ Reconnect(i) PROVE HoldAt(k)'
  BY <1>4, HoldKept DEF Disconnect, Reconnect, loopVars, HoldInv
<1>5. CASE Tick
  <2>1. UNCHANGED <<pc, errors, wasLeader>>
    BY <1>5 DEF Tick
  <2>2. pc[k] # "off" => timer'[k] = timer[k] - 1
    BY <1>5 DEF Tick, TypeOK
  <2>3. age'[k] \in Nat /\ age'[k] <= age[k] + 1
    BY <1>5 DEF Tick, TypeOK
  <2>4. timer[k] \in Int /\ age[k] \in Nat /\ errors[k] \in 0..3
    BY DEF TypeOK
  <2>5. CASE pc[k] \in LoopPC
    BY <2>1, <2>2, <2>3, <2>4, <2>5, Rounds DEF HoldInv, HoldAt
  <2>6. CASE pc[k] \notin LoopPC
    BY <2>1, <2>6 DEF HoldAt
  <2>7. QED BY <2>5, <2>6
<1>6. CASE UNCHANGED vars
  BY <1>6, HoldKept DEF vars, HoldInv
<1>7. QED
  BY <1>1, <1>2, <1>3, <1>4, <1>5, <1>6, HoldReply, HoldCallFails
     DEF Next, Step, Environment, Finish, Crash

\* A scheduler never runs for longer than MaxHold after the last grant of the
\* lease it runs on.
THEOREM BoundedHold == Spec => []HoldBound
<1>1. Init => TypeOK /\ SchedInv /\ HoldInv
  BY TypeInit, SchedInit, HoldInit
<1>2. TypeOK /\ SchedInv /\ HoldInv /\ [Next]_vars => (TypeOK /\ SchedInv /\ HoldInv)'
  BY TypeStep, SchedStep, HoldStep
<1>3. TypeOK /\ SchedInv /\ HoldInv => HoldBound
  <2> SUFFICES ASSUME TypeOK, SchedInv, HoldInv,
                      NEW i \in Instance, InLoop(i), Running(i)
               PROVE  age[i] <= MaxHold
    BY DEF HoldBound
  <2> USE Durations, HoldDurations, LeaderAssumption
  <2>1. wasLeader[i] /\ errors[i] \in 0..3 /\ errors[i] < HoldRounds
    BY DEF SchedInv, HoldInv, HoldAt, TypeOK
  <2>2. Delay + Spent(errors[i]) + Interval + Delay <= MaxHold /\ Spent(errors[i]) \in Nat
    BY <2>1, Rounds
  <2>3. CASE pc[i] = "granted"
    BY <2>2, <2>3 DEF HoldInv, HoldAt, TypeOK
  <2>4. CASE pc[i] # "granted"
    BY <2>1, <2>2, <2>4 DEF HoldInv, HoldAt, TypeOK
  <2>5. QED BY <2>3, <2>4
<1>4. QED
  BY <1>1, <1>2, <1>3, PTL DEF Spec

-----------------------------------------------------------------------------
(* A connected leader keeps its lease.                                     *)

\* Where the scheduler of a replica that is down stands.
OffInv == \A i \in Instance : pc[i] = "off" => sched[i] = "stopped"

LEMMA OffInit == Init => OffInv
  BY DEF Init, OffInv

LEMMA OffStep == TypeOK /\ OffInv /\ [Next]_vars => OffInv'
<1> SUFFICES ASSUME TypeOK, OffInv, [Next]_vars, NEW k \in Instance, pc'[k] = "off"
             PROVE  sched'[k] = "stopped"
  BY DEF OffInv
<1> USE DEF OffInv, TypeOK
<1>1. ASSUME NEW i \in Instance, Vanish(i) PROVE sched'[k] = "stopped"
  BY <1>1 DEF Vanish
<1>2. ASSUME NEW i \in Instance, SetNX(i) \/ Renew(i) \/ Release(i)
      PROVE  sched'[k] = "stopped"
  BY <1>2 DEF SetNX, Renew, Grant, Owns, Release
<1>3. ASSUME NEW i \in Instance, Reply(i) \/ CallFails(i)
      PROVE  sched'[k] = "stopped"
  BY <1>3 DEF Reply, CallFails, Lead, StandBy, Sleep
<1>4. ASSUME NEW i \in Instance, Start(i) \/ Stop(i)
      PROVE  sched'[k] = "stopped"
  BY <1>4 DEF Start, Stop
<1>5. ASSUME NEW i \in Instance, Disconnect(i) \/ Reconnect(i)
      PROVE  sched'[k] = "stopped"
  BY <1>5 DEF Disconnect, Reconnect, loopVars
<1>6. CASE Tick \/ UNCHANGED vars
  BY <1>6 DEF Tick, vars
<1>7. QED
  BY <1>1, <1>2, <1>3, <1>4, <1>5, <1>6 DEF Next, Step, Environment, Finish, Crash

\* A loop that leads and has not failed since its last grant still owns the key.
LEMMA LeaderOwns ==
    ASSUME RoomToRenew, TypeOK, Lease, HoldInv,
           NEW i \in Instance, InLoop(i), wasLeader[i], errors[i] = 0
    PROVE  age[i] < LockTTL /\ holder = i
<1>1. age[i] < LockTTL
  <2>1. timer[i] \in (-Delay)..Interval /\ age[i] \in Nat /\ Delay \in Nat
    BY LeaderAssumption, HoldDurations DEF TypeOK
  <2>2. CASE pc[i] = "granted"
    BY <2>1, <2>2, Durations DEF HoldInv, HoldAt, RoomToRenew
  <2>3. CASE pc[i] # "granted"
    <3>1. Spent(0) = 0
      BY Durations, LeaderAssumption DEF Spent
    <3>2. age[i] <= Delay + Interval - timer[i]
      BY <2>1, <2>3, <3>1, Durations DEF HoldInv, HoldAt
    <3>3. QED BY <2>1, <3>2, Durations DEF RoomToRenew
  <2>4. QED BY <2>2, <2>3
<1>2. QED
  BY <1>1 DEF Lease

\* The strengthening that makes NoSpuriousStepDown provable: a loop that leads is
\* refused the lease only after a failure.
DeniedInv ==
    \A i \in Instance : (pc[i] = "denied" /\ wasLeader[i]) => errors[i] > 0

LEMMA DeniedInit == Init => DeniedInv
  BY DEF Init, DeniedInv

LEMMA DeniedStep ==
    ASSUME RoomToRenew
    PROVE  TypeOK /\ Lease /\ HoldInv /\ DeniedInv /\ [Next]_vars => DeniedInv'
<1> SUFFICES ASSUME TypeOK, Lease, HoldInv, DeniedInv, [Next]_vars,
                    NEW k \in Instance, pc'[k] = "denied", wasLeader'[k]
             PROVE  errors'[k] > 0
  BY DEF DeniedInv
<1>1. ASSUME NEW i \in Instance, Renew(i) PROVE errors'[k] > 0
  <2>1. UNCHANGED <<errors, wasLeader>>
    BY <1>1 DEF Renew
  <2>2. CASE k = i
    <3>1. pc[i] = "eval" /\ ~Owns(i)
      BY <1>1, <2>2 DEF Renew, Grant, TypeOK
    <3>2. errors[i] # 0
      BY <2>1, <2>2, <3>1, LeaderOwns DEF InLoop, LoopPC, Owns
    <3>3. QED BY <2>1, <2>2, <3>2 DEF TypeOK
  <2>3. CASE k # i
    BY <1>1, <2>1, <2>3 DEF Renew, Grant, DeniedInv, TypeOK
  <2>4. QED BY <2>2, <2>3
<1>2. ASSUME NEW i \in Instance, SetNX(i) \/ Release(i) \/ Stop(i) PROVE errors'[k] > 0
  BY <1>2 DEF SetNX, Grant, Release, Stop, DeniedInv, TypeOK
<1>3. ASSUME NEW i \in Instance, k # i,
             Reply(i) \/ CallFails(i) \/ Start(i) \/ Vanish(i)
      PROVE  errors'[k] > 0
  <2>1. wasLeader'[k] = wasLeader[k]
    <3>1. k # i
      BY <1>3
    <3>2. CASE Reply(i)
      BY <3>1, <3>2, Zenon DEF Reply, Lead, StandBy, TypeOK
    <3>3. CASE CallFails(i)
      BY <3>1, <3>3, Zenon DEF CallFails, StandBy, TypeOK
    <3>4. CASE Start(i)
      BY <3>1, <3>4, Zenon DEF Start, TypeOK
    <3>5. CASE Vanish(i)
      BY <3>1, <3>5, Zenon DEF Vanish, TypeOK
    <3>6. QED BY <1>3, <3>2, <3>3, <3>4, <3>5
  <2>2. pc'[k] = pc[k] /\ errors'[k] = errors[k]
    BY <1>3 DEF Reply, CallFails, Sleep, Start, Vanish, TypeOK
  <2>3. QED BY <2>1, <2>2 DEF DeniedInv
<1>4. ASSUME NEW i \in Instance, Reply(i) \/ CallFails(i) \/ Start(i) \/ Vanish(i)
      PROVE  k # i
  BY <1>4 DEF Reply, CallFails, Sleep, Start, Vanish, TypeOK
<1>5. ASSUME NEW i \in Instance, Disconnect(i) \/ Reconnect(i) PROVE errors'[k] > 0
  BY <1>5 DEF Disconnect, Reconnect, loopVars, DeniedInv
<1>6. CASE Tick \/ UNCHANGED vars
  BY <1>6 DEF Tick, vars, DeniedInv
<1>7. QED
  BY <1>1, <1>2, <1>3, <1>4, <1>5, <1>6 DEF Next, Step, Environment, Finish, Crash

LEMMA OnlyFailuresDemote ==
    ASSUME TypeOK, SchedInv, OffInv, DeniedInv, [Next]_vars,
           NEW k \in Instance, Running(k), sched'[k] = "paused"
    PROVE  ~conn[k] \/ errors[k] > 0
<1>1. ASSUME NEW i \in Instance, Reply(i) PROVE k = i /\ errors[i] > 0
  <2>1. k = i
    BY <1>1 DEF Reply, Lead, StandBy, Running, TypeOK
  <2>2. wasLeader[i]
    BY <1>1, <2>1 DEF Reply, InLoop, LoopPC, SchedInv
  <2>3. ~Lead(i)
    BY <2>1, <2>2 DEF Lead, Running, TypeOK
  <2>4. QED BY <1>1, <2>1, <2>2, <2>3 DEF Reply, DeniedInv
<1>2. ASSUME NEW i \in Instance, CallFails(i) PROVE k = i /\ ~conn[i]
  BY <1>2 DEF CallFails, StandBy, Running, TypeOK
<1>3. ASSUME NEW i \in Instance, Start(i) \/ Vanish(i) PROVE FALSE
  BY <1>3 DEF Start, Vanish, OffInv, Running, TypeOK
<1>4. ASSUME NEW i \in Instance,
             \/ SetNX(i) \/ Renew(i) \/ Release(i) \/ Stop(i)
             \/ Disconnect(i) \/ Reconnect(i)
      PROVE  FALSE
  BY <1>4 DEF SetNX, Renew, Release, Stop, Disconnect, Reconnect, loopVars, Running
<1>5. CASE Tick \/ UNCHANGED vars
  BY <1>5 DEF Tick, vars, Running
<1>6. QED
  BY <1>1, <1>2, <1>3, <1>4, <1>5 DEF Next, Step, Environment, Finish, Crash

\* What makes the election work when nothing fails, for use where it is composed.
LeaderInv == TypeOK /\ Lease /\ SchedInv /\ HoldInv /\ OffInv /\ DeniedInv

LEMMA LeaderInit == Init => LeaderInv
  BY TypeInit, LeaseInit, SchedInit, HoldInit, OffInit, DeniedInit DEF LeaderInv

LEMMA LeaderStep ==
    ASSUME RoomToRenew
    PROVE  LeaderInv /\ [Next]_vars => LeaderInv'
  BY TypeStep, LeaseStep, SchedStep, HoldStep, OffStep, DeniedStep DEF LeaderInv

\* A leader that reaches Redis and has not failed since its last grant is never
\* paused, provided that a late round still renews in time.
THEOREM ConnectedLeaderStays ==
    ASSUME RoomToRenew
    PROVE  Spec => NoSpuriousStepDown
<1>1. LeaderInv /\ [Next]_vars =>
        [\A i \in Instance :
            (Running(i) /\ sched'[i] = "paused") => ~conn[i] \/ errors[i] > 0]_vars
  BY OnlyFailuresDemote DEF LeaderInv
<1>2. QED
  BY LeaderInit, LeaderStep, <1>1, PTL DEF Spec, NoSpuriousStepDown

-----------------------------------------------------------------------------
(* How long replicas that reach Redis wait for a leader.                   *)

\* The key is there exactly as long as it has time to live.
KeyInv == holder = NoOne <=> ttl = 0

LEMMA KeyInit == Init => KeyInv
  BY DEF Init, KeyInv

LEMMA KeyStep == TypeOK /\ KeyInv /\ [Next]_vars => KeyInv'
<1> SUFFICES ASSUME TypeOK, KeyInv, [Next]_vars PROVE KeyInv'
  OBVIOUS
<1> USE LeaderAssumption, Durations DEF KeyInv, TypeOK
<1>1. ASSUME NEW i \in Instance, SetNX(i) \/ Renew(i) \/ Release(i) PROVE KeyInv'
  BY <1>1 DEF SetNX, Renew, Grant, Owns, Release, lockVars
<1>2. ASSUME NEW i \in Instance, Vanish(i) PROVE KeyInv'
  BY <1>2 DEF Vanish
<1>3. ASSUME NEW i \in Instance,
             \/ Reply(i) \/ CallFails(i) \/ Start(i) \/ Stop(i)
             \/ Disconnect(i) \/ Reconnect(i)
      PROVE  KeyInv'
  BY <1>3 DEF Reply, CallFails, Start, Stop, Disconnect, Reconnect, lockVars
<1>4. CASE Tick
  BY <1>4 DEF Tick
<1>5. CASE UNCHANGED vars
  BY <1>5 DEF vars
<1>6. QED
  BY <1>1, <1>2, <1>3, <1>4, <1>5 DEF Next, Step, Environment, Finish, Crash

\* The three ways a replica that waits will see a scheduler run, each with the
\* time it can still take: an answer is on its way to a replica that reaches
\* Redis; nobody has the lock and i, or somebody before it, takes it in the next
\* round that i starts; somebody has it who does not run and it has to expire.
AnswerComes(i) ==
    \E k \in Instance :
        pc[k] = "granted" /\ conn[k] /\ wait[i] + Delay + timer[k] <= MaxWait

LockIsFree(i) ==
    /\ holder = NoOne
    /\ pc[i] = "sleep" => wait[i] + timer[i] + 2 * Delay <= MaxWait
    /\ pc[i] # "sleep" => wait[i] + timer[i] + Interval + 3 * Delay <= MaxWait

LockExpires(i) ==
    holder # NoOne /\ wait[i] + (ttl - 1) + Interval + 3 * Delay <= MaxWait

Budget(i) == AnswerComes(i) \/ LockIsFree(i) \/ LockExpires(i)

\* The strengthening that makes TakeoverBound inductive.  A wait that is not over
\* yet was not interrupted by a fault, and a scheduler that runs has only been
\* resumed since the last second.
WaitAt(i) ==
    /\ wait[i] <= MaxWait
    /\ wait[i] > 0 => Ready(i)
    /\ \A k \in Instance :
          (wait[i] > 0 /\ Running(k)) => pc[k] = "sleep" /\ timer[k] = Interval
    /\ Waiting(i) => Budget(i)

WaitInv == \A i \in Instance : WaitAt(i)

\* A wait that begins has its whole budget, whatever the state.
LEMMA WholeBudget ==
    TypeOK /\ KeyInv /\ HoldInv =>
        \A i \in Instance : (InLoop(i) /\ wait[i] = 0) => Budget(i)
<1> SUFFICES ASSUME TypeOK, KeyInv, HoldInv, NEW i \in Instance, InLoop(i), wait[i] = 0
             PROVE  LockIsFree(i) \/ LockExpires(i)
  BY DEF Budget
<1> USE LeaderAssumption, Durations
<1>1. /\ timer[i] \in (-Delay)..Interval /\ ttl \in 0..LockTTL
      /\ pc[i] # "sleep" => timer[i] <= 0
      /\ holder = NoOne <=> ttl = 0
  BY DEF TypeOK, KeyInv, HoldInv, HoldAt, InLoop
<1>2. CASE holder = NoOne
  BY <1>1, <1>2 DEF LockIsFree, MaxWait
<1>3. CASE holder # NoOne
  BY <1>1, <1>3 DEF LockExpires, MaxWait
<1>4. QED BY <1>2, <1>3

LEMMA WholeBudgetNext ==
    (TypeOK /\ KeyInv /\ HoldInv)' =>
        (\A i \in Instance : (InLoop(i) /\ wait[i] = 0) => Budget(i))'
  BY WholeBudget, PTL

\* A second passes: it is taken from what is left.
LEMMA BudgetTick ==
    ASSUME TypeOK, KeyInv, HoldInv, Tick, NEW i \in Instance, Waiting(i),
           wait[i] <= MaxWait, Budget(i)
    PROVE  wait'[i] <= MaxWait /\ Budget(i)'
<1> USE LeaderAssumption, Durations, HoldDurations
<1>1. /\ wait[i] \in Nat /\ wait'[i] = wait[i] + 1
      /\ UNCHANGED <<pc, conn>>
      /\ InLoop(i) /\ pc[i] # "off"
  BY DEF Tick, TypeOK, WaitCap, Waiting, Ready, InLoop, LoopPC
<1>2. \A k \in Instance :
        pc[k] # "off" => timer[k] \in Int /\ timer[k] > -Delay /\ timer'[k] = timer[k] - 1
  BY DEF Tick, TypeOK, OnTime
<1>3. /\ timer[i] <= Interval
      /\ pc[i] # "sleep" => timer[i] <= 0
  BY <1>1 DEF TypeOK, HoldInv, HoldAt, InLoop
<1>4. CASE AnswerComes(i)
  <2> PICK k \in Instance :
             pc[k] = "granted" /\ conn[k] /\ wait[i] + Delay + timer[k] <= MaxWait
    BY <1>4 DEF AnswerComes
  <2>1. timer[k] \in Int /\ timer[k] > -Delay /\ timer'[k] = timer[k] - 1
    BY <1>2
  <2>2. wait'[i] <= MaxWait /\ wait'[i] + Delay + timer'[k] <= MaxWait
    BY <1>1, <2>1
  <2>3. QED BY <1>1, <2>2 DEF Budget, AnswerComes
<1>5. CASE LockIsFree(i)
  <2>1. holder' = NoOne
    BY <1>5 DEF Tick, LockIsFree, KeyInv, TypeOK
  <2>2. wait'[i] <= MaxWait
    BY <1>1, <1>2, <1>5 DEF LockIsFree
  <2>3. LockIsFree(i)'
    BY <1>1, <1>2, <1>5, <2>1 DEF LockIsFree
  <2>4. QED BY <2>2, <2>3 DEF Budget
<1>6. CASE LockExpires(i)
  <2>1. ttl \in Nat /\ ttl > 0 /\ ttl' = ttl - 1
    BY <1>6 DEF Tick, LockExpires, KeyInv, TypeOK
  <2>2. wait'[i] <= MaxWait
    BY <1>1, <1>6, <2>1 DEF LockExpires
  <2>3. CASE ttl' = 0
    <3>1. holder' = NoOne
      BY <2>3 DEF Tick
    <3>2. wait[i] + Interval + 3 * Delay <= MaxWait
      BY <1>1, <1>6, <2>1, <2>3 DEF LockExpires
    <3>3. LockIsFree(i)'
      BY <1>1, <1>2, <1>3, <3>1, <3>2 DEF LockIsFree
    <3>4. QED BY <2>2, <3>3 DEF Budget
  <2>4. CASE ttl' # 0
    <3>1. holder' = holder
      BY <2>4 DEF Tick
    <3>2. LockExpires(i)'
      BY <1>1, <1>6, <2>1, <3>1 DEF LockExpires
    <3>3. QED BY <2>2, <3>2 DEF Budget
  <2>5. QED BY <2>3, <2>4
<1>7. QED BY <1>4, <1>5, <1>6 DEF Budget

\* What neither touches i, nor an answer on its way, nor the lock, leaves what is
\* left as it is.
LEMMA BudgetKept ==
    ASSUME NEW i \in Instance, Budget(i),
           NEW j \in Instance, j # i,
           pc[j] # "granted" \/ ~conn[j],
           holder' = NoOne <=> holder = NoOne, ttl' = ttl, wait'[i] = wait[i],
           \A k \in Instance \ {j} :
               pc'[k] = pc[k] /\ timer'[k] = timer[k] /\ conn'[k] = conn[k]
    PROVE  Budget(i)'
<1>1. pc'[i] = pc[i] /\ timer'[i] = timer[i]
  OBVIOUS
<1>2. CASE AnswerComes(i)
  <2> PICK k \in Instance :
             pc[k] = "granted" /\ conn[k] /\ wait[i] + Delay + timer[k] <= MaxWait
    BY <1>2 DEF AnswerComes
  <2>1. pc'[k] = pc[k] /\ timer'[k] = timer[k] /\ conn'[k] = conn[k]
    OBVIOUS
  <2>2. QED BY <2>1 DEF Budget, AnswerComes
<1>3. CASE LockIsFree(i)
  BY <1>1, <1>3 DEF Budget, LockIsFree
<1>4. CASE LockExpires(i)
  BY <1>1, <1>4 DEF Budget, LockExpires
<1>5. QED BY <1>2, <1>3, <1>4 DEF Budget

\* A grant is an answer that comes within Delay, and that much is always left.
LEMMA BudgetGrant ==
    ASSUME TypeOK, KeyInv, NEW i \in Instance, InLoop(i),
           wait'[i] = wait[i], Budget(i),
           NEW j \in Instance, Grant(j), conn[j], timer[j] <= 0,
           UNCHANGED <<timer, conn>>, pc[j] # "granted"
    PROVE  Budget(i)'
<1> USE LeaderAssumption, Durations, HoldDurations
<1>1. pc' = [pc EXCEPT ![j] = "granted"]
  BY DEF Grant
<1>2. CASE AnswerComes(i)
  BY <1>1, <1>2 DEF Budget, AnswerComes, TypeOK
<1>3. CASE LockIsFree(i) \/ LockExpires(i)
  <2>1. /\ wait[i] \in Nat /\ ttl \in Nat
        /\ holder # NoOne => ttl >= 1
        /\ timer[i] \in (-Delay)..Interval /\ timer[j] \in (-Delay)..0
    BY DEF TypeOK, KeyInv
  <2>2. wait[i] + Delay <= MaxWait
    BY <1>3, <2>1 DEF LockIsFree, LockExpires
  <2>3. wait'[i] + Delay + timer'[j] <= MaxWait /\ pc'[j] = "granted" /\ conn'[j]
    BY <1>1, <2>1, <2>2 DEF TypeOK
  <2>4. QED BY <2>3 DEF Budget, AnswerComes
<1>4. QED BY <1>2, <1>3 DEF Budget

LEMMA BudgetSetNX ==
    ASSUME TypeOK, KeyInv, NEW i \in Instance, InLoop(i), Budget(i),
           NEW j \in Instance, SetNX(j)
    PROVE  Budget(i)'
<1>1. /\ UNCHANGED <<timer, conn, wait>> /\ pc[j] = "sleep" /\ timer[j] <= 0 /\ conn[j]
  BY DEF SetNX
<1>2. CASE Grant(j)
  BY <1>1, <1>2, BudgetGrant
<1>3. CASE holder # NoOne /\ pc' = [pc EXCEPT ![j] = "eval"] /\ UNCHANGED lockVars
  BY <1>1, <1>3 DEF Budget, AnswerComes, LockIsFree, LockExpires, lockVars, TypeOK
<1>4. QED BY <1>2, <1>3 DEF SetNX

LEMMA BudgetRenew ==
    ASSUME TypeOK, KeyInv, HoldInv, NEW i \in Instance, InLoop(i), Budget(i),
           NEW j \in Instance, Renew(j)
    PROVE  Budget(i)'
<1>1. /\ UNCHANGED <<timer, conn, wait>> /\ pc[j] = "eval" /\ conn[j]
  BY DEF Renew
<1>2. timer[j] <= 0
  BY <1>1 DEF HoldInv, HoldAt, LoopPC
<1>3. CASE Grant(j)
  BY <1>1, <1>2, <1>3, BudgetGrant
<1>4. CASE pc' = [pc EXCEPT ![j] = "denied"] /\ UNCHANGED lockVars
  BY <1>1, <1>4 DEF Budget, AnswerComes, LockIsFree, LockExpires, lockVars, TypeOK
<1>5. QED BY <1>3, <1>4 DEF Renew

LEMMA BudgetReply ==
    ASSUME TypeOK, SchedInv, NEW i \in Instance, Budget(i),
           NEW j \in Instance, Reply(j), ~Running(j)'
    PROVE  Budget(i)'
<1> USE LeaderAssumption, Durations, HoldDurations
<1>1. /\ UNCHANGED <<holder, ttl, conn, wait>>
      /\ pc' = [pc EXCEPT ![j] = "sleep"] /\ timer' = [timer EXCEPT ![j] = Interval]
  BY DEF Reply, Sleep, lockVars
<1>2. pc[j] = "denied"
  <2>1. SUFFICES ASSUME pc[j] = "granted", Lead(j) PROVE FALSE
    BY DEF Reply
  <2>2. sched[j] = "running" <=> wasLeader[j]
    BY <2>1 DEF SchedInv, InLoop, LoopPC, Running
  <2>3. QED BY <2>1, <2>2, LeadFollows DEF Running
<1>3. CASE j # i
  BY <1>1, <1>2, <1>3, BudgetKept DEF TypeOK
<1>4. CASE j = i
  <2>1. CASE AnswerComes(i)
    BY <1>1, <1>2, <2>1 DEF Budget, AnswerComes, TypeOK
  <2>2. CASE LockIsFree(i)
    <3>1. wait[i] \in Nat /\ timer[i] \in (-Delay)..Interval
      BY DEF TypeOK
    <3>2. wait[i] + Interval + 2 * Delay <= MaxWait
      BY <1>2, <1>4, <2>2, <3>1 DEF LockIsFree
    <3>3. LockIsFree(i)'
      BY <1>1, <1>4, <2>2, <3>1, <3>2 DEF LockIsFree, TypeOK
    <3>4. QED BY <3>3 DEF Budget
  <2>3. CASE LockExpires(i)
    BY <1>1, <2>3 DEF Budget, LockExpires
  <2>4. QED BY <2>1, <2>2, <2>3 DEF Budget
<1>5. QED BY <1>3, <1>4

LEMMA BudgetRelease ==
    ASSUME TypeOK, KeyInv, HoldInv, NEW i \in Instance, InLoop(i), Budget(i),
           NEW j \in Instance, Release(j)
    PROVE  Budget(i)'
<1> USE LeaderAssumption, Durations, HoldDurations
<1>1. /\ UNCHANGED <<timer, conn, wait>>
      /\ pc[j] = "release" /\ pc' = [pc EXCEPT ![j] = "released"]
      /\ j # i
  BY DEF Release, InLoop, LoopPC
<1>2. CASE UNCHANGED lockVars
  BY <1>1, <1>2, BudgetKept DEF lockVars, TypeOK
<1>3. CASE Owns(j) /\ holder' = NoOne /\ ttl' = 0
  <2>1. CASE AnswerComes(i)
    BY <1>1, <2>1 DEF Budget, AnswerComes, TypeOK
  <2>2. CASE LockExpires(i)
    <3>1. /\ wait[i] \in Nat /\ ttl \in Nat /\ ttl >= 1
          /\ timer[i] \in (-Delay)..Interval /\ pc[i] # "sleep" => timer[i] <= 0
      BY <2>2 DEF TypeOK, KeyInv, LockExpires, HoldInv, HoldAt, InLoop
    <3>2. wait[i] + Interval + 3 * Delay <= MaxWait
      BY <2>2, <3>1 DEF LockExpires
    <3>3. LockIsFree(i)'
      BY <1>1, <1>3, <3>1, <3>2 DEF LockIsFree, TypeOK
    <3>4. QED BY <3>3 DEF Budget
  <2>3. QED BY <1>3, <2>1, <2>2 DEF Budget, LockIsFree, Owns
<1>4. QED BY <1>2, <1>3 DEF Release

\* The other steps concern replicas that neither wait nor have an answer coming.
LEMMA BudgetOthers ==
    ASSUME TypeOK, NEW i \in Instance, Ready(i), Budget(i),
           NEW j \in Instance,
           CallFails(j) \/ Finish(j) \/ Start(j) \/ Reconnect(j)
    PROVE  Budget(i)'
<1>1. ttl' = ttl /\ wait' = wait /\ (holder' = NoOne <=> holder = NoOne)
  BY LeaderAssumption DEF CallFails, Finish, Vanish, Start, Reconnect, lockVars
<1>2. j # i /\ (pc[j] # "granted" \/ ~conn[j])
  BY DEF CallFails, Finish, Start, Reconnect, Ready, InLoop, LoopPC
<1>3. \A k \in Instance \ {j} :
        pc'[k] = pc[k] /\ timer'[k] = timer[k] /\ conn'[k] = conn[k]
  BY DEF CallFails, Sleep, Finish, Vanish, Start, Reconnect, loopVars, TypeOK
<1>4. QED BY <1>1, <1>2, <1>3, BudgetKept

\* A scheduler that was resumed within this second runs until the next one.
LEMMA FreshKept ==
    ASSUME TypeOK, NEW k \in Instance, Running(k), pc[k] = "sleep", timer[k] = Interval,
           [Next]_vars, ~Tick, UNCHANGED faults
    PROVE  Running(k)' /\ pc'[k] = "sleep" /\ timer'[k] = Interval
<1> USE Durations DEF TypeOK, Running
<1>1. ASSUME NEW i \in Instance, SetNX(i) \/ Renew(i) \/ Release(i)
      PROVE  Running(k)' /\ pc'[k] = "sleep" /\ timer'[k] = Interval
  BY <1>1 DEF SetNX, Renew, Grant, Owns, Release
<1>2. ASSUME NEW i \in Instance, Reply(i) \/ CallFails(i)
      PROVE  Running(k)' /\ pc'[k] = "sleep" /\ timer'[k] = Interval
  <2>1. k # i
    BY <1>2 DEF Reply, CallFails
  <2>2. QED BY <1>2, <2>1 DEF Reply, CallFails, Lead, StandBy, Sleep
<1>3. ASSUME NEW i \in Instance, Finish(i) \/ Start(i)
      PROVE  Running(k)' /\ pc'[k] = "sleep" /\ timer'[k] = Interval
  <2>1. k # i
    BY <1>3 DEF Finish, Start
  <2>2. QED BY <1>3, <2>1 DEF Finish, Vanish, Start
<1>4. ASSUME NEW i \in Instance, Stop(i) \/ Crash(i) \/ Disconnect(i)
      PROVE  FALSE
  BY <1>4 DEF Stop, Crash, Disconnect
<1>5. ASSUME NEW i \in Instance, Reconnect(i)
      PROVE  Running(k)' /\ pc'[k] = "sleep" /\ timer'[k] = Interval
  BY <1>5 DEF Reconnect, loopVars
<1>6. CASE UNCHANGED vars
  BY <1>6 DEF vars
<1>7. QED
  BY <1>1, <1>2, <1>3, <1>4, <1>5, <1>6 DEF Next, Step, Environment

\* Within a second, and without a fault, a replica that waits stays ready, and
\* only schedulers that are resumed start to run.
LEMMA ReadyKept ==
    ASSUME TypeOK, NEW i \in Instance, Ready(i), [Next]_vars, UNCHANGED faults
    PROVE  Ready(i)'
<1> USE DEF TypeOK, Ready, InLoop, LoopPC
<1>1. ASSUME NEW j \in Instance, SetNX(j) \/ Renew(j) \/ Release(j) PROVE Ready(i)'
  BY <1>1 DEF SetNX, Renew, Grant, Owns, Release
<1>2. ASSUME NEW j \in Instance, Reply(j) \/ CallFails(j) PROVE Ready(i)'
  BY <1>2 DEF Reply, CallFails, Sleep
<1>3. ASSUME NEW j \in Instance, Finish(j) \/ Start(j) \/ Reconnect(j) PROVE Ready(i)'
  BY <1>3 DEF Finish, Vanish, Start, Reconnect, loopVars
<1>4. ASSUME NEW j \in Instance, Stop(j) \/ Crash(j) \/ Disconnect(j) PROVE FALSE
  BY <1>4 DEF Stop, Crash, Disconnect
<1>5. CASE Tick \/ UNCHANGED vars
  BY <1>5 DEF Tick, vars
<1>6. QED
  BY <1>1, <1>2, <1>3, <1>4, <1>5 DEF Next, Step, Environment

\* Who starts to run within a second is resumed, and sleeps.
LEMMA ResumedSleeps ==
    ASSUME TypeOK, NEW k \in Instance, ~Running(k), [Next]_vars, Running(k)'
    PROVE  pc'[k] = "sleep" /\ timer'[k] = Interval
<1> USE DEF TypeOK, Running
<1>1. ASSUME NEW i \in Instance, Reply(i) \/ CallFails(i)
      PROVE  pc'[k] = "sleep" /\ timer'[k] = Interval
  <2>1. k = i
    BY <1>1 DEF Reply, CallFails, Lead, StandBy
  <2>2. QED BY <1>1, <2>1 DEF Reply, CallFails, Sleep
<1>2. ASSUME NEW i \in Instance, SetNX(i) \/ Renew(i) \/ Release(i) \/ Stop(i)
      PROVE  FALSE
  BY <1>2 DEF SetNX, Renew, Release, Stop
<1>3. ASSUME NEW i \in Instance, Vanish(i) \/ Start(i)
      PROVE  FALSE
  BY <1>3 DEF Vanish, Start
<1>4. ASSUME NEW i \in Instance, Disconnect(i) \/ Reconnect(i)
      PROVE  FALSE
  BY <1>4 DEF Disconnect, Reconnect, loopVars
<1>5. CASE Tick \/ UNCHANGED vars
  BY <1>5 DEF Tick, vars
<1>6. QED
  BY <1>1, <1>2, <1>3, <1>4, <1>5 DEF Next, Step, Environment, Finish, Crash

LEMMA WaitInit == Init => WaitInv
<1> SUFFICES ASSUME Init, NEW i \in Instance PROVE WaitAt(i)
  BY DEF WaitInv
<1>1. wait[i] = 0 /\ ~InLoop(i)
  BY DEF Init, InLoop, LoopPC
<1>2. QED
  BY <1>1, HoldDurations DEF WaitAt, Waiting, Ready

\* All that WaitStep uses of the other invariants.
WaitFacts == TypeOK /\ SchedInv /\ HoldInv /\ KeyInv

\* A fault clears the history, and what is left is whole again.
LEMMA WaitFault ==
    ASSUME WaitFacts, WaitFacts', wait' = [j \in Instance |-> 0], NEW i \in Instance
    PROVE  WaitAt(i)'
<1>1. wait'[i] = 0
  OBVIOUS
<1>2. InLoop(i)' => Budget(i)'
  BY <1>1, WholeBudgetNext DEF WaitFacts
<1>3. QED
  BY <1>1, <1>2, HoldDurations DEF WaitAt, Waiting, Ready

LEMMA WaitTick ==
    ASSUME WaitFacts, WaitFacts', Tick, NEW i \in Instance, WaitAt(i)
    PROVE  WaitAt(i)'
<1>1. UNCHANGED <<pc, sched, conn>>
  BY DEF Tick
<1>2. Waiting(i)' <=> Waiting(i)
  BY <1>1 DEF Waiting, Ready, InLoop, Running
<1>3. CASE Waiting(i)
  <2>1. wait'[i] <= MaxWait /\ Budget(i)'
    BY <1>3, BudgetTick DEF WaitFacts, WaitAt
  <2>2. Ready(i)' /\ \A k \in Instance : ~Running(k)'
    BY <1>1, <1>3 DEF Waiting, Ready, InLoop, Running
  <2>3. QED BY <2>1, <2>2 DEF WaitAt
<1>4. CASE ~Waiting(i)
  <2>1. wait'[i] = 0
    BY <1>4 DEF Tick
  <2>2. QED BY <1>2, <1>4, <2>1, HoldDurations DEF WaitAt
<1>5. QED BY <1>3, <1>4

LEMMA WaitAction ==
    ASSUME WaitFacts, WaitFacts', [Next]_vars, ~Tick, UNCHANGED <<wait, faults>>,
           NEW i \in Instance, WaitAt(i)
    PROVE  WaitAt(i)'
<1> USE DEF WaitFacts
<1>1. wait'[i] = wait[i] /\ wait[i] \in Nat
  BY DEF TypeOK
<1>2. CASE wait[i] = 0
  <2>1. InLoop(i)' => Budget(i)'
    BY <1>1, <1>2, WholeBudgetNext
  <2>2. QED BY <1>1, <1>2, <2>1, HoldDurations DEF WaitAt, Waiting, Ready
<1>3. CASE wait[i] > 0
  <2>1. Ready(i) /\ Ready(i)'
    BY <1>3, ReadyKept DEF WaitAt
  <2>2. ASSUME NEW k \in Instance, Running(k)'
        PROVE  pc'[k] = "sleep" /\ timer'[k] = Interval
    <3>1. CASE Running(k)
      BY <1>3, <3>1, FreshKept DEF WaitAt
    <3>2. CASE ~Running(k)
      BY <2>2, <3>2, ResumedSleeps
    <3>3. QED BY <3>1, <3>2
  <2>3. ASSUME Waiting(i)' PROVE Budget(i)'
    <3>1. \A k \in Instance : ~Running(k) /\ ~Running(k)'
      BY <1>3, <2>3, FreshKept DEF WaitAt, Waiting
    <3>2. Budget(i) /\ InLoop(i)
      BY <2>1, <3>1 DEF WaitAt, Waiting, Ready
    <3>3. ASSUME NEW j \in Instance, Step(j) PROVE Budget(i)'
      BY <2>1, <3>1, <3>2, <3>3, BudgetSetNX, BudgetRenew, BudgetReply, BudgetRelease,
         BudgetOthers DEF Step
    <3>4. ASSUME NEW j \in Instance, Environment(j) PROVE Budget(i)'
      <4>1. Start(j) \/ Reconnect(j)
        BY <3>4 DEF Environment, Stop, Crash, Disconnect, TypeOK
      <4>2. QED BY <2>1, <3>2, <4>1, BudgetOthers
    <3>5. CASE UNCHANGED vars
      BY <3>2, <3>5 DEF vars, Budget, AnswerComes, LockIsFree, LockExpires
    <3>6. QED BY <3>3, <3>4, <3>5 DEF Next
  <2>4. QED BY <1>1, <2>1, <2>2, <2>3 DEF WaitAt
<1>4. QED BY <1>1, <1>2, <1>3

LEMMA FaultsClearWaits ==
    ASSUME TypeOK, [Next]_vars
    PROVE  \/ Tick
           \/ UNCHANGED <<wait, faults>>
           \/ wait' = [j \in Instance |-> 0]
  BY DEF Next, Step, Environment, SetNX, Renew, Reply, CallFails, Release, Finish,
         Start, Stop, Crash, Disconnect, Reconnect, vars

LEMMA WaitStep ==
    WaitFacts /\ WaitFacts' /\ WaitInv /\ [Next]_vars => WaitInv'
<1> SUFFICES ASSUME WaitFacts, WaitFacts', WaitInv, [Next]_vars, NEW i \in Instance
             PROVE  WaitAt(i)'
  BY DEF WaitInv
<1>1. TypeOK /\ WaitAt(i)
  BY DEF WaitFacts, WaitInv
<1>2. CASE Tick
  BY <1>1, <1>2, WaitTick
<1>3. CASE wait' = [j \in Instance |-> 0]
  BY <1>3, WaitFault
<1>4. CASE ~Tick /\ UNCHANGED <<wait, faults>>
  BY <1>1, <1>4, WaitAction
<1>5. QED BY <1>1, <1>2, <1>3, <1>4, FaultsClearWaits

\* Replicas that reach Redis are never without a running scheduler for longer than
\* MaxWait, for any number of replicas, every TTL and every delay: whichever of
\* them crash, shut down or lose their answers before.
THEOREM TakeoverInTime == Spec => []TakeoverBound
<1>1. Init => WaitFacts /\ WaitInv
  BY TypeInit, SchedInit, HoldInit, KeyInit, WaitInit DEF WaitFacts
<1>2. WaitFacts /\ [Next]_vars => WaitFacts'
  BY TypeStep, SchedStep, HoldStep, KeyStep DEF WaitFacts
<1>3. WaitInv => TakeoverBound
  BY DEF WaitInv, WaitAt, TakeoverBound
<1>4. QED
  BY <1>1, <1>2, <1>3, WaitStep, PTL DEF Spec
=============================================================================
