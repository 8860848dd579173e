---------------------------- MODULE NotifierProofs ----------------------------
(***************************************************************************)
(* Theorems about Notifier, for any list of providers, any set of          *)
(* unreliable ones and any threshold.  What relates Redis to what was      *)
(* announced needs the one runner per service that max_instances=1 and a   *)
(* single active replica give.                                             *)
(***************************************************************************)
EXTENDS Notifier, TLAPS

OneRunner == \E r \in Runner : Runner = {r}

LEMMA ThresholdType == Threshold \in Nat /\ Threshold >= 1
  BY NotifierAssumption DEF Threshold, AtLeastOne

LEMMA BumpType ==
    ASSUME NEW n \in 0..FailCap
    PROVE  Bump(n) \in 0..FailCap
  BY NotifierAssumption DEF Bump

-----------------------------------------------------------------------------
(* Types.                                                                  *)

\* TypeOK with what makes it inductive: a runner points at a provider of the
\* list whenever it is about to send.
ProvInv ==
    \A r \in Runner :
        /\ pc[r] \notin {"send", "set"} => prov[r] = 1
        /\ pc[r] = "send" => prov[r] <= NumProviders

TypeInv == TypeOK /\ ProvInv

LEMMA TypeInit == Init => TypeInv
<1> SUFFICES ASSUME Init PROVE TypeInv
  OBVIOUS
<1>1. torn \in BOOLEAN
  BY DEF Init
<1>2. TypeOK
  BY <1>1, NotifierAssumption, ThresholdType DEF Init, TypeOK, Outcome, PC
<1>3. QED
  BY <1>2, NotifierAssumption DEF Init, TypeInv, ProvInv

LEMMA TypeStep == TypeInv /\ [Next]_vars => TypeInv'
<1> SUFFICES ASSUME TypeInv, [Next]_vars PROVE TypeInv'
  OBVIOUS
<1> USE NotifierAssumption, BumpType
    DEF TypeInv, ProvInv, TypeOK, PC, Outcome, Unhealthy
<1>1. CASE HealthChange
  BY <1>1 DEF HealthChange
<1>2. ASSUME NEW r \in Runner, Begin(r) PROVE TypeInv'
  BY <1>2 DEF Begin
<1>3. ASSUME NEW r \in Runner, GetState(r) PROVE TypeInv'
  BY <1>3 DEF GetState
<1>4. ASSUME NEW r \in Runner, DeleteFails(r) PROVE TypeInv'
  BY <1>4 DEF DeleteFails, Cleared, AfterUp
<1>5. ASSUME NEW r \in Runner, IncrFails(r) PROVE TypeInv'
  <2>1. /\ fails' \in 0..FailCap
        /\ UNCHANGED <<health, state, told, row, torn, aborts>>
    BY <1>5 DEF IncrFails
  <2>2. CASE Return(r)
    BY <1>5, <2>1, <2>2 DEF IncrFails, Return
  <2>3. CASE pc' = [pc EXCEPT ![r] = "send"] /\ UNCHANGED <<cur, conf, prov>>
    BY <1>5, <2>1, <2>3 DEF IncrFails
  <2>4. QED BY <1>5, <2>2, <2>3 DEF IncrFails
<1>6. ASSUME NEW r \in Runner, Deliver(r) PROVE TypeInv'
  BY <1>6 DEF Deliver, NextProvider, IsLast, Provider
<1>7. ASSUME NEW r \in Runner, SendFails(r) PROVE TypeInv'
  BY <1>7 DEF SendFails, NextProvider, IsLast, Swallow
<1>8. ASSUME NEW r \in Runner, SetState(r) PROVE TypeInv'
  <2>1. torn' \in BOOLEAN
    BY <1>8, Zenon DEF SetState
  <2>2. QED BY <1>8, <2>1 DEF SetState, Return
<1>9. ASSUME NEW r \in Runner, Abort(r) PROVE TypeInv'
  <2>1. torn' \in BOOLEAN
    BY <1>9, Zenon DEF Abort
  <2>2. QED BY <1>9, <2>1 DEF Abort, Return
<1>10. CASE UNCHANGED vars
  BY <1>10 DEF vars
<1>11. QED
  BY <1>1, <1>2, <1>3, <1>4, <1>5, <1>6, <1>7, <1>8, <1>9, <1>10 DEF Next, Step

\* Every variable keeps its type, with any number of runners: in particular
\* nobody sends past the end of the provider list.
THEOREM TypeCorrect == Spec => []TypeOK
<1>1. TypeInv => TypeOK
  BY DEF TypeInv
<1>2. QED
  BY <1>1, TypeInit, TypeStep, PTL DEF Spec

-----------------------------------------------------------------------------
(* What Redis says and what was announced.                                 *)

\* The strengthening of ToldAgrees and NoRepeat for one run: what the run read
\* is still true, it broadcasts only news, providers before prov[r] know the
\* news, and, unless torn, the others know what the state key says.
RunInv(r) ==
    /\ pc[r] \in {"delete", "incr", "send", "set"} => conf[r] = state
    /\ pc[r] = "send" => Norm(state) # cur[r]
    /\ pc[r] = "incr" => cur[r] \in Unhealthy
    /\ pc[r] = "delete" => cur[r] = "up"
    /\ pc[r] = "set" => \/ prov[r] = 1 /\ Norm(state) = cur[r]
                        \/ prov[r] = NumProviders + 1
    /\ \A p \in Reliable : p < prov[r] => told[p] = cur[r]
    /\ ~torn => \A p \in Reliable : p >= prov[r] => told[p] = Norm(state)

AgreeInv == \A r \in Runner : RunInv(r)

LEMMA AgreeInit == Init => AgreeInv
  BY NotifierAssumption DEF Init, AgreeInv, RunInv, Reliable, Provider, Norm

\* The steps of one run, while no other is in progress.
LEMMA RunStep ==
    ASSUME TypeInv, NEW r \in Runner, RunInv(r), HealthChange \/ Step(r) \/ Abort(r)
    PROVE  RunInv(r)'
<1>1. CASE HealthChange
  BY <1>1 DEF HealthChange, RunInv, Norm
<1> USE NotifierAssumption
    DEF RunInv, TypeInv, ProvInv, TypeOK, Outcome, Unhealthy, Norm
<1>2. CASE Begin(r)
  <2>1. /\ prov[r] = 1 /\ UNCHANGED <<state, prov, told, torn>>
        /\ pc'[r] = "get"
    BY <1>2 DEF Begin
  <2>2. \A p \in Reliable : p \in Int /\ p >= 1
    BY DEF Reliable, Provider
  <2>3. QED BY <2>1, <2>2
<1>3. CASE GetState(r)
  BY <1>3 DEF GetState
<1>4. CASE DeleteFails(r)
  BY <1>4 DEF DeleteFails, Cleared, AfterUp
<1>5. CASE IncrFails(r)
  BY <1>5 DEF IncrFails, Confirms, Return, Reliable, Provider
<1>6. CASE Deliver(r)
  BY <1>6 DEF Deliver, NextProvider, IsLast, Reliable, Provider
<1>7. CASE SendFails(r)
  BY <1>7 DEF SendFails, NextProvider, IsLast, Swallow, Reliable, Provider
<1>8. CASE SetState(r)
  BY <1>8 DEF SetState, Return, Reliable, Provider
<1>9. CASE Abort(r)
  <2>1. ~torn' => ~torn /\ ~(prov[r] > 1)
    BY <1>9, Zenon DEF Abort
  <2>2. /\ UNCHANGED <<state, told>>
        /\ pc'[r] = "idle" /\ prov'[r] = 1
    BY <1>9 DEF Abort, Return
  <2>3. \A p \in Reliable : p \in Int /\ p >= 1
    BY DEF Reliable, Provider
  <2>4. ASSUME ~torn', NEW p \in Reliable PROVE told'[p] = Norm(state)'
    <3>1. ~torn /\ prov[r] = 1
      BY <2>1, <2>4
    <3>2. told[p] = Norm(state)
      BY <2>3, <3>1
    <3>3. QED BY <2>2, <3>2
  <2>5. QED BY <2>2, <2>3, <2>4
<1>10. QED
  BY <1>1, <1>2, <1>3, <1>4, <1>5, <1>6, <1>7, <1>8, <1>9 DEF Step

LEMMA AgreeStep ==
    ASSUME OneRunner
    PROVE  TypeInv /\ AgreeInv /\ [Next]_vars => AgreeInv'
<1> PICK r \in Runner : Runner = {r}
  BY DEF OneRunner
<1> SUFFICES ASSUME TypeInv, RunInv(r), [Next]_vars PROVE RunInv(r)'
  BY DEF AgreeInv
<1>1. CASE UNCHANGED vars
  BY <1>1 DEF vars, RunInv, Norm
<1>2. CASE Next
  BY <1>2, RunStep DEF Next
<1>3. QED
  BY <1>1, <1>2

\* Between two runs every provider that works has last delivered the state the
\* key holds, unless a broadcast was interrupted.
THEOREM RedisAgreesWithAlerts ==
    ASSUME OneRunner
    PROVE  Spec => []ToldAgrees
<1>1. Init => TypeInv /\ AgreeInv
  BY TypeInit, AgreeInit
<1>2. TypeInv /\ AgreeInv /\ [Next]_vars => (TypeInv /\ AgreeInv)'
  BY TypeStep, AgreeStep
<1>3. TypeInv /\ AgreeInv => ToldAgrees
  BY NotifierAssumption
     DEF OneRunner, TypeInv, ProvInv, TypeOK, AgreeInv, RunInv, ToldAgrees, Quiet,
         Reliable, Provider
<1>4. QED
  BY <1>1, <1>2, <1>3, PTL DEF Spec

\* Nobody is told what they already know, unless a broadcast was interrupted.
THEOREM NobodyIsToldTwice ==
    ASSUME OneRunner
    PROVE  Spec => []NoRepeat
<1>1. Init => TypeInv /\ AgreeInv
  BY TypeInit, AgreeInit
<1>2. TypeInv /\ AgreeInv /\ [Next]_vars => (TypeInv /\ AgreeInv)'
  BY TypeStep, AgreeStep
<1>3. TypeInv /\ AgreeInv => NoRepeat
  BY NotifierAssumption
     DEF TypeInv, TypeOK, AgreeInv, RunInv, NoRepeat, Reliable, Provider
<1>4. QED
  BY <1>1, <1>2, <1>3, PTL DEF Spec

-----------------------------------------------------------------------------
(* The failure streak, as long as no run was interrupted.                  *)

\* The counter in Redis is the streak that was observed, except between a probe
\* and the moment its outcome is counted.
StreakAt(r) ==
    /\ pc[r] \in {"idle", "send", "set"} => fails = row
    /\ (pc[r] \in {"get", "incr"} /\ cur[r] \in Unhealthy) => row = Bump(fails)
    /\ (pc[r] \in {"get", "delete"} /\ cur[r] = "up") => row = 0
    /\ (pc[r] \in {"send", "set"} /\ cur[r] \in Unhealthy) => fails >= Threshold

StreakInv == aborts = 0 => \A r \in Runner : StreakAt(r)

LEMMA StreakInit == Init => StreakInv
  BY DEF Init, StreakInv, StreakAt, Unhealthy

LEMMA StreakStep ==
    ASSUME OneRunner
    PROVE  TypeInv /\ AgreeInv /\ StreakInv /\ [Next]_vars => StreakInv'
<1> PICK r \in Runner : Runner = {r}
  BY DEF OneRunner
<1> SUFFICES ASSUME TypeInv, AgreeInv, StreakInv, [Next]_vars, aborts' = 0
             PROVE  StreakAt(r)'
  BY DEF StreakInv
<1> USE NotifierAssumption, ThresholdType
    DEF StreakInv, StreakAt, TypeInv, TypeOK, Outcome, Unhealthy
<1>1. CASE HealthChange
  BY <1>1 DEF HealthChange, Bump
<1>2. CASE Begin(r)
  BY <1>2 DEF Begin
<1>3. CASE GetState(r)
  BY <1>3 DEF GetState, Bump
<1>4. CASE DeleteFails(r)
  BY <1>4 DEF DeleteFails, Cleared, AfterUp, AgreeInv, RunInv
<1>5. CASE IncrFails(r)
  <2>1. /\ row' = row /\ fails' = Bump(fails) /\ aborts = 0
        /\ pc[r] = "incr" /\ cur[r] \in Unhealthy
    BY <1>5 DEF IncrFails, AgreeInv, RunInv
  <2>2. \/ pc'[r] = "send" /\ cur'[r] = cur[r] /\ fails' >= Threshold
        \/ pc'[r] = "idle"
    BY <1>5 DEF IncrFails, Confirms, Return
  <2>3. QED BY <2>1, <2>2
<1>6. CASE Deliver(r) \/ SendFails(r)
  BY <1>6 DEF Deliver, SendFails, NextProvider, IsLast, Swallow
<1>7. CASE SetState(r)
  BY <1>7 DEF SetState, Return
<1>8. CASE Abort(r)
  BY <1>8 DEF Abort
<1>9. CASE UNCHANGED vars
  BY <1>9 DEF vars, Bump
<1>10. QED
  BY <1>1, <1>2, <1>3, <1>4, <1>5, <1>6, <1>7, <1>8, <1>9 DEF Next, Step

\* An outage is announced only after a whole streak of failures was observed:
\* true as long as no run is interrupted (an interrupted healthy run leaves the
\* counter as it was).
THEOREM AlertedAfterStreak ==
    ASSUME OneRunner
    PROVE  Spec => []ConfirmedAfterStreak
<1>1. Init => TypeInv /\ AgreeInv /\ StreakInv
  BY TypeInit, AgreeInit, StreakInit
<1>2. TypeInv /\ AgreeInv /\ StreakInv /\ [Next]_vars
        => (TypeInv /\ AgreeInv /\ StreakInv)'
  BY TypeStep, AgreeStep, StreakStep
<1>3. StreakInv => ConfirmedAfterStreak
  BY DEF StreakInv, StreakAt, ConfirmedAfterStreak
<1>4. QED
  BY <1>1, <1>2, <1>3, PTL DEF Spec

-----------------------------------------------------------------------------
(* notify implements the contract.                                         *)

LEMMA ContractInitially ==
    ASSUME OneRunner
    PROVE  Init => Contract!ContractInit
  BY DEF OneRunner, Init, Contract!ContractInit, announced, Announcing, Norm

\* A step of one run, while no other run announces anything.
LEMMA RunImplements ==
    ASSUME TypeInv, NEW r \in Runner, RunInv(r), HealthChange \/ Step(r) \/ Abort(r),
           Announcing \subseteq {r}, Announcing' \subseteq {r}
    PROVE  [Contract!ContractNext]_(Contract!contractVars)
<1> SUFFICES Contract!ContractNext \/ UNCHANGED <<announced, Norm(state), fails>>
  BY DEF Contract!contractVars
<1>1. announced = IF pc[r] \in {"send", "set"} THEN cur[r] ELSE Norm(state)
  BY DEF announced, Announcing
<1>2. announced' = IF pc'[r] \in {"send", "set"} THEN cur'[r] ELSE Norm(state')
  BY DEF announced, Announcing, Norm
<1>3. /\ pc[r] \in PC /\ state \in Outcome \union {"none"} /\ cur[r] \in Outcome
      /\ pc \in [Runner -> PC] /\ cur \in [Runner -> Outcome]
    BY DEF TypeInv, TypeOK
<1>4. CASE HealthChange
  BY <1>1, <1>2, <1>4 DEF HealthChange, Norm
<1>5. CASE Begin(r) \/ GetState(r)
  BY <1>1, <1>2, <1>3, <1>5 DEF Begin, GetState, Norm
<1>6. CASE DeleteFails(r)
  <2>1. announced = Norm(state) /\ Norm(state)' = Norm(state)
    BY <1>1, <1>6 DEF DeleteFails, Norm
  <2>2. announced' = "up" /\ fails' = 0
    BY <1>1, <1>2, <1>3, <1>6
       DEF DeleteFails, Cleared, AfterUp, RunInv, Unhealthy, Outcome, Norm
  <2>3. QED BY <2>1, <2>2 DEF Contract!ContractNext, Contract!Healthy
<1>7. CASE IncrFails(r)
  <2>1. cur[r] \in Unhealthy /\ conf[r] = state /\ pc[r] = "incr"
    BY <1>7 DEF IncrFails, RunInv
  <2>2. fails' = Bump(fails) /\ UNCHANGED state /\ Norm(state)' = Norm(state)
    BY <1>7 DEF IncrFails, Norm
  <2>3. announced = Norm(state)
    BY <1>1, <2>1
  <2>4. CASE Confirms(r, fails')
    <3>1. pc'[r] = "send" /\ cur'[r] = cur[r]
      BY <1>3, <1>7, <2>4 DEF IncrFails
    <3>2. announced' = cur[r] /\ fails' >= Threshold
      BY <1>2, <2>4, <3>1 DEF Confirms
    <3>3. QED
      BY <2>1, <2>2, <2>3, <3>2
         DEF Contract!ContractNext, Contract!Failing, Contract!Unhealthy, Unhealthy, Bump
  <2>5. CASE ~Confirms(r, fails')
    <3>1. pc'[r] = "idle"
      BY <1>3, <1>7, <2>5 DEF IncrFails, Return
    <3>2. announced' = Norm(state)
      BY <1>2, <2>2, <3>1
    <3>3. fails' >= Threshold => announced' = cur[r]
      BY <2>1, <2>5, <3>2 DEF Norm, Unhealthy, Confirms
    <3>4. QED
      BY <2>1, <2>2, <2>3, <3>2, <3>3
         DEF Contract!ContractNext, Contract!Failing, Contract!Unhealthy, Unhealthy, Bump
  <2>6. QED BY <2>4, <2>5
<1>8. CASE Deliver(r) \/ SendFails(r)
  BY <1>1, <1>2, <1>3, <1>8
     DEF Deliver, SendFails, NextProvider, IsLast, Swallow, Norm
<1>9. CASE SetState(r)
  <2>1. /\ announced = cur[r] /\ state' = cur[r] /\ fails' = fails
        /\ pc'[r] = "idle"
    BY <1>1, <1>3, <1>9 DEF SetState, Return
  <2>2. Norm(state)' = announced /\ announced' = announced
    BY <1>2, <1>3, <2>1 DEF Norm, Outcome
  <2>3. QED BY <2>1, <2>2 DEF Contract!ContractNext, Contract!Keep
<1>10. CASE Abort(r)
  <2>1. fails' = fails /\ state' = state /\ pc'[r] = "idle"
    BY <1>3, <1>10 DEF Abort, Return
  <2>2. announced' = Norm(state) /\ Norm(state)' = Norm(state)
    BY <1>2, <2>1 DEF Norm
  <2>3. QED BY <2>1, <2>2 DEF Contract!ContractNext, Contract!TakeBack
<1>11. QED
  BY <1>4, <1>5, <1>6, <1>7, <1>8, <1>9, <1>10 DEF Step

LEMMA ContractStep ==
    ASSUME OneRunner
    PROVE  TypeInv /\ AgreeInv /\ [Next]_vars
             => [Contract!ContractNext]_(Contract!contractVars)
<1> PICK r \in Runner : Runner = {r}
  BY DEF OneRunner
<1> SUFFICES ASSUME TypeInv, RunInv(r), [Next]_vars
             PROVE  [Contract!ContractNext]_(Contract!contractVars)
  BY DEF AgreeInv
<1>1. CASE UNCHANGED vars
  BY <1>1 DEF vars, Contract!contractVars, announced, Announcing, Norm
<1>2. CASE Next
  BY <1>2, RunImplements DEF Next, Announcing
<1>3. QED BY <1>1, <1>2

\* The seven awaits of notify are the two steps of the contract, taking effect
\* and being kept or taken back, for every threshold and list of providers and
\* any number of interruptions.
THEOREM NotifyImplementsContract ==
    ASSUME OneRunner
    PROVE  Spec => ImplementsContract
<1>1. Init => TypeInv /\ AgreeInv /\ Contract!ContractInit
  BY TypeInit, AgreeInit, ContractInitially
<1>2. TypeInv /\ AgreeInv /\ [Next]_vars => (TypeInv /\ AgreeInv)'
  BY TypeStep, AgreeStep
<1>3. TypeInv /\ AgreeInv /\ [Next]_vars
        => [Contract!ContractNext]_(Contract!contractVars)
  BY ContractStep
<1>4. QED
  BY <1>1, <1>2, <1>3, PTL DEF Spec, ImplementsContract, Contract!ContractSpec
=============================================================================
