------------------------------- MODULE Notifier -------------------------------
(***************************************************************************)
(* Notifier.notify (alerts/notifier.py) for one service, one step per      *)
(* await.  A runner is a job run that has an outcome and calls notify; the *)
(* scheduler has one per service (max_instances=1), two replicas that      *)
(* overlap have two.  Keys of different services are disjoint, so one      *)
(* service is enough.                                                      *)
(*                                                                         *)
(* "told", "row", "torn" and "aborts" are history: no action of the code   *)
(* reads them.                                                             *)
(***************************************************************************)
EXTENDS Integers

CONSTANTS
    Runner,            \* concurrent callers of notify
    NumProviders,      \* length of the provider list; provider p is its p-th
    Unreliable,        \* the providers whose send may raise
    FailureThreshold,  \* settings.failure_threshold, any integer
    FailCap,           \* the failure counter saturates here (bound)
    MaxAborts          \* how many runs may die half way (bound)

AtLeastOne(n) == IF n < 1 THEN 1 ELSE n

\* self._failure_threshold
Threshold == AtLeastOne(FailureThreshold)

Provider == 1..NumProviders
Reliable == Provider \ Unreliable

ASSUME NotifierAssumption ==
    /\ NumProviders \in Nat \ {0}
    /\ Unreliable \subseteq Provider
    /\ FailureThreshold \in Int
    /\ FailCap \in Nat
    /\ FailCap >= Threshold
    /\ MaxAborts \in Nat

VARIABLES
    health,    \* what a probe of the service would find now
    state,     \* Redis monitor:state:<name>, "none" when the key is absent
    fails,     \* Redis monitor:fails:<name>, 0 when the key is absent
    pc,        \* pc[r]: the await runner r is at, "idle" outside notify
    cur,       \* cur[r]: current_state, the outcome r was called with
    conf,      \* conf[r]: confirmed_state, as r read it
    prov,      \* prov[r]: the provider r sends to next; 1 before a broadcast
    told,      \* told[p]: the last state a message delivered by p spoke of
    row,       \* unhealthy outcomes in a row up to now (saturates at FailCap)
    torn,      \* a broadcast began and its state was never recorded
    aborts     \* runs that died half way so far

vars == <<health, state, fails, pc, cur, conf, prov, told, row, torn, aborts>>

Outcome == {"up", "down", "degraded"}
Unhealthy == {"down", "degraded"}      \* _UNHEALTHY
PC == {"idle", "get", "delete", "incr", "send", "set"}

Bump(n) == IF n < FailCap THEN n + 1 ELSE n

\* An absent state key means what "up" means: nothing to recover from.
Norm(s) == IF s = "none" THEN "up" ELSE s

TypeOK ==
    /\ health \in Outcome
    /\ state \in Outcome \union {"none"}
    /\ fails \in 0..FailCap
    /\ pc \in [Runner -> PC]
    /\ cur \in [Runner -> Outcome]
    /\ conf \in [Runner -> Outcome \union {"none"}]
    /\ prov \in [Runner -> 1..(NumProviders + 1)]
    /\ told \in [Provider -> Outcome]
    /\ row \in 0..FailCap
    /\ torn \in BOOLEAN
    /\ aborts \in 0..MaxAborts

Init ==
    /\ health = "up"
    /\ state = "none"
    /\ fails = 0
    /\ pc = [r \in Runner |-> "idle"]
    /\ cur = [r \in Runner |-> "up"]
    /\ conf = [r \in Runner |-> "none"]
    /\ prov = [r \in Runner |-> 1]
    /\ told = [p \in Provider |-> "up"]
    /\ row = 0
    /\ torn = FALSE
    /\ aborts = 0

-----------------------------------------------------------------------------
(* The environment.                                                        *)

HealthChange ==
    /\ health' \in Outcome \ {health}
    /\ UNCHANGED <<state, fails, pc, cur, conf, prov, told, row, torn, aborts>>

-----------------------------------------------------------------------------
(* One call of notify.                                                     *)

\* notify returns or raises, and its locals are gone.
Return(r) ==
    /\ pc' = [pc EXCEPT ![r] = "idle"]
    /\ cur' = [cur EXCEPT ![r] = "up"]
    /\ conf' = [conf EXCEPT ![r] = "none"]
    /\ prov' = [prov EXCEPT ![r] = 1]

\* A probe has found the service in some state and the job calls notify.
Begin(r) ==
    /\ pc[r] = "idle"
    /\ cur' = [cur EXCEPT ![r] = health]
    /\ row' = IF health \in Unhealthy THEN Bump(row) ELSE 0
    /\ pc' = [pc EXCEPT ![r] = "get"]
    /\ UNCHANGED <<health, state, fails, conf, prov, told, torn, aborts>>

GetState(r) ==
    /\ pc[r] = "get"
    /\ conf' = [conf EXCEPT ![r] = state]
    /\ pc' = [pc EXCEPT ![r] = IF cur[r] \in Unhealthy THEN "incr" ELSE "delete"]
    /\ UNCHANGED <<health, state, fails, cur, prov, told, row, torn, aborts>>

\* Seeded mistakes: a healthy outcome that leaves the streak; a first healthy
\* outcome that is announced as a recovery; a recovery that is not announced.
KeptStreak == fails
AfterFirstUp(r) == IF conf[r] # "up" THEN "send" ELSE "set"
SilentRecovery(r) == IF conf[r] = "degraded" THEN "send" ELSE "set"

Cleared == 0
AfterUp(r) == IF conf[r] \in Unhealthy THEN "send" ELSE "set"

\* A healthy outcome: clear the streak, announce a recovery if there is one.
DeleteFails(r) ==
    /\ pc[r] = "delete"
    /\ fails' = Cleared
    /\ pc' = [pc EXCEPT ![r] = AfterUp(r)]
    /\ UNCHANGED <<health, state, cur, conf, prov, told, row, torn, aborts>>

\* Seeded mistakes: an alert per failure, one failure late, on the threshold only.
ConfirmsAgain(r, n) == n >= Threshold
ConfirmsLate(r, n) == n > Threshold /\ conf[r] # cur[r]
ConfirmsOnce(r, n) == n = Threshold /\ conf[r] # cur[r]

Confirms(r, n) == n >= Threshold /\ conf[r] # cur[r]

\* An unhealthy outcome: only confirmed by a long streak and only if it is news.
IncrFails(r) ==
    /\ pc[r] = "incr"
    /\ fails' = Bump(fails)
    /\ \/ /\ Confirms(r, fails')
          /\ pc' = [pc EXCEPT ![r] = "send"]
          /\ UNCHANGED <<cur, conf, prov>>
       \/ ~Confirms(r, fails') /\ Return(r)
    /\ UNCHANGED <<health, state, told, row, torn, aborts>>

\* Seeded mistake: the loop over the providers runs one too far.
OneTooFar(r) == prov[r] > NumProviders

IsLast(r) == prov[r] = NumProviders

NextProvider(r) ==
    /\ prov' = [prov EXCEPT ![r] = @ + 1]
    /\ pc' = [pc EXCEPT ![r] = IF IsLast(r) THEN "set" ELSE "send"]
    /\ UNCHANGED <<cur, conf>>

\* One turn of the loop of _broadcast in which provider.send returns ...
Deliver(r) ==
    /\ pc[r] = "send"
    /\ told' = [told EXCEPT ![prov[r]] = cur[r]]
    /\ NextProvider(r)
    /\ UNCHANGED <<health, state, fails, row, torn, aborts>>

\* Seeded mistake: the exception leaves the loop, and the run.
Escape(r) == Return(r)

Swallow(r) == NextProvider(r)

\* ... and one in which it raises: the exception is logged and swallowed.
SendFails(r) ==
    /\ pc[r] = "send"
    /\ prov[r] \in Unreliable
    /\ Swallow(r)
    /\ UNCHANGED <<health, state, fails, told, row, torn, aborts>>

SetState(r) ==
    /\ pc[r] = "set"
    /\ state' = cur[r]
    /\ torn' = (torn /\ prov[r] = 1)
    /\ Return(r)
    /\ UNCHANGED <<health, fails, told, row, aborts>>

\* A Redis call raises, before or after its effect, the job is cancelled or
\* the process dies: notify has no handler and nothing is undone.
Abort(r) ==
    /\ pc[r] # "idle"
    /\ aborts < MaxAborts
    /\ aborts' = aborts + 1
    /\ torn' = (torn \/ prov[r] > 1)
    /\ Return(r)
    /\ UNCHANGED <<health, state, fails, told, row>>

-----------------------------------------------------------------------------

Step(r) ==
    \/ Begin(r)
    \/ GetState(r)
    \/ DeleteFails(r)
    \/ IncrFails(r)
    \/ Deliver(r)
    \/ SendFails(r)
    \/ SetState(r)

Next ==
    \/ HealthChange
    \/ \E r \in Runner : Step(r)
    \/ \E r \in Runner : Abort(r)

Spec == Init /\ [][Next]_vars

\* The interval trigger fires for as long as the scheduler runs, and every
\* await of notify ends: Redis answers or raises, a provider has a timeout.
\* The service changes, and a run dies, only if it happens to.
Fairness == \A r \in Runner : WF_vars(Step(r))

FairSpec == Spec /\ Fairness

-----------------------------------------------------------------------------
(* Safety, for one runner (max_instances=1, one active replica).           *)

Quiet == \A r \in Runner : pc[r] \notin {"send", "set"}

\* The state key is the truth about what was announced: between two runs each
\* provider that works last delivered the state the key holds, unless a
\* broadcast was interrupted.  notify must broadcast before it records, to
\* everybody, and record whatever it broadcast (notifier.py:70-84).
ToldAgrees ==
    (Quiet /\ ~torn) => \A p \in Reliable : told[p] = Norm(state)

\* "Repeated failures never spam once an alert has fired" (notifier.py:41-42):
\* nobody is told again what they already know, unless a broadcast was
\* interrupted and has to be repeated.
NoRepeat ==
    \A r \in Runner : \A p \in Reliable :
        (pc[r] = "send" /\ prov[r] = p /\ ~torn) => told[p] # cur[r]

\* "An unhealthy state must be observed failure_threshold times in a row before
\* it is confirmed and alerted" (notifier.py:38-39): the counter in Redis never
\* runs ahead of the outcomes that were observed, as long as no run has died (a
\* healthy run that dies before its DELETE leaves the old failures counted).
ConfirmedAfterStreak ==
    \A r \in Runner :
        (pc[r] \in {"send", "set"} /\ cur[r] \in Unhealthy /\ aborts = 0)
            => row >= Threshold

\* "The persisted state key tracks the last confirmed (alerted) state"
\* (notifier.py:40-41), read literally: an outage is recorded as alerted only
\* if somebody was told of it.
ConfirmedReachesSomeone ==
    state \in Unhealthy => \E p \in Provider : told[p] \in Unhealthy

-----------------------------------------------------------------------------
(* Refinement: notify is the contract.  An outcome takes effect when the   *)
(* streak is updated; from then on the broadcast is under way and the      *)
(* contract counts it as told; the state key is what the contract keeps.   *)

Announcing == {r \in Runner : pc[r] \in {"send", "set"}}

announced ==
    IF Announcing = {} THEN Norm(state) ELSE cur[CHOOSE r \in Announcing : TRUE]

Contract ==
    INSTANCE AlertContract WITH told <- announced, kept <- Norm(state), streak <- fails

\* With one runner every step of notify is a step of the contract or a stutter,
\* and a run that dies takes back its announcement or nothing (notifier.py:62-84).
ImplementsContract == Contract!ContractSpec

-----------------------------------------------------------------------------
(* Liveness.                                                               *)

\* A service that stays in one state gets that state recorded for good, with
\* any number of runners, failing providers and interrupted runs.
EventuallyConfirmed ==
    \A s \in Outcome : <>[](health = s) => <>[](Norm(state) = s)

\* The operators end up knowing the state a service stays in, from every provider
\* that works, whatever the other providers do and whichever runs died, unless a
\* torn broadcast is never made good.
OperatorsLearn ==
    \A s \in Outcome :
        <>[](health = s /\ ~torn) => <>[](\A p \in Reliable : told[p] = s)
=============================================================================
