# TLA+ verification of infra-health-monitor

This directory models the logic of the health monitor in TLA+, model-checks it
with TLC on small instances and proves its main invariants with TLAPS. Every
definition is translated from the source; `PROJECT.json` ("map") names the
lines each one stands for. The repository is `../src/`; paths below are relative to
`src/src/monitor/` unless they start with `src/`.

    tlc -workers 2 -config leader.cfg MCLeaderElection
    tlapm LeaderElectionProofs.tla

1. [The system](#1-the-system)
2. [The models](#2-the-models)
3. [The runs](#3-the-runs)
4. [The proofs](#4-the-proofs)
5. [Where the code and its documentation disagree](#5-where-the-code-and-its-documentation-disagree)
6. [What is abstracted and what is not modelled](#6-what-is-abstracted-and-what-is-not-modelled)
7. [Plan](#7-plan)

## 1. The system

One process is a FastAPI application on one asyncio event loop. It reads a list
of services from `services.yaml`, checks each of them at its own interval,
stores every result in a SQL database, exports Prometheus metrics, and tells
the operators through Discord and Telegram when a service changes state. Several replicas may
run; a lock in Redis decides which one checks.

| Component | State | Operations | Talks to |
|---|---|---|---|
| Alert notifier (`alerts/notifier.py`) | Redis `monitor:state:<name>`, `monitor:fails:<name>` | `notify`, `_broadcast` | Redis; the providers, one after the other |
| Leader election (`leader.py`, `main.py:112-142`, `lifespan`) | Redis `monitor:leader` with a TTL; per replica `was_leader`, `errors`, the sleeping loop | `acquire_or_renew`, `release`, `_leadership_loop` | Redis; the scheduler (pause, resume) |
| Scheduler and hot reload (`scheduler.py`, `main.py:463-484`) | one APScheduler job `check_<name>` per service, the runs in flight | the job run, `reconcile_jobs`, the daily purge | checks, database, metrics, notifier |
| API (`main.py`) | `app.state.services` | `/reload`, `/checks/run`, `/services`, `/uptime`, `/history`, `/checks/results` | scheduler, checks, database |
| Metrics (`metrics.py`) | the labelled series in the process | `record_outcome`, `clear_service` | scraped by Prometheus |
| Result store (`models.py`, `database.py`) | rows `(service, type, state, latency, timestamp)` | insert, the queries of the API, purge by age | SQL database |
| Checks (`checks/*.py`) | none | `run()` of HTTP, TCP and system checks | network, disk |
| Service configuration (`service_config.py`) | none | load and validate `services.yaml` | file system |
| Dashboard (`static/index.html`) | the loaded services, a cache of histories, the selection | overlapping asynchronous loads | the API |
| Alert providers (`alerts/discord.py`, `alerts/telegram.py`) | none | `send` | Discord, Telegram |
| Authentication, configuration, logging, tracing, packaging | none that matters here | | |

How they interact. The scheduler starts a run of a job at its time; the run awaits the
check, writes to the database, updates the metrics, then awaits the notifier, which awaits
Redis and the providers several times. Meanwhile the API may replace
or remove the job of that very run, or run a check of the same service by hand, and the
leadership loop may pause the scheduler. Between replicas everything
goes through Redis: the lock, and the alert state they share.

What is hard about it, and what makes each part correct:

* **Notifier.** Each `notify` is two awaits, and up to five when it announces, and there is no transaction: a Redis error,
  a cancellation or a crash leaves the part that was done. Correct means: nobody is told twice, nobody
  is left with a stale story, an outage is announced only after `failure_threshold`
  failures in a row, and a state that lasts is announced in the end.
* **Leader election.** A lease and local timers: the answer to a request can be lost after it took
  effect, the loop deliberately holds leadership through a Redis blip, a standby polls at half the TTL.
  Correct means: no two schedulers on valid leases, a bounded overlap otherwise, a bounded time without a
  leader, no needless step-down, and one leader once the faults are over.
* **Scheduler, reload and metrics.** A reload changes jobs whose runs are in flight, and it can
  itself fail half way. Correct means: the jobs are the services, what is unchanged goes on
  undisturbed, what is removed stops and leaves nothing behind.
* **Result store.** Rows with equal timestamps, a clock that is set back, a retention as long as
  the longest window, a commit that fails. Correct means: the queries agree with each other, the purge takes
  nothing that one of them still counts, and the gauge is the last result.
* **Checks.** The order of the tests decides the state of a probe that fails several of them; the API builds checks
  with the timeout and thresholds of the request instead of those of the file. Correct means: the worst verdict counts, and a check by other
  limits is no worse for laxer ones and no better for stricter ones.
* **Dashboard.** Requests that overlap and overtake each other, a cache between them and the page. Correct means: the
  sidebar settles on the service it names, and the page on what the server has.
* **Replicas together.** A leader that loses the lock has a check in flight. Correct means: without a
  fault one replica checks at a time, and the alert state survives whoever dies in the middle.

`PROJECT.json` lists the hazards one by one, each at its line, with the properties that
cover it or the reason why none does yet.

## 2. The models

    AlertContract <--refines-- Notifier          LeaderElection        Monitor
                                  |     \          /   |                  |
                                  |      HAMonitor     |                  |
                              MCNotifier    |   MCLeaderElection      MCMonitor
                         NotifierProofs MCHAMonitor LeaderElectionProofs MonitorProofs
                               |            |            |
                               +--- HAMonitorProofs -----+

                  Checks <--EXTENDS-- ResultStore         Dashboard
                    |                     |                   |
              ChecksProofs         MCResultStore         MCDashboard
                    +---- ResultStoreProofs             DashboardProofs

`HAMonitor` composes `LeaderElection` and an instance of `Notifier`. The others meet at named places: the
`notify` await of `Monitor` is one `Begin ... SetState` of `Notifier`; its `Probe` and `ManualDone` are
`ScheduledCheck` and `ManualCheck` of `ResultStore`; its `Pause` and `Resume` are `StandBy` and `Lead` of
`LeaderElection`; `Dashboard` sees of the server only how many results a service has.

### Notifier, AlertContract

`Notifier` is `Notifier.notify` for one service, one action per await. The keys of
different services are disjoint, so one service is enough. `Runner` is the set of
concurrent callers: the scheduler runs a job once at a time (`max_instances=1`), two replicas
whose leadership overlaps would make two.

| Model | Code |
|---|---|
| `state`, `fails` | the two Redis keys |
| `cur[r]`, `conf[r]`, `prov[r]` | `current_state`, `confirmed_state` and the loop over the providers |
| `Begin` | a run has an outcome and calls `notify` (`scheduler.py:84`) |
| `GetState` | GET and the branch on `_UNHEALTHY` |
| `DeleteFails`, `IncrFails` | the two branches: DELETE, or INCR and the comparison with the threshold |
| `Deliver`, `SendFails` | one turn of `_broadcast`, in which `send` returns or raises |
| `SetState` | SET of the state key |
| `Abort` | the run dies at any await: a Redis call raises, before or after its effect, the job is cancelled, the process dies |
| `HealthChange` | the service itself |

History variables that no action of the code reads: `told[p]` (what provider `p` last delivered),
`row` (unhealthy outcomes in a row as they were observed), `torn` (a broadcast began
and its state was not recorded), `aborts`.

`AlertContract` is the promise of the class docstring without the mechanism: an
outcome is one atomic step that updates the streak and what the operators are told.
`Notifier` implements it (`ImplementsContract`) with `streak <- fails` and
`told <- announced`: a broadcast under way counts as told.

### LeaderElection

All replicas, the Redis lock and discrete time. `Tick` is one second for the key expiry and for every
loop timer. A round of the loop is three steps, SET NX (`SetNX`), the
renewal script if the key existed (`Renew`), the reply (`Reply`), and a replica can
lose Redis between any two of them (`Disconnect`, then `CallFails`), also after the lock
was granted. `timer[i]` below zero means that the loop is late: a round
may be late or take `Delay` seconds in all.

| Model | Code |
|---|---|
| `holder`, `ttl` | `monitor:leader` and its expiry; `Gone` is the id of a dead process |
| `SetNX`, `Renew`, `Release`, `Owns` | `LeaderLock.acquire_or_renew`, `release` and the two Lua scripts |
| `Reply`, `CallFails`, `Lead`, `StandBy`, `Holds`, `Sleep` | the body of `_leadership_loop`: success, exception with its hold condition, resume, pause, sleep |
| `Start`, `Stop`, `Release`, `Finish` | `lifespan`: start paused; cancel the loop, release, shut the scheduler down |
| `Crash`, `Disconnect`, `Reconnect` | faults, at most `MaxFaults` (each reconnection pairs with a disconnection) |

History: `age[i]` (seconds since Redis granted `i` the lease), `wait[i]` (seconds `i` has
been up and connected while no scheduler runs; a fault anywhere resets it), `faults`.

### Monitor

One process: the jobs, their runs, the API and the series. The code between two awaits
is one step, because everything runs on one event loop; `/reload` has no await
between reading the file and answering, so it is one step too.

| Model | Code |
|---|---|
| `jobs`, `due`, `paused` | the APScheduler jobs with their `args[0]`, those at their `next_run_time`, the paused scheduler |
| `at`, `with` | the run of `check_<name>` and the config it was started with |
| `services` | `app.state.services` |
| `client` | requests to `/checks/run` that await their probe |
| `series`, `rows` | label sets exported by `/metrics`; services with a stored result |
| `Elapse`, `Fire` | the interval passes; the scheduler starts a run unless one of that id is in flight |
| `Probe`, `ProbeRaises`, `Notified` | the pieces of `_run_service_job` between its awaits; a database error is caught and the metric and alert go on |
| `Purge` | `_purge_old_results` |
| `Pause`, `Resume` | the leadership loop; runs missed for longer than the misfire grace time are dropped at `Resume` |
| `Reload`, `ReloadRaises` | `reconcile_jobs`; the second when the trigger refuses an interval, which happens after the old job was removed |
| `ManualRequest`, `ManualDone` | `/checks/run` before and after the probe |
| `Database` | the database becomes available or not |

A restart of the process is `Init`, which allows any rows and either role. History:
`halfway` (the last reload raised), `strays` (names with one of the known reasons for a
series that nobody clears).

### Checks, ResultStore

`Checks` is stateless: a service is its type, timeout and thresholds, a probe is what the network or psutil would answer now to whichever
check asks (how long it would keep the check waiting, and what it measures), and
`Outcome` classifies it as `run()` does, test by test. `Scheduled` and `Manual` are the two functions called
`_build_check`: the first takes the limits of `services.yaml`, the second those of a `Request` to `/checks/run`, or of the settings for a system check.
`FromDashboard` is the request that the page sends. The reference next to it gives every criterion its own verdict (`Verdicts`).

`ResultStore` is the table of one process, and what the two kinds of check write to it and to the status gauge.

| Model | Code |
|---|---|
| `rows`, `nextId` | `check_results` and its primary key |
| `gauge` | `monitor_service_status`, `none` without a series |
| `now` | the host's clock, which `Tick` advances and `SetBack` sets back |
| `ScheduledCheck` | `_run_service_job`: the commit may raise, with or without effect (`StoreRaises`), and the gauge is set anyway |
| `ManualCheck` | `/checks/run`: commit, then metric (`CommitThenRecord`); a commit that raises after it took effect leaves a row without a metric (`CommitRaises`), one without effect leaves nothing, which is no step |
| `Remove`, `Restart` | `clear_service` in a reload; a new process, where no series exists |
| `Purge`, `Expired` | `_purge_old_results` |
| `Newest`, `ServiceStatus` | `/services`: name and newest timestamp, joined back; with a tie any of the rows |
| `Uptime`, `History` | `/uptime` and `/history` over a log of rows |

History: `written` (every row ever), `peak` (the latest reading of the clock), `lost` (names whose last commit raised),
`asked` (the limits that the check behind the gauge went by), `deserved` (what the configured check would have said of the probe behind it).

### HAMonitor

Every replica of `LeaderElection` has at most one run in flight for the one service (`probing`, then `run[i]`, the `pc` of its
`Notifier` runner), and all share the state keys of Redis. `Fire` needs the replica's scheduler to run;
nothing ends a run that is in flight when the loop pauses the scheduler or `release` gives the lock away, as in the code. The end of the process
(`Exit`, `Die`) ends its run wherever it is; a run that reaches Redis while its replica is cut off dies there (`NotifyRaises`).

### Dashboard

The script of the page between two awaits is one step. A request is sent (`New`), answered by the server out of what it has
then (`Answer`) and delivered (`Deliver`), each at any time, so that answers overtake each other; it may
also fail at either end (`Fail`). Of a history only its age is kept: the number of results it had.

| Model | Code |
|---|---|
| `services`, `cached`, `fresh` | `services`; `historyCache[n].data`; those whose `ts` is within `HISTORY_TTL` |
| `selected`, `sidebar` | `selected`; the service whose rows, or "Loading...", fill `sidebar-content` |
| `Timer`, `Refresh`, `RunCheck`, `Select`, `CloseSidebar` | the auto-refresh and the user |
| `Services`, `AfterServices`, `GoesOn` | `loadServices` and what awaited it goes on with |
| `CacheFilled`, `SidebarFilled`, `Checked`, `Refused` | the ends of `loadAllHistory`, `loadHistory` and `runCheck` |

## 3. The runs

Runs marked *violation* show a documented statement that the code does not meet (section 5).
For every property of a passing run `PROJECT.json` lists a mutant, a plausible bug in
one definition (the operators commented as seeded mistakes), and TLC finds the property violated
with that bug in.

| Run | Question | States |
|---|---|---|
| `notifier` | Do the awaits of `notify` implement the atomic contract, with runs that die at any of them (`ImplementsContract`)? Does Redis agree with what was announced (`ToldAgrees`), are alerts never repeated (`NoRepeat`) and only after whole streaks (`ConfirmedAfterStreak`)? Is a lasting state recorded (`EventuallyConfirmed`) and learnt through the providers that work (`OperatorsLearn`)? | 15 387 |
| `notifier_lost_alert` | *violation* of `ConfirmedReachesSomeone` | |
| `leader` | No two valid leases (`ExclusiveLease`), the bound on holding (`HoldBound`) and on fail-over (`TakeoverBound`), loop and scheduler agree (`SchedulerFollowsLoop`), no needless step-down (`NoSpuriousStepDown`), one scheduler for good once the faults are over (`LeaderElected`) | 431 581 |
| `leader_takeover` | *violation* of `TakeoverWithinTTL` | |
| `leader_odd_ttl` | *violation* of `HoldsAtMostOneTTL` | |
| `ha` | Without a fault, does one replica check at a time (`NoOverlapWithoutFault`)? Does the alert state survive a change of leader (`ToldAcrossReplicas`), and are the replicas together one notifier until two calls meet (`KeepsContract`)? Is a lasting state recorded in the end, whoever dies and although runs of two replicas interleave (`ConfirmedInTheEnd`)? | 972 248 |
| `ha_double` | *violation* of `NoDoubleExecution` | |
| `monitor` | Jobs and services agree (`JobsMatchServices`), every left-over series has a known cause (`SeriesExplained`), checks go on (`KeepsChecking`, `KeepsProbing`, `ResultsStored`) or end (`RemovedStops`, of scheduled runs) as the file says | 173 520 |
| `monitor_ghost` | *violation* of `RemovedNotReported` | |
| `results` | Does the worst verdict count (`ResultsAreWorst`)? Do `/services` and `/history` agree (`ServicesAgree`), is the purge invisible to `/uptime` (`RetentionInvisible`), is the gauge the last result (`GaugeAgrees`), and does a manual check depart from the configured verdict only the way its limits do (`LimitsDecide`)? | 1 458 430 |
| `results_manual` | *violation* of `ThresholdsApply` | |
| `dashboard` | Does the sidebar settle on the service it names (`SidebarSettles`) and the page on what the server has (`PageCatchesUp`)? | 589 128 |

**Bounds, and why they are enough.**

* *notifier*: one runner, two providers of which the first may fail at any time (so a failure precedes a
  success in the list), threshold 2. `FailCap = 3` is one past the threshold: the code only compares the
  counter with the threshold, so saturation above it loses nothing. Two aborts, so that an
  abort can hit the repetition that the first one caused.
* *leader*: two replicas. TTL 6 and delay 1 are the least even TTL with room for a late renewal
  (`Interval + 2 * Delay < LockTTL`), and TLC reaches both bounds: a `MaxHold` or a `MaxWait` one
  lower is violated. Three faults: enough to crash a leader while the other replica is cut off, and
  back. Other instances were tried by hand: `ExclusiveLease` and `HoldBound` for TTLs 0, 1, 2, 3 and 5
  and delays 0 to 2, three replicas with TTL 4; `TakeoverBound` for nine pairs of TTLs from 0 to 8 and delays 1 and 2, each of which
  reaches the bound exactly. `NoSpuriousStepDown` and `LeaderElected` do need the inequality above (`RoomToRenew`); the bounds hold without. Finitely many
  faults only say that they end, which `LeaderElected` assumes anyway.
* *ha*: two replicas and one fault, the least for a change of leader in the middle of a run; one provider, threshold 1 and
  a service that is up or down, because streaks and broadcasts are the business of `notifier`. TTL 2 is the least with
  which a connected leader keeps its lease. `KeepsContract` was also tried with threshold 2, where one leader counts and the next announces. The replicas are alike, so it is enough that `i1` is the one that stays (`Staying`).
* *monitor*: two services and one caller. The first comes, goes and changes between an HTTPS and a TCP check
  whose probe raises; the second never goes but can be given an interval that the
  scheduler refuses. That covers removal, addition, replacement, a change of type, a reload that
  fails before, after or at the changed job, and interference between services. Services interact only
  through the file and the scheduler, so a third adds no new case; nothing is bounded in time.
  The run never stops, but `CHECK_DEADLOCK FALSE` is set because a process without services may.
* *results*: a site with a timeout and a latency threshold and a host check, two requests, the dashboard's with laxer limits than either service and one stricter than the site's, waits below and at a timeout, three results, clock readings 0 to 2, retention 1, windows
  1 and 2: a window that fits and one that does not, rows on, before and after the cutoff, ties of two and three rows, and a
  clock set back past a row. `ResultsAreWorst` goes through every type, thresholds 0, 2 and none, and measurements below, on and above
  them. The API asks for a threshold above 0 (`main.py:57-58`), the file does not (`service_config.py:12-18`).
  *results_manual* has the dashboard's request only, with a default timeout equal to the site's, so that what it finds is due to the thresholds.
* *dashboard*: the user or the timer starts a request only while fewer than `MaxFlight = 2` are in flight; a request that ends may
  send more than one, so up to four are. One service gets a result (two ages of a history), the other comes and goes; one failure.

**Fairness, and why the code justifies it.** `Notifier`: the interval trigger keeps
firing and every await ends, by an answer, an exception or a provider's HTTP timeout, so
each runner takes steps (`WF` of `Step(r)`). `LeaderElection`: time passes and the event loop of a live replica runs
(`WF` of `Tick` and `Step(i)`); starting, stopping, failing and reconnecting are not fair. `HAMonitor`: both of these, with
the subscript that tells a replica's loop from its run, so that neither starves the other.
`Monitor`: per service, time passes, a due job is started, a run in flight ends. Nobody has to call the API;
purge, leadership, database and callers are not fair. `Dashboard`: the timer fires, cache entries expire, and each kind of request is
answered and delivered in the end; the user and the server's changes are not fair. The timer has strong fairness, since the
bound `MaxFlight`, which the browser does not have, would otherwise let the user keep it disabled again and again; that the timer is neither
paused nor reset for ever (the refresh button and a choice of interval restart its count) is an assumption. All the rest
is weak fairness, so the liveness properties
state the environment they need as premises: a replica that stays up and connected, a job that is
no longer changed, a scheduler that is not paused, a probe that does not raise, a database that works, a server that no longer changes.

## 4. The proofs

All theorems hold for every value of the constants that the named assumptions
(`NotifierAssumption`, `LeaderAssumption`, `HAAssumption`, `MonitorAssumption`, `ChecksAssumption`, `StoreAssumption`, `DashboardAssumption`) allow. They are checked by tlapm, without unproved steps.

| Theorem | Property | Beyond the assumption |
|---|---|---|
| `NotifierProofs!TypeCorrect` | `TypeOK` | |
| `RedisAgreesWithAlerts` | `ToldAgrees` | one runner |
| `NobodyIsToldTwice` | `NoRepeat` | one runner |
| `AlertedAfterStreak` | `ConfirmedAfterStreak` | one runner |
| `NotifyImplementsContract` | `ImplementsContract` | one runner |
| `LeaderElectionProofs!TypeCorrect` | `TypeOK` | |
| `NoSplitBrain` | `ExclusiveLease` | |
| `SchedulerInStep` | `SchedulerFollowsLoop` | |
| `BoundedHold` | `HoldBound` | |
| `ConnectedLeaderStays` | `NoSpuriousStepDown` | `RoomToRenew` |
| `TakeoverInTime` | `TakeoverBound` | |
| `HAMonitorProofs!RefinesElection` | (`LeaderElection!Spec`) | |
| `RefinesNotifier` | (`Notifier!Spec`, a runner per replica) | |
| `ElectionPromises` | `ExclusiveLease`, `HoldBound`, `TakeoverBound`, `SchedulerFollowsLoop` of the composition | |
| `HATypeCorrect` | `HATypeOK` | |
| `CalmChecksOnce` | `NoOverlapWithoutFault` | `RoomToRenew` |
| `AlertStateIsHandedOver` | `ToldAcrossReplicas` | |
| `ReplicasKeepContract` | `KeepsContract` | |
| `CalmKeepsContract` | (the contract until the first fault, and no two calls that meet) | `RoomToRenew` |
| `MonitorProofs!TypeCorrect` | `TypeOK` | |
| `JobsAreServices` | `JobsMatchServices` | |
| `SeriesHaveACause` | `SeriesExplained` | |
| `ChecksProofs!WorstVerdict` | `StateIsWorst`, the part of `ResultsAreWorst` about any check | |
| `LaxerIsMilder` | (the step behind `LimitsDecide`) | |
| `ResultStoreProofs!TypeCorrect` | `TypeOK` | |
| `EveryResultIsWorst` | `ResultsAreWorst` | |
| `PurgeIsInvisible` | `RetentionInvisible` | |
| `ServicesShowTheNewest` | `ServicesAgree` | |
| `GaugeIsTheLastResult` | `GaugeAgrees` | |
| `GaugeFollowsLimits` | `LimitsDecide` | |
| `DashboardProofs!TypeCorrect` | `TypeOK` | |

`RoomToRenew` is `Interval + 2 * Delay < LockTTL`: a round that is as late and as slow as `Delay` allows still renews the lease. With the default TTL of 30 seconds
(`config.py`) it allows delays up to 7 seconds. Without it a leader loses its lease although nothing fails, and the theorems that name it are false.

*Notifier.* `ToldAgrees` only speaks of the moments between two runs, so the induction needs what is true
within one: while a broadcast is under way the working providers before `prov[r]` already
know `cur[r]` and those from it on still know the old state key, unless torn (`AgreeInv`). The streak needs
that `fails` is exactly the failures in a row outside the two awaits where they differ, the steps between the probe and
DELETE or INCR (`StreakInv`); that is what an abort destroys, and why the property speaks of no run having died. The
refinement maps each action to an atomic step of the contract or a stutter under these invariants; a run that dies takes its announcement
back (`TakeBack`), as the state key keeps the old state. One runner is necessary: two interleave GET and SET.

*LeaderElection.* `ExclusiveLease` follows from a relation between Redis and the clock: while the last grant to
`i` is younger than the TTL, and `i` has not let go of it, the key is still
held by `i` and lives `LockTTL - age[i]` seconds more. Two such replicas would both own one key. `HoldBound` needs a
potential: a running loop's age is bounded by the rounds that failed since, each at most an interval and the
delay, plus the time on its present timer; the hold condition then bounds the rounds. It holds for every TTL,
also odd, zero and negative ones, any delay, any number of faults and replicas. `NoSpuriousStepDown` needs that a leader whose
rounds succeed still owns a key that outlives its next answer (`LeaderInv`): the timer of the loop never falls behind the TTL of the key. `TakeoverBound` is a
budget: as long as no scheduler runs, what a connected replica has waited and what it may still have to wait, which is the rest of its timer, a refused round, the expiry of
the key and one more round, add up to `MaxWait` at most (`WaitInv`). Each second moves one from the second part to the first, each round spends what was set aside for it, and
each fault starts again with the whole budget. It counts three delays: two late rounds of the same standby, the first refused in the last second of the lease, and the late answer to the second.

*HAMonitor.* Its steps are steps of `LeaderElection` and of `Notifier` (`ElectionStep`, `NotifierSteps`), so the theorems about the election carry over as they are. Those about one
runner do not, as there is one per replica; but their lemmas are about one run at a time (`RunInv`, `RunStep`, `RunImplements`). `HandOver` says that until two calls met at most one is in
progress, that what it read is still true, and that between two calls everybody was told what the key holds, which is where `RunInv` of the next caller starts (`IdleRun`, `RunIdle`), whichever
replica that is. In the calm before the first fault, only replicas whose scheduler runs have a run (`CalmInv`), a running scheduler owns the key, and a key has one owner; so no two
calls meet, and the proviso of the contract disappears. As a shutdown counts as a fault and a connected leader stays, this is the time of the first leader, whichever replica it is.

*Monitor.* `TypeOK /\ SeriesExplained` is inductive because `SeriesExplained` also speaks of the checks in flight: what
they are about to write must be explained before they write it. `JobsMatchServices` is inductive by itself, as the diff
of a reload is taken against the live jobs.

*Checks.* Case by case over type, answer and certificate, from which the two sides become the same few comparisons of integers. That laxer limits
are milder (`LaxerIsMilder`) goes by the findings: what a laxer check finds fault with, a stricter one does (`LaxerFindings`), where a certificate that is read in time under one timeout
but not under the other is the case that needs care.

*ResultStore.* Both kinds of check are first reduced to one step (`Checked`): a status of the three, perhaps stored, perhaps on the gauge, and different
from what was due only the way its limits differ (`CheckReports`, from `LaxerIsMilder`). `RetentionInvisible` follows from an invariant that does not mention `now`: what was written
within the retention before `peak` is still there (`Retained`); a purge cuts at `now - Retention`, which is never later, and setting the
clock back changes neither. `ServicesAgree` needs that the table is finite and that every service with rows has
a newest one, which purge preserves because it takes the oldest (`HasNewest`). `GaugeAgrees` is strengthened to the log of what was ever
written (`GaugeIsStored`), which no purge disturbs.

*Dashboard.* The types are not what a handler writes but what it finds in an answer that was made earlier. Every request in flight is sound (`FlightInv`): it is of a service there is, an answer is a
list of cards or histories, and an answer to a request for a history has that history. Each step swaps sound requests for sound ones (`SwapSound`).

*Only model-checked*: the liveness properties (`OperatorsLearn`, `EventuallyConfirmed`, `LeaderElected`, `KeepsChecking`, `KeepsProbing`,
`ResultsStored`, `RemovedStops`, `ConfirmedInTheEnd`, `SidebarSettles`, `PageCatchesUp`), which are out of reach of the prover with fairness
and ENABLED. Every invariant and every action property of a passing run is proved.

## 5. Where the code and its documentation disagree

| Run | Documentation | Code |
|---|---|---|
| `notifier_lost_alert` | the state key "tracks the last *confirmed* (alerted) state" (`alerts/notifier.py:40-41`) | it is set after a broadcast in which every provider failed, so the outage is never announced again |
| `leader_takeover` | "a dead leader is replaced within one TTL" (`main.py:114-115`, `leader.py:5-6`) | the standby's next poll comes up to an interval after the key expired; the bound is TTL + interval (+ delays) |
| `leader_odd_ttl` | "through a brief blip (up to one TTL)" (`main.py:126-128`) | `interval = ttl // 2`, so an odd TTL allows a third round: 6 seconds with TTL 5, 45 with 31 |
| `monitor_ghost` | "so a removed service stops being reported" (`metrics.py:80`) | a check in flight at the removal brings the series back for good |
| `ha_double` | "the lock alone prevents double-execution" (`src/README.md:408`) | a check in flight goes on after its replica released the lock or lost it, and `lifespan` releases (`main.py:208`) before it stops the scheduler (`main.py:209`) |
| `results_manual` | a `latency_ms` threshold makes a slow response `DEGRADED`, a `cert_expiry_days` threshold an expired certificate `DOWN` (`src/README.md:246-247`, `261-263`) | a manual check from the dashboard has no thresholds (`main.py:302-318`, `static/index.html:1128`) and overwrites the state that the configured check found |

The passing runs state what does hold instead: `ToldAgrees` speaks of the providers that work, `TakeoverBound` and
`HoldBound` give the real bounds, `SeriesExplained` lists the causes of a left-over series, `NoOverlapWithoutFault` and `ConfirmedInTheEnd` say
what the lock does guarantee, and `LimitsDecide` how far the result of a manual check can be from the configured one.

Known limits that the models show and no run is about:

* A healthy run that dies before its DELETE leaves the failures before it on the counter, so that failures that were not in a row confirm an outage
  (`alerts/notifier.py:73`; `ConfirmedAfterStreak` without `aborts = 0`).
* An interval so long that now + interval is no date passes validation and raises in the middle of `reconcile_jobs` (`scheduler.py:170`): part of the
  file is applied although `/reload` fails (`ReloadRaises`). `JobsMatchServices` says that the next reload that succeeds repairs it.
* When calls of `notify` of two replicas overlap, the operators can be left with the older of two announcements while Redis holds
  the newer (`ToldAcrossReplicas` without its premise).
* A manual check goes by the timeout of its request, or the default one, and not by that of the service (`main.py:305`, `scheduler.py:27`): a service that is
  allowed 15 seconds and answers in 8 is `DOWN` by hand and `UP` on schedule. A request may also carry thresholds stricter than the configured ones. Either
  way the result is stored and exported like any other; `LimitsDecide` only says in which direction it can be off.
* After a manual check the page drops the cached history (`static/index.html:1141`), but an answer to an earlier request can still put
  the old one back until it expires; `PageCatchesUp` says that this does not last.

## 6. What is abstracted and what is not modelled

Abstractions:

* A service is a name, its check a record of what matters: the type, whether it measures a certificate, whether its
  probe can raise, whether the scheduler accepts its interval. An outcome is `up`, `down` or `degraded`; no check
  returns `UNKNOWN`. Wording of messages, counters, latencies and the series about HTTP requests are left out.
* Redis keeps a key for its TTL and does not fail over. A request of a dying process is processed before it dies or never.
  A failing Redis call may have taken effect.
* `Delay` bounds how late a round and its answers are: an assumption about the environment, as the Redis client has no
  default timeout. Without such a bound a scheduler could run for as long as a call hangs.
* Misfires are modelled where they are likely, at `Resume`; an event loop that blocks for
  more than the grace time is not.
* In `Monitor` the purge may take any rows, since timestamps are only in `ResultStore`.
* A timeout bounds each wait for an answer and not the whole, as in httpx; one that is just met counts as missed. The certificate is fetched by a request of its own with the same timeout.
* `ResultStore` counts the clock in days, and the limits of a service in the file do not change; a reload that changes a service is in `Monitor`.
  There a commit that raises has no effect; `ResultStore` has both cases.
  A status on the gauge is a name, not 1, 0 or -1. A probe that raises leaves no trace in the store and is only in `Monitor`.
* `Dashboard` leaves out filters, sorting, charts and the paused timer. A failed manual check and one that is refused look alike to the page.
* `HAMonitor` has one service that is always configured.

Not modelled: `/checks/results` (the order of `/history` without its tie-break), `/ready` and `/health` (stateless), the script that fills a demo database; the HTTP, TCP and disk calls of the checks, the HTTP requests of the providers, SQL, YAML parsing, FastAPI and
APScheduler themselves (the last from how `scheduler.py` uses it); authentication, a stateless predicate on one request;
configuration, logging, tracing, packaging; markup and drawing of the dashboard.

## 7. Plan

Done: every module above, its runs and its theorems. Next:

1. **Overlapping calls**: what two calls of `notify` that met leave behind, as an invariant and a theorem: which announcements and which counter, and how many calls later they are made good.
2. **Reload with several replicas** (`main.py:464`): `/reload` reaches one process, and the others take over with the old services. Needs `Monitor` once per
   replica with a smaller state.
3. **A service that is removed and added again** while its state is still in Redis (`alerts/notifier.py:83`): `Monitor` with `Notifier`.
