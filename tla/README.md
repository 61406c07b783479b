# Verification of the SIVACOR autoscaler

TLA+ models of the fleet controller in `src/sivacor_autoscaler`, model-checked with TLC on
small instances and, for the properties that matter most, proved with TLAPS for every
instance. All paths below are relative to the repository's package `src/sivacor_autoscaler`.

- [The system](#the-system)
- [Inventory](#inventory)
- [Modules](#modules)
- [How the models correspond to the code](#how-the-models-correspond-to-the-code)
- [Runs](#runs)
- [Bounds](#bounds)
- [Fairness](#fairness)
- [Proofs](#proofs)
- [Findings](#findings)
- [Not modelled](#not-modelled)
- [Plan](#plan)

## The system

SIVACOR runs researchers' submissions on ephemeral OpenStack servers. A submission is a
Girder job; a worker is one server that boots a celery worker, takes a submission, and powers
itself off when it has been idle for long enough. The autoscaler is one process that wakes
every 30 s and does one round:

1. `Controller.step` lets the breaker's cooldown pass, then reads Girder's arm flag
   (`sivacor.targeted_assignment`) once for the whole round.
2. `gather` reads, one call after another, Nova's servers, the depth of the shared queue in
   Redis, which instances have claimed a submission (`_spent`), which submissions wait, and
   which workers have announced themselves.
3. `plan.decide` turns the snapshot into a decision: deletes, assignments, creates.
4. `step` executes it, one call after another: deletes first, then assignments (an atomic
   claim in Mongo, then a publication on the broker), then creates.

Work reaches a worker on one of two paths. On the *shared* path `submit_job` publishes the
submission's chain on a shared queue and any idle worker takes it; the controller only makes
sure there are workers. On the *armed* path `submit_job` only records the submission with an
`awaiting_assignment` marker, and the controller binds it to one registered worker and
publishes its chain to that worker's private queue. The flag can be flipped at any time, so
both paths can be in use at once.

Nothing in a round is atomic except `decide`: between any two calls the world moves. The
controller keeps no durable state; its memory is `_spent_seen` and the breaker's counter.

## Inventory

| Component | State | Operations | Interacts with | What is hard | What makes it correct |
|---|---|---|---|---|---|
| `plan.py` (`decide`) | none: a pure function of `FleetState` and `Limits` | deletes, assignment, demand and shortfall, allocation under quotas, breaker gate | called by the controller | two greedy walks that must agree on order (S7), pessimistic assignment beside optimistic capacity, limits that are off when `None` | oldest served first, nothing assigned to what is reaped or spent, quotas and cap never passed |
| `controller.py` | `_spent_seen`, `consecutive_failures`, `_last_failure`, `_armed` | `limits`, `gather`, `_spent`, `_expire_breaker`, `step` | everything below | readings of different moments; each call of a decision may fail alone; crash between any two; the breaker must reopen by itself | one chain per submission, cap respected, no live run reaped, every submission ends, fleet returns to zero |
| `dispatch.py` | Mongo job document | `claim` (atomic), build and publish the chain; a claim is never undone | Mongo, broker | a crash or an ambiguous failure between claim and publication | never two chains for one submission |
| `signals.py` | none (reads Girder's Mongo and Redis) | arm flag, depth, spent, waiting, ready, running jobs, house-paid, volumes flag | Mongo, Redis | a reading that fails is either an empty one or a skipped round; a user may delete the documents it reads | no stale reading places or buys twice |
| `fleet.py` | Nova servers, Cinder volumes | list, create, delete, volumes, cloud-init | Nova, Cinder | quota refusals that are not failures; a create that fails after Nova accepted it | cap respected, no leak |
| breaker (in `controller.py`, `plan.py`) | counter, time of the last failure | raise, clear on success, expire | create path, `decide` | it prevents the success that would clear it | it bounds the failing creates and does not latch |
| scratch volumes (`fleet.py`, `controller.py`, `plan.py`) | Cinder volumes | create before the server, roll back, ride out with the server, sweep orphans | Nova, Cinder | a volume with no owner; a sweep racing a build; a rollback of a create that Nova accepted; Cinder's own quota filled by orphans | every orphan goes, no call takes the volume of a worker, submissions end all the same |
| `catalogue.py` | the rungs, read once at startup | load, validate, look up | Girder's setting, Nova flavours | a typo must fail at startup; the setting changes under a running controller, submissions and servers keep sizes it no longer has | every create has a flavour and takes the quota counted for it, tags are true, a submission gets its memory |
| reap (`controller.py`, `diagnostics.py`, `signals.py`) | files, lifetimes in Girder | capture the console, record the lifetime, delete; swallow every error | Nova, Girder | two lookups and two records in an order that a run's end, a drained row, a refused delete or a crash can fall between | console and lifetime are kept before the server goes, and it goes |
| `__main__.py` | configuration | parse, start, run, one shot, dry run | all | a catalogue that does not fit Nova; a dry run that must decide as a step does | the service starts on a usable catalogue only |
| Girder, broker, Nova, workers (outside the repository) | jobs, queues, markers, servers | submit, cancel, remove, reap; boot, announce, take, claim, finish, power off | the controller | they act at any time | assumed, see below |

The hazards this code is exposed to, each at its line and with the properties that would catch
it, are listed in `PROJECT.json` under `hazards`.

## Modules

| Module | What it is |
|---|---|
| `Common` | the constant `None` |
| `Plan` | `plan.py`: `decide` as operators on a snapshot and the limits |
| `PlanLoops` | the loops of `decide`, `_wanted_rungs` and `_allocate` as folds, one operator per turn, as the code runs them |
| `MCPlan` | enumerates snapshots and configurations; states what the plan must satisfy |
| `Deployment` | the processes the controller does not own: Girder, broker, Nova, workers, time |
| `Controller` | `controller.py`, `dispatch.py` and the create/delete path of `fleet.py` on top of `Deployment` and `Plan`; the properties |
| `MCController` | values of the constants for TLC |
| `Placement` | abstract: what `dispatch.py` promises a submission; `Controller` implements it |
| `Scratch`, `MCScratch` | the scratch volumes: every call to Cinder and Nova on their way, with its failure |
| `Reap`, `MCReap` | the reap of an instance: lookups, capture, lifetime record, delete |
| `Catalogue`, `MCCatalogue` | the worker-size catalogue, edited under a running controller; `catalogue.py`, the start in `__main__.py` |
| `Breaker` | the circuit breaker alone, over time |
| `Claims` | what comments promise of the controller and the code does not do |
| `PlanProofs` | the operators of `Plan`, for every snapshot |
| `MCPlanProofs` | the folds of the library, the quotas, the loops of `PlanLoops`, and the properties of `MCPlan` |
| `ControllerProofs` | `Controller`: types, one chain, the cap, the refinement of `Placement` |
| `AssignmentProofs` | `Controller`: who is given work, when, and that it keeps it (extends `ControllerProofs`) |
| `ScratchProofs`, `ReapProofs`, `CatalogueProofs`, `BreakerProofs` | the module of that name |

`Controller` EXTENDS `Deployment` and `Plan`: one state space, in which a round of the
controller interleaves with everything else. `Scratch`, `Reap` and `Catalogue` EXTEND `Plan`
alone. Each takes apart what `Controller` leaves out (the calls around a volume; the calls of
one reap; the start) and takes as one step what `Controller` takes apart, because their product
is out of TLC's reach and the code couples them only through `decide`, which all of them call
as it is. `Breaker` is the one part with a clock of its own: thresholds above one and several
cooldowns do not fit beside the rest.

`Plan` is stated declaratively (a submission is placed when the n-th submission of its size
meets the n-th youngest free instance of that size, and nothing ahead of it is blocked), because
that is the form one can reason about. `PlanLoops` has the same decision as the code computes
it; the run `plan` compares the two on every enumerated snapshot, and `AssignIsGreedy` and
`CreateIsGreedy` prove them equal on all.

Operators whose comment begins with "Faulty:" are plausible bugs; they are used by no
specification and only show that the properties notice them.

## How the models correspond to the code

**The snapshot and the limits** are records with the fields of `FleetState` and `Limits`.
Ids are naturals, so that "the id as a tiebreaker" is `<`. An age is `now - created_at`, in
ticks, or `None` when `created_at` is missing.

**The controller** has a program counter: `idle`, then one value per reading of `gather`
(`instances`, `depth`, `spent`, `waiting`), `decide`, `act`, and `down` after a crash.

| Action | Code |
|---|---|
| `BeginRound` | `_expire_breaker` and the read of the arm flag in `limits()` |
| `ReadInstances`, `ReadDepth`, `ReadSpent`, `ReadWaiting` | the readings of `gather`, in its order; `waiting_submissions` swallows its errors, so a failed one is an empty one |
| `SkipRound` | any other reading raised: the round is skipped, what `_spent` learnt stays |
| `Decide` | the read of the readiness markers (the last of `gather`) and `decide()` |
| `VolumesFlagUnreadable` | `volumes_enabled` is read outside the `try`: its failure ends the process |
| `DeleteInstance(i)` | one delete; a refused one is logged and decided again next round |
| `Claim(s, i)` | `dispatch.claim`: the filter on `worker_queue` and `awaiting_assignment`, oldest first |
| `Publish` | `apply_async`: the message arrives, arrives and the call still raises, or does not arrive; the claim stands in all three |
| `CreateInstance` | a server and the counter cleared; or `QuotaExceeded`, which ends the round's creates; or any other failure, with or without a server left behind, which raises the counter |
| `EndRound`, `Crash`, `Restart` | `run()`, and the loss of the process's memory |

**The deployment** is external: it is modelled from how the code and its comments use it.
`Submit` publishes or only records, by the arm flag. A worker boots (or ends in `ERROR`, or
comes up so late that it may never announce), announces, takes work from the shared or from its
private queue, claims it (`prepare_submission` writes `worker_queue` and stops consuming), ends
it, and powers off once idle and older than `BootGrace`. The server-side reaper fails a
submission that was claimed or dispatched and that no live worker holds. Cancelling a submission
changes its status and leaves its markers: that is an assumption about Girder, which the code's
own reading of those markers suggests and does not prove.

**The placement.** `Placement` has no process, round or reading: a submission is dispatched by
Girder or recorded for the controller, bound to a worker once, published once after that, and
its chain is in one place. `Controller` maps its variables onto it at its end: `path` is who
publishes, read from the marker; `worker` is `worker_queue`; `published` is the history `sent`;
`shared` and `holders` are the broker's queues and what workers reserved. Crashes, stale
readings, rounds and time are stutters.

**The scratch volumes.** In `Scratch` the round continues past `decide` one call at a time:

| Action | Code |
|---|---|
| `ReadVolumes` | `list_volumes`: only with a sweep configured, whether or not the setting is on; a failure is an empty listing |
| `Decide` | `decide()`, then the one read of `volumes_enabled` for the round |
| `SweepVolume(v)` | `delete_volume` of an orphan; Cinder refuses what is attached, a failure is swallowed |
| `CreateVolume` | the submission's volume, before its server; Cinder's quota is backpressure, anything else counts for the breaker, with the volume left or not |
| `BuildUserData` | between the two creates, covered by no rollback |
| `CreateServer`, `Rollback` | the server with its block device and tag; what fails deletes the volume first, then ends the round's creates as backpressure or as a failure |
| `Attach`, `Boot`, `NovaDeletes`, `NovaReclaims` | Nova: attaches in the build, a build without its volume ends in `ERROR`, `delete_on_termination` takes the volume with the server, or (a fault) does not |

**The reap.** In `Reap` the two lookups and the three calls of a reap are sequences,
`GatherOrder` and `ReapOrder`, that the actions walk through: what they protect is an order.
`Read` is one lookup of `gather`, `Capture` is `diagnostics.capture` (an unreadable console is
missing from the dump, any other failure leaves no dump), `RecordLifetime` may fail in silence,
`DeleteInstance` may be refused. The history `unread` collects the instances a failed call was
about. On the other side a run ends with its usage row, a worker dies under its run, and
`usage.drain` takes the row once the lifetime is there.

**The catalogue.** In `Catalogue` a round is one step, `Step`, that calls `decide` with the
catalogue the process started on (`Limits`), while `Edit` changes the setting. `Start` is
`main`: load, validate, or no process; `Submit` asks the setting, not the controller. `FlavorFor`
and `SizeFrom` are `flavor_for` and `_size_from`.

**The breaker.** In `Breaker` one `Step` is the round's expiry and its creates, `Sleep` the
interval, `Restart` the loss of the counter; `failed_at` and `reopened_at` are history.

**Faults** have kinds: `crash`, `publish`, `delete`, `claim`, `create`, `quota`, `waiting`,
`read`, `flag` on the controller's side; `flip`, `cancel`, `remove`, `late`, `error`, `vm`
(powered off under a live run), `wedge` (a restarted worker consumes again), `prefetch` on the
other. A run enables some kinds, and at most `MaxFaults` faults happen in a behaviour.
`Scratch` has eleven of its own (a crash, a refused or unanswered call to Cinder or Nova, a
volume Nova keeps, a template that does not fit, a setting that is flipped), `Reap` counts
refused deletes and crashes and lets every other call fail as often as it may.

**Time** passes in ticks. `Tick` waits for what is quick against the limits (a boot, a message
to a worker that is listening) and for the controller, whose rounds start at most `RoundTime`
ticks apart. Without this every timeout could fire against anything and no deployment of this
design would be correct; with it the races that remain are the ones the code's margins are
meant for. Ages stop at the largest value a limit tells apart.

## Runs

| Run | Question | Properties |
|---|---|---|
| `armed` | Does placed work only reach workers that will do it, whatever crashes or fails in between? | `OneSubmissionPerInstance`, `WorkReachesAWorker`, `CapacityIsUnclaimed`, `OneStrandedPerFault`, `NoLiveRunReaped` |
| `shared` | Does the fleet stay within its cap when creations fail in every way? | `TypeOK`, `CapRespected` |
| `rollout` | Is flipping the flag under load safe, with two sizes, a vcpu quota, crashes, cancellations and ambiguous publications, and does the whole implement `Placement`? | `AtMostOneChain`, `OldestServedFirst`, `RightShape`, `OneWorkspaceOneWorker`, `KeepsThePromise` |
| `armed_live` | Does every submission end, at one instance each, with cancellations, refused deletes and publications that fail? | `OneInstancePerSubmission`, `EverySubmissionEnds`, `ScalesToZero` |
| `shared_live` | The same on the shared path, with a breaker that trips, failing readings, removals, and workers that prefetch or wedge | `EverySubmissionEnds`, `ScalesToZero` |
| `plan` | Is the declarative plan what the loops compute, and does it keep S7, quotas and cap? | `AssignIsTheLoop`, `CreateIsTheLoop`, `NoneOvertaken`, `PlacementIsSound`, `QuotasHold` |
| `scratch` | Under two faults of any kind, is no worker's volume deleted, does every orphan go, does every submission end? | `TypeOK`, `WorkersWithinQuota`, `SparesWorkers`, `OrphansGo`, `EverySubmissionEnds` |
| `reap` | Is the evidence kept before the server goes, and does it go, whatever fails? | `TypeOK`, `EvidenceSurvives`, `AccountedBeforeGone`, `ReapWins` |
| `catalogue` | Are sizes, flavours and quota right under a catalogue that is edited, broken, withdrawn? | `TypeOK`, `SizeIsTrue`, `GetsItsMemory`, `NamesARung`, `TakesWhatWasCounted` |
| `breaker` | How many failing creations does the breaker let through? | `TypeOK`, `BurnIsBounded` |
| `backlog`, `disk` | Does the code keep this promise of its comments? It does not. | one each, see [Findings](#findings) |

`EverySubmissionEnds` and `TypeOK` are defined in several modules, each about its own state.

What the passing runs show, in the terms of the code:

- *Never two workers on one workspace* (`AtMostOneChain`, `OneWorkspaceOneWorker`,
  `KeepsThePromise`): the reason `dispatch.assign` does not undo a claim whose publication
  raised. With an undo, the ambiguous failure publishes twice. `KeepsThePromise` implies
  `OneWorkspaceOneWorker`, which is kept because it is the promise in `dispatch.py`'s own words.
- *What a failure costs* (`OneStrandedPerFault`): a crash or a failed publication leaves at most
  the one submission `dispatch.assign` has in hand bound and unpublished. Claiming a whole round
  before publishing it would strand more.
- *No stall behind capacity that will not serve* (`EverySubmissionEnds`, `CapacityIsUnclaimed`):
  the D8 and run-3/run-5 incidents. A demand that is only the queue's depth, or a breaker
  without cooldown, makes the runs fail.
- *Margins* (`WorkReachesAWorker`, `NoLiveRunReaped`): `assign_max_age` below the boot grace
  keeps work off a worker about to power off; a spent instance is never written off as
  unprovisioned, so that a delete only meets a live run past `max_lifetime`. This is the armed
  path, where the controller itself decides who gets work; on the shared path it does not hold.
- *Cap* (`CapRespected`): the count of live instances is several calls old when it is spent, and
  a create that failed may have left a server; the cap holds because only the controller creates
  and one failure ends the round's creates.
- *S7* (`NoneOvertaken`, `OldestServedFirst`): both walks stop at the first submission they
  cannot serve.
- *Volumes* (`OrphansGo`, `SparesWorkers`): a volume that a crash, a failed template, a lost
  answer or Nova leaves behind is found by the sweep, also after the setting was switched off,
  and no sweep, nor the rollback of a create Nova refused, takes a volume that a building or
  running server names or that is about to be handed to one. The rollback of a create that
  *failed* is excepted: its answer may have been lost, and then it does (`MCRollback.cfg`). A volume that is not attached yet is protected by the grace alone,
  which exceeds the time Nova takes to build; a grace that is over one tick early fails the run.
- *Evidence* (`EvidenceSurvives`, `AccountedBeforeGone`, `ReapWins`): running jobs are looked up
  before house-paid ones, so a run that ends in between is seen by one of the two; capture and
  record come before the delete, and none of their failures keeps the server.
- *Shapes* (`SizeIsTrue`, `GetsItsMemory`, `TakesWhatWasCounted`): the check at startup is what
  makes a tag trustworthy for the life of the server, across later catalogues.
- *Burn* (`BurnIsBounded`): of the creations since the last that succeeded, no more than the
  threshold fail within a cooldown, times the number of processes; a restart forgets.

## Bounds

| Constant | In the runs | Why it is enough |
|---|---|---|
| `Submissions` | 2 (3 in `backlog`) | S7, double placement and demand that hides behind other demand are relations of two submissions |
| `Instances` | 3 (2 in `shared`, `rollout`, `backlog` and `catalogue`, 4 in `scratch`, 1 in `reap`) | one for each submission and a replacement, which the questions of `shared` and `rollout` do not need; when they run out, Nova answers `QuotaExceeded`, which is a case of its own. A reap touches one instance, and the theorems of `ReapProofs` hold for any number |
| `MaxInstances` | 2, and 1 in `shared`, `shared_live` and `backlog` | at 1 the cap and the pending delete bind; at 2 two creates of one round see one stale count |
| `AssignMaxAge` < `BootGrace` = `MaxLifetime` = 3, `ProvisionDeadline` = 2 | ticks | the order of the deployed values; `AgeBound` is one past the largest of them, so that each can be passed. `shared_live` has `BootGrace` 1, `MaxLifetime` 2 and `AgeBound` 3, and neither of the others, which the shared path does not need. In `rollout` `BootGrace` is 2 and ages stop at 3, so that nothing is reaped for its lifetime there: that is the question of `armed` |
| `JobAgeBound` | 0 or 1 | one past `UnclaimedGrace`, on the path that reads it |
| `BreakerThreshold`, `BreakerCooldown` | 1, 1 | trips with one fault, so that the cooldown is exercised; `breaker` has 2 and 4 over 14 intervals and two restarts, which is three cooldowns with room for a failure in each |
| `MaxFaults` | 2 (1 in `backlog`, 0 in `disk`, 3 in `reap`) | a failure and a failure of what repairs it |
| `ScanLimit` | 9, in `backlog` 2 | 9 is never reached: the other runs are about what holds when the scan returns everything |
| `Sizes`, `MaxVcpus` | none; in `rollout` rungs of 4 and 8 vcpus under a quota of 12 | one of each fits, so that the small one may be free while the oldest submission still waits for the large one |
| `MaxServers`, `MaxWaiting`, `MaxDepth` | 2, 2, 1 over 9 kinds of server, 10 of submission and 7 configurations | each branch of `decide` is a kind; two of each make order and exhaustion visible |
| `VolumeIds`, `CinderQuota`, `MaxVolumes`, `OrphanGrace` | 4, 2, 1, 1 in `scratch` | two attempts for each of two submissions; an orphan and a volume in use fill Cinder's quota; one live disk fills ours |
| `MaxEdits`, `Editions` | 3, and eight settings | the catalogue is broken, mended and withdrawn, or flipped with the arm flag, once each way; the settings have a wrong flavour, wrong vcpus, wrong memory, a malformed entry, none at all, a rung less, and one size twice |
| `MaxTime`, `MaxRestarts` | 14, 2 in `breaker` | see above |

TLC checks deadlock in every run but two: `MCPlan` builds snapshots up to a bound and stops, and
`Breaker` stops when its clock has reached `MaxTime`. Both are bounds of the model, not of the
system, whose loop never stops.

## Fairness

`FairSpec` assumes, and the code or the deployment justifies:

- `WF(Round)`: `run()` sleeps and steps again, and the service is restarted when it dies. Round
  is one conjunct: the loop's next call is always made, whichever it is. Failures are not part
  of it, so they need not happen and the fault budget bounds how often they do.
- `WF(Tick)`: time passes.
- `WF` per instance of `Lifecycle`: a booted worker announces unless its provisioning went wrong,
  consumes its queues, ends its chains; the idle supervisor fires; Nova ends a delete.
- `WF(ReapSubmission)`: Girder's reaper runs.

`Scratch` assumes the same of its round, of time, and of Nova and the workers together (each of
their steps happens finitely often); `Reap` assumes `WF(Round)` alone, with the restart in it.
`Catalogue` and `Breaker` assume none and have no liveness.

No strong fairness is assumed, and none on submitting, flipping, cancelling or any fault.
Every submission is submitted once in a behaviour, so `<>[]` (from some moment on none is
`RUNNING`) says that each of them ends. A submission that Girder's reaper fails, because its
chain was never published or its worker is gone, has ended too: the property excludes a stall
that the controller causes and that nobody resolves, not a run that is lost. Hence it says little
of a claim without its publication, of which `OneStrandedPerFault` says what it costs, and little
of a wedged worker, which prepares its reserved message in the end.

The liveness runs of `Controller` have no crash: each crash may cost a server more than
`Instances` has. `MCCrashLive.cfg` is `armed_live` with one crash or failed publication and a
fourth instance, without `OneInstancePerSubmission`, which a crash does break; it passes.

## Proofs

`tlapm` on each of the eight proof modules checks every leaf. The proofs use the named assumptions
of the modules: ids are naturals in finite sets, limits are naturals or `None` where the code
allows it, `None` is no integer and no pair of ids, the breaker's threshold is positive. They bound neither the
numbers of submissions and instances nor the faults. What a theorem needs beyond that is its
hypothesis, below.

| Theorem | What it establishes |
|---|---|
| `OldestFirstIsAList` | the order of `_oldest_first` on any finite set of submissions is a list of it: each once, older before younger |
| `AssignIsAMatching` | the assignment is a matching of equal rungs: each submission and each instance at most once, only submissions that are ours to place, only registered live instances that are young enough and neither claimed nor being reaped |
| `NoneIsSkipped` | a submission is placed only if every older one is |
| `WaitsForAnEmptyPool` | the converse: one that is left waiting is, or is behind, one whose size has no instance left |
| `NoneIsProvidedForBeforeAnOlder` | the creates of a round serve a submission only if they serve every older one |
| `CreateFitsTheHeadroom`, `CreateNamesARung` | `decide` asks for no create while the breaker is open, for no more than the listing leaves room for, and only for rungs of its catalogue or for none |
| `CreateFitsTheQuotas`, `CreateFitsTheVolumes` | with assignment armed and a catalogue, the creates of a round, on top of what is used, are within each quota that is on |
| `AssignIsGreedy`, `CreateIsGreedy` | what `Plan` states is what the loops of `PlanLoops` return |
| `PlacementsAreSound`, `NoneIsOvertaken`, `QuotasAreKept`, `AssignIsAlwaysTheLoop`, `CreateIsAlwaysTheLoop` | `MCPlan`: all its properties, for any number of servers, submissions and messages |
| `TypeCorrect`, `NoSecondChain`, `CapHolds`, `FailuresStrandOne` | `Controller`: `[]TypeOK`, `[]AtMostOneChain`, `[]CapRespected`, `[]OneStrandedPerFault` |
| `ImplementsPlacement`, `OneWorkerPerWorkspace` | `Controller!Spec => Placement!Spec` under the mapping (`KeepsThePromise`), and `[]OneWorkspaceOneWorker` |
| `AssignedTheRightShape` | `[]RightShape` |
| `OneSubmissionEach`, `CapacityWasNeverClaimed` | `[]OneSubmissionPerInstance`, `[]CapacityIsUnclaimed` |
| `LiveRunsAreSpared` | `NoLiveRunReaped` |
| `WorkFindsItsWorker` | `[]WorkReachesAWorker` |
| `ServedInOrder` | `[]OldestServedFirst` |
| `EachIsProvidedForOnce` | `[]OneInstancePerSubmission` |
| `TypeCorrect`, `WorkersKeepTheirVolumes`, `QuotaBoundsTheWorkers` | `Scratch`: `[]TypeOK`, `SparesWorkers`, `[]WorkersWithinQuota` |
| `EvidenceIsKept`, `LifetimesComeFirst`, `ReapIsTyped` | `Reap`: `[]EvidenceSurvives`, `[]AccountedBeforeGone`, `[]TypeOK`, for every fleet |
| `SizesAreTrue`, `EveryCreateHasAFlavor`, `CreatesTakeWhatWasCounted`, `AssignedGetsItsMemory`, `CatalogueIsTyped` | `Catalogue`: `[]SizeIsTrue`, `[]NamesARung`, `TakesWhatWasCounted`, `[]GetsItsMemory`, `[]TypeOK`, for every setting, every Nova and every edit |
| `BreakerBoundsTheBurn`, `BreakerIsTyped` | `Breaker`: `[]BurnIsBounded`, `[]TypeOK`, for every threshold, cooldown and number of restarts |

### Hypotheses

| Hypothesis | Of | Why the code justifies it |
|---|---|---|
| `StaysArmed`: the flag is up and is not flipped | `OneSubmissionEach`, `CapacityWasNeverClaimed`, `LiveRunsAreSpared`, `EachIsProvidedForOnce` | these are promises of targeted assignment; on the shared path a worker chooses its own work (`MCWrittenOff.cfg` shows the difference) |
| `ClaimsAreFound`: the scan is as long as the list, no document is removed | `OneSubmissionEach`, `CapacityWasNeverClaimed`, `EachIsProvidedForOnce` | `signals.py:158-160` counts on it; runs `backlog` and `MCRemoved.cfg` show what happens without |
| `Margins`: `AssignMaxAge` and a round are within `BootGrace` and `MaxLifetime`, and `AssignMaxAge` within `ProvisionDeadline` | `WorkFindsItsWorker`, `EachIsProvidedForOnce` | `plan.py:224-245` sizes `assign_max_age` so; no worker dies of itself (`vm`), against which no margin helps |
| `TwoRounds`: two rounds fit into `AssignMaxAge` | `EachIsProvidedForOnce` | eight minutes leave a window of 11 intervals after the boot (`plan.py:237-239`); a worker made in one round has to be found young by the next |
| `Steady`: no crash, no reading or claim that fails, no worker that dies, fails to boot or announces late | `EachIsProvidedForOnce` | each of them alone lets a worker grow too old for its submission, or die under it, and then "a fresh instance is created for it" (`plan.py:241-244`): TLC finds the second instance for each kind. Cancellations and creates, deletes and publishes that fail are allowed |
| `OneSize`: one size in the catalogue at most | `EachIsProvidedForOnce` | the loop stops at the oldest submission that does not fit, and a worker of another size may grow too old for work behind it; then too a fresh one is created |
| no claim fails (`claim`) | `ServedInOrder` | the controller passes over a failed claim and serves the next submission of the round |
| `FlavorHasASize`: the default flavour is one of the catalogue | `AssignedTheRightShape` | a server of any other flavour counts as the smallest rung (`plan.py`, `_instance_rung`) |
| `GraceOutlastsARound`: the sweep's grace is at least `RoundTime` | `WorkersKeepTheirVolumes` | `plan.py:289-295`: "the grace is correctness" |
| `Sized`: assignment is armed and there is a catalogue | `CreateFitsTheQuotas`, `CreateFitsTheVolumes` | otherwise the code creates by the cap alone and looks at no quota (`plan.py:811-827`); `QuotasAreKept` needs no hypothesis because only armed configurations of `MCPlan` set a quota |
| `BottomRungStays`: no server is smaller than the smallest rung of an edition | `AssignedGetsItsMemory` | a size that was withdrawn counts as the smallest rung; `MCRaised.cfg` shows what happens without |
| `Countable`, `Orderable`, `Rankable`, `Measurable` | the theorems on operators | finitely many rows with natural ids, ages and sizes: what the readings of `gather` return |

Every passing run that checks the property satisfies the hypotheses of its theorem.

### Arguments

*The decision.* Each of the three loops walks a list and keeps an accumulator. The invariant of a
loop says what the accumulator is after the first *n* of the list, in the words of `Plan`: the
pairs of `Assign` among them, and whether one of them is blocked (`After`); the pools less what
they covered, and the wants of those they did not (`Walked`); the longest initial part of the
wants of which every one fits, and the quota with it (`PlacedTo`). One lemma per loop is one turn
(`ServeTurns`, `CoverTurns`, `AllocateTurns`), and `StepByStep` is the induction. The folds of
the library recurse over the parts of a set, and that the recursion defines anything has to be
shown: the least part for which it did not would have a smaller one (`FoldExists`); from there
sums over a set take any element apart first (`WalkTakesAny`).

*Types.* `TypeOK` bounds the breaker's counter by its threshold and is not inductive by itself:
a failing create must start below the threshold. `TypeInv` adds that a round with creates left
has the breaker closed, which `CreateFitsTheHeadroom` gives at `Decide` and the end of the
creates at the first failure keeps.

*One chain.* `ChainInv` says what a chain not yet published needs: a submission that awaits
assignment with an empty `worker_queue` has none, one that is claimed and not yet published
(`binding`) has none and keeps its `worker_queue`, and one not submitted has nothing. A step
that keeps the markers keeps it (`MarkersKept`), which is every action but `Submit`, `Prepare`,
`Claim` and `Publish`. It is exactly the undoing of a claim that would break it.

*The cap.* `CapInv` adds two facts: between the listing and the decision, whatever occupies a
slot is in the listing (only the controller creates, so a stale listing errs to the safe side),
and the creates still to come have their slots reserved
(`Cardinality(Occupying) + Len(to_create) <= MaxInstances`).

*What a failure costs.* A submission that is bound and not published is in hand (`binding`) or
stranded. It is in hand from its claim on, since a claim finds the hand empty; it leaves the hand
published, or with a fault, which is counted. That a worker's own claim (`Prepare`) strands nobody
needs `HoldInv`: what is held was published.

*The refinement.* Every step of `Controller` is a step of `Placement` or a stutter under
`TypeInv`, `ChainInv` and `HoldInv`. The last says where a chain is: a message in the shared
queue is there once and nobody holds its submission, a submission is held by one instance, and
by the one on record as soon as there is one. Without it a worker that takes a message might
hold a chain that is also elsewhere, and `Reserve` would not be a step of the abstract module.

*The assignment.* All of `AssignmentProofs` rests on `RoundInv`: which readings a round still
stands on at which point of it (`Stages`), and what remains true of them while the world moves:
a listed server exists, keeps its size and never goes back from `SHUTOFF` (`ListingHolds`), a
scanned submission was submitted and keeps its memory (`ScanHolds`), a decided pair exists
(`PairsExist`). Then:

- `ShapeInv`: servers, creates still to come, pairs and placements have sizes of the catalogue,
  and a pair's sizes agree. An instance outside the catalogue would agree with the bottom rung.
- `SeenInv`, under `ArmedInv`: from the reading of the claims to the decision, every listed
  instance that was given a submission is in `spent`; the instances of the pairs still to be
  claimed are nobody's, and no two pairs share one. Only this process claims, so nothing is claimed
  between that reading and the decision.
- `ReapInv`: whoever holds work registered before it was given any; a delete that was decided is
  of a server that stopped, is past its lifetime, or has no work and will have none this round.
- `MarginInv`: at the moment of the decision an instance that is given work is younger than
  `AssignMaxAge`; until the last claim of the round it is at most `RoundTime` older, which the
  margins keep below every age at which it could stop or be deleted (`DueStay`, `WorkStays`).
- `OrderInv`: the scan returns the oldest of what waits, so that whoever is older than a pair's
  submission and still waits is in the same round's pairs (`PairsAreOldest`), and is claimed
  first.

*The provisioning count.* `OneInstancePerSubmission` compares two numbers that no single step
relates: a create is decided from readings a round old, and a server counts long after the
submission it was made for has ended. `Charge` says whose each server is. A server that is on
record for a submission, or in a pair of this round, is that submission's. Every other server and
every create still to come is charged to a submission that has no such server: a set *Z* of
submissions at least as large. Of these servers the ones passed over (*O*) are charged to
submissions that have ended, and the rest are `Fresh`: so young that at the next decision they
are capacity, and not deleted. The step that matters is `Decide` (`DecisionIsCharged`), and there
are two cases. When all that wait get a worker, nothing is created, and what is left over is
charged to those of *Z* that ended. Otherwise, since there is one size, no registered worker is
left (`WaitsForAnEmptyPool`): what remains is still booting and stays fresh for another round,
and the creates are no more than those waiting for whom no such worker remains
(`ShortfallOfOneBucket`). Until the next decision `ChargeKept` moves the charge of a create to the
server it makes.

*The scratch volumes.* `HandInv` follows a volume from its creation to its server: it is one
server's, or the one in hand, and as long as it is unattached it is no older than `RoundTime`,
so a sweep, which only takes what is past its grace, takes another. A create that Nova refused
has no server, so the volume its rollback deletes is nobody's (`HandedIsFree`). `QuotaInv` counts: the tags
are true, the listing covers what holds a volume, and the round's creates still to come have
their room left.

*The reap.* The argument follows the evidence through the round. A server that was listed as
powered off stays so (`KnownDead`); hence, past the lookup of running jobs, one that is not among
them has ended for good (`KnownEnded`); hence, past the lookup of house-paid ones, one in neither
will never be the house's (`KnownPaid`). This is what the order of the two lookups buys, and why
the other order fails.

*The catalogue.* The catalogue in use agrees with Nova, also while the setting does not; what is
tagged was looked up in it. `HoldInv` adds what a server that holds a submission has.

*The breaker.* `Counted` relates the counter to the history: the failures within a cooldown are
at most what the counter holds plus the threshold for every process before this one. The counter
is only set to zero by a success, which empties the history, by a restart, which is paid for, or
by a cooldown since the *last* failure, the latest of all, after which no failure is recent.

### Only model-checked

Liveness under fairness (`EverySubmissionEnds`, `ScalesToZero`, `OrphansGo`, `ReapWins`) is beyond
the prover. Every other property of a passing run is proved. What the runs that expect a violation
show is a counterexample, not a theorem.

## Findings

Runs that expect a violation state a promise of the repository, and TLC shows a behaviour of
the code that breaks it.

| Run | The repository says | The code does |
|---|---|---|
| `backlog` | `signals.py:158-160`: of the claim scan "only *live* instances matter", so a few dozen is generous | the scan takes the newest submissions, claimed or not: waiting ones push a claim out of it, and after a restart its instance is given a second submission |
| `disk` | `controller.py:444-445`, `plan.py:981-982`: the volume is the one the submission asked for, a mismatched one cannot be inherited | assignment never looks at `volume_gb`: the instance with the disk goes to a submission that asked for none, and the one that asked runs without |

The same for smaller disagreements. Each has a configuration in this directory that is not among
the runs; `tlc -config <configuration> <module>` shows its counterexample.

| Configuration, module, property | The repository says | The code does |
|---|---|---|
| `MCRemoved.cfg`, `Claims`, `OneSubmissionPerInstance` | `plan.py:474-475`, `controller.py:161-162`: remembering a claim is sound | a submission that is placed, ends and is removed between two gathers is never seen as a claim: its instance is given a second one |
| `MCCancelled.cfg`, `Claims`, `OnlyRunningIsPlaced` | `dispatch.py:210-211`: a claim matches nothing once "the submission was cancelled" | the claim's filter has no status: a submission cancelled after the gather is bound and published |
| `MCAgedOut.cfg`, `Claims`, `AgedOutIsNotCapacity` | `plan.py:492-494`: instances past `assign_max_age` are excluded from capacity and assignment | one that is also reaped for its lifetime is left out of `aged_out` and counts as available that round |
| `MCUnregistered.cfg`, `Claims`, `BreakerCountsUnregistered` | `plan.py:168-170`, `README.md:48`: the breaker opens after N consecutive instances fail to register | it counts creations that raise; instances that boot and never announce are replaced without limit |
| `MCRaises.cfg`, `Claims`, `StepNeverRaises` | `controller.py:310`: the step never raises for an expected condition | `volumes_enabled` is read outside the `try`: a failing database ends the process after `decide` |
| `MCWrittenOff.cfg`, `MCController`, `NoLiveRunReaped` | `plan.py:528`: a spent instance is never written off | on the shared path, a worker past the deadline that announces after the markers were read may take a message before its delete arrives |
| `MCOneBucket.cfg`, `MCPlan`, `OneBucketIsTheClamp` | `plan.py:507-508`: with one size the allocation is `clamp(demand - available, 0, headroom)` | depth beyond the waiting submissions is added without using up the instances that are free |
| `MCDisarmed.cfg`, `MCScratch`, `GetsItsDisk` | `signals.py:101-105`: a state where Girder accepts and the controller does not create "cannot be", since both read one setting | a submission accepted with a disk while the setting was on is served without one after a flip |
| `MCSwept.cfg`, `MCScratch`, `SweptWasUnattached` | `plan.py:288`, `plan.py:635`: the grace is how long a volume may be unattached | `fleet.py:286` gives the age since creation: a volume that came free just now is past any grace |
| `MCRollback.cfg`, `MCScratch`, `RollbackHasNoInstance` | `fleet.py:189-190`: in the rollback the instance never existed | a create whose answer was lost has a server, and its volume is deleted under its build |
| `MCHeld.cfg`, `MCScratch`, `HeldWithinQuota` | `plan.py:272`: the volumes this fleet may hold | the count is of live servers' tags; servers on their way out, and orphans, hold more |
| `MCDrained.cfg`, `MCReap`, `AttributionOutlives` | `signals.py:326-330`: the row outlives the decision that consults it, by construction | a refused delete leaves the lifetime on record, and the row is drained before the next decision |
| `MCDump.cfg`, `MCReap`, `DumpSaysWhatHappened` | `diagnostics.py:106`: with no running submission it finished cleanly or its job was deleted | a house-paid capture is of a run that failed |
| `MCRaised.cfg`, `MCCatalogue`, `NeverMistaken` | `plan.py:56-58`: an unknown size is never mistaken for capacity for a larger one | it counts as the smallest rung, which is the larger one when the smaller was withdrawn |
| `MCDryRun.cfg`, `MCCatalogue`, `DryRunTellsTheStep` | `__main__.py:353-354`: a dry run takes the code path of a live one | it decides with `cfg.limits`, without the arm flag and without the catalogue |
| `MCReopened.cfg`, `Breaker`, `OneAttempt` | `controller.py:291-292`: an expired breaker allows one attempt | the counter is set to zero, which allows as many as the threshold |

Seen and without a property: servers in `ERROR` are in no count and are never reaped, and
servers in `SHUTOFF` hold quota while their delete is pending (`plan.py:757-760`).

## Not modelled

- Cloud-init composition, and the tags that tell one deployment from another in the same
  OpenStack project: data that no step of a round depends on. The manager's static worker.
- Parsing: environment, arguments, tags, Mongo documents, timestamps. Wording of reasons, alerts
  and dumps, redaction and file modes, logging; `serving_count`, which only feeds wording.
- `load(strict=False)`, which nothing calls; `_record_head_job`'s child document, which nothing
  here reads.
- That a submission of a size that was withdrawn from the catalogue ends: Girder's assignment
  timeout ends it, and that is not in this repository (`AssignmentTimeout` is an assumption).
- The inside of Girder, celery, Nova, Cinder and Redis, beyond what the code relies on.

## Plan

Done: the decision (`Plan`, `PlanLoops`, `MCPlan`); the round beside its deployment
(`Deployment`, `Controller`); the abstract placement and its refinement (`Placement`); the
breaker, the scratch volumes, the reap and the catalogue (`Breaker`, `Scratch`, `Reap`,
`Catalogue`); the theorems above.

No safety property of the passing runs is without its theorem. What would be worth adding: how many
instances beyond one for each submission the faults that `EachIsProvidedForOnce` excludes, and a
second size, can cost.
