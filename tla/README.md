# Verification of osrm-microservice

TLA+ models of the routing gateway (`gateway/`, Rust), of the vehicle routing
library (`vrp/`, Python) and of the tools they are measured with (`parity/`,
`loadtest/`, `vrp/bench/`), checked with TLC and, in part, proved with TLAPS.
Every definition is translated from the source; `PROJECT.json` gives the lines
each one stands for ("map").

## 1. The system and its parts

Three programs that share a subject and no process:

- **The gateway** is an HTTP service on a multi-threaded tokio runtime in
  front of one or more `osrm-routed` engines. Several gateways may run behind
  a balancer; what they share is one Redis.
- **The library** plans and re-plans delivery rounds. It is sequential, save
  for the job service (a thread pool), the portfolio and the decomposition
  (pools of threads or processes). Nothing is persisted but snapshots.
- **The tools** compare two gateways, load one, and hold a change of the
  solver against a recorded baseline.

| Part | State | Operations | What is hard |
|---|---|---|---|
| `gateway/src/osrm/client.rs`, `redis_cache.rs`, `cache.rs` | L1 cache per process, L2 in Redis, connection to it | look up, promote, fetch with retry, write through | promotion of old entries, Redis going and coming between the steps of a request, dropped handlers, restarts, retries |
| `gateway/src/admission.rs` | waiter counter, semaphore and its queue | enter, time out, release, drop | load and increment are two operations, timeouts race grants, disconnections anywhere |
| `gateway/src/ratelimit.rs` | a fixed-window bucket per client, in Redis or in process | check | the clock is read before awaiting and locking, lost replies, EXPIRE lost after INCR, fallback in mid-window |
| `gateway/src/vrp/solve.rs`, `allocate.rs`, handlers `vrp`, `vrp_allocate` | cost tables, allocation, chunk tasks, routes of one request | fetch tables in batches, allocate, sweep, solve chunks concurrently, join | tasks end in any order, one of several fails, answers of odd shape, chunk and batch boundaries |
| other handlers, `models.rs`, `osrm/params.rs`, `config.rs`, `main.rs` | configuration | translate a request, call the client | little: no state between requests |
| `vrp/jobs.py` | registries, job status, incumbent, events, futures | register, solve, status, cancel, wait, `_run` | idempotent retries, cancels racing the worker, publishing outside the lock |
| `vrp/triggers.py`, `committed.py` | plan and clock are the caller's | reoptimise, preempt, recover_from_absence | long sequences of disruptions over a plan that is being driven |
| `vrp/epochs.py`, `policies.py`, `icd.py`, `pcdispatch.py`, `replay.py` | carried, dispatched and provisional work of a replayed day | classify, decide, one wave | work postponed wave after wave, the last wave, off-by-one in time |
| `vrp/model.py`, `battery.py`, `timedependent.py` | none | validation, travel, service, charge | arithmetic at the edges |
| `vrp/evaluator.py`, `verify/verifier.py`, `hos/`, `electric.py` | none | timelines, legality, pricing, INV-1 to INV-17, breaks, charging | independent definitions of "legal" must agree |
| `vrp/diagnose.py`, `locks.py` | none | name what cannot be served before the search, minimal conflict of locks | a refusal must be true, a conflict irreducible |
| `vrp/synchronise.py`, `depots.py` | the instance as narrowed so far | solve again under tighter windows or more locks | rounds that undo each other, giving up |
| `vrp/solve/*_adapter.py` | none | refuse, compile, map back | what the compiled model does not say |
| `vrp/localsearch.py`, `lns.py`, `fleet.py` | tour, plan and incumbent, absence counters | moves, ruin and recreate, ejection | gains by edges, aliasing, random draws |
| `vrp/polish.py`, `setpartition.py` | none | best departure and sequence, recombination | dominance, waits, windows that touch |
| `vrp/decompose.py` | clusters in work, assignment, screened moves | partition, work queue, border repair, re-optimise, stagger | completion order, stale measurements, bays |
| `vrp/matrix.py`, `osrm.py` | LRU cache of pairs | tile, fetch, assemble | failed tiles, eviction while assembling |
| `vrp/portfolio.py`, `accelerate.py` | members in work, record of wins | race members, verify, choose | order of completion, failures, illegal answers |
| `vrp/objective.py`, `stability.py`, `consistency.py`, `allocate.py`, `quote.py`, `explain.py`, `api.py` | none | score, report | figures in several places of one plan |
| `vrp/scenarios.py`, `periodic.py`, `rollout.py`, `calibrate.py`, `speedfit.py`, `adherence.py`, `zones.py` | none | size fleets, schedule commitments, decide on canaries, learn | evidence of several days and depots |
| `vrp/servicemodel.py`, `modelcheck.py` | a library of documents, a draft | compose, overlay, build, gate, attribute | layers that give one value, provenance |
| `vrp/observe.py`, `snapshot.py` | recorder; a file | capture, write, read, replay | objects that change after they were captured, edited files |
| `vrp/generate.py`, `benchmarks.py`, `bench/`, `anonymise.py` | corpus and baseline | generate, read, record, gate, export | stale baselines, pairing, leaks |
| `parity/`, `loadtest/` | fixtures, verdicts; requests in flight, the memory guard | record, replay, judge; launch, watch, abort | two failures that look like agreement; guard and launches racing |

Interactions that matter: a solve request of the gateway passes the rate
limiter, then the admission gate, then calls the client once per table batch
and once per chunk. A job runs an engine adapter chunk by chunk and ends with
the withdrawal loop of the depots. The portfolio and the decomposition call
adapters and searches, verify what comes back and price it with the evaluator.
The trigger engine reads the timeline of the evaluator and hands locks to the
engine. The replayer drives the epoch controller, which asks a policy and the
reachability test of the diagnosis. The gate of the delivery models builds an
instance, solves it and verifies the plan.

## 2. Modules

| Module | Models | Composed of |
|---|---|---|
| `SolveJobs` | the job service and the threads around it | `AnytimePlan` is what it promises |
| `AnytimePlan` | abstract: a plan that only improves, then is complete | |
| `OsrmClient` | two-tier cache and retry, several gateways, one Redis | |
| `AdmissionGate` | the gate and tokio's semaphore under it | |
| `RateLimiter` | fixed windows, shared and in process | |
| `VrpSolve` | depot choice, sweep, chunking; one request to /vrp or /vrp/allocate | extends `Subsequences` |
| `Reoptimise` | a route's day; the trigger engine over a moving clock | extends `Subsequences` |
| `DispatchPolicies`, `EpochReplay` | waves, must-go, the policies; a replayed day | `EpochReplay` extends `DispatchPolicies`, which extends `Subsequences` |
| `Subsequences` | the comprehensions that choose from a list (operators) | |
| `VrpDomain` | the instance, batteries, speed profiles (operators) | |
| `HoursOfService` | rule sets, breaks, tachograph (operators) | extends `VrpDomain` |
| `Evaluator` | timeline, price, legality (operators) | extends `VrpDomain`, takes `HoursOfService` |
| `Verifier` | INV-1 to INV-17 (operators) | extends `VrpDomain`, shares no computation over a plan with `Evaluator` |
| `Preflight` | diagnosis and lock conflicts (operators) | on `Evaluator` |
| `Polish`, `Objective`, `PlanReports`, `Learning`, `Engines` | the algorithms their names say (operators) | on `Evaluator`, `Verifier` |
| `Plans`, `PlanUses` | any plan an engine may answer with, and all that is said and made of it, charging stops included | on all the operator modules |
| `Orchestrators` | the loops of `synchronise` and `depots` around any engine | `Evaluator`, `Verifier` |
| `RouteSearch` | local search, ruin and recreate, fleet minimisation | `Subsequences` |
| `Decomposition` | partition, queue, repair, re-optimisation, staggering | `Evaluator` |
| `MatrixBuild` | tiles, cache, failures, re-imported maps | |
| `Portfolio` | members racing | `Evaluator`, `Verifier` |
| `DeliveryModels` | registry, composition, builder, gate | `Evaluator`, `Verifier` |
| `RunRecord`, `Benchmarks`, `Parity`, `LoadTest` | snapshots; generators, baseline gate and export; the two harnesses | `Benchmarks` on `Evaluator`, `Verifier` |
| `PackageParts` | search, matrix build, race, capacity assessment and run record, one at work at a time | extends `RouteSearch`, instantiates `MatrixBuild`, `Portfolio`, `LoadTest`, `RunRecord` |
| `MCVrpPackage` | the cases, and every part of the library and the tools, one at work at a time | extends `PackageParts`, instantiates the other parts |
| other `MC...` | instance data for TLC | extend the module they instantiate |
| `SolveJobsProofs`, `RateLimiterProofs` | theorems | extend the module they are about |
| `GatewayProofs` | theorems | extends `AdmissionGate` and `OsrmClient` |
| `SubsequencesProofs` | lemmas on finite data: least elements, `Kept`, concatenation | extends `Subsequences` |
| `VrpSolveProofs`, `ReoptimiseProofs`, `EpochReplayProofs`, `PackagePartsProofs` | theorems | extend the module they are about and `SubsequencesProofs` |

How state and actions correspond to the code:

- **SolveJobs.** `problems`, `byKey`, `req`, `budget` are the registries of
  `SolveService`; `status`, `incumbent`, `cancelled`, `future` are the fields
  of `_Job`; `pool` and `run` are the executor's queue and where each `_run`
  stands; `pc`, `target` are the client threads. A call is split where the
  code releases a lock or blocks: `solve` is `SolveCreate` (under the lock),
  `SolveSubmit`, `SolveAssign` (the line `job.future = ...` after it).
  `round` is the loop of `solve_within_inventory`. A plan is its cost and
  whether it over-draws a depot.
- **OsrmClient.** One action per stretch between two awaits. Entries carry
  the time since they were stored and the time since the engine gave the
  body; `Tick` ages everything together. `RedisChange` takes Redis away and
  brings it back, `L1Evict` and `Restart` empty L1, `Abandon` drops a handler.
- **AdmissionGate.** `waiting` is the atomic counter; `place` says where the
  request of each slot stands: between
  its load and its increment (`entering`), about to poll the semaphore
  (`polling`), in its queue, assigned a permit it has not seen (`granted`),
  or still counted on its way out (`leaving`, `givingUp`). A request between
  two such steps occupies one of `Threads` worker threads.
- **RateLimiter.** `counter` and `expiring` are Redis keys and their EXPIRE;
  `local` the buckets of each gateway; `made`, `shared`, `own`, `refused` are
  history for the properties. The clock is the number of the window.
- **VrpSolve.** `pc` is where the handler is; `task` and `result` are the
  JoinSet; `faithful` remembers whether the engine kept to the shape asked.
- **Reoptimise.** `plan`, `now` belong to the caller; `response` is what a
  call returned and the caller has not yet adopted or thrown away.
- **EpochReplay.** The local variables of `replay()`, one action per
  iteration of its loop. Draws of a generator are free choices.
- **Plans.** `acts` and `starts` are the engine's answer, built activity by
  activity, so every state is some answer; the properties apply the mapping,
  the verifier, the evaluator, reports and learning to it.
- **Orchestrators.** `current` is the instance as the loop has changed it;
  `Solve` may answer any plan of `current` the engine could, or refuse.
- **RouteSearch.** `plan`, `best` and the queue of don't-look bits are the
  variables of the searches; the ruin's seed, its strings, blinks and the
  annealer's coin are free choices.
- **Decomposition.** `pending` is the work queue, whose clusters end in any
  order; `screened` the moves ranked on the plan before repair; `TryMove`
  confirms one of them against the plan as it then is.
- **MatrixBuild.** `entries` is the cache in order of use, `todo` the tiles
  that are left, `failed` those refused. `extract` is the map behind the
  gateway and `version` the one the caller named.
- **Portfolio.** `queued`, `running`, `results` are the executor.
- **DeliveryModels.** An operator edits a draft setting by setting; the
  properties apply the gate to every draft.
- **Parity.** A corpus is recorded (`Record`), rewound and replayed to a pair
  of gateways, one of which may be wrong in one way.
- **LoadTest.** One event loop: launches, ends of requests and samples of the
  watcher interleave where the code awaits.
- **RunRecord.** `caller` is the object the caller goes on changing, `held`
  the snapshot, `file` what is on disk.
- **Benchmarks.** `subject` is the instance, file or corpus at hand;
  `ChangeSolver` and `ChangeCorpus` come between recording and gating.

In `MCVrpPackage` a behaviour runs one part: `work` says which, and the
variables of the others hold `RESTING`. The parts do not interact with each
other, so one run over their union is as good as one run each; they share the
operators, and what one part returns is judged by the verifier in another.
`PackageParts` holds the five parts that are proved about. Its `PartsSpec` lets
another part do anything while it is at work, so what is proved of `PartsSpec`
holds of `MCVrpPackage`, whose `Init` is `StartPart` or a part outside
`PARTS`, and whose `Next` is `PartStep` or a step that leaves such a `work`
as it is.

## 3. Runs

| Run | Instance | States | Checks |
|---|---|---|---|
| `jobs_safety` | 2 clients, 2 jobs, 1 key, 1 worker, 1 chunk, 1 round | 1,040,858 before symmetry | one job per key, DONE only within stock, finality of a waited cancel |
| `jobs_progress` | 1 client, 2 jobs, 2 chunks | 325,664 | refinement of `AnytimePlan`, every job ends |
| `jobs_cancel_settles` | 2 clients, 1 job | | violation, see section 6 |
| `client` | 1 gateway with Redis and one without, 2 requests, keys served, unserved and too long, 2 attempts, lifetimes 2 | 278,610 | no answer older than both tiers allow together or of another key, errors are earned, every request ends |
| `gate` | 4 requests, 2 threads, 1 slot, depth 1 | 5,234 | exact count, permits conserved, sound queue, bounded overshoot, everyone answered |
| `limiter` | 2 gateways, 1 client, allowance 1, 2 windows, 3 arrivals | 70,490 | allowance per store, refusals earned, every check ends |
| `limiter_threads` | 1 gateway, 2 threads | | violation, see section 6 |
| `vrp_solve` | 2 depots, 3 stops, all modes, 2 capacities, batches of 2, 2 concurrent chunks | 237,035 | every stop once, labels, allocation, sweep, calls bounded, answered |
| `reoptimise` | 3 vans, 4 orders on a road, shift 0..11, 2 churn weights, every legal plan | 143,070 | legality, accounting, locality, committed work |
| `reoptimise_prefix` | as above | | violation, see section 6 |
| `epochs` | 3 orders, 2 vans, 4 waves of 3 instants, every arrival schedule, 6 policies | 95,888 | exactly once, in time, published work stays put, delay, sampling |
| `vrp_package` | every part of the library and the tools on its cases, see below | 318,667 | eighteen properties, one or two for each part |

The properties of `vrp_package`, each of which relates two independent
computations or a plan to an earlier one:

| Property | Question |
|---|---|
| `ReturnedPlanHoldsUp` | do coupled visits and depot stock hold in the plan that is returned, whatever the engine answered in between, and is what is withdrawn the least protected work? |
| `SearchKeepsFaith`, `TourOnlyShortens` | does any draw of the searches lose a customer, forget the best plan, or lengthen a tour? |
| `NoOrderLost`, `ImprovementIsSafe` | do clusters ending in any order cover everything, and do moves screened on an older plan stay cheaper and legal? |
| `EveryCellIsTrueOrOwnedUp` | is each cell what the unchunked build gives, or unknown in a matrix that says it is degraded? |
| `TimingDecidesNothing` | is the winner a function of the answers? |
| `EngineAnswerVerifies` | does what the compiled model admits verify once mapped back, but for what it is not told (`LeftOutOfPyvrp`)? |
| `LegalMeansVerified` | do evaluator, charging, hours and verifier agree, but for what `UnseenByLegality` names? |
| `RefusalsAreSound` | is an order named before the search one that no verified plan serves, and does the edit offered help, but for `FalseAlarm` and `Unavailing`; is a conflict irreducible? |
| `PolishedIsBest` | against all permutations and departures, is the dynamic program's answer the best, and legal where no stop has several windows? |
| `ReportsAgree` | is every tier within its bound, but for `Unbounded`, and do total, tiers, quotes, allocation and explanations add up? |
| `PracticeIsLearnt` | what is learnt from days driven as planned is the plan; a canary whose criteria are observed goes only on its own days; commitments are met |
| `ModelsAreTraceable` | does each value come from the file its provenance names, and is blame fair? |
| `CleanExitIsEarned`, `GuardIsKept`, `ReplayAgrees`, `YardsticksHold` | does a clean exit, a guarded phase, an accepted replay, a passed gate mean what it says? |

Why the bounds are enough for what is asked. Idempotency and cancel races need
two callers of one job; the second job and the single worker make one job wait
behind the other. Staleness is a sum of two lifetimes and two operation times.
With lifetimes of two instants an entry is served one instant after it was
stored in either tier, a promotion can happen at the end of the L2 lifetime
and the promoted entry be served at the end of its own, after a call that took
its whole time at each end: `MaxStale` is reached, and with one instant less
the run fails. One gateway with Redis stands for several: what they share is
Redis, and a gateway that restarts comes to it with an empty L1 as another one
does; `AnswersTrue` (section 5) is proved for any number. The gate needs as
many requests as slot + depth + threads. The limiter needs one window change
and one request more than the allowance in each store. The allocation instance
has a stop for each rule (anchor wins, band decides, sanity limit decides),
and makes two batches, the second short, and two or three chunks. The epochs
have a first, a last and two middle waves.

The cases of `vrp_package`, in `MCVrpPackage`, are one small instance for each
feature the code branches on: hard, soft and several windows, prizes in three
tiers, short shifts, pickups, shipments with a ride limit, reloads, skills,
sites, locks, an electric van between chargers, traffic, drivers' hours, a
long road with windows where breaks fall due, one order for each reason of the
diagnosis, coupled visits, two short depots, a depot with one bay and too
little stock, orders that exclude each other, a way round that is shorter than
the road, roads quicker and slower than the matrix, goods that come late, hard
and soft windows at one stop, gaps between windows, each kind of lock, high
and distant penalties, a shuttle of many short trips, a cache smaller than a
matrix, clusters that decline. What the members of a race offer and what the
engine answers to a library of delivery models are parameters of
`MCVrpPackage`, given in its cfg. The matrix cache holds five pairs for builds
of more, so it evicts in mid-build; the portfolio has more members than
workers; tours have four customers, the fewest where a reversal and a
relocation differ; the searches are followed for two iterations, one beyond
the first acceptance. What is proved needs no bound.

TLC also checks that the cases are instances the constructors of `vrp/model.py`
accept (`CasesAreValid`), and that what the properties leave open really occurs.
Where parts of the library are known to disagree (section 6), an operator of
`Plans` or `PlanUses` names the invariants, reasons or tiers concerned and the
condition under which they differ; the property claims everything else, the
same invariant outside that condition included. For each of those conditions an
assumption gives a plan that shows the difference:

| Assumption of `MCVrpPackage` | Shows of |
|---|---|
| `WhatPyvrpIsNotTold` | `LeftOutOfPyvrp`: that a plan the engine calls feasible breaks each invariant it gives, INV-3 and INV-8 for each reason |
| `WhatLegalityDoesNotSee` | `UnseenByLegality`: the same of a round `route_is_legal` accepts |
| `WhatPreflightGetsWrong` | `FalseAlarm`, `Unavailing`: an order named for each doubtful reason that a verified plan serves, an edit of each kind that changes nothing; and that all seven reasons of the diagnosis occur |
| `WhatTheBoundsLeaveOut` | `Unbounded`: a tier above its bound for each reason, and two plans the total puts in an order the tiers do not |
| `WhatACanaryMisses` | a canary that goes on a bad day, its one criterion being unknown |
| `WhatPolishingMisses` | a legal route polished into one that arrives between two windows |

If the code changed so that one of these no longer differs, the assumption
would fail with the model of it, and the exception could go.

Deadlock is checked except where the modelled thing really stops: clients of
the job service need not call and jobs run out (`SolveJobs`), one request is
followed to its answer (`VrpSolve`), a replay returns (`EpochReplay`). The
parts of `vrp_package` stutter explicitly when they are done.

## 4. Fairness

- `SolveJobs`: weak fairness of each client's steps inside a call and of each
  job's worker steps: the operating system runs runnable threads. Nobody is
  obliged to make a call, and the 60 s wait may end either way.
- `OsrmClient`: weak fairness of each request's steps: tokio polls a task that
  is ready, and every await of the request has a timeout. Nothing is assumed
  of Redis, of the engine or of the client.
- `AdmissionGate`: strong fairness of a task's running steps and of its
  deadline (a task that is ready again and again gets a thread although
  others use it in between; a timer fires), weak fairness of `Finish` since
  each call of a solve has a timeout.
- `RateLimiter`: strong fairness of a check's steps: Redis may come and go
  while the check awaits it, so which of its steps is possible keeps changing.
- `VrpSolve`: weak fairness of handler and tasks.
- all others: none. They are functions called in sequence, or loops with a
  bound, and their properties are about safety.

## 5. Proofs

`SolveJobsProofs` (for any clients, problems, keys, jobs, workers, chunks and
rounds): `TypeCorrect`, `Idempotent`, `DoneWithinStock`, `CancelIsFinal`,
`DoneStays`, `NeverWorse`, and `ImplementsAnytime`, that the service
implements `AnytimePlan` with the incumbent as the plan and the DONE jobs as
the complete ones. None of them is inductive alone. The invariant adds that a
client inside a call holds a created job (`Held`), that a job is submitted
once, by its creator (`Submitting`), that it is in the pool's queue at most
once (`Queued`), that index and jobs agree (`Indexed`: without it a retry
could create a second job), what each stage of `_run` knows (`Staged`: at the
final lock an uncancelled job's plan is within stock) and that a cancel that
waited is behind the end of `_run` (`Waited`). The assumptions are those of
`SolveJobs`: sentinels differ from real values, bounds are naturals.

`GatewayProofs`, on the gate (any finite set of requests, any slots, depth, threads):
`WaitersCounted`, `PermitsKept`, `QueueKept`, `DepthOvershootBounded`. The
invariant is the conjunction of these with the types and with
`EntrantsBounded`: the waiters and the requests between the load and the
increment together are at most the limit plus Threads - 1. The bound on the
counter alone is not inductive: the increment comes after the check.

`GatewayProofs`, on the client (any number of gateways with and without Redis, any
requests, keys, lifetimes, attempts and call times): `AnswersTrue`,
`OnlyEarnedErrors`, `TiersStayTrue`. That an answer is true does not follow
from earlier answers: the invariant says what every tier holds (`TiersTrue`:
an entry is younger than its tier's lifetime, its body is its key's, and at
most the lifetimes and call times before it older than the entry) and what a
request under way carries and how long it has carried it (`RequestsTrue`). The
chain engine, SET, L2, GET, L1 then adds up to `MaxStale`.

`RateLimiterProofs` (any gateways, clients, windows, allowance, any finite set
of requests): `SharedKept`, the allowance of the counter in Redis;
`RefusalsEarned`; and `AllowancesKept`, the allowance of every store, the
gateway's own buckets included. The first two hold for any number of threads:
no counter is ahead of the requests made even when those on their way have
been counted (`CountersJust`, `BucketsJust`), and while a window lasts its
counter has counted every admission (`SharedCounted`). The third assumes
`Threads = 1`, and cannot do without: `limiter_threads` is the counterexample
for two. Its invariant adds that one request is at a gateway's lock at most
and that no bucket is ahead of it (`LockIsTaken`, `BucketsBehind`).

`VrpSolveProofs` (any depots, stops, matrices, capacities, batch, chunk and
concurrency limits): `AnswersAreSound`, all of `AnswerIsSound`. The invariant
follows the request: tables as wide as what was fetched (`Phased`), a split
where every stop goes to one depot or is unreachable (`Split`) and which the
mode's rule accounts for (`Sounded`), chunks that partition the depot in turn
and tasks that keep to their chunk (`Solving`), routes so far that cover the
depots so far once (`Once`), labels in order (`Labelled`), the sweep cut at
its widest gap (`Wide`), and `CallsBounded`. What is said of coverage is said of
an engine that keeps to the shape asked (`faithful`), as in the run. Assumed:
ids are not numbers and differ from each other.

`ReoptimiseProofs` (any fleet, orders, matrix with the triangle inequality,
windows, shift and churn weights): `PlansSurvive`, the plan stays legal and
accounts for all work through any sequence of disruptions, what is dropped has
no place, a heavy churn weight moves only what must move, a change stays
local; `DisruptionsAbsorbed`, all of the property, and `CommitmentsGrow`, the
action property, both under `NothingBeginsAtOnce`: no service can begin the
instant the shift does. `recover_from_absence` is asked for before the shift
and starts from "nothing is executed"; without the condition an order next to
the depot is both. TLC evaluates the condition on the run's instance
(`MCAssumption`). The invariant is about the plan at the present instant
(`Sound`) and what the answer under way is to it (`Answered`); the lemmas that
carry it are that a round stays legal when stops are taken out
(`LegalWithout`, by the triangle inequality), that the insertion loop ends
with no place left (`PutBackKeeps`, `NoPlace`), and that the committed part of
a round is a prefix that later rounds extend (`CommittedGrows`).

`EpochReplayProofs` (any orders, vehicles, horizon, epoch length, arrivals and
policy): `OrdersGoInTime` and `HoldingCosts`, the two properties of the run.
For the first: what was seen is sent or carried and nothing is both
(`Accounted`), what is carried can be served at the start of the next wave
(`Waits`), nothing is left when the waves end (`AllGone`). For the second:
what is published is the first fit of what is carried (`Published`), an order
is seen within an epoch of its arrival (`Noticed`), and the delay of a row is
the sum, over what it sends, of the time since each was seen. That needs sums
over finite sets (`SumUnfolds`, `SumUnion`, `SumBetween`).

`PackagePartsProofs`, on five parts of `vrp_package`: `PartsAreKept`, that the
invariant of the part at work is kept, and from it

- `CellsAreTrueOrOwnedUp` (any lists of locations, any map and any extract of
  it, any cell cap and cache size, any pattern of refused tiles and of
  re-imports between builds). The property says nothing until a build ends; its
  invariant (`MatrixInv`) is about the build under way: every entry of the
  cache is a pair's value under some extract imported so far, one entry to a
  pair, within the size (`CacheInv`); every cell is true already, or lies in
  a tile that was refused, or in a tile still to do (`CellsSettled`). Beneath
  are that the tiles partition the matrix and keep to the cap (division with
  remainder), that renumbering a tile's locations and reading the answer row by
  row gives each cell its own pair, and that gets and puts keep the
  cache sound whatever they evict.
- `TimingNeverDecides` (any instances, engines, answers, workers, threads or
  processes). `RaceInv`: queued, running and answered members partition those
  that race, no more run than there are workers, and what is answered is the
  member's own answer under its own place. A finite set of scores
  has one least element by score and then by name, so the outcome is a
  function of the answers.
- `GuardIsAlwaysKept` (any list of phases, any schedule, any readings).
  `LoadInv`: while a phase runs, what was issued is in flight or has ended,
  only an enabled guard samples or breaches, and a launch after the breach is
  possible only before the launcher next sleeps (`late` is 0 when it does).
- `ReplaysAgree` (any inputs, searches, reports, clocks, edits). `RunInv`: the
  snapshot in hand carries the digest of its own payload whatever the caller did
  to the object since, each record is the record of the input with its digest
  (`IsRecordOf`), and the trajectory is what is left of the trials so far when
  those that improve nothing are dropped (`Filtered`), falls in time
  (`Clocked`) and ends with the best of them (`IsBest`). Two records of one
  digest then agree.
- `SearchKeepsTheFaith` (any number of customers, integer cost tables, demands,
  capacity, windows, string and attempt limits, starting plans that serve
  each customer once, and whatever the seeds draw). `SearchHolds` says of each
  search what its plan is: routes that hold each customer once (`OnceEach`),
  or a closed tour of all the nodes (`ClosedTour`). One iteration is a long
  way from one such plan to the next, so the lemmas follow it: cutting a
  string leaves two disjoint parts of a route (`CutOut`), after every string
  what was removed and what is left still partition the customers, each
  insertion gives one customer back, a customer of an emptied route is in
  another route or still in the pool, and a relocation or a reversal only
  permutes the tour. That `best` is the cheapest needs costs to be integers, by
  way of sums over finite sets (`SequenceSumIsInt`); that no attempt
  overfills a route needs that every route is one given or one that the last
  insertion into it was checked to fit (`AllFilled`).
- `ToursOnlyShorten` (the same, with tables that read the same both ways:
  `GridsAreSymmetric`, which TLC evaluates on the run's tables), the action
  property `TourOnlyShortens`. A move is made when the gain computed from the
  few legs it names is positive; that this is the change of the whole length
  is a matter of re-indexing its sum. For a relocation the legs are summed by
  the node they leave: only three nodes then lead somewhere else
  (`RelocateGains`). For a reversal they are summed by place: inside the
  segment the legs are the old ones in reverse, which needs the symmetry, and
  only the two at its ends change (`ReverseGains`). `SumRenumbered`,
  `SumTwoChange` and `SumThreeChange` are what is used of sums.

Assumed (`PartsAssumption`, evaluated by TLC on the cases): locations are
lists of integers, the cell cap is positive (`MapIsKnown`); costs are integers,
demands naturals, and a plan given to a search serves each customer once
(`SearchAssumption`); engines are numbered
in the order of their names and a legal plan has an integer score
(`EnginesAreKnown`); phases are as `LoadTest` declares (`PhasesAreKnown`); a
search tries at least one plan and counters are counts (`RunsAreKnown`).

The theorems are about every value of the constants that meets the named
`ASSUME` of the module (`ClientAssumption`, `LimiterAssumption`,
`VrpAssumption`, ...), which TLC evaluates on the instances. Induction is by
least counterexample: a set of naturals that is not empty has a least element
(`LeastElement`), a set of finite sets a smallest (`SmallestSet`). A recursive
function is unfolded by first proving that a function with its equation exists
(`KeepsExists`, `DrivesExists`, `PutsExists`, `FitsExists`, ...), since
`CHOOSE` then picks one.

Only model-checked, and why:

- `EveryJobEnds`, `EveryRequestEnds`, `EveryWaiterIsAnswered`,
  `EveryCheckEnds`, `EveryRequestAnswered`: liveness under fairness, which the
  prover does not handle;
- the other properties of `vrp_package`. Most compare what an operator computes
  over a whole plan (a timeline, a price, a compiled model, a document) with
  a second computation of it, which takes induction over data;
  `CleanExitIsEarned` is about recursive operators of `Parity`;
  `ReturnedPlanHoldsUp` and `NoOrderLost` are invariants of loops and remain to
  be proved (section 8);
- what the runs that end in a violation say: it is false.

## 6. What disagrees with the repository's own words

Runs that end in a violation, each with a finding in `PROJECT.json`:

1. `jobs_cancel_settles`: a cancel issued by a keyed retry before
   `job.future` is assigned returns with CANCELLED, and the worker then writes
   RUNNING over it for good (`vrp/jobs.py:188`, `:228`).
2. `limiter_threads`: a request that read the clock before a window change
   and takes the lock after it sets the bucket back; the new window is then
   counted from zero again (`gateway/src/ratelimit.rs:241`).
3. `reoptimise_prefix`: insertion tries places in front of committed stops, so
   the plan breaks the prefix locks returned beside it
   (`vrp/triggers.py:444`).

Met while modelling, without a run of their own. The models do what the code
does; where a property would fail for one of these reasons, its premise names
the case, and where the property is one of a plan (those in the table at the
end of section 3) an assumption shows that the case occurs.

Gateway:

- `admission.rs:65`: more than `VRP_MAX_QUEUE_DEPTH` requests can wait, by at
  most one per further thread (`DepthOvershoot`, proved); requests on their
  way in count as waiters, so one can be refused while slots are free.
- `client.rs:342`: a redirect is cached as a success; a failed first contact
  with Redis is tried again (`redis_cache.rs:81`), the docs say otherwise.
- `ratelimit.rs:212`: the fallback starts a bucket of its own from zero.
- `allocate.rs:152`: in radial mode, or when the sanity limit forces the
  anchor, a stop without a road from the anchor is unreachable although
  another depot has one. `VrpResponse` has no `unreachable_stops`
  (`solve.rs:64`). A short /table leaves the last stops unassigned without an
  error and a short batch shifts the columns after it; a short /trip drops
  stops. Keys of /vrp/allocate collide when a depot's id is another's number.

Jobs, re-planning, replay:

- `jobs.py:197`: `wait()` returns at once before the future is assigned;
  `jobs.py:189`: `cancel()` raises a timeout past an incumbent.
- `triggers.py`: inserted work may be scheduled before the present instant; a
  broken van is not remembered by the next trigger, and keeps its en-route
  stop; an urgent order that is not planned is never inserted.
- `epochs.py:107`: `must_go` calls an order deferrable when any vehicle can
  reach it, also one that may not or cannot carry it or whose shift is over.
  With soft windows only, `_reachable` does not look for a road.
- `replay.py:398`: `compare` replays all days with one policy object, and
  `BASELINES["random"]` keeps its generator for the life of the process, so
  two calls on one corpus report different costs for it.
- `replay.py:76`: delay is documented as counted from arrival and is counted
  from the start of the wave that saw the order.
- `icd.py:112`: "nothing moved; further rounds cannot either" - the next round
  would draw other futures.

Legality, diagnosis, loops:

- `hos/schedule.py` reads only a stop's first window and puts breaks in after
  the windows were looked at: `route_is_legal` accepts a route whose breaks
  push a stop out of its hard window (INV-3). It times roads by the matrix, not
  by a speed profile (INV-4), and a duty that ends without a drive home is over
  its hours unseen (INV-7). Nor does `route_is_legal` look at `max_duration` and
  `max_distance` (INV-6). (`UnseenByLegality`)
- `verify` raises `UnreachableArc` on a plan over a missing arc instead of
  reporting it.
- `diagnose.py` refuses orders that can be served (`FalseAlarm`): one with
  excluded partners is called INCOMPATIBLE_ONLY though they go on another
  vehicle or stay behind; stock is counted against pickups too
  (DEPOT_STOCKOUT); a dimension no vehicle declares holds nothing
  (CAPACITY_EXCEEDED) while the verifier does not limit it; "straight out" is
  not the soonest where a way round is shorter or a profile faster than the
  matrix (TIME_WINDOW_UNREACHABLE, DUTY_LIMIT); the way home is counted
  against an open vehicle (DUTY_LIMIT).
- `synchronise._hold_until`: a window that has closed becomes its last instant
  instead of a refusal. The loops of `depots` and `locks` rebuild the instance
  without its couplings and speed profiles.
- `electric._charge_before` indexes the timeline by the position of an order
  although charges before it have shifted it.
- `explain._remedy` answers DUTY_LIMIT with a shift, which does not lift a
  limit on duration; "the quickest eligible vehicle" is taken over all; of
  several things an order asks of a vehicle only one is offered
  (`Unavailing`). A detour is reported without the drive of a vehicle that is
  left with nothing to its end.
- `quote.py` says a refused insertion was refused by skills or site access;
  legality asks for neither. `api.py` drops skills, access and more when it
  reads a request, and lists INV-1 to INV-13 as evaluated.

Searches and adapters:

- `localsearch.py:205`: reversing a segment is priced by its two ends; on an
  asymmetric matrix the tour may get longer (`TourOnlyShortens` is about
  symmetric ones).
- `polish.py`, `setpartition.py`, `decompose.py` read `end_location_id` where
  a van without one returns to its start, so they raise for it; the dynamic
  program takes the hull of an order's windows, so that a polished route may
  arrive between two of them; `setpartition.polish` schedules without drivers'
  hours. `optimal_departure` claims the exact least duty, and leaves a route
  alone that has no hard window.
- `decompose.py`: a cluster that no engine solves is put on its first van,
  overloaded, and the whole is still called FEASIBLE.
- `pyvrp_adapter`: pickups of shipments are not looked at by
  `_refuse_unreachable`; orders with several windows are compiled as required
  though they may be declined. What the compiled model is not told
  (`LeftOutOfPyvrp`): drivers' hours (INV-7); that one hard window of a stop
  binds beside a soft one, and service factors other than the first vehicle's
  (INV-3); locks on sequences, deployment and freezing, and who may serve an
  order at a vehicle's own depot (INV-8, INV-10); stock and couplings (INV-13,
  INV-15). A trip after a reload waits for late goods at the bay (INV-12), on a
  route that left before them (INV-17, which judges the route's departure).
  `delivery_deadline` is too late where the triangle inequality fails (INV-14).
- `ortools_adapter` takes skills, access, drivers' hours, profiles and
  batteries without a word, and two orders at one node overwrite each other.
- `matrix.PairCache`: the key has no version of the map, so pairs outlive a
  re-import.

Scores and practice:

- `objective.tier_bounds`, "every bound is a real upper bound" (`Unbounded`):
  SOFT leaves out the rates per second and how far off a window may be;
  OPERATING and QUALITY count twice as many legs as places for each vehicle,
  and a shuttle drives more; OPERATING in MIN_DURATION without a rate per
  second counts seconds at one against a bound of rates per metre.
- `rollout.decide`: "the defaults fail closed", yet a criterion of an unknown
  name is observed at 0 and never fails.
- `periodic.schedule` refuses commitments that some choice of days meets.
- `zones.learn_prior`: two zones without a lean either way fall into the order
  of their ids.
- `servicemodel`: sections a variant has of its own are ignored without a
  word; one that changes nothing keeps its master's name.

Tools:

- `parity/report.py:110`: `summarise` counts verdicts of cases, so a run whose
  endpoint fails by its ratio (`quality.py`) exits 0.
- `loadtest/capacity.py`: the breach latches over phases until `recover`, which
  also clears the mark the envelope's note is printed from; a phase aborted
  before its first answer reads healthy; a probe that fails from the start
  reads 0 MB and trips the guard.
- `bench/runner.gate` does not miss instances dropped from the corpus;
  `read_benchmark` drops a delivery whose named partner names another.
- `anonymise.write_corpus` re-reads only the identifying fields, so a document
  built by hand with unclassified ones would be written.

## 7. Assumptions and what is left out

Assumed: the gateways' clocks agree; Redis executes no command after its
client gave up on it, except the one under way; an abort takes effect between
polls; distinct depot ids; the allowance is positive; in `Reoptimise` travel
times obey the triangle inequality and an order has one hard window; execution
follows the plan's own clock, an engine honours the locks it is given, and
recovery from absence is asked for before the shift, at whose start no service
can begin yet (`NothingBeginsAtOnce`, section 5). In `vrp_package` an
engine answers any plan that meets the model compiled for it, never one that
does not; a digest is injective; the pseudo-random generators may draw
anything, so what is said of them is said of every seed; averages are exact.

Not modelled, and why:

- gateway proxy endpoints, request models, error and number formatting: they
  translate a request and keep nothing between requests; the calls they end in
  are `OsrmClient`'s;
- metrics, tracing, OpenAPI, version: nothing reads them back;
- floating-point geometry, formatting of URLs and cache keys, tile rendering:
  data of the instances here;
- the engines themselves (PyVRP, OR-Tools, osrm-routed): external;
- reading and writing of documents, printing of reports and command lines;
- failures that leave no state behind: a `/table` answer with more rows than
  there are depots (an index out of range at `allocate.rs:90`), a portfolio asked
  for an executor it does not know, a decomposition asked for more clusters
  than there are vehicles;
- the tables of the benchmark catalogue, document generators, examples,
  experiments and deployment.

`PROJECT.json` lists every part with its status.

## 8. Plan

Done: all components with a state or an algorithm of their own, see section 2;
proofs of the safety properties of every component that has a run of its own
and of five parts of `vrp_package`, see section 5.

Next, in this order, as further parts of `PackageParts`:

1. `NoOrderLost`: a partition stays one while clusters end in any order and
   border orders move.
2. `ReturnedPlanHoldsUp`: the loops of `synchronise` and `depots` return only
   what they have looked at.
