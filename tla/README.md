# switch-service: models, checks and proofs

`switch-service` answers one question for every payout: which payment channel
shall carry it now. It keeps, in Redis, a sliding window of outcomes and a
circuit breaker per channel; it learns the outcomes from a Redis stream; the
channels themselves are rows in Postgres. This directory holds TLA+ models of
its core, the TLC runs that check them on small instances, and TLAPS proofs of
the main safety properties for every instance. Paths in this text are relative
to the repository root.

## 1. Inventory

### Components, state and operations

| Component | State | Operations | Modelled in |
|---|---|---|---|
| Circuit breaker rules, `src/domain/breaker.ts` | none (pure) | `evaluateBreaker`, `recordProbe` | `BreakerRules` |
| Routing service, `src/services/routingService.ts` | per request: `now`, ids, window numbers, snapshots, selection | `route`, `refreshBreakers`, `degradedDecision` | `RoutingProtocol`, `Decision` |
| Breaker store, `src/store/breakerStore.ts` | Redis `breaker:<id>` hash, `probe:<id>` lock with TTL | `read`, `readMany`, `write`, `takeProbeSlot`, `releaseProbeSlot`, `reset` | `RoutingProtocol`, `AdminReset` (`reset`) |
| Outcome handler, `src/consumer/outcomeHandler.ts` | per message: claim, `now`, snapshot | `handle`, `applyToBreaker` | `RoutingProtocol`, `OutcomeStream` |
| Processed store, `src/store/processedStore.ts` | Redis `processed:<event>` with TTL | `claim` | `RoutingProtocol`, `OutcomeStream` |
| Window store, `src/store/windowStore.ts`, `src/domain/window.ts` | Redis `sw:<id>:<bucket>` hash and `:lat` list, each with TTL | `record`, `read`, `readMany`, `readBuckets`, `clear` | `SlidingWindow`, `IdealWindow`, `AdminReset` (`clear`) |
| Outcome consumer, `src/consumer/outcomeConsumer.ts`, `src/redis/consumerGroup.ts` | stream, consumer group, pending list, dead letters | `start`, `stop`, read loop, claim loop, `process`, `deadLetter` | `OutcomeStream` |
| Channel registry, `src/repositories/channelRepository.ts` | Postgres `channels`; one list per process in memory | `listChannels(Cached)`, `setEnabled`, `upsertChannel`, `deleteAllChannels`, `clearChannelCache` | `ChannelCache` |
| Scoring and selection, `src/domain/scoring.ts`, `selection.ts`, `percentile.ts` | none (pure) | `p95`, `buildCandidates`, `selectChannel` | `Decision` |
| Configuration, `src/config.ts` | none | `loadConfig` | the `ASSUME`s |
| Admin service, test clock, `src/services/adminService.ts` | all of the above | `reset`, `seed`, `advanceClock`, `dump` | `AdminReset` (not `advanceClock`, `dump`) |
| Migrations, pools, `src/db/` | `schema_migrations`, advisory lock | `runMigrations`, `waitForDatabase`, `closePools` | `Lifecycle` |
| Start, shutdown, health, `src/server.ts`, `src/services/healthService.ts` | ready and running flags | `main`, `shutdown`, `readiness` | `Lifecycle` |
| Contract status, `src/services/contractStatusService.ts` | one answer in memory | `status` | `Console` |
| Deploy gate, `ci/`, `scripts/` | what the broker holds | gate steps, fallback, polling, deployment and its record | `DeployGate` |
| Event feed, `src/lib/sse.ts` | subscribers, keep-alive timer | `subscribe`, `publish`, `closeAll` | `Lifecycle` (not `publish`) |
| Console, `console/src/` | the last answers | the refresh loop, the contract panel | `Console` (not rendering) |
| Channel health, decision log, `src/services/channelHealthService.ts` | none, or a log nobody decides by | reads and one insert | `SlidingWindow` (the series), `AdminReset` (the log) |
| HTTP layer, `src/routes/`, `src/controllers/`, `src/middleware/` | none | parsing and status codes | not modelled |

### How they interact

```
 payout orchestrator --POST /route--> RoutingService --reads, writes--> Redis: windows,
        |                                  |  (channel list)                   breakers,
        |                                  v                                    probe locks
        |                              Postgres                                    ^
        +--txn outcome--> Redis stream --> OutcomeConsumer --> OutcomeHandler -----+
```

Requests and outcome handlers never call each other. They share the Redis keys
and nothing locks a breaker: each reads a snapshot, awaits something, and writes
a snapshot back. Several processes run the same code.

Beside them, outside of production, `POST /admin/reset` clears the same keys and
the tables one store after the other, while requests and handlers go on.

Around them: every instance migrates the one Postgres before it listens, and
ends its consumer, its Redis and its pools in turn when it is told to stop. The
console subscribes to the event feed of an instance, polls it, and asks it now and
then for the contract status, which the instance reads from the broker and
remembers. A pipeline publishes the
contracts of a version to a Pact Broker and asks it before it deploys, while the
pipeline of `disbursement-service` does the same.

### What is hard

* **Interleaving.** A request holds snapshots across several awaits while
  handlers and other requests write the same breaker.
* **Delivery.** An outcome is delivered at least once; it may be delivered to
  two workers, after its processed key has expired, or after Redis has restarted
  empty.
* **Partial failure.** Every Redis call may fail or be answered late; some are
  under a time budget and some are not.
* **Time.** The probe lock, the window buckets and the processed keys expire by
  the clock of Redis, while requests carry a `now` that they took earlier.
* **Stale memory.** The channel list is read from a replica, is filled after an
  await and is not keyed by the corridor it was read for.
* **Start and stop.** Instances of different builds start together and may die
  anywhere; a shutdown races requests that hang and subscribers that stay.
* **Clearing under way.** `reset()` takes ten steps; writers that started before a
  step write after it, and any step may fail.
* **Overlapping answers.** Refreshes of a page and calls of `status()` overlap, and
  what answers last is kept.
* **Two pipelines.** The broker changes while the gate waits, and a push cancels
  a pipeline anywhere.
* **Boundaries.** Minimum samples, percentile rank, equal costs, TTL rounding.

What makes each component correct: a channel is blocked only on evidence and is half
opened and closed only by the rules; a standing block is respected; an outcome counts
once; the window numbers are those of the window; everything on the stream leaves it;
the list in memory is never older than its TTL and the lag of the replica it is read
from; a decision says truly how it was made; a request ends; migrations are applied
once each and in order; an instance that says it is ready is; a start and a shutdown
end; a green gate stands on results; an undisturbed reset leaves a known state, and no
reset brings an old outcome back or skips a new one; what a green page shows is
recent.

## 2. Modules

| Module | What it is |
|---|---|
| `BreakerRules` | the breaker's pure functions and the assumptions on its settings |
| `RoutingProtocol` | requests and outcome handlers as concurrent processes over Redis (extends `BreakerRules`) |
| `RoutingProtocolProofs` | its theorems |
| `IdealWindow` | what the window store promises: exact numbers of a window |
| `SlidingWindow` | how it keeps the promise: buckets, TTLs, one pipelined read; implements `IdealWindow` |
| `SlidingWindowProofs` | its theorems: the refinement, the samples, the charts and the keys that expire |
| `OutcomeStream` | the stream, the group and its workers, with failures, crashes and restarts of Redis |
| `AdminReset` | `reset` and `seed` beside the consumer and requests (extends `OutcomeStream`) |
| `OutcomeStreamProofs` | the theorems of `OutcomeStream` and `AdminReset` |
| `ChannelCache` | the registry, the list in memory of each instance, its readers and the changes |
| `ChannelCacheProofs` | its theorem about the age of a list |
| `Lifecycle` | start, migrations, readiness, subscribers and shutdown of several instances |
| `LifecycleProofs` | its theorems |
| `DeployGate` | the contract gate and the pipeline around it, beside an external broker and consumer |
| `DeployGateProofs` | its theorems |
| `Console` | a page that polls, its contract panel, and the remembered contract status of the service |
| `ConsoleProofs` | its theorems |
| `Decision` | percentile, score, ranking, choice and the second choice of a request |
| `DecisionProofs` | its theorems |
| `MC...` | the small instances that TLC runs |

### How state and actions correspond to the code

An action is the code between two awaits: one Redis or Postgres command, with
the statements that follow it. A command that can fail has an action for the
failure.

`RoutingProtocol`. `breaker`, `slot`, `recorded` and `processed` are the Redis keys; a
missing breaker hash reads as closed, as `parseSnapshot` does. `pc`, `at`, `ids`,
`stats`, `view`, `todo`, `chosen` are the local variables of one `route()` call;
`hpc`, `event`, `hat`, `hsnap` those of one `handle()` call. `Start` takes the time
and the channels the caller can reach. `ReadStats` and `ReadBreakers` are the two
reads inside `withBudget`, and `Degrade` the budget running out or either read
failing. `ReadBreakers` also moves each snapshot with `evaluateBreaker`;
`RefreshWrite` and `RefreshWriteFails` write one moved snapshot. `Select` ranks and
chooses; `TakeSlot`, `SlotRefused`, `SlotFails` are the three answers to `SET NX PX`.
`SlotRefused` chooses again and takes no slot, as the code does; `SlotFails` may leave
the slot taken, because the `SET` may have been carried out. A chosen channel is
answered only after `Persist`, the wait for the decision log, while the log of a
degraded decision is not waited for. A handler goes `Claim`, `RecordOutcome`,
`ReadBreaker`, and then either `WriteProbe` and `ReleaseSlot` or `Evaluate` and
`Write`; `HandlerFails` ends it anywhere and its message is delivered again. `Tick`
moves the clock and expires locks and processed keys, so that an outcome that is
delivered again after `ProcessedTtl` is claimed, recorded and applied a second time.
The window is the set of recorded outcomes with their times in bucket units;
`SlidingWindow` justifies that. Scores are left to `Decision`: any eligible channel
may be chosen, which includes every choice the scores and the random numbers can make.
`standing` (the channels blocked ever since a request began) and `probed` (the good
outcomes taken for probes, each with the opening time of that breaker) are history
variables, set by `Observe` in every step.

`SlidingWindow`. `counters` and `latency` are the hashes and lists that exist,
with the time each expires. `Begin` and `Ask` are the moments where a caller
takes its `now`; `Record` and `Read` are the commands, up to `MaxDelay` later. A
`MULTI` is one action. `Replies` lays the pipeline out as `readMany` does, and
`readBucketReply` and `readBucketSamples` find a bucket's place in it by the code's
index arithmetic; `latencySamples` is what a channel's samples are put together from.
The refinement maps `log` to the set of its entries and a list of channels to its
set. `SumOf` is the loop of `readMany` that adds up the replies. `Series` is what
the charts show: `readBuckets` per channel, its failure rates and its start times.

`OutcomeStream`. `group` is the last entry read by the consumer group, -1 with
no group; `pending` its pending list with delivery counts; `FirstOf` says which
of the due entries `XPENDING` tells within its `COUNT`. A reader is a
`readLoop`; a claimer one run of `claimStale`, and several run at once because
the timer does not wait for the last one and other instances have timers too.
`TakeClaimed` uses the delivery count that `XPENDING` told, which may be old, and
moves a message to the dead letters by it even when the group is gone.
`HandlingFails` is any failing call, `Dies` a process that is killed. What the
handler does to breakers is not repeated here.

`AdminReset` extends `OutcomeStream`: its actions `Take`, `Consume`, `Produce` and
`Time` are those of the stream together with what they do to the other stores, which
`OutcomeStream` leaves out: after `RecordOutcome` a handler may write the breaker and
then release the slot, from a snapshot read before. A breaker is here only the fact
that a key blocks its channel; when it does is the matter of `RoutingProtocol`. A
request is one `route[c]` from `RouteReads` to `RouteLogs`. `table` is Postgres; the
lists in memory are not repeated, so `IgnoreUnknown` and `HandleKnown` are both
possible whatever the table holds, and a request may be about a channel that was just
deleted. Every awaited call of `reset()` is an action, `Reset` to `DeleteProbes`, in
the order of the code; `ResetFails` is any call that throws, and the two `DEL`s whose
errors are swallowed have a second outcome instead. `listed` is any set of channels,
because `listChannels` answers for the default corridor only and from the replica.
`deleteByPattern` is one step. `quiet` and `gone` are history: nothing but the reset
is at work, and the entries that resets took off the stream.

`ChannelCache`. `versions` is everything the table has held on the primary, with the
times, and `replica` how many of them the replica has applied (`Replicate`); `cache`
is the list of each instance. Operators write the primary (`db`), readers ask the
replica (`dbRead`). How far the replica may be behind is the operation's to say:
`MaxLag` is an assumption on Postgres, kept by `Tick`, and no constant of the code. A
reader goes from `Call` through `Query`, where the replica answers, to `Fill`, where
the answer has arrived; operators change the table in one action and clear the list of
their own process in another.

`Decision`. Scores are exact fractions until `round4`. The code computes them as
floats; rounding of floats is monotone, so it cannot turn a larger score into a
smaller one, and an exact tie of two fractions may at most become a near tie that
`round4` joins again or splits by one unit. In `percentile` the float product
`n * 0.95` and the exact one have the same ceiling: a product that is a whole number is
rounded to it, and the others are at least 0.05 away from one. Weights are any
integers: `loadConfig` checks only their sum, and `clamp01` keeps a score between
0 and 1. The two random numbers are replaced by the set of all choices they allow. The two
sorts of the code are given by their results: `Sorted` by which value stands on each
place, `buildCandidates` as the one list with every channel that is in order.
`EligibleOf` is the filter of `selectChannel` as the set of places it keeps.

`Lifecycle`. `lock`, `recorded` and `applied` are in Postgres; `pc` says where
`main` or `shutdown` of an instance stands. `Exit` is the end of a process as
others see it: Postgres rolls back and drops the lock of the session, open
connections are cut. `Start` to `StartConsumer` follow `main`; `RunFile` is
`BEGIN`, the file and its row, `Commit` the `COMMIT`; `StartFails` is any failing
query, and one whose `COMMIT` was done but not answered. A file is a number in
the order of the names, and a newer build has more of them. `Signal`,
`CloseServer`, `ServerClosed`, `ConsumerStopped`, `Quit` are the awaits of
`shutdown`, and `HardExit` its timer. A request is `waiting` once its connection
is accepted, so a subscription may still come after `closeAll`.

`DeployGate`. A row is a contract with the two versions it is compared for;
`Breaks` are the rows that disagree, known to nobody before they are verified.
`Run` is a pipeline that starts, and cancels the one under way. `Publish`,
`Verify`, `Ask`, `Poll`, `Judge` are the steps of `ci/contract-gate.sh`; `kind`
is `open` where no broker is configured. `Ask` makes the fallback to the main
branch, `Retry` repeats the question. `AskAlone` is `can-i-deploy` run by hand for
a version that was never published; the model has it between two pipelines.

`Console`. An answer is modelled by the time it tells of, because that is what can
go wrong with it: `shown` and `contracts` are such times. `refreshes` holds the
starts of the `refresh()` calls under way; the interval timer adds one at each poll
in `Tick`, a button in `Changed`, and `Settle` is the end of `Promise.allSettled`,
with any of the halves answered at any time since its start; several that began at one
moment may settle one by one. The contract question
goes out from there when it is `Due`. `Status`, `ReadBroker` and `Hand` are the parts
of `status()`: the test of the cache, the broker's answer with the fill, and the
answer to the caller. Nothing lasts longer than its timeout (`InTime`), which is the
`AbortSignal` of each call.

## 3. Runs

`tlc -config X.cfg M`, with the `MC` module of the component; each takes from
seconds to two minutes.

| Run (cfg) | Shows | Bounds, and why they are enough |
|---|---|---|
| `RoutingSafety` | `TypeOK`, `HalfOpenIsAged`, `CountedOnce`, `BlockIsJustified`, `StandingBlockHolds`, `ClosesOnGoodProbes` | 3 payouts, 2 handlers, 2 channels, 2 probes to close, clock to 2, window 2: one failure opens, two good probes close, with a second writer at each point; a processed key lives for 2 and the slot for 1, so a message delivered again at time 2 counts again; callers reach both channels, one or none, and a refused slot leads to the other. One sample is enough here (`MinSamples`): that a breaker never opens on fewer than a larger minimum is left to `BlocksAreJustified` |
| `RoutingLiveness` | `RouteEnds` | 3 payouts (one opens the breaker, two compete for the slot), every command of Redis may fail, processed keys expire within the clock |
| `WindowExact` | `CountsAreExact` (`SlidingWindow` implements `IdealWindow`), `SamplesAreNewest`, `SeriesIsExact`, `OldBucketsGo` | a window (3) that is not a multiple of the bucket (2), a TTL rounded up from 6 to 8, delays up to 1, the lists of the store and the samples a reader picks from them, capped at 1 with 2 outcomes (the order in longer lists is left to `SamplesStayNewest`), a clock beyond the last expiry |
| `StreamSafety` | `TypeOK` (deliveries stay bounded), `CountedOncePerKey`, `AckedWasSeen` | one event sent twice, a reader and two overlapping claimers, batches of 2, 2 deliveries allowed, failures and deaths anywhere, Redis restarts once |
| `StreamLiveness` | `StreamDrains` | a message of each kind (an outcome, a broken one, one too new), whose handling may fail for ever; Redis restarts once |
| `CacheAge` | `StaleAtMostTtlAndLag` | 2 instances, a request, a lookup, two operators; TTL 2, a replica up to 1 behind, clock to 5, two versions of the table |
| `DecisionRank` | `PercentileIsRight`, `BetterScoresHigher`, `StrategyIsTrue` | every assignment of 10 profiles to 3 channels: cold, measured, with damaged samples, 20 samples with one outlier, off, open, half open |
| `Lifecycle` | `TypeOK`, `WorkIsCurrent`, `AppliedInOrder`, `ReadyIsTrue`, `RequestsAreServed`, `SubscribersArePinged`, `StartEnds`, `ShutdownEnds` | an old and a new build of the service and the new command line, three starts in all: two at once and a third after a death anywhere; one request, two subscribers (the timer must outlive the first that leaves), 2 attempts to reach Postgres |
| `DeployGate` | `TypeOK`, `GreenIsVerified`, `RecordedWasLive`, `ShipsWhatWasCompared`, `JudgedOnSomething`, `GateEnds` | 2 versions of each service, one row broken in each contract, 2 retries: a first deployment with an empty production, a second one against it, each cancelled or failing anywhere |
| `AdminReset` | `NothingIsSkipped`, `OldOutcomesStop`, `ResetIsComplete` | one channel, event and message, a reader, a claimer and a request beside resets without end; every step of every actor may fail. A second key of a kind meets the same steps; the restart of Redis is left to `StreamSafety` |
| `Console` | `TypeOK`, `ShownWhileUp`, `PanelIsRecent`, `StatusIsFresh` | one half of the page (each is settled by itself), one other reader of `status()`; a poll of 1 and a timeout of 2, so three refreshes overlap, a cache of 2, questions every 3; the clock goes to 11, three questions. As in the code, a timeout and a broker timeout together fit between two questions, so that one is under way at a time |

`CHECK_DEADLOCK FALSE` stands in the instances that really end: all payouts
routed, all messages acknowledged, the clock at its bound, all starts used up,
every version deployed. `CacheAge`, `AdminReset` and `Console` check deadlock:
readers, requests, resets and the buttons of a page never stop.

Symmetry is used in safety runs only, over payouts, handlers, outcomes and
workers, none of which the formulas tell apart. Channels are never symmetric:
the order of their list matters.

Each property is known to be able to fail: the operators commented "Fault" are
plausible mistakes (a dropped guard, a wrong TTL, a missing acknowledgement), and
with the fault in place of the real definition TLC finds the property violated.

### Where the code and the documents disagree

One run checks a statement of the repository's `README.md`, and TLC finds a
behaviour of the code that breaks it.

| Run (cfg) | Statement | What happens |
|---|---|---|
| `ViolationOneProbe` | "A half-open breaker allows ONE payout at a time. A Redis lock holds the slot." (`README.md:63`) | the outcome of an older payout deletes the slot of a running probe; the slot outlives the clock of the run, so no expiry is needed for it |

Further disagreements, seen in the code and in the actions that model it, for
which no run is kept:

* A failed message stays pending and a later claim retries it
  (`src/consumer/outcomeConsumer.ts:12`): `Handle` claims it before it is recorded
  (`src/consumer/outcomeHandler.ts:126`), so after a failure in between the retry is
  a duplicate, and is acknowledged without having counted.
* What is ignored is an outcome of a channel the service does not have
  (`src/consumer/outcomeHandler.ts:117`): the cached list may be that of another
  corridor (`src/repositories/channelRepository.ts:53`), and a channel that exists is
  then unknown (`IgnoreUnknown`).
* "It never routes to a channel whose breaker is `OPEN`, for any reason"
  (`README.md:227`): `Degrade` looks at no breaker, and `Select` uses snapshots
  that a later opening overtakes.
* OPEN becomes HALF_OPEN after `openMs` (`src/domain/breaker.ts:8`):
  `RefreshWrite` and `WriteProbe` write a snapshot computed from an old read over
  a new OPEN, and the breaker is HALF_OPEN or CLOSED at once. `HalfOpenIsAged`
  holds nevertheless, of the opening that the snapshot carries.
* "Five seconds is short enough that an operator sees a change at once"
  (`src/repositories/channelRepository.ts:8`), and "every read that follows a write"
  goes to the primary (`src/db/pool.ts:10`): `Query` reads the replica, also right
  after `setEnabled` has cleared the list, and puts back what the replica still has.
  The bound is `CacheTtl + MaxLag`.
* The same promise of `README.md:63`: `SlotRefused` may choose a second
  HALF_OPEN channel, for which no slot is taken.
* A probe is a payout let through while HALF_OPEN (`src/domain/breaker.ts:62`):
  `ReadBreaker` takes any outcome handled in HALF_OPEN for one.
* "It never fails a payout because the metrics are missing" (`README.md:229`)
  and "the money path must never wait for the metrics path"
  (`src/redis/client.ts:56`): the breaker write and the slot command have no
  budget, and `SlotFails` ends the request in an error.
* Dead letters "failed too many times" (`src/consumer/outcomeConsumer.ts:169`):
  `TakeClaimed` decides by a delivery count, also for an outcome that was applied
  and whose acknowledgement failed.
* "No channel is configured for this corridor" (`src/services/routingService.ts:80`)
  may be said from the cached list of another corridor.
* "An eligible channel always comes before an ineligible one"
  (`src/domain/scoring.ts:142`): `SlotHeld` leaves the refused candidate in its
  place.
* A reset "puts the service back to a known state"
  (`src/services/adminService.ts:66`): `ResetBreakers` clears the breakers of the
  channels that `listChannels` told (`adminService.ts:89`), which are those of the
  default corridor, as the replica has them; the others stay. A request or a handler
  that writes one after that step leaves it behind for a channel that is then deleted,
  and no later reset finds it; when the channel is seeded again it is blocked. The
  errors of the two `DEL`s are swallowed (`adminService.ts:95`), so the answer may be
  a success over a stream that is still there. `ResetIsComplete` is stated for a reset
  that neither disturbs.
* The feeds "make the page react at once" (`console/src/App.tsx:98`): the page opens
  them and listens to nothing they say, so what is shown changes with the poll.
  `ShownWhileUp` is the bound that this leaves: 1 + 2 * 6 seconds under a green dot.
* The contract status remembers every answer (`ReadBroker`), also the one that says
  that the broker could not be reached, until the TTL ends.
* "The DEPLOY job must depend on the gate, not on this job, so an open gate can
  never ship" (`ci/contract-gate.sh:46`): the deploy job of
  `.github/workflows/ci.yml:171` depends on the job that runs this very script,
  and the script ends with 0 when no broker is configured. `Deploy` therefore
  goes on from `open`.
* "This version is safe to ship" (`.github/workflows/ci.yml:191`): `Deploy` and
  `OtherDeploys` may both follow a comparison with what was live before the
  other, and the new pair was never verified.
* "Without this record [...] the next gate answers unknown"
  (`.github/workflows/ci.yml:194`): a push between `Deploy` and
  `RecordDeployment` cancels the pipeline (`ci.yml:24`), and the broker keeps
  the version before.
* `scripts/record-deployment.mjs:4` speaks of the "deployed" selector: the
  provider test has none (`test/pact/switch.provider.pact.test.ts:156`), so
  `Verify` takes the main branch of the consumer only. When that is ahead of its
  production, the row of production stays unknown and the gate red.
* "The broker calls this when switch-service publishes a new contract"
  (`.github/workflows/ci.yml:16`): in this repository the trigger tells of the
  contract of `disbursement-service` (`README.md:191`, "The webhook is not
  optional"), and so it is modelled (`ContractChanged`).
* "If they do not, the score leaves the range 0 to 1" (`src/config.ts:112`):
  `loadConfig` checks that the weights add to one and not that each is a share. With
  a negative weight a better channel may score less, so `BetterStaysHigher` assumes
  `WeightsAreShares`.
* "Redis does NOT make this service unready" (`src/services/healthService.ts:9`):
  an instance that starts while Redis is away exits, because `StartConsumer`
  needs the group (`StartFails`).

### Fairness

* `RedisAnswers` (`RouteEnds`): weak fairness of a request's next step. Node
  runs every ready callback, and each Redis command is answered or refused.
* `FairSpec` of `OutcomeStream` (`StreamDrains`): time passes, so a delivered
  entry becomes idle; the group repair, the loops and the timer keep running
  (strong fairness, because another worker may take an entry in between); and a
  call that is made again and again is not refused every time (`Ack` and
  `DeadAdd` strongly fair). No fairness is given to the recording of an outcome:
  it may fail for ever, and then the delivery limit must end it. The restarts
  of Redis are finite.
* `FairSpec` of `Lifecycle` (`StartEnds`, `ShutdownEnds`): weak fairness of the
  start and of the shutdown of each instance. A query ends, well or badly, and
  timers fire. Waiting for the lock is not a step, so `StartEnds` needs the lock
  to come free; nothing says that a request is answered, so `ShutdownEnds` needs
  the hard exit.
* `FairSpec` of `DeployGate` (`GateEnds`): weak fairness of the pipeline's next
  step, as each call of the broker is answered. No fairness is given to
  `disbursement-service`: a verification may never come. Pushes are finite.

## 4. Proofs

### Routing

`RoutingProtocolProofs` proves, for any finite set of payouts, any channels and
handlers and every configuration that meets `BreakerAssumption` and
`RoutingAssumption`:

| Theorem | Statement |
|---|---|
| `TypeCorrect` | `Spec => []TypeOK` |
| `OutcomesCountOnce` | `Spec => []CountedOnce` |
| `BlocksAreJustified` | `Spec => []BlockIsJustified` |
| `HalfOpensAreAged` | `Spec => []HalfOpenIsAged` |
| `StandingBlocksHold` | `Spec => StandingBlockHolds` |
| `ClosesAreProven` | `Spec => ClosesOnGoodProbes` |

None of the invariants is inductive alone. A stored snapshot is justified because
the snapshot that a request or a handler *was about to* write was justified, and
that one because of what had been read before. `IInv` therefore speaks of every
snapshot on its way:

* `Control`: which local variables are set at which place; an outcome is in a
  handler only once it is published.
* `Claims`: whoever works on an outcome, or has recorded it, claimed it in another
  lifetime of its processed key than everybody else who did (`Apart`). `Spent` is
  what makes this inductive: a claim has lapsed, or the key in Redis is not older than
  it, so that a new claim comes `ProcessedTtl` after each earlier one
  (`ClaimIsApart`). `CountedOnce` says what the key gives and no more: a repeat that
  counts again was claimed that much later.
* `Evidence` = `StoreSound /\ RequestsSound /\ HandlersSound`: the snapshots in
  Redis, in the requests and in the handlers are all `Sound`, and the numbers a
  request has read hold no failure that was not recorded. `Sound` only grows
  with time and records (`SoundGrows`), so a late write of an old snapshot is
  still sound, and `evaluateBreaker` and `recordProbe` keep it
  (`EvaluateSound`, `ProbeSound`).
* `Standing`: a channel blocked since a request began is OPEN in its view, so
  `Eligible` leaves it out.
* `ProbesBacked`: every probe count, be it in Redis, in a request or in a handler, is
  at most the number of different good outcomes that were looked at while the channel
  was HALF_OPEN after the very opening that the snapshot carries (`Backed`, `Probes`).
  A handler that adds one to a count it has read adds its own outcome, which is not in
  that number yet (`Fresh`). Every trial of one opening starts from a count of zero,
  lost updates and late writes of refreshed snapshots only lower a count, and none
  mixes the counts of two openings; so whoever is about to close a breaker has
  `probesToClose` good probes of one opening (`Closable`). That this is the opening in
  Redis at the moment of the close is not said, because it need not be: the close may
  overwrite a newer OPEN.

Each part has an initial lemma and a step lemma with a case per action. The
assumptions used are those of the two modules; nothing else is taken for granted.

### Start and shutdown

`LifecycleProofs` proves, for any servers, command line runs, builds and
requests that meet `LifecycleAssumption`:

| Theorem | Statement |
|---|---|
| `TypeCorrect` | `Spec => []TypeOK` |
| `WorkStaysCurrent` | `Spec => []WorkIsCurrent` |
| `FilesAppliedInOrder` | `Spec => []AppliedInOrder` |
| `ReadyStaysTrue` | `Spec => []ReadyIsTrue` |
| `RequestsStayServed` | `Spec => []RequestsAreServed` |
| `SubscribersStayPinged` | `Spec => []SubscribersArePinged` |

`SchemaInv` says that whoever reads or changes the schema holds the lock, that
its list is what its build has and Postgres does not record, and that an open
transaction has the file right after the last one applied (`NextIsNext`); with
the lock this makes `Commit` keep the order, also one whose answer is lost.
`ReadyInv` and `ServeInv` tie the ready flag, the consumer, the requests and the
timer to the place of the instance; the first rests on `SchemaInv`, because an
empty list at the unlock means that every file of the build is recorded.

### The outcome stream

`OutcomeStreamProofs` proves, for any messages, events, workers, batches and delivery
limit, and any channels and node environment:

| Theorem | Statement |
|---|---|
| `TypeCorrect` | `Spec => []TypeOK` (with the bound on deliveries) |
| `OutcomesCountOncePerKey` | `Spec => []CountedOncePerKey` |
| `NothingAckedUnseen` | `Spec => []AckedWasSeen` |
| `GroupSkipsNothing` | `AdminSpec => []NothingIsSkipped` |
| `OldOutcomesAreGone` | `AdminSpec => OldOutcomesStop` |
| `ResetsAreComplete` | `AdminSpec => ResetIsComplete` |

That an event was counted at most once is not inductive: two workers past the claim
would count it twice. `OnceInv` says that as long as the key of an event was never
lost, at most one worker is between `Claim` and `RecordOutcome` with it, and none once
it is counted; every other step only takes workers away from that place, or loses a
key and says so in `forgotten` (`LossStep`).

The bound on deliveries is `MaxDeliveries` and one more for every claimer beyond the
first, each of which may work from an old answer of `XPENDING`. `RoomInv` is the
invariant behind it: the deliveries of an entry together with the claimers still to
deliver it (`Holders`) stay within the bound, because a claimer becomes a holder only
when it was told less than the limit, and stops being one when it delivers. `KnownInv`
gives what that needs: an entry is on one place of the stream, and what is pending or
in a batch was sent.

`SeenInv` says of a worker at `ack` that its event is claimed or forgotten, or that its
message is a dead letter: the acknowledgement is the last thing a worker does.

For `AdminReset`, `AdminSplit` separates the steps of a reset from those of the stream.
`GoneInv` says that nothing deleted is on the stream again, since an entry is published
once; so a worker that lays hands on an entry has it from the stream (`HasStep`) and
not from before the reset. `ResetIsComplete` needs `QuietInv`: at each step of a reset
that was alone from its start, what its earlier steps cleared is still clear.
`NobodyElse` shows that no other actor writes there, which rests on `ApplyInv`: a
worker that still has to write a breaker is not done with its message.

### The window

`SlidingWindowProofs` proves, for any window, bucket, second, delay, channels and list
cap of `WindowAssumption`:

| Theorem | Statement |
|---|---|
| `CountsStayExact` | `Spec => CountsAreExact`: `SlidingWindow` implements `IdealWindow` |
| `SamplesStayNewest` | `Spec => []SamplesAreNewest` |
| `ChartStaysExact` | `Spec => []SeriesIsExact` |
| `OldKeysGo` | `Spec => []OldBucketsGo` |

`IInv` bounds the expiry of every key: a writer's time is at most `MaxDelay` old, so a
bucket is written last that long after its end, and `bucketTtl` is at most a second
more than two windows (`RoundsUp`). `PairInv` says that the hash and the list of a
bucket expire together.

The refinement needs the other side, that nothing expires too early. `CountInv` says
that the hash of a bucket counts every outcome ever recorded in it as long as a read
could still ask for it, so no hash was lost and begun again at 1 between two outcomes
that one window covers. `WindowIsKept` is its arithmetic, and the place where
`MaxDelay <= WindowMs - BucketMs` is used: a bucket of the window that ends at most
`MaxDelay` ago has not expired even when its key was written at the very beginning of
the bucket. With it, a read is right in four steps:

* `RightReply` (by `DivMod`): the reply that `readMany` picks by position for a bucket
  of a channel is that of its hash, for any number of channels in the pipeline;
* `SumIs` and `BucketsAddUp`: adding up the replies counts the outcomes of the buckets,
  which are disjoint;
* `TimesAreBuckets` and `NumbersAreBuckets`: the outcomes in the ideal window are those
  of the buckets that `bucketIds` lists, the first and the last one whole;
* `ReadIsIdeal` and `StepIsIdeal`: every step is a step of `IdealWindow` or changes
  nothing it has.

`SampleInv` says that a list holds the newest outcomes of its bucket, newest first,
and all of them up to the cap. The newness of an outcome is the number of later ones;
`NewnessGrows` says what a new outcome does to it and `PushedValues` what `LPUSH` and
`LTRIM` do to the list, and the two agree. `RightKeys` says that a reader picks the
lists of its own channel and buckets out of the pipeline, so what it puts together is
the newest of each bucket too (`SamplesAreRead`). `ChartStaysExact` rests on
`CountersAreTrue` for each point and on `TimeInBucket` for where its start falls.

### The list of channels in memory

`ChannelCacheProofs` proves `ListsAreRecent`: `Spec => []StaleAtMostTtlAndLag`, for
any instances, readers, corridors, changes, TTL and lag. "In force" is a relation
between a list and a time, and a change of the table must not take it away from a list
that is on its way (`HeldBeforeChange`). `ReplicaInv` says that whatever the replica has
not applied yet is at most `MaxLag` old, so what it answers was in force `MaxLag` ago or
later (`ReplicaIsRecent`). `CacheInv` says that a list in memory was in force after the
moment `MaxLag` before its `at`, because `listChannelsCached` dates the list from before
the query and not from its answer; `FillInv` and `AnswerInv` say the same of the lists
in the readers.

### The contract gate

`DeployGateProofs` proves, for any numbers of versions and any contracts that differ:

| Theorem | Statement |
|---|---|
| `TypeCorrect` | `Spec => []TypeOK` |
| `GreenStaysVerified` | `Spec => []GreenIsVerified` |
| `RecordStaysBehind` | `Spec => []RecordedWasLive` |
| `ShippedWasCompared` | `Spec => ShipsWhatWasCompared` |
| `NeverJudgedOnNothing` | `Spec => JudgedOnSomething` |

`AnswerInv` says that the rows of an answer without a result were named unknown in
it; results only grow (`ResultsStay`), so a green answer keeps standing on them
however long the pipeline takes. `BothContracts` says that a row of the answer comes
with the row of the other contract for the same two versions, which
`ShipsWhatWasCompared` needs. `OrderInv` orders the version under way, the one that
is live and the one on record.

`TypeCorrect` says that the broker has only rows and versions there are, and needs
`OthersInv`: the other side publishes its versions one after the other, so its latest
is a version as soon as there is one. `FellBack` says that a gate that judges rows for
production found a version of the other side there, from which `NeverJudgedOnNothing`
follows: over all retries, a question with nothing in production goes to the main
branch.

### The page

`ConsoleProofs` proves, for any halves, readers, intervals and timeouts that meet
`ConsoleAssumption`:

| Theorem | Statement |
|---|---|
| `TypeCorrect` | `Spec => []TypeOK` |
| `GreenIsRecent` | `Spec => []ShownWhileUp` |
| `RowsAreRecent` | `Spec => []PanelIsRecent` |
| `AnswersAreFresh` | `Spec => StatusIsFresh` |

The bound of `ShownWhileUp` follows from `RefreshedFrom(t)`: a refresh that began at
most a poll after `t` is under way or has yet to begin. `ShownInv` says this of the
time one timeout after what is shown under a green dot: such a refresh began after
the one that is shown could still be answered, and its own end replaces the half or
turns the dot. `QuestionInv` and `PanelInv` do the same with the questions about
contracts, where `Timeout + BrokerTimeout <= AskEvery` keeps one question from
meeting the call of the one before. `CacheInv` says that the age of a remembered
answer counts from the moment it began to be read.

### The decision

`DecisionProofs` proves, for any finite set of channels, any profiles, weights of
either sign, limits and cold start that meet `DecisionAssumption`:

| Theorem | Statement |
|---|---|
| `PercentileStaysRight` | `Spec => []PercentileIsRight` |
| `BetterStaysHigher` | `Spec => []BetterScoresHigher`, when `WeightsAreShares` |
| `StrategyStaysTrue` | `Spec => []StrategyIsTrue` |

The percentile has three steps: the k-th smallest of the valid samples exists however
many are equal (`KthSmallest`, the least number that enough samples do not exceed), the
index is 95 % rounded up and within the list (`IndexIs`), and any smaller sample has
fewer than k samples below or at it.

`BetterStaysHigher` needs that no weight is negative (`WeightsAreShares`), which
`loadConfig` does not check; the other two theorems do without. It follows the score
from its parts to the rounded number. Each part of the better channel is the larger
fraction (`BetterParts`), the weighted sum over a common denominator keeps that order
(`SumKeepsOrder`), and so do the clamped one (`SignFollows`, `ClampKeepsOrder`) and
the rounded quotient (`QuotientKeepsOrder`, `RoundKeepsOrder`). `CostBounds` keeps the
division from being by a negative number.

`OneRanking` says that the list of candidates exists: the comparison of
`buildCandidates` is a strict total order on the channels of a request
(`BeforeIsTotal`), so the number of channels before one is its place, and any sort
gives this list. For `StrategyStaysTrue`, `Listed` is the invariant of the list: it has
every channel, is in order among the eligible ones, and eligible is who is usable and
was not refused. A refused slot breaks the order of the whole list but not of those
that are still eligible, which is why the second selection needs no second sort.
`ChoiceInv` says that the selection was made from the list as it is now.

### What the prover does not do

Model-checked only: the liveness properties (`RouteEnds`, `StreamDrains`, `StartEnds`,
`ShutdownEnds`, `GateEnds`), because fairness and `ENABLED` are outside of what the
prover does. Every other property that a passing run checks is a theorem.

The theorems of the library on induction take an operator as a parameter, which no
backend here can instantiate. Over natural numbers the proofs do without: `LeastNat`
gives the least element of a set of numbers, and a claim about all of them follows
from its least counterexample. Over sequences there is no such way round. `SelectSeq`,
folds and sorts stay opaque to the provers, so the modules have sums as recursive
functions (`SumOf`) and say by quantifiers which entries are chosen and in which order
(`FirstOf`, `Newness`, `Sorted`, `EligibleOf`).

## 5. What is left out

The decision log (but for the wait for it), the event feed, metrics and logging of the
modelled parts: nothing reads them back. In `RoutingProtocol` latency values (breakers
do not use them), the strategy and the breaker state that an answer names, and the
instant between a handler's claim and the reading of its clock: both are in `Claim`.
Identities in place of values in `SlidingWindow`. A threshold above 1
or delays longer than `WindowMs - BucketMs` are outside the assumptions.
A restart of Redis is in `OutcomeStream` and not yet in `RoutingProtocol` and
`AdminReset`. Two resets at the same time: `AdminReset` has one after the other. The
offset of the test clock (`advanceClock`, the first line of
`reset`): it shifts every `now` of a process by the same amount. `dump`, which only
reads. In `AdminReset` a scan of keys that finds some and misses others that are
written meanwhile: it is one step, and a later write is a later step. In `Console`
the rows of a contract (only the time they were read matters), drawing, the
order and colours of the lines, the lag of the replica behind an answer (the times are
those at which the service answered), and a browser that slows down the timers of a
page in the background.
In `Lifecycle` the work of the consumer and of the requests, the three seconds
before the server closes, and the read side of readiness (a query with a
timeout). In `DeployGate` pipelines of other branches, which never deploy, runs
started by hand, contents of contracts, and verifications of old versions.

## 6. Plan

Done, in this order: `BreakerRules`, `RoutingProtocol`, its proofs; `IdealWindow`
and `SlidingWindow`; `OutcomeStream`; `ChannelCache`; `Decision`; `Lifecycle`, its
proofs; `DeployGate`, its proofs; `AdminReset`; `Console`, its proofs; the proofs of
`ChannelCache`, of counting once and of the keys of the window; the refinement of
`IdealWindow`, the samples and the charts; the proofs of `AdminReset`; probes behind a
close; the types of `OutcomeStream` and `DeployGate`; the proofs of `Decision`.

Next, modules:

1. A restart of Redis in `RoutingProtocol`: a snapshot read before it may be written
   into the empty store.
2. `BreakerRecovery`: liveness of one breaker under traffic with exploration: a
   channel that is healthy again closes, although its window still holds the old
   failures.

Next, proofs: that a restart of Redis keeps the evidence of `RoutingProtocol`, once it
is an action there; and the guarantees the modules take from each other as theorems,
first that what `SlidingWindow` answers is what `RoutingProtocol` assumes of a read.
