# Verification of gamewire, the API-Football ingestion worker

This directory models the *gamewire* worker of `sports-data` in TLA+, checks the
models with TLC and proves what matters most with TLAPS. The code is in
`src/src/worker` and `src/src/workflows` (TypeScript on Bun). Every definition
that models code is mapped to its lines in `PROJECT.json`, which also lists the
runs, the hazards, the findings and the theorems. Paths below are relative to
the repository's own `src/`.

## 1. Inventory

The worker polls a metered football data provider, forwards what it fetches to
game-service and identity-service, and announces finished matches on a Redis
stream. One process runs many concurrent tasks on one event loop: every `await`
is a point where another task runs. Several replicas may share one Redis.

| component (file) | state it keeps | operations | talks to | hard part | correct when |
|---|---|---|---|---|---|
| quota tracker (`worker/quota.ts`) | a call counter per UTC window | `reserve`, `refund`, `observe` | ingestion | two awaited increments per denied reservation; refund in a later window | never more than the hard cap of calls out at once; the counter is what was really spent |
| response cache (`worker/cache.ts`) | value and expiry per key | `get`, `set` | ingestion, sweeps | an expired entry read while a fetch is in flight | never serves an expired entry |
| singleflight (`worker/singleflight.ts`) | in-flight call per key | `do` | ingestion | the map entry is cleared by the call that set it | one call per key in flight |
| ingestion loop (`worker/ingestion.ts`) | status, kickoff and final sighting of each tracked fixture, tick timers, counters | `fetchWorkload`, ticks, discovery, prune | all of the above, bridges | cache miss raced by a fill; lists hours old, answers that overtake one another; phase windows shorter than the tick | one provider call per key and freshness window; a match is followed from kickoff to its final detail, and then let go |
| provider client (`worker/provider-http.ts`) | none | one HTTP call, without a timeout | provider | rate limits behind HTTP 200; error bodies | a limited or failed answer is never taken for data |
| match-concluded publisher (`worker/match-concluded-publisher.ts`, `redis-emitted-fixture-store.ts`) | Redis marker per fixture, stream | `observe` | Redis | crash between marker and XADD, lost replies, concurrent lanes | one fact per fixture |
| match-concluded bridge (`worker/match-concluded-bridge.ts`) | none | one callback per workload | identity, game-service, publisher | any remote call may fail; events fetched before the detail that creates their game | never throws; rows and facts only after their game |
| fact stream consumer (`worker/redis-stream-consumer.ts`) | consumer group, pending list, attempt counters | `run`, `handleEntry`, `deadLetter` | Redis, rating consumer | retries, poison entries, failed ACKs | every entry ACKed after effect or dead-lettered |
| rating consumer (`worker/rating-consumer.ts`) | dedupe set, dead letters | `handle` | rating client | retry budget, duplicates | recorded once, but for what a bounded, volatile window forgets |
| asset mirror (`worker/asset-mirror.ts`, `media-store.ts`) | object store, per-entity manifest | `mirrorOne`, `patchManifest` | identity, CDN, object store | read-modify-write without compare-and-set; PUT without patch | manifest never names a missing object |
| season backfill (`workflows/season-backfill.ts`) | cursor persisted with TTL | one bounded run per call | ingestion | abort in the middle of a fixture, resume | every fixture imported once the cursor ends |
| daily anchor, hourly matchday, webhook (`workflows/daily-anchor.ts`, `hourly-matchday.ts`, `webhook-completed.ts`, `degrade.ts`) | none | walks over competitions and fixtures with degrade modes | quota, ingestion, game-service | a mode change mid-walk; teams and fixtures that share calls | abort stops further calls; every finished fixture of a list is reconciled |
| repair sweeps (`sweep-missing-payloads.ts`, `squad-sweep.ts`, `competition-payload-backfill.ts`, `statsbomb-backfill.ts`, `identity-gap-scan.ts`) | none | paged scan, then per-item imports | game-service, identity, ingestion | page caps, games filled meanwhile, ids that are learnt meanwhile, partial failures | counts and statuses say what is stored; rows lie under their own ids |
| HTTP surface (`worker/http.ts`, `server.ts`) | open workflow streams | run workflow, stream progress, webhook, health | workflows | heartbeat, logger, verdict and reader of one queue; hang-ups, shutdown | every entry once, then exactly one final line, then the end |
| provider and StatsBomb adapters (`adapters/`) | none | pure conversion | | which id a row is stored under, whether there is a row at all | modelled where a workflow depends on it |
| wire types, clients, config, metrics, runtime, core utilities | none | plain I/O, arithmetic on constants | | | not modelled: no control state |

### How they interact

`server.ts` wires one ingestion loop, one publisher, one bridge, one stream
consumer and the HTTP server. A tick, a discovery sweep, a workflow or a webhook
calls `fetchWorkload`; that consults the cache, joins or starts the
singleflight call for the key, reserves quota, calls the provider, stores the
envelope and awaits the bridges *inside* the singleflight call. The bridge
resolves entities, ingests into game-service and, for fixture details, calls
`publisher.observe`. Workflows are started by HTTP requests, log their progress
into the queue of the response, and spend the same quota as the ticks; some of
them write to game-service on their own, under ids they ask identity-service
for. Rating facts arrive on another stream, through the consumer group, at the
rating consumer.


## 2. Plan

The order is by how much of the system depends on the behaviour and by how
little a unit test reaches it.

1. `MatchConcluded` under `EmitOnce`: the one-shot announcement. *Done, proved.*
2. `ProviderQuota`: the metered budget. *Done, proved; it runs as a part of 3.*
3. `FetchPipeline`, which extends `ProviderQuota`: every way to the provider.
   *Done; safety proved.*
4. `FactStream`: the consumer group and its handler. *Done; safety proved.*
5. `AssetMirror`: the manifest without compare-and-set. *Done, proved.*
6. `SeasonBackfill` over `Degrade`: the cursor, the per-run budget and the
   degrade ladder that the other workflows share. *Done; safety proved.*
7. `FixtureLifecycle`: discovery, ticks and pruning with a clock. *Done, proved:
   that a match in play is followed, and both deadlines after its end.*
8. `GameBridge`: payloads on their way to game-service. *Done; safety proved.*
9. `Matchday`, the three scheduled workflows, inside `WorkflowHttp`, the stream
   of a workflow to its caller, under `ProgressStream`, what that stream
   promises. *Done; safety and the refinement proved.*
10. `PayloadSweep` and `EntityJobs`, the workflows asked for by hand, composed in
    `Sweeps`. *Done, proved.*
11. Left: nothing of the above. Every invariant and every action property that a
    run checks is a theorem; the six liveness properties stay with TLC
    (section 5), and the parts of section 7 stay outside.

## 3. What each module models

A module's actions are the code between two awaits: the event loop runs nothing
in between, so a step is atomic in one process, and steps of different lanes,
processes, Redis and the provider interleave freely. History variables (marked
so where they are declared) count what happened and are read by properties
only. Logging, metrics, and the contents of payloads are left out.

### MatchConcluded, EmitOnce (`worker/match-concluded-publisher.ts`, `redis-emitted-fixture-store.ts`)

`marker[f]` is the Redis key `btl:fact:emitted:<provider>:<fixture>`,
`stream[f]` the entries XADDed for the fixture, `pc[l]` the Redis command lane
`l` is waiting for. `Observe` is `observe()` up to the first await;
`MarkFirst`, `MarkDuplicate` and `MarkRejected` are the outcomes of `SET NX
EX`; `Publish`, `PublishFails` and `PublishFailsLate` those of XADD (the last
one executed by Redis and reported as an error); `Rollback` and
`RollbackRejected` those of the DEL in the catch block. `Expire` is the TTL,
`Crash` the death of a worker with all its lanes. A status may change between
any two observations of a fixture. The refinement to `EmitOnce` maps the stream
to `announced`, and expiries and misreported XADDs to `excuses`.

### ProviderQuota (`worker/quota.ts`, and its use in `worker/ingestion.ts`)

`count[d]` is the counter of day `d`: one Redis key, or an entry of the in-memory
map (`Backend`). `ReserveAllowed`, or `ReserveOver` and `UndoOver`, are
`reserve()`: the second increment of a denial is a step of its own. `Depart`
and `Return` are the call; `Refund` is `refund()` after a skipped call, on the
day *it* runs on. In Redis each of these is an awaited command, and the first
increment two (INCRBY, EXPIRE), any of which may be rejected, before Redis ran it
or after: `ReserveRejected`, `UndoRejected` and `RefundRejected` leave the counter
as it was or changed (`RejectedCommand`), and `reserve()` or `refund()` throws out
of the flight. The EXPIRE that is rejected falls together with the INCRBY that ran;
that a counter without expiry outlives its day touches no later one.
`Midnight` advances the day, `WorkerCrash` wipes the memory
counter and leaves the Redis one. `Decremented` keeps the difference of the two
stores: the memory store clamps at zero, Redis does not and only its reply is
clamped. `sent`, `leaked`, `strays`, `forgotten` and `refused` are history.

### FetchPipeline (`worker/ingestion.ts`, `singleflight.ts`, `cache.ts`, `provider-http.ts`)

Extends `ProviderQuota`: every step of the pipeline that touches the budget is
a conjunction with an action of the budget. A payload is the ordinal of the
provider's answer, so "older" and "newer" mean something. `Lookup` and
`DeliverHit` are the cache hit outside the singleflight; `Join` and `Lead` are
`Singleflight.do`; `Recheck`, `Reserve`, `Deny`, `Skip`, `Call`, `Fetched`,
`RateLimited`, `Failed`, `Store`, `Notify` and `Finish` are the flight in the
order of the code; `Settle` is the settling of its promise with the `finally`
that clears the map. `CacheRejects` is a rejected command of the cache inside the
flight, `QuotaRejects` one of the counter, at the reservation, at its undoing or at
the refund: the flight rejects, and with it everyone who waits for it.
`flight[w][k]` is per worker, the cache is shared when it is Redis.

### FactStream (`worker/redis-stream-consumer.ts`, `rating-consumer.ts`, wired in `server.ts`)

The stream is the sequence `RatingOf`; `pending`, `acked`, `cursor` and `dlq`
are Redis', while `failures` (the attempt counter), `seen` (the dedupe window)
and `buried` (the rating dead letters) are in the memory of a worker and die
with it. `Boot` is `ensureGroups` with `$`, `Read` is XREADGROUP with `>`,
`ReadLost` one that Redis ran and whose reply is lost: the loop logs the error and
reads on, and the entries stay pending with nobody at work on them.
`Take*` and `HandlerFails` are `handleEntry`, `Handle*` and `Record*` are
`RatingConsumer.handle` with its own attempts, `DeadLetter*` and `Ack*` the two
closing commands. The sink of the rating dead letters is bounded, and its oldest
goes when it is full (`Capture`). A repeat in the stream is the same fact under the same event
id, which is why `failures` is indexed by rating. `Throwing` entries stand for
a handler that throws or returns `false`; the rating handler never does, but the
consumer is written for handlers that do, and its retry and dead-letter paths
are reached by no other.

### AssetMirror (`worker/asset-mirror.ts`, `media-store.ts`)

`objects` is the bucket, `manifest[e]` the two layers of an entity, `copy[l]`
the manifest as lane `l` read it. `Start` is the loop over the images of a
payload, one at a time; the HEAD, the CDN fetch, the PUT, the read and the
write of the manifest are steps of their own, since the code awaits each.
`Design` is the designer tool, which writes the same file; `Corrupt` a manifest
that `parseManifest` rejects. `PutFailsLate` is a PUT executed and reported as
failed. `uncovered` and `undone` are the entities whose image or bespoke layer may
be missing and why: after a write, those whose entry was added since the writer
read the manifest (`Overtakes`). It is taken from what the writer had *seen*, not
from what it writes, so that a patch that drops an entry it has read has no excuse.

### SeasonBackfill, Degrade (`workflows/season-backfill.ts`, `degrade.ts`)

`cursor[t]` is the key `backfill:cursor:<league>:<season>`, `held[r]` the cursor
in the local variable of run `r`, `at[r]` the call it awaits. `Begin` is the
request, `ReadCursor`, `Standings`, `Discover` and `Save` the steps before the
walk, `StartFixture`, `FetchPart` and `StopWalk` the loop over fixtures and the
five payloads of each, `EndTarget` and `SkipTarget` the loop over targets,
`Break` a rejected call or the death of the worker. A cursor that was persisted
has `discovered` and `standingsDone` set, for `withStandingsDone` is only saved
together with the list; so it is its list and what is left of it. A fetch is
what it comes back with: a quota posture, which `Accumulate` folds into the mode
with the ladder of `Degrade`. Discovery yields any part of the season: fixtures
that are not final yet are left out, and all of them are if the fetch brought
no data, which is saved as an empty season all the same. Nothing in the
code keeps invocations apart, so runs overlap and save old cursors over new
ones.

### FixtureLifecycle (`worker/ingestion.ts`, `start()` and `fixturePhase`)

One fixture, for the loop keeps no state that two of them share. `record` is its
entry in `fixtureLifecycle`, `cache` and `flight` the cached answer and the call
under way of each tick, `now` the clock and `booted` the boot the timers count
from. `Pass` lets a moment pass: expired answers go, and every timer that fires
asks, from the cache or the provider, for what `PhaseAt` puts in its hands. The
answer is acted on when the call returns (`LandDiscovery`, `Prune`, `LandDetail`,
`LandLineups`, `LandFallback`, `Fail`), at any moment up to `Latency` later and in
any order. An answer may also be a body that says nothing of the fixture: an error
in JSON is a success to `provider-http.ts`, is cached for the lifetime of its key
and updates nothing (`BringNothing`, the answer "void"), and a lineup that is not
out yet is kept for two minutes only (`TtlOf`, `Stored`). A detail may or may not
name the teams, whatever its status. `KickOff`, `Whistle` and `CallOff` are the match, `Restart` the worker.
A record reduces the provider's statuses to those that routing tells apart.
`listFinal` remembers that a list told this boot's loop of the final, which ends
live polling. `LiveCached` and `LiveAnswer` are how long a cached answer of before
the whistle may be served to the live tick, and how long the tick then needs to
come by a new one; `Setback` is what each call that fails, or brings a body that
says nothing, puts that off by. `LetGo` is stated for calls so short that one under way at a
prune is back before the next (`CallsAreShort`), and allows `Aftermath` after the
last news: the window after the final twice, for a detail that was under way at
the prune tracks the fixture once more.

### GameBridge (`worker/match-concluded-bridge.ts`)

A lane is one callback under way. `Receive` is a payload just fetched, with what
decoding and mapping make of it, and `Redeliver` a cache hit, which gives the
callback what was last fetched for that key once more, however old it is and
whatever other keys have brought since (`Kept`; a payload is in a lane from the
moment it is read, so that the call itself, or the quota snapshot a hit awaits, are
part of the lane's first wait); `Resolve` asks identity for one entity of
`Mentions[workload]` after another; `IngestGames`, `Found`, `NotFound`,
`LookupFails`, `IngestRows`, `IngestTimeline` and `Observe` are the remote calls
in the order of the code, each of which may fail and none of which may throw.
`game` and `rows` are game-service's, `known` identity-service's. A payload
carries its key, the call it was read by and the delivery, so that "older", "newer"
and "the last to arrive" mean something.

### Matchday, WorkflowHttp, ProgressStream (`workflows/daily-anchor.ts`, `hourly-matchday.ts`, `webhook-completed.ts`, `worker/http.ts`, `server.ts`)

`Matchday` is the sequence of fetches a scheduled workflow makes: `walk[r].plan` is
the plan of calls, which the fixture list of the anchor extends (`WalkList`), and
`Answer` folds the posture of each answer into the mode and drops the calls an
abort skips. `WorkflowHttp` extends it with the response: `Accept` and `Refuse`
are the routes, `queue[s]` the lines pushed and not read, `Progress` a step of
the workflow with the lines it logs, `Settle`, `Close`, `Heartbeat`, `Read`,
`Sleep` and `Finish` the verdict (`VerdictOf`: a webhook run that an abort cut short
has failed, whatever came before), the end of the queue, the timer and the reader
in `server.ts`, `HangUp` the caller, `Signal` and `Exit` the shutdown, which waits
for open responses. `ProgressStream` is the promise, and `StreamsProgress` the
refinement: heartbeats are stuttering.

### PayloadSweep, EntityJobs, Sweeps (`workflows/sweep-missing-payloads.ts`, `competition-payload-backfill.ts`, `squad-sweep.ts`, `statsbomb-backfill.ts`, `identity-gap-scan.ts`, and the inline ingests of `daily-anchor.ts`)

`PayloadSweep` pages through the games that miss a payload (`DiscoverMissing`,
`DiscoverCompetition`, `Selected`), while `FillElsewhere` is the live loop filling
some of them, then fetches one fixture after another (`SweepFixture`) and counts
what came back with the bridge's decoders (`Counted`). `EntityJobs` has one group
of actions per workflow; what they share is what identity knows (`Learn`), the
cached squads, and game-service's rows, each with the id it was stored under.
A squad may come out of the cache or be fetched anew at any time, for the model does
not say when it expires, and either way the quota posture of the answer is heeded;
as in the code, nothing checks that the answer is about the team that was asked for,
and the provider is assumed to answer about it.
`Sweeps` puts them on one worker. Games, squads and provider contents are
constants that the configuration gives. `Among` is the one operation of the
standard library that the workflows share, a filter, written as a recursive
function so that theorems can say what it returns.

## 4. What each run checks

| run | instance | shows |
|---|---|---|
| `match_concluded` | one fixture, a lane in each of two workers, statuses NS, PST, FT; an expiry, an ambiguous XADD | a second fact always has an excuse; a marker without a fact an explanation; a fixture observed on and on is announced; the publisher implements `EmitOnce` |
| `fetch_memory` | two callers in one worker, two keys, cap 2, soft cap 1, two answers; an expiry, a midnight, a crash | one call per key, no call without an excuse, the cap up to what a restart forgot, with reservations of two flights at once; the order of the bridge |
| `fetch_redis` | two callers in a live worker and one in a replaying one, one key, cap 1; a midnight, a crash, a command of the cache or the counter rejected | every caller returns; no reservation is left undecided; the cap up to refunds that strayed into the day, with workers that reserve at once; a counter that is exact but for rejected commands |
| `fact_stream` | seven entries of two ratings: repeats, an undecodable, a malformed and two failing ones; window 1, sink 1, two retries; two faults, lost replies among them, and a crash | what is acknowledged is settled, what is pending has a reason; repeats are accounted for; batches end |
| `asset_mirror` | two lanes, two images of an entity and one of another, a fault, a crash, two outside writes | backed coverage, explained gaps, kept bespoke layers, bounded PUTs |
| `season_backfill` | one run at a time, seasons of one fixture and two, three calls a run; a break per import, an expiry, a reset | a checkpoint passes walked fixtures only; 'complete' is explained; a break costs one fixture; the budget is overstepped by four calls at most; an import invoked again and again ends |
| `season_half_imported` | the same | refutes "a checkpoint never leaves a fixture half-imported" |
| `fixture_lifecycle` | steps of ten minutes up to Horizon 56, two kickoffs, a match of 10 or 11 steps, a late start, a call of a step; a call that fails or brings nothing, or a restart | a match in play is polled live; its final reaches the bridge within the time a live tick needs; it is let go of afterwards |
| `final_polled` | the same | refutes that the post-final window suffices for the final detail |
| `game_bridge` | three deliveries (list, detail, events, fetched or out of the cache) of one match to two callbacks, one named player, two lookups; a failed call | the game comes before rows and facts; a loss is explained; an undisturbed game shows the last delivery, and is out of date only after a cache hit and with respect to another key; callbacks return |
| `workflow_http` | one request, each route; two competitions, of which one has two fixtures of the same teams; one unread heartbeat | finished fixtures are reconciled; a hard cap ends the calls; the stream implements `ProgressStream`; responses end |
| `sweeps` | four games of two competitions, pages of two and a cap of two; two squad sweeps over one cache; four StatsBomb matches with numbers of live games | counts are honest; limits hold; rows lie under their own ids; reports hold |

Why these bounds are enough: a lane or client takes part in a race with one
other, and a third is there where two of a kind must meet a third of another
kind (two callers of one flight beside a worker that spends the same counter). A cap
of two with two flights of two keys, and a cap of one with two workers, let
reservations cross the cap together on either store. Each fault happens at every place it can, once per
run; a second fault of the same kind only adds to a count the properties
already carry. Caps, windows and retries are at their smallest value above the
degenerate one, so that both sides of each boundary are visited: a window of
one evicts at the second rating, two retries have a first and a last failure,
two lookups a first and a last miss, a page of two ends within a selection and
at its edge.
A call budget of three is spent by standings, discovery and the first payload of
a fixture, so that the largest overrun happens. `season_backfill` has one run
at a time, because liveness over two is beyond the time a run has; overlapping
runs are the subject of its theorems.

`fixture_lifecycle` keeps the proportions of the code: a step is ten minutes, so
discovery is hourly, the full-time tick every third step, the window after the
final (25 minutes) two of them. What is shorter than a step is rounded, and the
lifetime of lists and full-time details, six hours, is three (eighteen steps),
which is still longer than a match and several discoveries; `MCFixtureLifecycle`
says so. The horizon of 56 steps is past the deadline of `LetGo` for a match with
either kickoff (the end, the lifetime of a cached list and thirteen steps more), and
for the earlier one also when a call brings nothing, which adds five. The live tick and its lifetime are 30 seconds
both, so an answer is found in the cache by the next tick and by none after it: a
tick of one step and a lifetime of two. Calls
of one step are short in the sense of `CallsAreShort`, with nothing to spare. A
kickoff at 2 is close to the boot, so that lists of before and after it are both
cached; one at 10 goes through the whole of the lead time. In `sweeps` the
workflows run one kind at a time (`Duties`): what one of them could do to another,
an entity learnt or a game filled, is an action of the environment in every run.
In `workflow_http` one request is enough, for responses share nothing but the
process.

The proofs below remove the bounds for all of the safety properties.
Deadlock checking is off where a bounded system runs out of faults, days,
payloads or entries and may stop.

### Fairness

`match_concluded`: a Redis command settles (WF on the outcomes of each), and a
SET or an XADD that is sent again and again does not fail every time (SF). How
often a fixture is observed is the premise of `ObservedIsAnnounced`, not an
assumption. `fetch_redis`: the event loop runs every continuation (WF per
caller). That includes the provider and the bridge settling; the code puts no
timeout on either, so `CallersReturn` says precisely that nothing *else* can
hold a caller. `fact_stream`: a worker that runs goes on reading and handling
(WF per worker); nothing is assumed of boots, publications, crashes or faults.
`season_backfill`: the caller invokes the workflow until it is complete, as the
contract of the workflow asks (WF), a run goes on (WF), and standings and
discovery do not come back with the hard cap every time (SF on each; the day
ends and the quota with it). `game_bridge`: each remote call of a callback
settles (WF per lane). `workflow_http`: each fetch of a workflow is answered or
throws, the settling of its promise and the closing of the queue follow, the
reader is run when there is something to read, and the process exits once
nothing is open (WF on each); heartbeats, hang-ups and signals are never
assumed. `fixture_lifecycle` needs none: `FinalDelivered` and `LetGo` are
deadlines, safety properties over the clock, and `Latency` is the bound they
are relative to.

## 5. What is proved

The proofs are in the `*Proofs` modules and hold for every value of the
constants that satisfies the named assumptions. These ask for finitely many lanes,
clients, consumers and fixtures of the bridge, a host for each, natural bounds, a
soft cap not above the hard cap, at most one worker when a store is in memory,
markers such as `None` outside the sets they mark, intervals of which the
discovery's is a multiple of the others (`WindowsAssumption`), a finite catalogue
with finite lists of fixtures (`MatchdayAssumption`), finite caches and matches
files (`JobsAssumption`), games that differ in their fixture (`SweepAssumption`),
and an unsettled verdict that is no line (`PendingAssumption`). TLC evaluates each
of them on the instances of section 4.

- **Publisher** (`MatchConcludedProofs`). `DuplicatesExcused` is not inductive:
  a lane between SET and XADD will add a fact. The invariant counts facts *and*
  lanes that hold a reservation against the marker and the excuses
  (`HoldersCounted`). From it: `EmittedOnce`, `NoStrandedMarker`, the action
  property in `PublishedKeepsMarker`, and `Implements`, the refinement to
  `EmitOnce`, step by step.
- **Budget** (first part of `FetchPipelineProofs`). `Balance`: calls sent and
  increments still open are at most the counter plus stray refunds plus what a
  restart forgot. `CapHolds` follows for either store. That the counter runs ahead of
  them by leaked reservations and rejected commands only is inductive as it stands:
  `MeterExact`.
- **Fetch path** (`FetchPipelineProofs`). `PipelineKeepsBudget`: every step of the
  pipeline is a step of the budget or leaves it alone, so the budget's theorems
  carry over. `FlightInv` ties each caller inside a flight to the map entry of its
  key: `SingleCall`, `WaitersHaveFlights`. `CallsInv` says where a call without an
  excuse has gone (into the cache, or into the hands of the flight):
  `CallsBounded`. `ReservationsHeld` says that an open reservation is in the hands
  of a flight that has yet to send it or give it back, and that a rejected command
  of the counter ends the flight and the reservation with it. `FlightsInOrder` is the
  action property that a worker bridges the payloads of a key in the order of the
  provider's answers: what was bridged last is no newer than what the flight holds
  or the cache keeps (`PayloadsInOrder`).
- **Stream** (`FactStreamProofs`). Records of a rating are at most the workers
  that remember it plus crashes, evictions and misreported records:
  `RepeatsBounded`. For `EntriesSettled` the entries of a batch are distinct and
  pending, each was delivered once, and the entry at work is settled before it is
  acknowledged (`EntriesInv`). An entry that a full sink drops is older than all that
  stay in it, and remains so.
- **Mirror** (`AssetMirrorProofs`). Every manifest a lane has read is backed by
  the bucket, which only grows, so writing a stale one is safe for coverage:
  `ManifestBacked`. An entry a lane has read is in what it writes, and one that is in
  the manifest and not in a lane's copy was added since: `GapsExplained` and
  `BespokeSurvives`, with `PutsAreBounded`.
- **Season import** (`SeasonBackfillProofs`). What was walked stays walked, so a
  cursor that passes walked fixtures only stays true in the hands of any run,
  and old cursors may be written over new ones: `CheckpointsWalked`. Together
  with what a run has been through, `CompleteMeansImported`. `BudgetKept` bounds
  the budget by the payload a fixture is at: `OverrunIsBounded`. That no more
  fixtures are imported again than there were breaks is shown where nothing excuses
  a repetition: then the run is alone and in step with the persisted cursor, the
  fixture that was begun is the first of those left, and a break has paid for
  each repetition (`LossInv`, `LossesAreBounded`).
- **Fixtures** (`FixtureLifecycleProofs`). What the loop holds of a fixture may be
  hours old, so the invariant speaks of what was heard: while the match has not
  ended, nothing recorded, cached or under way says that it has (`HeardWhatWas`),
  and a record that the clock routes has the kickoff a list gave it (`Dated`). From
  it `FollowedWhilePlayed`, for any intervals, windows, lifetimes and latencies.
  The two deadlines are safety properties over the clock, and need to know how long
  what is old can stay. `FinalsDelivered`: after the whistle the live tick holds of
  before it at most a call made before it or a cached answer that runs out, so there
  is a moment after which the next tick that asks hears the final, and a call that
  fails or brings nothing puts that off by a `Setback`: what it left in the cache
  expires, and the next tick asks again (`DeliveryInv`). `LetsGo`: whenever
  all news are in by a moment m, what keeps the fixture tracked is a final that was
  seen by m; or one that was seen within a window and two calls of it *and* early in
  a period of the discovery, left by a detail that was under way at a prune. Its
  window is over before the next prune comes, so this happens once (`EndInv`; the
  quantifier over m is what makes it inductive when a call brings nothing and the news
  move).
- **Bridge** (`GameBridgeProofs`). What a lane has seen on its way (its game, the
  offers of its payload) stays true while others run: `GamesFirst`. A payload whose
  game was there when it came, and whose calls were not refused, finds it when it
  gets there (`LossInv`): `LossesExplained`. While payloads of a fixture do not
  overlap, what a lane has in hand is the last delivered of its fixtures, and what was
  delivered is stored or waiting in a lane (`NewestInv`); and of one key no delivery
  is older than the one before it (`InOrder`), so that only another key's news can be
  written over: `GamesAreNewest`.
- **Jobs by hand** (`WorkflowProofs`, first half). An id in a cache, a record in
  progress or a row belongs to the entity it is filed under, whatever identity has
  learnt since it was read, and what a report counts was done (`JobsInv`):
  `RowsFiled`, `ReportsTrue`. For the payload sweeps, what a run has called and what
  it has left are together its selection, which keeps within the limit, and a hard
  cap or a dry run leaves no call to make (`SweepInv`): `SweepsWithin`,
  `SweepsHonest`.
- **Scheduled workflows and streams** (`WorkflowProofs`, second half). What an
  anchor owes the lists it got is asked or is in its plan (`OwedInv`), and a walk
  that goes on was not told hard cap (`WalkInv`): `ReconciledAlways`, and the
  action property in `HeedsCap`. `StreamsRefine` is the refinement of
  `ProgressStream`, step by step: all that a run has to tell is its story, what is
  written is the beginning of the story, and the rest of it is in the queue, in
  its order, with nothing but heartbeats between (`FlowInv`).

The walks are over sequences, and the prover cannot instantiate the library's
induction theorems. What these proofs need of induction comes from `LeastNatural`,
that a nonempty set of naturals has a least element, applied to the set of
counterexamples; and filters of the workflows are `Among`, not `SelectSeq`, which
the prover cannot open.

Type correctness is a theorem of every module, and each module's inductive
invariant is stated as one conjunction of named parts. Each was checked by TLC
on a small instance before it was proved.

Only model-checked are the liveness properties `ObservedIsAnnounced`,
`CallersReturn`, `ReadIsFinished`, `InvokedCompletes`, `CallbacksReturn` and
`ResponsesEnd`: they rest on fairness, and the prover handles neither fairness nor
ENABLED. Every other property of a passing run is a theorem.

## 6. Findings

Two runs refute something the repository says of itself; each is quoted in
`PROJECT.json` with its line.

1. `season_half_imported`: a fixture that a hard cap cuts short is checkpointed as
   done, and no later run asks for the rest of its payloads.
2. `final_polled`: a finished match that the loop meets in a list, after a restart
   or because the list beat the live tick, is post-final for 25 minutes, and the
   full-time tick comes round every 30; it may settle before its final detail is
   fetched, and then no match-concluded fact is observed for it by the loop.
   `FinalDelivered` is what does hold.

Noted without a run. Budget and fetch path:

- The worker builds its loop without a quota tracker (`worker/server.ts:344`), so
  the counter is in memory and a restart forgets the day's calls, although
  `quota.ts:5` speaks of a cap per day (`HardCapExcused` counts them as forgotten).
- Above the soft cap the provider is called as before: `cachedOnlyMode` is reported
  (`ingestion.ts:364`) and not acted on by the fetch path. The headers of the daily
  and hourly workflows likewise say that cached-only iterations use the cache only,
  and go on calling `fetchWorkload`.
- A JSON error body is cached as a success (`provider-http.ts:154`), which the
  comment above it gives as the harm of rate limits; it hides the fixture from its
  tick until it expires (`Setback`).
- A command of the counter that Redis ran and whose reply is lost leaves a
  reservation nobody gives back: `reserve()` and `refund()` are awaited without a
  catch (`ingestion.ts:364`, `:444`), so the flight rejects and the day's budget is
  smaller by one (`refused` in `MeterConserved`).
- The provider fetch has no timeout: a call that never settles holds its key for
  as long as the worker lives.
- A refund after midnight credits the new day (`strays` in `HardCapExcused`).

Publisher, stream and mirror:

- `observe()` rejects when the SET or the rollback DEL is rejected, although its
  class comment says that it never throws (`MarkRejected`, `RollbackRejected`).
- An XADD executed but reported as failed lets a second fact through
  (`ambiguous`), under another idempotency key if the status was corrected in
  between.
- A reply of XREADGROUP that is lost leaves its entries pending without a crash
  (`ReadLost`), and nobody reads pending entries again.
- The rating handler returns true for every outcome, so a rating whose attempts
  are exhausted is acknowledged and its dead letter lives in the worker's memory
  (`EntriesAccounted` accepts it there, lost to a crash, or dropped from a full sink
  for later ones).
- An object stored without its manifest entry is never listed afterwards:
  `mirrorOne` asks HEAD first (`asset-mirror.ts:409`) and its comment promises that
  the next pass reconciles (`:501`).

Fixtures and bridge:

- A list is cached for six hours and discovery is hourly, so an old list can put a
  final fixture back to its former status; `FinalDelivered` and `LetGo` are stated
  within that (`listFinal`, and a deadline that counts the lists' lifetime). A
  detail fetched as a fallback for missing lineups is cached under the full-time
  key for six hours whatever its status.
- A detail that lands after the prune tracks the fixture again, without a kickoff:
  it stays `upcoming` for ever, unpolled, although the comment at
  `ingestion.ts:631` calls the set bounded (`LetGo` allows for it).
- The fixtures given to `start()` are not polled before the first discovery, which
  prunes them.
- A failed ingest of the game is logged and the callback goes on, so a fact may be
  published with an older game row; that the game exists is what `GameComesFirst`
  keeps.
- A cache hit runs the bridge again with the old payload, and the bridge stamps what
  it ingests with the time of the callback: a list up to six hours old is written
  over the row of a newer detail. `GameIsNewest` says when.
- Entities that are unknown or answered with an error are asked for again at each
  mention, although the comment at `match-concluded-bridge.ts:1308` says at most
  once.
- Ids of API-Football occurrences are positions in the list of events: an event
  that is taken back shifts those after it and leaves a stale last row.

Workflows:

- The comment on the budget of a season import speaks of two calls too many; a
  fixture has five payloads by now, and it is four. A budget of a single call is
  spent on the standings of each run, which are not saved before the discovery,
  and never gets further.
- The hourly walk asks for `/standings` under the fixtures workload, so the table is
  fetched and never ingested there (`HourlyCalls`).
- A webhook refresh that is cut short, or whose fetches all fail, reports `failed` in a completed line; a
  rate limit does not count as a failure.
- The anchor writes standings under the provider's competition id while identity
  does not answer and under the canonical one later, which leaves two tables
  (`RowsUnderOwnIds` is stated of season windows, rosters and occurrences only).
- The sweep of missing payloads counts `ok` by decoding, while the bridge swallows
  its failures (`lost`), and counts a team without players `ok` for player
  statistics although no row comes of it; `SweepHonest` excuses both. A rerun with
  a limit starts at the same gaps again, and the backfill of a competition at its
  first page, although its message says "rerun to continue"; the squad sweep
  likewise never gets to teams past its cap.
- Squad sweep and gap scan read the fixture list under another cache key than the
  one the anchor stores it under.
- A dry run of the StatsBomb import still writes games, and a shot or an
  interception without an outcome rejects the whole run (`Unreadable`).
- The "bounded" queue of a stream is not bounded, a workflow runs on after its
  caller hung up, and a shutdown does not wait for it.

## 7. What is not modelled, and why

The wire schema validation, adapters' field by field conversions where no property
depends on them, configuration parsing, metrics, the projection of verdicts in
`wire.ts`, and the Connect clients, which are plain request and response. The option
to start the loop with a list of fixtures, the number of calls a tick makes at
once, and the in-memory marker store of the publisher, whose eviction behaves like an expiry. The Redis
server, the provider, game-service, identity-service, the CDN and the designer tool
appear only as the outcomes the code under `src/` can see of them. Time appears as
events (a TTL expires, midnight comes) except in `FixtureLifecycle`, whose windows
and intervals are quantities.
