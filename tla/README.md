# Formal models of ab0t-quota-go

TLA+ modules for the parts of the library where replicas, stores and outside
services meet: the two quota APIs and their counters, the processes that heal them,
the keyspace migration, the tier cache, the outbox of money events, the ledger behind
sign-up credit grants, and starting, watching and stopping the service. TLC checks
small instances of them; TLAPS proves every safety property that a passing run checks, for
every value of the constants (four of them for the one store on which they are claimed, section 6).

`PROJECT.json` lists the components, the runs, the mutants (a plausible wrong
version of a definition for every checked property, which TLC must refute), the
source lines behind every definition, the hazards and the theorems.

## 1. The system

The library runs inside every replica of a consumer's service. Replicas share
Redis and DynamoDB and nothing else; requests, tickers and webhooks run
concurrently in each.

| Component | State it keeps | Operations | Talks to |
|---|---|---|---|
| `engine` activation API | touch map, per process | `Acquire`, `ReleaseActivation`, `Settle` | counters, activations, tier provider |
| `counters` | gauges, accumulators, rate windows, idempotency latches; v1 and v2 key shapes | `AtomicAcquire`, `DecrByFloorZero`, `GetFloat`, `Set`, increments, migration | Redis, memory |
| `activations` | one row per activation: OPEN, RELEASED, SETTLED, cost | `PutOpen`, `MarkReleased`, `MarkSettled`, `ListOpen` | memory, Redis, DynamoDB and its index |
| `reconcile` | none | `ReconcileOrg`, `RunLoop` | activations, observed-usage provider, counters |
| `engine` recount, read-repair | last repair per org | `ReconcileOrg`, `MaybeReadRepair`, recount-before-deny | the same |
| `engine` legacy path | none | `Check`, `Spend`, `Release`, over-limit events | counters, truth sources, alerts |
| `counters` keyspace | v1 and v2 keys, migration marker | dual operations, `DualOn`, `Backfill`, `Verify`, `Flip`, `Reap` | Redis |
| `outbox` | intents: pending, voided | `EmitViaOutbox`, `Drain`, `Kill` | Redis or DynamoDB, SNS, billing |
| `quota` settler, credit granter | none | settle or grant under an idempotency key | billing |
| `handlerledger` | attempt rows with leases, business-dedup rows | `RecordAttempt`, `RecordOutcome`, `AlreadyDone`, `MarkDone`, `DeleteUser`, `Dispatch` | Redis or DynamoDB |
| `authevents` | handler registry, pins (in memory) | receive, verify, dispatch, default credit grant; `Subscribe`, `SubscribeOnStartup` | handlerledger, tier provider, billing, auth |
| `providers` | tier cache, last-known-good, failure streaks | `GetTier`, `Invalidate` | mesh, JWT, Redis |
| `alerts` | cooldowns | threshold, over-limit, drift and invariant alerts | sinks |
| `middleware` | none | HTTP guard | engine |
| `quota` setup and topology | gates, capabilities | `Setup`, `Healthy`, `Close` | all |

What is hard in it:

- **Interleaving.** Nothing is locked across replicas. Only the acquire script, the
  ledger's compare-and-set and WATCH are atomic; every other operation is a
  sequence of round trips that other replicas interleave with.
- **Partial failure and crashes.** An acquire charges counters and then writes a row;
  a release marks the row and then returns gauges one by one; a settlement, a
  publish or a grant may have happened although its answer was lost.
- **Stale reads.** DynamoDB's indexes lag, the reconciler's truth ages between being
  read and being written, touch maps and pins are per process.
- **Time.** Leases, TTLs, guard windows and the retry horizon run out while
  somebody is still working.
- **Operations.** Pods run with different settings during a roll-out, servers change
  under a running service, an operator rotates a secret while pods start.
- **Liveness.** Gauges must come back to the truth, intents must leave the outbox,
  health must follow the servers, caches must follow billing.

What makes each part correct:

- *Activations and gauges*: a gauge is exactly what was charged and not returned, it
  never falls below the open activations, limits are never exceeded, a life cycle
  never rewinds, a cost is never discarded silently.
- *Healing*: a gauge nobody could verify is left alone; one that can be verified
  converges.
- *Outbox*: an event whose intent was written is never lost, never billed *and*
  reported unbilled, and leaves the outbox in the end.
- *Check, Spend, Release*: the overshoot of check-then-spend is bounded, no charge is
  lost, every over-admission is heard of, a stale counter locks nobody out.
- *Keyspaces*: through the roll-out every running pod reads the whole usage, no
  retry is charged again, reap destroys nothing that was not carried over.
- *Tiers*: a failure never invents a tier that is kept, a known tier survives outages
  and restarts, staleness is bounded, a lasting outage is loud.
- *Setup*: no gate lets through what a server said is unsafe, health is backed by the
  loops it vouches for and follows the servers, the operator hears of every violation
  and heal, whatever a closed service leaves running comes to an end, a rotation ends.
- *Credit grants*: one credit per subject of the dedup policy, no recorded decision
  without the money behind it, one running claim per event.

## 2. The modules

| Module | Models | Composed with |
|---|---|---|
| `GaugeActivations` | `engine/activation.go`, `counters/acquire.go` and the gauge side of the stores, `activations/*` | instantiates `Holdings` |
| `Holdings` | what the activation API promises, without gauges, latches and rows | implemented by `GaugeActivations` |
| `SelfHealing` | `reconcile/reconcile.go`, `engine/recount_20260810.go`, recount-before-deny | extends `GaugeActivations`; every step of the activation API interleaves with the healers |
| `Decisions` | `engine/engine.go`, `engine/events.go`, the recount of the check path, `counters/accumulator.go`, `counters/rate.go`, `middleware/guard.go` | extends `Alerts` |
| `KeyspaceMigration` | `counters/keyspace.go`, `counters/dual.go`, `counters/keys_python.go`, `counters/keyspace_migration.go` | |
| `TierCache` | `providers/cache.go`, `providers/mesh.go`, `providers/lkg_store.go` | |
| `MoneyEvents` | what the outbox promises, without its machinery | implemented by `Outbox` |
| `Outbox` | `outbox/*`, `quota/settler.go` | instantiates `MoneyEvents` |
| `CreditGrants` | `handlerledger/*`, `authevents` receiver and default handler, `quota/credit_granter.go` | |
| `Alerts` | the cooldowns of `alerts/manager.go` | |
| `Subscription` | `authevents/subscribe.go` | |
| `Bootstrap` | `quota/setup.go`, `quota/topology.go`, `redisguard/*`, `ddbguard/ddbguard.go` | extends `Alerts` and `Subscription` |
| `*_proofs` | theorems about the module they extend: `GaugeActivations`, `SelfHealing` (also extends the proofs of `GaugeActivations`), `Decisions`, `KeyspaceMigration`, `TierCache`, `Outbox`, `CreditGrants`, `Bootstrap` (with `Alerts` and `Subscription`) | |
| `MC*` | instances for TLC | |

### GaugeActivations

One organisation, since every key holds the org. A request appears only through what
it has done to an activation, so any number of replicas and requests is covered;
each action is one round trip. `Acquire` is the atomic script together with
everything before it (kill switch, tier lookup, limits, enforcement mode);
`AcquireDup` is the answer to a repeated idempotency key; `PutOpen` writes the row
and `Lose` is its failure or a crash before it. `MarkReleased` decides which of
several releases wins, `ReleaseOrg` and `ReleaseUser` return one gauge each,
`AbortRelease` is a failed decrement or a crash in the loop. `SettleFirst` and
`SettleSecond` are the two attempts of `MarkSettled` (one step on the in-memory
store, `AtomicSettle`), `SettleReport` the comparison of costs. `units` is a history
variable: what each activation charged and has not given back.

`Quota == INSTANCE Holdings` reads the abstract quota off it: an activation is held from its
charge on and has ended once its row is RELEASED or SETTLED; the units held are `units`; limits
are enforced in mode "enforce" while the tier resolves. `ImplementsHoldings` is `Quota!Spec`.

Abstractions: a DynamoDB transition (conditional write of a row just read) is one
step; an idempotency key stands for the composed key of `IdemKeyPair`; amounts are
one unit per gauge of a bundle.

### SelfHealing

Adds the touch guard (`touched` is what the reconciling replica sees; touches of
other replicas never reach it when `Foreign`), the lagging open index (`index`), the
consumer's `provider` (the resources it reports on, or none is wired), what it counts
(`visible`) and the healing passes. A healer runs the kinds of pass it is given, one at a
time. A pass reads the
ledger, asks the provider, then visits the resources: guard, read, set, one step
each. `loop` is the reconciler, `recalc` is `engine.ReconcileOrg`, `recount` is
recount-before-deny within an `Acquire`.

Abstractions: `ListOpen` lists all that the index holds, where `activations/ddb.go:232-256`
reads one page of the query.

### Decisions

Callers on one resource of one organization, a gauge, an accumulator or a rate. A call
goes through the early returns of `check` (kill switch, unresolved or unknown tier,
unlimited, disabled, shadow), reads the user's and the organization's usage, decides,
and on a denial asks the truth source and repairs the counter (`recountBeforeDeny`);
the guard lets it on or not; `Spend` increments in either `legacy_increment` mode, the
organization's counter first; `Release` gives a gauge back. Every store or provider
call is one action and may fail where the configuration says so. `Recalculate` runs
beside the calls in three steps. Accumulators are kept by reset period, which
changes between any two steps; the rate window is its members by age. Crossings
(`CrossedUp`, `CrossedDown`) are computed from the value the store returned and reach the
alert manager with their cooldown. `truth` is history: what exists or was spent.

Abstractions: costs are magnitudes (a negative cost passes the checks of `engine/engine.go:264`
and `:322` as it is, and `Spend` charges its magnitude at `:390`); one reset period ends at most `MaxPeriod` times;
over-limit events of the user's partition follow the same law and are left out; of
the guard, only what it does with a decision or an error.

### KeyspaceMigration

A fleet of pods, each in a keyspace state (primary version, dual or not) it read at boot,
on one counter and its idempotency latches. A service name no key can carry leaves a pod on
the unscoped v1 keyspace, which the boot guards do not look at. Every dual script is one
action: seed the missing twin, then apply to both shapes. A force-set writes the shapes in
two steps. One migrator runs `DualOn`, `Backfill`, `Verify` (two reads), `Flip` behind
`FlipGate`, and `Reap`, which records v2-final and then deletes key by key; it may be
restarted, which loses its verdict. Boots are guarded by QUOTA-CFG-011 and 012.

History variables: `level` is what was spent and not given back; `behind`, that a write to v1
alone has passed the v2 twin by; `fresh`, that no such write has followed the last verify and
that its two reads were of one moment. A pod that writes v1 alone before the flip, beside dual
pods and through every verb, is the roll-out itself and no deviation. `left` collects the ways
in which the fleet leaves the procedure that no guard of the code prevents:

| Deviation | What happened |
|---|---|
| `torn` | a write between the two halves of a force-set, or a second half that never came |
| `mixed` | a writer of v1 alone beside a reader of v2 or after the flip; a writer of v2 alone over v1 keys or beside a pod that writes them |
| `late` | an acquire on v1 alone after dual-on is recorded, from where the flip gate counts its wait |
| `early` | a reader of v2 over v1 keys before the flip |
| `back` | a writer of v1 boots where only v2 holds the counter; after reap only an unscoped pod can |
| `stale` | a flip on a verdict that was not `fresh` any more |
| `reader` | a reap while a pod still reads v1 |

`UsageSurvives` and `ReapedIsCarried` tolerate `late`, `ChargedOnce` tolerates `stale`, and
each is silent after the others. `NeverOnStaleVerdict` tolerates `stale`, as the code's comment
does, and fails.

Abstractions: one counter key; user partitions and the create generation have keys of
their own and follow the same law.

### TierCache

One cache key on every replica, one shared durable record, lookups with one step per
round trip. Ages instead of times, cut off where every limit has passed, so that time has
no bound. `up` says whether billing and the store answer, and changes at any moment.
`staleFor` is how long ago a tier was replaced at billing, `downgraded` whether a call
that was owed a known tier got the default or an error; both are history.

Abstractions: the mesh provider has its lookup wired; the JWT and static providers
answer without failing, and their answers are kept like any other; the durable read has time
of its own (the code passes it the caller's context, `providers/cache.go:171` and `:228`, so a
deadline that ended the lookup ends this read too).

### Alerts, Subscription and Bootstrap

`Alerts` is the manager's `lastSent` as the set of cooling keys, and what the operator
heard last of each subject from this process. `Subscription` is auth's record of one endpoint,
external, and callers that list, delete and create with one action per request; a request may
fail before or after auth acts. An operator re-runs `Subscribe` until it succeeds. Auth may or
may not disclose the secret of a subscription it lists; where it does not, the command accepts
the subscription and answers that the secret was not verified.

`Bootstrap` is Setup as a sequence of gates and wirings in source order, each one
action, over a `world`: the set of conditions (`unreachable`, `cluster`, `evicting`,
`infoHidden`, ...) that hold of the two servers and come and go meanwhile. A probe is a
function of the world at its step. The reconciler goroutine runs a pass in three steps
(`PassStart`, `PassRead`, `PassPublish`) beside the rest of Setup, as it does in the code;
Close runs `closeFns` in order; a process may be restarted. Cancelling a loop (`ending`) does
not stop it: its pass goes on, its `select` may even start another, and `LoopExits` is its
return between two passes. The goroutine of `SubscribeOnStartup` has no `closeFn`. Nothing is
announced where alerts are off (`Announce`).

Abstractions: replies are read or hidden, parsing is left out; client construction
does not fail apart from what the gates look at; a table check is one step.

### Outbox

`Money == INSTANCE MoneyEvents` maps the abstract events on the outbox: owed is what
was written as an intent, sent what was published, charged what was debited under a
reservation, voided what was alerted. `ImplementsMoneyEvents` is `Money!Spec`.

A worker is an `EmitViaOutbox` call or a drain loop. Redis' `PutIntent` is two steps
(`PutIntent` writes the row, `IndexIntent` adds it to the pending set), DynamoDB's one;
`BumpAttempt` and `MarkVoided` read the row and write it back, with anything in
between. `Settle(w, answer)` debits the reservation's key at billing unless
another event already has, and the answer may be lost. `older` and `aged` stand for
`FirstTS`: the order of the drain and the retry horizon.

Abstractions: billing makes the same of an event at every try (`Verdict`: accept,
refuse with 409, reject with 400), apart from outages; the Attempts counter is left
out, nothing reads it; a listing is one snapshot; the transport's consumer deduplicates, so a second publication is not
counted.

### CreditGrants

A worker is one delivery, redelivery or replay of an event to one replica. It reads
the ledger row, claims it (`Unchanged` is WATCH on Redis, `Attempts = :prev` on
DynamoDB), runs the handler up to `MaxAttempts` times and records the outcome.
`owner` marks the claim whose lease is still running. `pins` is the set of orgs *any*
replica has pinned a user to: each replica has its own pin store in memory, so an
event without an org may be granted to any of them, or to none. Whether the operator
or the handler set a pin makes no difference to that set. Billing (`Book`) is external:
it books the first grant under a key and answers repeats with the first result, as
`billing/client.go:96-98` relies on.

Abstractions: giving up after 20 contended tries is possible at once; `MaxRuns`
bounds how often a row may fail, not how often it is read; consumer-written handlers,
the ledger's indexes and the in-memory store are left out.

## 3. The runs

All bounds are the constants of the `.cfg` files. Deadlock is checked where the
system cannot stop; the runs of `GaugeActivations` alone switch it off because the
activation ids are finite and are used up.

| Run | Result | What it shows, and why the bounds suffice |
|---|---|---|
| `GaugeFaults` | pass | Exact gauges, no undercount, limits, life cycle, and every step one that `Holdings` allows, with failures and crashes at every round trip, while limits are enforced. Three ids against an org limit of two and a user limit of one reach racing acquires at the limit; bundles of one and two gauges reach partial releases; one Settle call races with releases. Costs are compared in `GaugeMemory`, so one is enough here. |
| `GaugeMemory` | pass | The in-memory ledger without failures: no silent loss of a cost, the first of two costs stays; every release returns its gauges (liveness). Shadow and disabled modes, idempotent repeats and failing tier lookups are included. |
| `HealConverge` | pass | A gauge the provider is silent about is never force-set, and a verifiable one ends at the open activations (liveness). A reconciler loop, and a second healer that recalculates and recounts; a provider that reports the gauge, one that does not, and none. One activation against an org limit of one and a user limit of zero is enough for the gauge to be off in either direction by lost rows, aborted releases and stale passes, and for an acquire to be denied and recounted. The retry of a recounted acquire after a repair needs a second activation and is not reached: `SelfHealing_proofs` covers it for any number, and `DecisionsCheckSpend` explores its twin on the Check path. |
| `HealRace` | violation | A reconciler pass overwrites a gauge charged after its guard check. |
| `OutboxDDB` | pass | Nothing lost, nothing charged and voided, every intent resolved (when the budget covers the backlog), and every step allowed by `MoneyEvents`, for start and stop of one reservation, which share a settlement key. |
| `OutboxCrash` | pass | Rows are deleted only for events that went out, with crashes, for an event billing refuses and one without a reservation, on the Redis store. |
| `GrantLedger` | pass | One credit per subject, decisions backed by credit, exclusive claims and final outcomes on the Redis ledger. Two events of one user, one of which relies on pins, and two workers: every race of the ledger and of the dedup row is between two deliveries, of the same event or of two. |
| `KeyspaceFleet` | pass | Usage survives, retries are charged once, reap takes nothing, over every order of roll-outs, verbs and traffic, writers of v1 alone beside dual ones until the flip included. Two pods are enough for two shapes to write at once; usage up to 3, a latch of 2 ticks in 4 ticks of time lets latches of before dual-on expire or not. The constraint `MCOnScript` stops the search after a deviation that no property tolerates, and after two. |
| `KeyspaceStale` | violation | Dual-on is recorded, verify finds nothing to compare, a pod spends on v1 alone and stops, the wait passes, and the same instance flips and reaps the only count. One pod, usage up to 1. |
| `TierMesh` | pass | No poisoning, bounded staleness, no downgrade, convergence, loud outages. One replica with two concurrent calls, one change of tier and one restart: a call in flight over a change, an invalidation and a restart; cache on and off, age limit on and off. Two replicas meet only in the durable record, which two calls and a restart already write out of order. |
| `DecisionsCheckSpend` | pass | Twelve configurations over the three counter types, modes, faults and truth sources; two callers with costs 1 and 2 against a limit of 1 and a burst of 1, a user limit of 2, two periods and a window of one tick: both callers pass one check, a crossing of either size, releases below zero. |
| `BootWatch` | pass | Eight configurations over all 17 conditions, one of which holds at boot; two (`unreachable`, `cluster`) come and go twice, which is a violation and its heal or two violations; two boots, one retry, one failing request to auth, one operator. Alerts are off in one configuration. |

`HealRace` and `KeyspaceStale` are disagreements between the code and a statement in the
repository; `PROJECT.json` quotes them under `findings`.

Deadlock is also off for `BootWatch`: a service that was refused or closed for the last
time is at rest. Symmetry is used for interchangeable ids, costs, settlers, workers and
pods, and never in a run with a liveness property.

## 4. Fairness

- `GaugeActivations!FairSpec`: a release that has started goes on; this is the
  loop of `ReleaseActivation`, which only an error leaves.
- `SelfHealing!HealFairSpec`: the reconciler's ticker fires again and again and a
  pass goes on to its end (weak fairness); provider calls, reads and sets that the loop
  repeats for ever succeed in the end (strong fairness), since every pass retries
  them. Nothing is assumed of users: no acquire, release, settlement, recalculation or
  recount need ever happen, and the calls of one that has begun may all fail.
- `Outbox!FairSpec`: the drain ticker fires, a pass goes on, the index catches up,
  time passes; a publish or a settlement repeated for ever for one event is answered
  in the end.

- `Decisions!FairSpec`: a call that was received is carried through; nobody has to
  call again, and no truth source has to answer.
- `TierCache!FairSpec`: calls return, since the HTTP client has a timeout; time passes;
  each replica is asked again and again (strong fairness, as the replicas of the model
  share a bounded number of calls). Billing and the store owe nothing: the properties
  name the outage they are about.
- `Bootstrap!FairSpec`: Setup and Close run to their end and the startup goroutine begins,
  the ticker fires and a pass ends; a `select` that finds its context cancelled time and
  again takes that case in the end (strong fairness, because Go picks at random between it
  and the ticker); auth answers in the end; an operator who keeps running the command at some
  point passes `--rotate-secret`, as its error says (strong fairness, because a startup goroutine
  may be in the way). Servers, restarts and Close owe nothing.

`KeyspaceMigration` has no liveness: every verb is an operator's decision.
`CreditGrants` has no fairness: the receiver answers 200 whatever happened, so
nothing in the code makes an event be handled in the end.

## 5. What is proved

Each proof module has one lemma per action and combines them by induction; the
theorems hold for every value of the constants that satisfies the `ASSUME`s.

**`GaugeActivations_proofs`** — `TypeCorrect`, `GaugesAreExact`, `NoUndercount`,
`AdmissionIsBounded`. None of the invariants is inductive alone. The inductive one
relates `units` to the row's phase and to `todo`: what a release has still to return is
part of what was charged, an open activation has all of its charges, and each gauge
is the cardinality of the charges on it. The limit follows because the script
compares the gauge, which is at least the open activations, before it adds.
`ActivationsImplementHoldings` is the refinement of `Holdings`: the same invariant says that
the counters the script compares are the cardinalities `Holdings` compares, and that a unit a
release loop takes is still held by an activation whose row has ended.

**`Outbox_proofs`** — `TypeCorrect`, `NoVoidOfACharge`, `NothingForgotten` (the
property `RecordKept`, either store, with crashes), `NothingLostOnDDB` (assumes the
DynamoDB store and no crashes). Strengthenings: a worker holds the event its step
needs; a debited key belongs to an event of its reservation that billing accepts, and
a voiding step is for an event it does not; a worker about to delete a row
holds an event that was published or charged; a voided row has been, or is about to be,
alerted.

**`CreditGrants_proofs`** — `TypeCorrect`; `CreditsAreSingle` and `DecisionsAreFunded` on
either ledger; `RedisLeaseExclusive` and `RedisTerminalBlocks` for the Redis ledger.
For the money: every credit is booked under its own key, for an org, and alone under
it; every dedup row stands for a credit; a delivery past the grant knows of one under
its key, and a success or skip about to be recorded stands for one. Two grants with equal
keys share a user or an org, whatever mixture of policies the tiers declare. For the
lease: a copy that WATCH still considers current shows a free row, and a running
claim makes the row blocked for everybody else.

**`SelfHealing_proofs`** — `HealTypeCorrect`, `UnverifiedGaugesStayExact`,
`UserGaugesStayExact`; extends the bookkeeping of `GaugeActivations_proofs` to one gauge at
a time, since a healed gauge is not exact. `HInv` adds what a pass may know: it has a count
only of a resource its source covers and is at a gauge only when that count is known, so no
force-set reaches a gauge the provider is silent about. The retry of a recounted acquire
charges an id that was minted when the request came in, so the invariant also says that
nobody charged that id meanwhile.

**`KeyspaceMigration_proofs`** — `MigrationTypeCorrect`, `UsageIsKept`, `ReapLosesNothing`,
`RetriesChargeOnce`. `KInv` has three parts, each as long as the fleet has left the procedure
in no way that breaks it. `Era` says which pods run and what a half-done force-set has written:
nobody reads v1 after the end, nobody writes it beside a fleet that began with v2. `Usage` says
where the count is: under v1 until the end (`Full1`), also under v2 where a pod reads it and
from the flip on (`Full2`), in a twin that no v1-only write has passed by (`InStep`), and
under both alike while a fresh verdict stands (`Trusted`), which is what carries `Full2` over the
flip. `Latches` says which latch still guards a charged key: one charged on v1 alone was charged
before dual-on, and no v2-only pod runs while its latch lives. That last part is why flip waits
for the latches.

**`TierCache_proofs`** — `TierTypeCorrect`, `CacheNeverPoisoned`, `StalenessIsBounded`,
`CallsNeverDowngraded`. What a cache stores came out of some call, so `TInv` bounds both the
entries and the tier a call carries between two round trips (a tier on its way
from billing is no staler than its flight, one between two caches no staler than its age plus a
flight), and ties a call that is owed a known tier to a durable record that has one.

**`Decisions_proofs`** — `CountersNeverUndercount`, `OverAdmissionIsObserved`,
`OvershootIsBounded`, `PartitionsAlwaysAgree`, `DecisionsTypeCorrect`. The bound needs a reservation argument: a caller
is *committed* when it was let through, will be on what it has read, or may be because it
read the counter of a period that is over. The last to be let through saw everything spent
before it, so the counter, its own cost and the greatest cost for each of the other committed
callers stay under the ceiling. `OverLimitObserved` needs that a gauge over its limit has a caller about
to emit, or an event emitted and an alert heard, and that a cooling alert was heard.
A second inductive invariant, `SInv`, says what the counters add up to: what truly exists is
the sum of what each caller holds; where no store call fails and no truth source answers, a
gauge is the sum of what each caller has put on it and not yet taken off, a user's counter is the same
sum over the callers of that user, and what is between the two halves of a Spend or Release makes
up the difference. `PartitionsAgree` follows, the bounds of `DecTypeOK`, and that no floor
at zero is reached, since a term never exceeds its sum. For a rate it counts the members of the window
and those that admitted callers have still to record; together they stay under the ceiling. The
sums are folds. What the proofs need of them (the sum does not depend on the order, raising one
term raises it by as much, a partition of the callers partitions it) is derived from the recursive
function that defines the fold by taking a smallest counterexample, a set or a number, and
showing there is a smaller one.

**`Bootstrap_proofs`** — `BootTypeCorrect`, `GatesAreSound`, `HealthIsBacked`,
`OperatorAlwaysKnows`, `CloseTellsAll`, `GapIsAlwaysLoud`. Each property speaks of the end
of Setup, so each is strengthened to every stage on the way: what each gate established,
which of the running goroutines `closeFns` will end, what a capability report may
already say. The proofs cover any number of conditions at once, where the run has one
at boot. `CloseTellsAll` is the safety half of `CloseEndsAll`: when Close has returned, what
still runs is a loop whose context is cancelled, and a pass in flight belongs to one.

The refinement `OutboxImplementsMoneyEvents` maps every action of `Outbox` to a step of
`MoneyEvents` or a stutter; the charge step needs that an event given up is one billing does
not accept, and the step that gives one up that it was never charged; both are parts of the invariant above.
`LifecycleIsMonotone` is an action property; it needs that a row that has not been settled has no
cost yet. `InMemorySettleIsNeverSilent` assumes
`AtomicSettle` and no store failures: on Redis and DynamoDB, or with failures, it is not claimed (section 6).

Assumptions on constants. Most say that a set is finite, a bound is a natural number or a
flag is a Boolean. The others are about the encoding: nil values are fresh
(`NilsAreFresh`, `NoneIsNoEntry`, `AbsentIsNoNumber`, `StarterIsNoOperator`), configurations are
records of the fields Setup or the engine reads (`ConfigsAreConfigs`), and the costs of a
configuration have a greatest (`CostsHaveAMax`), without which a bound on the overshoot means
nothing.

Only model-checked is liveness, which is out of the prover's reach: `ReleaseReturns`, `Converges`
of both modules, `EventuallyResolved`, `SustainedIsLoud`, `NeverLockedOut`, `HealthTracksWorld`, `CloseEndsAll`
and `RotationEnds`. The violations of `HealRace` and `KeyspaceStale` are counterexamples, and
TLC's.

## 6. Limits of what holds

These are places where a property stops holding; the hazards in `PROJECT.json` refer to
them.

- `engine.ReconcileOrg` and `MaybeReadRepair` have no recent-activity guard and
  undercount in the way `HealRace` shows for the loop; recount-before-deny can in
  addition admit beyond the limit. `NeverUndercount` and `AdmissionBounded` are
  therefore claimed for the activation API alone.
- A crash between `MarkVoided` and the alert (`outbox/emitter.go:102-111`) leaves a voided
  event nobody was told of, so `NothingLost` is claimed without crashes.
- A drain budget smaller than the backlog of refused events starves what is behind
  them.
- On the DynamoDB handler ledger a claim may succeed over a finished or newly leased
  row, because `RecordOutcome` sets `Attempts` back to the loop count and
  `DeleteUser` restarts it: `LeaseExclusive` and `TerminalBlocks` are claimed for
  Redis. The credit stays single on both.
- An event whose redelivery is answered while a claim is running is not handled again
  if that claim's replica dies, and neither is one whose `RecordAttempt` fails.
- A settlement without a release leaves gauges charged until a healing pass. The
  golden tests want it so (`engine/golden_semantics_parity_wt3_test.go:206`). Per-user
  gauges are never healed, a gap `engine/engine.go:73-76` documents.
- On the Redis and DynamoDB ledgers a release between the two attempts of `MarkSettled`
  (`activations/activations.go:293`) discards the cost without an error, so
  `SettleNeverSilent` is claimed for the in-memory ledger.
- An acquire whose row could not be written is admitted on retry as a duplicate
  (`engine/activation.go:318`), until its latch expires.
- On the Redis outbox a ZADD that fails after SETNX (`outbox/store.go:157`) leaves a
  pending row no drain lists, so `NothingLost` is claimed for DynamoDB.

Check, Spend and Release:

- `OvershootBounded` is claimed where every admission was decided (`Gated`). In
  "enforce" mode Spend counts without a limit when it cannot resolve the tier.
- The repair of a recount may overwrite a spend, or the new period with the old
  total; `NeverUndercounts` is claimed without a truth source. Denials by the per-user
  limit are never recounted.
- If the user's increment fails after the organization's, Spend returns the error and
  emits no event, so `OverLimitObserved` is claimed without faults. Two callers may emit
  their events in the opposite order of their crossings, and with the cooldown the
  last alert may then say resolved while the gauge is over its limit; the property asks only
  that the operator was alerted.

Keyspaces:

- Nothing takes a verdict back but the next `Verify` of the same instance, so flip and reap run
  on one that v1-only traffic has made stale, and reap deletes the only count (`KeyspaceStale`).
  `Verify` compares two reads with traffic between them, and a verdict that is not of one moment
  counts as stale too. `UsageSurvives` and `ReapedIsCarried` are claimed for flips on a fresh one.
- The flip gate counts its wait from the moment dual-on is recorded. A retry of an acquire that a
  pod on v1 alone admits after that may be charged twice.
- A pod with an unscoped keyspace passes the boot guard after v2-final
  (`counters/keyspace_migration.go:401`) and reads zero; the repository's tests
  (`counters/keyspace_migration_20260721_test.go:159`) want it so.
- `Reap` does not look whether a pod still runs on v1, and a force-set of both shapes is two
  writes, which others may come between.

Tiers: a mesh provider without a lookup answers its default without an error and the
cache keeps it, durably. `providers/mesh.go:37` says Setup wires the lookup; nothing in
`quota/setup.go` does. The JWT provider's default is kept in the same way. A caller whose
deadline has ended the lookup gets no last-known-good tier from the durable store either.

Setup and health:

- A Setup that is refused after wiring (`quota/setup.go:815`) leaves the heartbeat, the
  reconciler and the handler running; `CloseEndsAll` is about Close, and `CloseTellsAll` also
  about refusals at the Redis gates.
- `closeFns` run in wiring order, so the Redis client is closed before the reconciler is
  cancelled, though the comment of Close has the clients last; a pass in between or in flight
  reports violations of a healthy server. Close waits for no loop, and the goroutine of
  `SubscribeOnStartup` (`quota/setup.go:732-734`) may still subscribe after it.
- A restart while an invariant is violated forgets the violation, so `restored` is never
  sent by the new process. `OperatorKnows` is about what one process has sent, where its alerts
  are on, and takes dispatch to succeed.
- `RedisReachable` is set at boot and not refreshed; eviction and persistence fields that
  are empty before the first pass read as healthy; `counterUntrusted` is written and
  never read; the activation table is not passed to `VerifyTable`.
- Where auth does not disclose the secret of a subscription, `Subscribe` without
  `--rotate-secret` accepts one that signs with another secret (`authevents/subscribe.go:179`) and
  says that it was not verified; `RotationEnds` admits that answer.
- `SubscribeOnStartup` is tried once. The message of a failed rotation that nothing is
  subscribed can be wrong when a startup goroutine subscribed meanwhile.

## 7. Not modelled, and the plan

Left out for good: wire clients and their formatting, configuration parsing and
validation, the registry, wording, response headers, routing and identity of the guard,
command-line plumbing, table provisioning, the doc linter. They hold no state
that two actors share, or their results are constants of the models. Consumer-written
handlers and transports are outside the library. The JWT and static tier providers,
signature checking and event parsing are pure functions of one request. The generic
idempotency store has no caller on the modelled paths.

Every safety invariant, action property and refinement that a run checks is stated by a
theorem. `Alerts` and
`Subscription` are proved through `Bootstrap` and `Decisions`, and have no theorems of their own. Left
to prove are facts the same invariants give and no run asks for, such as which goroutines
outlive a refusal of the billing gate.

## 8. Running it

    tlc -workers 2 -config GaugeFaults.cfg MCGaugeActivations
    tlapm CreditGrants_proofs.tla

`PROJECT.json` names the module of each configuration.
