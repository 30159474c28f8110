# Verification of polaris-store-postgresql

This directory holds TLA+ models of `polaris-store-postgresql`, the PostgreSQL
backend of a Polaris naming and config server. It has the specifications, the
TLC configurations that model-check them, and TLAPS proofs.

Most of the repository is CRUD over tables. Three parts have behaviour worth
model-checking, and each has a module:

| Module | Part | Source |
|---|---|---|
| `LeaderElection` | lease-based leader election: store calls, one state machine per process and key, the manager | `src/store/postgresql/config_file_template.go` 148-588 |
| `RuleStore` | the rule tables that server caches pull by mtime: routing v2, rate limits, circuit breaker rules v2 | `routing_config_v2.go`, `src/unnamed/part_001`, `base_db.go` 142-182 |
| `InstanceCleaner` | the batched purge of soft-deleted instances and clients, with transaction failures | `config_file_template.go` 590-760, `base_db.go` 122-135, 184-196 |

`MC_LeaderElection`, `MC_RuleStore` and `MC_InstanceCleaner` extend them with
the symmetry sets TLC uses. The TLAPS proofs are in `LeaderElectionProofs`,
`LeaderElectionRelease`, `InstanceCleanerProofs` and `RuleStoreProofs`.

## The system and its parts

| Part | Source | Modelled |
|---|---|---|
| Election record store: `CreateLeaderElection`, `GetVersion`, `CompareAndSwapVersion`, `CheckMtimeExpired`, `ListLeaderElections` | `config_file_template.go` 182-334 | yes |
| Election state machine: `mainLoop`, `tick`, heartbeat, dead check, `elect`, cooldown | 336-511 | yes |
| Election manager: `StartLeaderElection`, `StopLeaderElections`, `IsLeader`, `ReleaseLeaderElection` | 514-588 | yes |
| Leadership events | 468-474 | yes: the last event each process's subscribers saw |
| Transaction helpers: `Begin`, `Retry`, `RetryTransaction`, `processWithTransaction` | `base_db.go` | partly: as outcomes of the store calls, the retry loop of `RuleStore` and the cleaners' rollback |
| Maintenance: `BatchCleanDeletedInstances`, `BatchCleanDeletedClients` | `config_file_template.go` 590-760 | yes; `GetUnHealthyInstances` only reads |
| Routing v2, rate limit, circuit breaker v2 stores | `routing_config_v2.go`, `part_001` | partly: writes, reads by id and cache pulls; listing queries only read |
| User store | `routing_config_v2.go` 337-968 | no (see below) |
| Old circuit breaker store | `circuitbreaker_config.go` | no (see below) |
| Config file, group, release and template stores | `src/config_file_*.go`, `part_000`, `part_002`, `config_file_template.go` 27-135 | no (see below) |

How the parts interact:

- The election is the only part with its own goroutines: one per process and
  key, talking to other processes only through the `leader_election` row.
- The rule stores are called by server request handlers running concurrently,
  and read by the server's caches. The caches pull rows with `mtime > mark`.
- The cleaners are periodic tasks of the server. They race
  with the naming server's instance and client writes, which are not in this
  repository.

## Module `LeaderElection`

Constants:

- `Peers`: the processes, each one's `utils.LocalHost`.
- `Keys`.
- `None`: the empty leader `""`.
- `LeaseTime` and `TickTime`.
- Bounds: `MaxVersion`, `MaxErrors` (failed store calls in a behaviour) and
  `MaxStarts` (state machines per process and key).
- `DuplicateCreateFails`: whether the INSERT of an existing key aborts the
  transaction. `TRUE` is what lib/pq does. `FALSE` is the contract of design
  spec §4.1.

Variables:

| Variable | Code |
|---|---|
| `store[k]` | the row: `exists`, `leader`, `version`; `age` is `now - mtime`, saturated at `LeaseTime+1` |
| `sm[<<p,k,g>>]` | the g-th `leaderElectionStateMachine` of process p for key k: lifecycle, `ctx` cancelled, a buffered ticker tick, `pc` within `tick`, `leaderFlag`, `leader`, `version`, `releaseSignal`, `releaseTickLimit` |
| `leMap[p][k]` | which machine `adminStore.leMap` holds (0 = none) |
| `event[p][k]` | the last `LeaderChangeEvent` p's subscribers saw |
| `published` | which (p,k) published in the last step |
| `starts`, `startErr` | history: machines started; whether the last `StartLeaderElection` returned an error |
| `errs` | store calls that failed so far |

Actions. Each store call is one atomic step. The local work between two calls
is folded into the call after it.

| Action | Code |
|---|---|
| `Boot`, `Exit`, `TickReady` | `mainLoop` 354-371: start, `ctx.Done()`, `ticker.C` |
| `Cooldown` | `checkReleaseTickLimit` 378-381, 438-444 |
| `StepDown` | the release branch 383-391 |
| `Heartbeat` | 393-403 with `heartbeat` 492-496 |
| `FollowerTick`, `CheckLeaderDead` | 405-420 with `CheckMtimeExpired` 262-280 |
| `GetVersion`, `Elect` | 211-223, `elect` 482-489 |
| `Clock` | time advancing by `TickTime` |
| `StartLeaderElection` | 514-544 with `CreateLeaderElection` 187-208 |
| `StopLeaderElections`, `ReleaseLeaderElection` | 547-555, 576-588 |
| `Crash` | a process dying: its machines are gone, its map is empty |

A CAS has four outcomes: `ok`, `miss` (0 rows), `err` and `lostack`.
`lostack` is a commit that applied while the client saw an error; this is the
ambiguous `tx.Commit()` of line 248. `CreateOutcomes` does the same for the
create. Its `dup` outcome is the aborted transaction that
`CreateLeaderElection` then commits (lines 197-201). `ListLeaderElections` is
the operator's view of the rows: `Valid` is `checkLeaderValid`, the
complement of the dead check's expiry.

## Module `RuleStore`

`Store` picks the table: `"routing"`, `"ratelimit"` or `"circuitbreaker"`.

A row is abstracted to four fields:

- whether it exists;
- its flag (soft delete);
- the revision last written, which stands for its content;
- its mtime in whole seconds.

The writers are request handlers. Each handler call takes two steps:

- `Stamp` evaluates `GetCurrentTimeFormat()` into the statement's mtime.
- `Commit` executes the statement and commits it.

Other calls and the clock may run in between. A commit has three outcomes:

- it applies;
- it fails with a duplicate key;
- it fails with a store error, either with nothing applied or applied with
  the reply lost.

The handlers wrapped in `RetryTransaction` run again from `Stamp`, up to
`maxTryTimes` (`RetryLimit`), but only when the error is one that `Retry`
repeats: a message containing "Deadlock", "bad connection" or "invalid
connection" (`errMsg`, `base_db.go` line 16). Whether an error is of that kind
is a free choice of the step; any other error is returned at once. Which handlers are wrapped differs per store
(`Retried`). Whether a create conflicts with a soft-deleted row also differs
(`CreateConflicts`): the routing create first deletes a `flag = 1` row of its
id, while the rate-limit and circuit-breaker creates do not.

`Get` is `GetRoutingConfigV2WithID`, `GetRateLimitWithID` or
`HasCircuitBreakerRule`: one SELECT by id and `flag = 0` on the master, or an
error once `Begin` or the query fails. The first two return the rule's
revision (`Found`) or nothing. `HasCircuitBreakerRule` counts the live rows of
the id and returns only whether one exists (`CircuitBreakerFound`); `GetResult`
picks the reading of the store.

`Pull` is a cache calling `Get...ForCache(mark, first)`. It takes the rows
with `mtime > mark`, without the deleted ones on the first pull, and moves
`mark` to the greatest mtime received.

## Module `InstanceCleaner`

The instance cleaner is one transaction in two steps:

- `Select` picks up to `BatchSize` ids with `flag = 1` and
  `mtime <= now - timeout`.
- `Purge` runs the three DELETEs and commits. The DELETE of `instance_metadata`
  and `health_check` by id comes first, then the DELETE of `instance` by id
  and `flag = 1`.

The placeholder list is built with an index that is never incremented
(`Placeholders`), so `Purge` applies only when one id was picked. Otherwise
lib/pq rejects the argument count and the transaction rolls back.

The client cleaner is one statement: a CTE selects the ids and a DELETE removes
those ids. It is modelled as `ClientSnapshot` then `ClientDelete`. Under READ
COMMITTED, PostgreSQL re-checks only `id IN (...)` on a row updated since the
statement's snapshot.

Either cleaner's run can fail: `Begin` after `Retry`'s attempts, the SELECT,
a `Prepare`, an `Exec`, `RowsAffected` or the `Commit` (`StoreError`, bounded
by `MaxErrors`). The run then returns the error and the deferred `Rollback` of
`processWithTransaction` undoes whatever DELETE ran (`PurgeFails`,
`ClientFails`).

`Register`, `Deregister`, `ClientRegister` and `ClientDeregister` are the
naming server's writes.

## Runs

| Run | cfg | Checks | Result |
|---|---|---|---|
| safety | `MC_Safety.cfg` | `TypeOK`, `FlagMatchesKnownLeader`, `ReleaseIsHonoured` | pass |
| liveness | `MC_Liveness.cfg` | `EventualLeader` under `FairSpec` | pass |
| duplicate_create | `MC_DuplicateCreate.cfg` | `StartFailsOnlyOnStoreError` | violation |
| duplicate_event | `MC_DuplicateEvent.cfg` | `LeaderEventOnlyOnChange` | violation |
| fresh_lease_taken | `MC_FreshLeaseTaken.cfg` | `StoreLeaderChangesOnlyOnExpiry` | violation |
| restart_release | `MC_RestartRelease.cfg` | `ReleaseIsHonoured` with `MaxStarts = 2` | violation |
| routing_store | `MC_RoutingStore.cfg` | `TypeOK` | pass |
| routing_cache_miss | `MC_RoutingCacheMiss.cfg` | `CacheAgreesBelowMark` | violation |
| routing_create_retry | `MC_RoutingCreateRetry.cfg` | `CreateErrorMeansNotCreated` | violation |
| cleaner | `MC_Cleaner.cfg` | `TypeOK`, `RowsConsistent`, `EventuallyPurged`, `EventuallyPurgedClient` under `FairSpec` | pass |
| cleaner_stuck | `MC_CleanerStuck.cfg` | `EventuallyPurged` | violation |
| cleaner_metadata | `MC_CleanerMetadata.cfg` | `RemovesOnlyExpired` | violation |

What the violations show (`PROJECT.json`, "findings"):

- **fresh_lease_taken (code bug).** Two followers both see the lease expired.
  The first elects itself. The second then reads the *new* version in
  `GetVersion` and CASes from it, taking a lease that `ListLeaderElections`
  reports valid. The expiry check (line 405) and the CAS (line 488) are not one
  conditional UPDATE.
- **duplicate_event.** A heartbeat whose commit applied but returned an error
  falls into the dead check. There the machine finds its own host and calls
  `changeToLeader` again (lines 410-414), publishing a second "became leader"
  event. Spec §4.2 says an event is published once per transition.
- **restart_release.** `StopLeaderElections` only cancels the machines'
  contexts (line 551). A cancelled machine whose `select` (lines 363-371)
  keeps taking the ticker goes on electing and heartbeating. When the process
  then starts the key again and releases it, the old machine keeps the row
  fresh with the process's own host. Once the new machine's cooldown ends, its
  dead check finds that host and makes it leader without a write (line 412).
  Spec §5 and §8 say a released process stays out of the election until the
  lease has expired.
- **duplicate_create (code bug).** With `DuplicateCreateFails = TRUE`, every
  process after the first gets an error from `StartLeaderElection` and never
  runs an election. The other runs use `FALSE`, the contract of §4.1, so that
  several processes compete.
- **routing_cache_miss (code bug).** mtime is the writer's clock when the
  statement is built (line 98), not the commit time. A write stamped at t that
  commits after a pull has moved the mark past t is never pulled.
- **routing_create_retry (code bug).** A create whose commit applied but
  reported "bad connection" is run again by `RetryTransaction`. Its purge
  deletes only `flag = 1` rows, so the INSERT meets the row it created, and
  the handler returns a duplicate-key error for a rule that exists.
- **cleaner_stuck (code bug).** With two expired instances and `batchSize` 2,
  every cleaner transaction fails, and the instances are never purged.
- **cleaner_metadata (code bug).** `RemovesOnlyExpired` is the cleaners'
  contract: a row goes only if it belongs to something soft-deleted at least
  `timeout` ago. The DELETEs trust the ids selected earlier:
  - an instance that registers again between `Select` and `Purge` keeps its
    row and loses its metadata and health check;
  - one that registers and deregisters again in that window is purged
    although its soft delete is fresh, since line 646 re-checks `flag` but
    not `mtime`;
  - a client that reports again inside the client statement loses its row.

### Bounds

- Election: two peers are the least for a conflict, and one key suffices
  because keys are independent. `TickTime = 2` and `LeaseTime = 4` (2 in the
  liveness run) make a lease last two ticks. Then a heartbeat can be late, a
  lease can expire between the dead check and the CAS, and the cooldown
  (`4/2*3 = 6` ticks) can run out. `MaxVersion = 3` allows several elections
  and heartbeats. `MaxErrors = 1` lets one store call fail or lose its reply
  anywhere (0 in the liveness run). `MaxStarts = 1`: a second machine of one
  process and key exists only after a stop, which restart_release covers.
  That run has one peer, `LeaseTime = TickTime = 2`, `MaxVersion = 2`, no
  errors and `MaxStarts = 2`: the old machine needs one election and one
  heartbeat, and the violation involves one process only, so a second peer
  adds nothing.
- Rule store: two writers, one id and two revisions give two handlers racing
  on one rule with distinguishable writes. `MaxTime = 3` gives stamps that
  tie, and stamps that commit out of order. `MaxErrors = 1` gives one lost
  commit. `RetryLimit` is the code's 20; it is never reached with one error.
- Cleaner: two instances and one client with `Timeout = 1`. A re-registration
  fits between the two steps of a cleaner. `BatchSize = 1` is the batch size
  that can succeed; 2 is the one that shows the stuck cleaner.
  `MaxErrors = 1` lets one run of either cleaner fail anywhere. It is 0 in the
  violation runs, which need no failure.

### Fairness

- Election: `Boot`, the steps of `tick` and `Clock` are weakly fair, because
  the Go runtime schedules a runnable goroutine and the ticker keeps firing.
  `Exit` is strongly fair. Go's `select` picks uniformly at random among ready
  cases, so a cancelled machine whose `ctx.Done()` is ready infinitely often is
  eventually taken. Failures are bounded, not fairness-controlled.
  `EventualLeader` is stated on behaviours that stay within `MaxVersion`.
- Cleaner: each cleaner is weakly fair. The server runs each one periodically
  in its own goroutine. The environment has no fairness: instances may keep
  registering. Failures are bounded, so they cannot starve the cleaner; an
  unbounded failure would be an unreachable database.

### Mutants

Each property of a passing run is broken by a plausible bug in the code it is
about (`PROJECT.json`, "mutants"):

| Property | Mutant |
|---|---|
| `TypeOK` | the cooldown without its `> 0` guard (election); a stamp one second ahead of the clock (rule store); a SELECT without its early return on no rows, which leaves the cleaner inside a transaction with nothing picked (cleaner) |
| `FlagMatchesKnownLeader` | `changeToLeader` that forgets to set `le.leader` |
| `ReleaseIsHonoured` | a release branch that does not arm the cooldown |
| `EventualLeader` | a `GetVersion` that reads `version - 1` |
| `EventuallyPurged` | a purge without the instance DELETE |
| `EventuallyPurgedClient` | a client statement that deletes nothing |
| `RowsConsistent` | the purge's statements run outside a transaction, so a failure keeps the DELETEs that ran |

## Proofs (TLAPS)

Each theorem holds for every value of the constants that satisfies the
module's named assumption.

`LeaderElectionProofs`:

- `TypeCorrect`: `Spec => []TypeOK`. One lemma per action shows that the
  action keeps the type. Record-set membership is left to Zenon. The
  arithmetic on versions, ages and `ReleaseTickLimit` is done in separate
  steps by SMT.
- `FlagMatchesKnownLeaderHolds`: `Spec => []FlagMatchesKnownLeader`. The
  invariant alone is not inductive, because its step needs the fields' types,
  so the inductive invariant is `TypeOK /\ FlagMatchesKnownLeader`. Every
  action does one of three things to a machine's `(flag, leader)`:
  - leaves them unchanged;
  - sets them by `ToLeader(s, p)`: flag set and own host;
  - sets them by `ToFollower(s, l)`: flag off and `l # p`.

  A lemma per action shows this. `Boot`, `Exit` and `Crash` set them to
  "follower of nobody".

`InstanceCleanerProofs`:

- `TypeCorrect`: `Spec => []TypeOK`.
- `RowsConsistentHolds`: `Spec => []RowsConsistent`, inductive with `TypeOK`.
  Registration writes the three rows together. A purge removes metadata and
  health check of every picked id and the instance row only of a picked id.
  A failed run changes nothing.

`LeaderElectionRelease` (extends `LeaderElectionProofs`; hypothesis
`MaxStarts = 1`):

- `RowAgedOutHolds`: `Spec => []RowAgedOut`. `RowAgedOut` is the inductive
  invariant behind `ReleaseIsHonoured`. Take a running machine that has
  released its key, has its flag down, and whose own host still holds the
  key's row (`Exposed`). Then:
  - while it cools down (`pc = "idle"`), the row's age plus the time still
    ahead of the cooldown, `Cooling(i) * TickTime`, exceeds `LeaseTime`;
  - once it ticks again, the row has expired;
  - a machine that never got past create or boot has not released.
- The argument has two parts:
  - `CooldownOutlastsLease`: `(ReleaseTickLimit + 1) * TickTime > LeaseTime`
    for every lease and tick time, since `ReleaseTickLimit` is
    `(LeaseTime \div TickTime) * 3` (setReleaseTickLimit);
  - `OneMachinePerKey`: with one start, no other machine writes a row of the
    same key with the same host.

  Nothing else renews the row, so a clock tick lowers the cooldown by one and
  raises the age by `TickTime`. The lemma `CasAppliedVersion` says an applied
  CAS found the row at the version it expected (the `and version = $4` of
  line 234).
- `ReleaseIsHonouredHolds`: `Spec => ReleaseIsHonoured`. The flag of a
  released machine is raised only by `CheckLeaderDead` or `Elect`
  (`FlagRaisers`). Under `RowAgedOut`, both of them first write the key's row.
- With `MaxStarts = 2` the property is false:
  - `StopLeaderElections` then `StartLeaderElection` leaves the cancelled
    machine heartbeating the row;
  - the new machine finds its own host's fresh row.

  The restart_release run shows this trace.

`RuleStoreProofs` (every store):

- `TypeCorrect`: `Spec => []TypeOK`. The inductive invariant is
  `Typed == TypeOK /\ InFlight`. `InFlight` says a call between invocation and
  return runs a write and has no error yet. It is needed because a commit
  reads the call's `op` and `tries`, and `TypeOK` does not say that a
  committing call carries a write.
- The reader's new mark is `Latest(S)`, a CHOOSE of the greatest mtime
  pulled. `LatestExists` proves that a nonempty set of times has a greatest
  element without induction:
  - take the least element of `{MaxTime - t : t \in S}` under the
    well-founded `<` on `Nat`;
  - this uses `WFMin` and `NatLessThanWellFounded` of WellFoundedInduction.

These stay with TLC, out of the prover's reach:

- `EventualLeader`, `EventuallyPurged` and `EventuallyPurgedClient`: liveness
  under fairness. TLAPS cannot reason about `ENABLED` and fairness here.
- `ReleaseIsHonoured` with `MaxStarts > 1`: it is false there (see above),
  and the safety run checks `MaxStarts = 1`.
- Every rule-store run uses the routing table. The rate-limit and
  circuit-breaker stores differ only in `Retried`, `CreateConflicts` and
  `GetResult`; `TypeCorrect` covers them for every constant.

## Not modelled, and why

- **User store.** Its statements name the table `user`, a reserved word in
  PostgreSQL, unquoted. As written they do not parse.
- **Old circuit breaker store** (`circuitbreaker_config.go`):
  - `tagCircuitBreaker` passes two arguments for one placeholder (line 98).
  - `releaseCircuitBreaker` uses MySQL's `ON DUPLICATE KEY` (line 146).
  - So no relation is ever written, and a model would have no binding to
    reason about.
- **Config file, group and release stores.** They use MySQL placeholders
  (`?`), backquoted identifiers, `sysdate()` and `UNIX_TIMESTAMP`.
- **`GetUnHealthyInstances`.** It only reads, and its caller is not in this
  repository. Modelling it would add health-check fields that no other step
  of this repository writes.
- **Config file template store** (`config_file_template.go` 27-152). It is a
  single INSERT and queries, with no transaction, retry or concurrency of its
  own. A template name's uniqueness rests on a schema constraint outside this
  repository, so a model would only restate the schema.
- **Rate-limit `etime`.** It uses `sysdate()` (line 991), which PostgreSQL
  lacks; `etime` is not in the row abstraction.

## Hazards not yet covered

These are listed in `PROJECT.json` with notes:

- two leaders on one version: found, and recorded by spec §8 as an open
  design choice;
- a restart after a crash within the lease (restart_release covers a stop
  then a start, not a crash);
- an UPDATE that does not refresh `mtime`: the schema and any trigger are not
  in the repo, and the model assumes a successful CAS restarts the lease
  (`age = 0`);
- clock skew between processes, for the election and for the cleaner.

## Plan for later work

1. A per-process clock offset for skew.
2. A passing safety run with `MaxStarts = 2` and two peers, for the other
   properties: it passed 13 million distinct states without finishing in ten
   minutes and needs a constraint.
