# kacho-geo: specifications and proofs

TLA+ modules of the Geography control plane (`src/`): the catalog of regions and zones with its
audit trail, the asynchronous mutations that change it, the operations a client polls and cancels,
listing, who is let in, and how the process starts and stops. TLC checks them on small instances;
the modules named `*Proofs` hold theorems that TLAPS checks for every value of the constants.

    tlc  -config GeoGrace.cfg MCGeoService.tla
    tlapm GeoServiceProofs.tla

`PROJECT.json` lists components, runs, the code each definition stands for (`map`), the hazards the
properties answer, findings and theorems.

## 1. The system

kacho-geo serves two gRPC listeners: public `:9090` (Region and Zone `Get`, `List`,
`OperationService`) and internal `:9091` (admin `Create`, `Update`, `Delete`, `OperationService`).
Everything durable is in one PostgreSQL schema.

| Component | State | Operations |
|---|---|---|
| Catalog repository (`internal/repo/kacho/pg`, migrations 1–2) | tables `regions`, `zones`, `geo_outbox` | six writer transactions, each one statement plus one audit event; `Get`, `List` |
| Use cases (`internal/apps/kacho/api`) | none | validate, insert the operation row, start a worker with a closure |
| Operations table (migration 3; kacho-corelib, mirrored in `repomock`) | `operations` | create, terminal compare-and-set, owner-scoped get and cancel |
| LRO worker (kacho-corelib, configured in `cmd/kacho-geo/observability.go`) | goroutines, backlog | run the closure, write the outcome, retry, give up |
| Reconciler (`cmd/kacho-geo/recovery.go`, `internal/operationresolver`) | none | every 30 s, settle unfinished operations older than a grace period by what the catalog holds |
| OperationService (`internal/handler/operation_handler.go`) | none | `Get`, `Cancel` |
| Public catalog API (`handler/public.go`, `pagetoken.go`) | none; the cursor is in the token | `Get`, `List` |
| Internal admin API (`handler/internal.go`) | none | delegates to the use cases |
| Authorization (`internal/check`, interceptors in kacho-corelib) | cache of allowed Checks | map an RPC to a relation, ask kacho-iam, deny, fail closed |
| Configuration (`internal/apps/kacho/config`, `validate*` in `serve.go`) | none | load, refuse unsafe combinations |
| Process (`cmd/kacho-geo/serve.go`, `main.go`, `panicrecover.go`) | resources, listeners, worker pool, root context | start, supervise, stop, exit code |
| Metrics, migrator, protobuf projection | – | counters, a goose wrapper, field copies |

How they interact. A call passes recovery, principal and authz interceptors before its handler. A
mutation RPC inserts an operation row and returns it; a worker goroutine then runs the writer
transaction and afterwards writes the outcome into the row. Client calls (`Cancel`, further
mutations), other workers, the reconciler and the end of the process can come between any two of
these steps. The shared state is the database, and inside one writer transaction other transactions
run between its statements.

Hard behaviours:

* **Interleaving.** Cancel, worker and reconciler race for the one terminal write of a row. Cancel
  settles the row, not the worker. Writers meet on row locks in several orders.
* **Crash and restart.** An operation may be orphaned before its transaction or between the commit
  and the terminal write; nothing in the catalog says which operation wrote a row.
* **Lost replies.** A COMMIT whose reply is lost is reported as INTERNAL though it is durable:
  `pgx.BeginFunc`'s own error passes no `dberr.Wrap`, and `ToStatus` knows no sentinel for it. An
  operation ends with CANCELLED or DEADLINE_EXCEEDED on a worker's word only if its statement failed,
  with nothing committed. `Cancel` itself may be applied and answered INTERNAL.
* **Timeouts.** The grace period is a constant; no limit on a worker's life enforces it. A Check has
  a deadline. The drain at shutdown has one; the servers' GracefulStop has none.
* **Stale reads.** The resolver reads, then the reconciler writes. A cached grant outlives its
  revocation. A page token may name a deleted row.
* **Ordering.** `sequence_no` is drawn before COMMIT, so numbers and commits differ in order. Servers
  must stop before the drain, and the exit code is put together from two results that arrive in any
  order.

What makes each part correct: the catalog keeps its foreign key and an audit trail that replays to
it, by commit order and by number; an operation settles once, for good, and its outcome says
something true about the catalog; callers learn only about their own operations; a handler runs only
on a grant that is recent, for the user a trusted forwarder named; a walk through the pages delivers
each lasting row once; the process never serves unguarded or half of its API, and says why it
stopped.

## 2. Modules

| Module | Models | Code |
|---|---|---|
| `Catalog` | three tables; `Commit` is any of the six writers, `Refused` the error class otherwise | `repo/kacho/pg/{region,zone}.go`, `dberr.go`, migrations |
| `CatalogTx` | EXTENDS `Catalog`: the same writers statement by statement under row locks; implements `CatalogSpec` | the same, as PostgreSQL runs it |
| `Operations` | the statements on table `operations`; `TableSpec` lets them come in any order | migration 3, `repomock.go` |
| `OperationService` | `Get`, `Cancel` and their replies over `Operations`, workers arbitrary | `operation_handler.go`, `protoconv.go` |
| `OperationLifecycle` | abstract: what an asynchronous mutation promises | – |
| `GeoService` | EXTENDS `Catalog`, instantiates `Operations`: requests, workers, Cancel, crash, restart, reconciler; implements `OperationLifecycle` | use cases, `serviceerr.go`, `resolver.go`, `recovery.go` |
| `Pagination` | `List` page by page while rows come and go | `region.go`, `zone.go` (`List`), `pagetoken.go` |
| `Config` | the settings, their defaults and the two `validate` functions; no state | `config.go`, `serve.go` |
| `Startup` | EXTENDS `Config`: `runServe` step by step up to the listeners, every failure included | `main.go`, `serve.go`, `observability.go`, `recovery.go`, `check/factory.go` |
| `Admission` | EXTENDS `Config`: a call's way through the interceptor chain, the Check and its cache, panics | `serve.go`, `panicrecover.go`, `internal/check` |
| `Shutdown` | listeners, shutdown goroutine, drain, exit code | `serve.go`, `observability.go`, `main.go` |
| `CatalogProofs`, `CatalogTxProofs`, `OperationServiceProofs`, `GeoServiceProofs`, `PaginationProofs`, `StartupProofs`, `AdmissionProofs`, `ShutdownProofs` | theorems | |
| `MC*` and `*.cfg` | instances | |

State and code. In `GeoService`, `worker[o]` is the goroutine `operations.Run` starts: `queued`
before its transaction, `ran` while it holds an outcome not yet written, `gone` afterwards, whether
it finished, overflowed the backlog, ran out of retries or died with the process. `verdict[o]` is
what the reconciler has read and not yet written. `expired` is the set of operations older than the
grace period. `crashes` only bounds the instance. `outbox` events carry a field `op` that the code
does not store: it is a history field for the properties, like `got` and `kept` in `Pagination`,
`could` in `CatalogTx`, `lacked` in `Admission`, and `acknowledged` in `OperationService`.

In `OperationService` a request names an operation or carries an empty id (`Ids`). The replies are
the handlers': OK with the projected row, InvalidArgument for the empty id, NotFound,
FailedPrecondition, and INTERNAL whenever the store fails, a failed `CancelOwned` having been applied
or not. `parity` in a reply changes with every answer, so that two equal answers in a row are two.

In `CatalogTx` the tables of `Catalog` are the committed ones; what a transaction has not committed is
in `stage`, `row` and `drawn`, and who waits for whom is computed (`WaitsFor`) from the stages instead
of a lock table. `seen` is what a READ COMMITTED snapshot showed when a statement began; a row that
was deleted while the statement waited vanishes from it. In `Admission` time is relative: `left` and
`cache` count down, `age` counts the ticks since kacho-iam last granted a pair and stops at
`Forgotten`, so that the state space is finite without a bound on time.

One definition serves both resources where the code has two copies that differ in columns only
(`Stored`, `Written`, `Commit`; `Pagination`).

Modelled from how `src/` uses it, because it lies elsewhere: PostgreSQL's row locks are modelled from
the statements and constraints in `src/`; the terminal write (`Settle`), the dispatch of workers, the
reconciler's sweep, the principal and authz interceptors and their cache, `validate.PageSize`
(kacho-corelib); the contract of grpc-go's `Serve` and `GracefulStop`; kacho-iam. Entries that have no
line in `src/` are marked external in the map.

Abstracted: ids, names and principals are model values; timestamps, descriptions, error texts, hosts,
ports and protobuf layout are left out. "Internal" in `WriterFails`, where nothing is committed, stands
for DEADLINE_EXCEEDED too. That the request's principal survives into the worker's context is the
business of `operations.Run`, outside `src/`: `GeoService` takes the actor of an event from the stored
owner and checks nothing about it (hazard at `pg/region.go:42`).
The reconciler's batches and its row locks are dropped: any orphan may be taken at any time, which
allows more than the code does. A failed Check may fail at any moment, not only at its deadline.

## 3. Runs

| Run | Question | Bounds |
|---|---|---|
| `operation_service` | do strangers learn no more than of an id never given out, is Cancel refused exactly when it should be, do calls touch their caller's rows only, and is what callers hear final? | 2 callers, 2 operations and the empty id, all outcomes, any call's store failing |
| `service_crash` | does the service implement `OperationLifecycle`, give clean refusals and witnessed successes, let one of two timely Creates win, and settle every operation, when a grace period may be too short? | 2 operations over 8 requests on a region and its zone, 1 crash: a race needs two operations, a crash interrupts both |
| `service_grace` | foreign key, trail, and what outcomes mean when the grace period covers every worker | 3 operations over 5 requests on a region and its zone, 2 callers, one without an id; no crash, but each worker may vanish and leave its operation to the reconciler |
| `catalog_tx` | do the writers, interleaved statement by statement, implement `Catalog`, refuse truthfully, lose no update, number replayably, and never deadlock? | 2 regions, 1 zone; three free transactions of any kinds on what up to three earlier ones left: a cycle of waits needs at most three kinds of waiter, a region must be left, emptied and deleted, and two Updates of a stored zone (one moves it, one switches it off) race |
| `pagination` | is each lasting row delivered exactly once, and does the walk end? | 5 ids, pages of 1–3 rows, sizes changing within a walk |
| `admission` | who gets in, who is denied, is every call answered? | a production, a local and an emergency configuration; 2 peers, 1 user; two calls, the second a read of the user's: what a cached answer of one can do to another; TTL and Check deadline of 1 tick each |
| `startup` | which of all settings serve, and what does a failed start leave? | all combinations of flags, one SSL mode for those treated alike, two SANs and the empty entry |
| `shutdown` | do all orders of signals and failures end in an exit with the right status and no worker lost before the deadline? | 3 listeners, 1 call each, 2 workers |
| `zone_reparent`, `repeated_cancel`, `one_create_wins`, `early_signal` | counterexamples to statements of the documentation (section 6) | 2 regions, 2 zones and 5 transactions for `zone_reparent`, otherwise as above |

`CHECK_DEADLOCK FALSE` is set where the instance's operations are all used up, a start has ended, or
the process has gone down, and nothing more can happen; `operation_service`, `pagination` and
`shutdown` are checked for deadlock.

`service_grace` assumes `GraceCoversWorkers` (an operation does not become older than the grace
period while its worker lives). The constant in `recovery.go` was chosen for this, but nothing
enforces it, so `service_crash` does without, and of the theorems only the two about
`LoneCreateIsTruthful` and `LateEffectMeansCancelled` use it. Both are false without it: dropping the
assumption is their mutant.

The other bounds are small because the theorems of section 4 do not have them; the runs serve to
find mistakes in the statements before they are proved and to show, by the mutants, that each can
fail.

Fairness.

* `GeoService` (`FairSpec`, `service_crash`): a queued worker is scheduled and reports (Go scheduler;
  `dberr` and the pool turn a broken database into an error), time passes, the supervisor restarts
  the process, and the periodic sweep reads and settles orphans. No fairness on requests, Cancel,
  failures or crashes; each worker may vanish.
* `CatalogTx`: a statement that is not waiting is executed and the worker goes on to the next one.
  Nothing is assumed of waiting ones: that no wait lasts is what `EveryTxEnds` shows.
* `Admission`: grpc-go runs the chain, handlers return, deadlines are kept and time passes.
  kacho-iam need not answer and nobody need call.
* `Pagination`: the client asks for the next page; writers are unconstrained.
* `Shutdown`: goroutines are scheduled, handlers return, statements end, and the drain deadline
  passes; nothing says that a worker ever finishes. That handlers return is an assumption:
  `GracefulStop` has no deadline in `serve.go`, so a handler that hangs would keep the process from
  exiting.

Every property of a run has a mutant: a definition of the model changed as a plausible bug would
change the code, defined beside the original, under which TLC finds the property violated.

## 4. Proofs

For all values of the constants, from the assumptions named in the modules (sentinels are not rows
or codes; requests are commands; the configurations of `Admission` are accepted ones, which
`ReadyWhenServing` proves of every process that serves; `GraceCoversWorkers` may be either unless a
theorem assumes it). Every safety property the runs check is proved. So are the type invariants and
properties without a run of their own: `DefensiveBranchUnused`, `CreatesAreSeparated`,
`SuccessIsOwn`, and those that the proof modules define beside their theorems.

How the modules fit together is proved too. `CatalogSpec` and `TableSpec` are the abstract
specifications of the two halves of the database:

    CatalogTx (transactions, locks)      => CatalogSpec   TransactionsImplementCatalog
    GeoService (workers, crashes, sweep) => CatalogSpec   GeoServiceProofs!ServiceIsACatalog
    GeoService                           => TableSpec     GeoServiceProofs!ServiceIsATable
    OperationService (Get, Cancel)       => TableSpec     OperationServiceProofs!ServiceIsATable
    GeoService                           => KeepsLifecycle

So `GeoService` may use one-step writers, because interleaved transactions do nothing that those do
not; and `OperationService` may let operations settle at any moment, because the service settles them
by the same statements.

* `CatalogProofs`: `CatalogSpec` keeps `CatalogTypeOK`, `ReferentialIntegrity`,
  `OutboxReflectsCatalog`, `TrailIsALife` and `CreatesAreSeparated`; `WritersAnswerOnce` says that a
  writer, in any state, commits or has exactly one code to fail with. The inductive invariant `CatalogInv` adds
  `DeletesCarryNoRow`: `TrailIsALife` speaks of event types and `OutboxReflectsCatalog` of rows, and
  a Create is admissible when there is no row; the link is that exactly the DELETED events carry
  none. The lemmas are about one `Commit`, so they serve `GeoService` unchanged.
* `CatalogTxProofs`: `TxSpec => CatalogSpec`, `NoWaitCycle`, `RefusalsAreTrue`,
  `SequenceOrdersEachResource` and `ReplayKeepsReferences`, for any number of transactions. `TxInv`
  says what each lock protects: under its lock a row stays what the statement found
  (`LockedRowStands`), a region checked by a zone writer stays and nobody deletes it
  (`LockedParentStands`), a region that has passed the check of its Delete has no zone and gets none
  (`RestrictedIsEmpty`). From it follow that a commit is the one step of `Catalog`, and that waits
  form no cycle: only a zone writer waits for a region Delete, a region Delete for a zone Delete, and
  that one for nobody. `RefusalInv` carries the history `could`; `NumberInv` says that a number drawn
  under a row's lock is above those of the row's events. For the replay by number, `DependencyInv`
  says of committed events and of drawn numbers alike that a zone's event comes after its region's
  and a region's DELETED after the event by which the zone left; the locks of `TxInv` keep out the
  commits that would break it between the draw and the COMMIT. `NoStandstill` goes beyond the absence
  of circles: no stage is a dead end (`StuckIsBlocked`), a chain of waits has at most three links
  (`WaitsEndSoon`, since a waiting statement holds no lock), so its end may proceed. `AccountInv`
  accounts for every `sequence_no` drawn (`SequenceIsAccountedFor`: a gap that outlasts the open
  transactions stands for no event) and ties each commit to its event (`CommitsAreWritten`).
  `UpdatesLoseNothing` is `OmittedFieldsKept` for any number of transactions: the version an update
  commits was computed from the row its lock has kept still (`LockedUpdateKeeps`), and that row is the
  previous event's (`LastEventIsStored`, from `OutboxReflectsCatalog`).
* `OperationServiceProofs`: `ServiceSpec` keeps `ExactlyOneResult`, `StrangersLearnNothing`,
  `ToldStaysTrue` and the action properties `SettledForever`, `RefusedWhenFinished` and
  `CallsTouchOwnRows`. The invariants with the types and `OkNamesAnOperation` (no OK without an
  operation) are inductive. Every step lets each row evolve in one of three ways (created, settled, left alone: `Evolves`); a reply that was honest
  stays honest under all three (`HonestStaysHonest`), and new replies are honest when given
  (`AnswersAreHonest`).
* `GeoServiceProofs`: `Spec` keeps `TypeOK`, `AtMostOneEffect`, `RefusedLeavesNoTrace`
  and all of the catalog's invariants. `GeoInv` is `BaseInv` (types and
  `CatalogInv`) with `EffectInv`, which says where an effect can still come from: an operation whose
  worker is queued has no event yet; a worker that holds a refusal has written nothing; a verdict
  is never a refusal; every event belongs to an operation row. On it rest
  - the refinement `Spec => KeepsLifecycle`: each step is one step of `OperationLifecycle` or a
    stutter (`StepsAreLifecycleSteps`);
  - `SuccessIsWitnessed`, by `WitnessInv`: whatever carries a response (row, worker, verdict) carries
    one that the trail, which only grows, vouches for;
  - `TimelyCreateWins` and `SuccessIsOwn`, by `OwnInv`: a worker that reports success has its event in the
    trail, only an expired operation gets a verdict, so a success that is not expired is the worker's
    own. With `CreatesAreSeparated`, two successes mean two CREATED events, and a
    DELETED between them. The theorem needs neither `GraceCoversWorkers` nor an absence of crashes;
    it is the boundary of the finding `one_create_wins`;
  - `Spec => CatalogSpec` and `Spec => TableSpec` (`CatalogSteps`, `SettlingIsATableStep`), and
    from the latter and `DecidedInv` (nobody comes to the terminal write with no outcome or with two)
    `ExactlyOneResult` and `SettledForever` for the whole service;
  - `LateEffectMeansCancelled` under `GraceCoversWorkers`, by `LateInv`: an operation whose worker is
    alive is not in the reconciler's hands, so only Cancel can have settled it;
  - `LoneCreateIsTruthful` under `GraceCoversWorkers`, by `LoneInv`: whatever carries an outcome of a
    Create that is alone on its resource carries a true one. A verdict is true when read, because
    every event about the resource is then the operation's own (`EventsFit`: each event says what its
    operation was asked to do), and stays true because its worker is dead.
* `PaginationProofs`: `Spec` keeps `TypeOK`, `DeliveredOnce`, `NothingSkipped` and
  `TokenPromisesMore`, for any number of ids and any page sizes. `WalkInv` adds that nothing ahead of
  the cursor has been delivered. The step is `PageIsComplete`: a page is everything above the cursor
  up to its token, or everything. It rests on lemmas about `LIMIT` (closed downwards, bounded, short
  means whole) and on the existence of least and greatest ids, from the library's well-foundedness of
  finite sets. The same lemmas give `WalksAdvance` (every page moves the cursor up: a walk has
  no more pages than there are ids, whatever is inserted), `PagesInOrder` and `PagesAreFull`.
* `StartupProofs`: `ServesGuarded`, `NothingLeftOpen`, `DefensiveBranchUnused`, for any set of SANs.
  `StartInv` says which checks have been passed and which resources are held at each step. The one
  resource a refused start leaves is the LRO dispatcher (`operations.Start`): no call in `src/` stops
  it, it ends with the process, and `NothingLeftOpen` says so.
  `ReadyWhenServing` is what the other two modules start from: `Admission` that the configuration is
  an accepted one, `Shutdown` that there are a pool, two listeners and a third one if configured.
* `AdmissionProofs`: `EntryIsWarranted`, `DeniedForCause`, `UsersSpeakThroughForwarders`,
  `BootstrapOwnsNothing` and `PanicsContained`, for any number of calls, users and configurations and
  any `TTL` and `CheckTimeout`. The invariant bounds ages: a cached pair was granted no longer ago
  than `CheckTimeout` plus the part of `TTL` already used, a pending "yes" no longer than the part of
  `CheckTimeout` already used; the sum is the bound in `EntryIsWarranted`. `OneDecision`: the interceptor passes,
  denies or checks a call, and never has a choice. `CallsAdvance`: a call and its Check only go
  forward, and the handler runs for the principal and the RPC the Check was about.
* `ShutdownProofs`: `ExitTellsWhy`, `NobodyStartsLate` and `NoWorkerLost`, for any number of workers
  and calls. `ShutdownInv` ties the phases of the goroutines to one another: what each has received
  the other has sent, and the drain begins after every handler has returned. `StopIsNeverStuck`: once the
  process has been told to stop, one of the steps that `Fairness` promises is possible until it has
  exited, so the three goroutines do not wait for one another, nor for a worker or a caller.
  `StopIsMonotone`: no step undoes another; what a stop waits for only becomes fewer.

Only model-checked: liveness (`EveryOperationSettles`, `EveryTxEnds`, `CallsAnswered`, `WalkEnds`,
`StopEnds`), which is out of the prover's reach. The safety part of four of them is proved, for all
values: that a possible step exists (`NoStandstill`, `OneDecision`, `StopIsNeverStuck`) and that steps
lead forward (`CallsAdvance`, `StopIsMonotone`, `WalksAdvance`). What is left to TLC is the step from
there to "eventually", and all of `EveryOperationSettles`.

## 5. Not modelled

* `Get` of regions and zones: one read, no state.
* The worker pool's queue and retry schedule, the reconciler's batching and locks, the interior of
  the interceptors: kacho-corelib. The models allow every outcome of them that `src/` and its tests
  describe.
* kacho-iam beyond "a pair is granted or not": its relations and their inheritance.
* A whole process life, from `Startup` through `Shutdown` and back, in one module: a crash at any
  point, with restart and recovery, is in `GeoService`; how a start can fail is in `Startup`.
* Metrics, migrator, protobuf projection: counters, a goose wrapper and field copies, no behaviour a
  state model adds to. The migrations are modelled by the schema they leave, not as steps; their
  Down sections are not modelled.
* TLS handshakes: a listener with mTLS has verified its peer, and gives its SAN.

## 6. Findings

Shown by runs:

* **`zone_reparent`.** `docs-site/docs/api/zone.mdx` calls a zone's `regionId` immutable; Update moves
  a zone (`known-divergences.md` section 9 says so).
* **`repeated_cancel`.** `operations.mdx` announces FAILED_PRECONDITION for a second Cancel; the code
  returns the cancelled operation again. The trace is a mutation, its Cancel, answered OK, and the
  same caller's second Cancel, answered OK.
* **`one_create_wins`.** Exactly one Create of an id should win. After a crash between the operation
  row and the insert, the reconciler sees the row of a second Create and reports the first one
  successful too. The theorem `OneTimelyCreateWins` says when that cannot happen: if both operations
  settled before they were older than the grace period, however many others crashed or were
  reconciled.
* **`early_signal`.** A signal during startup lets `GracefulStop` overtake `Serve` of the public
  listener, which then returns `ErrServerStopped`; the internal path treats that as a clean stop, the
  public path exits with an error.

Disagreements of documents with the code met while modelling, visible by reading both:

* The sample configuration in `docs-site/docs/install/configuration.mdx` (`production-strict`) names
  no trusted forwarder, and `validateSecurityConfig` refuses it. Its tip says that the password alone
  starts a `dev` process; the default mode is `production` (`config.go:55`), which refuses
  `sslmode=disable`, the other default. `known-divergences.md` section 6 still describes `dev` as the
  default.
* `serve.go:342-345` and `config.go:31-32` say that production requires an encrypted connection to
  the database (`require|verify-ca|verify-full`); `validateAuthMode` accepts `allow` and `prefer` in
  mode `production`.
* `known-divergences.md` section 5 says that the interceptor runs without a cache ("cache-TTL 0");
  `check/factory.go:47-64` builds it with the 5 s default. `EntryIsWarranted` gives the resulting
  bound: an answer may be used for the cache's TTL after a Check that itself took up to its deadline,
  so a revocation takes effect after the sum of both, not after the TTL alone.

## 7. Plan

Done: all modules and theorems above. Left, in order of value:

1. Batching of the sweep and the worker pool with its backlog, if kacho-corelib's sources are at hand:
   `GeoService` then becomes the abstract specification of that module.
2. `GeoService` composed with `Shutdown` and `Startup` as one process life, for the claim that an
   operation left by a drain that ran out is settled by the next process. Both halves are checked on
   their own (`NoWorkerLost` and `EveryOperationSettles`), and `ReadyWhenServing` joins `Startup` to
   `Shutdown`.
