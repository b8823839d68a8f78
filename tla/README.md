# A verification of the Fides ledger

Fides is a double-entry ledger: a gRPC service on PostgreSQL with an in-memory
cache of balances. A transfer is *authorized* (its entries are pending) and
later *captured* (posted) or *voided*. This directory models the service, the
process around it and its load generator in TLA+, checks them with TLC on small
instances, and proves most of the safety properties, for every instance, with
TLAPS.

Paths in this file are relative to the repository; `ledger.rs` is
`fides-server/src/service/ledger.rs`, `server.rs`, `health.rs`, `config.rs` and
`main.rs` are in `fides-server/src`, `postgres.rs` and `cache.rs` in
`fides-server/src/storage`.

## The system

| Part | State | Operations | What is hard about it | What makes it correct |
|---|---|---|---|---|
| Ledger service (`ledger.rs`) | none of its own; a handler per request | `authorize`, `capture`, `void`, `create_account` | handlers interleave at every await; clients go away; statements fail | one operation is one atomic change of the tables; a key moves money once; every request is answered |
| Read-only calls (`ledger.rs`) | a task and a channel per stream | `get_account`, `get_balance`, `get_entries` | settlements commit while a stream goes out; a client stops reading | a stream is one consistent state; nobody waits for a slow reader |
| Storage (`postgres.rs`, `migrations/`) | `accounts`, `transactions`, `entries` | `SELECT ... FOR UPDATE`, guarded `UPDATE`, `INSERT` with a unique key | row locks, a version column, READ COMMITTED reads, integer columns | locks are taken in one order; the version guard never fires under the lock; values stay in range |
| Cache (`cache.rs`) | account id -> posted, pending | `get`, `apply_delta`, `set`, `rehydrate` | updated after the commit, without a lock, account by account | it differs from the database only by what is in flight |
| Domain (`fides-server/src/domain`) | none | validation, sign convention, deltas, recomputation | overflow in the middle of a sum | deltas and recomputed balances agree |
| Server (`main.rs`, `server.rs`, `health.rs`, `config.rs`) | phase of `main`, two servers, the pool | start, rehydrate, ready, drain, close, exit | signals, probes and kills at any point; tasks that fail; a drain that times out | ready means serving; a drain loses no request; no database transaction is cut; every shutdown ends |
| Integrity checker (`observability/integrity.rs`) | gauges | three periodic checks | its reads are not atomic | it reports what is really wrong |
| Load generator (`fides-load/src/main.rs`) | statistics, one worker per connection | set-up, a mix of transfers, report | answers get lost | settlements never compete; the report agrees with the book |

The parts meet in the handler. It takes a connection of the pool, reads and
locks rows, consults the cache for funds, writes rows, commits, and only then
changes the cache. The read-only calls, the readiness probe and the checker take
connections of the same pool, and the shutdown waits for all of them. The
hazards of `PROJECT.json` are the places where such steps of two actors, a lost
answer, a timeout or a crash can meet.

## Modules

| Module | Models |
|---|---|
| `Domain` | the pure rules, with i64 as the constant `MaxI64` |
| `Ledger` | the service, the storage and the cache, one process per request |
| `Readers` | the read-only calls beside the handlers of `Ledger`, on one pool |
| `Server` | configuration, start-up, readiness and shutdown around `Readers` |
| `IntegrityChecker` | the background checker beside the handlers of `Ledger` |
| `AtomicLedger` | the promise: every operation happens at once |
| `LedgerRefinement` | the committed tables of `Ledger` read as an `AtomicLedger` |
| `Load` | the load generator as a client of `AtomicLedger` |
| `MCLedger`, `MCDomain`, `MCChecker`, `MCReaders`, `MCServer`, `MCLoad` | the small instances TLC checks |
| `LedgerInvariant`, `LedgerProofs` | the inductive invariant of `Ledger`, one lemma per action, and its theorems |
| `SettlementProofs` | what holds when a transaction is settled by one call at a time |
| `RefinementProofs` | `Ledger` implements `AtomicLedger` |
| `ServerProofs` | readiness and shutdown |

### Ledger

A request `h` is a handler with a program counter `pc[h]`. The database is
`accounts`, `transactions` (a row with its entries) and `nextAccountId`, all
committed. `seen[h]` are the rows `h` holds FOR UPDATE with the version it
read, `dirty[h]` the rows it has written and not committed, `unapplied[h]` the
accounts whose committed delta it has not put into the cache.

| Action | Code |
|---|---|
| `Receive` | everything before the first await: argument checks, `parse_transfer_legs`, `validate_transaction_balance` |
| `Begin` | `storage.begin()`: a connection of the pool |
| `FindTransactionByKey` | the idempotency lookup of `authorize` and its replay |
| `GetTransaction` | the status test of `capture` and `void`, and the read of the entries |
| `LockAccount` | one turn of the lock loop |
| `CheckFunds` | the funds check of one leg, against the cache |
| `CreateTransaction` | `INSERT INTO transactions` and the entries |
| `UpdateAccountBalance` | one guarded `UPDATE accounts` |
| `InsertAccount` | `INSERT INTO accounts` |
| `Commit` | the database executes COMMIT |
| `ApplyDelta`, `SetCache` | the cache after the commit, then the reply |
| `Cancel`, `DatabaseError`, `PoolTimeout`, `Crash`, `Restart` | what may go wrong |

What is abstracted:

- An error return and the rollback it causes are one step, and so is a crash
  and the rollback of what was open. In reality a rollback takes a moment and
  holds its locks for that long, which only delays other handlers.
- A transaction's entries have one status, because one statement updates all
  of them, and its id is the request that created it. Entries are read in the
  order of the legs (`ORDER BY id`).
- The read of a transaction and of its entries are one step; the entries'
  accounts and amounts never change.
- The statements that write the transaction, its entries and their status take
  effect in `Commit`. Until then they are visible to nobody; what others can
  feel of them, the reserved key, is `KeyIsReserved`. The row lock that a
  status update takes on the transaction is covered by the account locks the
  handler already holds, which are the same for everybody who settles it.
- Of the timestamps only the presence of `posted_at` is kept, which
  `Transaction::new` tests when a row is read back (`Readable`). Metadata is a
  flag that says whether it parses. A text too long for its column is one of the
  causes of `DatabaseError`.

A handler can be stopped only at an await. There is none in the cache loop, so
only a crash ends a handler there; dropping a handler between the execution of
COMMIT and its resumption is `Cancel` or `DatabaseError` at `"committed"`. At
`"commit"` the two actions stand for a COMMIT that is never executed (see the end
of this file for what this leaves out).

### Readers

`at[r]` is the place of a read-only call. `Ask` is everything before the first
await, and all of `get_balance`, which has no await. `BeginRead`,
`get_account`, `ReadEntries` and `CommitRead` are the awaits of the other two;
the two statements of `get_entries` see two committed states. After its commit
a `get_entries` is a stream: `SendEntry` is a turn of the spawned task, blocked
while the channel has `StreamCapacity` entries (32 in the code), `ReceiveEntry`
and `EndOfStream` are the client, `HangUp` is a client that goes away and
`StopSending` the `send` that fails for it. A stream is a set of entries: their
order is that of ids the model does not have. `SharedStep` runs the handlers of
`Ledger` on the pool that both share.

### Server

`phase` is where `main` is: `LoadConfig` (`AppConfig::load` and `validate`, with
the precedence of the four sources), `connect_db`, `run_migrations`,
`rehydrate`, `bind_http`, `bind_grpc`, then `Signal`, `JoinHttp`, `JoinGrpc` or
`DrainTimeout`, `PoolClose` and `Exit`; `StartFails` is the `?` of every step of
the start-up and `Kill` the end without a shutdown. The two servers
(`NoticeHttp`, `NoticeGrpc`, `EndHttp`, `EndGrpc`), the probe (`ready`,
`ReadyQuery`) and the checker's loop (`CheckerLoop`) are tasks that see the
shutdown signal in their own time. `HttpFails` and `GrpcFails` are a server's
task that ends by itself, with an error or a panic (the other two arms of the
matches at `server.rs`:59 and 64): what it accepted is served by tasks of its
own and goes on, and `drain()` takes the task for ended. The probe waits for a
connection and holds it for its `SELECT 1`; `probed` is a history variable, where
`main` was when the probe under way arrived. `InUse` counts everybody's
connections, the probe's and the checker's included.
`Arrive`, `Handle`, `ArriveRead`, `HandleRead` and `ClientRead` are the calls of
`Ledger` and `Readers` on this server: they arrive only while it accepts and get
a connection only while the pool is open. After a drain timeout the handlers go
on (dropping a `JoinHandle` detaches its task) until the pool is empty and
`main` returns. A migration changes the schema and not the rows. The faults here
are a kill, an acquire that takes too long, a failing query of the probe and a
task that fails; cancellations and errors of the handlers are in `Ledger` and
`Readers`.

### IntegrityChecker

The module extends `Ledger` with the checker's task: `Tick`, the two checks of
the tables, each one statement (`check_global_balance`,
`check_account_balances`), and the cache check in its parts: `ReadRows`, one
`CopyEntry` per cached account, since `DashMap` is not locked as a whole, and
`CompareCache`. A query needs a free connection at the moment it runs. When it
fails (`QueryFails`), the gauge keeps its value. A crash kills the task and
clears the gauges. The second pass over the cache looks at keys only and is
part of `CompareCache`. Time is left out: a tick may come whenever the loop is
ready for it. What the loop does at a shutdown is in `Server`.

### Load

`main` sets accounts up (`SetUp`, `SetUpAnswered`: an error ends it), spawns the
workers, raises the stop flag, joins and reports. A worker's loop is `Roll` (an
operation begins), `Authorized`, `Settled`, `Retried`, `Counted` and `Leave`.
The service is `AtomicLedger` with the funds check and the status codes of
`service/mod.rs`: a call takes effect at once, or is refused, and its answer may
be replaced by an error that says nothing. That the service may be taken for
`AtomicLedger` is what `RefinementProofs` shows, on the condition that no
transaction is settled twice at the same time; `SettlementsNeverCompete` is the
load generator's side of this condition.

## Runs

The instances of `MCLedger` start on two accounts, an asset with two units
posted and an equity account, with one posted deposit and one pending
withdrawal of one unit; `concurrent` has more funds and a third account whose
version is at its limit. Two accounts are what a lock cycle needs, three
requests what a third party needs to come between two, and a request can settle
what an earlier one authorized. Deposits and withdrawals name the accounts in
opposite orders. One transfer has two legs on one account. `readers` and `server`
start with one pending deposit of one unit and nothing else, `checker` on an
expense and an equity account.

| Run | Checks | Shows |
|---|---|---|
| `concurrent` | `TypeOK`, `NoVersionConflict`, `NoCircularWait`, `OneTransactionPerKey`, `RowsStayReadable`, `GlobalBalance`, `TrialBalance`, `CacheLagsOnlyInFlight` | any three requests on two connections, with crashes, acquire timeouts, calls that are refused in every way and updates that overflow their column; two requests may settle one transaction at once |
| `faulty` | `Reconciled`, `SettlementHolds`, `TerminalIsFinal`, `ImplementsAtomicLedger` | with cancellations, database errors, lost acknowledgements and crashes the tables still are an atomic ledger |
| `readers` | `StreamAddsUp`, `AnsweredWritesAreRead`, `EveryCallAnswered`, `QueriesAnswered`, `StreamsEnd` | two read-only calls and a request on one connection, with every fault: streams are consistent and have what was answered before, and all calls are answered although a client may stop reading |
| `server` | `GracefulDrain`, `NoTransactionIsCut`, `CacheLagsOnlyInFlight`, `ReadyMeansServing`, `ShutdownCompletes` | two starts of the process, with refused configurations, failing start-ups, signals, kills and servers whose task fails, around a request, a stream, a probe and the checker on one connection |
| `load` | `SettlementsNeverCompete`, `ReportMatchesBook`, `LoadEnds` | two workers with three operations between them, with lost answers |
| `domain` | `ValidationIsExact`, `DeltasNeverOverflow`, `RecomputationAgrees` | the operators against reference definitions on all lists of up to four entries |
| `checker` | `TableAlarmsAreReal`, `GaugesBecomeAccurate`, `EveryCallAnswered` | what the gauges report, with double captures, lost commits, failing queries and crashes, and that requests waiting for each other's rows are answered |

Bounds, and why they are enough:

- `MaxI64` is 100 where limits are not the subject. In `concurrent` it is 11,
  so that a capture of eight units does not fit the posted balance, and an
  account stands at the last version of `MaxI32`. In `domain` it is 2: four legs
  are what it takes for two equal sides to leave the range.
- `MaxConnections` is 2 in `concurrent`, `faulty` and `checker`, where handlers
  wait for each other's rows, and 1 in `readers` and `server` (there from the
  configuration), where everybody waits for the one connection: a stream that
  kept its connection while its client does not read would stop the others for
  good, and does in the mutant of `QueriesAnswered`.
- `StreamCapacity` is 1 (32 in the code) with up to two entries to send: the
  channel is full after the first. The task and the channel meet only in full,
  empty and neither, so the size does not matter to these properties.
- `MaxStarts = 2` is what it takes for a shutdown or a kill to be followed by a
  start on what it left behind.
- `MaxRolls = 3` lets one worker capture and retry while the other one acts.
- In `checker` the first account is an expense account, so that the checker's
  own list of debit-normal types matters.
- Requests are symmetric in the runs that check no liveness, where symmetry is
  sound.
- `server`, `readers` and `load` may stop (nobody starts the process again, no
  more calls arrive), so they do not check for deadlock; their liveness
  properties say what must not get stuck.

Assumptions of these runs that a reader should know:

- `faulty` and `readers` set `ConcurrentSettlement = FALSE`: clients do not
  capture or void one transaction twice *at the same time* (again later, after
  an unknown outcome, they do). The code needs this from its clients, as
  `double_capture` shows. "At the same time" means until the earlier call is
  decided in the database. A client whose call ended without an answer cannot see
  that moment, so the condition is stronger than what a client can keep by
  waiting for its own answers.
- `concurrent` and `server` have no cancellations or database errors, and nobody
  uses an account that is still being created. Without these assumptions
  `CacheLagsOnlyInFlight` fails, as `lost_commit` and `new_account` show.
- `CacheLagsOnlyInFlight` also needs distance from the limits of i64. The cache
  saturates (`cache.rs`:51) where the database refuses. Two deltas that reach
  the cache in another order than the row can saturate it although the row
  itself never leaves the range, and then it stays wrong until the next start.
  TLC finds this on the instance of `faulty` with `Faults = {}` and
  `MaxI64 = 2`, where a deposit is cached before the withdrawal that made room
  for it; with `MaxI64 = 100` the invariant holds there. The documentation says
  nothing about the cache at these limits, so this is no run of its own.

Fairness:

- Handlers (`readers`, `checker`, `server`): weak fairness of each handler's own
  steps, since the executor polls every future that was woken and the database
  executes every statement that is not waiting for a lock. Weak fairness
  suffices because a request takes each row at most once, so a waiter among
  finitely many requests is overtaken only finitely often. PostgreSQL queues
  the waiters of a row, which is a stronger guarantee.
- `readers`: also of the sending tasks, and of `Restart`, since a stopped server
  is started again. Nothing is assumed of clients, except in `StreamsEnd`, whose
  statement is about a client that goes on reading.
- `server`: of `main`, of the servers' tasks, of the probe's query, of the
  checker's loop and of the timers, each polled by the runtime. Nothing is
  assumed of clients, signals or whoever starts the process. A statement that
  never returns would hold `pool.close()` for ever: that every statement ends is
  an assumption on the database.
- `checker`: weak fairness of its task, and strong fairness of each query, that
  is, a query tried again and again finds a connection and succeeds now and
  then. `GaugesBecomeAccurate` is about runs in which the server stays up from
  some point on.
- `load`: of `main`, of each worker, and of the service's answers. The client
  sets no timeout, so that a call it makes comes back is an assumption on the
  service and the network.

### Where the code and its documentation differ

Each of these runs checks one statement of the documentation, and TLC finds a
behaviour of the code that contradicts it.

| Run | Statement | What happens |
|---|---|---|
| `double_capture` | "Concurrent mutations can't corrupt state" (README.md:30) | two captures read `Pending` before either locks; the second one posts the amount again |
| `concurrent_retry` | "Return existing transaction" (README.md:107) | an overlapping retry gets `DuplicateTransaction` |
| `holds` | "Funds are reserved" (README.md:79) | a pending withdrawal makes `pending` negative, and `posted - pending` grows |
| `lost_commit` | "microsecond staleness window" (`cache.rs`:15) | a handler dropped after COMMIT never updates the cache |
| `new_account` | "mirrors posted_balance and pending_balance" (`cache.rs`:14) | `create_account` resets the cache after an authorize used the account |

More observations. A comment in `fides-server/tests/grpc_integration.rs`:458
expects that "some may hit version conflicts"; `NoVersionConflict` shows that
they cannot, because the version is read under the row lock. And
`create_account` casts the requested scale with `as u8` before it tests the
range (`ledger.rs`:48), so that 258 is accepted as 2. `/ready` is to "fail immediately
during shutdown" (`health.rs`:42), and it does for every probe that arrives after
the signal; a probe that was let in before and waits for the database still gets
its OK, and `ReadyMeansServing` allows exactly that. And a gRPC server whose task
has died by itself is not noticed by anybody: `/ready` goes on saying OK, and
`drain()` closes the pool although its calls may still be under way, which is
the exception in `GracefulDrain`.

## Proofs

Checked by TLAPS for every set of requests, calls, readers and configurations,
every subset of the faults, every opening database that satisfies the
assumptions of `Ledger`, every integer width and every size of the pool:

| Module | Theorem | States |
|---|---|---|
| `LedgerProofs` | `Invariance` | `Spec => []IInv` |
| | `TypeCorrectness` | `TypeOK` always holds |
| | `VersionGuardNeverFires` | `NoVersionConflict` always holds |
| | `KeysAreUnique` | `OneTransactionPerKey` always holds |
| | `NoDeadlock` | `NoCircularWait` always holds |
| `SettlementProofs` | `RowsReadable` | `RowsStayReadable` always holds |
| | `SettlementsHold` | `SettlementHolds` always holds, if `~ConcurrentSettlement` |
| | `TerminalIsForEver` | `TerminalIsFinal`, if `~ConcurrentSettlement` |
| `RefinementProofs` | `ConcurrentLedgerIsAtomic` | `ImplementsAtomicLedger`, if `~ConcurrentSettlement` |
| `ServerProofs` | `DrainIsGraceful` | `GracefulDrain` always holds |
| | `NoTransactionCut` | `NoTransactionIsCut` always holds |
| | `ReadyIsServing` | `ReadyMeansServing` |

The assumptions are on the constants only. Requests and readers are finite in
number. Calls are well-formed messages. The opening accounts lie below the id
sequence and within their columns, and opening transactions have distinct keys
and can be read back.

**The ledger.** None of the properties of `LedgerProofs` is inductive. `IInv`
adds to them:

- `PhaseOfOperation`: a handler is only at labels of its own operation, with
  arguments that were accepted. Without it an update could meet legs that were
  never validated.
- `LockDiscipline`: row locks are exclusive, are released with the database
  transaction, cover the whole transfer once the loop is over, and the version
  read under a lock is the committed one. This is why the guard never fires.
- `UncommittedRows`: the rows a handler has written are rows it has locked, or a
  new account whose id nobody else has. So a commit cannot overwrite another
  handler's row or change the version of a row another handler holds.
- `LocksAscend`: every lock held is below every lock still needed.
- `KeyReservations`: an inserted key is neither committed nor inserted by
  anybody else, and a request's transaction is in the table from its commit on.

`LedgerInvariant` has one lemma per action. `NoDeadlock` takes a set of waiting
handlers: those waiting for a connection hold nothing and are waited for by
nobody; those waiting for a key wait for a handler that waits for nothing. If
all wait for rows, the one whose next row has the largest id waits for a
handler that holds that row and needs only larger ones, so it would wait for a
still larger row.

**Settlement.** `SettlesAlone` says that no two handlers in flight settle one
transaction, that a transaction is pending for as long as a handler past the
status test is settling it, and that it has its final status from the commit on
and after every Ok. Steps other than `Receive` and `Commit` are `Quiet`: they
change neither the tables nor the calls, and bring a handler past the status
test only if the transaction is pending. So only those two need an argument of
their own.

**Refinement.** `OwnRows` says what a handler is about to commit: its legs are
those of its request or of the transaction it settles, each row it has written
is the committed row plus its own delta (`UpdatedRow`), and at the commit it has
written all rows of the transfer, or one new account at zero. A commit of
another handler keeps this, because the written rows are disjoint
(`UncommittedRows`) and legs never change. With `SettlesAlone` and
`KeyReservations`, a commit is then one `Open`, `Hold` or `Settle` of
`AtomicLedger`, and every other step leaves its book alone.

**Server.** `ServerInv` relates `main`, the servers and the pool: the process
serves exactly from `bind_grpc` to its end; `accepting` is set only while it is
serving, so a probe under way arrived then; the gRPC server accepts until the
shutdown signal or until it fails; once it has ended everything is served, and
nothing is served afterwards because calls arrive only at a server that accepts;
the pool is closed before `main` waits for it, so a connection that came back is
never taken again. A failed server keeps its calls, which is why `GracefulDrain`
leaves it out and why `NoTransactionIsCut` needs the argument about the pool.

Only model-checked, because it is out of the prover's reach: the liveness
properties (`EveryCallAnswered`, `QueriesAnswered`, `StreamsEnd`,
`ShutdownCompletes`, `GaugesBecomeAccurate`, `LoadEnds`); the sums over all
accounts, entries or deltas, which need induction over folds (`GlobalBalance`,
`TrialBalance`, `Reconciled`, `CacheLagsOnlyInFlight`, `StreamAddsUp`,
`TableAlarmsAreReal`, `ReportMatchesBook` and the properties of `MCDomain`).
`AnsweredWritesAreRead` and `SettlementsNeverCompete` are model-checked and have
no proof.

## Not modelled

- Metrics, the task that publishes pool and cache sizes, the log and `/health`:
  no behaviour depends on them.
- The generated protocol code. The fields the handlers read are the calls and
  queries of the models.
- The printed report, the latencies and the weights of the operations of the
  load generator.
- `increment_account_version`, `get_account_balance` and `BalanceCache::remove`,
  which have no caller in the service, and the SMALLINT encodings of the storage
  other than the account type the checker reads.
- A COMMIT that is on its way to the database while its sender gives up. In the
  models a crash, a dropped handler or a failed statement and the rollback are
  one step, and a commit whose answer is lost is executed before the handler
  answers. In reality the backend may execute it after the next process has
  loaded its balances, or after the client has been told `Internal`; a client
  that settles the transaction again at that moment is the concurrent settlement
  of `double_capture`.
- A statement that never returns, and the time anything takes.
