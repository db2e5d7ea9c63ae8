# Verification of the exchange ledger platform

TLA+ models of the Go services in `src/`, the TLC configurations that check
them on small instances, and TLAPS proofs of their safety for every instance.
The code is the reference: every definition is translated from the lines that
`PROJECT.json` gives it under `map`.

## 1. The system

Clients call the **wallet** service (deposits), the **account** service
(registration) and the **ledger** service (double-entry postings). The wallet
calls the other two over gRPC. The ledger and the account service each have a
MySQL database with InnoDB tables at the default isolation, REPEATABLE READ.
There is no other shared state: between two calls the services keep nothing in
memory but their Prometheus counters, so everything that matters is in the tables,
in InnoDB's locks, and in the local variables of the handlers that are running.

| component | code | state it keeps | operations |
|---|---|---|---|
| ledger: postings | `internal/ledger/{validate,server,mysql_repository}.go` | `ledger_transactions`, `ledger_entries`, `ledger_balances` | `PostTransaction` |
| ledger: reads | the same | none | `GetTransaction`, `GetBalance`, `ListEntries` |
| account | `internal/account/` | `users`, `user_asset_accounts` | `CreateUser`, `GetUser`, `GetUserByEmail`, `GetLedgerAccountID` |
| wallet | `internal/wallet/server.go` | none | `Deposit` |
| process lifecycle | `cmd/{ledger,account,wallet}/main.go`, `internal/platform/grpc/health.go` | gRPC health statuses, the connection pool or the client connections | start, serve, watch the database, drain, close |
| interceptors | `internal/platform/grpc/{interceptors,server}.go` | none | recovery, logging, metrics, in a chain |
| observability | `internal/platform/observability` | Prometheus counters | counting, request ids |
| migrate | `cmd/migrate` | golang-migrate's own | schema up and down |
| gateway | `cmd/gateway` | none | a stub |
| protocol, deployment | `proto/`, `docker-compose.yml` | none | none |

What makes each of them hard, and what makes it correct:

* **Postings.** One call is a dozen statements in one database transaction,
  and any number of calls run them at once over overlapping accounts. Retries
  carry the same idempotency key; a statement may fail; the process may die; the
  acknowledgement of COMMIT may be lost; rows may not exist yet, in which case
  `SELECT ... FOR UPDATE` locks a gap and not a row. Correct means: a key is
  posted once; a transaction has all of its entries or none; the balance table
  is the sum of the entry table; no user balance is negative; an answer is true;
  every call is answered.
* **Reads.** A page cursor is an entry id, ids are allocated at INSERT and
  become visible at COMMIT. Correct means: paging skips and repeats nothing while
  postings go on, and a transaction is never read in part although it is read
  in two queries.
* **Account.** The user is created in a database transaction; the ledger
  account is linked afterwards, in two autocommit queries, and a crash in between
  is repaired by the caller's retry only. Correct means: a key or an email belongs
  to one user, and a caller told OK has a user that can be deposited to.
* **Wallet.** A deposit crosses two services with no deadline of its own, and
  a broken call leaves its outcome unknown. Correct means: a confirmed deposit
  is credited once, however often it was tried, and only linked users are
  credited.
* **Lifecycle.** The signal, the health watcher, the handlers and `run()` race.
  Correct means: neither the database nor a client connection is closed under a
  handler, the drain is visible to the probe, an outage and its end are published,
  a signal ends the process unless a client keeps a stream open, and a handler that
  panics takes no connection with it.
* **Interceptors and counters.** The repository counts what it did and the
  interceptor what was answered, at different moments, and a panic, a lost
  acknowledgement or a restart falls between them. Correct means: the counters
  agree with each other and with the tables, up to the calls that were cut off.

`PROJECT.json` lists each of these dangers under `hazards` at the line where it
bites, with the properties that would catch it going wrong.

## 2. The modules

| module | models | extends or instantiates |
|---|---|---|
| `LedgerDomain` | postings, int64 arithmetic, `Validate`, `CheckOverdraft`, the sorted order of pairs | |
| `Ledger` | `PostTransaction`, one action per SQL statement, and InnoDB's locks | `LedgerDomain` |
| `AtomicLedger` | what the ledger promises: a posting happens at one instant | `LedgerDomain` |
| `LedgerRefinement` | the mapping from `Ledger` to `AtomicLedger` | both |
| `LedgerInvariant` | the inductive invariant `IndInv` of `Ledger`, and the invariants about waits, `OrderInv` and `WaitInv` | `Ledger` |
| `LedgerReads` | `ListEntries` and `GetTransaction` beside the postings | `Ledger` |
| `LedgerTelemetry` | the interceptor chain and the counters around `PostTransaction`, panics and restarts | `Ledger` |
| `Accounts` | `CreateUser` and its link, one action per statement; the lookups | |
| `AccountRegistry` | what registration promises: a user is created, then linked, each at one instant | |
| `AccountsRefinement` | the mapping from `Accounts` to `AccountRegistry` | both |
| `AccountsInvariant` | the inductive invariant `RegistrationInv` | `AccountsRefinement` |
| `Wallet` | `Deposit`, over `AtomicLedger` and the account lookup | `AtomicLedger` |
| `WalletOnLedger` | `Deposit` over the handlers of `PostTransaction` | `LedgerRefinement`, `Wallet` |
| `Lifecycle` | `run()` of the three processes, the watcher, the handlers and what they need | |
| `LedgerProofs` | `IndInv` is inductive, and what follows from it; the lock order excludes cycles, the service never stands still, no call runs for ever | `LedgerInvariant`, `SumProofs` |
| `SumProofs` | what `SumFunction` adds up | |
| `LedgerRefinementProofs` | transactions are whole, balances are sums and sum to zero, the refinement holds | `LedgerProofs`, `LedgerRefinement` |
| `LedgerClientProofs` | the ledger's clients: transactions are read whole, pages are complete, deposits over the real handlers | `LedgerRefinementProofs`, `LedgerReads`, `WalletOnLedger`, `WalletProofs` |
| `LedgerTelemetryProofs` | the counters, and what panics and restarts leave intact | `LedgerTelemetry`, `LedgerRefinementProofs` |
| `AccountsProofs` | registration, and its refinement | `AccountsInvariant` |
| `WalletProofs` | deposits | `Wallet`, `SumProofs` |
| `LifecycleProofs` | start and shutdown, which goes on and ends | `Lifecycle` |
| `MC*` | instances for TLC; `MCRequests` has the requests two of them share | |

### Ledger

The state is what MySQL has committed (`transactions`, `entries`, `balance`,
`nextEntry`), what its lock manager knows (`lock`, `gaps`), what each open
database transaction has written (`pending`, `written`), and the local variables of
each handler (`pc`, `todo`, `index`, `balances`, `deltas`, named as in the code).
A step is one statement with the Go code up to the next:

| `pc` | code | actions |
|---|---|---|
| `new` | `Server.PostTransaction`, `Validate` | `Receive` |
| `begin` | `BeginTx`, a connection of the pool | `Begin` |
| `find` | `findByIdempotencyKey` | `Replay`, `NotPosted` |
| `lock` | the loop over the sorted pairs, `SELECT ... FOR UPDATE` | `SelectForUpdate`, `SelectMissing` |
| `insertRow` | `INSERT` of the missing balance row, which waits for the gap | `InsertBalanceRow` |
| `check` | `CheckOverdraft`, `INSERT` of the transaction | `RejectOverdraft`, `InsertTransaction`, `DuplicateKey` |
| `entries` | the loops over the postings: entries and deltas | `InsertEntry` |
| `update` | the loop over the sorted pairs, `UPDATE` | `UpdateBalance`, `UpdateOutOfRange` |
| `commit` | `COMMIT` | `Commit` |
| `reply` | the deferred calls and the answer | `Reply` |
| any | a statement fails; a cycle of waits is broken; the process dies | `Fail`, `DeadlockVictim`, `Crash` |

`Fail` at `reply` is the lost acknowledgement of a COMMIT that took effect. The
rollback that Go defers is part of every action that returns, never a step
of its own. A deadlock victim is any call in a cycle of waits, since InnoDB's
choice depends on weights the code does not control.

InnoDB is external: the module's header states what is assumed of it (row locks
and gap locks, gap locks that can be shared, insert intentions that wait
for them, unique checks that wait for an open insert, the next entry id handed out at
INSERT and never handed back). Data are abstracted: an account, an asset and a
key are small numbers or strings, a transaction is named by the call that
posts it. Integers keep their width: `Half` is half of `2^w`, and `Wrap` is Go's
wrapping addition, while MySQL's BIGINT refuses what does not fit.

### AtomicLedger and the refinement

`AtomicLedger` has no statements and no locks: a call is idle, busy or done,
and `Post` is one instant at which a new, balanced and covered request changes
the funds. `LedgerRefinement` maps a call's posting to its COMMIT; a refusal maps
to the overdraft check, made with all rows locked. The wallet is built on
`AtomicLedger`, which is sound because `Ledger` implements it: `ledger_safety` checks
that, and `HandlersImplementLedger` proves it.

### LedgerTelemetry

Each step of `Ledger` is taken with what it counts: a replay in `Replay`, a
posting after `COMMIT` has been acknowledged, a database error where `dbErr` is
called, which for the query of `findByIdempotencyKey` is twice. `stage` follows the
answer through the chain that `NewServer` builds (recovery outside logging outside
metrics): a handler that returns leaves its answer to `Intercept`, which counts it;
one that panics (`Panic`, possible at every statement) runs its deferred rollback
and is answered Internal by recovery, past the other two. It may have counted its
posting, its replay or its database error before: after each of these counts there is
code left to run, up to the end of the metrics interceptor. `Restart` is a crash
or an orderly end: the counters start from zero over tables that do not. The
histogram and the log lines are left out.

### Accounts and its registry

`Accounts` has a `pc` per call as `Ledger` does. A 1062 error is an
`AlreadyExists` whichever unique index raised it, as in the code. The lookups
(`GetUser`, `GetUserByEmail`, and `GetLedgerAccount` for `GetLedgerAccountID`) are operators,
and `OkMeansLinked` is stated with them: who is told OK finds the user by its id
and its email, and its ledger account.

`AccountRegistry` has no statements: `Create` and `Link` are one instant each,
`Acknowledge` needs both to be true. A call that finds the mapping inserted by
another one between its own two queries is answered Internal, which the registry
allows: a retry repairs it.

### Wallet

`Wallet` keeps a `pc` per deposit beside the state of the atomic ledger, and lets
any downstream call break at any moment, which covers every deadline and
cancellation a client may set. The ledger may post after the wallet has given up;
the ledger or the wallet may die at any step.
A deposit with an empty key or `user_id` (the user `None`) or without a positive
amount is refused by `Receive` (`ValidDeposits`).

`WalletOnLedger` puts the handlers of `Ledger` in the place of the atomic ledger: a
step is one of `Deposit`'s own (`WalletStep`), the request's arrival in
`PostTransaction` (`CallLedger`), or a statement, failure or crash there
(`LedgerStep`). What a deposit asks for is the request `DepositRequests` allows, and
what `Wallet` sees of the ledger is the mapping of `LedgerRefinement`.

### Lifecycle

`process` says whose `run()` it is; `LedgerRun`, `AccountRun` and `WalletRun` are
the steps of the three in the order of the code, the deferred calls last. `main` is
the step that comes next, `watcher` is where `WatchHealth` is (the wallet has none),
`status` is what the health server reports for the empty name and the process's
own. A handler needs a connection of the pool or, in the wallet, the two client
connections; it may panic. The watcher's ping needs a connection of the same pool
(`PingConnects`), which counts in `InUse`; if it gets none or no answer in time it fails
(`PingFails`). `NewServer` also registers the health and reflection services, whose
streams need no connection and last until their clients end them (`OpenStream`,
`CloseStream`): nothing in the code does. An error in `run()` jumps to the deferred
calls, which close what the handlers use.

## 3. The runs

| run | question | what it shows |
|---|---|---|
| `ledger_safety` | three concurrent postings with shared keys, overdrafts, overflow, failures, crashes | tables consistent, no money made or lost, answers true, no standstill, no call runs for ever, the refinement holds, `IndInv` is an invariant |
| `ledger_live` | two deposits over the same missing rows in opposite orders and a retry, two connections for three calls, panics and restarts | no wait lasts: every call is answered; the counters agree with the answers and the tables, and each is the number of calls it stands for (`CountersMatchAnswers`) |
| `ledger_reads` | a client pages and another reads a transaction while three calls post | nothing skipped, nothing read in part |
| `accounts` | three registrations and retries, two keys, two emails, two connections | uniqueness, OK means linked, no standstill, every call answered, the registry is implemented, `RegistrationInv` is an invariant |
| `wallet` | three deposit attempts over the atomic ledger | confirmed deposits are credited once, to linked users, and every attempt is answered |
| `lifecycle` | each of the three processes from its first connection to its last deferred call | safe shutdown, which only a stream kept open can hold up, health published, no RPC waits for ever |
| `ledger_debited_twice` | violation of `NoOverdraft` | finding 1 |
| `ledger_credits_only` | violation of `PostingsSumToZero` | finding 2 |
| `ledger_gap_locks` | violation of `NoDeadlock` | finding 3 |
| `ledger_retry` | violation of `PostedKeyIsReplayed` | finding 4 |
| `accounts_email` | violation of `EmailTakenByAnother` | finding 5 |
| `wallet_shared_key` | violation of `ConfirmedDepositIsPosted`, over the handlers of both services | finding 6 |

TLC's own deadlock check says little about the services, since a statement may always
fail and a call may always crash: `NoStandstill` asks that a call can go on (`CanGoOn`)
without a failure, or is on a cycle of waits that InnoDB breaks. `CanGoOn` lists the
guards of the statements, because the prover has no ENABLED.

`StatementsRunOut` excludes the other way not to end. `StatementsLeft` is what a call
still sends at most: BEGIN, the lookup, a SELECT, perhaps an INSERT, and an UPDATE for
each pair, the transaction's row, one entry for each posting, COMMIT, and the answer.
Each step of the ledger takes a statement from some call and adds one to none that has
started: no failure, deadlock victim or crash makes a handler start over in place.

Each property of a passing run has a mutant in `PROJECT.json`: a plausible bug in a
modelled definition (a dropped sort, an addition that overwrites, an insert
without its transaction, a duplicate that is not linked) under which TLC finds that
property violated.

**Bounds.** Three calls: a race needs two, and the third is the retry, the
observer, or the one that closes a cycle. Accounts 0, 1, 2: the exempt
`external:deposits` and two users, so that payments can cross and gaps can be
adjacent; five accounts where four credits must sum to `2^w`, and two in
`ledger_live` and `ledger_reads`. One asset: pairs of different assets never meet
in a request, and the model takes the asset as part of the pair anyway. `Half = 4`
lets a second deposit leave BIGINT's range; with `Half = 3` in `ledger_live` the
smaller deposit is refused after the larger one, and the larger one fails in its
`UPDATE` after the smaller one; with `Half = 8` in the reads and in the wallet the
range is wide enough, except for both of the wallet's deposits together, which
take `external:deposits` below it. `PoolSize` is 3 where the pool is not the
question, and smaller than the number of calls where it is. Requests are small sets
named in the MC modules, each with a comment that says what it brings about; two
of `ledger_safety` share a key and no row, without which no INSERT would ever
wait for another's key.
Symmetry in the calls is used in the runs that check safety only. The one bound
on behaviour is that a call is used once; `Finished` (`Over` in `LedgerReads`,
`FinishedCounting` in `LedgerTelemetry`) lets the model stop when all are done, so
that a deadlock reported by TLC is a real one; deadlock is checked in every run.
The handlers of `Lifecycle` are used again and again, without a bound. The
theorems of section 4 do not depend on any of these bounds.

**Fairness.** `ledger_live` and `accounts` assume weak fairness of each handler's
next statement: Go runs every goroutine that can run, and InnoDB grants a lock
that is free and rolls back one transaction of a cycle. `ledger_live` assumes it
of the interceptors as well. Nothing is assumed of an arriving call, a failure, a
panic, a crash or a restart: none has to happen. Weak fairness is enough for
the pool and for the locks, since each call ends after finitely many steps and the
number of calls is bounded.

`wallet` assumes that a handler goes on when it can and that the ledger service
answers the calls it has received: for the latter `ledger_live` checks
`EveryCallAnswered` over the real handlers. The wallet sets no deadline, so its
own liveness rests on this alone. In all three runs a statement or a downstream call
that has been sent is answered or fails in the end. That is an assumption about MySQL
and the network, and what hides a missing deadline: `EveryCallAnswered` and
`EveryDepositAnswered` would not find one (`PROJECT.json` lists it as a hazard no
property covers).

`lifecycle` assumes that `run()` goes on when it can, that the ticker ticks, that
a ping gets its connection or ends (it has a five second timeout) and is published, and
that unary handlers end (InnoDB bounds their lock waits, and the wallet's calls are
answered or break). Nothing is assumed of streams: a client may never end one, and then
`GracefulStop` waits for ever, which is the exception `ShutdownCompletes` names. For
a handler waiting for a connection it assumes strong fairness, because
`database/sql` gives a connection that comes back to a waiter chosen at random: a
waiter may lose any number of draws, but not for ever. No fairness is assumed of
the signal or the database: the outage and recovery properties are conditional on
the database staying down or staying up.

## 4. The proofs

The theorems hold for any set of calls, accounts, assets, keys, requests, users and
deposits, any pool and any integer width. The assumptions are the named `ASSUME`s
of the modules, which TLC evaluates in the runs, and the hypotheses given here.

| module | theorem | statement |
|---|---|---|
| `LedgerProofs` | `Invariance` | `Spec => []IndInv` |
| | `TypeCorrect` | `Spec => []TypeOK` |
| | `LocksProtectReads` | `Spec => []ReadsStayCurrent` |
| | `TruthfulAnswers` | `Spec => []AnswersAreTrue` |
| | `KeysPostedOnce` | `Spec => []OneTransactionPerKey` |
| | `EntriesInOrder` | `Spec => EntriesAppearInOrder` |
| | `NoAccountOverdrawn` | `Spec => []NoOverdraft`, if no request names an account twice |
| | `PostedSumsAreZero` | `Spec => []PostingsSumToZero`, if the exact sum of each request fits int64 |
| | `LoopsKeepOrder` | `Spec => []OrderInv` |
| | `WaitsAreAcyclic` | `Spec => []LockOrderAvoidsCycles`, if `Call` is finite |
| | `ServiceNeverStandsStill` | `Spec => []NoStandstill`, if `Call` is finite |
| | `NoLivelock` | `Spec => StatementsRunOut` |
| `LedgerRefinementProofs` | `PostingsAreWhole` | `Spec => []EntriesMatchTransactions` |
| | `BalancesAreSums` | `Spec => []BalancesMatchEntries` |
| | `HandlersImplementLedger` | `Spec => ImplementsAtomicLedger` |
| | `MoneyIsConserved` | `Spec => []BooksBalance`, if `Account` is finite |
| | `MoneyIsConservedExactly` | `Spec => [](ExactBooks /\ PostingsSumToZero)`, if `Account` is finite and the sum of each request and its total for each account fit int64 |
| `LedgerClientProofs` | `GetTransactionIsAtomic` | `SpecReads => []TransactionsReadWhole` |
| | `PagingIsComplete` | `SpecReads => []PagesSkipNothing` |
| | `DepositsRunOnLedger` | `SpecBoth => ImplementsWallet` |
| | `LedgerCreditsFollowRegistration` | `SpecBoth => []W!OnlyLinkedUsersAreCredited` |
| | `LedgerCreditsEachDepositOnce` | `SpecBoth => []W!EachDepositCreditedOnce`, if `Call` is finite and deposits have keys of their own |
| | `LedgerPostsConfirmedDeposits` | `SpecBoth => []ConfirmedDepositIsPosted`, if deposits have keys of their own |
| | `DepositsKeepBooks` | `SpecBoth => [](NoOverdraft /\ ExactBooks /\ PostingsSumToZero)`, if `Account` is finite |
| `LedgerTelemetryProofs` | `PanicsKeepLedger` | `FairCounted => [](TypeOK /\ ReadsStayCurrent /\ AnswersAreTrue)` |
| | `CountersAreInvariant` | `FairCounted => []CountersMatchAnswers`, if `Call` is finite |
| | `SuccessesAddUp` | `FairCounted => []OkIsPostedOrReplayed`, if `Call` is finite |
| | `CommitsAreCounted` | `FairCounted => []PostedIsCommitted`, if `Call` is finite |
| | `OutagesAreCounted` | `FairCounted => []InternalIsDatabaseError`, if `Call` is finite |
| | `PanicsKeepTables` | `FairCounted => [](OneTransactionPerKey /\ EntriesMatchTransactions /\ BalancesMatchEntries)` |
| | `PanicsKeepMoney` | `FairCounted => [](BooksBalance /\ NoOverdraft)`, if `Account` is finite and no request names an account twice |
| | `PanicsKeepOrder` | `FairCounted => EntriesAppearInOrder` |
| | `PanicsImplementLedger` | `FairCounted => ImplementsAtomicLedger` |
| | `PanicsNeverStopService` | `FairCounted => [](NoStandstill /\ LockOrderAvoidsCycles)`, if `Call` is finite |
| | `PanicsStartNothingOver` | `FairCounted => StatementsRunOut` |
| `AccountsProofs` | `RegistrationsKeepInv` | `Spec => []RegistrationInv` |
| | `AccountsTypeCorrect` | `Spec => []TypeOK` |
| | `RegistrationsAreUnique` | `Spec => []UsersAreUnique` |
| | `RegistrationsNeverStandStill` | `Spec => []NoStandstill` |
| | `OkIsLinked` | `Spec => []OkMeansLinked` |
| | `HandlersImplementRegistry` | `Spec => ImplementsRegistry` |
| `WalletProofs` | `WalletTypeCorrect` | `Spec => []TypeOK` |
| | `CreditsFollowRegistration` | `Spec => []OnlyLinkedUsersAreCredited` |
| | `DepositsAreCreditedOnce` | `Spec => []EachDepositCreditedOnce`, if `Call` is finite and deposits have keys of their own |
| | `ConfirmedDepositsArePosted` | `Spec => []ConfirmedDepositIsPosted`, if deposits have keys of their own |
| `LifecycleProofs` | `ProcessKeepsInv` | `Spec => []LifecycleInv` |
| | `LifecycleTypeCorrect` | `Spec => []TypeOK` |
| | `HandlersAreSafe` | `Spec => []HandlersKeepConnections` |
| | `ShutdownIsSeen` | `Spec => []ProbeSeesShutdown` |
| | `DrainNeverBlocks` | `Spec => []DrainCanGoOn` |
| | `ShutdownEnds` | `Spec => ShutdownRunsDown` |

The theorems about `SpecBoth` take the wallet as the ledger's only client: `Request`
is `DepositRequests`, of deposits as `Wallet` assumes them (`DepositsOnly`).

A hypothesis about requests is there because a run breaks the property without it:
`ledger_debited_twice` breaks `NoOverdraft` with a request that names an account
twice, `ledger_credits_only` breaks `PostingsSumToZero` with amounts whose sum leaves
int64, and `wallet_shared_key` breaks `ConfirmedDepositIsPosted` with two deposits
under one key. The requests the wallet sends satisfy the first two, which is how
`DepositsKeepBooks` has neither as a hypothesis. `Call` is finite because a process has only had finitely many calls; in an infinite set each
call could wait for the next.

**The ledger's invariant.** None of the properties is inductive. That a balance
read is still current at COMMIT rests on the row being locked from the read on,
that it is locked rests on where the handler is in its loop over the pairs, and
that no other call has written the row rests on every write being covered by a
lock. `IndInv` says this for each statement: `TodoInv` and `LockInv` (what is
locked and written is what the loop has passed), `ReadInv` (what was read is what
is committed), `KeyInv` (from its INSERT to its COMMIT a key belongs to one call,
and no committed row has it), `TransactionInv` (a committed row was posted by the
call it is named after), `EntryInv` (a pending entry has a higher id than every
visible entry of its pair), and `LoopInv`, `DeltaInv` and `WrittenInv` (entries
are inserted after the check only; with each account named once, a delta is the
amount of one posting, and what is written is the balance the check approved).
There is one lemma per action, and under it one step per conjunct the action can
disturb. The actions that end a call share `EndStep`; `Crash` is its other use.
`KeysPostedOnce`, `EntriesInOrder` and `NoAccountOverdrawn` are inductive only
relative to `IndInv`, and only `Commit` can break them (`OnlyCommitPublishes`).

**The lock order.** `OrderInv` says that the loop has passed only pairs that come
before those still ahead, and that a call holds no row it has not passed. In a
cycle of waits each call would wait for a row above all those it holds, and the
next call holds that row: the rows would rise all the way round. The least of
finitely many of them contradicts this.

**No standstill.** `WaitInv` says that a call holds gaps inside its database
transaction only, that a loop it is in has a pair left to visit, and that the row a
call is about to insert stays missing while its gap is locked. With `OrderInv` it
follows that a call which cannot go on waits for a connection, or for a row, a gap
or a key that an open call holds (`WaitsForOpen`); a call that waits for a connection leaves
an open one to look at, since the pool is not empty. So if no call could go on, each
open call would wait for an open call, and the smallest set of them closed under
waiting is a cycle (`WaitsEndInCycle`), which InnoDB breaks. A panic returns
through the deferred rollback and a restart through that of the database, so
that neither leaves a lock, a gap or a connection behind (`NextCountedWaits`).

**No livelock.** `NoLivelock` shows that `StatementsLeft` is a variant: every step
brings a new call or takes a statement from one in progress. What it needs of
`IndInv` is where the loops are, since a loop's next round must not cost more than what
is left of it. With `ServiceNeverStandsStill` it is the safety half of
`EveryCallAnswered`: some call can go on, and none can go on for ever.

**Panics.** A step of `LedgerTelemetry` is a step of `Ledger`, or it ends a call
with an error and a rollback wherever the call is (`CountedStep`). To the tables and
the locks the second is what an error at that statement does, so each invariant of
`Ledger` carries over by the lemma that shows it for `EndStep`, the order of entries
because only COMMIT shows anything (`Publishes`), and the refinement because a panic is
`Unsure`. It is not always a step of `Ledger`: between the last lock and the INSERT of
the transaction a call without funds can panic, but has no statement that could fail.

**Counters.** `CountersMatchAnswers` is inductive beside `IndInv`: it says where in the
chain a call with each `pc` can be (`StageInv`), and that each counter lies between
the answers of this process life that it stands for and those answers with the panics
that may have been counted before they unwound (`CountInv`). The relations between two
counters follow from inclusions between those sets of calls. `Panic` is the step to look
at: it moves its call to `Recovered`, whatever it has counted (`PanicCounts`).

**Entries and pages.** `RecordInv` ties the pending and the committed entries of a
call to a prefix of its postings under increasing ids, prefix by prefix as the
loop inserts them. A page delivers the least ids above the cursor, and
`EntryInv` says that whatever is committed later has higher ids than every visible
entry of the pair: so what was delivered stays a prefix of the pair's entries.

**Sums.** The community modules define `SumFunction` by a recursive function over
the subsets of the domain that takes out elements in an unspecified order.
`SumProofs` shows that this function exists on a finite set, that its value
does not depend on the order, and how a sum changes with an element or over
a union; each by the smallest set for which it would fail, since the library's
induction theorems cannot be used. `BalanceInv` says for every statement that a
delta is the wrapped sum of the amounts inserted, that the update loop has written
every pair it has passed, and that the committed balance is the wrapped sum of the
committed entries; `WrittenInv` says that what is written is balance plus delta. `Wrap` of a sum of wrapped numbers is `Wrap` of the sum
(`WrapSum`).

**Double entry.** `BooksBalance` follows from `BalanceInv` once the balances are
added over the accounts instead of over the entries of one: a commit adds the
totals of a request per account, and these sum to the sum of its postings
(`RequestSums`, by `SumOverKeys`), which `Validate` has found to be zero modulo the
width. Where no sum leaves int64 the same argument gives zero exactly.

**The refinement.** With the balances known to be sums and the reads to be
current, `Commit` is `Post` of the atomic ledger, `RejectOverdraft` is `Refuse`
against the same balances, `Replay` and `Reply` are `Acknowledge`, `Receive` is `Ask`
or `Invalid`, `Crash` is `Stop`, and every other step changes nothing it can see.
A `Fail` is `Unsure`, whether COMMIT has taken effect or not. `StepImplements` says
this of one step with the handlers' names, which is what the composition uses.

**Registration.** `RegistrationInv` adds to the properties that an uncommitted row
clashes with no other (what the unique indexes enforce), that a user was created
from the request of the call it is named after, and that what a handler has found
or linked stays in the tables. `RegistrationsNeverStandStill` needs no more than the
types: who waits for a unique value waits for a call that only has to COMMIT, and
who waits for a connection waits for calls that need no second one.

**Deposits.** `WalletInv` follows a deposit through the handler and the ledger:
what the ledger was asked is the deposit of an attempt whose user had been found, a
transaction is one of these, keys are posted once, an OK names a posted transaction,
by its id and with the key of the attempt. If keys are not shared, that transaction
is the deposit that was confirmed (`ConfirmedDepositsArePosted`). Then the balance of a user is the sum of the deposits
posted for it (`PaidInv`), which contain the confirmed ones and are among
those asked for; amounts are positive, so their sums compare in the same way
(`SumOverPart`).

**Deposits over the real ledger.** `DepositsRunOnLedger` composes the two refinements:
a step of `Deposit` leaves the tables alone, `CallLedger` is the wallet's `CallLedger`,
and a statement of the ledger is a `LedgerStep` or nothing the wallet can see
(`BothImplement`). What it needs of the wallet is that a deposit has been validated by
the time it is resolved and posted (`HandlerInv`). The theorems of `WalletProofs` then
hold of balances, keys and transactions as MySQL stores them. In the other direction
the wallet decides what the ledger is asked: two postings of opposite amounts
that name two accounts, whose totals fit int64 (`DepositsFit`).

**The lifecycle.** `LifecycleInv` adds to the properties that nothing is served
before `run()` has come to `Serve`, and that what follows `Serve` follows a signal, but
for the deferred calls (`StopInv`). `Places` lists the steps of each process. The pool is
never overdrawn because the ping and the handlers take a connection only when
fewer than `PoolSize` are in use (`PoolBound`, `WatchStep`). In `GracefulStop` a handler
waits for one connection and holds no other while it waits; the ping may hold the last
one, but its context is cancelled by then, so that it breaks off: some handler can always
answer or be given a connection, at once or after the ping (`DrainNeverBlocks`). `run()`
only goes forward, and where it has been told to stop and no RPC is accepted any more,
nothing adds to what handlers, streams and the ping have left to do, and each step that
ends an RPC, takes a connection or gives one back leaves less (`ShutdownEnds`): together
the safety half of `ShutdownCompletes`.

**Only model-checked:** everything under fairness (`EveryCallAnswered` of both
services, `EveryDepositAnswered`, the liveness properties of `Lifecycle`), which is
out of the prover's reach. Of what they promise the safety halves are proved, as said
above; that a statement which can run does run is fairness. In `Accounts` it is
`RegistrationsNeverStandStill`.

**Only proved:** `ImplementsWallet` and what follows from it over `SpecBoth`, and
`DrainCanGoOn` and `ShutdownRunsDown`. `wallet_shared_key` explores `SpecBoth` up to its
counterexample; the properties themselves are checked over the atomic ledger (`wallet`)
and over the handlers (`ledger_safety`) separately.

## 5. Findings

1. `validate.go:53`: `CheckOverdraft` looks at each posting alone, so two debits
   of one account in a request overdraw it.
2. `validate.go:39`: the zero-sum check wraps, so credits that sum to `2^64` are
   balanced.
3. `mysql_repository.go:95`: `SELECT ... FOR UPDATE` of a missing row locks its
   gap, so the deadlock that the comment at line 89 means to avoid remains; one
   of the calls is answered Internal.
4. `mysql_repository.go:123`: the key is looked up before the rows are locked, so a
   retry that overlaps its first attempt may be refused for lack of funds
   although its transaction is posted.
5. `account/mysql_repository.go:76`: a racing retry is told that its email
   belongs to somebody else.
6. `wallet/server.go:62`: a deposit under a key used before for another one is
   answered OK and credits nobody.

`PROJECT.json` quotes the line of the repository that each of them contradicts.

## 6. Not modelled

Timestamps, the `reference` column, formatting of ids, base64 page tokens,
protobuf conversions, log lines and the duration histogram: no property depends on
them. The account service's counters are those of the ledger around simpler
statements, and are left out. The request id is only ever read: no code outside
the tests attaches one to a context.

Strings are atoms, so the collation of the index is not represented: Go sorts
account ids by bytes, the index by `utf8mb4_0900_ai_ci`, and the two agree on the
ids the services build; idempotency keys that differ in case or accents are one
key for the database (`PROJECT.json` lists both as hazards). `health.go:50` updates
the process's own name only, while the container's probe asks for the empty one,
which stays SERVING through an outage; no document says what it should show, so no
property is stated.

Among three inserts of one unique value InnoDB may deadlock on the shared locks that a
duplicate check leaves; its outcome, an Internal answer, is covered by `Fail`. Time
itself is not modelled, so no deadline is: a call may break at any step instead.
`GetUser`, `GetUserByEmail`, `GetLedgerAccountID` and `GetBalance` are single reads
that change nothing: operators, not actions.

`HandlersKeepConnections` and the theorems about it are about the path of a signal.
When `Serve` fails, `run()` returns at once and its deferred calls close the database
under the handlers; the process exits next, and no document promises otherwise.

The metrics HTTP server is a goroutine that shares nothing with the others and whose
failure is only logged. The migrate command is a straight line around golang-migrate,
whose version table, lock and dirty flag are that library's. The gateway is a stub,
and the interface definitions and the deployment have no state.

## 7. Plan

The order was: postings, their abstract specification and refinement, the
inductive invariant and its proofs, the reads, registration and its registry,
deposits, the lifecycle of the three processes, the interceptors and counters, and
then the proofs of section 4, from the locks to the refinements and the sums, and last
the composition of the wallet with the ledger's handlers, what panics leave intact, and
that neither a call nor a shutdown goes on for ever. What is left:

1. Registration as a client would see it beside deposits: `Wallet` links a user in one
   step (`Link`), which `AccountRegistry` would have to be composed with.
2. A gateway and trading services, when the repository has them: the gateway is
   a stub at present.
