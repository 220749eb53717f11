# Verification project for lib-core-cmd

`lib-core-cmd` is a command line wallet: a small C++ program (`src/src`) that
drives Ledger's wallet library *libcore*. The library is present as headers
(`src/lib/ledger/core`), some of which hold whole algorithms as templates; the
rest is a binary. `src/tools` has a Python explorer server to test against.

This directory holds TLA+ models of that code, TLC configurations that check
them on small instances, and TLAPS proofs for all instances.

    tlc -config MCDeferred.cfg MCDeferred      # any MC module and its .cfg
    tlapm DeferredProofs.tla                   # any *Proofs module

Paths below are relative to the repository root; `Synchronizer.h` stands for
`lib/ledger/core/wallet/common/synchronizers/AbstractBlockchainExplorerAccountSynchronizer.h`.

## 1. Inventory

| Component | State it keeps | Operations | Talks to |
|---|---|---|---|
| Deffered / Promise / Future (`async/Deffered.hpp`) | `_lock`, `_value`, queue `_callbacks` | setResult, setValue, setError, addCallback, getValue, trigger | execution contexts, which run the callbacks |
| Future combinators (`async/Future.hpp`, `utils/Try.hpp`) | the Deffered cells they chain | map, flatMap, recover, recoverWith, async, callback | Deffered |
| Collections of futures, waiting (`FutureUtils.hpp`, `algorithm.h`, `wait.h`, `LockedResource.hpp`) | a counter and results under a mutex; a barrier; a flag beside a lock | executeAll, sequence, wait, lock/unlock | Future |
| Command runtime (`src/main.cpp`, `AsioExecutionContext.cpp`, `Helper.hpp`) | io_service queue, `shouldStop`, the asio thread, `_result`/`_error`/`done` with mutex and condition variable | execute, delay, start, stop, GET_SYNC, EventReceiver::wait | libcore calls, main blocks for their callbacks |
| Wallet commands (`AddAccount.cpp`, `ListAccounts.cpp`, `SyncAccount.cpp`, `BuildTransaction.cpp`) | the wallets and accounts of the database, through libcore, shared by all processes | add, list, sync, build (balance and list-coins do nothing) | runtime, libcore, migrations |
| HTTP client (`AsioHttpClient.cpp`, `RequestResponce.cpp`) | per request: the pending operation, request, response, body | one handler per asynchronous operation, readBody | asio thread, `api::HttpRequest::complete` |
| Account synchronizer, entry (`Synchronizer.h` 89-110, 240-268) | `_currentAccount`, `_notifier`, `_lock` | synchronizeAccount, completion callback | ProgressNotifier, a session |
| Account synchronizer, session (`Synchronizer.h` 129-420) | saved state in the preferences (a cursor per batch), blocks and operations in the database, pending transactions | performSynchronization, synchronizeBatches, synchronizeBatch, recovery | explorer client, database |
| Explorer client and parsers (`AbstractLedgerApiBlockchainExplorer.h`, `LedgerApiParser.hpp`, `explorers/api/*`) | session token; depth and last key of a parse | getTransactions, startSession, killSession; SAX handlers | HTTP client |
| Explorer test server (`tools/server.py`) | the blockchain and an index by hash | get_transactions, current block, sync token | explorer client |
| Blockchain observers (`observers/*`) | registered accounts, socket, attempts | registerAccount, unregisterAccount, onSocketEvent | web socket |
| Database migrations (`database/migrations.hpp`) | schema version | migrate, rollback | database |
| Events (`events/*`) | subscribers, sticky events | subscribe, post, postSticky | execution contexts |
| Everything else: parameters and paths, collections, bytes, numbers, cryptography, query filters | none that outlives a call | pure functions | |

The flow of one command: `main` starts the asio thread, opens the wallet pool
and calls libcore; libcore chains futures whose callbacks run as handlers on
the asio thread; its HTTP requests are handlers there too; the last callback
notifies `main`, which makes the next call, and at the end stops and joins the
thread. `sync` starts a synchronizer session, many requests long.

What is hard about it: two threads that meet at mutexes, a condition variable
and one unprotected flag; callbacks run under a lock; a fast answer against a
late subscriber; requests without timeouts; a session that stores its progress
in several places while the chain it follows reorganizes, and crashes in
between. `PROJECT.json` lists these hazards at their lines, each with the
properties aimed at it or the reason there is none. What makes each component
correct:

* **Deffered**: one completion wins; each callback gets that result once, in
  order, whatever the interleaving.
* **Future combinators, collections**: a chain completes, once, with what its
  functions say of the futures it is made of; `executeAll` with all the values
  or the first failure; no exception reaches the context.
* **Runtime**: no answer is lost or mistaken for another call's; the loop is
  left only when nothing is owed; every command ends.
* **HTTP**: every request completes exactly once, with a code that tells
  whether the server may have acted on it, and its body is read whole.
* **Synchronizer entry**: one session at a time; every caller is told the
  result of its own session.
* **Session**: no transaction of the chain is skipped, none of an orphaned
  branch stays, and the session ends.
* **Parsers**: a result holds the transactions of the document, each with its
  own values, and the block; a failed answer is never a result.
* **Commands**: the accounts a command reports are there, whatever other
  processes do; an `add` that ends early misleads about its own name only.
* **Migrations**: each migration is applied once, and the schema is that of the
  version the database keeps.

## 2. Modules

| Module | Models | Used by |
|---|---|---|
| `FutureCell` | abstract specification of a Promise/Future pair | `Deferred` (refinement) |
| `Deferred` | `async/Deffered.hpp` | `MCDeferred`, `DeferredProofs` |
| `FutureChain` | `async/Future.hpp`, `FutureUtils.hpp`, `algorithm.h`, `wait.h` | `MCFutureChain`, `FutureChainProofs` |
| `CliRuntime` | `main.cpp`, `AsioExecutionContext.cpp`, `Helper.hpp` and the calls of the commands | `MCCliRuntime`, `CliRuntimeProofs` |
| `Migrations` | `database/migrations.hpp` | `WalletCommands` |
| `WalletCommands` | the commands' calls on the database, in processes of their own | `MCWalletCommands`, `WalletCommandsProofs` |
| `HttpRequests` | `RequestResponce.cpp` | `MCHttpRequests`, `HttpRequestsProofs` |
| `SyncEntry` | `Synchronizer.h` 89-110 and 240-268 | `MCSyncEntry`, `SyncEntryProofs` |
| `ExplorerParsers` | `LedgerApiParser.hpp`, the parsers of `explorers/api`, and what `HttpClient.hpp` and the explorer client make of them | `MCExplorerParsers`, `ExplorerParsersProofs` |
| `SyncBatches` | `Synchronizer.h` 129-420, pages as `tools/server.py` serves them | `MCSyncBatches`, `SyncBatchesProofs` |

Each MC module only adds the small sets its `.cfg` needs. The block "Mutated
forms" in each module holds variants of a definition with one plausible
mistake; they take no part in the specification, and `PROJECT.json` says which
property each of them breaks.

How they fit together: `Deferred` implements `FutureCell`, and the futures of
`FutureChain` are such cells. `CliRuntime` has the two threads of one command
and takes each of its calls as a chain of handlers; `HttpRequests` are the
handlers of such chains that talk to the explorer, `ExplorerParsers` is what
becomes of their answers, and `SyncBatches` what a session does with them.
`SyncEntry` decides which session runs. `WalletCommands` composes with
`Migrations` into the database that all processes share.

### Deferred

A thread's call is split where the code can be interleaved: `BeginComplete`
takes the mutex and passes `ensureNotCompleted`; `WriteResult` is the end of
the first critical section of `setResult`, `Retrigger` the start of the second;
`WriteValue` stays inside (`setValue`, `setError`); the `Dispatch*` actions are
one iteration of the loop of `_trigger`. A call on a completed promise throws
and leaves the state as it was, so it is no step. Callbacks are numbered in the
order they are registered, so `_callbacks` is the interval from `popped + 1` to
`pushed`. The kinds of callbacks cover what an execution context can do with a
runnable: queue it (`serial`), or run it on the spot under the mutex
(`ImmediateExecutionContext`), where it may return, throw (line 129 is left
before `pop` of line 132) or lock the same mutex (the thread is `stuck`).
`getValue` reads without the mutex, so while another thread is writing it
returns the old value, the new one or a torn one.

The abstract cell of `FutureCell` is completed at most once and hands each
callback that one result; `CellSpec` maps a delivery to the first time a
callback is entered.

### FutureChain

A program is a sequence of operations, each making a future out of promises
and of earlier futures (`WellFormed`). Results are told apart by the promise or
the function that made them, so that a result that goes the wrong way shows.
`Make` registers the callback of a combinator with its source; `RunCallback`
runs one callback whose future is completed, in any order. A function returns
a value, throws, or returns a future it may make just then, with which a
`relay` callback is registered (`flatMap`, `recoverWith`, `async` of a future).
`fallback` and `fallbackWith` are recover with a function that returns;
`sequence` is the chain of flatMaps that `algorithm.h` builds, whose functions
make the next one. `executeAll` has one callback per position, run under the
lock of its container. `SetResult` of a completed future throws
ALREADY_COMPLETED out of the callback, which `escaped` records, as it does an
exception of a function given to `foreach` or to the one-parameter callback;
that callback also throws by itself when it is given a failure
(`Future.hpp:224`). `StartWait` to `EndWait` are `async::wait`: no predicate,
no second look at the future.

### CliRuntime

`main` goes through the `Script` of its command: the calls it blocks for. A
call is a chain of handlers (`Task`) on the asio thread, the next one either
posted at once or when an asynchronous operation finishes, ending in
`onCallback`. The condition variable is modelled with its mutex: `WaitReturns`
and `WaitBlocks` evaluate the predicate under it; `Woken` is `notify_all`,
issued while the handler holds it; `SpuriousWakeup` can happen whenever `main`
is blocked. The loop of the asio thread is split between `run()` returning
(`RunReturns`) and the test of `ran` and `shouldStop` (`Loop`). The `sync`
command subscribes to an event bus after the session was started; that the
bus hands a late subscriber the last (sticky) event is taken from how the
library is used, and marked external. `Reject`, `HandlerThrows` and an
error answer lead to the exception paths, which never join the thread.
`Execute` and `Delay` are runnables given to the context for nobody to wait
for.

### Migrations and WalletCommands

`Migrations` is the two recursive templates, one statement at a time: `Migrate`
and `UpdateVersion` on the way up, `Rollback` and `LowerVersion` on the way
down, with `Interrupted` between any two. Their callers are only declared in
the repository, so whether all of it is one transaction is left open
(`wrapped`): `db` is what the session sees, `file` what a crash leaves. The
database may be empty or of any version, newer ones included, for which
`rollback` throws ("Missing rollback migrations") and `migrate` does nothing.
`torn` is history: without a transaction, a process died between a step and
the update of the version.

In `WalletCommands` a process starts, migrates the database when it opens the
pool, and then makes the calls of its command one by one; another process may
do so at the same time, and each may be killed anywhere (`Die`). The content of
the database is the sequence of its wallets. `CheckName`, `CreateWallet` and
`CreateAccount` are `add`; `ReadWallets` and `PrintNext` are `list`;
`GetWallet`, `GetAccount` and `UseAccount` are `sync` and `build`, which
refuses a wallet that is no bitcoin wallet. `Reset` is `freshResetAll`.
Assumed of the library, which is not in the repository: each call reads or
writes the database at one moment; a wallet's name is its key; two processes do
not migrate at the same time (SQLite's lock).

### HttpRequests

`phase` is the asynchronous operation whose handler comes next; every handler
is one action, with its success and failure branches as disjuncts. The two
`write` handlers are alike and share an action; they differ for connect and
read. `CompleteTwice` is lines 221-227: the shutdown of a plain socket that fails
calls `complete` again, which throws ALREADY_COMPLETED out of the handler.
`sent` is history: bytes of the request may have left. `ReadBody` is the
library's reader, which takes chunks until it gets an empty one.

### SyncEntry

Steps that run under `_lock` are atomic: `Start`, `Join` and `Refuse` are the
three ways through `synchronizeAccount`, `OnComplete` is its callback.
`EndSession` is the end of `performSynchronization`, which on success resets
`_currentAccount` without the lock (line 259) before the callback has run.
`raced` is history: a session was started in that window. `Start` may also
throw after it has taken the synchronizer.

### ExplorerParsers

The document is made up as it is read: `Key`, `Begin`, `End` and `Scalar` are
the events of the SAX reader, restricted to what a server sends (`KeysHere`,
`MayBegin`, `MayBeValue`); the answer of a failed request may be any document.
The four parsers are functions of the counters and keys they keep (`api`):
`page` (bulk over array over transaction), `transactions`, `block` and
`notification`. A value stands for the transaction or block it is part of, so
one that lands in another shows. `Malformed` is a value whose handler throws,
`CutOff` a body that ends early; both stop the reader and neither is looked at
afterwards (`HttpClient.hpp:86`), so that `Answer` builds a result of what was
read. `TransactionParser` itself is only declared: it is taken to put values
into the transaction it was last given. Containers under other keys of the root
than those of the API are assumed not to be sent: the last key is never
cleared, so one after `"txs"` could be taken for it.

What the module makes visible of the test server: `tools/server.py:49-50` sends
`"truncated"` as a string, and `BulkValue` takes only a boolean, so `hasNext`
never becomes true against it.

### SyncBatches

A block is a height and a fork number; a transaction of the account is a block
and an address, and a batch is an interval of addresses whose length is the
configured size (`In`). `cursors` is the session's copy of the saved state,
`saved` the one in the preferences, `savedHalf` the size it is for. `Start` is
`performSynchronization` up to its first future: the check for a reorganization
(192-223, `CheckReorganization`) and the redistribution of the cursors over
batches of another size (129-165, `Resized`). `Enter` is the beginning of
`synchronizeBatches`; `StorePage` one answer in `synchronizeBatch`, and
`StoreMempoolPage` one that ends in an unconfirmed transaction, after which the
cursor stays; `StoreState` the save after a batch; `Recover` and
`StoreRecovered` the two commits of recovery (312 and 334), between which the
process may crash. `ServerError` is a request that fails though its block
exists: the client reports it as BLOCK_NOT_FOUND like the real case. `FetchTip`
and `PutTip` are `updateCurrentBlock`, whose answer comes at any time of the
session. `NewBlock` and `Reorganize` are the explorer's chain.
`OtherAccountStores` and `OtherAccountRecovers` are the same code run for
another account of the database: it stores blocks this one has not fetched, and
its recovery deletes blocks of every account (312 names none). `Configure`
changes the batch size between sessions.

An account is a *scenario*: which transactions it has, whether it has a single
batch (ETH), its batch size, and the kind of trouble it meets (`Trouble`), of
which a behaviour has `MaxTroubles`. `quiet`, `succeeded` and the marks `past`
are history; the comment at `Marks` says what each means.

Assumed: the explorer tells an unknown block hash from a known one, as the
client expects (`tools/server.py` ignores the hash: line 113 discards it); a
page that is taken for a success is whole (`HttpClient.hpp:86` accepts one that
was cut off or malformed with what had been read of it, see `ExplorerParsers`:
its cursor would pass transactions that were not read, and
`CompleteWhenQuiet` speaks of no such page); a
page has room for two blocks (`PageLimitAssumption`), otherwise a page that
ends where it began is fetched for ever; mempool transactions come on the last
page, for the same reason; a branch is as long as the one it replaces. An
account receives in no address beyond a whole batch that was left out
(`OrderAssumption`): the code looks no further than the first batch without a
transaction. An account of one batch keeps its batch size
(`ScenariosAssumption`): its one address has no use for another.

## 3. Runs

| Run | Instance | Properties |
|---|---|---|
| `deferred` | 2 threads, 2 results, 3 callbacks of every kind | `TypeOK`, `Agreement`, `RunsOnce`, `NoCallbackForgotten`, `SerialOrder`, `EventuallyRun`, `CellSpec` |
| `future_chain` | 2 promises and every pair of futures made of them and of each other; `executeAll` of 2, 1 and no futures, alone and under a chain; `sequence`; a waiting thread | `TypeOK`, `ChainsMean`, `AllOrFailure`, `OnlySinksEscape`, `ChainsComplete`, `WaitEnds` |
| `future_wait` | 1 promise and a waiting thread | refutes `WaitReturns` |
| `cli_runtime` | every command, up to 3 handlers per call, 1 unawaited runnable, 2 events | `TypeOK`, `ExitAbandonsNoCall`, `CallsNeverOverlap`, `NoLostWakeup`, `CommandEnds` |
| `wallets` | 2 processes, 2 names, a listing that holds 1, versions 0 to 2 with the library at 1 | `TypeOK`, `SchemaFollowsVersion`, `OnlyUnfinishedMislead` |
| `wallet_exists` | same | refutes `ExistsMeansAccount` |
| `http` | 1 plain and 2 TLS requests | `TypeOK`, `CompletedOnce`, `ErrorTellsWhetherSent`, `WholeBodyRead`, `NoRequestLeftBehind` |
| `explorer_parsers` | 4 parsers, documents nested 6 deep with 2 transactions, 3 kinds of answers | `TypeOK`, `TransactionsRead`, `NothingElseRead` |
| `sync_entry` | 2 callers, 2 accounts, 3 sessions | `TypeOK`, `LiveNotifier`, `Exclusive`, `RightResult`, `EveryCallerTold` |
| `sync_race` | same | refutes `OneAccountAtATime` |
| `sync_batches` | 12 scenarios over 2 addresses, sizes 1 and 2, 3 blocks, at most 1 reorganization, 3 sessions, 1 trouble, pages of 2 blocks | `TypeOK`, `NoGapWhenSettled`, `CompleteWhenQuiet`, `NoStaleOperation`, `ComesCloser`, `SessionEnds` |
| `sync_reorg` | 1 scenario, no trouble | refutes `EveryOrphanDeleted` |

Why the bounds are enough. *Deferred*: the program has two threads; three
callbacks are one ahead of, one at and one behind a misbehaving one.
*FutureChain*: a combinator looks at its source and at the future its function
returns, so every pair of them meets every way the two can be completed;
`executeAll` of two futures has a first and a last one. *CliRuntime*: two hops
give a call whose handlers are posted at once, after an operation, or mixed; two
events let a failure be followed by a success, before or after the subscription.
*WalletCommands*: two processes race for one name, the second name is the one a
listing of one wallet leaves out; one version is the library's, one is newer,
and an empty file is older. The run is symmetric in processes and in names,
which no property tells apart. *HttpRequests*: requests interact only by the
death of the thread; a plain one causes it, the others witness it.
*ExplorerParsers*: the deepest document of the API, a page with a transaction
with inputs, is five deep; two transactions tell "the last" from "the first".
*SyncEntry*: two sessions overlap in the race, the third is started by what the
race leaves. *SyncBatches*: three blocks make two pages; two batches, or one
that becomes two, are enough for cursors to be apart; three sessions are one
before a reorganization, one that recovers from it or is cut short, one that
repairs that; every kind of trouble alone breaks what the exceptions of
`Settled` name. A fourth session, and errors beside a reorganization of an
account of several batches, were checked once and showed nothing more; they are
left out of the run for its time.

Deadlock checking is off in every run: a Deffered nobody calls, a process that
has ended, requests all answered and a synchronizer at rest stop legitimately,
and a bound reached stops the model. That nothing stops too early is what the
liveness properties say.

### What they show

* `setResult`'s unlocked window is harmless: `NoCallbackForgotten` and
  `EventuallyRun`. A callback that throws out of an immediate context, or locks
  its Deffered again, does harm: it is re-run or hangs, which is why the
  properties speak of benign callbacks with benign ones before them.
* Main cannot miss an answer or take one meant for another call, spurious
  wakeups included. `CommandEnds` has one exception, written into it: a null
  result without an error leaves `WaitForResult` waiting for ever.
* The asio thread never leaves a *call* behind, since `main` only stops when
  it waits for nothing more. It can leave a *runnable* behind, which
  `ExitAbandonsNoCall` has to except: without that the run finds one posted
  between `run()` returning 0 and the test of `shouldStop`.
* A request completes exactly once, but for a plain socket whose shutdown
  fails, which takes the thread down. There is no timeout, so
  `NoRequestLeftBehind` has to assume that servers answer or close.
* The unlocked line 259 is the only thing that breaks mutual exclusion of
  sessions: everything else holds until a session is started in that window
  (`raced`), and `sync_race` shows what then happens. A session that throws at
  its start leaves its notifier pending for ever and the synchronizer taken.
* Chains of futures mean what their functions say, in every order of
  completion. What does not complete is what waits for an `executeAll` of no
  futures (`Starved`): with no callback registered nothing completes it. Only
  `foreach` and `callback` let an exception out. `wait` comes out if it blocks
  before the future calls back (`WaitEnds`); one that was completed earlier has
  notified nobody, and a spurious wakeup makes it throw on the empty result, so
  that it need not return what its future holds: `future_wait`. (`sequence`
  frees its buffer only on success, a leak without consequence for results.)
* Any number of migrations, resets and kills leave a schema that is the one its
  version says, if there is a transaction around them, or if no process ever
  died between a step and its version. Otherwise a migration is run again on a
  schema that has it. An `add` that dies between its two calls leaves a wallet
  without an account (`halfAdded`) which no command finishes: `add` says that
  the account exists, and `list` fails at it. While it is between the two calls
  another `add` of the name says so too: `wallet_exists`. Nothing else that a
  command reports of accounts is wrong (`OnlyUnfinishedMislead`).
* What is parsed belongs where it is put: no value of one transaction is in
  another, none of the blocks inside transactions in the current block. A page
  cut off or malformed is accepted as a success with its beginning, and the
  `hasNext` it had said by then, which is `false` if it had not.
* `NoGapWhenSettled`: when do cursors never skip a transaction? For an account
  of one batch, whatever fails or crashes, unless another account stores a
  block of a new branch (recovery then stops at it), or deletes blocks while a
  session of this one runs, or `updateCurrentBlock` puts back the deleted block
  that a saved cursor names, which hides the deletion from the check at the
  next start (the cursors that check lowers, line 215, are not saved until a
  batch ends). For an account of several batches, when there was no
  reorganization, no crash between the two commits of recovery, no deletion by
  another account, and no new batch size after a failed session: the resized
  state has a cursor for more addresses than were looked at. Each of these
  exceptions is needed: without it the run finds a history that skips.
* Sessions end although recovery goes back: `ComesCloser` is the reason, a
  measure that each step decreases while the chain stands still. First comes
  the highest orphaned block that a cursor is on, which only recovery moves,
  and downwards because it lowers all the cursors above the block it falls back
  to, not only the one that failed (325-331); then the batch, its stage, and the
  block it has reached.
* Recovery leaves no orphaned operation in an account of one batch, unless a
  mempool transaction left the cursor behind (the block it should have named is
  not asked for again, and its disappearance goes unnoticed), or another
  account stored a block of the new branch. With several batches it may:
  `sync_reorg`.
* With several batches the check at the start does not find all that recovery
  had deleted when it was cut short: of two cursors on missing blocks it puts
  back the higher one. That is one reason for which `Settled` excludes `torn`.

### Findings

Shown by a run each:

1. `Synchronizer.h:259` frees the synchronizer without the lock before the
   callback has run, so that sessions of two accounts can run at once, which
   line 107 is there to refuse (`sync_race`).
2. The comment of `Synchronizer.h:337-339` says the recursive call will delete
   down to the deepest block of the reorganization; with several batches it
   may stop above it, with a success (`sync_reorg`).
3. `async::wait` does not return the result of its future (`wait.h:43`) when the
   future calls back before the thread blocks at line 52 (`future_wait`).
4. `AddAccount.cpp:98` says that an account exists, where there is a wallet of
   that name; line 110 may not have made its account yet, or never will
   (`wallet_exists`).

Modelled as the code has them, and excepted by the properties they concern:

5. `AsioExecutionContext.cpp:19` says the thread exits "only when there are
   nothing more to do"; between `run()` returning 0 and the test of
   `shouldStop` a handler can be posted, and is abandoned.
6. `AsioExecutionContext::delay` is empty, where `api/ExecutionContext.hpp:33`
   says "Execute a given runnable with a delay" (`Delay`: the runnable is owed
   and never scheduled).
7. `Synchronizer.h:196` says that the check at the start gets the deepest block
   that a saved batch is on and that is part of a reorganization; the loop of
   line 207 gets the highest of the missing ones it passes, and the batches
   below that one keep a cursor on a block that is not in the database.

### Fairness

*Deferred*: a thread inside a call goes on (`Proceed`) and the serial context
runs what it was given; nobody must call anything. *FutureChain*: the contexts
run what they are given, and the waiting thread goes on; promises are completed
only inside `ChainsComplete`. *CliRuntime*: both threads
are scheduled, and operations started end (`OperationDone`), which is the
operating system's part. *HttpRequests*: resolving, connecting and writing end
by themselves; answers of the server are assumed only inside
`NoRequestLeftBehind`. *SyncEntry*: a session ends, and its callback, queued on
a context, runs. *SyncBatches*: the steps of a session, weakly fair together;
sessions are not restarted and the chain need not move. Progress of a session
relies on requests being answered.

## 4. Proofs

`DeferredProofs` (any threads, results and number of callbacks, from the named
assumptions of `Deferred`): `TypeCorrect`, `OneResult` (`Agreement`),
`CallbacksRunOnce` (`RunsOnce`), `NothingForgotten`, `InOrder` (`SerialOrder`)
and `ImplementsCell` (`SafetySpec => CellSpec`). None of these is inductive:
that a callback runs once depends on who holds the mutex and on where each
callback is. The invariant `IInv` adds `MutexInv` (a thread is in a critical
section exactly when it owns the lock), `ValueInv` (nobody writes over a stored
result; between the two critical sections of `setResult` it is stored),
`QueueInv` (each callback number is queued, a task, or run, and what it was
given is the result) and `ObservedInv`. `NoCallbackForgotten` is
part of it too. Each part is preserved by a lemma of its own, one step per
action. The refinement shows that writing the result is the cell's
`Complete`, a registration its `Register`, a first entry its `Deliver`, and all
else a stutter.

`HttpRequestsProofs` (any set of requests): `TypeCorrect`, `OneCompletion`
(`CompletedOnce`), `CodesAreRight`, `BodiesAreWhole`. `SentInv` ties `sent` and
the outcome to the phase, `BodyInv` says how far a body has been handed over;
lemmas for "failed", "moved on" and "answered" serve all the handlers.

`CliRuntimeProofs` (any set of commands, any bounds): `TypeOKHolds`,
`NoLostWakeupHolds`, `CallsNeverOverlapHolds`, `ExitAbandonsNoCallHolds`. The
asio thread and `main` never look at each other's state, so the invariant has
to say what is in the queue: `TaskInv` (a handler of a call is of the call main
waits for, or of a synchronization whose outcome main has), `OneWork` (there is
one at most), `LoopInv` (once `run()` has returned, only runnables are queued,
or main waits for an answer), which is why leaving the loop abandons no call.
`Posted` and `Taken` are lemmas on the two ends of the queue; `MainStepInv` and
`AsioStepInv` take one thread each.

`WalletCommandsProofs` (any versions, processes and names): `TypesHold`
(`TypeOK`), `SchemaFollowsVersionHolds` and `OnlyUnfinishedMisleadHolds`. For the
schema, `VersionInv` ties the version in the database to the place in the
recursion, `AppliedInv` the schema to the version, `RunningInv` says that while
a command runs the schema is the library's and a migration beside it does
nothing, so that commands do not disturb it. For the truth of the reports, `TruthInv` adds types (`TypesInv`), `ContentInv`
(a name has one wallet, a wallet without an account is an `add`'s, and nothing
is reported while the database is reset) and `Word(p)`: what a process has said
or found so far is so. The argument is that wallets are only added and only get
accounts (`Grow`), so that the word of a process survives the steps of all the
others (`WordKept`). That the wallet of an `add` that ended early stays without
an account needs `AddInv`: nobody is between the two calls for its name, one
process at most is for any other, and what is on disk or in the session of such
a wallet has no account.

`FutureChainProofs` (any cells, any program `WellFormed` allows): `ChainTypes`
(`TypeOK`), `ChainsMeanHolds`, `AllOrFailureHolds`, `OnlySinksEscapeHolds`. In
the invariant `ChainInv`, `OwnInv` says what each registered callback is for and
on, `OneInv` that a future has at most one callback that may complete it, and
none once it is completed (so that no combinator meets ALREADY_COMPLETED),
`BuiltInv` that what a future is made of was there, and `SlotsInv` that
`executeAll` has stored values of its futures. Results never change (`Stays`),
so a future that meant what its functions say keeps doing so (`MeansKept`).

`ExplorerParsersProofs` (documents of any length and depth; the bounds play no
part): `ParserTypes` (`TypeOK`), `TransactionsReadHolds`,
`NothingElseReadHolds`. The parsers see keys, values and brackets, never the
document. `ReadInv` says of each parser what its counters are in terms of the
brackets that are open, arrays and objects counted apart (`PageInv`,
`TransactionsInv`, `BlockInv`, `NotificationInv`, `FailureInv`), and `ContentInv`
what has been read by then. From it follows where each parser takes an object
for a new transaction, and that this is exactly where one begins.

`SyncEntryProofs` (any callers, accounts and number of sessions): `TypeCorrect`,
`NotifiersAreLive`, `SessionsExclude` (`Exclusive`) and `ResultsAreRight`.
`OwnerInv` says that until a session is started in the window the open session
owns the notifier and, while it runs, the account; `SessionInv` orders the
sessions and their notifiers.

`SyncBatchesProofs` (any number of addresses, blocks, forks and sessions, any
sizes of batches and pages, any transactions the named assumptions allow):
`SessionTypes` (`TypeOK`), `NoGapHolds` (`NoGapWhenSettled`), `CompleteHolds`
(`CompleteWhenQuiet`), `NoStaleHolds` (`NoStaleOperation`), `CloserHolds`
(`ComesCloser`). None of the invariants says enough to be kept by a step:

* `TypesInv` adds that blocks of a newer branch are above those of an older one
  (`ChainInv`), that nothing known is newer than the chain (`KnownInv`), and
  where a session is among its batches (`SessionInv`).
* For an account of one batch, `OneBatch`: not only the cursor, every block
  recovery may fall back to has all that is before it stored (`Ready`), on what
  is left of the branch it was on (`Covered`). A block in the database that is
  not the account's own (the current block put there by `updateCurrentBlock`)
  is either of the first branch or above everything older (`Placed`,
  `Topmost`), so that recovery from above it does not stop there. The marks of
  `Settled` are the steps that break this: a saved cursor that is put back
  (`Kept`), another account's block of a new branch.
* For an account of several, `Batches`: without a reorganization every cursor
  is on the chain and has what is before it stored (`Stored`), for the batch
  size it was made with; a new size keeps this because the new cursors start
  from the lowest, provided that the last of the old ones, whose batch lies
  beyond the addresses looked at, is still at the genesis (`Moved`).
* `Quiet` is about the session: while the chain stands still, the batches it
  has left are whole (`Whole`) and the last one is empty (`Empty`), whence the
  account is complete.
* `StaleInv`: an orphaned operation is above every other, the cursor is not
  below it and not on the chain, and no known block of the chain lies between
  (`Below`). So a session cannot resume without recovery coming past it.

Each has a lemma per step, or per group of steps that owe it the same
(`OneBatchKept`, `RepairKept`); `PageCovers` and `PageAdvances` are what a page
is worth, `Least` a minimum of a set of numbers got from the library's theorem on
well-founded orders.

Every invariant and action property that a run checks is proved. Only
model-checked: the liveness properties (`EventuallyRun`, `ChainsComplete`,
`WaitEnds`, `CommandEnds`, `NoRequestLeftBehind`, `EveryCallerTold`,
`SessionEnds`), since fairness and ENABLED are out of reach of the prover; for `SessionEnds`, `CloserHolds` is the part of the argument
that is not about fairness.

## 5. Not modelled, and what could come next

Next, in order:

1. The pending transactions of a session (`transactionsToDrop`,
   `pendingTxsHash`, lines 227, 247-257 and 386-396): `updateTransactionsToDrop` is
   only declared, so when one is dropped cannot be told from the code here.
2. A composition of `SyncEntry` and `SyncBatches`: two sessions at once in the
   window of line 259, over the same saved state.

Not modelled:

* Blockchain observers: a list of accounts under a lock, and a handler of
  socket events whose `reconnect`, `connect`, `onStart` and `onStop` are only
  declared; the command line passes no web socket client.
* `CompletionBlock` and `LockedResource`, which nothing in the repository uses.
* The test server's routes and its quirks that the client would reject
  (`server.py:72` compares input objects with addresses, 95-108 test lengths
  that are off by one), and the generator of its data.
* Parameters, paths and printing (straight-line code); collections, bytes,
  numbers and cryptography (pure functions, most of them only declared);
  wallets, accounts, keychains and the event bus (declared here, implemented in
  the binary; modelled as the commands use them); generated interfaces and
  vendored headers, which are most of the repository's lines.
