# A TLA+ verification of the Salesforce Mobile SDK in this repository

The application of the repository (`src/app.tsx`, `src/ios`, `src/android`) is a thin
React Native sample.  The program's own logic is the Salesforce Mobile SDK it carries:
`src/mobile_sdk/SalesforceMobileSDK-Android/libs` (Java) and
`src/mobile_sdk/SalesforceMobileSDK-iOS/libs` (Objective-C and Swift).  This directory
models the parts of the SDK where an error loses data, sends data twice or hangs: the
sync manager, the long operations of the store, the record-level algorithms of sync up
(one request at a time, or in batches) and sync down, the refresh of the access token
that all requests share, and the key value stores.  Line numbers are those of the Android
sources unless a path says otherwise; `PROJECT.json` gives, for every definition, the
lines it models.  Nearly all of the files below `src/` are third-party sources
(`src/ios/Pods`: SQLCipher, Boost, Folly and others), of which nothing is modelled.

Contents: [1 the system](#1-the-system) · [2 the modules](#2-the-modules) ·
[3 the runs](#3-the-runs) · [4 what is proved](#4-what-is-proved) ·
[5 findings](#5-findings) · [6 known weaknesses](#6-known-weaknesses) ·
[7 not modelled](#7-what-is-not-modelled) · [8 plan](#8-plan)

## 1 The system

```
  JavaScript, Cordova, native screens         (React Native bridges, hybrid plugins)
        |  sync, reSync, stop, restart, ...        |  create, update, query, alterSoup
        v                                          v
  SyncManager --execute--> pool of one thread --> SmartStore --> SQLCipher, blob files
        ^                    | SyncTask            ^
        | rows of syncs_soup |                     | soup elements
        +--------------------+---------------------+
                             | RestClient (token refresh)
                             v
                    the REST API of the server
```

### 1.1 Components

| component | state | operations | modelled in |
|---|---|---|---|
| SyncManager (`SyncManager`, `SyncTask`, `CleanSyncGhostsTask`, `SyncState`) | `INSTANCES`, `state`, `activeSyncs`, the pool's queue and thread; the rows of `syncs_soup` on disk | `getInstance`, `createSync*`, `syncUp/Down`, `reSync`, `cleanResyncGhosts`, `stop`, `restart`, `deleteSync`, `reset`; the task's life | `SyncManager`, `SyncLifecycle`; proofs in `SyncManagerProofs` |
| Long operations (`AlterSoupLongOperation`, parts of `SmartStore`, `DBHelper`, `DBOpenHelper`) | the soup's tables, `soup_index_map`, `soup_attrs`, `long_operations_status`, blob files, the features cache | the six steps of `alterSoup`, resumption when the database is opened | `AlterSoup`, `AlterSoupProofs` |
| Element operations of `SmartStore` | the elements of a soup, their index columns and files | `create`, `update`, `delete`, `retrieve` | `AlterSoup` (with their locks), `Records` (as atomic writes) |
| Sync up (`SyncUpTask`, `SyncUpTarget`, `SyncTarget`) | the ids still to send, the copy in hand, the last error | one record: read, compare dates, send, save | `SyncUp`, `Records`, `MobileSync`; proofs in `MobileSyncProofs`, `MobileSyncKeysProofs`, `MobileSyncEditsProofs`, `MobileSyncDatesProofs` |
| Sync down (`SyncDownTask`, `SoqlSyncDownTarget`, `SyncDownTarget`) | the cursor, `maxTimeStamp`, `idsToSkip` | `startFetch`, save a page, `continueFetch`, `cleanGhosts` | `SyncDown`, `Records`, `MobileSync`; proofs as for sync up |
| Composite sync up (`AdvancedSyncUpTask`, `BatchSyncUpTarget`, `CollectionSyncUpTarget`, `CompositeRequestHelper`) | the records read, those that may be sent, the batch, its answers | compare all dates, fill a batch, send, save the answers, send again | `BatchSyncUp`, `MobileSync`; proofs as for sync up |
| Token refresh (`ClientManager.AccMgrAuthTokenProvider`, `RestClient.OAuthRefreshInterceptor`) | the access token of the interceptor and of the account, `gettingAuthToken`, `lastNewAuthToken` | refresh on 401, shared by the waiting threads, logout | `TokenRefresh`, `TokenRefreshProofs` |
| Key value stores (`KeyValueEncryptedFileStore`, `MemCachedKeyValueStore`) | the files of keys and values, the `-tmp` directory, the encryption key, an LRU cache | save, get, delete, delete all, change of the encryption key | `KeyValueStore`, `KeyValueStoreProofs` |
| Parent-children targets | records of two soups in one request | batches of trees | not modelled, see 7 |
| Analytics (`EventStoreManager`, publishers) | event files and a cached count | store, publish, delete | not modelled, see 7 |
| iOS sync manager and store | as above, on dispatch queues | as above | not modelled, see 7 |
| Queries, other targets, layout and metadata managers, configuration, accounts, login, screen lock, push, bridges, plugins, sample, third-party code | | | not modelled, see 7 |

### 1.2 How they interact

- Any thread of the application calls `SyncManager`.  `runSync()` checks `activeSyncs`
  and `state` without the monitor, constructs a task (which enters its id in
  `activeSyncs` and saves RUNNING) and hands it to a pool of one thread.  `stop()`,
  `restart()`, `addToActiveSyncs()` and `removeFromActiveSyncs()` are synchronized.
- The task reads and writes soups through SmartStore and calls the server through
  `RestClient`.  `checkAcceptingSyncs()` between pages and records is how `stop()`
  reaches it: the call throws, and the task reports STOPPED.
- `syncs_soup` is the only memory that outlives the process.  The constructor of the
  next `SyncManager` turns the rows that say RUNNING into STOPPED.
- Every method of SmartStore is synchronized on the database object and, when it
  writes, takes SQLCipher's connection from `beginTransaction()` to
  `endTransaction()`.  `alterSoup` is a loop of steps with no lock between two of them,
  and each step takes the connection first and the monitor in the calls it makes.
- Every request of a user goes through one interceptor.  A 401 makes the thread of the
  request ask the account's token provider for a new token; one thread refreshes, the
  others wait for it, and each sends its request once more.  The provider's exception for
  a lost refresh is what a sync sees as a revoked token (`RunRevoked` of `SyncManager`).
- The application writes the same soup elements a running sync reads and writes.  The
  `__local__`, `__locally_created__`, `__locally_updated__`, `__locally_deleted__` flags
  of an element are the whole protocol between the two.

### 1.3 What is hard, and what makes each component correct

- *SyncManager*: check-then-act without a lock; a stop that has to reach a task wherever
  it is; a process death between any two saves; an old manager whose task lives on after
  `reset()`.  Correct when a row that says RUNNING has a task that will report, an id in
  `activeSyncs` has a task that will remove it, there is one task per sync, STOPPED means
  that no task is left, a stop completes, and the status of a row follows
  NEW/final → RUNNING → one final status.
- *Long operations*: six transactions, with other threads and process death between and
  inside them, files that do not take part in a transaction, a cache that any reader may
  refill.  Correct when no element is lost, duplicated or changed, and when what comes
  out has the storage and the index columns that were asked for.
- *Sync up*: reading a record, asking the server and saving the answer are three moments;
  answers get lost; other clients change the server.  Correct when an edit of the user is
  accepted by the server or still there with its flag, when no record is created twice,
  and when LEAVE_IF_CHANGED replaces nothing the client has not seen.
- *Sync down*: a run ends between any two pages and a later one resumes from
  `maxTimeStamp`; the application edits meanwhile.  Correct when the next run asks for
  everything the soup does not have, when an edit of the user survives, and when only
  records the server has deleted are removed.
- *Composite sync up*: many records are read and compared at one time and sent later, each
  has its own answer, and an answer may ask for the whole batch to be sent again.  Correct
  when, besides what sync up promises, the answers go to their records.
- *Token refresh*: any number of threads share one token, one refresh and three fields,
  and a refresh fails in several ways.  Correct when one thread refreshes at a time,
  nobody waits for a notification that nobody will send, nobody is given the token the
  server refused, the account holds no older token than a client, and every request ends.
- *Key value stores*: a key is two files and a cache entry, which calls of other threads
  come between, and the change of the encryption key replaces the whole directory.
  Correct when between calls the files and the cache are what the last call left, and when
  no step of a change of the key has a value nowhere but in memory.

`PROJECT.json` lists the hazards line by line with the properties aimed at each.

## 2 The modules

```
  SyncLifecycle  <--implements--  SyncManager  <--about--  SyncManagerProofs
                                       ^-- MCSyncManager
  AlterSoup <-- MCAlterSoup
            <--about-- AlterSoupProofs
  Records <-- SyncUp <-- BatchSyncUp --+
          <-- SyncDown ----------------+-- MobileSync <-- MCMobileSync
                                             <--about-- MobileSyncProofs <-- MobileSyncKeysProofs
                                                              <-- MobileSyncEditsProofs
                                                              <-- MobileSyncDatesProofs
  TokenRefresh  <--about--  TokenRefreshProofs
  KeyValueStore <-- MCKeyValueStore
                <--about--  KeyValueStoreProofs
```

Names beginning with `Bug` are what a definition would be with a plausible error in the
code.  Each is defined before the definition it stands in for and used by nothing: put in
its place it breaks the property it is listed with (`PROJECT.json`, "mutants").

### 2.1 SyncManager, SyncLifecycle

The state is that of the Java objects: `state`, `active` (the keys of `activeSyncs`),
`queue`, `shut` and `worker` (the pool), per instance, since `reset()` and process death
leave an old instance behind; `store` is the status in `syncs_soup`, the only part that
survives `Crash`.  `monitor` is the intrinsic lock of an instance while a thread is
inside `restart()`, the one synchronized method that does more than one step.  `lost` is
a history variable: the tasks of which the code itself lets go.

A calling thread runs `runSync()` in the steps another thread can come between:

| step | code |
|---|---|
| `Submit` (`CreateSync`, `ReSync`, `CleanResyncGhosts`) | the row exists, `syncUp`, `reSync`, `cleanResyncGhosts` |
| `CheckNotRunning`, `CheckAccepting` | `runSync` 440, 441 |
| `AddToActiveSyncs`, `MarkRunning` | the constructor of `SyncTask`: the id, then `updateSync(RUNNING)`, which throws when the row has been deleted |
| `Execute` | `threadPool.execute`, which throws after `shutdownNow` |

`restart()` is `Restart`, `RestartQuery` and then, for each stopped sync, the steps above.
The worker thread is `TakeTask`, `CheckIfStopRequested` or `StopReported`, `RunPage`…,
`RunDone`/`RunFailed`/`RunRevoked`, `SaveFinal`, `RemoveFromActiveSyncs`; a ghosts task,
whose `updateSync` does nothing, is `RunGhosts` and goes straight to the removal.
`getInstance` is `GetInstance`, `CleanupRow` for each interrupted row and
`RegisterInstance`.  What a run does to records is one step here (`RunPage`) and the
subject of `SyncUp` and `SyncDown`.

Every sync of the model is of a type that `cleanResyncGhosts()` accepts; the type and
existence checks that throw before anything has changed are guards.  A sync is named by
its row: names and callbacks are left out.

`SyncLifecycle` is what a reader of `syncs_soup` may rely on, with one variable: the
status of each sync.  `SyncManager` implements it with `status <- store`.

### 2.2 AlterSoup

`db` is the committed database: the two tables, `soup_attrs`, what `soup_index_map`
holds, and the step in `long_operations_status`.  `blobs` and `blobDir` are the files of
an externally stored soup and their directory, `cache` is the features cache of
`DBHelper`.  A row has its body and two index columns: one of a path that is indexed
before and after, one of a path that the alteration adds.  Rolled back is what has not
been written to `db`; files are never rolled back.

`alter` is the thread of the operation.  `BeginTransaction` takes the connection; each of
the six steps, with the calls it makes and `Commit`, is then one action, because no other
thread can read or write the database until `endTransaction()` (SQLCipher's lock, which
is external).  A step that enters a synchronized method of SmartStore waits for the
monitor (`AlterMayEnter`).  What has effects outside the transaction is apart:
`COPY_TABLE` with files moves one element per action (`MoveBlobToRow`, `MoveRowToBlob`)
and ends with `CommitMove`; a crash may come after each.  An exception is `Rollback`.
`OpenDatabase` resumes an operation that has a row, as the operation of that row.

`app` are the other threads.  A call takes the monitor (`Enter`), has to wait for the
connection, and then changes the file of its element inside its transaction (`CreateElt`,
`UpdateElt`, `DeleteElt`, with `SaveBlob`); `EndCall` commits the row, or rolls it back
when the file could not be saved.  A process death may come between the two.  `CallFails`
is a call that finds no table, no index specs or no directory and throws; a `create()`
that finds no table has looked up the features by then, and cached them.  `seq` is the
AUTOINCREMENT counter of a table.  `torn` is a history variable: the ids whose file a call
has changed and not their row, because the process died or the file could not be saved.

### 2.3 Records, SyncUp, SyncDown, MobileSync

The content of a record is the number of the edit that made it, and the number of the
edit that created a record is its key: the external id, and what makes two records "the
same".  So every value can be traced to who wrote it.  `latest`, `settled` and `exposed`
are history variables: the last edit of the application on an element, the edits the
server has carried out, and those made while a task held a copy of the element, which
the code does write over.

The server, its other clients and the application are external.  The server is what the
targets expect of it: ids, dates that never go back, 404 for what has been deleted, an
upsert by external id, a cursor that returns what matched when the query was made.  The
application writes an element and adds a flag to those it has, as `SObjectDataManager.m`
of the sample MobileSyncExplorer does.

`SyncUp`: `StartSyncUp` reads the dirty ids, then for each `ReadRecord`, `CheckModDate`
(with LEAVE_IF_CHANGED), the request, and `SaveRecord`.  A request may be refused, not
arrive, or be carried out and its answer lost; the last two are the same `IOException`
to the code and fail the run.

`SyncDown`: `StartSyncDown` (with what `reSync()` does to `maxTimeStamp`), `StartFetch`,
`GetIdsToSkip`, then for each page `SavePage`, `SaveProgress`, `ContinueFetch`, and
`EndSyncDown`; a run may end as STOPPED or FAILED between two of them.  Ghosts are
`StartGhosts`, `GetRemoteIds`, `DeleteGhosts`.

`MobileSync` puts all of them on the one thread of the pool, over the same soup.  What a
sync and its surroundings may do is a variable, `conf`, that the initial states choose
from `Confs` and that never changes: the merge modes, external ids, the order of the
query, the kind of target, the operations of the application and of other clients, the
ways a run may end, and the bounds of that configuration.  One run of TLC then covers the
configurations that belong to one question, which `MCMobileSync` spells out
(`RecordsConfs`, `BatchConfs`, `ReRunConfs`, `DuplicateConfs`, `FailedDownConfs`).

### 2.4 BatchSyncUp

`batch` is the task of `AdvancedSyncUpTask`: `ReadRecords` reads all elements that are
still there, `CheckModDates` compares the dates (record by record, or in one request for
a collection target), `FillBatch` is the loop up to the next call of `syncUpRecords()`.
`SendRequests` is the request of a batch: one composite request, or for a collection
target one request for each kind of operation, in the order of `RequestType`.  The server
carries out any part of a batch, refuses the rest record by record, and its answer may
be lost.  `SaveAnswer` saves the answers in the order of the batch; `ReRun` is the
branch that sends the batch a second time.  The elements of a map or list of the code are
sets here, taken in the order of the ids; the position of an answer in its list is
`AnsweredIds`.

### 2.5 TokenRefresh

A thread per request, a token per number: the server issues 1, 2, … and any token may be
refused at any time, which covers expiry.  `pc` follows a request through `intercept()`
(sent, refused, got, updated, renewed, resent) and `getNewAuthToken()` (refreshing or
waiting, refreshed, woken).  The two threads that matter meet in `provider`: `getting` is
`gettingAuthToken`, up while one refreshes, `last` is `lastNewAuthToken`.  Both are read
and written under one lock, so `GetNewAuthToken` and `Publish` are atomic; the refresh
itself, the waiting and what the interceptor does with the result are not.
`RefreshGranted`, `RefreshDenied` and `RefreshLost` are the three ways a refresh ends, a
granted one possibly with an exception afterwards.  `Logout`, `Leave` and `Restart` are
the account's side.

### 2.6 KeyValueStore

`dir`, `tmp` and `exists` are the directories on disk: for each key the file of the key
and the file of the value, each absent, opened and not yet written (`Broken`), empty because
its content could not be encrypted (`Unencrypted`), or with a content and the encryption key
it was written under.  A file that is under another key than `encKey`, or is empty, reads as
nothing.  Each call of a thread is the sequence of its file operations and of what it does to
the cache; only `deleteValue()` is synchronized, so anything may come in between, another
change of the encryption key too.  A file is written in three steps, as in
`encryptBytesToFile()`: `Encrypt`, under the key of that moment, which may fail and tells
nobody; `Open`, which empties it; `Write`.  In `CopyFile` they are one, since only changes of
the key touch the directory of the copy, and two of them leave every key tainted.  The file
of the version is left out, but for a copy that fails on it (`CopyFails`).

The documents promise nothing for calls that overlap, and the code keeps no order between
them.  `expected` is what the last call has left in the store and `tainted` the keys of
which that cannot be said: two calls overlapped on them and not both only read, a save
failed, a leftover of a failed change was there when the next began, or `renameTo()`
failed.  A save, or a deletion of everything, that nothing overlaps makes its keys good
again: that is checked too, whatever came before.
`Unencrypted` marks the empty file of a failed encryption apart from that of a save still
at work: on disk both have length zero.  The properties name it as the only way in which a
call that returns true leaves less than it was given.
A process death needs no action here.  What a property says of every state of the files
it says of those a death leaves behind.

## 3 The runs

A property is stated once, with its comment, in the module of the state it is about.

| run | question | properties | states |
|---|---|---|---|
| manager_concurrent | two threads, every operation, process death, `reset()` and a second instance: does every active id and every RUNNING row have its task? | TypeOK, ActiveIsOwned, NoOrphanRunning | 1 700 000 |
| manager_serial | one thread, process death, failures: one task per sync, STOPPED is quiet, the rows follow SyncLifecycle; a stop completes unless a task was lost; every run is reported | OneTaskPerSync, StoppedIsQuiescent, LifecycleSpec, OnlyLostHoldsUpStop, RunsAreReported | 75 000 |
| manager_ghost_stop | does every stop complete, with a ghosts task in the queue? no | StopCompletes, violated | – |
| alter_concurrent | every pair of storages, process death and calls of another thread during an alteration: elements are kept, indexes are current, the operation completes | TypeOK, IndexesAreCurrent, ContentChangesOnlyByCalls, OperationCompletes | 423 000 |
| alter_blob_crash | process death while files are copied into the database | ContentChangesOnlyByCalls, violated | – |
| records | sync up and sync down of one soup in four configurations: up with external ids and LEAVE_IF_CHANGED, sorted down, both ways unsorted with OVERWRITE, both with failing downs | TypeOK, EditsSurvive, IdsAreUnique, NothingMissed, OneRecordPerKey, GhostsAreDeleted, LeavesChanged | 4 665 000 |
| records_failed_down | a sorted sync down that fails between two pages | NothingMissed, violated | – |
| records_duplicate | a lost answer, then a sync down, then the sync up again | IdsAreUnique, violated | – |
| batch | sync ups in batches, composite and collection, both merge modes | TypeOK, EditsSurvive, OneRecordPerKey, IdsMatch, BatchLeavesChanged | 2 770 000 |
| batch_rerun | nothing fails and no answer is lost: is every record created once? no | CreatedOnce, violated | – |
| token | three requests, refused tokens, refreshes granted, denied and lost, interrupts, logout, process death | TypeOK, OneRefreshAtATime, WaitersAreWoken, GivesNewerToken, StoredIsNewest, EveryRequestEnds | 274 000 |
| key_value | two threads, two keys, two encryption keys, failing files, failing encryption | TypeOK, FilesAreLast, CacheIsLast, ChangeKeepsValues | 3 590 000 |

### 3.1 Bounds

Every bound is a CONSTANT that a guard names.

- *manager_concurrent*: two callers and one sync — what two threads can do to each other
  needs one id; `MaxInst = 2`, an old and a new instance; `MaxPages = 0` and no `fail`,
  since pages and failures change nothing the two threads can see (they are in
  manager_serial, and the proofs of section 4 have no bound at all).
- *manager_serial*: two syncs, two instances, two progress updates, two queued tasks: a
  task on the thread, one waiting behind it, and the next instance after process death.
- *manager_serial* checks liveness as well.  RunsAreReported excepts a `restart()` that is
  called again and again: a thread inside it holds the monitor the worker needs, and a
  Java monitor is not fair.
- *manager_ghost_stop*: one sync, one page, one place in the queue: all the counterexample
  needs.
- *alter*: one other thread, two soup ids — one element copied and one to copy, or one
  created during the alteration — and two values, old and new.  Which operations may come
  during which alteration is `Ops`: `Disturbed` has what the alteration withstands.  What it
  does not is stated in 6, and the theorems of 4.4 say for each property what that is.
- *records*: two or three elements and records, four edits, three or four dates: enough
  for a record and a duplicate of it, an edit before, in and after a window, and two
  pages with a change between them (`PageSize = 1`).  Each configuration has bounds of its
  own (`MCMobileSync`).
- *batch*: batches of two out of up to three records: a full batch, an incomplete one after
  it, and a batch in which one record has another answer than its neighbour.
- *token*: three requests: one that refreshes, one that waits, and one that is late and
  begins a second refresh.
- *key_value*: four calls of two threads: a call that leaves something behind, a change of
  the key, and two more that meet it; `MaxCalls` is what makes the model stop.  Threads, keys
  and values are symmetric (`MCKeyValueStore`): the run has invariants only.  The
  theorems of section 4.3 have none of these bounds.

### 3.2 Fairness

Safety runs assume none.  `FairSpec` of `SyncManager` has weak fairness for each thread
inside a method and for each worker: a thread that can run is scheduled, and a network
request ends, if only by its time-out.  Nothing obliges an application to call anything,
or the process to die or not to.  `FairSpec` of `AlterSoup` has weak fairness for the
thread of the operation and for each thread inside a method of the store.  `FairSpec` of
`TokenRefresh` has weak fairness for each step of the thread of a request that has been
sent: the server answers or the connection fails, and a thread that has been notified gets
the lock, which is held for a moment only.  It obliges nobody to send a request.
`KeyValueStore` has none; all its properties are about safety.

`CHECK_DEADLOCK FALSE` stands where the model really stops: `AlterSoup_concurrent.cfg` (the
alteration is over, or a step and a call wait for each other, section 6),
`TokenRefresh.cfg` (every request has ended and the account is gone) and
`KeyValueStore.cfg` (all calls have been made).

## 4 What is proved

Every theorem is for any values of the constants that satisfy the ASSUMEs of its module.

### 4.1 SyncManager

`SyncManagerProofs` proves, for any sets of callers and syncs and any bounds, from the
assumptions `BoundAssumption`, `OpsAssumption` and `NoSyncAssumption` of `SyncManager`:

- **TypeCorrect**: `Spec => []TypeOK`.  `TypeOK` is not inductive: that `Execute` queues a
  task and not `NoTask`, or that `Throw` frees the monitor of a real instance, depends on
  where a thread is.  `TypeInv` adds `ThreadsOK` (a thread past `Submit` has a task and an
  instance, a worker that is busy has a task) and `ConstructorOK` (a constructing thread
  has used up no instance yet).
- **NoRunningRowIsOrphaned**: `Spec => []NoOrphanRunning`.  `NoOrphanInv` adds the rows a
  constructor has not reached yet, which nobody is going to report and which are still in
  its `todo`, and the fact that only the task of a sync, never a ghosts task, is at
  `markRunning`.  The argument: a row becomes RUNNING only when its thread steps to
  `execute`; the task then moves caller → queue → worker, and each move takes it from one
  disjunct of `WillReport` to the next (lemmas `CoveredByCaller`, `CoveredByWorker`);
  `SaveFinal` removes it after it has written the row; where the code drops a task,
  `lost` records it; after process death nobody is registered until a constructor has
  gone through all the rows.  `Frame` is the case of every step that touches no RUNNING
  row and no task.

- **ActiveSyncsAreOwned**: `Spec => []ActiveIsOwned`.  With `TypeInv` it is inductive.  An
  id enters `activeSyncs` with its caller at `markRunning` or `execute`; from there its
  owner moves caller → queue → worker, and the worker's removal takes the id out.  Two
  tasks may own one id; the first removal then only helps the second (`ActiveFrame`).

Three theorems are about one calling thread and no `reset()`, any failures and process
deaths.  `Serial` says so and is their hypothesis; with a second thread each of them is
false (section 6).

- **OneTaskWhenSerial**: `Serial => (Spec => []OneTaskPerSync)`.
- **StoppedWhenSerial**: `Serial => (Spec => []StoppedIsQuiescent)`.
- **ImplementsLifecycle**: `Serial => (Spec => LifecycleSpec)`, the refinement of
  `SyncLifecycle`.

All three follow from one invariant, `SerialInv`: only the registered instance has work;
what `runSync()` has checked stays true until the task is in the queue (`CallerOK`); a
queued task is active, the only one of its sync, and its row says RUNNING or is deleted
(`QueueOK`); so is the task on the thread, but one whose row is gone may have left
`activeSyncs` already and report a second time (`WorkerOK`); a manager that says STOPPED
has no active id.  The delicate case is `RemoveFromActiveSyncs`: it ends the protection of an id, and the
invariant has to know that no other task with that id is left.

The proofs are by cases on the actions.  What a step does to the record of its thread is
stated once by the "effect" lemmas, field by field, so that the cases do not expand the
EXCEPTs.

### 4.2 TokenRefresh

`TokenRefreshProofs`, for any set of requests:

- **TypeCorrect**, **RefreshIsExclusive** (OneRefreshAtATime), **WaitersGetNotified**
  (WaitersAreWoken), **RetriesWithNewer** (GivesNewerToken), **AccountHasNewest** (StoredIsNewest), all from
  one inductive invariant.  GivesNewerToken speaks of a thread that is back from
  `getNewAuthToken()`; the reason lies earlier.  `NewestIsHeld` says that a token that was
  obtained and not yet published is newer than every token anybody has sent, and
  `LastIsNewer` that the threads its publication has woken find a newer token in
  `lastNewAuthToken`, even when another refresh begins before they have the lock.

### 4.3 KeyValueStore

`KeyValueStoreProofs`, for any sets of threads, keys, values and encryption keys and any
number of calls.  Assumed: key 1 is one of the encryption keys (`BoundAssumption`), and
the marks for "no file" and for the two kinds of empty file are no values and no contents of
a file, and an empty file is not a missing one (`NoneAssumption`).

- **TypeCorrect**, **FilesHoldLast** (FilesAreLast), **CacheHoldsLast** (CacheIsLast),
  **ChangeLosesNothing** (ChangeKeepsValues).

The properties speak of the time between the calls; the invariant says, key by key, where a
call is (`KeyInv`).  Of a key that is not tainted at most one writer is at work (`Excl`),
and its program counter says what the files are: a deletion that has removed the file of
the key has yet to remove the value (`DeleteOK`); a change has in the copy what it has
taken off its list, and a complete copy holds under the new key what the store holds under
the old one, but for copies that could not be encrypted (`ChangeOK`, `CopyHolds`).  An
original that is empty ends the change before it, since it cannot be read.  `Done` says what a save or a deletion of everything
has achieved even for a tainted key, as long as no call overlaps it: that is why it may
take the taint away.  A step keeps `KeyInv` of a key it is not about (`OtherKey`); for its
own key `WriterMoves`, `WriterReturns` and `ReaderStep` reduce it to what the step does to
the files.

### 4.4 AlterSoup

`AlterSoupProofs`, for any sets of threads and elements and any choice of the operations
that may happen during each of the alterations (`Ops`).

- **TypeCorrect**: `Spec => []TypeOK`, whatever happens.  `TypeInv` says, by the last step
  that was committed, which of the two tables exist, with which columns, where the loop
  over the elements stands (`AlterInv`, `StepInv`, `RowsInv`), and what a call holds before
  and after it has changed a file (`AppInv`, `CallInv`).
- **ContentCorrect**: `Spec => ContentChangesOnlyByCalls`, when `KeepsContent(a, Ops[a])`
  holds of every alteration.  Added are `LayoutInv`, that the cached features are those of
  the table, and `MovedInv`, that a file the loop has written holds the element of its row.
- **IndexesCorrect**: `Spec => []IndexesAreCurrent`, when `KeepsIndexes(a, Ops[a])` does.
  Added is `KeptInv`: the column of a path that is indexed all along follows its element
  from the old table, through the memory of the loop, to the new one, but for the elements
  whose file a call has changed and not, or not yet, their row (`Loose`).

The hypotheses name what may not happen in an alteration to or from files.

| alteration | KeepsContent excludes | KeepsIndexes excludes |
|---|---|---|
| rows become files | retrieve, create, a file that cannot be saved | the same |
| files stay files | – | delete |
| files become rows | process death | a process death together with a retrieve or a create |

Each is needed: without it TLC finds the property violated, but for two that an alteration
hides.  While files become rows a process death alone breaks the content, and with a
`create` the indexes too; with a `retrieve` the operation never completes, so that
IndexesAreCurrent has nothing to say.

### 4.5 MobileSync

Four modules, for any number of elements, edits, dates and pages, any target, faults and
calls; a bound of the model is an assumption of no theorem.

- **TypeCorrect** (`MobileSyncProofs`): `Spec => []TypeOK`.  What a task has in hand was
  read some steps ago; it is still an element or an id because both only grow.
- **IdsMatchCorrect** (`MobileSyncKeysProofs`): `Spec => []IdsMatch`, by `KeyInv`: the key
  of a record never changes, and each copy of a record, and each id that the server gave
  for one, has its key with it, in the soup, in the record in hand, in a batch and its
  answers, in a page.  The answers of a collection target are told apart by their order
  alone; `Rank` counts the new records, and the lemmas about it show that the n-th answer
  gets to the n-th of them.
- **IdsAreUniqueCorrect**: unless external ids and sync downs come together (finding 4),
  by `IdInv`, that an id has one holder among all these places, and `OneElementPerKey`.
- **OneRecordCorrect**: OneRecordPerKey, for a target that sends one record at a time, and
  for every target when there is no sync down, by `OneRecord`.
- **EditsSurviveCorrect** (`MobileSyncEditsProofs`): EditsSurvive, unless external ids,
  sync downs and ghosts come together (section 6).  `EditsInv`: each copy of an element
  whose edit is at stake has that edit and the flags that send it, an answer is saved only
  for an edit the server has, and nothing at stake is among what a page may write over or
  the removal of ghosts may delete.
- **LeavesChangedCorrect**, **BatchLeavesChangedCorrect**, **GhostsAreDeletedCorrect**
  (`MobileSyncDatesProofs`): the three action properties.  What was seen when dates were
  compared stays true until the request is carried out, because a later change of the
  record is a later edit (`UpSeen`, `BatchSeen`); the second for the targets of
  IdsAreUniqueCorrect, since two records of a batch with one id change what the other has
  seen.  A ghost's id is gone for good, since the server gives no id twice (`GhostInv`).
- **NothingMissedCorrect** (`MobileSyncDatesProofs`): NothingMissed, in every configuration
  in which no two changes have one date (`"ties"`, section 6), the application purges no
  element that is in sync, and a sorted sync down neither fails (finding 3) nor meets an
  id with two elements, on which it would fail (finding 4: no external ids).  The property
  says nothing of a run; `ResumeInv` does: each live record is in the soup as the server
  has it or with a change to send, or in what the run has fetched and not saved, or later
  than all that (`RunInv`); the date of the run follows what is saved (`RunDates`); a
  record that the page leaves alone has a change to send (`SkipInv`).  Sync ups, between
  two sync downs, keep it because what they remove from the soup, or save without its
  flags, is gone from the server or has a date later than the last sync down's (`UpDates`,
  `BatchDates`).  TLC had checked `ResumeInv` on seven configurations before.

Each step of a task has lemmas that say what it does, field by field (`...Effect`), and
for the steps of the others a frame: `Keeps` for the keys, `Calm` for the edits.

### 4.6 What is only model-checked

- Liveness (TLAPS does not support fairness and ENABLED here): OnlyLostHoldsUpStop,
  RunsAreReported, OperationCompletes, EveryRequestEnds.

## 5 Findings

Each is a run that TLC ends with a counterexample; `PROJECT.json` quotes what the code
says of itself.

1. **A queued ghosts task blocks stop() for ever** (manager_ghost_stop,
   `CleanSyncGhostsTask.java:53`).  `run()` begins with `checkIfStopRequested()`; when it
   throws, the task reports STOPPED through `updateSync()`, which `CleanSyncGhostsTask`
   overrides with nothing, and the removal from `activeSyncs`, in its `runSync()`, is never
   reached.  The manager stays in STOP_REQUESTED and refuses the sync as still running.
2. **Files are removed before the transaction that replaces them commits**
   (alter_blob_crash, `AlterSoupLongOperation.java:593`).  Altering an externally stored
   soup to internal storage, a process death inside `COPY_TABLE` rolls the rows back; the
   files that were already copied are gone, and their elements with them.
3. **A sync down that failed between two pages skips records** (records_failed_down,
   `SyncManager.java:423`).  With records ordered by date `maxTimeStamp` moves after every
   page.  `reSync()` steps back by one only from STOPPED.  After FAILED the next run asks
   for later dates only, and the rest of the records of the last date is never fetched.
4. **Two elements with one server id** (records_duplicate, `SyncUpTask.java:141`).  An
   upsert is carried out and its answer lost; a sync down brings the record in as a new
   element; the next sync up repeats the upsert and gives the first element the same id.
   Every later sync down that receives the record fails.
5. **A batch that is sent again creates records twice** (batch_rerun,
   `BatchSyncUpTarget.java:165`).  `needReRun = needReRun || updateRecordInLocalStore(…)`
   stops calling the method once one record has to be created anew (it was deleted on the
   server and the merge mode is OVERWRITE).  The answers to the records after it are not
   saved, so the ones that were just created are still locally created when the batch is
   sent a second time, and are created again.  Nothing has to fail for it.

## 6 Known weaknesses

Behaviours met while modelling that no document of the repository denies, or that need
two threads the documents say nothing about.  The models contain them; the properties
are stated so that they are named exceptions, or the run leaves out the call.

*SyncManager*
- Two threads that run the same sync can both pass `checkNotRunning()` before either has
  entered the id (440, 441): two tasks write one row.  One that passes
  `checkAcceptingSyncs()` before another calls `stop()` leaves a manager that says STOPPED
  with a task.  OneTaskPerSync and StoppedIsQuiescent are checked with one thread.
- `restart(true)` gives up at the first stopped sync whose task has saved its status but
  not yet left `activeSyncs`, or whose row has been deleted: the exception leaves the
  loop, and the syncs after it stay stopped.
- `reset()` shuts the pool down but does not wait: the task on the thread goes on and
  writes rows while the next instance starts, whose "no sync could be running already"
  then does not hold.
- A refresh token that has been revoked ends the task without a status and without the
  removal (`SyncTask` 86); a deleted row makes the constructor throw after it has entered
  the id (`addToActiveSyncs`, then `save`).  Both are in `lost`.

*Long operations*
- Lock order: a step holds the connection and asks for the monitor, a call holds the
  monitor and asks for the connection.  A call that meets such a step waits for ever, and
  the operation with it.
- Between the renaming and the copy the soup is empty for others: `delete()` of an element
  does nothing and the copy brings it back; `create()` gives ids from 1 that the copy then
  conflicts with, and the operation fails until that row is deleted.
- An operation that is resumed while the database is being opened has no key for files:
  one that touches the files of a soup never completes.
- `getFeatures()` caches what it reads: a `retrieve()` between two steps, or a `create()` that
  meets the renamed table (1104, before the insert fails), refills the cache with the
  features of before, and the new table gets the columns of the old storage.
- Calls change the file of an element inside the transaction of its row (1124, 1309, 1463): a
  process death before the commit leaves the new file, or none, with the old row.  An update
  whose content cannot be encrypted empties the file and rolls the row back: the element is
  gone.  (`torn`.)
- `copyOldData()` does not look at what `saveSoupBlobFromString()` returns (610): a file that
  cannot be saved while rows become files loses its element with the old table.
- A row created in the new table before the copy has the id, and so the file, of an old
  element, and overwrites it.

`MCAlterSoup` leaves out what breaks a property of an alteration.  While rows become files:
`retrieve` and `create`, which refill the cache, and `unwritable`, which loses the element;
each alone makes ContentChangesOnlyByCalls and IndexesAreCurrent fail.  While files stay
files: `delete`, which, meeting the renamed table, removes the file and not the row, so that
the copy brings back a row without its element (IndexesAreCurrent).  While files become rows:
process death, which loses the elements whose files are removed (finding 2), and `retrieve`,
which makes the update of the row fail for want of a column, so that the operation never
completes; with `create` the indexes fail after a process death.

*Sync up and sync down*
- An edit that the application makes after its element was read for sending is written
  over by the answer and loses its flag; so is one made after `getIdsToSkip()` was read
  when a later page brings the record; and an element edited after the ids were read as
  clean is deleted as a ghost if the server has deleted it.  (`exposed`.)
- After an update the element keeps the old LastModifiedDate.  With LEAVE_IF_CHANGED the
  next edit is compared with it and not sent until a sync down has fetched the record.
- The filter is "later than" and dates have seconds: a record changed within the second of
  `maxTimeStamp`, after the query, is missed.  The runs that check NothingMissed let later
  changes have later seconds.
- Without an external id field a lost answer to a create makes two records of one.
- With an external id field, sync downs and the removal of ghosts an edit can be lost.
  After finding 4 two elements have the same id, one of them with an edit to send.  When
  the server has deleted the record, `cleanGhosts` looks up the ids of the elements that
  have nothing to send and deletes by id: the other goes with it.
- An element that is deleted between the reading of the ids and its turn fails the run.
- When an element was purged after the ids were read, a batch target's list of records is
  shorter than its count: `get(i)` throws before the last, incomplete batch is sent, and
  those records wait for another sync.
- A batch target compares all dates before the first request: the last batch goes out on
  dates as old as the run.  (`seen`.)
- A collection target's requests go out one kind after the other: one that fails leaves the
  records of the kinds before it changed on the server and dirty here.
- `SyncState.fromJSON` reads `endTime` from the field of `startTime` (249).
- `hasSyncWithName()` and `upsert()` are not in one transaction: two threads can create two
  syncs of one name (`SyncState` 218).
- A callback that throws out of `updateSync(DONE)` makes the sync FAILED (`SyncTask` 148).

*Token refresh* (`RestClient`, `ClientManager`)
- A thread whose 401 is for a token that has been replaced meanwhile refreshes once more
  (no comparison with the token that was sent), and the interceptor's token is set
  outside the lock (`RestClient` 811): it may go back to the older of the two.
- Every exception of a refresh, a network failure too, becomes a null token, and that a
  `RefreshTokenRevokedException` (807); any error answer of the token endpoint logs the user
  out (`ClientManager` 586).
- The instance URL is read twice (811, 814); a refresh lost in between makes `new URI(null)`
  throw a NullPointerException out of the interceptor (`crashed`).
- `wait()` is not in a loop: an interrupted thread is given the token that was refused.
- With several users the provider refreshes the token of the one that is current at the
  time (`ClientManager` 548); the model has one user.
- The host of a request is compared with the host it was just found equal to (710), so that
  the replacement after a change of the instance URL never happens.

*Key value stores*
- A `getValue()` that meets a `deleteValue()` or a `saveValue()` can leave the old value in
  the cache; `deleteValue()` of a key that has no file any more does not remove it.
- A save that fails has emptied the file; the cache keeps the old value.
- `encryptWithoutBase64Encoding()` returns null when it fails (`Encryptor` 316), and
  `encryptBytesToFile()` then leaves the file empty without an error (465).  `saveValue()`
  returns true, and the value is in the cache only.  `changeEncryptionKey()` with a key that
  cannot encrypt (one that is not Base64, or of a wrong length) empties every copy, deletes
  the originals (370) and returns true: all values are gone.  A later change stops at the
  first empty file and returns false.  An empty file of the version makes the next opening
  take the store for one of version 1.
- A change of the encryption key that fails leaves its copies in the `-tmp` directory, and
  the next change brings those of deleted keys back.
- The result of `renameTo()` is not looked at; after a process death between the deletion of
  the directory and the renaming nothing looks for the `-tmp` directory, although all
  values are in it.

## 7 What is not modelled

- Parent-children targets: a tree of records over two soups in one request.  They share
  `AdvancedSyncUpTask` and the composite requests with what is modelled, and the re-run of
  finding 5 (`ParentChildrenSyncUpTarget.java:226`); the tree itself is left out.
- Events (`EventStoreManager`): `countEvents` is changed by several threads without a lock
  and compared with `maxEvents` before the write, so that the limit and the count are
  approximate by construction.
- The iOS sync manager and store: a second implementation, with dispatch queues in place of
  the pool.  Its lifecycle of a sync is the same, its interleavings are not, and the proofs
  about `SyncManager` say nothing about it.
- Queries (`SmartSqlHelper`, `QuerySpec`, SOQL and SOSL builders), REST requests, the
  bridges and plugins, configuration files: translation of values, no state of their own.
- Database opening and re-keying, accounts, login, application manager, screen lock, push
  notifications, the iOS core: calls to the platform, driven by its user interface.
- The other sync down targets (refresh, briefcase, MRU, layout, metadata): they choose
  other ids; pages are saved, and runs resumed, by the same code.
- Two combinations no configuration of the record runs has: sync downs with OVERWRITE, which
  replace local changes because the application asks for it, and the batch re-run of
  finding 5 together with external ids (*batch* has external ids with LEAVE_IF_CHANGED only).
- Full-text tables, `registerSoup`, `deleteByQuery`, `clearSoup`.
- The deletion of a single file of a key value store is taken to succeed; `deleteValue()` does
  not look at it for the file of the key, and `deleteAll()` for none.
- Callbacks of the application, names of syncs, times of runs, field lists, and what the
  text of a request or an error says.
- The sample application and third-party code.

## 8 Plan

What is left, in the order of what it would add.

| step | module | what | properties |
|---|---|---|---|
| 1 | `SyncManagerIOS` | `SFMobileSyncSyncManager.m` on its queue, implementing `SyncLifecycle` | as `SyncManager` |
| 2 | `ParentChildrenSyncUp` | trees of records over `Records` | EditsSurvive, OneRecordPerKey, children follow their parent |
| 3 | `EventStore` | the cached count and the files | the count and the limit |

Abstract specifications worth stating, besides `SyncLifecycle`: the content of a soup as a
map that only calls change, implemented by `AlterSoup` (today the action property
ContentChangesOnlyByCalls); a token service that hands out a token newer than the one
refused or fails, implemented by `TokenRefresh` (today GivesNewerToken).
