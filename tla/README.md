# TLA+ specifications of PBVex

PBVex is a backend framework on PocketBase: an application is uploaded as a
bundle (a *deployment*), its functions run in a JavaScript runtime inside the
server, and clients follow query results over realtime streams.  These modules
specify the parts of the server that keep state that several goroutines,
processes or requests change, in `backend/internal`, and the language of queries
and documents that its functions use.

| File | What it is |
|---|---|
| `Scheduler.tla` | the durable job scheduler: service, worker, leases, crashes |
| `JobQueue.tla` | what the scheduler promises about a job (abstract) |
| `SchedulerProofs.tla` | proofs about `Scheduler`, checked by TLAPS |
| `MCScheduler.tla`, `Scheduler*.cfg` | its instances for TLC |
| `Storage.tla` | file storage: uploads, deletions, variants, cleanup worker, host quota |
| `StorageProofs.tla` | proofs about `Storage` |
| `MCStorage.tla`, `Storage*.cfg` | its instances for TLC |
| `Deployments.tla` | upload, activation, rollback, migrations, history, cron |
| `Releases.tla` | what the deployment service promises (abstract) |
| `DeploymentsProofs.tla` | proofs about `Deployments` |
| `MCDeployments.tla`, `Deploy*.cfg` | its instances for TLC |
| `Realtime.tla` | realtime streams: subscriptions, sessions, invalidation, reconnection |
| `RealtimeProofs.tla` | proofs about `Realtime` |
| `MCRealtime.tla`, `RealtimeStreams.cfg` | its instance for TLC |
| `Runtime.tla` | the JavaScript runtime: slots, pools, the writing transaction, nested calls |
| `Executions.tla` | what the runtime promises its observer (abstract) |
| `RuntimeProofs.tla` | proofs about `Runtime` |
| `MCRuntime.tla`, `RuntimeCalls.cfg` | its instance for TLC |
| `Hosting.tla` | metering of executions: the observer, its client, the provider |
| `HostingProofs.tla` | proofs about `Hosting` |
| `MCHosting.tla`, `HostingMetering.cfg` | its instance for TLC |
| `NativeFiles.tla` | the byte quota of files PocketBase keeps, and the provider's account |
| `MCNativeFiles.tla`, `NativeQuota.cfg` | its instance for TLC |
| `NativeFilesProofs.tla` | proofs about `NativeFiles` |
| `Keyring.tla` | the keys that sign URLs of files |
| `KeyringProofs.tla` | proofs about `Keyring` |
| `MCKeyring.tla`, `KeyringRotation.cfg` | its instance for TLC |
| `Values.tla` | values, validators, order keys, document ids (operators) |
| `Filters.tla` | filters of queries: what is accepted, the SQL they become, what they mean (operators) |
| `Documents.tla` | documents and paginated queries of a table while secrets rotate |
| `MCDocuments.tla`, `Documents.cfg` | its instance for TLC |
| `PROJECT.json` | components, runs, the source lines of every definition, hazards, findings |

Run `tlc -workers 2 -config X.cfg MCx` and `tlapm X.tla` for the proofs in this directory.

## The system

### Components, their state and what makes them correct

- **Job scheduler** (`scheduler/service.go`, `worker.go`).  State: the rows of the
  scheduled-jobs collection (status, due time, attempts, lease token and expiry,
  deployment), the pin counts of deployments; per process the execution slots,
  the polling goroutine, a `runJob` goroutine and a heartbeat per claimed row, and
  the table of cancellers.  Correct when only the holder of the lease
  records a result, a cancelled job stops, no job starts early, every job ends, a
  job's deployment is there when it runs.
- **Recurring schedules** (`scheduler/cron.go`).  State: the registered cron
  jobs.  Correct when they are those of the active deployment.
- **Deployments and migrations** (`deploy/service.go`, `repo.go`,
  `migrations.go`).  State: deployment records with an active flag and a pin
  count, a state record with the active and the previous id, the documents.
  Correct when switches are atomic, the rollback target exists, documents
  conform to the active schema.
- **File storage** (`storage/`).  State: upload tokens with their claims, file
  rows with owner and lease, objects in a store that has no transactions,
  byte reservations at the hosting service.  Correct when a file that was
  acknowledged stays until it is deleted, a token is used once, bytes
  are neither lost from the account nor credited twice, and everything a crash
  left behind is resolved.
- **Storage quota** (`storage/quota*.go`, `nativequota.go`, `hosting/storagequota`).
  State: the sizes a save stashes, reservations and credits at the provider.
  Correct when the account never falls below the bytes on disk and is exact when
  nothing fails.
- **Storage signing keys** (`storage/keyring.go`).  State: rows, a copy in memory,
  the lock over both.  Correct when a URL that is out verifies until it expires,
  and a mutation that signs does not wait for its own transaction.
- **JavaScript runtime** (`runtime/runtime.go`, `invocation.go`, `execution.go`).
  Root execution slots, a pool of slots per deployment, nested calls, the single
  writing transaction of the database.  Correct when slots and the transaction are
  conserved, an answer tells whether the writes committed, and every call returns.
- **Runtime database API** (`runtime/database.go`) **and schema** (`schema/`).
  Documents with their order keys, ids, cursors, the secrets both are signed with.
  Correct when pages list every document once in order, a cursor continues only
  its own query, ids survive rotations, and a filter in SQL selects what it says.
- **Realtime** (`realtime/`).  Subscriptions, sessions, the activation generation.
  Correct when no invalidation is lost and no subscription outlives a switch of
  deployment.
- **Hosting observer** (`pbvex/hosting_observer.go`, `hosting/client.go`).
  Executions in flight, the unhealthy latch; the provider's reservations.  Correct
  when no user code runs unmetered and what is uncertain latches.
- **TypeScript client** (`packages/client/src/realtime.ts`).  Subscriptions, the
  stream, one control request in flight.  Correct when the server ends up watching
  what the client wants.
- Process wiring, HTTP API, authentication, wire protocol, manifest validation,
  CLI, framework bindings: pure functions, I/O or glue.

### How they interact

Calls resolve the active deployment, or, for jobs, the one pinned to the row, and
run in the runtime under its manifest; a function's mutation is one database
transaction, in which it may also schedule or cancel jobs and issue upload URLs
(for which it asks the keyring).  The runtime asks the hosting observer before it
runs user code and tells it when that ended.
Committed writes tell the realtime broadcaster.  The
scheduler's worker polls the database, so that processes interact
through its rows only.  Activation and rollback migrate the documents and
switch flags and state in one transaction, and after it tell the broadcaster and
the cron manager.  History trimming deletes deployments that no job row, pin or
rollback needs.  The storage cleanup worker works on the same rows and objects as
uploads and deletions in progress.

### What is hard

Compare-and-swap on rows that several processes poll; resources held while
waiting for others (slots, the transaction, the lock of the keyring); requests to
a provider that are answered late, twice or never; state read before a
transaction and used in it; notifications after the commit; an object store
without transactions beside the database; leases that lapse under slow owners;
crashes between any two of these.  `hazards` in `PROJECT.json` lists them
with their source lines and the properties that cover them.

## Conventions

- A database transaction, or a single `UPDATE ... WHERE`, is one step.  What a
  handler reads outside its transaction is a step of its own, as is an access to
  the object store and a signal between goroutines.
- Merged into one step are, where nothing in between can be told apart: in `Storage` the
  accesses by which one call undoes its own attempt (`RejectStored`, `CommitFails`: stage,
  row, claim and reservation are its own, and a crash between them is a loss of some), the row
  and the stage of `RecoverUploading`, and the listing of a prefix with its deletion
  (`DeletePrefix`: a variant written between the two is as one written before or after); in
  `Scheduler` the last update of an attempt with the slot its deferred call gives back.
- A handler's errors are steps that leave what the code leaves.
- An operator `X_Y` is `X` with one fault put in (a dropped condition, a missing
  reset, a wrong order).  They are not part of any specification: replacing `X` by
  `X_Y` makes a property fail, which shows that the property depends on the code
  being right there.  `PROJECT.json` lists the pairs (`mutants`).
- `PROJECT.json`, `map`, gives for each definition the source lines it models.

## Scheduler

| Variable | Code |
|---|---|
| `row` | a row of the jobs collection; `left` and `due` are its `leaseExpiresAt` and `scheduledAt` relative to now |
| `store`, `pins` | deployment records, their `pinCount` |
| `up`, `sem` | the process and `len(Worker.sem)` |
| `poll` | the polling goroutine in `tick` / `claim`: the batch it read and how long ago |
| `att` | the `runJob` goroutine for a lease token, with its heartbeat |
| `op` | calls of `Service.Cancel` |

Actions: `Schedule`, `Retry`, `Cleanup`, `CancelCall` to `CancelReturn` (read,
compare-and-swap, signal, reload), `Publish`, `Trim`; `Poll`, `AcquireSlot`,
`ClaimHit`, `ClaimMiss`, `AbandonBatch`; `Register`, `Begin`, `Renew`, `Return`;
`Stop`, `AbortCalls`, `StopDone`, `StartWorker`, `Crash`, `Tick`.  Time is
relative: `Tick` lowers every distance by one and saturates at `-MaxAge`.

| Run | Instance | Shows |
|---|---|---|
| `scheduler_race` | 1 job, 2 processes of 1 slot, 2 tokens, 1 caller, 1 attempt per job, 1 fault | `CancelStopsAttempt`, `SnapshotAvailable`, `OnlyOwnerSettles` |
| `scheduler_liveness` | 2 jobs, 1 process of 2 slots, punctual heartbeats, 3 attempts per job, 1 fault, fair | `SlotsAccounted`, `EventuallySettles`, `NoUnnecessaryTheft`, `ImplementsQueue` |

Bounds.  One job is enough for ownership, because the code's writes name one row;
two processes and two tokens give an attempt and the one that takes over while
the first is still running.  Tokens are reused when nothing refers to them any
more, so behaviours are of any length and takeovers follow one another.  `MaxAge` bounds
how long a batch waits for a slot,
`MaxFaults` the crashes, stops and failed writes, `AttemptCap` saturates the
counter one above `MaxAttempts`, the only value it is compared with.  A handler's
error ends the job in `scheduler_race`, where a job comes back by deferral,
`Service.Retry` or the stop of its worker; it is retried with a delay in `scheduler_liveness`.
`ImplementsQueue` says that with every detail hidden but status, owner and live
attempts the scheduler is a `JobQueue`.

Fairness (`scheduler_liveness` only).  Weak fairness of a goroutine that can
run: polls, registration, begin, heartbeats, the end of a stop, and the restart of
a stopped process.  `Return` is fair because the handler has a deadline
(`MaxExecutionDuration`).  `Tick` needs strong fairness: in this instance heartbeats
are punctual, which is a guard on `Tick` that other steps disable and enable
again.  Nothing is assumed of service calls or faults.

## Storage

| Variable | Code |
|---|---|
| `token` | the upload token row, its claim and whether the claim lapsed |
| `file` | the file row: status, owner, lease |
| `blobs` | objects: `<<id, attempt>>` staged, `<<id, "final">>`, `<<id, "thumb">>` a variant |
| `up`, `fin`, `era`, `view` | calls of `Upload`, `finalizeUpload`, `deleteBlob`, `ensureThumb` |
| `cl` | the cleanup goroutine: the pass it is in, what it listed, what it is at |
| `quota`, `credits` | the host's view: reservation of an attempt, deletion reports for a file |
| `acked`, `requested` | what callers were told: uploads answered, deletions committed |

Between two steps of an upload the cleanup pass, a deletion, another upload
with the same token, a download and the lapse of a lease or claim may
come.

| Run | Instance | Shows |
|---|---|---|
| `storage_overlap` | 1 file, 2 attempts, 1 fault, cleaner at any time | `OneUploadPerToken`, `NeverUndercounted`, `OnlyLapsedReclaimed` |
| `storage_recovery` | the same, `Overlap = FALSE`, fair | `FilesLastUntilDeleted`, `NeverOverCredited`, `RowsResolve`, `NoObjectOutlivesDeletion` |
| `storage_finalize_race` | 1 file, 1 attempt, no fault | violates `FilesLastUntilDeleted` |

`Overlap` states an assumption the code does not enforce: that
`recoverStaged` does not list a file whose upload is in `finalizeUpload`.
With it the properties of the second run hold; without it the third shows the
uploaded file marked lost.  The same meeting lets a whole-record save of
`finalizeUpload` or `markFileLost` overwrite a deletion, so that
`NeverOverCredited` too is claimed only under `Overlap = FALSE`.

Bounds.  Files do not interact except through `MaxFiles` (1 here, so
that a second reservation is refused), so one file suffices; two attempts are the
owner and a rival with the same token.  One fault per behaviour; the fault may
be any crash, lost write, missed renewal or report to the host that is never sent
(a listing that failed before a deletion).

Fairness (`storage_recovery` only).  Weak fairness of the steps of calls in
progress and of the cleanup goroutine, which a timer runs.  The lapse of a lease is
strongly fair: its guard is false while the cleaner is in the pass that
compares leases with the time it read, so it is enabled again and again.

Left out: image decoding and formats, quota of variants, downloads that do not
create a variant, `BackfillPublicTokens`.  Keys of URLs are in `Keyring`, the quota
of files that PocketBase keeps in `NativeFiles`.

## Deployments

| Variable | Code |
|---|---|
| `stored`, `older` | deployment records and the order of their `created` |
| `flagged` | records with `active` set |
| `current`, `previous` | `activeId`, `previousId` of the state record |
| `docs` | the schemas that documents conform to |
| `job` | the deployment a job row names |
| `cron` | the deployment whose schedules the cron manager registered |
| `req` | what each request or job attempt is at, and what it has read |

Actions: `LookUp`, `Create`, `Trim` (upload); `ReadCandidate`, `Activate`;
`ReadActive`, `ReadTarget`, `Rollback`; `Notify`; `Resolve`, `StartJob`, `Run`,
`ScheduleJob`, `CronTick`, `CleanUpJob`; `GiveUp` (any error before a commit);
`Crash`, `WarmActive`.  `MigrateDocs` is `planMigrations`, `schemaMigrationWork`,
`applyMigrationPlans` and `materializeDocuments` seen from the set of schemas:
skip an unchanged table, run a chain that reaches, refuse one that does not,
normalize without one, and fail if a document does not fit.

| Run | Instance | Shows |
|---|---|---|
| `deploy_release` | 4 deployments on 2 schemas, 2 requests, 1 job, crashes | `RollbackTargetKept`, `SwitchesAtomically`, `HistoryHolds`, `OnlyStaleWritersMix` |

Bounds.  Four deployments with a history of one are the least with which a
deployment that has served can be trimmed (active, rollback target, one kept, one
gone).  Two requests are what every hazard listed for this component needs: one
that has read and one that changes.  There is no bound on the number of
switches, uploads, jobs or crashes.

`OnlyStaleWritersMix` is the strongest statement about documents that holds: it is
false that documents always conform to the active schema, because calls and jobs
write under the deployment they resolved.  `HistoryHolds` says that a record which
is removed leaves `HistoryLimit` newer ones that history may drop: neither active, nor
rollback target, nor named by a job row; one of these counted among the kept would
push out a record that belongs to history.  Pin counts are modelled in `Scheduler`
(`SnapshotAvailable`); here a job row's reference is what keeps its deployment.  `Resolve` reads the state and the record in one step.

## Realtime

| Variable | Code |
|---|---|
| `active`, `data` | how many switches of deployment and how many writes have committed |
| `generation`, `registered`, `sessions` | `Broadcaster.generation`, `subs`, `sessions` |
| `announced`, `toCancel`; `told`, `toNotify` | the loops of `ReconnectAll` and `InvalidateAll` in progress, one for each switch or write |
| `conn` | a handler (`Handle`, `HandleSession`): where it is, its admission generation, its context |
| `call`, `calls`, `listed` | `HandleSessionControl`; `session.subs` |
| `sub` | a `Subscription`: its goroutine, snapshot, context, notification, `admissionPaused`, `lastSent` |
| `stream` | who holds `eventStream.mu` |
| `shown`, `seen` | what the client was sent: subscribe events, the last message |

Actions: `Activate`, `ReconnectAll`, `CancelSub`, `CancelSession`; `Commit`,
`InvalidateAll`, `Notify`; `Admit` to `ReturnPlain` and `ReturnSession` (a
handler); `FindSession` to `Reply` (a control request); `Acquire` to `Forget`
(a goroutine); `Disconnect`.  A write to a stream is two steps, the lock taken
with the context checked and the lock released, because the client may be slow
and everyone else on the stream waits; it succeeds or breaks the stream.  A query
is as many: the slot, the reading of the data, the comparison with `lastSent`.
What the code does under one lock is one step (`Enlist`: both the
session and the broadcaster locked).  A control request is one at a time, as
`sync` of the client sends them, with no assumption about their contents.  The
contents of a result are the number of the last write it saw.

| Run | Instance | Shows |
|---|---|---|
| `realtime_streams` | 1 session, 1 plain connection, 2 ids, 1 query slot, 3 events | `PinnedToActive`, `FreshWhenQuiet`, `MessagesInOrder`, `NothingOutlivesHandler`, `NeverStuck` |

Bounds.  `MaxEvents` limits control requests (2), switches (1) and writes (1)
to three in all: two requests replace a subscription whose query is running, a
switch or a write comes at any moment of them.  A request adds one id, so that the
ids of one request come one after the other only as an unsubscribe and a
subscribe; two requests reach the limit of subscriptions.  `MaxSubs` is large enough not to
matter: the run would deadlock on it.  `MaxConnections = 1` makes one
connection come before the other: they share nothing but the slots of queries, for which
a replaced subscription and its successor compete as well.  Pings are unbounded.

`NeverStuck` is checked instead of a liveness property: it says that a state in
which no goroutine can move has no cancelled stream left open, and that such a state
is one where the guards of `CanServe` are all false: where a goroutine looks as if it
could move, it can.  `RealtimeProofs` goes on from these guards.  Goroutines stop
by themselves apart from pings (reruns need writes), so that with weakly fair
goroutines and a fair mutex handlers do return.  It assumes that queries end (they have a
deadline) and that a write to a client that does not read fails in the end.

`NothingOutlivesHandler` makes one exception: `sendError` writes from the
control request, outside the wait group of the session, so that such a write can
still run when the handler of the stream has returned (`session.go:129`).

## Runtime

| Variable | Code |
|---|---|
| `pool`, `made` | the entry of `Manager.pools` for the deployment; a new fingerprint makes a new one |
| `slots`, `others` | `Manager.executionSlots`; those that calls of other deployments hold |
| `sem` | the semaphore of each pool, of dropped ones too |
| `tx` | who holds the only writing connection of the database |
| `call` | a root invocation: where it is, its deadline, its budget, and a stack of frames, one for each virtual machine |
| `open`, `began` | what the observer was told |
| `durable` | how many mutations of a call have committed |

Actions: `CompileDeployment`, `Drop`; `InvokeWithDatabase`, `InvokeHTTP`,
`InvokeMigration`, `VerifyDeployment` (admission, which refuses at once);
`BeginTx`, `AcquirePool`, `GiveUpPool`; `LoadBundle` to `Finish` (one frame);
`RunNested`, `BeginNestedTx`, `ReturnNested`; `ReleasePool`, `Return`; `Expire`,
the deadline or the caller gone.  User code is whatever it can do: return, throw,
panic in a host function, call, catch what a call threw.

| Run | Instance | Shows |
|---|---|---|
| `runtime_calls` | 2 calls, 2 root slots, 1 pool slot, calls nested two deep, 2 pools | `ResourcesAccounted`, `AnswerTellsCommit`, `ImplementsExecutions`, `CallsReturn` |

Bounds.  The circle of waiting needs two calls: a root mutation that holds the
transaction and waits for the pool, and an action that holds the pool and waits
for the transaction.  `MaxOthers` lets the process be full for reasons that this
deployment does not see.  Two pools let a call return to the one it took its slot
from while the deployment has another, or none.

`ImplementsExecutions`: with `open`, `began` and the answers alone the runtime is
an `Executions`, the contract that the comments of `execution.go` give: begun
and ended once, properly nested, and a call answered as refused has run no handler.

Fairness.  A deadline passes (`Expire`), and a call whose context has ended goes
on: waiting for a pool is abandoned, a machine is interrupted.  Nothing is
assumed of calls that have not expired, so that `CallsReturn` does not rest on
well-behaved user code.

Left out: a COMMIT that fails with an unknown outcome (`AnswerTellsCommit` speaks of
commits that say what they did); the look at the context at the start of `acquireRoot` and
`acquire`, after which a call ends as one whose context ends while it waits; and
`MaxConcurrentExecutions = 0`, which means no limit, so that there is nothing to account for.

## Hosting

| Variable | Code |
|---|---|
| `exec` | an execution: where `Begin` or `End` is, the attempt of the exchange, whether an earlier one is uncertain, its caller gone |
| `tracked`, `unhealthy` | `inFlight` and the latch of the observer |
| `external` | what the observer behind this one was told |
| `net` | requests the provider has not acted on |
| `policy`, `admission`, `events` | the provider: whether it allows, its state of each reservation, the identities it has recorded |

`Begin` and `End` are as many steps as they have exchanges, and an exchange is
`Call`, then `ServeHTTP` or `GiveUp`: a request the client has given up on may
still be acted on, or be lost (`Lose`).  `Restart` is a new process with a new
session.  The provider is modelled from `hosting/reference.go`.

| Run | Instance | Shows |
|---|---|---|
| `hosting_metering` | 2 executions, 1 slot in the client, 2 or 3 attempts, 4 faults | `RunsAreMetered`, `UncertaintyLatches`, `NoConflict`, `ReservationsSettle` |

Bounds.  Four late answers are what it takes to exhaust the retries of an
admission and of a report, or of a completion and one more.  One slot in the
client makes "busy", which is a refusal only if no earlier attempt is in doubt,
come of the other execution.

Fairness.  The server goes on with what it began, user code has a deadline, and
a request that is waited for is answered or given up.

## Native files

| Variable | Code |
|---|---|
| `row`, `disk` | the file names of the record, the objects (a file and its thumbnail) |
| `save` | an update of the record, with what `nativequota.go` stashes in it |
| `net`, `reservation`, `credits`, `used` | as above, for the account of bytes |
| `floored` | history: what credits would have taken the account below zero by |

What PocketBase does between the hooks (`Load`, `Write`, `Commit`, `RemoveOld`,
`CleanUp`) is external and modelled from the hooks around it.  `RemoveOld` deletes the
names that the update drops from the record as it was loaded, the same that
`nativeStashDeleteSizes` measures; `ExactWithoutFaults` rests on this reading.  If
PocketBase took them from the latest row instead, two updates could leave a file deleted that
nobody credits, without any fault.

| Run | Instance | Shows |
|---|---|---|
| `native_quota` | 2 updates of one record, 4 faults, room for one upload | `OnlyDoubleCreditsUndercount`, `WithinCapacity`, `ExactWithoutFaults` |

Bounds.  Two updates race for the quota and for the same old file; sizes 1 and 2,
with a thumbnail of 1, tell every wrong sum from the right one.  Four faults
exhaust the retries of a settlement and of a credit.  A fault is a late answer, a
failed storage operation or a crash.  Files are measured, deleted and checked one by one,
each of which can fail alone.

The invariants allow for the one error the code admits, that two updates both
credit the file they both dropped (see Observations), and say that there is no other.

## Keyring

| Variable | Code |
|---|---|
| `db`, `age` | rows of the keyring, and the age of each key |
| `mem` | the struct: `loaded`, `current`, `keys` |
| `lock`, `writer` | `k.mu` while it is held across a write; the mutation whose transaction is open |
| `pc`, `key`, `delay` | a signer, visitor or the worker: where it is, the key it chose, how long ago |
| `url` | the longest time that a URL signed with the key still has |

What happens under the lock without a database access is one step; `generate`
waits for the writer of the database with the lock held and is a step of its own.
A failure is a write or a read of rows that fails, a pruning that stops after some of the
rows, or a restart.
`Prune` deletes rows without the lock and forgets them under it.

| Run | Instance | Shows |
|---|---|---|
| `keyring_rotation` | 1 mutation, 1 signer, 1 visitor, the worker, 3 keys, 1 fault | `SignedURLsVerify`, `MutationsGoOn` |

Bounds.  Ids are reused when nothing refers to them, so that rotations go on
without end; three keys are the current one, one in its grace period and one being
made.  Rotation 2, grace 4 and TTL 3 keep the relation that `NormalizeConfig`
enforces (grace is at least the longest TTL plus a margin).  `MaxDelay`, 1, is how long a
process may sit between choosing a key and computing the expiry, and what a URL may
outlive its key by; `SignedURLsVerify` is about URLs with more left than that, so a
URL is checked while it is fresh and when it has been out for a tick.  With rotation after two
ticks the key of such a URL may have been rotated, so that the URL verifies only because of the
grace period: without it the run finds a URL that no longer verifies one tick after it was
signed.

Fairness.  A signer that can go on does (a deadline ends its wait for the writer);
`CurrentCommitted` is strongly fair because Go's `RWMutex` lets no waiter
starve.  Nothing is assumed of visitors and the worker: `CircularWait` says where they
may hold the mutation up.

## Values, filters and documents

`Values` and `Filters` are operators only: validation with defaults and unions
(`NormalizeDocument`), order-preserving keys (`OrderKey`), the projections rows
store (`OrderData`), ids with their signatures (`EncodeID`, `VerifyID`); then which
filters are accepted (`Accepted`), what the SQL they are compiled to yields with
its three-valued logic (`Sql`), and what they mean for a document (`Meaning`).

| Variable of `Documents` | Code |
|---|---|
| `rows` | rows of a table: data, projections, creation time |
| `secrets`, `older` | `pbvex_schema_state`: the secrets of cursors and ids; rows whose ids were made by the versions before |
| `deployment` | the active one, which cursors name |
| `pager`, `touched` | a client that lists page by page, and what was written meanwhile |

Actions: `Insert`, `Patch`, `Replace`, `Delete`; `StartPaging`, `NextPage` (with
whatever arguments, and whatever query the handler makes of them), `Abandon`;
`Rotate`, `Activate`, `Tick`.  A call is one transaction, and one step.

| Run | Instance | Shows |
|---|---|---|
| `documents` | 3 rows, 2 writes, 3 listings, 2 rotations, 2 deployments | `PagesExact`, `ContinuesSameQuery`, `IdsResolve`, `FiltersExact` |

`PagesExact` compares pages, which come from keys and SQL, with a listing stated of
documents alone.  `FiltersExact` compares, for each of 11 documents that may come to
be stored and each of the 1535 filters accepted among 4880 over a field of
most kinds, what SQL selects with what the filter means.

Bounds.  Two writes between pages insert before and after the cursor, delete or
move what it names, in ascending and in descending listings (the descending one has one
document per page); two rotations put an id beyond the previous cursor secret; two rows
can have the same key, so that ties are broken by age and id.  `CHECK_DEADLOCK
FALSE` because every counter is bounded.  Numbers are integers, so that precision
and infinities are left out.

## Findings

`PROJECT.json`, `findings`, has the one disagreement that a run shows: the double
finalization in storage (`storage_finalize_race`).

### Observations

Behaviour met while modelling that contradicts no statement of the repository a
run could check, or that a property states as its exception.

- *Slow poll* (`worker.go:148`, `170`, `192`).  A claimed lease is counted from the
  clock read before the poll waits for execution slots.  After a wait longer than
  the lease the row looks abandoned at once.  `NoUnnecessaryTheft` is therefore checked with
  waits shorter than the lease; `OnlyOwnerSettles` holds without that.
- *Attempts* (`worker.go:229`, `566`).  `MaxAttempts` is compared only when an attempt
  is retried: a job whose process crashes every time is taken over without
  end, beyond the "up to five attempts" of `docs/guides/scheduling.md:210`, which
  speaks of retries.
- *Stale writers* (`deploy/service.go:1711`, `1785`, `runtime/database.go:536`).  A call that
  resolved before a switch writes under the schema it resolved.
  `OnlyStaleWritersMix` says that nothing else mixes schemas.
- *Announcements* (`deploy/service.go:551`, `1426`).  Two switches may announce
  themselves to the cron manager in the other order, which then keeps the schedules of
  the deployment that was replaced, until the next switch or restart.
- *Double credit* (`storage/nativequota.go:359`).  Two updates that drop the same
  file may both measure it and both find it gone.  A credit that comes before the settlement
  of what it credits is floored at zero and lost, which overcounts.
- *Circular wait* (`storage/keyring.go:124`).  The worker, or a visitor whose request
  makes the first key, waits for the writer of the database with the lock of the
  keyring held, while a mutation that holds the writer waits for the lock to sign a URL.  Neither
  has a deadline.  `MutationsGoOn` names it (`CircularWait`) as the only exception.
- *Late expiry* (`storage/keyring.go`, `signURL`).  A URL's expiry is computed after its key
  was checked, so that it can outlive a committed key by the time in between
  (`MaxDelay`).
- *Filters left to SQLite* (`runtime/database.go:1798`).  A field that may be null, of any
  type or a union, compared with a computed expression, is compared by SQLite, where null
  makes the comparison null and drops the row in both polarities, although validation is
  to see to it that filters "never accidentally" leave three-valued logic to SQLite (comment
  at 116).  `div`, and `mod` compiled to `a - b * floor(a / b)` (comment at 1755), divide with
  SQLite's `/`, which truncates when both operands are integers; literals without a fraction
  are bound as integers.  `FiltersExact` excludes both (`LeftToSQLite`, `Uneven`).
- *Null* (`schema/order.go:196`).  A null that `literal(null)`, or a nullable type
  inside `recursive`, accepts has no order key, so that a document that validates
  cannot be stored (`Storable`).  Normalisation with a union whose branches add defaults
  is not idempotent.
- *Not covered*: a job fails for good when its process stops while it resolves the
  snapshot (`worker.go:304`); pools of trimmed deployments are dropped after the
  transaction, so that one uploaded again in between loses its pool until it
  is compiled again (`deploy/service.go:1901`); `resolve` reads the active id and its
  record in two queries (`deploy/service.go:1478`).

## Proofs

All proofs hold for every value of the constants that satisfies the module's
`ASSUME`; where a theorem needs more, its statement says so and the text below says
why.

`SchedulerProofs`.  The inductive invariant is `IInv`:

1. `TypeOK`;
2. `WellFormed`: a goroutine or call that is at work has a job and a process, a
   cancel call that found a job not running remembers no lease;
3. `LeaseIdentifiesOwner`: a row has a token exactly while it runs, no two
   rows have the same, and a token's attempt works on the row that has it;
4. `CancelInv`: from the compare-and-swap of a cancel call on, no row has the token
   it cleared, and once the call is done the attempt does not run.

`LeaseIdentifiesOwner` alone is not inductive: the freshness of a
claimed token refers to attempts, polls and calls.  `CancelStopsAttempt` needs
4, because an attempt that has not passed its ownership check could otherwise
still find its row.  From `IInv` follow `TypeCorrect`, `LeaseTheorem`,
`CancelTheorem` and, with a look at each action, `NeverEarlyTheorem`,
`OnlyOwnerTheorem`.  Four theorems rest on `IInv` and something of their own:

- `SnapshotTheorem`: the snapshots are kept while a row names them.
- `QueueTheorem`: the scheduler implements `JobQueue`.  Every action maps to one step of
  the queue or to a stutter (`PollImplements` to `TickImplements`); `IInv` is needed
  where an attempt ends or renews, because only the ownership of the token
  shows that the row it writes is the one the queue means.
- `SlotsTheorem`, by `SlotsInv`: an attempt that has ended belongs to no process, and the
  attempts of a process are finitely many and together with its poll as many
  as its semaphore counts.  Finiteness is part of the invariant because the set of
  tokens may be infinite.
- `NoTheftTheorem`, by `Margin`: a lease lasts at least until the next heartbeat, with
  `Slack = LeaseDuration - MaxAge - RenewInterval` to spare.  Its hypotheses: heartbeats
  and polls are on time (`Punctual`), heartbeats are apart (`RenewInterval > 0`), and
  `MaxAge + RenewInterval <= LeaseDuration`, a poll waits for slots no longer than a
  lease lasts less an interval.  The code sees to the part without `MaxAge`
  (`NewService` halves the lease when the interval is not shorter, and has no heartbeat
  when that gives zero);
  it bounds neither a wait nor a late goroutine, and without those hypotheses the
  property is false: that is *Slow poll* under Observations.

`StorageProofs`.  Two invariants, because the finding divides what the code keeps
from what it does not.

1. `Inv` holds however cleanup passes and uploads overlap: types; the file a call
   works on; `Spent` (a committed upload has spent its token, which is why a
   rival cannot commit), `Staged` (a stage belongs to the upload it is named for, which
   has received it and whose bytes are not released) and `Settled` (bytes are released
   by an upload that has failed).  From it follow `OneUploadTheorem`,
   `NeverUndercountedTheorem` and `OnlyLapsedTheorem`.
2. `Serial` needs `~Overlap`, as its theorems state.  A finalization is
   alone with its file (`PhaseQuiet`, `CleanerSole`, `CommittedStaged`, `TodoStaged`);
   only what was asked for is erased (`AskedRows` to `DeletingAsked`); an original
   exists from its copy to its deletion (`FinalRows` to `OrphanFinal`); a report
   follows the end of its bytes (`UncopiedFinal` to `AskedNotLost`).  From it follow
   `FilesLastTheorem` and `NeverOverCreditedTheorem`.  Without the hypothesis the first is
   false: `storage_finalize_race`.

`StorageAssumption` says that names differ (a stage is named by an attempt, never
"final" or "thumb", and no object key is `None`): in the code the path of a stage has
`_stage` in it and the key of an object is never empty.

`RuntimeProofs`.  `Inv` has two halves.

1. `Good` says of one call what its stack of frames is: a call that runs has
   frames, the root is of the call's kind, the frames below the top are actions
   inside their handlers, and the executions that are open are those of the frames in
   their order (`Nesting`).  `Unrefused` and `Written` relate the answer to whether
   a handler began and to what is durable.
2. `TxHeld`, `SlotsHeld` and `PoolsHeld` count what calls hold together.  They
   need `Good`: a call holds the transaction for its root or for its top frame, never
   for both, and which pool a slot goes back to is the call's, not the registry's.

A step of one call leaves the others good (`OthersGood`), so that each action needs
an argument about one call; counting uses the library's facts on adding and
removing one element.  From it follow `ResourcesTheorem`, `AnswerTheorem` and
`ObserverTheorem` (the runtime implements `Executions`), for every number of calls, any
depth of nesting and any size of the pools.

`DeploymentsProofs`.  The inductive invariant is `TypeOK`, `OneActive`,
`RollbackTargetKept`, `JobsResolve` and `NothingServed` (before the first
activation no call, job, announcement or schedule exists).  The parts need each other:
trimming goes by the state record, so that it spares the rollback target only
if the record names it; the flags follow the state record because both are
written in one step; a rollback uses ids it read earlier, and the comparison
with the state record inside the transaction is what makes them current.  From it
follow the four invariants as theorems, `Refinement` (the service implements
`Releases`: an activation or a rollback is one step of it, every other step a
stutter) and `StaleWriterTheorem` (`OnlyStaleWritersMix`), for every number of
deployments, schemas, requests and jobs and whatever migrations exist between
schemas.  `HistoryTheorem` has an invariant of
its own, `Chronological`: records are finitely many and their creation is a strict order.
Behind a surplus deployment stand the unreferenced ones newer than the newest surplus one, none
of which is surplus (`KeptBehind`); that there is a newest is the well-foundedness
of strict inclusion between finite sets, which the library states without an
operator parameter.

`RealtimeProofs`.  That variables keep their kinds is proved together with two facts
that need and are needed by it:
`WellFormedCalls` (a control request that is about to cancel or to announce a
subscription names one of its own session, and an id of a session stands for a
subscription that was made for it) and `WellFormedSubs` (a goroutine that has left
its tables is in none, a plain connection that is served has its
subscription).  `IInv` adds to them:

1. `Fenced`, for `PinnedToActive`: as long as the generation that a handler or a
   request read at admission is the current one, no switch after the one it
   resolved against has announced itself.  A registration compares the generations under
   the lock under which `ReconnectAll` lists whom to cancel, so that a
   subscription is either refused or listed.
2. `Locked`, for `NothingOutlivesHandler`: who is at work when the lock of a stream
   is held; a handler that returns has waited for all of them but a request that
   reports an error.
3. `Ordered`, for `MessagesInOrder`: of the subscriptions made for one id on one
   stream only the last can be live, and one that is live and runs has been
   announced.  It rests on `LiveIsListed` (a new subscription is made only for an
   id that stands for none) and on `Locked` (a subscribe event is written under the
   lock, so that no older subscription is in the middle of a write).
4. `Fresh`, for `FreshWhenQuiet`: a subscription is registered until its goroutine leaves,
   so that a write that is announced finds it; what it reads, sends and has sent is
   the current state of the data, or a notification is on its way (`Quiet` is false).
   Of a paused one it says more: the refusal stays, quiet or not, because `Notice` takes
   its notification and does not query.

`NeverWaiting` is the deadlock freedom of the goroutines, stated with the guards of their
steps (`CanServe`): one of them can move, or every cancelled stream has returned and
every control request is answered (`Rested`).  `NobodyWaits` argues from a state in which
nobody can move: by `Locked`, whoever holds a stream could go on, so all streams
are free; then no goroutine is sending, no request is announcing, no query runs, so
that no goroutine waits for a slot; what is left are goroutines that wait for a
notification on live streams and plain ones whose handler can collect them, so that no
handler waits.  It needs one more invariant, `Placed`: a new subscription is with the
handler or the request that made it, one that is gone from a plain connection has been
left by its handler, and a session that waits for its goroutines has been cancelled
(otherwise it could wait for one that lives).

`SubsLast` and `StreamsEnd` say what no step undoes: a subscription keeps its
stream, id and deployment, and what was cancelled stays cancelled.  With
them a proof that a step preserves an invariant looks only at the actions that
touch its other variables; actions that touch none of them share a step.

`HostingProofs`.  Beside `TypeOK`, `IInv` says:

1. `Recorded`: the provider has recorded exactly the events its state of an
   admission has passed, all under the first identity; with it a request that
   arrives twice is a repetition and not a conflict (`NoConflict`);
2. `InOrder`: a report is on its way only when the exchange before it was acknowledged,
   which is why a late request cannot overtake another;
3. `Known`: what an execution may conclude of the provider from where it is.  Only an
   admission none of whose attempts was answered or is in doubt may be taken back;
   one that has ended without the latch has nothing open (`UncertaintyLatches`).

A step of one execution or request leaves what the others know alone (`Others`,
`Alone`), so that each action needs an argument about one execution.

`KeyringProofs`.  Beside `TypeOK`, `IInv` says:

1. `Signing`: the key a process has chosen outlives a URL of full life, less the time
   since the choice, and has a row and a copy in memory as long as that matters;
2. `CurrentKept`: the current key has both until it is too old;
3. `KeysLast`: a URL that is out ends before its key, but for the delay, and the key
   has a row, and a copy once the keys are loaded or the first is being created;
4. `Started`: nobody but the worker is at work before the keys are loaded.

`Signing` speaks of time before there is a URL: it carries the margin from
the choice of the key to the moment the expiry is set, and it is there that the
grace period (`Grace >= TTL + 1`) is used.  `SignedURLsVerify` follows because a key
with a URL that is out has not expired, so that neither loading nor pruning
removes it.  That the delay can exceed zero, and that a URL can then outlive its key, is
the late expiry under Observations.

`NativeFilesProofs`.  The account is a number, the disk a set of objects, and every
property compares the two, so the proof begins with sums over finite sets.
The library's induction over finite sets takes an operator; here
the property is a set of subsets instead, and the smallest subset outside it, which
exists because strict inclusion between finite sets is well-founded, has all its
own subsets inside (`SubsetInduction`, `ElementInduction`).  From that: there
is one function that gives every subset the sum of its weights (`AdditiveExists`,
`FoldUnique`), `Bytes` and `InFlight` are that function
(`BytesFacts`, `FlightIs`), and a credit adds to `CreditedTwice` just the bytes it shares
with earlier credits (`TwiceGrows`).  Then `IInv` says:

1. `Shaped`, of a save alone: its upload has a name of its own, it measures
   only what it drops and credits only what it measured.
2. `Booked`, of a save and the provider: which reservation goes with which step,
   which requests can still be on their way, that a settlement and a release
   exclude each other.
3. `Lasting`: a name the row has ever had (but the first) is of a save past its commit
   whose reservation stands and which nobody releases.  It is why what was deleted is
   never written again and what was stored is never released.
4. `Covered`: every object on disk was there at first or is of a reservation that
   stands; what a save found gone stays gone; a release is on its way only when the
   upload is not on disk.
5. `Accounted`, an equation: `used + CreditedTwice` and the bytes credited (each object
   once) are what was there at first, what was settled and what the floor at zero
   kept.  `Within`: usage and reservations fit the capacity.
6. `Smooth`, only as long as there was no fault: every request is awaited, a save
   deletes all it drops and measures what it deletes, and whatever was stored and is
   not on disk has a save that credits it or will.

Disk and credited objects are disjoint parts of what was there, settled or
reserved; with `Accounted` that is `OnlyDoubleCreditsUndercount`, with
`Within` it is `WithinCapacity`.  Without faults and with every save ended the
two parts are all of it, which is `ExactWithoutFaults`.

`TypeOK` of each module with proofs, `OneActive`, `JobsResolve`,
`LeaseIdentifiesOwner`, `NeverEarly` and `LiveIsListed` are proved and not
repeated by the runs.

Only model-checked:

- liveness (`EventuallySettles`, `RowsResolve`, `NoObjectOutlivesDeletion`, `CallsReturn`,
  `ReservationsSettle`, `MutationsGoOn`): fairness is out of the prover's reach;
- in `NeverStuck`, that the guards of `CanServe` enable the steps they belong to, which
  takes `ENABLED`; that one of them is true, or everything is at rest, is proved
  (`NeverWaiting`);
- everything about documents: `Values` and `Filters` are recursive over values and
  expressions, and what a recursive definition computes needs induction over
  data, which the prover cannot do.  (The induction over sets of `NativeFilesProofs`
  does not carry over: it is about subsets of one finite set, while nested values
  have no such set, and a module that reaches a `RECURSIVE` operator loses the SMT
  solver.)

## Plan

Modules, in order of what matters most:

1. `Scheduler`, `JobQueue`, `SchedulerProofs`: done.
2. `Storage`, `StorageProofs`: done.
3. `Releases`, `Deployments`, `DeploymentsProofs`: done as far as described above.
4. `Realtime`, `RealtimeProofs`: done.
5. `Runtime`, `Executions`, `RuntimeProofs`, `Hosting`, `HostingProofs`, `NativeFiles`,
   `NativeFilesProofs`, `Keyring`, `KeyringProofs`: done.
6. `Values`, `Filters`, `Documents`: done.
7. `ClientRealtime`: the TypeScript session against an abstract server; it
   converges to what the client wants after reconnects and lost responses.

## Not modelled

`PROJECT.json`, `components`, gives a reason for each part.  In short: the manifest
and the catalog of components (fields of a JSON document checked one by one, without
state), HTTP routing, authentication, e-mail and outbound HTTP (I/O and pure
mappings), image decoding, the CLI and framework bindings (build tooling and
adapters), the wire protocol package (encodings).  The TypeScript client is in the
plan.  Of the runtime: the evaluation of JavaScript and the conversion of
requests and values; of the database API: limits on size and depth, wire encoding;
of hosting: the handshake at start and the observer of managed hosting.
