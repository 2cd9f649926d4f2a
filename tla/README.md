# mobile-db in TLA+

Models, model-checking configurations and machine-checked proofs for mobile-db,
a sync server for offline-first apps: devices send field writes stamped with
hybrid logical clocks, the server stores them in an op log, merges them by
last-writer-wins and wakes the user's other devices. Every module is translated
from the Go source; `PROJECT.json` maps each definition to its lines.

## The system

| Part | State | Operations | Works with | Hard because | Correct when |
|---|---|---|---|---|---|
| Clock (`core/crdt/hlc.go`) | last timestamp, under a mutex | `Tick`, `Receive` | engine | time may jump back, remote clocks are arbitrary, the counter overflows | timestamps strictly increase and stay after everything received |
| Merge (`core/crdt/merge.go`, copies in `backend.go`) | local maps | `Merge` | snapshots, compaction | ops come in any order and repeatedly | replicas with the same ops agree |
| Op log (`storage/crsqlite/backend.go`, `data.go`) | op rows (active or archived), snapshot rows | `MergeOps`, `GetDelta`, `GetSnapshot`, `Compact` | engine, admin pages | `Compact` is several statements without a transaction; other requests run between them and it may stop after any | no accepted write is lost; compaction keeps the winners; snapshots never go back |
| Sync engine (`core/sync/engine.go`, `server/handlers/sync.go`, `schema.go`, `compaction.go`) | its clock, schema versions, sync events | `SyncHandler`, `Engine.Sync` | clock, log, broadcaster | each request is a goroutine that makes a dozen separate calls; any may fail; the clock is not persisted | complete deltas and snapshots, cursors that advance, nothing announced too early, every request ends |
| Broadcaster (`transport/http2/sse.go`) | channels per user | `Subscribe`, `Unsubscribe`, `Notify`, `SSEHandler` | engine, devices | channels hold one message; readers hang or go away | no device is left asleep; no request is held up |
| Device keys (`server/auth/device.go`, `authstore.go`, `adminstore.go`, `middleware/auth.go`) | table `device_keys` | `Register`, `Verify`, `RotateKey`, `Revoke`, admin revoke | every authenticated route | rows are read, changed during a slow hash, and written back | the secret last told works; a revoked key does not |
| Key cache (`server/auth/jwt.go`) | cached keys, time of fetch, shared fetch | `Validate` | Keycloak realm | fetches overlap, fail and finish out of order | withdrawn keys expire, new keys are found, nobody waits for ever |
| Admin limit (`server/middleware/admin.go`) | attempts per address | `RequireAdminAuth` | admin pages | checked and counted in separate critical sections, windows expire meanwhile | few extra attempts; no lock-out beyond the window |
| Dataset tables (`data.go`: `sanitize`, `datasetTable`, `EnsureDataset`) | tables, which of them are replicated | `EnsureDataset` before every statement | op log | four statements, each of which may fail, run by concurrent requests; names are made from parts | a table with ops is replicated; the ops of different apps and users are in different tables |
| Backup (`server/backup`) | stop channel, ticker | `Start`, `Stop`, `RunOnce` | database file | copies a file that is being written; is told to stop while it copies | a copy is the database as of one commit; `Stop` is not lost |
| Process (`main.go`, `server/server.go`) | listener, open requests | start-up, signal, `Shutdown`, deferred calls | all | event streams never end, the store is closed under what is left | it ends after a signal; nothing is cut off when it reports success |
| Admin pages (`admin/`, `adminstore.go`) | none of their own | listings, delete, revoke | databases | a page is several queries, the tables change in between; a document's snapshot row comes back after it is deleted | pages show what is stored |
| Codec, compressor, metrics | none that matters | | | | |

A request to `POST /sync` passes `RequireDeviceKey` (device keys) and
`RequireJWT` (key cache), is decoded, and runs `Engine.Sync`, which uses the
clock, the log and the broadcaster in that order. All goroutines share one
database connection (`SetMaxOpenConns(1)`), so a statement or a transaction is
atomic and nothing larger is.

## Modules

| Module | Models | State and actions |
|---|---|---|
| `HLC` | timestamps and the arithmetic of `Tick` and `Receive` | operators only; int64 and uint32 are the ranges `MinWall..MaxWall` and `0..MaxLogical`, with wrap-around |
| `HLCClock` | one `Clock` object | `last`; `Tick`, `Receive`; history of what was returned and received |
| `LWW` | ops, what a merge computes | operators only |
| `MergeLoop` | the loop of `crdt.Merge`, run by several replicas | `todo`, `wins`; `Iterate` is one iteration |
| `OpLog` | the log of one dataset | `active`, `archived`, `snapshots`, `comp` (the local variables of each `Compact`); one action per statement: `MergeOps`, `CompactQuery`, `WriteSnapshot`, `ArchiveOps`, `ReactivateOps`; `CompactFail` stops a compaction anywhere; `DeleteDoc` is the administrator's |
| `SyncPromise` | what `POST /sync` promises: ops stored all together or not at all, before the answer, for good | `stored`, `sent`, `answer`; `Push`, `Answer`, `Refuse` |
| `SyncEngine` | `SyncHandler` and `Engine.Sync`, composed with `OpLog` (`Log == INSTANCE OpLog WITH Procs <- Reqs`) | the log's variables, `clock`, `schemaVersion`, `notified`, `events`, `req` (program counter and local variables of each request); one action per call, `Fail` for errors, `Restart` for the lost clock, `SetSchemaVersion` for upgrades; `Promise` is the refinement mapping to `SyncPromise` |
| `Broadcaster` | `Broadcaster`, `SSEHandler`, the writers and listeners of one user | `subs`, `buf`, `conn`, `gone`, `writer`, `todo`; the handler receives from its channel, writes, and sees a closed connection in steps of their own; `Leave` and `Pull`, what a device does, are external |
| `DeviceKeys` | `DeviceService` and its table | `keys`, `call` (the copy a request is about to write); reading and writing back are separate actions |
| `JWKSCache` | `OIDCValidator` | `cached`, `fetchedAt`, `req`, `fetch`; time and the realm's documents are external |
| `AdminPages` | the pages of the admin console that take two queries, on top of `DeviceKeys` | `events` (rows of `sync_events`), `view` (what the browser shows or waits for); one action per query |
| `Datasets` | table names and `EnsureDataset` | `tables` (as SQLite looks names up), `crr` (names in `sqlite_master`, case and all), `rows`, `call`; one action per statement; SQLite's folding of names and `crsql_as_crr` are external |
| `BackupRunner` | `backup.Runner` | `runner`, `tick`, `stop`, `copy`; one action per page copied; the file, commits and checkpoints are external |
| `Server` | `Run` under `main`, composing `Datasets` and `BackupRunner` | `phase`, `result`, `signalled`, `stream`; start-up, signal, `Shutdown` with its deadline, the deferred calls in their order, the exit, and `Kill` at any time |
| `AdminRateLimit` | `RequireAdminAuth` | `rateBuckets`, `req`; checking and counting are separate actions |
| `LWW_proofs` | lemmas on `HLC` and `LWW` | |
| `CRDT_proofs` | theorems of `HLCClock` and `MergeLoop` | |
| `Admin_proofs` | theorems of `DeviceKeys`, `AdminPages` and `AdminRateLimit` | |
| `OpLog_proofs`, `SyncEngine_proofs`, `Broadcaster_proofs`, `JWKSCache_proofs`, `Server_proofs` | theorems of the module before the underscore; those of `Server` include `Datasets` and `BackupRunner` | |
| `MC*` | constants for TLC where a `.cfg` cannot state them | |

`overlap`, `aborted`, `cleared`, `wrapped`, `moved`, `raced`, `told`, `base`,
`failures`, `stopped`, `crossed`, the `from` and `met` of a copy and the like are history variables: they record what happened and guard nothing.

Abstractions. A device name is its place in the string order (0 is empty). A
value is what the JSON coding of `value` makes of it. A table holds the rows of
one dataset. Names of documents, fields, apps, users and datasets are sequences
of characters where the code joins them (`Key`, `datasetTable`) and model values
elsewhere. A hash is the secret it was made from. A JWKS document is the set
of its usable key ids. A list of ops is a set where only the winner of a tie
depends on its order, and then any tied op may win.

`SyncEngine` uses the log through `Log == INSTANCE OpLog`: its calls are the
log's actions, so the theorems of `OpLog` hold of the log under the engine. What
engine and log together are for is stated without either: `SyncPromise` knows of
ops that are stored, requests that bring some and answers that return some, and
nothing of rows, archives, compactions and clocks. `PromiseSpec` is the
refinement: `stored` are the op_ids of active and archived rows, `sent` those of
a request's message, `answer` is what a request at its end returns. It fails if
a step of a request or of a compaction removes a row, if ops of a request reach
the log one by one, and if a request is answered before its ops are in the log
or with an op that is not.

## Runs

| Run | Shows |
|---|---|
| `clock` | strictly increasing timestamps and causality over every movement of the wall clock, with a counter that overflows at its second increment and both ends of the wall range in reach; three calls suffice to overflow, carry and receive |
| `merge_loop` | convergence of two replicas over all argument lists of length up to three from five ops, with a device tie-break, a full tie and a second field |
| `op_log` | two goroutines compact while five ops arrive in any batches and documents are deleted; five ops give two versions of a field, a second field, a second document and a reused op_id |
| `op_log_disturbed` | violation, see findings |
| `sync` | two concurrent requests out of three kinds of client, compaction from the second row on, two fields whose joined keys are the same, failures, restarts, upgrades; safety, refinement of `SyncPromise` and termination |
| `sync_late_op` | violation, see findings |
| `wakeups` | two connections and two writers, the fewest for which a notification is dropped because another filled the channel; clients leave at any time, also while their handler writes |
| `device_keys` | two keys, two secrets, two requests: a rotation can cross a revocation, a rotation, or the admin; meanwhile the admin opens the device list in each of its tabs and walks back and forth through three sync events on pages of one |
| `device_keys_race` | violation, see findings |
| `key_cache` | two requests, one key replaced by another with an unusable document in between; the lifetime exceeds pause plus timeout and the time exceeds lifetime plus timeout, so that each bound can be missed |
| `admin_limit` | two requests at once, two addresses and a forbidden one, a limit of two, time for two windows |
| `server` | two requests with four scopes, in which user ids have the form x-xx: two of them, with hyphens in every part, would join to the same name without separators; a client id that differs in case only shares the first one's table; so does a scope whose user is not of that form, which the precondition of `OwnRowsOnly` leaves out; a file of three pages, so that a copy can be ahead of a checkpoint, behind it, or meet it, and two commits; a signal, an error of the listener or a kill at any time |

Named bounds: `MaxCalls`, `MaxLen`, `MaxTime`, `MaxVersion`, `MaxEvents`,
`MaxCommits`, and the sets of requests, ops, messages and scopes. `Beside` bounds
the requests that are accepted while a backup runner is on: the run has none,
since requests and the runner share no variable and only the phases of `Run`
touch both; the theorems of `Server` hold for any. `UserLen` and `Hyphens` give
the form of a user's id, which for Keycloak's UUIDs is 36 characters with hyphens
at 9, 14, 19 and 24; all that matters is that the form does not overlap itself
(`UserFormAssumption`), which TLC evaluates for the run's form and for the UUIDs'
(`UUIDAssumption`). Each request in `SyncEngine` is served once; those
of `JWKSCache`, `DeviceKeys` and `AdminRateLimit` are goroutines that serve one
request after another.

Deadlock checking is off where the system may stop: the clock when its bound on
calls is reached, the merge loop at its end, the broadcaster when all
connections are closed, the process when it has exited.

### Fairness

- `SyncEngine`: weak fairness of each request's goroutine. Go schedules runnable
  goroutines, and database calls return (busy timeout, one connection). No call
  is assumed to succeed.
- `Broadcaster`: weak fairness of a goroutine in `Notify` only; connections may
  hang for ever. `EventuallySeen` has the fairness of handlers and devices as a
  premise of its own (`ConnFairness`).
- `Server`: weak fairness of the goroutine of `Run`, whose `Shutdown` has a
  deadline of ten seconds, and of a checkpoint that has begun. No request, event
  stream or backup is assumed to end, and no signal to come.

### Findings

| Run | What happens |
|---|---|
| `op_log_disturbed` | `Compact` archives all active rows, also those inserted after its query. They are in no list of winners, so nothing reactivates them, and no query returns them. The same is left when it ends between `ArchiveOps` and `ReactivateOps`, which are separate transactions: a retry meets `ON CONFLICT DO NOTHING`, and the engine drops the error. `core/interfaces.go:5` promises methods "safe for concurrent use", `README.md:3` "no data loss". |
| `sync_late_op` | Cursors are timestamps, and ops reach the log later than they were written: one that was written offline and arrives after a client's pull lies below its cursor and is never sent to it. |
| `device_keys_race` | `RotateKey` writes back the status it read before hashing, so a revocation in between is undone. `device_test.go:84`: "revoked device must be rejected". |

Met on the way and left without a run of its own: a pull between the archive and
the reactivate statement of another request's compaction gets an empty delta
with the server's clock as cursor (`DeltaComplete` excludes the window with
`Log!Settled`); `keyFunc` refuses a token whose key another request has stored
since its first look (`NewKeyIsFound` excludes it with `moved`); the clock wraps
at the end of int64 (`wrapped`); ops with a zero timestamp are stored and read
by no query (`Visible`); the device of an op's timestamp is not stored, the
op's own device takes its place (`Row`); a snapshot that is sent has one value
for two fields whose names join to the same key (`SnapshotComplete` excludes the
hidden one); a document deleted in the data browser is there again after the
next compaction (`SnapshotsMatchLog` says so); a copy of the database file that
meets a checkpoint half way mixes two commits from that page on (`met` in
`BackupIsOneCommit`), and one that failed keeps the name of a backup; the tab of active devices can list
one more than it counts; a sync event between the COUNT and the SELECT of a page
can hide the last page (`crossed` in `WalkSeesAll`).

Names of tables do not keep all tenants apart, although `README.md:10` speaks of
"app-level + user-level isolation". `sanitize` turns the hyphen into the
separator, so app `a` with user `b-c` and app `a-b` with user `c` share the
tables of a dataset, and the user of each gets the ops of the other. In this
deployment the user is the `sub` of a Keycloak token, a UUID unless the user is
federated. `OwnRowsOnly` says what is left with such users: different users never
share a table, nor do different apps and datasets unless `sanitize` makes their
names the same (`SameName`), that is, unless they differ in case or punctuation
only. Its precondition `Regular` is that the user is of that form and that the
client id, hyphens and all (`mobile-db-app`), is no longer than a UUID; a client
id that ends in something like a UUID can be mistaken for an app and a user.

## Proofs

Every safety property that a passing run checks, invariant or action property,
is also a theorem, for every value of the constants under the named assumptions
of the modules, and so is the refinement of `SyncPromise` by `SyncEngine`. The
assumptions say that constants are well typed, that the integer ranges of `HLC`
are finite and contain zero, that lifetimes are natural
numbers and limits, windows and page sizes positive ones, that a message's ops are finitely many (they are a slice),
that so are the key ids that `AdminPages` counts (UUIDs) and the requests
that `AdminRateLimit` counts, and that the form of a user's id does not overlap itself.

| Theorem | Argument |
|---|---|
| `ClockStrictlyIncreasing`, `ClockReceivedIsPast` | `ClockInv`: the properties and that `last` is the latest timestamp returned. `LWW_proofs` shows that `Before` is a strict order, and that `TickHLC` and `ReceiveHLC` are after their arguments unless at the end of the range. |
| `MergePicksWinners`, `MergeConverges` | `MergeInv`: one iteration turns a merge of the ops visited into a merge of one op more (`VisitMerges`); two merges of one untied set have the same values (`MergeUnique`). |
| `LogLosesNoWrite`, `LogOneRowPerOpID`, `LogRowsAreForever`, `LogSnapshotsNeverRegress`, `LogSnapshotsMatch`, `LogCompactedToWinners` | `LogInv` adds to the properties what holds in the middle of a compaction: its winners are rows, they cover what its query saw, and while nothing overlaps, everything archived or active is covered by them once the rows are archived; of the documents still to be written, and of those deleted meanwhile, nothing is claimed (`SnapshotsWritten`). `NoLostWrite` alone is not inductive, since it says nothing of that window. |
| `EngineKeepsPromise` | Refinement of `SyncPromise`. By `EngineInv` no op_id ever leaves the rows, a request past its merge has all its ops in them (`Committed`), and so have its delta and snapshot (`GivenIsStored`). A step that adds rows is then one request's `Push` (`StepStores`: `InsertOps` adds the op_ids of the whole message), a step to an end of `Engine.Sync` is an `Answer` or a `Refuse`, and all others, those of compactions among them, leave `stored` as it was, which takes that archiving and reactivating only move rows (`StepKeepsPromise`). |
| `EngineAnnouncesAfterCommit`, `EngineCursorAdvances`, `EngineSendsNothingTwice`, `EngineDeltaComplete`, `EngineSnapshotComplete` | `EngineInv`: the log's `LogInv` and finitely many rows; the ops of a request that is past `MergeOps` are rows (`Committed`), its server clock is after the clock it received (`ServerAhead`), and its new cursor lies between the client's and everything in the delta (`CursorBetween`), unless the clock wrapped. Nothing of this can be seen in an answer alone: the cursor of an answer is the maximum of a delta that may be empty, and then the server clock of four calls earlier. `FiniteHasMax` gives `MaxHLC` its meaning. The two completeness theorems then follow from `NoLostWrite` in the state in which the rows are read (`CalmCovers`). |
| `BroadcasterNoLostWakeup` | `WakeInv`: channels in the list are those of handlers between `Subscribe` and `Unsubscribe`, receiving or writing, so a copy of the list taken after a commit has every handler that was subscribed before it. |
| `KeysToldSecretWorks`, `KeysRevokedUnlessRaced`, `PagesKeepKeys` | `KeysInv`: a copy to be written has the status its request gives it, and a key whose revocation crossed no rotation is revoked and has no rotation under way. |
| `PagesListedAreCounted`, `PagesWalkSeesAll` | `PagesInv`: `KeysInv`; rows of `device_keys` stay, and between the two queries what was listed is still in the table, and still revoked if that was the tab and no rotation crossed (`ListedInv`); the events of the start that are now on the pages up to the current one have been seen (`WalkInv`), which an insertion keeps because it only moves events towards later pages (`InsertAtPlaces`). The number of pages comes from the COUNT, the rows from the SELECT, so what is claimed differs before and after it. |
| `LimitExcessIsBounded`, `LimitWindowIsFixed`, `LimitForRecentFailures` | `LimitInv`: a bucket's count and the requests in flight for its address stay within the bound, and a count that has not expired is of failures within the window before its end. A request is admitted only below the limit, and is then itself one of the requests in flight. |
| `CacheTypeCorrect`, `CacheAsOldAsItSays`, `CacheServesWaiters`, `CacheForgetsWithdrawnKeys`, `CacheFindsNewKeys` | `CacheInv`: what a fetch has got was published no earlier than the fetch began (`AnswersAreAsOld`), which is at most a timeout before it is stored; a request that looks at the keys for the first time found them fresh (`LooksAreFresh`); one that missed its key missed it in keys that are still the cached ones, unless `moved` (`MissIsCurrent`); a cache never filled counts as expired (`NeverFetched`). |
| `ServerTypeCorrect`, `ServerRowsAreReplicated`, `ServerBackupIsOneCommit`, `ServerStopIsKept`, `ServerNothingCutOff` | `ServerInv`: how far each `EnsureDataset` is and what it has done by then (`EnsureInv`); the pages before a checkpoint's position are of its commit and the others of one earlier commit (`FileInv`), so a file that no checkpoint is in the middle of is one commit; a copy that has met no checkpoint is ahead of the one under way, and has the older commit yet to read as it has read it, or behind it, and reads the newer (`CopyInv`); once `Shutdown` has returned without an error nothing is served (`RunInv`). The steps of requests and of the runner are lemmas of their own. |
| `ServerOwnRowsOnly` | `RowsInPlace` in `ServerInv`, and that a table's name tells its scope (`NameTellsScope`). The separators before, in and after the user's id make a frame (`UserFrame`) that must be found in both readings of one name; client ids are no longer than the id, so the two places are less than its length apart, where the form does not fit on itself (`FrameFitsOnce`); then the parts begin and end at the same characters, and inside the user's id hyphens are where hyphens are (`HyphenIsNone`). |

`SyncEngine_proofs` takes the log's lemmas from an instance of `OpLog_proofs`
(`LP`). The prover does not identify its definitions with those of the engine's
own instance `Log`, hence the lemmas `Same...`, which do so one definition at a
time. The strings `_` and `-` have no counterpart in the SMT solver's language;
proofs about names use the definition `Separator` and never expand it there.

Only model-checked: the liveness properties (`RequestsEnd`, `NotifyReturns`,
`EventuallySeen`, `Exits`), since fairness and `ENABLED` are out of the proof
system's reach, and the three counterexamples of the findings.

## Plan

Done, in this order because the log and the engine carry users' data: `HLC`,
`HLCClock`, `LWW`, `MergeLoop`, `OpLog`, `SyncEngine`, `Broadcaster`,
`DeviceKeys`, `JWKSCache`, `AdminRateLimit`; then `DeleteDoc` in `OpLog`,
`AdminPages`, `Datasets`, `BackupRunner`, `Server` and its proofs; then the
theorems of `SyncEngine`, `JWKSCache`, `AdminPages`, `AdminRateLimit` and
`Datasets`.

Theorems to come: the safety part of the liveness arguments, as action
properties (each call of a request brings it nearer to its end, `Notify` visits
no channel twice); that a wake-up which `Notify` drops is one that the channel
already holds; that the log under the engine keeps `OpLog`'s action properties,
stated of the engine's own steps.

## Not modelled

- CBOR and zstd coding, token signatures, the decoding of JSON web keys and
  password hashes: library functions without state.
- HTML templates, the metrics and keys pages, `ListDatasets`, `GetDoc` and
  `ListSyncAggregates`: one query or none, and nothing is changed by them. The
  gauges of the metrics are updated by nothing.
- The values of the configuration, which are constants of the modules; request
  logging; the health handler; the registration of the SQLite driver.
- Clients over several rounds. A message carries any cursor, so `DeltaComplete`,
  `SnapshotComplete` and `CursorAdvances` are about each round of a client by
  itself; what a client makes of the answers is not in this repository.
- The order of sync events with the same second, which SQLite leaves open; in
  `AdminPages` an event may turn up anywhere, and stays there.
- Page numbers beyond the last page, and their overflow.
- `snapshots` has no app column (`data.go:47`): the rows of two apps with the
  same dataset, user and document are one. `OpLog` is about one dataset, so it
  does not show.
- The schema version that the response carries is read after the one that
  decided on a snapshot; nothing in this code base but tests changes it.
