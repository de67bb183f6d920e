# ChessNote in TLA+

TLA+ models of ChessNote, a note-taking application for chess players built on
SilverBullet, with the TLC configurations that check them and TLAPS proofs of
what matters most. Source references are to the repository; docs are quoted from
`docs/modules/`.

## 1. Inventory

The repository holds a TypeScript client (`client/`), plugs that run in a web
worker (`plugs/`), a Rust server (`server*/`, `bin/`), two Node services
(`cloud-server/`, `ai-sidecar/`) and packaging for desktop and mobile.

| Component | State it keeps | Operations | Interacts with | Hard behaviour | Correct when |
|---|---|---|---|---|---|
| **plug sync engine** `plugs/sync/sync_engine.ts` | state file (`localMtime`, `remoteRev` per path), remote cache and cursor, `nextState` of a run | `performSync`: list both sides, then per path add, update, fetch, delete, compare, resolve a conflict | the space (files), a `SyncProvider`, other devices through the cloud | listings are stale when used; crash between upload and checkpoint; lost answers; several devices and runs | no edit disappears; devices converge; the state is right about the files |
| **WebDAV / Dropbox providers** `webdav_sync.ts`, `dropbox_sync.ts` | Dropbox: tokens, cursor | conditional upload, download, delete, list | cloud over HTTP, 30 s timeout | PUT without ETag then HEAD; delta listings, cursor reset, 429 retries | writes honour the rev they name; a merged listing is the folder |
| **end-to-end encryption** `e2ee*.ts` | key in memory | encrypt, decrypt around a provider | any provider | fresh ciphertext per upload; locked key | never uploads plaintext |
| **sync triggers** `auto_trigger.ts`, `webdav_bridge.ts` | `providerLocks`, interval and debounce timers | interval, page saved, activity, signal, command | sync engine, push channel | triggers during a run, failed runs, command without lock | one automatic run at a time; every change synced in the end |
| **push channel** `push_trigger.ts` | `socket`, `reconnectTimer`, `pushDebounceTimer` | activate, connect, close, message, credentials changed | config, clientStore, `/_push` of the cloud | awaits between check and connect; logout during an activation; drops | the socket is that of the account; it comes back |
| **ChessNote Cloud storage** `cloud-server/src/storage.ts`, `server.ts` | plain files per user | GET, HEAD, PUT, DELETE, MKCOL, PROPFIND | disk, push | check and write in separate awaits, no lock; torn files | conditional writes are atomic |
| **ChessNote Cloud push** `cloud-server/src/push.ts` | connections and one coalescing timer per user | register, broadcast | sockets of devices | coalescing must not drop the last change | every change announced |
| **AI sidecar** `ai-sidecar/src/` | semaphore, OAuth token | `/ai/generate` | `claude` processes | burst of requests, woken waiters | at most *max* processes, no lost wake-up |
| **space sync** `client/spaces/sync.ts`, `base_store.ts` | snapshot of (local, remote) times and revision per path, bases, safety copies | full and per-path sync: push, pull, delete, reconcile, resolve a conflict | service worker, HTTP server, open editors | both copies change between any two awaits; timestamps repeat; a lost answer; the replica's own writes come back as events | no edit disappears; nothing goes out unconditionally; the copies agree in the end |
| **service worker engine** `client/service_worker/` | dirty queue with origins, the snapshot in the data store | mark, merge origins, take, run, declare a divergent base, restart | space sync, event stream, request proxy | a mark that arrives during its own cycle; skipped echoes; the worker is stopped at any moment | no marked path forgotten |
| **message queue** `client/data/mq.datastore.ts`, `hooks/mq.ts`, `plugs/index/queue.ts` | tables queued and processing, waiting workers, timers | send, poll, ack, renew, requeue, isQueueEmpty, reload | indexer, data store, other windows | moves between tables in two transactions; leases against acks; stale timers; closed windows | delivered at least once; an answer of empty overlooks no message that is taken meanwhile |
| **object index** `client/data/object_index.ts` | index in the data store | index, query | message queue | reindex during edits | index follows pages |
| **server files** `server/src/handlers/fs.rs`, `server-common/src/space/` | files, locks, events | GET, conditional PUT, DELETE, reconcile | client, watcher, revisions | concurrent writers | conditional writes are atomic |
| **server revisions** `server/src/revisions/`, `watcher.rs` | pending paths of the watcher, a bounded channel, marks with their authors, the batch of a commit, the git repository | debounce, broadcast, mark, rescan, commit per author, sweep, snapshot, stop, restart | server files, git, file-system events | dropped events, marks during a commit, git that fails half way, sleeping threads, restarts | no change forgotten; the author is right; HEAD is the space in the end |
| **server merge** `server-merge/` | none | three-way merge | server files | | merge keeps both sides |
| **server runtime, login** `server-runtime-chrome/`, `auth/lockout.rs` | pool of Chrome processes; counter per bucket | acquire, restart, lock | HTTP | process death, limits | bounded pool; lock after the limit |
| **chess plugs, Lua, editor, CLI, shells** | documents, database, UI | many | client | mostly data and rendering | not modelled (see 8) |

The plug sync engine with its cloud, triggers and push channel is where several
devices, a network and crashes meet the user's notes, so it is modelled first; the
replica of the space and its engine, where the same happens between the browser
and the server, the message queue that feeds the index, and the history that the
server keeps in git come next.

## 2. Modules

| Module | Models | Built on |
|---|---|---|
| `PlugSync` | `performSync` on several devices with one cloud folder, users and faults | |
| `PlugSyncProofs` | theorems about it | `PlugSync` |
| `FolderListing` | what a run expects of a listing: the folder at one instant | |
| `RemoteListing` | `resolveRemoteEntries` over Dropbox's pages, deltas and the cursor file | refines `FolderListing` |
| `RemoteListingProofs` | theorems about it, the refinement included | `RemoteListing` |
| `CloudFolder` | what a client relies on: each request takes effect at one instant | |
| `CloudStorage` | the ChessNote Cloud handlers, one step per await on the disk, and the coalesced signals | refines `CloudFolder` |
| `CloudStorageProofs` | theorems about it, the refinement included | `CloudStorage` |
| `SyncTriggers` | what starts runs, the provider locks, the signals end to end | |
| `PushSocket` | the push channel of one device | |
| `TriggerProofs` | theorems about both, the two ends of the realtime channel on a device | `SyncTriggers`, `PushSocket` |
| `Semaphore` | the concurrency limit of the AI sidecar | |
| `SemaphoreProofs` | theorems about it | `Semaphore` |
| `MessageQueue` | the client's message queue, its workers in several windows, and the index queue's consumer | |
| `MessageQueueProofs` | theorems about it | `MessageQueue` |
| `SpaceSync` | the offline replica of one file: sync algorithm, engine loop, dirty queue, server handlers, editor | |
| `SpaceSyncProofs` | theorems about it | `SpaceSync` |
| `Revisions` | the history of a space: watcher, channel, history engine, git | |
| `RevisionsProofs` | theorems about it | `Revisions` |

The `MC*` modules only supply constants. How they fit: `PlugSync` assumes of the
cloud exactly what `CloudFolder` promises (`Accepts` and `Put` are one step), and of
a listing what `FolderListing` promises (`ListRemote` is one step);
`CloudStorage` shows to what extent ChessNote Cloud keeps that promise;
`SyncTriggers` decides when runs of `PlugSync` happen and abstracts a run to the
moment of its listing; `PushSocket` opens the socket over which `SyncTriggers`
receives signals. `SpaceSync` composes four parts in one module (algorithm, engine
loop, dirty queue, server handlers), because what can go wrong lies between them.

### PlugSync

A content is the **set of edits** it incorporates, `{}` being no file: a version
lost an edit exactly when the set shrank without a user's wish (`wanted`). `local`
carries a write counter in place of `lastModified`; a remote version is its own
rev, with a `stamp` that is fresh for every upload (Dropbox, encrypted content)
or 0 when the ETag is a hash (`FreshRevs`). `stored` is the state file, `copies`
the `.conflict` files, `run[r]` what one call of `performSync` holds in memory.

| Action | Code (`sync_engine.ts` unless named) |
|---|---|
| `Start`, `StateUnreadable` | `loadState` 120-127, 382 |
| `ListLocal`, `ListRemote` | the two halves of `Promise.all` 384-387, in either order |
| `Take` (`Plan`, `OnlyLocal`, `OnlyRemote`, `Both`) | the loop and its branches 483-598 |
| `Download`, `WriteLocal`, `Read`, `DeleteLocal`, `DeleteRemote` | each awaited call of a branch |
| `Copy` | `writeFile(cPath, ...)` of `resolveConflict` 440-469 |
| `Upload`, `Head` | conditional PUT and HEAD, `webdav_sync.ts` 235-276 |
| `Checkpoint`, `Finish` | 471-481 and 610 |
| `CallFails`, `AnswerLost`, `Crash` | the `catch` 599-607, the 30 s timeout, the app closed |
| `Save`, `Delete` | the user |

Abstractions: two writes to a file never have the same `lastModified`
(millisecond clock); a listing of one side is atomic; read-only and baked-in
paths and the state files, which `computeSyncScope` removes, are no paths of the
model; `.conflict` files are kept in `copies` and not themselves synced; loop
order over paths is arbitrary; a checkpoint may happen after any path
(2 s have passed) and must when `CheckpointBatch` paths are pending.

### RemoteListing and FolderListing

`last[p]` counts the changes of a path and `gone` tells which of them were
deletions, so a version number stands for a rev and a cursor is the version told
of each path. `cache` is the cursor file, `run[r]` one call of
`resolveRemoteEntries`. A page brings one entry or none; what Dropbox may do is
left open: it can leave out versions that were superseded, say `has_more` when
there is nothing left, and forget deleted files in a full listing. `has_more` is
FALSE only when everything has been told.
Assumed of Dropbox: a deletion is reported file by file, also that of a folder. Were a folder
reported by one `deleted` entry of its own, `dropbox_sync.ts:403` and `sync_engine.ts:207-208`
would take only an entry of that very path out of the merged listing, and the files that were in
it would stay listed; that is not modelled.

| Action | Code |
|---|---|
| `Load` | `loadRemoteCache`, `sync_engine.ts` 163-172; an unreadable file is no cache |
| `Continue`, `Reset` | `list_folder/continue` with the saved cursor and the 409 `reset`, `dropbox_sync.ts` 460-480 |
| `List`, `ListMissing` | `list_folder` and its 409, 482-494 |
| `More` | the next page of `drainPages`, 415-423 |
| (`Merged`, `AfterPage`) | merging after the last page, `sync_engine.ts` 205-212 |
| `SaveCache`, `Return`, `Fail` | `saveRemoteCache` 214-216, the result 218-224, every error thrown |

### CloudStorage and CloudFolder

`conn[c]` is the request being handled for a connection. `fs.writeFile` is two
steps, opening (which truncates) and writing over what is there; removing a file
that someone has open leaves them writing to a file without name (`fd`). ETags are
hashes, so a content is its own ETag. `folders` are one level deep. Left out:
PROPFIND, authentication, path normalisation, restart of the server.

### SyncTriggers

`version[p]` counts the changes that concern provider `p`, `seen[p]` those that
finished runs have synced, `lock` is `providerLocks`. `RunAllConfiguredSyncs` is
`runOneQuiet` of each provider up to its first await. A finished run may feed
back: the pages it wrote are saved pages, its uploads are announced to its own
device. A run that reports errors for some paths counts as failed. Names that
`PushSocket` has too carry the prefix `Trigger` (`TriggerSpec`, `TriggerTypeOK`), so
that one module can extend both.

### PushSocket

`call[k]` is an activation of `syncConnectionWithConfig` at one of its awaits;
`ws` are WebSocket objects, `socket`, `timer`, `debounce` the module's variables.
`notices` are commands that have changed the credentials and not yet called
`notifyCredentialsChanged`. Reconnection delays are abstracted: a timer that is
set may fire at any time.

| Action | Code (`push_trigger.ts` unless named) |
|---|---|
| `StoreCredentials`, `NotifyCredentialsChanged` | login and logout, `webdav_bridge.ts` 69-97; lines 64-67 and `disconnect` 69-81 |
| `InitPushTrigger`, `Toggle` | the init hook; the user changes the setting |
| `Enabled` | the answer to the question of line 84, and the checks before the next await: push disabled, a socket there, no WebSocket (94-99) |
| `Connect` | the credentials arrive (101): none, so a timer (103-106); some, so a socket; `Unusable` ones, so an exception at 107 |
| `SyscallFails` | an awaited syscall throws, and the activation ends |
| `ReconnectTimerFires`, `OnClose` (`CloseDone`, `Drop`), `OnMessage`, `DebounceFires` | 111-136 |

An activation can end with neither socket nor timer. `webSocket` says whether the
environment has WebSocket; it is chosen at the start and stays. `Unusable` are accounts with
which line 107 throws: `btoa` takes Latin-1 only, `new URL` no text that is not a URL. `threw`
says that an activation has thrown and none has begun since. `chess.webdav.url` is set and does
not change while the app runs; a URL that is none makes every account unusable.

### Semaphore

Node runs one callback to the end and then every continuation it made ready
before the next callback. `ready` is that list; a request arrives or a process
ends only when it is empty. A woken request counts itself in a continuation of
its own, without looking at the counter again.

### MessageQueue

Each batch call on the data store is one IndexedDB transaction and one step; two
calls of one function are two steps. A table maps a message to the retry count
of its copy. `worker[w]` is a `QueueWorker` with the batch it holds, `waiters[c]`
is `queueWaiters` of a window, `timers[w]` says that the sleep of an earlier wait
is still going to go off, `requeue[c]` is a call of `requeueTimeouts`, `check` one
of `isQueueEmpty`. `expired` are the copies in processing whose lease has run out. Which of the
places of ended workers a new one takes makes no difference (`Slot`), and a count of
`isQueueEmpty` that has nothing to overlook is not followed (`check.since = {}`).

| Action | Code (`mq.datastore.ts` unless named) |
|---|---|
| `Send` | `batchSend` and `wakeupWorker` |
| `PollRead`, `PollTake`, `PollRemove` | `poll`: query of queued, `batchSet` to processing, `batchDelete` from queued; `PollRead` is also the loop head where a stopping worker ends |
| `PollFails` | a call of `poll` throws: `run()` ends through its outer `catch` (100-102), and the worker is dead |
| `Callback`, `Resend`, `Ack` | `processIndexQueue` (`plugs/index/queue.ts`): some messages done, some sent again, some failed; `batchAck` |
| `CallbackFails` | its `batchSend` or `batchAck` throws, which `hooks/mq.ts` 81 catches: nothing acknowledged |
| `Register`, `SleepEnds`, `StaleSleepEnds` | the wait after an empty poll: registration, its sleep, and a sleep left over from an earlier wait, which deregisters the current one |
| `RenewRead`, `RenewWrite` | the two halves of `renewLease` |
| `RequeueScan`, `RequeueDelete`, `RequeueSet`, `RequeueFails` | `requeueTimeouts`: query, `batchDelete`, `batchSet` back to queued or flush; a call that throws |
| `CheckQueued`, `CheckProcessing` | the two counts of `isQueueEmpty` |
| `LeaseRunsOut`, `DeviceSleeps` | time passes; a device that sleeps past `mqTimeout` |
| `Reload`, `Crash` | `reloadQueues` of `hooks/mq.ts`; a window is closed |

Abstractions: one queue, that of the indexer, with its one subscription
(`plugs/index/index.plug.yaml:83-88`, no automatic acknowledgement); of several
stale timers of one worker one is remembered; the dead-letter branch, which
`hooks/mq.ts` disables, the `emptyQueue` event and the flush functions are left
out. `handled` are the messages that were processed, `resent` those that were deferred and
sent anew under another id, which is a message of its own. `holes` names the two places where
the code itself loses a message: a `requeueTimeouts` that does not get from its first half to
its second (`mq.datastore.ts:313-355`: the window is closed, or the `batchSet` throws), and
a lease that runs out between the two writes of `poll` (226), whose second write
then deletes the copy that was put back. One batch call either happens or fails as a whole.

### SpaceSync

One path. A content is the set of edits it holds and is its own hash; a time may
repeat, since two saves can fall in one millisecond, and a `Silent` edit leaves the
length of the file as it is. `op` is the `syncFile` under way with what it has
read; between any two of its steps the user, other clients, events and crashes act.
Awaits are one step only where nothing another actor does between them matters.

| Action | Code |
|---|---|
| `Save`, `Delete`, `RemoteSave`, `RemoteDelete` | the proxy's `handlePut` and `handleDelete`; other clients through `fs.rs` |
| `Deliver`, `Probe`, `Marked`, `MergeOrigins` | the event stream and `dirty_queue.ts` |
| `Scan`, `Take`, `Begin`, `ShouldSkip`, `LocalWriteIsEcho` | the loop of `sync_engine.ts`: full scans, marked files, skipped echoes |
| `Route` (`BothThere`, `ClassifySignalled`) | the branches of `syncFile` in `sync.ts` |
| `Create`, `Recreate`, `Push`, `Erase`, `Gone` | each branch with its conditional request and its 412 |
| `Pull`, `Adopt`, `Write` | `pullFromSecondary`: read both, look again, write |
| `Merge`, `MergeUnheard`, `MergeRefused`, `Apply`, `Settle` | `tryReconcile` and the server's `handle_reconcile` |
| `Resolve`, `Overwrite`, `Rebase` | `primaryConflictResolver` and `callConflictResolver` |
| `Withhold`, `Declare`, `DivergentWrite` | an editor that withholds an update, `declareDivergentBase`, its later write |
| `NotFound`, `RequestFails`, `Crash`, `Request(FALSE)` | errors, lost answers, the service worker stopped |

`gap` names the windows in which the code itself loses an edit: `write`, a save
after the engine's last look and before its write or delete of the local copy (the
data store offers no conditional write); `base`, a save before
`callConflictResolver` reads the local copy again and takes it for the base
(`sync.ts:1236`); `declare`, an operation between `declareDivergentBase` and the
editor's write; `recorded`, finding 2. Everything outside them is what `NoEditLost`
is about.

Left out: files that are not synced (`syncBack` false), files that cannot be
merged, the standard library's resolver, snapshots without recorded revisions and
the very first sync (which pushes unconditionally), a full data store, another
path's progress saving the snapshot in the middle of an operation, bursts of
events turned into a scan, the second granularity of `If-Modified-Since`, pruning
of bases, the 5 s limit of a declaration, and changes on the server's disk outside
its API.

### Revisions

The `k`-th change of a path is number `k` of its `log`, with who made it and whether
it was a deletion; `index` and `head` hold the numbers that git was given. `raw` is the
pending map of the debounce loop, `events` and `lagged` the receiving end of the
broadcast channel, `dirty` and `marked` the `EngineState`. `at` says where the two
threads that commit are: the history thread and one other caller, who takes a manual
snapshot or drops the engine. `commit_lock` is held by the one at `groups`.

| Action | Code (`revisions/engine.rs` unless named) |
|---|---|
| `Change` | `handlers/fs.rs` and other programs write and delete; the event may get lost |
| `Flush`, `FlushFlood` | `debounce_loop` and `enrich_event` of `watcher.rs`: an event with an author, or a resync for too many paths |
| `Receive` (`Marks`, `Rescan`) | the event thread, `on_event`, `record`, `rescan_as_external` after a resync or a lag |
| `FirstPass`, `InitialSnapshot` | `ensure_initial_snapshot` |
| `CommitNow`, `CommitGroup`, `GroupFails`, `GroupsDone` | `commit_now`: lock and take the marks, one commit per author, marks put back after a failure |
| `Sweep`, `CommitAll` | `sweep`, `commit_all` and `uncommitted_files` |
| `Due`, `Sleep`, `Wake`, `Stopped` | the loop of the history thread |
| `Snapshot`, `SnapshotAll`, `Stop`, `Join` | `snapshot_now`, `drop` |
| `Restart`, `Crash` | `start_internal` after an orderly stop or without one |

Abstractions: time is not counted, so a debounce, a note of the author or a
deadline may end at any moment; no two changes make the same text; `git add` and
`git commit` of one batch are one step, as only the holder of the lock touches the
index, and when the second fails the first has happened; users without a name
(`LocalUser`) are accounts. Left out: commit messages, `.gitignore`, an `index.lock`
that a killed git leaves behind, a detached HEAD, a listing that fails, and a
repository that the server does not manage (`auto_commit_allowed` is true).

Three history variables state the properties. `missed` holds paths with a change that
no event will report: the event got lost, the server restarted, or the path was deleted and a
rescan, which lists files, cannot see it. `unearned` holds changes that were
committed for an account that did not make them, `excused` those that fell into a window
the code leaves open: a deletion is put down to the latest note for its path; a path that
changes again after its event was sent is committed with what is on the disk
(several writers within one debounce are credited to the last); a rescan relabels nothing; a
commit takes in what an earlier one left staged.

## 3. Runs

| Run | Result | Shows |
|---|---|---|
| `PlugSyncRaces` | passes | types, `BaseInv` (inductive), `BaseAgreement`, `RemoteKeepsEdits` with everything interleaving, a rev per upload and one crash, failed call or lost answer, `Convergence` under fairness |
| `PlugSyncQuiet` | passes | `NoEditLost` while one device syncs at a time and is not edited meanwhile, two paths, batches of two, revs that are hashes, a PUT without ETag, one fault of any kind |
| `PlugSyncDeleteRace` | violates `NoEditLost` | finding 1 |
| `CloudStorage` | passes | types, `NoSilentChange`, `Linearizable` for files without overlapping requests |
| `PushSocket` | passes | types, `SocketIsCurrent`, `NeverStranded`, `Reconnects` |
| `SyncTriggers` | passes | types, `LockIsARun`, `EverythingSynced` |
| `RemoteListing` | passes | types, `CacheMatchesCursor`, `ListsOneInstant` (the refinement of `FolderListing`) |
| `Semaphore` | passes | types, `AtMostMax`, `NoIdleSlot`, `SlotInv`, `EveryWaiterRuns` |
| `MessageQueue` | passes | types, `NoMessageLost`, `RetryBudget`, `OverlooksOnlyMoved`, `WaitersWait`, `EveryMessageSettles` |
| `SpaceSync` | passes | types, `NoEditLost`, `RevisionKnown`, `QuietMeansSynced`, `Converges` |
| `Revisions` | passes | types, `NothingForgotten`, `ParkedMeansIdle`, `CreditIsEarned`, `EverythingCommitted` |
| `SpaceSyncUnseen` | violates `UnseenRevisionHarmless` | finding 2 |

**Properties.** `BaseAgreement`: an entry of the state file whose time is still
that of the file implies the file has the recorded content; every branch that
overwrites or deletes a file without reading it relies on this. `RemoteKeepsEdits`:
an upload never makes the cloud forget a wanted edit unless a `.conflict` file
has it, where every upload has a rev of its own; where revs are hashes it can fail
(section 4). `NoEditLost`: every wanted edit is in the cloud, on a device, or in a `.conflict` file; it fails in general (finding 1 and section 4) and holds in the quiet
conditions of `PlugSyncQuiet`, which are those of one person who lets a sync end
before going on. `Convergence`: eventually all agree for good. `Linearizable`: the
refinement of `CloudFolder`, a write taking effect when it truncates.
`CacheMatchesCursor`: the saved copy is the folder as of the saved cursor, on which
every later delta rests. `ListsOneInstant`: a listing is the whole folder at one
instant of the call, that of its last page.
`NoMessageLost` (at least once): a message that was sent is in a table, held by
`requeueTimeouts`, processed, sent anew, flushed after its retries, or in one of the two holes.
`NeverStranded`: where there is WebSocket, only an activation that throws gives an enabled
channel up; `Reconnects`: otherwise a logged-in device has its channel in the end.
`RetryBudget`: what is flushed was delivered more than `MaxRetries` times.
`OverlooksOnlyMoved`: when `isQueueEmpty` says yes, each message pending at its first count
has been processed, flushed or lost through a hole, except what has gone back to queued
behind that count: a message deferred and sent anew, and what `requeueTimeouts` has in its
hands then or takes meanwhile. It is what the order of the two counts (queued first) gives, and
no more: yes does not mean that every file is indexed (section 4).
`EveryMessageSettles`: every message is processed, flushed or sent anew in the end, unless no
window has a worker any more because polls have thrown (section 4).
`WaitersWait`: wake-ups go to workers that wait. `NoEditLost` of `SpaceSync`: an edit
nobody deleted is in a copy, a safety copy or a conflict copy, outside the four
windows. `RevisionKnown`: a path with an entry has a revision, so every push and
delete is conditional. `QuietMeansSynced`: when nothing is marked, no event is due and a
scan would find nothing to do, the copies are equal, as long as nothing was lost; it
fails as soon as a mark is dropped that should not be. `Converges`: they agree in
the end; only a change of the same millisecond and length whose signal a
trouble has swallowed may stay undetected. `NothingForgotten`: a path whose file is not in
index and HEAD is on its way to the engine, marked, in a batch, due for the initial
snapshot, or missed. `ParkedMeansIdle`: the history thread never sleeps until the
next sweep (an hour) while a path is marked. `CreditIsEarned`: an account is
credited with its own changes only, outside the windows of `excused`.
`EverythingCommitted`: HEAD is the space in the end, also after lost events and
crashes, except for the behaviour with a file that never was in the index (section 4).

**Bounds.** Two devices give every pairwise race (the cloud holds one version
per path and a run compares only its own listing with it); one path suffices for
the per-path logic and two exercise batches; two or three user operations and
edits give edit against edit, edit against deletion and a return to an old rev.
One fault at any moment shows single failures. Two connections give each overlap
of two requests, with a short and a long body so that mixed files arise. Three
sockets leave room for an orphan. Five requests fill two slots and overflow the
queue. Two changes of each of two paths make a file, its deletion and its return
fall on either side of a page, and two runs overwrite each other's cursor file.
`MessageQueue`: two workers of one window meet in every pair of steps, and two
messages are enough for one to overtake another; one trouble is a closed window, a reload, a
renewal or a call that fails. A poll that throws then takes the last worker, so what the others
do after it is left to the proofs of the invariants. A second window adds nothing that
a second worker and a concurrent `requeueTimeouts` do not show, and the proofs
hold for any number of windows. `SpaceSync`: two edits, of which one leaves the length
as it is, give every conflict between the two sides; two milliseconds make times
collide and differ; one deletion, one trouble and one withheld update may fall
anywhere. `Revisions`: two paths, since a batch has to fail as a whole, a flood is
more than one path and a channel of one event drops the other; one account against
`External` and `System` gives two groups in a batch; two changes make a file, its
deletion and its return overtake their events; one trouble, one manual snapshot or
orderly stop may fall anywhere. Larger bounds (two troubles; three changes, in part) were
searched for the invariants without a violation. Bounds are constants named `Max...`, `Slots`, `Calls` and appear in guards only.

**Fairness.** `PlugSync`: a run always takes its next step, since every request
ends or times out after 30 s, and runs start again with the interval; users and
faults have none. `SyncTriggers`: timers fire and runs end. `PushSocket`: timers
fire, syscalls are answered or fail, a closing socket closes. `Semaphore`: Node runs what is
ready and a process ends or is killed at its time limit. `MessageQueue`: promises
and timers of an open window go on, leases run out with time, and a window that is closed is
opened again and loads its plugs (`Closed`); nobody is owed a worker in place of one that a
failed poll has ended, although a reload of the plugs would start one; failures, renewals, crashes
and sends owe nothing.
`Revisions`: the watcher, the event thread and whoever holds or waits for the lock go on
(weak); a commit and a sweep become due while the history thread sleeps and wakes, so the
choice to find them due is strong: deadlines pass once and stay passed
(`engine.rs:461-467`); changes, git failures, callers and crashes owe nothing.
`SpaceSync`: `WF(Engine)`, `WF(Scan)` and `WF(Deliver)`, the loop of `run()`, its
regular scan and the event stream; users, failures and restarts owe nothing.

`CHECK_DEADLOCK FALSE` appears for `PushSocket` alone: with push disabled and no
command left the device really does nothing more.

## 4. Findings

1. **A propagated deletion removes an unseen edit** (`sync_engine.ts:538`). Device A
   lists, B uploads an edit of the file, A deletes it: `delete` names no rev.
   The doc promises that an edit beats a deletion (08-sync.md:27).
2. **A failed resolution leaves an unseen revision recorded** (`sync.ts:1452`).
   `primaryConflictResolver` records the remote revision when it has read it; when the
   upload of the conflict copy or the push then fails, the record stays although
   this replica took nothing over. The next push or delete states that revision, the
   server accepts it, and the other client's edit is gone without a copy. The comments at
   1328-1329 and 1419-1422 of the file state the rule that is broken.

More behaviours appear when constants or properties of the configurations are
changed; no run is kept for them:
- `PlugSyncRaces.cfg` with `NoEditLost` as the invariant: a download overwrites an
  edit made during the run (`sync_engine.ts:590`, also 533 and 544), since
  `lastModified` is not looked at again before `writeFile`.
- `CloudStorage.cfg` with `PreconditionHolds` as the property: check and
  write are not atomic (`storage.ts:120-138`), two conditional PUTs succeed on the
  same version.
- `PushSocket.cfg` with `AtMostOneSocket`: two activations pass the check that precedes
  the awaits (`push_trigger.ts:84-101`); the forgotten socket is never closed.
- In `PushSocket.cfg`, with `webSocket` taken out of `NeverStranded`: without
  WebSocket `connect` returns with no timer (`push_trigger.ts:94-99`, as
  `push_trigger.test.ts:128-138` wants it), so nothing tries again.
- In `PushSocket.cfg`, with `threw` taken out of it: an activation that throws leaves
  neither socket nor timer. `buildPushUrl` throws on a user name or password outside Latin-1
  (`btoa`, 41) and on a URL that is none (39), line 107 is not in a `try`, nor are the syscalls of 84
  and 100-101. An enabled channel then stays away until the credentials change or the app is
  loaded again; what has changed still comes with the interval (`SyncTriggers`).
- In `MessageQueue.cfg`, with `check` left alone in `Resend`, `OverlooksOnlyMoved` fails:
  `isQueueEmpty` counts queued (0), the consumer sends a deferred message anew
  (`queue.ts:68-73`), acknowledges the old one, and processing is counted (0). The answer is yes
  although the queue was never empty; "waits until a queue has no pending or processing
  messages" (`docs/API/mq.md:25`), and a reindex of the space calls the index complete when
  `awaitEmptyQueue` returns (`object_index.ts:553-554`). Likewise with messages that
  `requeueTimeouts` has deleted from processing and not yet written to queued.
- In `MessageQueue.cfg`, with `[]<>(Unsettled = {})` as the property: a poll that throws
  (`mq.datastore.ts:46`, 226, 236) ends `run()` (100-102), and no worker takes its place until a plug
  is reloaded. "A throwing callback must not kill the worker — its queue would silently never be
  processed again for the session" (53-54) is said of the callback only.
- In `SyncTriggers.cfg`, one provider with push, no faults, and `TriggersHeeded` as the
  invariant: a trigger that meets the lock of a run past its listing is dropped
  (`auto_trigger.ts:22`), and the change waits for the interval instead of being
  synced "at once" (08-sync.md:20-21).

- In `Revisions.cfg`, with `Phantom` taken out of `EverythingCommitted`: a file that is created and
  deleted before it is committed (30 s of quiet) is marked, but neither on the disk nor
  in the index. `git add -A -f -- :(literal)path` then fails with "pathspec did
  not match any files" for all paths of that author (`store.rs:210-219`), although
  `commit_batch` says "Missing files become deletions" (221-222). The paths are
  marked again and fail again; the sweep leaves marked paths to the debounce
  (`engine.rs:227-236`). Until the file exists again or the server restarts, that author's
  changes are committed by manual snapshots only.
- In `Revisions.cfg`, with `p \notin S` taken out of the excuse in `Commit`: when `git add`
  succeeds and `git commit` fails, the paths stay staged and the next author's commit takes them
  in, although "two attributions in one debounce window produce two commits"
  (`engine.rs:19-20`).
- In `Revisions.cfg`, with `missed` left alone in `Rescan`: deletions among the events a
  lag or a flood has dropped stay unseen until the sweep, since a rescan lists the files that exist
  (`engine.rs:197-203`).

In `PlugSyncRaces.cfg`:
- `FreshRevs = FALSE` (ChessNote Cloud without encryption), a third device, three edits
  and six user operations, one crash: a hash returns and is taken for the rev this device
  recorded, `RemoteKeepsEdits` fails. A and C have synced X; B's deletion, decided on an
  older listing, removes X from the cloud (finding 1); B uploads Y; A downloads Y and is
  closed before the checkpoint, so that its entry still says X; C, whose file was saved
  again, meets the conflict and uploads X. A now finds its file changed and the cloud
  at the rev it recorded (`sync_engine.ts:489-490`): it uploads Y over X, which no
  `.conflict` file has. Losing what no checkpoint has recorded is called harmless at
  433-435, "vì dữ liệu thật không mất" (no real data is lost). Found where the proof of
  `CloudKeepsEdits` does not go through; with two devices and three user operations TLC
  finds no violation, and `Convergence` holds there.
- `EtagInPut = FALSE`, `FreshRevs = TRUE` and no faults: another device's PUT between PUT and HEAD
  (`webdav_sync.ts:264`) is recorded as one's own and overwritten by the next
  upload: `RemoteKeepsEdits` fails.
- `Runs <- TwoRunsOne`, `FreshRevs = TRUE`, no faults: the sync command takes no lock
  (`webdav_bridge.ts:144`), two runs of a device overlap, and `RemoteKeepsEdits` fails.
- One device, `FaultKinds = {"crash"}`: after an interrupted run (an upload no
  checkpoint recorded) `copies` can be non-empty, that is, a device alone with its
  folder writes a `.conflict` file against its own upload. The comment at
  `sync_engine.ts:433-435` calls the interruption harmless; no edit is lost.

## 5. Proofs

| Theorem | States |
|---|---|
| `PlugSyncProofs!TypeCorrect` | `Spec => []TypeOK` |
| `PlugSyncProofs!EntriesFit` | `EtagInPut \/ OneAtATime => (Spec => []BaseInv)` |
| `PlugSyncProofs!StateAgreesWithFiles` | `EtagInPut \/ OneAtATime => (Spec => []BaseAgreement)` |
| `PlugSyncProofs!CallsFitBranches` | `Spec => []PlansFit` |
| `PlugSyncProofs!EditsAreSafe` | `Quiet => (Spec => []NoEditLost)` |
| `PlugSyncProofs!CloudKeepsEdits` | `DistinctRevs => (Spec => RemoteKeepsEdits)` |
| `TriggerProofs!SocketIsAlwaysCurrent` | `Spec => []SocketIsCurrent` |
| `TriggerProofs!ChannelNeverStranded` | `Spec => []NeverStranded` |
| `RemoteListingProofs!CacheAlwaysMatchesCursor` | `Spec => []CacheMatchesCursor` |
| `RemoteListingProofs!EveryListingIsOneInstant` | `Spec => ListsOneInstant`, that is, `RemoteListing` implements `FolderListing` |
| `TriggerProofs!ChannelTypes` | `Spec => []TypeOK` |
| `TriggerProofs!TriggerTypes` | `TriggerSpec => []TriggerTypeOK` |
| `TriggerProofs!LockIsAlwaysARun` | `TriggerSpec => []LockIsARun` |
| `RemoteListingProofs!ListingTypes` | `Spec => []TypeOK` |
| `SemaphoreProofs!TypeCorrect` | `Spec => []TypeOK` |
| `SemaphoreProofs!SlotsAccounted` | `Spec => [](TypeOK /\ SlotInv)` |
| `SemaphoreProofs!NeverMoreThanMax` | `Spec => []AtMostMax` |
| `SemaphoreProofs!NoSlotWasted` | `Spec => []NoIdleSlot` |
| `MessageQueueProofs!MessageQueueTypes` | `Spec => []TypeOK` |
| `MessageQueueProofs!AtLeastOnce` | `Spec => []NoMessageLost` |
| `MessageQueueProofs!RetriesWereDeliveries` | `Spec => []RetryBudget` |
| `MessageQueueProofs!OnlyMovedIsOverlooked` | `Spec => []OverlooksOnlyMoved` |
| `MessageQueueProofs!WakeupsReachWaiters` | `Spec => []WaitersWait` |
| `SpaceSyncProofs!SpaceSyncTypes` | `Spec => []TypeOK` |
| `SpaceSyncProofs!RevisionAlwaysKnown` | `Spec => []RevisionKnown` |
| `SpaceSyncProofs!EditsAreKept` | `Spec => []NoEditLost` |
| `SpaceSyncProofs!QuietIsSynced` | `Spec => []QuietMeansSynced` |
| `RevisionsProofs!Types` | `Spec => []TypeOK` |
| `RevisionsProofs!NoWakeUpLost` | `Spec => []ParkedMeansIdle` |
| `RevisionsProofs!NothingIsForgotten` | `Spec => []NothingForgotten` |
| `RevisionsProofs!CreditsAreEarned` | `Spec => []CreditIsEarned` |
| `CloudStorageProofs!CloudTypes` | `Spec => []TypeOK` |
| `CloudStorageProofs!ChangesAreTold` | `Spec => []NoSilentChange` |
| `CloudStorageProofs!ServerIsFolder` | `Spec => Linearizable`, that is, `CloudStorage` implements `CloudFolder` |

They hold for every value of the constants that the modules' `ASSUME` allows.

- **StateAgreesWithFiles.** `BaseAgreement` is not inductive: a run holds entries
  that will be stored later, and an upload has read the file some steps before it
  records the time of the *listing*. `BaseInv` says that every entry, on disk or
  in a run, is about a write the device has made, and fits the file if that write
  is still the last one; and that a run about to upload holds the content of the
  file it listed unless the file changed since. Because the counter only grows,
  one later write makes an entry harmless for good. One of two hypotheses is needed:
  the PUT answers with its ETag (`EtagInPut`), or one run is under way at a time
  (`OneAtATime`, one device on its own), since with a separate HEAD the recorded rev can
  be somebody else's (section 4).
- **CallsFitBranches.** `PlansFit`: the call a run is at belongs to the branch it took, and
  what it listed still says so; a fetch, a deletion or an update in particular is that
  of a file whose entry has the listed time or rev. The two proofs below, and every
  case analysis over `Next` in them, start from it.
- **EditsAreSafe.** `Quiet` is one run at a time and no user at work on the device that
  syncs; crashes, errors, lost answers and an unreadable state file may interrupt
  the run anywhere, and other devices are edited freely. `NoEditLost` needs `QuietInv`: an
  entry is `Trusted`, that is, the wanted edits of the rev it records are on the device
  **and** in the cloud, or in a `.conflict` file (so a deletion on either side, and an
  overwriting, destroys no edit of others); what a run has listed, downloaded and read
  is still there (`QuietRun`); and a conflict is uploaded over a copy that exists. Entries
  are trusted across a crash, because a run that is interrupted leaves an *older*
  entry: its rev is no longer the cloud's, or its content is.
- **CloudKeepsEdits.** Here devices sync at the same time, users work meanwhile and
  faults strike, but every upload has a rev of its own that its answer carries, and a
  device has one run at a time (`DistinctRevs`: Dropbox, or encrypted content with an ETag in
  the answer, under the provider lock). An upload names the rev it replaces, so all that
  matters is what its writer knew of *that* version: `RaceInv` says, of everything a device
  has recorded, listed, downloaded or is about to send, that if the rev in question
  is still the cloud's, its wanted edits are covered by the device's file, the data in hand
  or a `.conflict` file (`Covers`). A rev known is never newer than the cloud's (`Past`), so
  once replaced it never comes back and the claim holds for good: the role that fresh
  revs play. With hashes for revs a content may return, and
  an entry that an interrupted download left behind can name the cloud's rev again: there
  the argument ends, and so does the property (section 4).
- **Triggers.** `LockIsARun` is inductive once it is said with the run: `LockInv`, the lock is
  taken and exactly one slot holds an automatic run, or it is free and none does. The types
  need that no run lists a later change than there are (`TriggerInv`).
- **Push channel.** The conjunction of the type invariant and the two properties is
  inductive; the cases that matter are an activation that comes back after a
  logout and a socket that closes after it was replaced.
- **Remote listing.** What is told of a path up to version `n` adds up to
  `At(p, n)`, which never changes once the version exists. `ListingInv` says that
  every cursor, on disk or in a run, is kept with the copy it adds up to
  (`Held`; `Latest` for a listing that is half drained), that no cursor is ahead of
  the folder, and that a missing folder is empty. The last page then brings the
  cursor to `last`: that step is the abstract `Answer`, every other step of a run
  asks, fails, returns or stutters. This is what entitles `PlugSync` to its atomic
  `ListRemote`.
- **Semaphore.** `SlotInv`: the counter is the number of requests that hold a slot,
  the queue lists the waiting ones once, at most one continuation is due, and
  while it is that of a woken request its slot is still free:
  `active + Free <= max`, with equality when somebody waits.
- **Message queue.** Each theorem has its own strengthening over the types.
  `NoMessageLost` needs that what a worker is about to acknowledge has been processed
  or sent anew (`AckedHandled`). `RetryBudget` needs `RetriesDelivered`: a copy that can be taken
  carries at most as many retries as the message was handed out, every other
  copy (in processing, read by a renewal, held by `requeueTimeouts`) fewer; and that a
  worker hands out exactly what it read (`TakesBatch`). `OverlooksOnlyMoved` needs
  `CountedStaysPending`: between the two counts, what was pending at the first, has not been
  finished and was not moved back, is in processing, where the second one sees it. `WaitersWait` is
  inductive over the types, given that a stale timer only ever takes away a registration.
- **Space sync.** `Typed`: the types, what each step of the operation has at hand, and
  `RevisionKnown` are inductive together. `Safe`: every edit is on one side or
  accounted for (`Hand`, `Server`: the side's text and what was saved, deleted or fell
  into a window); a recorded revision and base are texts **neither** side can lack
  without an account (`Good`), which is why a conditional push may replace the
  remote copy and a pull the local one; and for each step of the operation what it
  has read still covers the side it is about to replace, up to the edits it has
  overlooked (`op.late`), which are the `write` and `base` windows. The resolver is the one
  place that records a revision before this side has it: `Entries` exempts it while it
  runs, and a failure turns it into the `recorded` window, that is, into finding 2.
  `QuietMeansSynced` needs `Alert`, claimed while nothing has failed: copies that differ under an
  entry are told of, by a mark on the side that moved or by an event (`Noticed`), and the
  recorded revision is not the text of that side, so that the engine, which verifies a mark
  against it, cannot take the mark for an echo (`DifferenceTaken`); nor is the remote text the
  base of a divergent buffer, whose declaration would replace the recorded revision
  (`NotHidden`). While an operation runs, what has moved since the engine looked at it is marked and is
  none of the texts the engine or an editor will compare with (`MovedBeforePull`, `MovedSincePull`,
  `MovedSinceMerge`, `RemoteMoved`): a save adds an edit nobody held before, so it is never
  mistaken for a text of the past. `Alert` was checked by TLC first, with three edits.
- **Revisions.** `NothingForgotten` is proved as `Traced`, the same for each path, over the
  types and `BatchesAtRest`, that a thread that is not committing holds no batch: every place a
  path may be in is emptied only into the next one, or into git. `ParkedMeansIdle`
  is inductive once `Woken` adds that no path is marked without `first_mark`: then every
  mark but the first finds the thread with a deadline. `CreditIsEarned` needs `Credited`: what
  an event, a mark or a batch says of the author of a path's last change is true, excused by a
  named window, or about to be superseded by a later event or mark.
- **ChessNote Cloud.** `NoSilentChange` is kept as `Announced`: the request that will announce
  the change also finds the file when it asks for its `stat`, for a delete, which takes the file
  away, announces itself. The refinement needs `SerialInv`: of two connections at most one serves
  a serial file, and what it has read, checked or truncated is what the file holds; so a write
  takes effect when it truncates, a read when it has its `stat`, and the `CHOOSE` of the
  mapping has one candidate (`ServedFile`, `NewFile`).

Every safety property of a passing run is a theorem. Model-checked only, because they are
out of the prover's reach: everything about liveness and fairness (`Convergence`, `Converges`, `EverythingSynced`, `EverythingCommitted`, `Reconnects`,
`EveryWaiterRuns`, `EveryMessageSettles`).

## 6. Hazards

`PROJECT.json` lists each at its line with the properties that would catch it. Those
without a property are the behaviours of section 4 that no property survives, and
a change of folder or account, which no module has as an action.

## 7. Plan

Done: the plug sync family, then `MessageQueue`, `SpaceSync` and `Revisions` with their
proofs. What is left, in this order:

1. A change of folder, URL or account as an action of `PlugSync` and `RemoteListing`.
2. `SpaceSync`: the first sync, files that cannot be merged, several paths.
3. Proofs: under which conditions on deletions `RemoteKeepsEdits` holds where revs are hashes.

## 8. Not modelled

The chess plugs (rules, PGN, SQLite, engines), the Lua interpreter, the editor, the
plug runtime and the shells are data processing or user interface without a
protocol of their own; they make up most of the repository's lines. The object
index evaluates queries over the data store; that every file reaches it is the
message queue's doing. The server's Chrome runtime and multi-instance manager start
and stop child processes. The login lockout is one counter per time bucket behind a
mutex. OAuth, cryptography and XML are functions whose failures appear as failed
calls.
