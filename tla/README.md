# Xandrio: specifications

Xandrio imports books, extracts their chapters, has speech engines read them
and plays them to browsers and phones, online and offline. This directory holds
TLA+ specifications of the parts of the server where order, concurrency and
failure decide whether a listener gets the right sound and keeps their books,
the TLC configurations that check them on small instances, and theorems about
them that the TLA+ proof system proves for every instance.

Line numbers are those of the source beside this directory. `PROJECT.json`
names, for every definition, the lines it models.

Contents: [the system](#the-system) ·
[how the modules read](#how-the-modules-read) ·
[the modules](#the-modules) · [the runs](#the-runs) ·
[what is proved](#what-is-proved) ·
[disagreements found](#disagreements-found) ·
[what is left out](#what-is-left-out) ·
[further work](#further-work)

## The system

One Node process (`server.js`, 5400 lines, and `lib/`) serves an HTTP API and
the static client (`public/`). It keeps all of its state in JSON files under
`data/` and in a cache directory of audio and extracted books. Speech engines
are other processes (local Python servers, or a service over the network).
JavaScript runs one handler at a time, so an interleaving happens only where a
handler awaits; several processes meet on the JSON files, because the recovery
command `scripts/recover-json-store.js` runs beside the server.

The path of a sound: a player, a prefetch, an offline preparation or a premium
preparation asks *Chunked TTS* for a chapter. It splits the text into chunks
and asks the *TTS queue* for each. The queue joins requests for the same output
file, asks the *narration cache* whether the sound exists already, and starts
jobs in order of priority. A job waits at the *generation scheduler* for a
share of the engine, renders, and publishes the file through the cache. Events
of the queue go back to Chunked TTS, which admits the next chunks and tells the
waiting listener.

The path of a book: the *importer* takes the locks of every id the book might
get, extracts it into the cache and adds it to the catalogue. A *deletion*
takes the lock, records itself in the deletion log, removes the book from the
catalogue, then its state and its files, and comes back three times in the
next half minute for files that were written late. Devices read the log to drop
their copies.

| Component | State it keeps | Operations | Talks to | What makes it hard, and what must hold |
|---|---|---|---|---|
| Generation scheduler (`lib/generation-scheduler.js`) | pending and active work of each engine resource, the lookahead burst, parked producers | run, reprioritize, promote, cancel, settle, waitForBackgroundTurn | queue, Chatterbox preparation | settles, cancels and promotions race: capacity is never exceeded, never idle, no parked producer is forgotten, live playback goes first, downloads are not starved |
| TTS queue (`lib/tts-queue.js`) | jobs, the order, the index of paths, claims of owners, the foreground book | enqueue, claim, prioritize, cancel, cancelWhere, suspend, drain, the steps of a job | scheduler, cache, Chunked TTS | four awaits in a job: a file is never rendered twice at once, claims and priorities agree, nothing renders that nobody wants, the window of a chapter holds |
| Narration cache (`lib/narration-artifact-cache.js`) | files, markers beside them, shared artifacts | resolve, publish, invalidate, the start-up index | queue, Chunked TTS | every file operation interleaves with every other and with crashes: a listener never gets another recipe's sound |
| Chunked TTS (`lib/chunked-tts.js`, with `lib/generation-journal.js`) | manifests, generation plans, claims, chunk states; durable claims | generateChapter, claimChapter, pump, waitForChapter, releases, quiesce, cancelBook, reconcile | queue, cache | state read before an await; events of jobs that were replaced; a pump that overlaps its own cancellation: every wait ends, released claims vanish everywhere, a restart resumes what is wanted |
| Offline preparation (`lib/offline-preparation-coordinator.js`) | one record per book with its owners, epochs of requests and cancellations, one chain of turns, workers | request, cancel, move, run, restore | Chunked TTS, JSON store | requests and cancellations of several devices overlap: an accepted device stays an owner, a device that left owns nothing, what is wanted is prepared |
| HLS transports (`lib/hls-audio-stream.js`, `lib/concurrency-limit.js`) | sessions and their maps, permits | ensure, evict, maintain, disconnect | Chunked TTS, encoder | sessions evicted before their work ends, requests that await a gate: capacity and permits cover the work, one transport per owner, waiters are answered |
| Per-book locks (`lib/book-mutation-lock.js`) | two promise chains and an active set | mutation and state sections, sets of books | all that changes a book | reentrancy by an inherited store; no two operations inside a book, no cycle of waits |
| Book lifecycle (`lib/book-importer.js`, `lib/book-deletion.js`, `lib/book-deletion-log.js`, `server.js`) | catalogue, files, references, deletion log, guards | import, refresh, delete, sweep, feed | locks, JSON store, queue | several files and no transaction: a book in the library keeps its files, a deleted one leaves none, every deletion reaches every device |
| JSON store (`lib/json-store.js`, `lib/books-store.js`) | a file, its backups, its quarantined copies, its marker, its two locks | load, save, update, restore | everything | processes that die inside a write, power losses, damaged files: no update is lost, nothing is replaced that cannot be recovered |
| Chapter rebuild (`lib/chapter-rebuild.js`) | journal, artifact and its backup, transition record, catalogue, positions, bookmarks | plan, commit, recover | locks, JSON store, audio | a crash between two of five writes: the stores agree afterwards, no position is lost or read in the wrong structure |
| Audio of rebuilt chapters (`lib/chapter-audio-reconcile.js`) | audio files, stages, a manifest | stage, remove, promote | rebuild | moves that overlap, a crash at any file: audio belongs to its text and is not lost |
| Positions (`lib/user-library-state.js`, `public/app.js`, `public/js/features/offline.js`) | the server's record, a checkpoint and a queue of failed saves per device | save, rewind, open, flush | the API | lost answers, late queues: a rewind stands, newer progress is kept, no save is lost |
| Audio cache budget, playback orchestration, premium preparation | journal of evictions; targets of prefetch; a record per book | sweep; reconcile; ensure, resume | Chunked TTS | their effects on a chapter are steps of `ChunkedTTS`; their policies are not modelled |
| Book guides (`lib/book-guide-*.js`) | jobs, guides | request, generate, verify, retry | providers, JSON store | retries and restarts of long jobs |
| Accounts, sessions, guards, rate limits | accounts, sessions, counters | log in, renew, revoke, count | JSON store | lifetime and revocation |
| Shutdown (`lib/graceful-shutdown.js`) | a promise | drain | everything | a deadline while work is written |
| Extraction, search, downloads, metadata, covers | none, or caches | pure functions and network clients | importer | heuristics: judged on texts, not on steps |
| Client (`public/`) | player, offline copies, the feed's cursor | play, transfer, reconcile | the API | interruption of transfers, changes of account |
| Speech servers, plugin, tools | none here | render; run by hand | queue, stores | seen through what they answer or leave on the disk |

`PROJECT.json` lists under `hazards` each of these difficulties at its line,
with the properties that would catch it going wrong.

## How the modules read

*Handlers and awaits.* JavaScript runs a handler without interruption up to its
next `await`. A synchronous handler is one action; an asynchronous one is split
at the awaits after which other code may have changed what it reads. Where the
state between two awaits is private to one operation, the two halves are one
action. In the JSON store and the narration cache every file operation is a
step, since other processes, or other requests, meet there.

*Data.* A path, a book, a recipe or an owner is a model value. A file's content
is what the properties tell apart: the set of tags written to a JSON file, the
recipe and the take of an audio file.

*Bounds.* Counters that grow without limit in the program are bounded by a
constant that says so (`MaxDeletes`, `MaxTakes`, `MaxBuilds`, `Budget`) or
reused (the queue's job records). What comes from outside (a request, a kill, a
power loss, a failing operation, a damaged file, a lost answer) is an action
that spends such a budget. Where several kinds of them meet, a *scene* says how
many of each a behaviour may have; a run explores all of its scenes.

*Parts side by side.* `MCLibrary`, `MCRecovery`, `MCDevices` and `MCRendering`
each check components that share no state in one run: the variable `part` is chosen
initially, and all steps of a behaviour belong to that part. Nothing is composed
by this; it saves start-up, and each part is explored as it would be alone.

*Faults for comparison.* A definition whose comment begins with *Fault:* is a
wrong variant of the definition after it, as a plausible bug would have it. No
specification uses it. `PROJECT.json` pairs each checked property with a variant
under which the same run refutes it.

*Names* are those of the source where TLA+ allows it: `TakeNext` is
`_takeNext`, `CancelWhere` is `cancelWhere`.

## The modules

| Module | Models | Used by |
|---|---|---|
| `GenerationScheduler` | one resource of `lib/generation-scheduler.js` | `MCGenerationScheduler`, `GenerationSchedulerProofs` |
| `TTSQueue` | `lib/tts-queue.js` | `MCRendering`, `MCTTSQueue`, `TTSQueueProofs` |
| `BookLocks` | `lib/book-mutation-lock.js` and the nests its callers build | `MCBookLocks`, `BookLocksProofs` |
| `BookLifecycle` | importer, deletion, deletion log, feed | `MCBookLifecycle`, `MCLibrary`, `MCRecovery`, `LibraryProofs` |
| `AtomicStore` | what a stored file promises (abstract) | `JsonStore` |
| `JsonStore` | `lib/json-store.js` on one file | `MCJsonStore`, `MCRecovery`, `JsonStoreProofs` |
| `NarrationCache` | `lib/narration-artifact-cache.js`, with the parts of the queue and of Chunked TTS that touch its files | `MCRendering`, `NarrationCacheProofs` |
| `ChunkedTTS` | one chapter in `lib/chunked-tts.js`, its record in `lib/generation-journal.js`, the prepare job of `server.js` | `MCChunkedTTS`, `ChunkedTTSProofs` |
| `OfflinePreparation` | `lib/offline-preparation-coordinator.js` | `MCDevices`, `DevicesProofs` |
| `HlsSessions` | `lib/hls-audio-stream.js` and the permits of `lib/concurrency-limit.js` | `MCDevices`, `DevicesProofs` |
| `ChapterRebuild` | `lib/chapter-rebuild.js` | `MCLibrary`, `LibraryProofs` |
| `ChapterAudio` | `lib/chapter-audio-reconcile.js` | `MCLibrary`, `LibraryProofs` |
| `PositionSync` | positions in `lib/user-library-state.js`, `public/app.js` and `public/js/features/offline.js` | `MCLibrary`, `LibraryProofs` |

The modules that one run puts side by side are extended by its MC module, so the
names of the parts differ: `Life...`, `Audio...`, `Pos...`, `Hls...` and
`Cache...` are a part's own `Init`, `Next` and variables.

### GenerationScheduler

An element of `Items` is a caller's slot: it submits, settles and may submit
again. `phase` is the scheduler's view of it, `working` whether its work really
executes, `aborted` whether it was cancelled while it did; such work keeps its
slot until it settles. `Run`, `Settle`, `CancelPending`, `CancelActive`,
`Promote` and `Reprioritize` are the handlers, each with the `_drain` and
`_notify` it calls. Sequence numbers are kept as the order `ahead`. `Age` says
that an item has waited for the limit; a clock is not kept. Background producers
park in `WaitForBackgroundTurn` and are woken when the last live item leaves.
The lookahead burst is a counter that stops at `LookaheadBurst`, where the code
only compares. Resources do not influence each other, so one is modelled.

### TTSQueue

A job record has its path, priority, claims, status and the stage its
`_processJob` is in (probe, admission, render, cleanup). `_queue` is kept as
the relation `ahead`, so that a proof need not do induction over sequences;
`InsertInFront` and `InsertBehind` are the two insertions of
`_insertByPriority`. `enqueue` is two actions, before and after the await of
the artifact lookup, and its second look at the index is in the second.
`_drain` runs in steps (`DrainStep`), during which no other handler runs;
`process.nextTick(_drain)` sets `tick`.

Left out: jobs without an owner (voice samples), a concurrency limit that
changes while running, retention of finished records, engine calls and their
validation. The slot of a finished job is reused at once. A path in `Rendered`
may be found by a lookup; which bytes it finds is NarrationCache's matter.

### BookLocks

A task is an asynchronous operation with a plan, the nest of sections it enters;
`held[t][i]` is the ownership store its code sees inside the `i`-th of them.
`Chain`, `Admit` and `Leave` are the promise chain, `Reenter` the reentrant
path, `ReturnBusy` the `ifBusy` answer. `Leave` ends a section normally or by an
error and then skips the rest of the nest. `Detach` is a section that leaves a
timer behind: the timer starts with the section's store, which is what
`scheduleSweeps` in `lib/book-deletion.js` does. Books are numbers, in the order
in which `withBookMutationLocks` sorts their ids.

### BookLifecycle

The catalogue, the files of a book (one unit), the references other stores keep
to it, the log's pending and published records with their revision, and the
guards `deletedBookIds`. An import runs through its candidates, writes each
one's files before it knows whether it will keep them, and removes what it owns
when it fails. A deletion is a sequence of actions in the order of
`deleteBook`; each can be the last when the process restarts, and several may
fail. Sweeps enter without waiting for the lock, because the store their timer
inherited names the book (see BookLocks). Locks are owners here; an import gets
its candidates' locks at once, which is sound because BookLocks shows that
sorted acquisition ends. Every operation is bounded, so a behaviour may end, and
deadlock is not checked.

`Refreshable` are books whose own importer may import them again, in place. Such
a refresh owns the library's file, and when it rejects it or fails it removes it
while the record stays (`Refreshed`); no document says what a failed refresh
leaves. A sweep that enters beside a re-import may likewise take files that the
library or the import needs (`Needed`). `spoiled` records exactly these books, and
`FilesFollowLibrary` holds of all others. A removal may fail (`RemovalFails`): the
candidate is passed over and stays owned, and at the primary the import ends.

Left out: extraction artifacts and their recovery proof, and permissions of
members. The references of a deleted book go in one step.

### AtomicStore and JsonStore

`AtomicStore` is the promise: an operation takes effect at one instant on the
value the file has then; a death takes unfinished operations with it; a power
loss leaves the value or an unsettled earlier one, and, where `Synced`, nothing
acknowledged is lost. `JsonStore` is the code: the promise chain of a process,
the SQLite mutex, the lock file with a process id, the read with its quarantine
of corrupt bytes and its marker, the backup, the rename, the directory sync, the
marker. `maybe` is the set of contents a power loss may leave. `Phase` maps the
places of a task to the phases of the promise; `ImplementsAtomicStore` is the
abstract specification itself. `Synced` is `~Critical`, because a critical store
may acknowledge a repetition without a sync (see the disagreements).

Left out: files that parse and fail their validator, the locks of older
versions, which older backups a rotation keeps (any may go, never the newest),
and modification times. Damage happens while no process runs.

### NarrationCache

Two kinds of files, outputs and shared artifacts, each with a marker that names
a recipe and a content hash. A lookup, a render job, the start-up index and a
noise repair are tasks interrupted at every file operation; `goal` says what an
inspection is for. One render job per path at a time, which TTSQueue proves. A
recipe changes (`Edit`) once the jobs of its path are quiet, which is what
`quiesceChapter` waits for; lookups and the index may still be under way, and a
job may be begun for what a lookup was asked before. `crossed` records that
bytes were put at a path while a task for another recipe still used it;
`Provenance` and `ArtifactsPure` speak of runs without it ("Disagreements found"
says what comes of it). Damage hits marked bytes, all links to them at once,
while no task runs. Lengths, the memo of hashes and the copy where links are
refused are left out; a marker of version 1 counts as none.

### ChunkedTTS

One chapter. `PutIntent`, `StartBuild`, `EndBuild` and `Install` are
`generateChapter` between its awaits, for three callers: the prepare job that
`server.js` shares between the consumers of a whole chapter, a player that
listens, and a restart that resumes the journal's claims. A manifest is built
anew whenever the code builds one; `plan[m]` is its generation plan with its
owners. Rounds of a manifest's pump wait in `due` and await `enqueue` in
`round`. A job of the queue is known by its chunk, since TTSQueue shows that at
most one is live per path; its events come back to the manifest that is current
then. `released` are requests whose release has returned, after which nothing
may claim for them. `Invalidate` is any removal of a chunk's file, as the cache
budget and a changed pronunciation do. Scenes, not a bound on steps, keep the
run finite.

Left out: splitting of text, voices, priorities within a plan, concatenation,
the removal of a stale text's audio, the premium and offline records of the
journal. Noise repair is in NarrationCache.

### OfflinePreparation

A book has one durable record with its owners. Requests, cancellations and the
workers' saves take turns in `chain` (the promise chain `mutate`); what they do
before and after their turn interleaves. `inv[r]` is an invocation of a request,
`worker[b]` is `runBook`; a worker re-requests its own book in the slot of that
book. `word` records what each device was last told, and is what the properties
compare the record with; "cancelled" is the word of a device that was accepted
and whose book is being removed for everybody. `renewed` records the devices
whose aborted request got a newer epoch from another device's cancellation.
Every caller in `src/` cancels with `remove`; a record may have been paused by
an earlier release.

### HlsSessions

A session prepares a source, which may wait for narration and ignore
cancellation, and then runs an encoder. It is evicted, that is left out of the
maps, before that work stops, and counts against the capacity until it does. A
playlist request looks its session up, awaits the admission gate, looks again,
may create a session, and waits for it, for its end, or for its client to
leave; it holds a permit, which outlives the client when the session's work
does. Segments, directories and byte counts are left out, so maintenance may
find any lease run out.

### ChapterRebuild, ChapterAudio, PositionSync

`ChapterRebuild` moves five stores from structure `n` to `n + 1`, with a journal
that is marked before each; a structure is a number, and a listener's mark
(position or bookmark) carries the structure it is labelled with and whether it
is meant in it. Every operation of the stores and the journal may fail or die in
the middle, the first mark of a journal too; `torn` records that a copy was cut
short of which the durable journal knows nothing. `Recover` and `Undo` are what
a rebuild, a visit or a start of the server does with a journal it finds.
Listeners' writes take the book's state lock and so run between such operations;
the merge of profiles takes no lock and may run inside one. `ChapterAudio` is
the step of a committed rebuild that moves audio files of unchanged chapters to
their new indexes: a copy of each to a stage, removal of what is affected,
promotion of the stages, with a manifest that says how far a run that died had
come. An error removes the stages, the manifest and the affected audio, in this
order, and each removal may fail or be cut short; `littered` records that one
was, after which what an error should have removed may be there. Chapters are
rendered anew only after a failed run: renders between the quiescing of a
chapter and its removal are left out. `PositionSync` has one book on several
devices, whose saves are sent, lost, queued and flushed, and `recordPosition`,
which decides by the time a save was made and by whether it may move backward.
Clocks agree; the cap of the queue and the flag of a finished book are left out.

## The runs

| Run | Instance | Shows |
|---|---|---|
| `scheduler` | 3 items, 1 producer, capacity 1, burst 2, immediate, lookahead, download and background | `WorkBounded`, `NobodyWaitsInVain`: capacity, no idle slot, no lost wakeup; `LivePlaybackFirst`: order of admission; `DownloadProgress`: lookahead does not starve a download |
| `rendering` | queue: 2 jobs, 3 paths of a chapter, 2 owners, window 1, one render at a time, with admission; cache: 2 paths, 2 recipes, 3 tasks in five scenes with one or two mishaps | `OneJobPerPath`, `NoStall`, `ClaimsAccounted` (claims, priorities and renders agree, no orphans), `WindowRespected`; `Provenance`, `ArtifactsPure` |
| `queue_order` | 2 books, 2 paths, 1 owner, next and download, promotion to immediate | `QueueOrdered`; `UrgentFirst`: bands first, then foreground book and reader's order |
| `book_locks` | 3 operations, 1 timer, 2 books, 7 nests | `SectionsExclusive`; `OwnershipSound`: justified ownership, exact accounts, ascending waits; `SectionsComplete`: every section gets its turn |
| `chunked` | 2 chunks, one rendered ahead, 2 consumers, a player, 2 manifests, nine scenes | `RetiredLeaveNothing`, `OwnersDurable`, `DeletedBookForgotten`, `ClaimsLeaveWithOwners`; `ChapterSettles`: who waits is answered, and no manifest with owners stays unfinished |
| `devices` | offline preparation: 3 books, 2 devices, 1 worker, seven scenes; transports: 3 owners of 2 accounts, 3 requests, capacity 2, five scenes; up to two cancellations at once | `AcceptedOwns`, `LeftOwnNothing`, `NothingOrphaned`, `Prepared`; `WorkAccounted`, `OneTransport`, `WaitersSpared`, `WaitsAnswered` |
| `library` | lifecycle: 2 books, feed, 1 fault, 1 restart, with 2 importers and 2 deletions of new books, or 1 importer that may also refresh, 1 deletion and 3 sweeps; rebuild: 2 users, 2 rebuilds, 2 writes, faults, crash or merge; audio: 4 chapters, 2 plans, 2 crashes or errors; positions: 2 devices, 3 places | `FilesFollowLibrary`, `CursorSound`; `AllOrNothing`, `ListenersKept`; `AudioKept`; `PositionsKept` |
| `recovery` | lifecycle: 2 deletions, 3 sweeps each, 1 fault; ordinary store: update, load, save; 1 kill, 1 damage, 1 power loss | `DeletedFilesGo`; `StoreKept` (corrupt bytes are copied, the promise with `Synced`), `CallsEnd` |
| `store` | critical; update, save, restore in 2 processes; 1 kill, 1 power loss, 1 fault, 1 damage | `ImplementsAtomicStore`, `BackupBeforeReplace`, `FailsClosed` (no false first run) |
| `devices_left` | as `devices`, offline preparation | refutes `CancelReleases`, see below |
| `lifecycle_hidden` | 1 importer, feed | refutes `DeletionRecorded`, see below |
| `store_reuse` | ordinary; 3 updates; 1 kill, ids reused | refutes `CallsEnd`, see below |

The type invariants that no theorem states are conjuncts of a property of their
run: the lifecycle's in `FilesFollowLibrary`, offline preparation's in
`AcceptedOwns`, the transports' in `WorkAccounted`. Chunked TTS's, which
`ChunkedTypeOK` states, is a conjunct of `OwnersDurable`.

*Bounds.* One render slot and a window of one are the smallest at which a second
request has to wait, and the queue's rules look at pairs of jobs. Two owners are
needed for a claim that outlives another, three paths for a chapter with one
chunk on the disk and two to render, two recipes for a wrong one. The store
needs three calls: one that holds the locks, one that waits in its process and
one in another. Two deletions are needed for a record that replaces another, and
two imports for candidates that overlap; a third of either repeats the second.
The scenes of `rendering` cover each mishap at least once and each pair of kinds
that meets at one path. Two chunks with one rendered ahead make a pump of
Chunked TTS stop at its capacity and go on; two manifests, a predecessor and its
replacement. Offline preparation has one book more than its worker can take and
its table can track. Three requests make two clients wait for one transport
while a third replaces it. Four chapters hold moves that overlap upward and
downward. Two rebuilds let a second one begin upon what the first left. Two
devices and three places let each of two saves be older, newer, nearer and
farther than the other. In `queue_order` and `rendering` model values that the
modules do not tell apart are symmetric; runs of temporal properties other than
safety use no symmetry.

*Fairness*, only where a run checks that something happens:

- Scheduler: work settles (each engine call has a timeout) and woken producers
  run. Nobody is obliged to submit anything.
- Locks: a task that can go on in its nest does, since section bodies settle and
  the microtask queue runs; no task is obliged to begin.
- Chunked TTS: awaits return, the queue renders or fails every job (TTSQueue and
  the engines' timeouts), and the liveness timer fires. Callers need not do
  anything.
- Devices: invocations, cancellations and workers of offline preparation go on,
  and chapters are prepared or fail; of the transports, the microtasks run, the
  admission gate answers and the readiness timer fires. A source may hang for
  ever, and an encoder may run for ever. One weak fairness condition on all of
  these together is enough, and weaker than one for each: scenes are finite, so
  what goes on cannot go on for ever at the cost of something else.
- Recovery: deletions that started run to their end, timers fire; a call of the
  store takes its steps. Kills and faults are never obliged.

*Deadlock* is checked in `scheduler`, `queue_order` and `book_locks`, which never
stop. The others are bounded and may end.

## What is proved

The theorems hold for all values of the constants that satisfy the module's
assumption (`SchedulerAssumption`, `QueueAssumption`, `LocksAssumption`,
`StoreAssumption`, `CacheAssumption`, `ChunkedAssumption`, `RebuildAssumption`,
`AudioAssumption`, `LifecycleAssumption`, `OfflineAssumption`, `HlsAssumption`;
positions need none), whatever the bounds, and none assumes more. Where the code
breaks a property in a case that is known, the model reaches the case, a history
variable records it (`crossed`, `spoiled`, `torn`, `exposed`, `littered`,
`renewed`), and the property excuses what is recorded and nothing else;
"Disagreements found" tells what happens there.

Each proof follows one line: an inductive invariant, that `Init` implies it, that
every action keeps it (a lemma per action), that it implies the property. A proof
of an action property shows that the invariant and a step imply it.

| Theorems | Inductive invariant and why it is needed |
|---|---|
| `GenerationSchedulerProofs`: `SchedulerTypeOK`, `CapacityRespected`, `CapacityUsed`, `WakeupsDelivered`, `WaitsHaveReasons`; `LivePlaybackStartsFirst` | types, the account of executing work, no free slot beside pending work, no parked producer without live work. Capacity needs the account: the code compares a count, and a cancelled item still executes. `WaitsHaveReasons` puts the last two together as `NobodyWaitsInVain`. That live playback goes first needs no free slot beside pending work: only then is what is admitted the best of what waits, and not merely the newcomer. |
| `TTSQueueProofs`: `QueueTypeOK`, `RenderedOnce`, `NoOrphans`, `ClaimsKept`, `ClaimsAndRendersAgree` | the conjunction of the first four: that an index entry is the live job needs that only dying jobs have no owner, and the priorities of queued jobs are those of claims. `ClaimsAndRendersAgree` is `ClaimsAccounted`. |
| the same: `LineInOrder`, `MostUrgentFirst`, `WindowHolds`, `NeverStalls` | on top of it, that `ahead` is one line sorted by urgency; with it, that what `TakeNext` picks has nothing more urgent before it. The window adds the callers that passed its check and still look up; the absence of stalls that whatever frees a slot or adds work has asked for a drain. |
| `BookLocksProofs`: `LocksTypeOK`, `LocksExact`, `OwnershipHolds`, `SectionsExclude`, `NoWaitCycles`, `OwnershipIsSound` | types, exact accounts of holders, and `Nested`: what each level of a nest rests on. Exclusion adds that only timers start with a store; the absence of cycles that a nest climbs. |
| `JsonStoreProofs`: `StoreTypeOK`, `StoreIsAtomic`, `BackupsKept` | types, that what a read finds is what a power loss may leave, where the owner of both locks can be, and what is already backed up there. `StoreIsAtomic` is the refinement, one lemma for each step and the abstract step it takes. |
| the same: `StoreFailsClosed` | `MarkInv`: a write that is acknowledged, or about to be, left the marker; an update that works on a missing file found no marker. It speaks of times without a power loss, which may take the marker along. |
| the same: `StoreIsKept` | the refinement, and `KeptInv`: an update that goes on from the defaults has a whole copy of the corrupt file, a restore has it in the backups, and a copy in the making has one maker, so that neither a second reader nor a fault of another takes it for whole or removes one that is. With `CorruptBytesAreKept`, this is `StoreKept` for ordinary and critical stores alike; the run checks it for an ordinary one. |
| `NarrationCacheProofs`: `CacheTypeOK`, `MarkersProve`, `SharedSoundIsOwn` | markers name renders of their recipe whether or not the bytes still fit; artifacts are pure; and, for each task, which hash or bytes it carries (`Carries`) and on which files it relies (`Relies`), as long as nothing crossed: who puts bytes at a path is alone there with its recipe (`Alone`). The property alone is not inductive: a marker is written long after the bytes were looked at. |
| `ChunkedTTSProofs`: `ChunkedTypeOK`, `NothingIsLeft`, `DeletedIsForgotten`, `ClaimsAreKept` | `IInv`: the types, that a round under way has a chunk to enqueue, that the manifests suffice and that who waits is a consumer of the prepare job (`Shape`); a render that nobody stopped has a claim, none of a released request, and is stopped once the book is deleted (`JobsSound`); the journal has no claim of a released request and nothing of a deleted book (`Remembered`); every owner that a call, a plan, a join or the journal names has asked (`Known`). Many awaits carry a claim past the release of its request. What keeps it out is the check after each of them, and where the code enqueues first and checks then (`_materializeChunkNow`) the claim that `_releaseMaterializationClaim` takes back in the same step. That a restart resumes only requests that were made, `Known`, is needed for `ClaimsAreKept`: the handler of an `AbortError` erases the claim of the call's creator, who is then not one that waits. |
| `DevicesProofs`: `AcceptedStayOwners` | `OInv`: who works is active and fits in the capacity (`Manned`); the chain of turns is a lock, which a request holds from its write to its end and a cancellation while it discards, and a worker in a save is in it once (`Orderly`, `Locked`); what is accepted or about to be is newer, in the epochs a cancellation compares, than every cancellation that could take it (`Stamped`); it is in the record (`Kept`). Epochs are compared long after they were read, hence `Stamped` speaks of every cancellation under way, before and after its turn. It holds for any number of cancellations at once, of which the run has two. |
| the same: `WhoLeftOwnsNothing` | on top of it, `Farewell`: who left has no other request (`Silent`); a request that its own device's cancellation aborted is awaited by a newer one of that device, or `renewed` says so (`Awaited`); what who left still owns, a cancellation under way will take, being newer than its last request (`Leaving`); and no request is newer than its book's epoch (`Dated`). There may be any number of devices, requests, cancellations, books and restarts, and cancellations of one book overlap as they do in the code. |
| the same: `WorkIsAccounted`, `OneTransportEach`, `WaitersAreSpared` | `HlsInv`: every session is in a possible state (`Sane`), the maps lead to the sessions that are not evicted and to no others (`Led`), the count of a session is the number of those who wait for it (`Counted`). Capacity and permits rest on the latter two: an eviction leaves the maps at once and its work runs on. |
| `LibraryProofs`: `RebuildTypeOK`, `RebuildIsAtomic` | what is durable is enough to undo what was started (`Undoable`), and what holds at each place of an operation (`Located`). That no journal means one structure is not inductive: it is made true by a cleanup, many steps after the store that broke it. A first mark that fails and any single mishap are covered; only a torn copy that the durable journal does not know of is recorded (`torn`), and then only the artifact may be torn. |
| the same: `ListenersAreKept` | on top of it, that an undecided journal's snapshot holds the marks acknowledged last, meant in the old structure; and which stores of marks are meant in which structure, at rest (`MeantThere`) and at each place (`MeantHere`). |
| the same: `AudioIsKept` | `AudioInv`: before the manifest the files are the old chapters' (`Original`); with it, each item is in its stage or where the phase says (`Kept`), and while stages are consumed no affected chapter has files of another (`Promised`); once audio was given up nothing but new renders is left at the affected chapters (`GivenUp`). All this (`AudioClean`) holds while no cleanup is under way and none was cut short (`Unlittered`); otherwise audio was given up (`spoilt`), and the properties ask nothing of it until a cleanup is done. Moves overlap, so what holds of one file depends on all items. |
| the same: `PositionsAreKept` | `PosInv`: a save is handled, given up, queued or in a request that waits (`Retried`, `Decided`), a flush sends safe saves of its device one at a time (`FlushSafe`, `OneByOne`). |
| the same: `NothingIsLeftBehind`, `CursorIsSound`, `FilesAreKept` | `LifeInv`: what an import at each of its places owns (`Imported`), who holds which lock (`Locked`), where a book stands in the catalogue while it is worked on (`Listed`), and whose files there may be (`Tidied`). `FilesAreKept` adds that the library's books and what imports own have files (`Backed`), save those in `spoiled`: see BookLifecycle above, and `lib/book-deletion.js:86` below. |

Only model-checked:

- liveness under fairness and whatever rests on ENABLED, which the prover does
  not do: `DownloadProgress`, `SectionsComplete`, `ChapterSettles`,
  `Prepared`, `WaitsAnswered`, `DeletedFilesGo`, `CallsEnd`;
- `OwnersDurable`, which holds of the scenes of its run and not of all: a
  deletion that overlaps a join and a new generation is enough to break it
  ("Disagreements found"); its other conjunct, the types, is `ChunkedTypeOK`;
- `NothingOrphaned`, which holds of the scenes of its run and not of all: one
  cancellation that overlaps an anonymous request is enough to break it
  ("Disagreements found").

Induction over data and RECURSIVE operators are beyond the installed provers as
well; the modules have neither where something is proved about them.

## Disagreements found

Three are kept as runs in which TLC refutes what the documents or tests say:

- `lifecycle_hidden`: `docs/API.md:712-714` says a deletion commits a record
  that devices use to drop their copies. A feed request between the deletion's
  `begin` and its catalogue update sees the book and drops the pending token
  (`lib/book-deletion-log.js:74`); `commit` then finds no token and saves
  nothing. The deletion is never published.
- `store_reuse`: `test/test-json-store.js:413` says the lock of a dead process
  is stolen instead of blocking for ever. A process restarted under the id of
  the one that died, as in a container, finds its own id in the lock file and
  polls for ever with the mutex held (`lib/json-store.js:73`).
- `devices_left`: `docs/API.md:838-841` says a cancellation releases the claim of
  the device that asks for it. A cancellation also advances the epoch of requests
  that an earlier one has aborted and waits for
  (`lib/offline-preparation-coordinator.js:163`). When `p` cancels while its
  request is being written, and then `q` cancels too, the write records an epoch
  that `p`'s cancellation takes for a newer request; it returns without releasing
  anything. `p` owns a record in preparation that nobody works on.

The following came up while modelling; the actions behave as described, and the
properties are stated so that they hold of them.

- `lib/tts-queue.js:1076`: the bypass asks for the *current* priority of the
  active jobs. A foreground render that loses its live claim becomes background
  work and makes room for another one, so the renders at once are not bounded
  by the limit plus one ("let one foreground job bypass", line 1074).
- `lib/tts-queue.js:832`: such a demotion does not drain. A live job then stays
  queued behind a background-only active set until an unrelated event drains,
  which line 1073 says must not happen. `NoStall` speaks of slots below the
  limit only.
- `lib/tts-queue.js:847`: a promotion during the reuse probe finds no admission
  and is lost; the job waits for the engine at its old priority
  (`test/test-generation-scheduler.js:131` promises otherwise for a job that
  waits). `ClaimsAccounted` compares priorities of queued jobs only.
- `lib/book-deletion.js:86`: the sweep's lock does not serialise it with a
  re-import, as lines 23-25 say, because its timer inherits the deletion's
  ownership store and takes the reentrant path.
- `lib/book-deletion-log.js:80`: a pending record that an interrupted deletion
  left behind, resolved after a later deletion of the same book was published,
  replaces that record by the earlier one.
- `server.js:3901`: the feed resolves pending records against a catalogue it
  loaded before, and may publish the deletion of a book that was imported since.
- `server.js:494`: the last sweep of an earlier deletion of an id retires the
  guard of a later one, whose sweeps then do nothing.
- `lib/json-store.js:468`: a critical write repeated after a failed or
  interrupted directory sync finds nothing to do and is acknowledged unsynced.
- `lib/json-store.js:289`: a load looks for the marker after it failed to read,
  without a lock; the first write in between makes it report a loss.
- `lib/json-store.js:238`: a quarantine copy that is partial, because another
  load is writing it or died doing so, makes the load fail, in the second case
  for good, where `test/test-json-store.js:89` promises the defaults.
- `lib/narration-artifact-cache.js:383`: noise evicted from the shared cache
  lives on in the output of another namespace, which publishes it again
  (`test/test-narration-artifact-cache.js:546`: "instead of resurrecting it").
- `lib/narration-artifact-cache.js:304`: bytes and marker are unlinked side by
  side; a lookup, or a crash, in between sees unmarked bytes and takes them for
  old ones, although line 188 of the same test says that corrupt ones
  regenerate.
- `lib/chunked-tts.js:1055`: claims of owners that joined while a manifest was
  built are added to the chapter's record ("could not claim it yet"); but when the
  only recorded owner was released meanwhile, its record is gone, and with it what
  they would be added to: such a consumer waits and is not durable.
  `OwnersDurable` speaks of times without releases. A join that a deletion
  overtakes does the same at line 2340: its first render round is aborted and it
  takes its claim back, although the shared job, generating anew, may meanwhile
  have recorded the intent under that very owner (`claims[0]`, the highest
  priority; line 982). With two consumers, a player's listen and a deletion TLC
  finds this too; no scene of `chunked` combines the four.
- `server.js:2422`: a failed chapter is resumed without a request id, so beside
  the claims it preserves an anonymous one becomes durable, which no release
  removes.
- `lib/chunked-tts.js`: further overlaps of a release or a deletion with a
  preparation in flight. A preparation that joins claims for its creator only; an
  aborted one removes the durable claim while the plan keeps the owner, and those
  who joined get its `AbortError`; one that is loading the book when it is deleted
  later clears the mark of the deletion; a round in flight of a superseded
  manifest renders a retired owner's chunk under an anonymous claim. The properties
  follow requests whose release has returned and which nothing involves any more.
- `lib/chunked-tts.js:1653-1670`: a file that the cache budget, a quiesced chapter
  or a repair removes after a build has looked at it leaves a chunk that is ready
  and has no file, until something reads it.
- `lib/tts-queue.js:1232`: the cleanup of a cancelled job may remove a file that a
  new job for the same path has reused in between.
- `lib/offline-preparation-coordinator.js`: a request of an existing book that
  is cancelled after it reset the record and before it was scheduled leaves no
  worker until the next request or restart; a cancellation that overlaps an
  anonymous request, of a restart or of a worker whose book changed, counts that
  as another owner, and the book is prepared for nobody; without `remove`, which
  no caller in `src/` omits, a queued save writes over `paused`, and line 585
  reads the state of a record that may be null.
- `lib/chapter-rebuild.js:368`: "durable commit is authoritative", but when the
  write of `committedAt` fails the client is told that the rebuild changed the
  book, and the next recovery undoes it.
- `lib/chapter-rebuild.js`: a first mark that fails, followed by a failing or
  dying copy of the backup in the undoing, leaves a torn artifact with a journal
  that says no store was begun. So does, in effect, a backup copy that is cut
  short while the journal of an earlier rebuild, undone but not removed, still
  lies there: the next recovery restores the artifact from it. `torn` records
  both. An undoing that is put off replaces positions that were written since
  (lines 187-189), and one whose journal cannot be removed is done again at
  every visit. `ListenersKept` excludes writes made while such a journal lies
  there.
- `lib/chapter-audio-reconcile.js:176`: "the manifest makes every step repeatable
  after a process crash", but after the manifest is removed and before the
  rebuild's journal says so, a crash makes the next run take all moved audio for
  stale. `AudioKept` speaks of runs before that point.
- `lib/chapter-audio-reconcile.js:240-245`: when a process dies in an error's
  cleanup after it removed the stage of an audio file and before it removed the
  manifest, and that file's source is already gone, the next run finds audio only
  at the target, takes it for promoted (line 189) and keeps it: a chapter is left
  with its old audio beside a marker that fits the new text. The marker's length
  and hash give it away to a lookup. `littered` records a cleanup that was cut
  short.
- `lib/chunked-tts.js:2421`: quiescing a chapter waits for jobs that chunks name,
  not for lookups in flight. Such a lookup, for the old text, may outlast the edit
  and a render of the new one: it then copies the new sound into the old recipe's
  artifact, under a hash that does not fit, or removes the new file and links the
  old artifact in its place, which the job publishes as its own. The first is found
  out at the next look, the second is not. `crossed` records the overlap.
- `public/js/features/offline.js`: a queued rewind is accepted after a newer
  autosave was refused as backward, and that save is lost to the server until the
  next one; a device that could not read the server in time plays on from a stale
  checkpoint, which a later opening puts over another device's progress; the cap of
  the queue drops by arrival, not by time.

## What is left out

The components table of `PROJECT.json` gives the reason for each part that has
no module. In short: policies (audio cache budget, playback orchestration,
premium preparation) are seen in `ChunkedTTS` through the requests, releases and
removals they make, in every order rather than the one they choose; text
rewriting, extraction, search, guides and metadata are judgements about texts
and have little order of steps to check; engines, plugins and outside catalogues
are seen through what they answer; sessions, limits and listener records are
single updates of a store; views are presentation, and much of the client's
player depends on media elements whose behaviour the source does not determine.

A few details that no property can tell apart are simpler than the code: the
liveness check of `ChunkedTTS` does not reset its count of stranded checks
(`lib/chunked-tts.js:1744`); the client of an evicted transport whose encoder had
ended is answered at once instead of at its deadline; and a device that opens a book
leaves the time of its checkpoint as it was (`public/app.js:2352`).

The modules are not composed. What one takes from another is stated where it is
used: the cache and `ChunkedTTS` take one job per path from the queue, the
lifecycle and the rebuild take their locks and the reentrance of sweeps from
BookLocks, both take atomic stores from JsonStore, the queue an admission that
comes or fails from the scheduler, the rebuild an audio step that succeeds or
fails from `ChapterAudio`.

## Further work

1. The composition of `TTSQueue` and `GenerationScheduler`: the admission that
   `TTSQueue` takes as given, with priorities passed on by promotion.
2. An abstract specification of durable claims that `ChunkedTTS` implements, and
   with it the premium and offline records of the journal.
3. Theorems: `OwnersDurable`, under the assumption that no deletion overlaps a
   join, with a ledger of the calls through which an owner came to wait.
4. The client's transfer of packages and its reconciliation with the deletion
   feed.
