# Chassis Notes: a verification project for the driving-analysis authorities

Chassis Notes keeps the records of radio-controlled cars and analyses videos of
their races. The server is a Cloudflare Worker with a D1 database, R2 object
storage, Workflows and one Durable Object; the analysis of a video runs on a
single GPU on somebody's desk. This directory holds TLA+ models of the parts of
that system whose correctness depends on the order in which things happen, the
configurations that check them with TLC, and theorems about them whose proofs
TLAPS checks. All paths below are relative to the repository.

## 1. Inventory

| Part | State it keeps | Operations | Interacts with |
| --- | --- | --- | --- |
| GPU lease coordinator, `src/driving-analysis/gpu-lease-coordinator.ts` | one persisted record: queue of waiters, active lease, terminal reasons, receipts, counters; one alarm | enqueue, acquire, renew, witness, release, cancel, restoreCapacityBusy, requeueProviderLoss, beginCommitHold, releaseCommitHold, alarm | called by the tracking workflow, the publication and the cancellation workflow |
| Tracking authority, `tracking/tracking-authority.ts` | D1 rows: run, segment, execution attempt, transfer request, promotion, accepted artifact | activate, transition, retire, transfer requests, promotion, acceptance, fencing, unavailability, cleanup claims | the workflow, the publication, the cancellation route, scheduled cleanup |
| Artifact publication, `tracking/tracking-artifact-publication.ts` | none of its own; R2 objects | publish, cleanupDue | the authority, R2, the coordinator |
| Tracking workflow, `tracking/driving-analysis-workflow.ts`, and cancellation, `tracking/tracking-cancellation.ts` | recorded step results | one step per remote call, retried or replayed | everything above and the GPU worker |
| GPU worker job manager, `services/driving-analysis-gpu/.../jobs.py` | a journal file, one thread, in-memory output | submit, grant, status, cancel, expiry, restore | polled by the workflow; transfers with R2 |
| Race recording upload and validation, `race-recording/` | D1 rows of recordings, parts, validations; R2 multipart uploads | create, part, finalize, complete, discard, recover, validate | the browser, R2, the media container |
| Driving analysis lifecycle, `analysis/` | D1 rows of analyses, operations, receipts | create, cancel, rerun, complete, fail, delete, cleanup | the creation and tracking workflows |
| Prepared track view | D1 rows, R2 objects | prepare, accept, clean up | the creation workflow, the media container |
| Owner data synchronization, `routes/**/*-sync.ts` | D1 rows of the owner's data, one receipt per command | one command per route | the browser's offline queue |
| Offline garage of the browser, `client/src/app/garage/car-sync/`, `offline/` | IndexedDB: acknowledged copies, queued operations; a flag and a timer in memory | queue a command, synchronize, record an outcome, review | the synchronization routes, other devices through them |
| Setups and imports, `routes/setups/` | D1 rows of setups, the car's current setup and its version, import drafts | save, copy, correct, select, accept a draft, queued setup commands | the browser, the synchronization receipts, voice |
| Voice capture, `routes/voice/` | D1 rows of notes and of what was saved from them | process, correct, edit, discard, confirm | setups, drive sessions, an external transcriber |
| Corner evidence, subject frames, invites, photos, maintenance, track maps, sign-in | D1 rows, R2 objects, one in-memory queue | see PROJECT.json | the browser |

What is hard about them: nearly every operation reads D1, decides, and writes in
a later batch whose conditions must repeat what was read; D1, R2, the Durable
Object and the GPU worker share no transaction; Workflow steps are retried and
replayed, so every call may arrive twice, late, or after its caller was
cancelled. `hazards` in PROJECT.json lists each such place with its line, and the
property that watches it or why there is none.

For each component, what makes it correct:

- coordinator: at most one lease; nobody loses a lease it was promised; first in,
  first out; newer leases have larger fences; finished segments stay finished;
  nothing blocks the queue for ever;
- tracking authority: one current attempt; evidence is accepted once, whole, and
  only for a run that is still active; what was accepted is never deleted, what
  was not accepted is deleted in the end;
- GPU worker: at most one execution; a job reaches a final state and stays there; what
  was told to stop produces nothing;
- uploads: a completed recording is made of the parts that were claimed; nothing
  deletes an object that a row refers to;
- lifecycle: an analysis has one current run; a deleted analysis stays deleted;
- synchronization: a command takes effect once, only over the values it was based
  on, and its receipt tells what it did; nothing queued is lost;
- setups and voice: a save is one coherent copy, is current at once, and happens
  once however often it is confirmed.

## 2. Plan

The order puts the behaviour first on which everything else rests: who may use
the GPU, and what becomes evidence.

| Step | Module | Implements | State |
| --- | --- | --- | --- |
| 1 | `GpuLeaseCoordinator` | `FencedFifoLock` | checked, safety and refinement proved |
| 2 | `TrackingEvidence` | `EvidenceRegister` | checked, safety and refinement proved |
| 3 | `GpuWorkerJobs` | `GpuSlot` | checked, safety and refinement proved |
| 4 | `TrackingSystem`: the workflows, the coordinator, D1 and the cancellation together | | checked, safety proved |
| 5 | `RaceRecordingUpload` | `RecordingUse`, as the owner of the media | checked, safety and refinement proved |
| 6 | `AnalysisLifecycle` | `RecordingUse`, as their user | checked, safety and refinement proved |
| 7 | `CarSync`, client and server | `SerialCar` | checked, safety and refinement proved |
| 8 | `SetupHistory`, `VoiceUpdates` | | checked, safety proved |

Every invariant, action property and refinement of a passing run is a theorem. What
could follow are theorems about two modules at once, first of all that the
coordinator's record is the one `TrackingSystem` assumes, and what no run states yet
because it takes more actors than TLC can hold. No module declares a RECURSIVE
operator. The parts in section 8 stay out.

## 3. Modules and the code

| Module | Models | Kind |
| --- | --- | --- |
| `FencedFifoLock` | what the coordinator promises: a first-come first-served lock whose leases carry growing fences | abstract |
| `GpuLeaseCoordinator` | `gpu-lease-coordinator.ts`, every operation and the alarm | detailed |
| `GpuLeaseCoordinatorProofs` | theorems about it | proofs |
| `EvidenceRegister` | what readers of the evidence may rely on: a register written once | abstract |
| `TrackingEvidence` | one segment in `tracking-authority.ts`, `tracking-artifact-publication.ts` | detailed |
| `MCTrackingEvidence` | constants for TLC | instance |
| `TrackingEvidenceProofs` | theorems about it | proofs |
| `GpuSlot` | what the worker promises: a slot for one job at a time, with final outcomes, as long as nobody comes into a gap of its locking | abstract |
| `GpuWorkerJobs` | `jobs.py` of the GPU worker | detailed |
| `GpuWorkerProofs` | theorems about it | proofs |
| `TrackingSystem` | `driving-analysis-workflow.ts`, `tracking-cancellation.ts`, with the coordinator and D1 as they see them | composition |
| `TrackingSystemProofs` | theorems about it | proofs |
| `RecordingUse` | what the recording and its analyses promise each other | abstract |
| `RaceRecordingUpload` | `race-recording-authority.ts`, the validation workflow, the scheduled recovery | detailed |
| `RaceRecordingProofs` | theorems about it | proofs |
| `AnalysisLifecycle` | `driving-analysis-authority.ts`, `analysis-lifecycle.ts`, `driving-analysis-completion.ts`, the prepared Track view, the clips, the creation workflow | detailed |
| `AnalysisLifecycleProofs` | theorems about it | proofs |
| `SerialCar` | what the synchronization contract promises about one car | abstract |
| `CarSync` | `car-sync.ts` of the server, and the client's queue and loop | composition |
| `CarSyncProofs` | theorems about it | proofs |
| `MCCarSync` | constants for TLC | instance |
| `SetupHistory` | `routes/setups/`: requests, queued commands, the acceptance of an import draft | detailed |
| `VoiceUpdates` | `routes/voice/`, on top of `SetupHistory` | composition |
| `VoiceUpdatesProofs` | theorems about both | proofs |

`PROJECT.json` maps each definition to the lines it stands for.

### The coordinator

A Durable Object runs one operation at a time, and each operation reads the
persisted record once and writes it once in `storage.transaction`; so one action
is one call, `expire()` at its start included. Time is a counter that only grows;
a call happens at one instant of it. The alarm is a state variable: the moment
for which it is set, which the operations recompute as the code does. What
callers know is kept beside the record: `promise` remembers, per lease, that a
caller was told it holds the GPU and until when, so that promises can be compared
with what the record says later. An eviction loses only what is not persisted:
the alarm a transaction was about to set and the answer it was about to give.

### The tracking authority

The variables `run`, `segment`, `attempts`, `transfers`, `promotions` and
`artifacts` are D1 rows of one segment of one run; `objects` is what R2 holds
under the accepted-evidence keys. A D1 statement or batch is atomic; between a
read and a later write anything can happen. `work[c]` is what the caller `c` has
read and is about to write: the version of the row it will insist on, the state
it read, the state it wants. A caller is one execution of a Workflow step, of its
retry, or of maintenance. That an execution may be given up for dead, retried, and
then still write is the reason callers interleave without any restriction.

An operation that reads more than once before it writes has one action per read
(`acceptArtifact`: `ReadSegment`, `ReadAttempt`, `Accept`), and the write has the
conditions of its SQL statement, neither more nor less. Where statements of one
batch have different conditions (`Retire`, `Accept`, `Activate`) each is modelled
with its own.

Attempts are named by their fence. In the code the identifier of an attempt is a
digest of its lease and fence, and the identifier and key of an artifact are
derived from the attempt's; so one number names all of them, and equal names mean
equal keys there too.

Two clocks matter: `deleteAfter`, after which a promotion that nobody refers to
may be claimed, and the same period since the row of a deleted promotion was last
written, after which it is looked at again. They are the sets `due` and
`recheck`.

### The GPU worker

`JobManager` is called by the threads of the HTTP server, by the watchdog's
thread, which looks every second, and by one thread per transfer and execution.
Whatever happens under its lock is one action; `journal`, `worker_running` and
`physical_busy` are its fields, persisted or not as in the code, and a restart
keeps the journal alone. `tasks` are the threads: each first finds out which job
the journal holds (`begin`), then works, then enters the lock again. What it
works on is not modelled: a download or an execution may succeed or fail at any
time, whether it was cancelled or not, because it may have looked at the event
for the last time.

Three weaknesses of the locking are in the model as they are in the code. Between
the end of the last input transfer and the start of the execution the lock is free
and the running flag is clear (a task whose step is `"ended"`). `cleanup_expired`
takes no lock: it judges the journal, reads it again, writes a changed copy of what
it read, and frees the GPU, and anybody may come between these four; its write may
also be lost, when a request that had read the journal before writes it back. And
an error other than two kinds ends a transfer's thread, and nobody clears the running
flag (`transfer_dies`). After a visit to one of the first two gaps several threads
may be at work, each on whatever job it finds in the journal.

`disturbed` is a history variable, read by no action: a cancellation or the watchdog
came while an execution was about to start, or the cleanup's write was not that of
the journal it had judged. It is forgotten when the worker restarts, and when it
accepts a job while no thread and no cleanup are left. `WorkIsOrderly` and `SlotSpec`
say what holds while nothing is disturbed, and so that these two gaps are all there
is: the third weakness, the watchdog, restarts and slow threads cannot bring two
threads together. `CancelIsKept` and `CapacityRecovers` hold with the gaps visited
too. `worker_start` shows what a visit to the first gap leads to.

### The tracking system

Each segment has a workflow, `flow[s]`, that is at one step: recover after a
restart, retire an attempt that lost its lease, enqueue, acquire, activate,
contact the provider, publish, accept, release. A step is one remote call
(`step.do` in the code); it may fail for good (`Crash`), the whole workflow may
be started again by its creator (`Restart`) or terminated by the cancellation
(`Terminate`). The coordinator and D1 are the ones of the two modules above,
reduced to what a workflow can tell apart: no clock, but a lease may lapse and a
deadline may pass at any moment, also under a commit hold; one row per segment
that is written atomically, with the conditions the authority checks. `calls[s]` is a call
that was sent and has not arrived: its sender may be dead when it does. Only
enqueue and acquire are split so, because every other call carries an identity
that a later state refuses.

### Uploads and analyses

Both modules take each method of an authority apart at its awaits. In
`RaceRecordingUpload` a request, `call[c]`, stands before one of them with what it
has read; it can be cut off for good at each (`Stop`), and a storage call may take
effect although its answer is lost. A part is identified by the number of its
claim, which is also the ETag of what was put under it, so that a stale ETag is
visible. What the code does with rows that are old enough may happen to them at
any moment, for the only use the code makes of time there is to guess that
somebody is dead.

In `AnalysisLifecycle` workflow `w` has run `w`, and `instance[w].at` names the
step it is at. What a container writes appears in the store when it finishes, which
may be after the workflow that ordered it has ended (`writing`). The owner's
commands, the daily maintenance and the workflows interleave freely. What the
analysis is made of besides the recording - the Car, the Drive session, the Track
map - is one variable, `drive`: requests that do not look at analyses archive, delete
or retire one of them at any moment (`WithdrawDrive`), and may bring it back
(`RestoreDrive`; not a map, which stays retired, so nothing obliges the owner to).
The workflow looks at it where the code calls `hasCurrentWorkflowInput` (`Current`).

`RecordingUse` ties the two together: the upload implements it with the analysis
as an environment that begins only where `createAnalysis` would, and the lifecycle
implements it with a recording that may be discarded whenever `remove` would
discard it.

### Synchronization

A device has its acknowledged copy, its queue, and the position of its loop
(`runSync`); the server has the car, the plan that follows it and one receipt per
operation. A request goes through the statements of `car-sync.ts`: the receipt is
claimed, the car is read, and one batch with its conditions writes car, plan and
receipt. `requests` keeps those that were given up, so that a retry and the
original may be between the same two statements. What a device does with an answer
(`recordCarOutcome`), with a review (`KeepMine`, `Discard`) and with the list of
cars it fetches are transactions on its own store. `shown` is history: what the
author of an operation saw of the fields it changes.

### Setups and voice

Setups are named after who saves them, so that two saves of one request are
visible. A request (`asked`), an execution of a queued command (`try`) or a call
about the note (`calls`) reads first and writes in one batch later;
`Witness(seen)` is the condition on the car's selection that the code puts into
its batches. A failed batch changes nothing and the command stays pending, to be
executed again. The voice note is one note about the same car; its processing
reads, waits for the transcriber and writes whatever the status is by then. A draft
saves a setup (and perhaps more), other rows only, or nothing. Whatever it saves is
listed in result rows named after the note and numbered from 0, so that a second
confirmation which has anything to save fails as a whole (`NamesAreFree`); one with an
empty draft changes the status only and may be repeated.

## 4. Runs

One run per question. Sizes are distinct states found by TLC.

| Run | Instance | Question |
| --- | --- | --- |
| `lease_coordinator` | fair; 2 segments, queue of 1, leases of 2 and holds of 1 time unit, clock up to 3, 3 leases or holds, evictions; 99 thousand states | who holds the GPU and for how long, who comes next, which identities still count; the refinement of `FencedFifoLock`; does everybody leave |
| `evidence_publication` | fair; 2 callers, 1 lease, rows refreshed and promotions rechecked up to version 4; 280 thousand states | is acceptance whole, does anything move after the end of the run or come back, can cleanup take what a publisher binds, is everything else deleted in the end |
| `worker_slot` | fair; 3 jobs, 2 threads at a time; 397 thousand states | what leads to a second thread; is a job that was told to stop ever taken up again; the refinement of `GpuSlot`; is the GPU free in the end |
| `worker_start` | 2 jobs, 2 threads at a time; expected to fail | see section 7 |
| `recording_upload` | fair; 1 recording of 2 parts, 2 requests and the recovery, 2 claims of a part, 1 fault; 690 thousand states | do rows and media agree, does an analysis keep its source, does every upload end |
| `analysis_lifecycle` | fair; 2 requests at once, 3 in all, 2 workflows, 1 gap, 1 fault; 676 thousand states | are media there as long as they are needed and gone afterwards, does a running analysis come to an end unless its Car, session or map is withdrawn |
| `analysis_resume` | fair, a persistent owner; 1 request at once, 1 workflow; expected to fail | see section 7 |
| `tracking_system` | fair; 2 workflows, 2 faults, 2 losses before tracking fails; 1.1 million states | do workflow, coordinator and D1 tell the same story, does the line move on |
| `tracking_cancellation` | the same with 1 fault; expected to fail | see section 7 |
| `car_sync` | fair; 2 devices, 3 operations, 2 fields, a request lost or a restart; 930 thousand states | one effect per operation and only on its base (refinement of `SerialCar`), is the queue sound, is queued work settled |
| `car_sync_overwrite` | 2 devices, 3 operations, edits of either field, nothing lost; expected to fail | see section 7 |
| `setup_history` | fair; 3 beginnings among 2 requests, a queued command executed twice at once, a voice note with 2 calls; 712 thousand states | are saves coherent and answers true, is what a note saves saved once, does every command get its receipt |

Bounds, and why they are enough.

*Coordinator.* A place is lost, doubled or given back in front of another with two
segments and a queue of one: one is served, one waits, and the limit is met by the
place an expiry gives back. That nobody is overtaken among three and more is proved
(`OrderOfTheLine`). Within three units of time a lease of two can be
granted, expire, be granted again and have a hold that ends before it. `MaxUuids`
counts leases and holds together: three allow a lease, its successor and a hold of
either. Deadlines are at most `MaxDeadline = 3` away, so they fall before, at and
after an expiry. The clock stops at `MaxTime`, which is after every deadline. The
deadlock check is on: calls are always accepted.

*Evidence.* `MaxVersion` and `MaxRechecks` bound rows that may be rewritten with
the same content any number of times. They are chosen so that a row can be
refreshed between two reads of an operation. Two callers are a publisher and a
cleaner, or a publisher and its own retry. `Expiring` names the attempts that live
long enough to be cleaned up. The run has one lease: different attempts share no
key, and what two of them could do to each other - an old attempt coming back, an
end rewritten - is proved for any number (`NothingReturns`).

*GPU worker.* The bounds are the number of jobs and of threads at work at once. Two
threads are what the gaps bring together, a late one and that of the job in the
journal; a third job comes when the late one has ended the second or is still
there. The theorems hold for any number of both.

*Tracking system.* Two segments are the one that holds the GPU and the one that
waits; one of them may be cancelled (`Cancelling`) and run out of time, the other
(`Patient`) is the witness that the line moves on. Two losses before
tracking fails instead of the code's three: the first is tried again, the second
is the last. Two faults allow a restart after a crash that followed a lost answer.

*Upload.* One recording of two parts: a part can be missing while the other is
there. Two claims let a claim be taken over; two requests and the recovery let
three callers meet in one completion. One fault at a time: the recovery of a
recovery that failed is the recovery again.

*Lifecycle.* Two workflows are a run and its retry, one gap is one correction; two
requests at a time of three in all are a command that overtakes another one after
the analysis was created, or the withdrawal of its Car and the restoration after it,
which count among the three. The preparation step is not tried again within its
workflow (`MaxTries = 0`): a restart of the workflow, which is in the instance,
repeats it as well.

*Synchronization.* Two devices, three operations: a creation and an edit that waits
for it on one device, and one of the other device in between. One device loses
requests or restarts once. A car of two fields, so that changes of different fields
are merged and changes of the same field are in conflict.

*Setups and voice.* Three beginnings in all, of two requests, a command that is executed
twice at once, and two calls about the note, which starts reviewed and unsaved; two
setup fields, so that a correction of one can be told from a copy of both.

Where a run does not check for deadlock it is because the system rightly stops:
every workflow ends, bounds are used up, a fenced run has nothing left to do.

Fairness. *Coordinator*: the clock advances (`WF(Tick)`) and Cloudflare delivers an
alarm that is due (`WF(Alarm)`), its at-least-once guarantee; callers owe nothing.
An eviction can lose an alarm for good, so `EverybodyLeaves` speaks of behaviours
in which the alarm is in the end the one the record asks for. *Evidence*: an
execution under way goes on or is abandoned (weak fairness of `Continue \/
Abandon`, so it may always die); retention periods pass; and the maintenance
scheduled every six hours (`crons` in `wrangler.jsonc`) begins again and again and
does not fail for ever - strong fairness of beginning a claim, of the claim and of
the deletion, because each attempt may be overtaken or die, but not every one. No
workflow is assumed to begin anything. *GPU worker*: threads come to an end, because
transfers and executions have timeouts; time passes; and the watchdog comes again
and again (strong fairness, because a restart may come before it). *Tracking
system*: a workflow that runs goes on, deadlines of segments that are not `Patient`
come, and a lease nobody renews lapses; nobody has to restart or cancel anything,
and a holder that renews may keep its lease. *Upload*: a request that was not cut
off goes on, workflows run, and the scheduled recovery comes round. *Lifecycle*:
containers finish or give up, workflows step, maintenance comes round; under
`PersistentSpec` the owner also repeats the correction. *Synchronization*: some
device that is running goes on with its loop and its retry timer, and the server
with the request it waits for; requests that were left behind owe nothing. *Setups*: an
execution goes on until it ends, and a device repeats a command until it has a
terminal receipt.

## 5. Properties

Beside one type invariant per module:

*Coordinator.* `PromisesAreKept` (who was told it holds the GPU holds it),
`LineIsInOrder` (first in, first out; one place each; finished segments stay away;
the limit), `IdentitiesAreOrdered` (fences, places given back and receipts answer to
the newest identity only), the refinement `LockSpec`, and `EverybodyLeaves`.

*Evidence.* `DecisionIsWhole` (five conditional statements act as one, and exclude
unavailability), `EndedRunIsQuiet`, `NothingComesBack`, the refinement
`RegisterSpec`, and `GarbageIsCollected`.

*GPU worker.* `WorkIsOrderly`, `CancelIsKept`, the refinement `SlotSpec`, and
`CapacityRecovers`.

*Tracking system.* `StoresAgree`: whoever ends in order has no place left; evidence
is of the newest lease; what the coordinator remembers is what became of the run;
and a cancellation that found an attempt removes it. `NobodyWaitsForEver`.

*Upload.* `StatusMatchesStorage` (what is validated is whole in R2, what is erased
left nothing there), `OffersReadySource` (the refinement of `RecordingUse`),
`LaterClaimStays` (an upload whose claim was taken over changes nothing; who holds
the newest claim records its own ETag or puts back the row it had read), `UploadEnds`.

*Lifecycle.* `MediaAreThere` and `MediaGo` (media exist while somebody goes by them
and not longer), `UsesReadySource` (the other refinement of `RecordingUse`),
`AnalysisSettles` (a running analysis ends or waits for its owner, and only one whose
Car, session or map was withdrawn is left behind by its workflow).

*Synchronization.* `SerialSpec` (the refinement of `SerialCar`: one effect per
operation, on its base only), `QueueIsSound`, `StateFollowsCar`,
`QueuedWorkIsSettled`.

*Setups and voice.* `OutcomesAreTrue`, `SavesAreCoherent`, `VoiceIsSavedOnce`,
`CommandsSettle`.

Each of them is broken by at least one plausible mistake in the code: the
definitions marked "Faulty" beside the ones they replace, listed under `mutants`
in PROJECT.json.

## 6. Proofs

TLAPS proves the theorems below for every value of the constants that satisfies
the named assumptions (`CoordinatorAssumption`, `EvidenceAssumption`,
`WorkerAssumption`, `SystemAssumption`, `UploadAssumption`, `LifecycleAssumption`,
`SyncAssumption`, `SetupAssumption`, `VoiceAssumption`); TLC evaluates these
assumptions in every run. Each module proves an inductive invariant, called `IInv`
unless said otherwise, and everything else from it. TLC checked these invariants
in small instances before they were proved.

*Coordinator* (`GpuLeaseCoordinatorProofs`): `TypeCorrect`, `LimitOfTheLine`,
`OrderOfTheLine`, `LeasesLast`, `NewestIdentityOnly`, and `ImplementsLock`, the
refinement. Every operation first runs `expire()`; so the invariant is stated over an
arbitrary queue, lease and table of reasons (`Sound`), shown to survive `expire()`,
and each operation is shown to preserve it from there. `LeasesLast` (`PInv`) needs
more than beliefs: a renewal must not shorten a lease whose holder never got the
previous answer, so no lease may reach further than one lease duration from now. This
is where `CommitHoldDuration <= LeaseDuration` is used. `LimitOfTheLine` counts: only
a lapsed lease adds a waiter beyond the limit, and nobody is enqueued before somebody
has been served or has left. `NewestIdentityOnly` (`OInv`) needs that every identity
ever told to a caller is below the fence counter, which is why fences are never reused
after a release. For `ImplementsLock` a place is a segment and its ordinal, wherever it
stands. All operations but two only take places away (`Stays`); a newcomer's ordinal is
larger than all; and a grant can replace a holder only when its lease lapsed, so that
`expire()` gave the place back within the same transaction, unless the segment is
finished.

*Evidence* (`TrackingEvidenceProofs`): `EvidenceTyped`, `WholeDecision`,
`NothingReturns`, `LateWritersAreQuiet`, and `ReadersSeeARegister`, the refinement.
None of the properties is inductive, because the writes check less than the reads
before them. `IInv` says what makes them sufficient:

- `Snapshot`: what a caller read about the segment still holds unless the
  segment's version has moved on. The acceptance's binding statement compares only
  version and pointer; this is why that is enough, and why the row it has inserted
  is always bound.
- `Pointed`, `InTurn`: an attempt that started never starts again, and leases start
  in the order of their fences. An activation that was given up for dead finds
  either a newer version, or a row that is no longer a proposal.
- `Stored`, `Handles`: a ready promotion has its object, and only a tombstone's
  object is deleted. A claim and an acceptance compete for one row, so only one of
  the two can happen.

*GPU worker* (`GpuWorkerProofs`): `TypeCorrect`, `OrderlyWork`,
`CancellationsAreKept`, and `WorkerIsSlot`, the refinement; with the gaps open and
threads that die. The invariant has two layers. `Basics` holds whatever comes into the
gaps: the job in the journal exists, one that offers output asks for its upload, and
one whose event is set is cancelled, about to be, or interrupted - because every end
of a thread looks at the event under the lock, and all that the cleanup can write is
an interruption. `Ordered` holds while nothing is disturbed, and ties each thread to
the flags and to the state of its job: a thread at work keeps `physical_busy`, and
keeps `worker_running` except in the gap. So a cancellation or the watchdog, which copy
one flag into the other, give the GPU away only when nothing works, and a submission
finds no thread. This is the argument that a visit to the gap breaks; and because a
submission that finds no thread and no cleanup writes all that `Ordered` speaks of, it
holds again from there.

*Tracking system* (`TrackingSystemProofs`): `TypeCorrect` and `StoresStayInStep`
(`StoresAgree`), for any number of segments, losses and faults. What one segment owns
in the three stores is looked at as one (`SegOK`): its row, its workflow, its call
under way, its cleanup, what the coordinator remembers of it, and the fences by which
the coordinator knows its places (`Fences`). A step touches the parts of one segment;
the queue and the lease, which all share, change the fences of one segment at most,
which the lemmas about the line say once for each way of changing it (`JoinLine`,
`ServeLine`, `GiveBackLine`, `LeaveLine`, `EndLease`, `ReleaseLine`). The heart is
`RowOK`: once D1 has a current attempt, no call that could add a place is on its way,
and the only place left is that attempt's. Who is cancelled before that may still
enter the line, which is the disagreement `tracking_cancellation` shows.

*Upload* (`RaceRecordingProofs`): `TypeCorrect`, `StorageMatchesRows`,
`SourceStaysReady` (the refinement `OffersReadySource` of `RecordingUse`),
`AnalysisKeepsItsSource` and `NewestClaimRecords`. A request relies on what it read long ago, and the invariant says
for each step what still holds of it: removal is one-way and empties the storage step
by step, an assembled object stays until it begins, and before the row is inserted
nobody but its own request knows of the multipart upload (`Alone`, `Untouched`). One lemma (`Evolves`) says how rows and
storage may move under a request that stands still; each step is shown to move them
only so.

*Lifecycle* (`AnalysisLifecycleProofs`): `TypeCorrect`, `MediaThere` (`MediaAreThere`),
`SourceInUse` (the refinement `UsesReadySource` of `RecordingUse`), and what follows from
it for the user of the recording, `SourceInUseIsThere`; for the owner of the media
`AnalysisKeepsItsSource` says the same. The invariant
follows each workflow on its own (`FlowOK`): what its run, its rows, its objects and
the step it stands at say of each other. A run can be made after the deletion of
its analysis, because the code makes it without a look at the analysis and looks
afterwards; but then the workflow is at a step before that look (`Early`), so that it
accepts nothing and its media are never needed.

*Synchronization* (`CarSyncProofs`): `TypeCorrect`, `QueueSound`, `StateFollows`,
`NothingDropped`, and `Implements`, the refinement of `SerialCar`. Everything rests
on identities: from its first request on, an operation's identity is bound to one body,
by the receipt once there is one and by all requests under way before; a terminal
outcome stays; and whoever holds a copy of the car - a device, a request, a receipt, a
conflict - holds one of its versions (`Copy`), and has the car itself when the versions
agree. What a device works with (`Working`) is the acknowledged car with the queued
changes on top, the last one winning; it is defined by that and not by folding the
queue, which TLC confirmed to be the same in both instances. That there is a last one
among finitely many is taken from the well-foundedness of set inclusion.

*Setups and voice* (`VoiceUpdatesProofs`, about `SetupHistory` as well): `TypeCorrect`,
`ToldTheTruth` (`OutcomesAreTrue`), `SavesCohere` (`SavesAreCoherent`) and
`SavedOnceOnly` (`VoiceIsSavedOnce`). Versions carry the argument: rows and selections
only gain versions, so an author that finds the version it has read finds the fields it
has read (`HasRead`). The invariant says this of each kind of author: of requests,
executions of a queued command, and calls about the note.

Only model-checked is what is out of the prover's reach, liveness under fairness and
with it ENABLED: `EverybodyLeaves`, `GarbageIsCollected`, `CapacityRecovers`,
`UploadEnds`, `MediaGo`, `AnalysisSettles`, `NobodyWaitsForEver`,
`QueuedWorkIsSettled` and `CommandsSettle`; and the four properties that are expected
to fail.

## 7. Where code and documentation disagree

*`worker_start`.* "Enforce one physical GPU execution in the local worker". The
thread of the last input transfer clears the running flag, leaves the lock, and
enters it again to set the flag and start the execution. A cancellation that
comes between frees the GPU at once, the next job is accepted and executed, and
then the old thread starts an execution as well - of the new job, for it reads
the journal anew.

*`analysis_resume`.* "If Workflow signalling fails, `503` means the correction is
already saved: replay the same correction to resume." A workflow whose step fails
after a correction was saved, and before the first answer of a provider has put the
analysis back to running, cannot publish its failure, because the analysis still
awaits re-identification; it ends, the analysis keeps waiting, and every replay of
the correction signals an instance that is gone.

*`tracking_cancellation`.* "Infrastructure retry preserves the segment's original
waiter ordinal, cancellation removes it". A workflow that is terminated while it
enqueues, or between its lease and its attempt in D1, is in the coordinator under
an identity the cancellation does not know. The segment stays in line, first in it
after its lease lapses, with nobody to acquire for it, until its deadline.

*`car_sync_overwrite`.* "Synchronization never silently applies last-write-wins." An
edit queued behind another pending operation is based on the acknowledged car once
that operation is applied, not on what the user saw. What another device changed in
the meantime is then its base, and is overwritten without a conflict.

Met while modelling, with no run of their own:

- `tracking-authority.ts:908`: a retirement clears the segment's pointer without
  asking for the version it read, nor for an active run. A progress report between
  read and batch leaves an attempt in a mutable state without authority.
- `race-recording-authority.ts:361`: the claim of a part that is already uploaded compares
  the status of the row and not its ETag. Of three uploads of one part, the last to claim
  may have read the row before the second recorded its ETag; when it then fails, it puts the
  older ETag back over the newer one. Storage holds the newer part, so that completion fails
  until the part is sent again ("retrying a part idempotently replaces its recorded ETag",
  `docs/driving-analysis-architecture.md:68`). That only the newest claim changes the row,
  and to nothing else, is `LaterClaimStays`.
- `driving-analysis-authority.ts:783`, `:828`, `:960`: while the Car is archived
  (`cars.ts:100`, which does not look at its analyses), the Drive session deleted or the
  Track map or its layout retired, every publication of the preparation answers 'stale'
  and so does that of a failure. The workflow ends, and the analysis stays running, with
  its run and its hold on the recording, until the owner cancels or deletes it; a retry
  is refused, and restoring the Car does not help. `AnalysisSettles` excepts these
  analyses (`LeftRunning`). For the map a text says otherwise: retiring a version
  "prevents new analyses without changing existing ones"
  (`docs/driving-analysis-architecture.md:206`).
- `jobs.py:247`: the cleanup of the GPU worker reads and writes the journal without the
  lock, so that a job whose upload is granted in between is interrupted while it
  transfers, and one that was completed, or even accepted, in between can be replaced
  by the old one, interrupted; the GPU then counts as free while a thread works.
- `jobs.py:358`: an error that `_transfer` does not catch leaves the running flag set;
  only a restart of the worker helps.
- `driving-analysis-workflow.ts`: an acceptance whose commit hold lapsed leaves the
  place that came back in line until its deadline, when the workflow was restarted
  and so never releases it.
- `car-workspace-store.ts:621`: a command committed after the loop found nothing to do
  and before it lowers its flag waits until something else starts the loop.
- `setup-imports.ts:256`: two acceptances of one import draft that do not select their
  setup import it twice, and a cancellation can overwrite "accepted".
- `voice-capture.ts:233`: "Saved or discarded voice updates are read-only", but a late
  result of processing or a late edit writes to a saved note. If anything was saved,
  confirming it again fails for ever on the primary keys of what was saved, unless the
  new draft is empty; if nothing was, because the draft was empty, it is saved then. A
  discard that had read the note as saved before a late result reopened it marks it
  saved again, over a draft nobody confirmed. A worker that dies while it processes
  leaves the note in `processing`.

## 8. Not modelled

- Of the tracking authority: the creation of runs and segments, the requests to
  transfer input, wait reasons, staged objects and public projections. They write
  other rows than those above, or rows that no decision depends on.
- Several segments of a run: an acceptance of a segment that is not the last one
  moves the run on to the next; only the last can make a run unavailable.
- Of the cancellation: the targets of replaced and failed runs, which every workflow
  cleans up as it starts; `LoadTargets` is the cleanup of a cancelled run.
- Of the GPU worker: progress, error texts, and refusals that change nothing; the
  removal of old workspaces; a journal that cannot be written, or not read at a
  restart; the executor and the HTTP client.
- Of the lifecycle: which of the Car, the session and the Track map was withdrawn; the
  scans of other media categories; clip specifications.
- Of the upload: ranges of the recording that are read, and the sizes of a quota.
- Of synchronization: the setup family is in `SetupHistory`, with the device reduced
  to repeating its command; the build, drive, maintenance and settings families go
  through the same receipts and are left out, and so are owner and session fences,
  offline media and unsupported contract versions.
- Of setups and voice: the editing of an import draft, which touches no setup;
  components; the capture of a note and its recording; a note moved to another car.
- Photos, corner evidence, the subject frame queue and invites have state and
  concurrency worth modelling, but share none with the parts above: each would be a
  small module of its own, and they were put behind the parts that compose.
- The other components listed as `not_modelled` in PROJECT.json, with the reason: most
  of the implementation by size is validation, contracts, presentation, media
  processing and records with one conditional write per route.
