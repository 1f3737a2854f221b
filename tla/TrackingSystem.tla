------------------------------ MODULE TrackingSystem ------------------------------
(***************************************************************************)
(* Tracking as a whole: the workflows that track one segment each, the     *)
(* lease coordinator they compete in, the D1 rows that say whose work      *)
(* counts, and the sibling workflow that cleans up after a cancellation    *)
(* (src/driving-analysis/tracking/driving-analysis-workflow.ts and         *)
(* tracking-cancellation.ts).                                              *)
(*                                                                         *)
(* The coordinator and the D1 authority are the ones of                    *)
(* GpuLeaseCoordinator and TrackingEvidence, reduced to what the others    *)
(* can see of them: no clock, but leases that lapse and deadlines that     *)
(* pass at any time; one row per segment, written atomically.              *)
(*                                                                         *)
(* A workflow can error out or be terminated between any two steps. A call *)
(* that was under way then still arrives. Only enqueue and acquire are     *)
(* split into sending and arriving: every other call names an identity     *)
(* that it would find changed.                                             *)
(***************************************************************************)
EXTENDS Integers, Sequences, SequencesExt

CONSTANTS
    Segments,         \* each with a run and a workflow of its own
    None,             \* no segment
    Patient,          \* bound: segments whose deadline stays far away
    Cancelling,       \* bound: segments whose run the owner may cancel
    MaxLosses,        \* lost executions after which tracking fails
    MaxFaults         \* bound: errors of workflows, busy answers

ASSUME SystemAssumption ==
    /\ None \notin Segments
    /\ Patient \subseteq Segments
    /\ Cancelling \subseteq Segments
    /\ MaxLosses \in Nat \ {0}
    /\ MaxFaults \in Nat

VARIABLES
    queue,            \* coordinator: who waits, first come first served
    lease,            \* coordinator: the lease in force
    fence,            \* coordinator: the newest fence
    terminal,         \* coordinator: why a segment is finished, or "none"
    late,             \* segments whose availability deadline has passed
    rows,             \* D1: run, current attempt and evidence of a segment
    flow,             \* the workflow of each segment
    calls,            \* its call that has not arrived yet
    cleanup,          \* the cancellation workflow of each segment
    faults,           \* how many faults have happened
    newest            \* the fence of the newest lease of each segment

vars == <<queue, lease, fence, terminal, late, rows, flow, calls, cleanup,
          faults, newest>>

coordinator == <<queue, lease, fence, terminal, newest>>

-----------------------------------------------------------------------------
(* Values                                                                  *)

NoLease == [segmentId |-> None, fence |-> 0]

Endings == {"completed", "replayed", "failed", "expired", "errored", "terminated"}

FlowSteps == {"resume", "retire", "enqueue", "enqueuing", "acquire", "acquiring",
              "activate", "give-back", "work", "replace", "requeue", "publish",
              "accept", "finish", "fail", "release-failed", "expire",
              "release-expired"} \cup Endings

Rows == [run      : {"active", "cancelled", "failed"},
         current  : Nat,      \* the fence names the attempt; 0: none
         state    : {"none", "working", "output-ready", "failed"},
         accepted : Nat]      \* the attempt whose artifact is the evidence

(* A workflow that has ended, or starts anew, remembers nothing.           *)
Fresh(step) == [step |-> step, fence |-> 0, losses |-> 0]

Goes(s, step) ==
    flow' = [flow EXCEPT ![s] = IF step \in Endings THEN Fresh(step)
                                ELSE [@ EXCEPT !.step = step]]

At(s, step) == flow[s].step = step

Active(s) == rows[s].run = "active"

(* workflowContext and assertCurrentAttempt                                *)
IsCurrent(s) == Active(s) /\ rows[s].current = flow[s].fence

Ready(s) == rows[s].state = "output-ready"

-----------------------------------------------------------------------------
(* The coordinator                                                         *)

Place(s) == [segmentId |-> s, restoredFrom |-> 0]

Waits(s) == \E i \in DOMAIN queue : queue[i].segmentId = s

Served(s) == lease.segmentId = s

(* A lease or the place it gave back is known by its fence.                *)
Holds(s, f) == lease = [segmentId |-> s, fence |-> f]

Restored(s, f) == \E i \in DOMAIN queue :
                     queue[i] = [segmentId |-> s, restoredFrom |-> f]

(* A segment has at most one place.                                        *)
Without(s) ==
    IF Waits(s) THEN RemoveAt(queue, CHOOSE i \in DOMAIN queue : queue[i].segmentId = s)
    ELSE queue

Mark(s, reason) == [terminal EXCEPT ![s] = IF @ = "none" THEN reason ELSE @]

(* The place a lease leaves: it was first, so it is first again.           *)
GivenBack ==
    IF terminal[lease.segmentId] = "none"
    THEN <<[segmentId |-> lease.segmentId, restoredFrom |-> lease.fence]>> \o queue
    ELSE queue

(* expire(): a lease that is not renewed in time.                          *)
Lapse ==
    /\ lease # NoLease
    /\ queue' = GivenBack
    /\ lease' = NoLease
    /\ UNCHANGED <<fence, terminal, late, rows, flow, calls, cleanup, faults,
                   newest>>

(* expire(): a waiter whose deadline passed. A lease ends then too, and    *)
(* its place a moment later.                                               *)
Deadline(s) ==
    /\ s \notin late /\ s \notin Patient
    /\ late' = late \cup {s}
    /\ queue' = Without(s)
    /\ lease' = IF Served(s) THEN NoLease ELSE lease
    /\ terminal' = IF Waits(s) \/ Served(s) THEN Mark(s, "deadline-expired")
                   ELSE terminal
    /\ UNCHANGED <<fence, rows, flow, calls, cleanup, faults, newest>>

Release(s, f) ==
    /\ queue' = IF Restored(s, f) THEN Without(s) ELSE queue
    /\ lease' = IF Holds(s, f) THEN NoLease ELSE lease
    /\ UNCHANGED <<fence, terminal, newest>>

-----------------------------------------------------------------------------
(* The workflow: from the saved state to a lease                           *)

(* resumeIdentity: an attempt is taken up if its lease is still in force.  *)
ResumeAttempt(s) ==
    LET r == rows[s]
        held == Holds(s, r.current)
    IN  flow' = [flow EXCEPT ![s].fence = r.current,
                             ![s].step =
            CASE r.current = 0                 -> "enqueue"
              [] r.state = "failed"            -> "retire"
              [] r.state = "working" /\ ~held  -> "retire"
              [] Ready(s) /\ ~held             -> "expire"
              [] OTHER                         -> "work"]

(* Faulty: evidence that exists already is not looked for.                 *)
ResumeAnew(s) ==
    /\ At(s, "resume")
    /\ IF ~Active(s) THEN Goes(s, "errored") ELSE ResumeAttempt(s)
    /\ UNCHANGED <<coordinator, late, rows, calls, cleanup, faults>>

(* create-or-resume, and the witness of a lease that may still be there.   *)
(* An accepted segment has no current attempt: its lease is not released.  *)
Resume(s) ==
    /\ At(s, "resume")
    /\ IF ~Active(s) THEN Goes(s, "errored")
       ELSE IF rows[s].accepted # 0 THEN Goes(s, "replayed")
       ELSE ResumeAttempt(s)
    /\ UNCHANGED <<coordinator, late, rows, calls, cleanup, faults>>

(* retireAttempt in D1: of a lease lost before a restart, or of a provider *)
(* lost while working; then the provider is told.                          *)
RetireAttempt(s) ==
    /\ At(s, "retire") \/ At(s, "replace")
    /\ IF IsCurrent(s) /\ (At(s, "replace") => s \notin late)
       THEN /\ rows' = [rows EXCEPT ![s].current = 0, ![s].state = "none"]
            /\ IF At(s, "replace") THEN Goes(s, "requeue")
               ELSE flow' = [flow EXCEPT ![s].step = "enqueue", ![s].fence = 0]
       ELSE /\ Goes(s, IF IsCurrent(s) THEN "expire" ELSE "errored")
            /\ UNCHANGED rows
    /\ UNCHANGED <<coordinator, late, calls, cleanup, faults>>

(* requeueProviderLoss: the lease, or the place it has left already.       *)
Requeue(s) ==
    LET f == flow[s].fence
    IN  /\ At(s, "requeue")
        /\ IF Holds(s, f) THEN queue' = GivenBack /\ lease' = NoLease
           ELSE UNCHANGED <<queue, lease>>
        /\ IF Holds(s, f) \/ Restored(s, f)
           THEN flow' = [flow EXCEPT ![s].step = "enqueue", ![s].fence = 0]
           ELSE Goes(s, "errored")
        /\ UNCHANGED <<fence, terminal, newest, late, rows, calls, cleanup, faults>>

(* Each of the two steps reads D1 before it calls the coordinator.         *)
Ask(s, from, call) ==
    /\ At(s, from) /\ calls[s] = "none"
    /\ IF Active(s) /\ s \notin late
       THEN /\ calls' = [calls EXCEPT ![s] = call]
            /\ Goes(s, call)
       ELSE /\ Goes(s, IF Active(s) THEN "expire" ELSE "errored")
            /\ UNCHANGED calls
    /\ UNCHANGED <<coordinator, late, rows, cleanup, faults>>

(* An answer is of use only to a workflow that still waits for it.         *)
Answered(s, next) ==
    /\ calls' = [calls EXCEPT ![s] = "none"]
    /\ flow' = IF At(s, calls[s]) THEN [flow EXCEPT ![s] = next] ELSE flow

(* enqueue: whoever is there, or finished, is not added.                   *)
Enqueue(s) ==
    /\ calls[s] = "enqueuing"
    /\ queue' = IF s \in late \/ terminal[s] # "none" \/ Waits(s) \/ Served(s)
                THEN queue ELSE Append(queue, Place(s))
    /\ Answered(s, [flow[s] EXCEPT !.step = IF s \in late THEN "expire" ELSE "acquire"])
    /\ UNCHANGED <<lease, fence, terminal, newest, late, rows, cleanup, faults>>

(* Faulty: only the first arrival is served, lapsed or not.                *)
AcquireFresh(s) ==
    /\ calls[s] = "acquiring"
    /\ IF lease = NoLease /\ queue # <<>> /\ Head(queue) = Place(s)
       THEN /\ queue' = Tail(queue)
            /\ fence' = fence + 1
            /\ lease' = [segmentId |-> s, fence |-> fence + 1]
            /\ newest' = [newest EXCEPT ![s] = fence + 1]
            /\ Answered(s, [flow[s] EXCEPT !.step = "activate", !.fence = fence + 1])
       ELSE /\ Answered(s, [flow[s] EXCEPT !.step = "acquire"])
            /\ UNCHANGED <<queue, lease, fence, newest>>
    /\ UNCHANGED <<terminal, late, rows, cleanup, faults>>

(* acquire: only the first in line is served; the others ask again.        *)
Acquire(s) ==
    /\ calls[s] = "acquiring"
    /\ IF lease = NoLease /\ queue # <<>> /\ Head(queue).segmentId = s
       THEN /\ queue' = Tail(queue)
            /\ fence' = fence + 1
            /\ lease' = [segmentId |-> s, fence |-> fence + 1]
            /\ newest' = [newest EXCEPT ![s] = fence + 1]
            /\ Answered(s, [flow[s] EXCEPT !.step = "activate", !.fence = fence + 1])
       ELSE /\ Answered(s, [flow[s] EXCEPT !.step = "acquire"])
            /\ UNCHANGED <<queue, lease, fence, newest>>
    /\ UNCHANGED <<terminal, late, rows, cleanup, faults>>

(* activateAttempt in D1, before anything is asked of the provider.        *)
Activatable(s) == Active(s) /\ rows[s].accepted = 0 /\ rows[s].current = 0

Activated(s) ==
    [rows EXCEPT ![s].current = flow[s].fence, ![s].state = "working"]

Activate(s) ==
    /\ At(s, "activate")
    /\ IF Activatable(s) THEN rows' = Activated(s) /\ Goes(s, "work")
       ELSE Goes(s, "give-back") /\ UNCHANGED rows
    /\ UNCHANGED <<coordinator, late, calls, cleanup, faults>>

(* Any other error is taken for a refusal, even if D1 has committed.       *)
ActivationUnanswered(s) ==
    /\ At(s, "activate")
    /\ rows' = rows \/ (Activatable(s) /\ rows' = Activated(s))
    /\ Goes(s, "give-back")
    /\ faults < MaxFaults /\ faults' = faults + 1
    /\ UNCHANGED <<coordinator, late, calls, cleanup>>

GiveBack(s) ==
    /\ At(s, "give-back")
    /\ Release(s, flow[s].fence)
    /\ Goes(s, "errored")
    /\ UNCHANGED <<late, rows, calls, cleanup, faults>>

-----------------------------------------------------------------------------
(* The workflow: submission, polling, renewal                              *)

(* Faulty: losses are counted and never compared with the limit.           *)
LoseForEver(s, losses) ==
    flow' = [flow EXCEPT ![s].losses = losses,
                         ![s].step = IF Ready(s) THEN "fail" ELSE "replace"]

(* What replaceProviderAttempt makes of an answer that a new attempt could *)
(* improve on; a ready output is not computed again.                       *)
Lose(s, losses) ==
    flow' = [flow EXCEPT ![s].losses = losses,
                         ![s].step = IF losses >= MaxLosses \/ Ready(s)
                                     THEN "fail" ELSE "replace"]

(* One contact with the provider, or one renewal: D1 and the coordinator   *)
(* are asked first whether the attempt is still the one that counts.       *)
Contact(s) ==
    /\ At(s, "work")
    /\ IF ~IsCurrent(s) THEN Goes(s, "errored")
       ELSE IF s \in late THEN Goes(s, "expire")
       ELSE IF ~Holds(s, flow[s].fence)
       THEN IF Ready(s) THEN Goes(s, "expire") ELSE Lose(s, flow[s].losses + 1)
       ELSE \/ Ready(s) /\ Goes(s, "publish")
            \/ Goes(s, "fail")
            \/ Lose(s, flow[s].losses + 1)
    /\ UNCHANGED <<coordinator, late, rows, calls, cleanup, faults>>

(* GPU_CAPACITY_BUSY is no fault of the attempt and is not counted.        *)
Busy(s) ==
    /\ At(s, "work") /\ IsCurrent(s) /\ s \notin late /\ Holds(s, flow[s].fence)
    /\ faults < MaxFaults /\ faults' = faults + 1
    /\ Lose(s, flow[s].losses)
    /\ UNCHANGED <<coordinator, late, rows, calls, cleanup>>

(* synchronizeAuthority: the provider reports that its output is ready.    *)
Synchronize(s) ==
    /\ At(s, "work") /\ IsCurrent(s) /\ s \notin late /\ Holds(s, flow[s].fence)
    /\ rows[s].state = "working"
    /\ rows' = [rows EXCEPT ![s].state = "output-ready"]
    /\ UNCHANGED <<coordinator, late, flow, calls, cleanup, faults>>

-----------------------------------------------------------------------------
(* The workflow: its ends                                                  *)

(* completeAttempt, up to the commit hold.                                 *)
Publish(s) ==
    /\ At(s, "publish")
    /\ Goes(s, IF ~IsCurrent(s) THEN "errored"
               ELSE IF s \in late \/ ~Holds(s, flow[s].fence) THEN "expire"
               ELSE "accept")
    /\ UNCHANGED <<coordinator, late, rows, calls, cleanup, faults>>

Acceptable(s) == IsCurrent(s) /\ Ready(s)

(* acceptArtifact, which does not ask the coordinator: the hold was there  *)
(* to give it time.                                                        *)
Accept(s) ==
    /\ At(s, "accept")
    /\ IF Acceptable(s)
       THEN /\ rows' = [rows EXCEPT ![s].accepted = flow[s].fence,
                                    ![s].current = 0, ![s].state = "none"]
            /\ Goes(s, "finish")
       ELSE Goes(s, "errored") /\ UNCHANGED rows
    /\ UNCHANGED <<coordinator, late, calls, cleanup, faults>>

(* releaseCompletedLease: a lease lost since the hold is an error.         *)
Finish(s) ==
    /\ At(s, "finish")
    /\ IF Holds(s, flow[s].fence)
       THEN /\ lease' = NoLease
            /\ terminal' = Mark(s, "completed")
            /\ Goes(s, "completed")
       ELSE Goes(s, "errored") /\ UNCHANGED <<lease, terminal>>
    /\ UNCHANGED <<queue, fence, newest, late, rows, calls, cleanup, faults>>

(* fail: recorded in D1 first; then the provider is told.                  *)
Fail(s) ==
    /\ At(s, "fail")
    /\ IF IsCurrent(s)
       THEN /\ rows' = [rows EXCEPT ![s].state = "failed"]
            /\ Goes(s, "release-failed")
       ELSE Goes(s, "errored") /\ UNCHANGED rows
    /\ UNCHANGED <<coordinator, late, calls, cleanup, faults>>

(* expireAvailability or failUnavailableOutput: the run ends.              *)
Expire(s) ==
    /\ At(s, "expire")
    /\ IF Active(s)
       THEN /\ rows' = [rows EXCEPT ![s].run = "failed"]
            /\ flow' = [flow EXCEPT ![s].step = "release-expired",
                                    ![s].fence = rows[s].current]
       ELSE Goes(s, "errored") /\ UNCHANGED rows
    /\ UNCHANGED <<coordinator, late, calls, cleanup, faults>>

ReleaseAtEnd(s) ==
    /\ At(s, "release-failed") \/ At(s, "release-expired")
    /\ Release(s, flow[s].fence)
    /\ Goes(s, IF At(s, "release-failed") THEN "failed" ELSE "expired")
    /\ UNCHANGED <<late, rows, calls, cleanup, faults>>

(* The retries of a step are exhausted, or its only attempt lost: what was *)
(* called may have happened.                                               *)
Crash(s) ==
    /\ flow[s].step \notin Endings
    /\ faults < MaxFaults /\ faults' = faults + 1
    /\ Goes(s, "errored")
    /\ UNCHANGED <<coordinator, late, rows, calls, cleanup>>

(* A repeated dispatch restarts an instance that has errored, without its  *)
(* history.                                                                *)
Restart(s) ==
    /\ At(s, "errored") /\ Active(s)
    /\ flow' = [flow EXCEPT ![s] = Fresh("resume")]
    /\ UNCHANGED <<coordinator, late, rows, calls, cleanup, faults>>

-----------------------------------------------------------------------------
(* Cancellation                                                            *)

(* The owner cancels: the run is fenced in D1, then dispatch starts the    *)
(* sibling workflow ...                                                    *)
FenceRun(s) ==
    /\ s \in Cancelling /\ Active(s) /\ cleanup[s].step = "none"
    /\ rows' = [rows EXCEPT ![s].run = "cancelled"]
    /\ cleanup' = [cleanup EXCEPT ![s].step = "load"]
    /\ UNCHANGED <<coordinator, late, flow, calls, faults>>

(* ... and terminates the original.                                        *)
Terminate(s) ==
    /\ cleanup[s].step # "none" /\ flow[s].step \notin Endings
    /\ Goes(s, "terminated")
    /\ UNCHANGED <<coordinator, late, rows, calls, cleanup, faults>>

(* cancellationTargets; the provider's answer, or the grace period.        *)
LoadTargets(s) ==
    /\ cleanup[s].step = "load"
    /\ cleanup' = [cleanup EXCEPT ![s] =
          [step  |-> IF rows[s].accepted # 0 THEN "done" ELSE "release",
           fence |-> rows[s].current]]
    /\ UNCHANGED <<coordinator, late, rows, flow, calls, faults>>

(* cancel: a lease by its identity; a waiter by its segment alone, or by   *)
(* the identity that its place was left by.                                *)
Cancellable(s, f) ==
    /\ terminal[s] = "none"
    /\ \/ Holds(s, f)
       \/ ~Served(s) /\ Waits(s) /\ (f = 0 \/ Restored(s, f))

CancelPlace(s) ==
    LET f == cleanup[s].fence
    IN  /\ cleanup[s].step = "release"
        /\ IF Cancellable(s, f)
           THEN /\ queue' = Without(s)
                /\ lease' = IF Holds(s, f) THEN NoLease ELSE lease
                /\ terminal' = Mark(s, "cancelled")
           ELSE UNCHANGED <<queue, lease, terminal>>
        /\ cleanup' = [cleanup EXCEPT ![s].step = "done"]
        /\ UNCHANGED <<fence, newest, late, rows, flow, calls, faults>>

-----------------------------------------------------------------------------
Init ==
    /\ queue = <<>>
    /\ lease = NoLease
    /\ fence = 0
    /\ terminal = [s \in Segments |-> "none"]
    /\ late = {}
    /\ rows = [s \in Segments |-> [run |-> "active", current |-> 0,
                                   state |-> "none", accepted |-> 0]]
    /\ flow = [s \in Segments |-> Fresh("resume")]
    /\ calls = [s \in Segments |-> "none"]
    /\ cleanup = [s \in Segments |-> [step |-> "none", fence |-> 0]]
    /\ faults = 0
    /\ newest = [s \in Segments |-> 0]

(* What the workflow engine sees to: the next step of a workflow, and the  *)
(* arrival of what was sent.                                               *)
Step(s) ==
    \/ Resume(s) \/ RetireAttempt(s) \/ Requeue(s)
    \/ Ask(s, "enqueue", "enqueuing") \/ Enqueue(s)
    \/ Ask(s, "acquire", "acquiring") \/ Acquire(s)
    \/ Activate(s) \/ GiveBack(s)
    \/ Contact(s) \/ Synchronize(s)
    \/ Publish(s) \/ Accept(s) \/ Finish(s)
    \/ Fail(s) \/ Expire(s) \/ ReleaseAtEnd(s)

Cleanup(s) == Terminate(s) \/ LoadTargets(s) \/ CancelPlace(s)

Next ==
    \/ Lapse
    \/ \E s \in Segments :
          \/ Step(s) \/ Cleanup(s)
          \/ Busy(s) \/ ActivationUnanswered(s) \/ Crash(s) \/ Restart(s)
          \/ FenceRun(s) \/ Deadline(s)

(* Nobody renews the lease in force.                                       *)
Abandoned == \A s \in Segments : At(s, "work") => ~Holds(s, flow[s].fence)

(* Workflows that run go on, a lease that nobody renews lapses, and        *)
(* deadlines come. Nobody has to cancel, and nothing has to be restarted.  *)
Fairness ==
    /\ \A s \in Segments : WF_vars(Step(s)) /\ WF_vars(Deadline(s))
    /\ WF_vars(Lapse /\ Abandoned)

Spec == Init /\ [][Next]_vars

FairSpec == Spec /\ Fairness

-----------------------------------------------------------------------------
(* Type correctness.                                                       *)
TypeOK ==
    /\ queue \in Seq([segmentId : Segments, restoredFrom : Nat])
    /\ lease \in [segmentId : Segments, fence : Nat] \cup {NoLease}
    /\ fence \in Nat
    /\ terminal \in [Segments -> {"none", "cancelled", "completed",
                                  "deadline-expired"}]
    /\ late \subseteq Segments
    /\ rows \in [Segments -> Rows]
    /\ flow \in [Segments -> [step : FlowSteps, fence : Nat, losses : 0..MaxLosses]]
    /\ calls \in [Segments -> {"none", "enqueuing", "acquiring"}]
    /\ cleanup \in [Segments -> [step : {"none", "load", "release", "done"},
                                 fence : Nat]]
    /\ faults \in 0..MaxFaults
    /\ newest \in [Segments -> Nat]

HasPlace(s) == Waits(s) \/ Served(s)

(* A workflow that ends in order, with evidence, with a recorded failure   *)
(* or because it is too late, leaves nothing in the coordinator: also when *)
(* its lease lapsed on the way and the place came back.                    *)
EndedLeavesNoPlace ==
    \A s \in Segments :
        flow[s].step \in {"completed", "failed", "expired"} => ~HasPlace(s)

(* Evidence comes from the newest lease its segment was ever given: the    *)
(* segment does not take the GPU again, not after a restart and not when   *)
(* its lease was lost before it could be released as completed.            *)
EvidenceIsNewest ==
    \A s \in Segments : rows[s].accepted # 0 => rows[s].accepted = newest[s]

(* What the coordinator remembers of a segment is what became of its run:  *)
(* evidence and cancellation exclude each other, in whatever order they    *)
(* were asked for.                                                         *)
TerminalTellsTheTruth ==
    \A s \in Segments :
        /\ terminal[s] = "completed" => rows[s].accepted # 0
        /\ terminal[s] = "cancelled" =>
              rows[s].accepted = 0 /\ rows[s].run = "cancelled"

(* A cancellation that found an attempt in D1 removes the segment from the *)
(* coordinator for good, whether its lease was in force or had lapsed.     *)
CancelledAttemptIsGone ==
    \A s \in Segments :
        cleanup[s].step = "done" /\ cleanup[s].fence # 0 => ~HasPlace(s)

(* The workflow, D1 and the coordinator, which no transaction spans, never *)
(* disagree on what became of a segment nor on which lease was its last,   *)
(* and what has ended in one of them is not left behind in another.        *)
StoresAgree ==
    /\ EndedLeavesNoPlace
    /\ EvidenceIsNewest
    /\ TerminalTellsTheTruth
    /\ CancelledAttemptIsGone

(* A workflow that waits for the GPU does not wait for ever: whatever the  *)
(* ones before it do, die of or leave behind, the line moves on.           *)
NobodyWaitsForEver ==
    \A s \in Patient :
        [](At(s, "acquire") => <>(flow[s].step \notin {"acquire", "acquiring"}))

(* docs/driving-analysis-architecture.md:237 says that "cancellation       *)
(* removes" the waiter of a segment. It does not when the workflow is       *)
(* stopped while it enqueues, or between its lease and its attempt.        *)
CancellationRemoves ==
    \A s \in Segments : cleanup[s].step = "done" /\ At(s, "terminated") => ~Waits(s)
=============================================================================
