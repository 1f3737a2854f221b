-------------------------- MODULE GpuLeaseCoordinator --------------------------
(***************************************************************************)
(* The GPU lease coordinator: the one Durable Object that decides which    *)
(* tracking segment may use the GPU (src/driving-analysis/                 *)
(* gpu-lease-coordinator.ts).                                              *)
(*                                                                         *)
(* Every remote call is one storage transaction, which begins by expiring  *)
(* whatever is overdue, followed by the scheduling of an alarm. The object *)
(* can be evicted between the two: the transaction stands, the alarm is    *)
(* not moved and the caller gets no answer.                                *)
(*                                                                         *)
(* The callers are whoever was ever told a lease identity: workflow steps, *)
(* their retries and cancellations. They may present an old identity at    *)
(* any time, in any order, any number of times.                            *)
(***************************************************************************)
EXTENDS Integers, FiniteSets

CONSTANTS
    Segments,             \* tracking segments
    None,                 \* no segment
    MaxQueueSize,         \* GPU_MAX_QUEUE_SIZE
    LeaseDuration,        \* GPU_LEASE_DURATION_MS
    CommitHoldDuration,   \* GPU_COMMIT_HOLD_DURATION_MS
    MaxDeadline,          \* GPU_MAX_DEADLINE_MS
    Evictions,            \* may the object be evicted before it sets its alarm?
    MaxTime,              \* bound: the clock stops here
    MaxUuids              \* bound: how many leases and holds are ever named

ASSUME CoordinatorAssumption ==
    /\ None \notin Segments
    /\ MaxQueueSize \in Nat \ {0}
    /\ LeaseDuration \in Nat \ {0}
    /\ CommitHoldDuration \in 1..LeaseDuration
    /\ MaxDeadline \in Nat \ {0}
    /\ Evictions \in BOOLEAN
    /\ MaxTime \in Nat
    /\ MaxUuids \in Nat

VARIABLES
    nextOrdinal,          \* persisted: the last ordinal given to a waiter
    fence,                \* persisted: the fence of the newest lease
    waiters,              \* persisted: the queue, ordered by ordinal
    activeLease,          \* persisted: the lease in force, or NoLease
    terminal,             \* persisted: why a segment is finished, or "none"
    completedReleases,    \* persisted: receipt of a completed release
    alarm,                \* the time the object asked to be woken at, or 0
    now,                  \* the clock
    uuids,                \* how many values crypto.randomUUID has returned
    promise               \* what callers believe: identity -> held until

vars == <<nextOrdinal, fence, waiters, activeLease, terminal,
          completedReleases, alarm, now, uuids, promise>>

-----------------------------------------------------------------------------
(* Values                                                                  *)

Lesser(a, b) == IF a <= b THEN a ELSE b

Reasons == {"cancelled", "completed", "deadline-expired"}

Identity == [segmentId : Segments, leaseId : Nat \ {0}, fence : Nat \ {0}]

NoIdentity == [segmentId |-> None, leaseId |-> 0, fence |-> 0]

Waiter == [segmentId    : Segments,
           deadlineAt   : Nat,
           ordinal      : Nat \ {0},
           restoredFrom : Identity \cup {NoIdentity}]

Lease == [segmentId     : Segments,
          deadlineAt    : Nat,
          ordinal       : Nat \ {0},
          leaseId       : Nat \ {0},
          fence         : Nat \ {0},
          expiresAt     : Nat,
          holdExpiresAt : Nat,      \* 0: no commit hold
          holdId        : Nat]      \* 0: no commit hold

NoLease == [segmentId |-> None, deadlineAt |-> 0, ordinal |-> 0,
            leaseId |-> 0, fence |-> 0, expiresAt |-> 0,
            holdExpiresAt |-> 0, holdId |-> 0]

IdentityOf(lease) == [segmentId |-> lease.segmentId,
                      leaseId   |-> lease.leaseId,
                      fence     |-> lease.fence]

(* Faulty: the place is moved in front of the queue.                       *)
RestoredFirst(lease) == [segmentId    |-> lease.segmentId,
                         deadlineAt   |-> lease.deadlineAt,
                         ordinal      |-> 0,
                         restoredFrom |-> IdentityOf(lease)]

(* Faulty: the place is moved behind the newest waiter.                    *)
RestoredLast(lease) == [segmentId    |-> lease.segmentId,
                        deadlineAt   |-> lease.deadlineAt,
                        ordinal      |-> nextOrdinal + 1,
                        restoredFrom |-> IdentityOf(lease)]

(* The place a lease gives back to the queue: its ordinal and deadline.    *)
Restored(lease) == [segmentId    |-> lease.segmentId,
                    deadlineAt   |-> lease.deadlineAt,
                    ordinal      |-> lease.ordinal,
                    restoredFrom |-> IdentityOf(lease)]

Held(lease) == lease.holdId # 0 \/ lease.holdExpiresAt # 0

WaitersOf(s, queue) == {w \in queue : w.segmentId = s}

(* Faulty: the queue is not sorted.                                        *)
IsAnywhere(w, queue) == w \in queue

IsHead(w, queue) == w \in queue /\ \A v \in queue : w.ordinal <= v.ordinal

-----------------------------------------------------------------------------
(* expire(state, now): what is left once everything overdue is gone.       *)
(* A lapsed lease goes back to the queue even if its own deadline passed.  *)

Overdue == {w \in waiters : w.deadlineAt <= now}

Lapsed == activeLease # NoLease /\ activeLease.expiresAt <= now

terminalX ==
    [s \in Segments |->
        IF terminal[s] = "none" /\ WaitersOf(s, Overdue) # {}
        THEN "deadline-expired" ELSE terminal[s]]

HoldCleared(lease) ==
    IF lease.holdExpiresAt # 0 /\ lease.holdExpiresAt <= now
    THEN [lease EXCEPT !.holdExpiresAt = 0, !.holdId = 0]
    ELSE lease

activeLeaseX == IF Lapsed THEN NoLease ELSE HoldCleared(activeLease)

Reinstated ==
    IF /\ Lapsed
       /\ terminalX[activeLease.segmentId] = "none"
       /\ WaitersOf(activeLease.segmentId, waiters \ Overdue) = {}
    THEN {Restored(activeLease)} ELSE {}

waitersX == (waiters \ Overdue) \cup Reinstated

(* Faulty: the segment is compared, its lease and fence are not.           *)
SameSegment(id) ==
    activeLeaseX # NoLease /\ activeLeaseX.segmentId = id.segmentId

(* current(state, input)                                                   *)
Current(id) == activeLeaseX # NoLease /\ IdentityOf(activeLeaseX) = id

(* A waiter that was put back when this identity lost its lease.           *)
RestoredFrom(id) ==
    {w \in WaitersOf(id.segmentId, waitersX) : w.restoredFrom = id}

(* markTerminal: the first reason stays.                                   *)
Mark(s, reason) ==
    [terminalX EXCEPT ![s] = IF @ = "none" THEN reason ELSE @]

(* Faulty: nobody wakes the object for the deadline of a waiter.           *)
LeaseWakeUps(queue, lease) ==
    (IF lease = NoLease THEN {} ELSE {lease.expiresAt})
        \cup ({lease.holdExpiresAt} \ {0})

(* scheduleAlarm: the lease's expiry, the hold's, the head's deadline.     *)
WakeUps(queue, lease) ==
    (IF lease = NoLease THEN {} ELSE {lease.expiresAt})
        \cup ({lease.holdExpiresAt} \ {0})
        \cup {w.deadlineAt : w \in {v \in queue : IsHead(v, queue)}}

AlarmFor(queue, lease) ==
    IF WakeUps(queue, lease) = {} THEN 0
    ELSE CHOOSE t \in WakeUps(queue, lease) :
            \A u \in WakeUps(queue, lease) : t <= u

-----------------------------------------------------------------------------
(* Callers' beliefs: an answer that names an expiry is remembered, and a   *)
(* caller that gives its lease up expects nothing of it any more.          *)

Told(id, until) ==
    [i \in DOMAIN promise \cup {id} |-> IF i = id THEN until ELSE promise[i]]

GivenUp(id) == Told(id, 0)

(* The end of every call: the transaction commits; then either the alarm   *)
(* is set and the answer delivered, or the object is evicted.              *)
Commit(queue, lease, reasons, answered, unanswered) ==
    /\ waiters' = queue
    /\ activeLease' = lease
    /\ terminal' = reasons
    /\ \/ alarm' = AlarmFor(queue, lease) /\ promise' = answered
       \/ Evictions /\ alarm' = alarm /\ promise' = unanswered

(* The call is refused: only what expired has changed.                     *)
Refuse ==
    /\ Commit(waitersX, activeLeaseX, terminalX, promise, promise)
    /\ UNCHANGED <<nextOrdinal, fence, completedReleases, now, uuids>>

-----------------------------------------------------------------------------
(* Operations. A full queue makes enqueue and restoreCapacityBusy throw:   *)
(* the transaction is rolled back and nothing happens at all.              *)

Queued(s) == WaitersOf(s, waitersX) # {}

Enqueue(s, deadline) ==
    /\ now <= deadline /\ deadline <= now + MaxDeadline
    /\ \/ /\ terminalX[s] # "none" \/ Queued(s) \/ activeLeaseX.segmentId = s
          /\ Refuse
       \/ /\ terminalX[s] = "none" /\ ~Queued(s) /\ activeLeaseX.segmentId # s
          /\ Cardinality(waitersX) < MaxQueueSize
          /\ nextOrdinal' = nextOrdinal + 1
          /\ Commit(waitersX \cup {[segmentId    |-> s,
                                    deadlineAt   |-> deadline,
                                    ordinal      |-> nextOrdinal + 1,
                                    restoredFrom |-> NoIdentity]},
                    activeLeaseX, terminalX, promise, promise)
          /\ UNCHANGED <<fence, completedReleases, now, uuids>>

(* acquire drops the overdue waiters in front of the first live one. Only  *)
(* a waiter that expire() has just reinstated can still be overdue here.   *)
Live == {w \in waitersX : w.deadlineAt > now}

Skipped == {w \in waitersX \ Live : \A v \in Live : w.ordinal < v.ordinal}

terminalSkipped ==
    [s \in Segments |->
        IF terminalX[s] = "none" /\ WaitersOf(s, Skipped) # {}
        THEN "deadline-expired" ELSE terminalX[s]]

LeaseFor(w, leaseId, newFence) ==
    [segmentId     |-> w.segmentId,
     deadlineAt    |-> w.deadlineAt,
     ordinal       |-> w.ordinal,
     leaseId       |-> leaseId,
     fence         |-> newFence,
     expiresAt     |-> Lesser(now + LeaseDuration, w.deadlineAt),
     holdExpiresAt |-> 0,
     holdId        |-> 0]

(* Faulty: the new lease reuses the fence of the last one.                 *)
GrantOldFence(w) ==
    LET newFence == IF fence = 0 THEN 1 ELSE fence
        lease == LeaseFor(w, uuids + 1, newFence)
    IN  /\ uuids < MaxUuids
        /\ fence' = newFence
        /\ uuids' = uuids + 1
        /\ Commit(waitersX \ (Skipped \cup {w}), lease, terminalSkipped,
                  Told(IdentityOf(lease), lease.expiresAt), promise)
        /\ UNCHANGED <<nextOrdinal, completedReleases, now>>

Grant(w) ==
    LET lease == LeaseFor(w, uuids + 1, fence + 1)
    IN  /\ uuids < MaxUuids
        /\ fence' = fence + 1
        /\ uuids' = uuids + 1
        /\ Commit(waitersX \ (Skipped \cup {w}), lease, terminalSkipped,
                  Told(IdentityOf(lease), lease.expiresAt), promise)
        /\ UNCHANGED <<nextOrdinal, completedReleases, now>>

(* requested = None: acquire for whoever is first.                         *)
Acquire(requested) ==
    \/ activeLeaseX # NoLease /\ Refuse
    \/ /\ activeLeaseX = NoLease
       /\ \/ \E w \in Live :
                IsHead(w, Live) /\ requested \in {None, w.segmentId} /\ Grant(w)
          \/ /\ ~\E w \in Live :
                   IsHead(w, Live) /\ requested \in {None, w.segmentId}
             /\ Commit(waitersX \ Skipped, NoLease, terminalSkipped,
                       promise, promise)
             /\ UNCHANGED <<nextOrdinal, fence, completedReleases, now, uuids>>

Renewable(id) ==
    /\ Current(id) /\ ~Held(activeLeaseX)
    /\ Lesser(now + LeaseDuration, activeLeaseX.deadlineAt) > now

Renew(id) ==
    \/ ~Renewable(id) /\ Refuse
    \/ /\ Renewable(id)
       /\ LET until == Lesser(now + LeaseDuration, activeLeaseX.deadlineAt)
          IN  Commit(waitersX, [activeLeaseX EXCEPT !.expiresAt = until],
                     terminalX, Told(id, until), promise)
       /\ UNCHANGED <<nextOrdinal, fence, completedReleases, now, uuids>>

Witness(id) ==
    \/ ~Current(id) /\ Refuse
    \/ /\ Current(id)
       /\ Commit(waitersX, activeLeaseX, terminalX,
                 Told(id, activeLeaseX.expiresAt), promise)
       /\ UNCHANGED <<nextOrdinal, fence, completedReleases, now, uuids>>

(* The queue once this identity's lease, or the place kept for it, is gone *)
Without(id) == IF Current(id) THEN waitersX ELSE waitersX \ RestoredFrom(id)

LeaseWithout(id) == IF Current(id) THEN NoLease ELSE activeLeaseX

(* release without completion: the segment may be enqueued again.          *)
Release(id) ==
    /\ Commit(Without(id), LeaseWithout(id), terminalX, GivenUp(id), GivenUp(id))
    /\ UNCHANGED <<nextOrdinal, fence, completedReleases, now, uuids>>

(* release with completion. A receipt answers a repeated call before       *)
(* expire() runs, so that call changes only the alarm.                     *)
ReleaseCompleted(id) ==
    LET s == id.segmentId
    IN  \/ /\ completedReleases[s] = id
           /\ Commit(waiters, activeLease, terminal, GivenUp(id), GivenUp(id))
           /\ UNCHANGED <<nextOrdinal, fence, completedReleases, now, uuids>>
        \/ /\ completedReleases[s] # id /\ ~Current(id)
           /\ Refuse
        \/ /\ completedReleases[s] # id /\ Current(id)
           /\ completedReleases' = [completedReleases EXCEPT ![s] = id]
           /\ Commit(waitersX, NoLease, Mark(s, "completed"),
                     GivenUp(id), GivenUp(id))
           /\ UNCHANGED <<nextOrdinal, fence, now, uuids>>

(* cancel by segment alone: only a waiter can be cancelled that way, and   *)
(* a segment that is not there leaves no trace.                            *)
CancelSegment(s) ==
    \/ /\ terminalX[s] # "none" \/ activeLeaseX.segmentId = s \/ ~Queued(s)
       /\ Refuse
    \/ /\ terminalX[s] = "none" /\ activeLeaseX.segmentId # s /\ Queued(s)
       /\ Commit(waitersX \ WaitersOf(s, waitersX), activeLeaseX,
                 Mark(s, "cancelled"), promise, promise)
       /\ UNCHANGED <<nextOrdinal, fence, completedReleases, now, uuids>>

(* cancel with the lease identity: the lease, or the place kept for it.    *)
CancelLease(id) ==
    LET s == id.segmentId
        cancellable == /\ terminalX[s] = "none"
                       /\ Current(id) \/ RestoredFrom(id) # {}
    IN  \/ ~cancellable /\ Refuse
        \/ /\ cancellable
           /\ Commit(Without(id), LeaseWithout(id), Mark(s, "cancelled"),
                     GivenUp(id), GivenUp(id))
           /\ UNCHANGED <<nextOrdinal, fence, completedReleases, now, uuids>>

(* restoreCapacityBusy, and requeueProviderLoss which is the same call.    *)
RestoreCapacityBusy(id) ==
    LET s == id.segmentId
        room == \/ Queued(s) \/ terminalX[s] # "none"
                \/ Cardinality(waitersX) < MaxQueueSize
        back == IF Queued(s) \/ terminalX[s] # "none" THEN {}
                ELSE {Restored(activeLeaseX)}
    IN  \/ ~Current(id) /\ Refuse
        \/ /\ Current(id) /\ room
           /\ Commit(waitersX \cup back, NoLease, terminalX,
                     GivenUp(id), GivenUp(id))
           /\ UNCHANGED <<nextOrdinal, fence, completedReleases, now, uuids>>

(* A hold replaces the lease's expiry by its own, shorter or longer.       *)
BeginCommitHold(id) ==
    LET until == Lesser(now + CommitHoldDuration, activeLeaseX.deadlineAt)
        holdable == Current(id) /\ activeLeaseX.holdId = 0 /\ until > now
    IN  \/ ~holdable /\ Refuse
        \/ /\ holdable /\ uuids < MaxUuids
           /\ uuids' = uuids + 1
           /\ Commit(waitersX,
                     [activeLeaseX EXCEPT !.holdExpiresAt = until,
                                          !.expiresAt = until,
                                          !.holdId = uuids + 1],
                     terminalX, Told(id, until),
                     Told(id, Lesser(promise[id], until)))
           /\ UNCHANGED <<nextOrdinal, fence, completedReleases, now>>

ReleaseCommitHold(id, hold) ==
    LET held == Current(id) /\ activeLeaseX.holdId = hold
    IN  \/ ~held /\ Refuse
        \/ /\ held
           /\ Commit(waitersX,
                     [activeLeaseX EXCEPT !.holdId = 0, !.holdExpiresAt = 0],
                     terminalX, promise, promise)
           /\ UNCHANGED <<nextOrdinal, fence, completedReleases, now, uuids>>

(* The platform wakes the object at or after the time it asked for; the    *)
(* alarm is spent when the handler starts.                                 *)
Alarm ==
    /\ alarm # 0 /\ alarm <= now
    /\ Refuse

Tick ==
    /\ now < MaxTime
    /\ now' = now + 1
    /\ UNCHANGED <<nextOrdinal, fence, waiters, activeLease, terminal,
                   completedReleases, alarm, uuids, promise>>

-----------------------------------------------------------------------------
Init ==
    /\ nextOrdinal = 0
    /\ fence = 0
    /\ waiters = {}
    /\ activeLease = NoLease
    /\ terminal = [s \in Segments |-> "none"]
    /\ completedReleases = [s \in Segments |-> NoIdentity]
    /\ alarm = 0
    /\ now = 0
    /\ uuids = 0
    /\ promise = [i \in {} |-> 0]

(* A call by somebody who holds, or once held, the lease named by id.      *)
Call(id) ==
    \/ Renew(id)
    \/ Witness(id)
    \/ Release(id)
    \/ ReleaseCompleted(id)
    \/ CancelLease(id)
    \/ RestoreCapacityBusy(id)
    \/ BeginCommitHold(id)
    \/ \E hold \in 1..uuids : ReleaseCommitHold(id, hold)

Next ==
    \/ \E s \in Segments, deadline \in 1..MaxTime : Enqueue(s, deadline)
    \/ \E requested \in Segments \cup {None} : Acquire(requested)
    \/ \E s \in Segments : CancelSegment(s)
    \/ \E id \in DOMAIN promise : Call(id)
    \/ Alarm
    \/ Tick

Spec == Init /\ [][Next]_vars

(* Time passes and the platform delivers a due alarm. Nothing is assumed   *)
(* of the callers, who may be silent for ever.                             *)
Fairness == WF_vars(Tick) /\ WF_vars(Alarm)

FairSpec == Spec /\ Fairness

-----------------------------------------------------------------------------
(* Type correctness of the persisted state and of the bookkeeping.         *)
TypeOK ==
    /\ nextOrdinal \in Nat
    /\ fence \in Nat
    /\ waiters \subseteq Waiter
    /\ activeLease \in Lease \cup {NoLease}
    /\ terminal \in [Segments -> Reasons \cup {"none"}]
    /\ completedReleases \in [Segments -> Identity \cup {NoIdentity}]
    /\ alarm \in Nat
    /\ now \in Nat
    /\ uuids \in Nat
    /\ DOMAIN promise \subseteq Identity
    /\ promise \in [DOMAIN promise -> Nat]

(* A caller that was told it holds the GPU until some time, and has not    *)
(* given the lease up itself, does hold it until then: no other caller, no *)
(* stale identity, no expiry and no lost answer takes it away earlier.     *)
PromisesAreKept ==
    \A id \in DOMAIN promise :
        promise[id] > now => /\ activeLease # NoLease
                             /\ IdentityOf(activeLease) = id
                             /\ activeLease.expiresAt >= promise[id]

(* First in, first out: whoever is being served came before everybody who  *)
(* waits, including waiters put back after an expiry or a busy provider.   *)
ServedInOrder ==
    activeLease # NoLease =>
        \A w \in waiters : activeLease.ordinal < w.ordinal

(* Ordinals name places: no two places share one, no segment has two.      *)
OnePlaceEach ==
    /\ \A v, w \in waiters :
          v.ordinal = w.ordinal \/ v.segmentId = w.segmentId => v = w
    /\ \A w \in waiters : w.segmentId # activeLease.segmentId

(* A finished segment is neither waiting nor served.                       *)
TerminalIsGone ==
    \A s \in Segments :
        terminal[s] # "none" => /\ WaitersOf(s, waiters) = {}
                                /\ activeLease.segmentId # s

Cap == MaxQueueSize + 1

(* The queue and the lease together never exceed the limit by more than    *)
(* one place: the one expire() gives back without looking at the limit.    *)
QueueIsBounded ==
    /\ Cardinality(waiters) <= Cap
    /\ activeLease # NoLease => Cardinality(waiters) < Cap

(* The line is in order: it is served first in, first out, however often   *)
(* a place is lost and given back; everybody stands in it at most once;    *)
(* whoever is finished never returns to it; and it never outgrows its      *)
(* limit by more than one.                                                 *)
LineIsInOrder == ServedInOrder /\ OnePlaceEach /\ TerminalIsGone /\ QueueIsBounded

(* Fences order the leases: the lease in force carries the newest, so an   *)
(* authority that remembers the largest fence it saw rejects every older   *)
(* holder; and no two leases were ever given the same.                     *)
FenceIsNewest ==
    /\ activeLease # NoLease => activeLease.fence = fence
    /\ \A id \in DOMAIN promise : id.fence <= fence
    /\ \A i, j \in DOMAIN promise : i.fence = j.fence => i = j

(* A place kept for a lost lease can be released or cancelled only by the  *)
(* last holder of that segment, never by one before it.                    *)
RestoredFromLatest ==
    \A w \in waiters : w.restoredFrom # NoIdentity =>
        /\ w.restoredFrom.segmentId = w.segmentId
        /\ \A id \in DOMAIN promise :
              id.segmentId = w.segmentId => id.fence <= w.restoredFrom.fence

(* A completion receipt names the last lease the segment was ever given,   *)
(* and excludes that the segment is reported as cancelled or expired.      *)
ReceiptIsLast ==
    \A s \in Segments :
        completedReleases[s] # NoIdentity =>
            /\ terminal[s] = "completed"
            /\ \A id \in DOMAIN promise :
                  id.segmentId = s => id.fence <= completedReleases[s].fence

(* Whatever answers to an identity - the lease in force, a place that was  *)
(* put back, a receipt - answers to the newest one its segment was ever    *)
(* told: a late call with an older identity finds nothing to act upon.     *)
IdentitiesAreOrdered == FenceIsNewest /\ RestoredFromLatest /\ ReceiptIsLast

Place(s) ==
    IF activeLease.segmentId = s THEN {activeLease.ordinal}
    ELSE {w.ordinal : w \in WaitersOf(s, waiters)}

(* Even if every caller falls silent, each segment that waits or is served *)
(* leaves the coordinator: a dead workflow cannot block the GPU for ever.  *)
(* Only the alarm drives this, so it must always cover what expires next;  *)
(* an alarm that an eviction lost is not made good by anybody but the next *)
(* caller, so that the promise is kept where the alarm is set in the end.  *)
EverybodyLeaves ==
    <>[](alarm = AlarmFor(waiters, activeLease))
        => \A s \in Segments : Place(s) # {} ~> Place(s) = {}

-----------------------------------------------------------------------------
(* The promise this object implements.                                     *)

Lock == INSTANCE FencedFifoLock WITH
    queue   <- {[segmentId |-> w.segmentId, ticket |-> w.ordinal] : w \in waiters},
    holder  <- [segmentId |-> activeLease.segmentId,
                ticket    |-> activeLease.ordinal],
    fence   <- fence,
    tickets <- nextOrdinal,
    gone    <- {s \in Segments : terminal[s] # "none"}

LockSpec == Lock!LockSpec
=============================================================================
