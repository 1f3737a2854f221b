----------------------- MODULE GpuLeaseCoordinatorProofs -----------------------
(***************************************************************************)
(* Proofs about the GPU lease coordinator, for every value of its          *)
(* constants: the type invariant, the order and uniqueness of places, the  *)
(* finality of finished segments, that callers' beliefs about their leases *)
(* are true, that an identity acts only while it is its segment's newest,  *)
(* and that the coordinator implements the lock it stands for.             *)
(*                                                                         *)
(* Every operation first expires what is overdue. The invariant is         *)
(* therefore stated over an arbitrary queue, lease and table of reasons    *)
(* (Sound below), shown to survive expire() once, and each operation is    *)
(* then shown to preserve it from the expired state on.                    *)
(***************************************************************************)
EXTENDS GpuLeaseCoordinator, FiniteSetTheorems, TLAPS

(* The persisted state is well typed.                                      *)
Typed(queue, lease, reasons) ==
    /\ queue \subseteq Waiter
    /\ lease \in Lease \cup {NoLease}
    /\ reasons \in [Segments -> Reasons \cup {"none"}]

(* Places are unique, already handed out, and served in order.             *)
Ordered(queue, lease, ordinals) ==
    /\ \A v, w \in queue :
          v.ordinal = w.ordinal \/ v.segmentId = w.segmentId => v = w
    /\ \A w \in queue : w.segmentId # lease.segmentId
    /\ \A w \in queue : w.ordinal <= ordinals
    /\ lease.ordinal <= ordinals
    /\ lease # NoLease => \A w \in queue : lease.ordinal < w.ordinal

(* Finished segments have no place.                                        *)
Closed(queue, lease, reasons) ==
    \A s \in Segments : reasons[s] # "none" =>
        WaitersOf(s, queue) = {} /\ lease.segmentId # s

Sound(queue, lease, reasons, ordinals, newest) ==
    /\ Typed(queue, lease, reasons)
    /\ Ordered(queue, lease, ordinals)
    /\ Closed(queue, lease, reasons)
    /\ lease # NoLease => lease.fence = newest

Bookkeeping ==
    /\ nextOrdinal \in Nat
    /\ fence \in Nat
    /\ completedReleases \in [Segments -> Identity \cup {NoIdentity}]
    /\ alarm \in Nat
    /\ now \in Nat
    /\ uuids \in Nat
    /\ DOMAIN promise \subseteq Identity
    /\ promise \in [DOMAIN promise -> Nat]

SoundNow == Sound(waiters, activeLease, terminal, nextOrdinal, fence)

SoundX == Sound(waitersX, activeLeaseX, terminalX, nextOrdinal, fence)

IInv == Bookkeeping /\ SoundNow

-----------------------------------------------------------------------------
(* Facts about values.                                                     *)

LEMMA RestoredType ==
    ASSUME NEW l \in Lease
    PROVE  Restored(l) \in Waiter /\ IdentityOf(l) \in Identity
BY DEF Restored, IdentityOf, Lease, Waiter, Identity

LEMMA NoLeaseIsNone ==
    ASSUME NEW l \in Lease \cup {NoLease}
    PROVE  l.segmentId = None <=> l = NoLease
BY CoordinatorAssumption DEF Lease, NoLease

LEMMA HoldClearedType ==
    ASSUME NEW l \in Lease
    PROVE  /\ HoldCleared(l) \in Lease
           /\ HoldCleared(l).segmentId = l.segmentId
           /\ HoldCleared(l).ordinal = l.ordinal
           /\ HoldCleared(l).deadlineAt = l.deadlineAt
           /\ HoldCleared(l).expiresAt = l.expiresAt
           /\ IdentityOf(HoldCleared(l)) = IdentityOf(l)
BY DEF HoldCleared, Lease, IdentityOf

(* The alarm the object asks for is a time (or 0): among at most three     *)
(* candidates there is an earliest.                                        *)
LEMMA AlarmIsNat ==
    ASSUME NEW queue, NEW lease, NEW ordinals,
           queue \subseteq Waiter, lease \in Lease \cup {NoLease},
           Ordered(queue, lease, ordinals)
    PROVE  AlarmFor(queue, lease) \in Nat
<1> DEFINE heads == {v \in queue : IsHead(v, queue)}
<1> DEFINE times == WakeUps(queue, lease)
<1>1. lease.expiresAt \in Nat /\ lease.holdExpiresAt \in Nat
  BY DEF Lease, NoLease
<1>2. \A v, w \in heads : v = w
  <2> SUFFICES ASSUME NEW v \in heads, NEW w \in heads PROVE v = w
    OBVIOUS
  <2>1. v.ordinal \in Nat /\ w.ordinal \in Nat
    BY DEF Waiter
  <2>2. v.ordinal = w.ordinal
    BY <2>1 DEF IsHead
  <2> QED BY <2>2 DEF Ordered
<1>3. \E t \in Nat : {w.deadlineAt : w \in heads} \subseteq {t}
  <2>1. CASE heads = {}
    BY <2>1
  <2>2. CASE heads # {}
    <3>1. PICK h \in heads : TRUE
      BY <2>2
    <3>2. h.deadlineAt \in Nat
      BY <3>1 DEF Waiter
    <3> QED BY <1>2, <3>1, <3>2
  <2> QED BY <2>1, <2>2
<1>4. PICK t \in Nat : {w.deadlineAt : w \in heads} \subseteq {t}
  BY <1>3
<1>5. times \subseteq {lease.expiresAt, lease.holdExpiresAt, t}
  BY <1>4 DEF WakeUps
<1>6. times # {} => \E u \in times : \A v \in times : u <= v
  <2> HIDE DEF times
  <2> QED BY <1>1, <1>5
<1>7. times \subseteq Nat
  BY <1>1, <1>5
<1> QED BY <1>6, <1>7 DEF AlarmFor

-----------------------------------------------------------------------------
(* expire() preserves soundness. The place a lapsed lease gets back is in  *)
(* front of every waiter, so it collides with none of them.                *)

LEMMA ExpireSound ==
    ASSUME SoundNow, nextOrdinal \in Nat, now \in Nat
    PROVE  SoundX
<1> USE DEF SoundNow, SoundX, Sound
<1>1. terminalX \in [Segments -> Reasons \cup {"none"}]
  BY DEF terminalX, Typed, Reasons
<1>2. activeLeaseX \in Lease \cup {NoLease}
  <2>1. CASE activeLease = NoLease
    BY <2>1 DEF activeLeaseX, HoldCleared, NoLease
  <2>2. CASE activeLease \in Lease
    BY <2>2, HoldClearedType DEF activeLeaseX
  <2> QED BY <2>1, <2>2 DEF Typed
<1>3. CASE ~Lapsed
  <2>1. waitersX = waiters \ Overdue
    BY <1>3 DEF waitersX, Reinstated
  <2>2. /\ activeLeaseX.segmentId = activeLease.segmentId
        /\ activeLeaseX.ordinal = activeLease.ordinal
        /\ activeLeaseX.fence = activeLease.fence
        /\ activeLeaseX # NoLease => activeLease # NoLease
    <3>1. CASE activeLease = NoLease
      BY <1>3, <3>1 DEF activeLeaseX, HoldCleared, NoLease
    <3>2. CASE activeLease \in Lease
      BY <1>3, <3>2, HoldClearedType, NoLeaseIsNone
      DEF activeLeaseX, IdentityOf, Typed
    <3> QED BY <3>1, <3>2 DEF Typed
  <2>3. Typed(waitersX, activeLeaseX, terminalX)
    BY <1>1, <1>2, <2>1 DEF Typed
  <2>4. Ordered(waitersX, activeLeaseX, nextOrdinal)
    BY <2>1, <2>2 DEF Ordered
  <2>5. Closed(waitersX, activeLeaseX, terminalX)
    <3> SUFFICES ASSUME NEW s \in Segments, terminalX[s] # "none"
                 PROVE  WaitersOf(s, waitersX) = {} /\ activeLeaseX.segmentId # s
      BY DEF Closed
    <3>1. CASE terminal[s] # "none"
      BY <2>1, <2>2, <3>1 DEF Closed, WaitersOf
    <3>2. CASE terminal[s] = "none"
      <4>1. PICK w \in Overdue : w.segmentId = s
        BY <3>2 DEF terminalX, WaitersOf
      <4>2. w \in waiters
        BY DEF Overdue
      <4>3. \A v \in waiters : v.segmentId = s => v = w
        BY <4>1, <4>2 DEF Ordered
      <4> QED BY <2>1, <2>2, <4>1, <4>2, <4>3 DEF Ordered, WaitersOf
    <3> QED BY <3>1, <3>2
  <2> QED BY <2>2, <2>3, <2>4, <2>5
<1>4. CASE Lapsed
  <2>1. activeLease \in Lease /\ activeLease # NoLease
    BY <1>4 DEF Lapsed, Typed
  <2>2. activeLeaseX = NoLease
    BY <1>4 DEF activeLeaseX
  <2>3. Restored(activeLease) \in Waiter
    BY <2>1, RestoredType
  <2>4. waitersX \subseteq (waiters \ Overdue) \cup {Restored(activeLease)}
    BY DEF waitersX, Reinstated
  <2>5. Typed(waitersX, activeLeaseX, terminalX)
    BY <1>1, <1>2, <2>3, <2>4 DEF Typed
  <2>6. /\ Restored(activeLease).segmentId = activeLease.segmentId
        /\ Restored(activeLease).ordinal = activeLease.ordinal
    BY DEF Restored
  <2>7. \A w \in waiters : activeLease.ordinal < w.ordinal
                           /\ w.segmentId # activeLease.segmentId
    BY <2>1 DEF Ordered
  <2>8. Ordered(waitersX, activeLeaseX, nextOrdinal)
    <3>1. activeLease.ordinal \in Nat /\ \A w \in waiters : w.ordinal \in Nat
      BY <2>1 DEF Typed, Lease, Waiter
    <3>2. \A v, w \in waitersX :
             v.ordinal = w.ordinal \/ v.segmentId = w.segmentId => v = w
      BY <2>4, <2>6, <2>7, <3>1 DEF Ordered
    <3>3. \A w \in waitersX : w.ordinal <= nextOrdinal
      BY <2>4, <2>6 DEF Ordered
    <3>4. \A w \in waitersX : w.segmentId # NoLease.segmentId
      BY <2>5, CoordinatorAssumption DEF Typed, Waiter, NoLease
    <3>5. NoLease.ordinal <= nextOrdinal
      BY DEF NoLease
    <3> QED BY <2>2, <3>2, <3>3, <3>4, <3>5 DEF Ordered
  <2>9. Closed(waitersX, activeLeaseX, terminalX)
    <3> SUFFICES ASSUME NEW s \in Segments, terminalX[s] # "none"
                 PROVE  WaitersOf(s, waitersX) = {}
      BY <2>2, CoordinatorAssumption DEF Closed, NoLease
    <3>1. WaitersOf(s, waiters \ Overdue) = {}
      <4>1. CASE terminal[s] # "none"
        BY <4>1 DEF Closed, WaitersOf
      <4>2. CASE terminal[s] = "none"
        <5>1. PICK w \in Overdue : w.segmentId = s
          BY <4>2 DEF terminalX, WaitersOf
        <5>2. w \in waiters
          BY DEF Overdue
        <5>3. \A v \in waiters : v.segmentId = s => v = w
          BY <5>1, <5>2 DEF Ordered
        <5> QED BY <5>1, <5>3 DEF WaitersOf
      <4> QED BY <4>1, <4>2
    <3>2. \A w \in Reinstated : w.segmentId # s
      BY <2>6 DEF Reinstated
    <3> QED BY <3>1, <3>2 DEF waitersX, WaitersOf
  <2> QED BY <2>2, <2>5, <2>8, <2>9
<1> QED BY <1>3, <1>4

-----------------------------------------------------------------------------
(* What operations do to a sound queue, lease and table of reasons.        *)

(* Taking waiters, or the lease, away.                                     *)
LEMMA LeaveSound ==
    ASSUME NEW q, NEW l, NEW r, NEW n \in Nat, NEW f, NEW q2, NEW l2,
           Sound(q, l, r, n, f), q2 \subseteq q, l2 \in {l, NoLease}
    PROVE  Sound(q2, l2, r, n, f)
<1>1. Typed(q2, l2, r)
  BY DEF Sound, Typed
<1>2. Ordered(q2, l2, n)
  BY CoordinatorAssumption DEF Sound, Ordered, Typed, Waiter, NoLease
<1>3. Closed(q2, l2, r)
  BY CoordinatorAssumption DEF Sound, Closed, WaitersOf, NoLease
<1> QED BY <1>1, <1>2, <1>3 DEF Sound

(* Finishing a segment that has no place any more.                         *)
LEMMA FinishSound ==
    ASSUME NEW q, NEW l, NEW r, NEW n, NEW f, NEW r2, NEW S,
           Sound(q, l, r, n, f),
           r2 \in [Segments -> Reasons \cup {"none"}],
           \A s \in Segments : s \notin S => r2[s] = r[s],
           \A w \in q : w.segmentId \notin S,
           l.segmentId \notin S
    PROVE  Sound(q, l, r2, n, f)
BY DEF Sound, Typed, Closed, WaitersOf

LEMMA MarkType ==
    ASSUME SoundX, NEW s, NEW reason \in Reasons
    PROVE  /\ Mark(s, reason) \in [Segments -> Reasons \cup {"none"}]
           /\ \A t \in Segments : t # s => Mark(s, reason)[t] = terminalX[t]
BY DEF SoundX, Sound, Typed, Mark

(* Changing the expiry or the hold of the lease in force.                  *)
LEMMA AdjustSound ==
    ASSUME NEW q, NEW l, NEW r, NEW n, NEW f, NEW l2 \in Lease,
           Sound(q, l, r, n, f), l # NoLease,
           l2.segmentId = l.segmentId, l2.ordinal = l.ordinal, l2.fence = l.fence
    PROVE  Sound(q, l2, r, n, f)
BY DEF Sound, Typed, Ordered, Closed

(* Giving the lease's place back to the queue.                             *)
LEMMA PutBackSound ==
    ASSUME NEW q, NEW l \in Lease, NEW r, NEW n \in Nat, NEW f,
           Sound(q, l, r, n, f)
    PROVE  Sound(q \cup {Restored(l)}, NoLease, r, n, f)
<1>1. l # NoLease /\ l.ordinal \in Nat /\ l.segmentId \in Segments
  BY NoLeaseIsNone, CoordinatorAssumption DEF Lease
<1>2. Restored(l) \in Waiter
  BY RestoredType
<1>3. Restored(l).segmentId = l.segmentId /\ Restored(l).ordinal = l.ordinal
  BY DEF Restored
<1>4. Typed(q \cup {Restored(l)}, NoLease, r)
  BY <1>2 DEF Sound, Typed
<1>5. Ordered(q \cup {Restored(l)}, NoLease, n)
  <2>1. \A w \in q : w.ordinal \in Nat /\ w.segmentId \in Segments
    BY DEF Sound, Typed, Waiter
  <2>2. \A w \in q : l.ordinal < w.ordinal /\ w.segmentId # l.segmentId
    BY <1>1 DEF Sound, Ordered
  <2>3. \A v, w \in q \cup {Restored(l)} :
           v.ordinal = w.ordinal \/ v.segmentId = w.segmentId => v = w
    BY <1>1, <1>3, <2>1, <2>2 DEF Sound, Ordered
  <2>4. \A w \in q \cup {Restored(l)} : w.segmentId # NoLease.segmentId
    BY <1>1, <1>3, <2>1, CoordinatorAssumption DEF NoLease
  <2>5. \A w \in q \cup {Restored(l)} : w.ordinal <= n
    BY <1>3 DEF Sound, Ordered
  <2>6. NoLease.ordinal <= n
    BY DEF NoLease
  <2> QED BY <2>3, <2>4, <2>5, <2>6 DEF Ordered
<1>6. Closed(q \cup {Restored(l)}, NoLease, r)
  BY <1>1, <1>3, CoordinatorAssumption DEF Sound, Closed, WaitersOf, NoLease
<1> QED BY <1>4, <1>5, <1>6 DEF Sound

(* A newcomer behind everybody.                                            *)
LEMMA JoinSound ==
    ASSUME NEW q, NEW l, NEW r, NEW n \in Nat, NEW f, NEW w \in Waiter,
           Sound(q, l, r, n, f), w.ordinal = n + 1, r[w.segmentId] = "none",
           WaitersOf(w.segmentId, q) = {}, l.segmentId # w.segmentId
    PROVE  Sound(q \cup {w}, l, r, n + 1, f)
<1>1. \A v \in q : v.ordinal \in Nat
  BY DEF Sound, Typed, Waiter
<1>2. l.ordinal \in Nat
  BY DEF Sound, Typed, Lease, NoLease
<1>3. Typed(q \cup {w}, l, r)
  BY DEF Sound, Typed
<1>4. Ordered(q \cup {w}, l, n + 1)
  <2>1. \A v \in q : v.ordinal <= n /\ v.segmentId # w.segmentId
    BY DEF Sound, Ordered, WaitersOf
  <2>2. \A u, v \in q \cup {w} :
           u.ordinal = v.ordinal \/ u.segmentId = v.segmentId => u = v
    BY <1>1, <2>1 DEF Sound, Ordered
  <2>3. l.ordinal <= n
    BY DEF Sound, Ordered
  <2>4. l # NoLease => \A v \in q \cup {w} : l.ordinal < v.ordinal
    BY <1>1, <1>2, <2>3 DEF Sound, Ordered
  <2>5. \A v \in q \cup {w} : v.ordinal <= n + 1
    BY <1>1, <2>1
  <2>6. \A v \in q \cup {w} : v.segmentId # l.segmentId
    BY DEF Sound, Ordered
  <2>7. l.ordinal <= n + 1
    BY <1>2, <2>3
  <2> QED BY <2>2, <2>4, <2>5, <2>6, <2>7 DEF Ordered
<1>5. Closed(q \cup {w}, l, r)
  BY DEF Sound, Closed, WaitersOf
<1> QED BY <1>3, <1>4, <1>5 DEF Sound

(* The first live waiter gets the lease: whoever was skipped is gone.      *)
LEMMA GrantSound ==
    ASSUME NEW w \in Live, IsHead(w, Live), SoundX,
           activeLeaseX = NoLease, nextOrdinal \in Nat, now \in Nat,
           NEW l \in Lease, NEW f,
           l.segmentId = w.segmentId, l.ordinal = w.ordinal, l.fence = f
    PROVE  Sound(waitersX \ (Skipped \cup {w}), l, terminalSkipped, nextOrdinal, f)
<1> DEFINE q == waitersX \ (Skipped \cup {w})
<1>1. w \in waitersX /\ \A v \in waitersX : v \in Waiter /\ v.ordinal \in Nat
  BY DEF Live, SoundX, Sound, Typed, Waiter
<1>2. \A u, v \in waitersX :
         u.ordinal = v.ordinal \/ u.segmentId = v.segmentId => u = v
  BY DEF SoundX, Sound, Ordered
<1>3. terminalSkipped \in [Segments -> Reasons \cup {"none"}]
  BY DEF terminalSkipped, SoundX, Sound, Typed, Reasons
<1>4. Typed(q, l, terminalSkipped)
  BY <1>1, <1>3 DEF Typed
<1>5. \A v \in q : w.ordinal < v.ordinal
  <2> SUFFICES ASSUME NEW v \in q PROVE w.ordinal < v.ordinal
    OBVIOUS
  <2>1. v.ordinal # w.ordinal
    BY <1>1, <1>2
  <2>2. w.ordinal <= v.ordinal
    <3>1. CASE v \in Live
      BY <3>1 DEF IsHead
    <3>2. CASE v \notin Live
      <4>1. PICK u \in Live : ~(v.ordinal < u.ordinal)
        BY <3>2 DEF Skipped
      <4>2. w.ordinal <= u.ordinal /\ u \in waitersX
        BY DEF IsHead, Live
      <4> QED BY <1>1, <4>1, <4>2
    <3> QED BY <3>1, <3>2
  <2> QED BY <1>1, <2>1, <2>2
<1>6. Ordered(q, l, nextOrdinal)
  BY <1>1, <1>2, <1>5 DEF SoundX, Sound, Ordered
<1>7. Closed(q, l, terminalSkipped)
  <2> SUFFICES ASSUME NEW s \in Segments, terminalSkipped[s] # "none"
               PROVE  WaitersOf(s, q) = {} /\ l.segmentId # s
    BY DEF Closed
  <2>1. CASE terminalX[s] # "none"
    BY <1>1, <2>1 DEF SoundX, Sound, Closed, WaitersOf
  <2>2. CASE terminalX[s] = "none"
    <3>1. PICK v \in Skipped : v.segmentId = s
      BY <2>2 DEF terminalSkipped, WaitersOf
    <3>2. v \in waitersX /\ v \notin Live
      BY DEF Skipped
    <3> QED BY <1>1, <1>2, <3>1, <3>2 DEF WaitersOf
  <2> QED BY <2>1, <2>2
<1> QED BY <1>4, <1>6, <1>7 DEF Sound

(* Nobody gets the lease: only the overdue waiters in front are dropped.   *)
LEMMA SkipSound ==
    ASSUME SoundX, activeLeaseX = NoLease, nextOrdinal \in Nat
    PROVE  Sound(waitersX \ Skipped, NoLease, terminalSkipped, nextOrdinal, fence)
<1> DEFINE q == waitersX \ Skipped
<1> DEFINE S == {v.segmentId : v \in Skipped}
<1>1. Sound(q, NoLease, terminalX, nextOrdinal, fence)
  BY LeaveSound DEF SoundX
<1>2. terminalSkipped \in [Segments -> Reasons \cup {"none"}]
  BY DEF terminalSkipped, SoundX, Sound, Typed, Reasons
<1>3. \A s \in Segments : s \notin S => terminalSkipped[s] = terminalX[s]
  BY DEF terminalSkipped, WaitersOf
<1>4. \A v \in q : v.segmentId \notin S
  BY DEF SoundX, Sound, Ordered, Skipped
<1>5. NoLease.segmentId \notin S
  BY CoordinatorAssumption DEF NoLease, SoundX, Sound, Typed, Waiter, Skipped
<1> HIDE DEF S, q
<1> QED BY <1>1, <1>2, <1>3, <1>4, <1>5, FinishSound DEF q

-----------------------------------------------------------------------------
(* Every operation preserves the invariant.                                *)

Beliefs(p) == DOMAIN p \subseteq Identity /\ p \in [DOMAIN p -> Nat]

LEMMA ToldType ==
    ASSUME Bookkeeping, NEW id \in Identity, NEW until \in Nat
    PROVE  Beliefs(Told(id, until))
BY DEF Beliefs, Told, Bookkeeping

LEMMA GivenUpType ==
    ASSUME Bookkeeping, NEW id \in Identity
    PROVE  Beliefs(GivenUp(id))
BY ToldType DEF GivenUp

(* A call that ends in a sound state and tells its caller something        *)
(* well typed preserves the invariant.                                     *)
LEMMA CommitStep ==
    ASSUME Bookkeeping,
           NEW q, NEW l, NEW r, NEW a, NEW u,
           Commit(q, l, r, a, u), Beliefs(a), Beliefs(u),
           Sound(q, l, r, nextOrdinal', fence'),
           nextOrdinal' \in Nat, fence' \in Nat, uuids' \in Nat, now' \in Nat,
           completedReleases' \in [Segments -> Identity \cup {NoIdentity}]
    PROVE  IInv'
<1>1. waiters' = q /\ activeLease' = l /\ terminal' = r
  BY DEF Commit
<1>2. SoundNow'
  BY <1>1 DEF SoundNow, Sound, Typed, Ordered, Closed
<1>3. AlarmFor(q, l) \in Nat
  BY AlarmIsNat DEF Sound, Typed
<1>4. alarm' \in Nat /\ Beliefs(promise')
  BY <1>3 DEF Commit, Bookkeeping
<1> QED BY <1>2, <1>4 DEF IInv, Bookkeeping, Beliefs

LEMMA ExpireIInv ==
    ASSUME IInv
    PROVE  SoundX /\ Beliefs(promise) /\ Bookkeeping
BY ExpireSound DEF IInv, Bookkeeping, Beliefs

LEMMA RefuseStep ==
    ASSUME IInv, Refuse
    PROVE  IInv'
BY ExpireIInv, CommitStep DEF Refuse, SoundX, Bookkeeping

LEMMA EnqueueStep ==
    ASSUME IInv, NEW s \in Segments, NEW deadline \in 1..MaxTime,
           Enqueue(s, deadline)
    PROVE  IInv'
<1> DEFINE w == [segmentId |-> s, deadlineAt |-> deadline,
                 ordinal |-> nextOrdinal + 1, restoredFrom |-> NoIdentity]
<1>1. CASE Refuse
  BY <1>1, RefuseStep
<1>2. CASE ~Refuse
  <2>1. /\ terminalX[s] = "none" /\ ~Queued(s) /\ activeLeaseX.segmentId # s
        /\ nextOrdinal' = nextOrdinal + 1
        /\ Commit(waitersX \cup {w}, activeLeaseX, terminalX, promise, promise)
        /\ UNCHANGED <<fence, completedReleases, now, uuids>>
    BY <1>2 DEF Enqueue
  <2>2. SoundX /\ Beliefs(promise) /\ Bookkeeping
    BY ExpireIInv
  <2>3. w \in Waiter
    BY <2>2, CoordinatorAssumption DEF Waiter, Bookkeeping
  <2>4. Sound(waitersX \cup {w}, activeLeaseX, terminalX, nextOrdinal + 1, fence)
    BY <2>1, <2>2, <2>3, JoinSound DEF SoundX, Queued, Bookkeeping
  <2>5. nextOrdinal' \in Nat /\ fence' \in Nat /\ uuids' \in Nat /\ now' \in Nat
        /\ completedReleases' \in [Segments -> Identity \cup {NoIdentity}]
    BY <2>1, <2>2 DEF Bookkeeping
  <2>6. Sound(waitersX \cup {w}, activeLeaseX, terminalX, nextOrdinal', fence')
    BY <2>1, <2>4
  <2> HIDE DEF w
  <2> QED BY <2>1, <2>2, <2>5, <2>6, CommitStep
<1> QED BY <1>1, <1>2

LEMMA AcquireStep ==
    ASSUME IInv, NEW requested, Acquire(requested)
    PROVE  IInv'
<1>1. SoundX /\ Beliefs(promise) /\ Bookkeeping
  BY ExpireIInv
<1>2. CASE Refuse
  BY <1>2, RefuseStep
<1>3. CASE activeLeaseX = NoLease /\ \E w \in Live : IsHead(w, Live) /\ Grant(w)
  <2>1. PICK w \in Live : IsHead(w, Live) /\ Grant(w)
    BY <1>3
  <2> DEFINE l == LeaseFor(w, uuids + 1, fence + 1)
  <2>2. w \in Waiter
    BY <1>1 DEF Live, SoundX, Sound, Typed
  <2>3. Lesser(now + LeaseDuration, w.deadlineAt) \in Nat
    BY <1>1, <2>2, CoordinatorAssumption DEF Lesser, Waiter, Bookkeeping
  <2>4. l \in Lease /\ IdentityOf(l) \in Identity
    BY <1>1, <2>2, <2>3 DEF LeaseFor, Lease, Waiter, Bookkeeping, IdentityOf, Identity
  <2>5. /\ Commit(waitersX \ (Skipped \cup {w}), l, terminalSkipped,
                  Told(IdentityOf(l), l.expiresAt), promise)
        /\ fence' = fence + 1 /\ uuids' = uuids + 1
        /\ UNCHANGED <<nextOrdinal, completedReleases, now>>
    BY <2>1 DEF Grant
  <2>6. l.segmentId = w.segmentId /\ l.ordinal = w.ordinal
        /\ l.fence = fence + 1 /\ l.expiresAt \in Nat
    BY <2>3 DEF LeaseFor
  <2> HIDE DEF l
  <2>7. Sound(waitersX \ (Skipped \cup {w}), l, terminalSkipped, nextOrdinal, fence + 1)
    BY <1>1, <1>3, <2>1, <2>4, <2>6, GrantSound DEF Bookkeeping
  <2>8. Beliefs(Told(IdentityOf(l), l.expiresAt))
    BY <1>1, <2>4, <2>6, ToldType
  <2>9. nextOrdinal' \in Nat /\ fence' \in Nat /\ uuids' \in Nat /\ now' \in Nat
        /\ completedReleases' \in [Segments -> Identity \cup {NoIdentity}]
    BY <1>1, <2>5 DEF Bookkeeping
  <2>10. Sound(waitersX \ (Skipped \cup {w}), l, terminalSkipped, nextOrdinal', fence')
    BY <2>5, <2>7
  <2> QED BY <1>1, <2>5, <2>8, <2>9, <2>10, CommitStep
<1>4. CASE /\ activeLeaseX = NoLease
           /\ Commit(waitersX \ Skipped, NoLease, terminalSkipped, promise, promise)
           /\ UNCHANGED <<nextOrdinal, fence, completedReleases, now, uuids>>
  <2>1. Sound(waitersX \ Skipped, NoLease, terminalSkipped, nextOrdinal, fence)
    BY <1>1, <1>4, SkipSound DEF Bookkeeping
  <2>2. Sound(waitersX \ Skipped, NoLease, terminalSkipped, nextOrdinal', fence')
    BY <1>4, <2>1
  <2>3. nextOrdinal' \in Nat /\ fence' \in Nat /\ uuids' \in Nat /\ now' \in Nat
        /\ completedReleases' \in [Segments -> Identity \cup {NoIdentity}]
    BY <1>1, <1>4 DEF Bookkeeping
  <2> QED BY <1>1, <1>4, <2>2, <2>3, CommitStep
<1> QED BY <1>2, <1>3, <1>4 DEF Acquire

(* What is left when an identity's lease or its kept place is taken away.  *)
LEMMA WithoutSound ==
    ASSUME IInv, NEW id
    PROVE  Sound(Without(id), LeaseWithout(id), terminalX, nextOrdinal, fence)
<1>1. SoundX /\ nextOrdinal \in Nat
  BY ExpireIInv DEF Bookkeeping
<1>2. Without(id) \subseteq waitersX
  BY DEF Without
<1>3. LeaseWithout(id) \in {activeLeaseX, NoLease}
  BY DEF LeaseWithout
<1> QED BY <1>1, <1>2, <1>3, LeaveSound DEF SoundX

(* The lease an identity currently names.                                  *)
LEMMA CurrentLease ==
    ASSUME SoundX, NEW id, Current(id)
    PROVE  /\ activeLeaseX \in Lease
           /\ activeLeaseX # NoLease
           /\ activeLeaseX.segmentId = id.segmentId
           /\ \A w \in waitersX : w.segmentId # id.segmentId
<1>1. activeLeaseX \in Lease /\ activeLeaseX # NoLease
  BY DEF Current, SoundX, Sound, Typed
<1>2. activeLeaseX.segmentId = id.segmentId
  BY DEF Current, IdentityOf
<1> QED BY <1>1, <1>2 DEF SoundX, Sound, Ordered

LEMMA RenewStep ==
    ASSUME IInv, NEW id \in Identity, Renew(id)
    PROVE  IInv'
<1>1. CASE Refuse
  BY <1>1, RefuseStep
<1>2. CASE ~Refuse
  <2> DEFINE until == Lesser(now + LeaseDuration, activeLeaseX.deadlineAt)
             l == [activeLeaseX EXCEPT !.expiresAt = until]
  <2>1. /\ Current(id)
        /\ Commit(waitersX, l, terminalX, Told(id, until), promise)
        /\ UNCHANGED <<nextOrdinal, fence, completedReleases, now, uuids>>
    BY <1>2 DEF Renew, Renewable
  <2>2. SoundX /\ Beliefs(promise) /\ Bookkeeping
    BY ExpireIInv
  <2>3. activeLeaseX \in Lease /\ activeLeaseX # NoLease
    BY <2>1, <2>2, CurrentLease
  <2>4. until \in Nat
    BY <2>2, <2>3, CoordinatorAssumption DEF Lesser, Lease, Bookkeeping
  <2>5. /\ l \in Lease /\ l.segmentId = activeLeaseX.segmentId
        /\ l.ordinal = activeLeaseX.ordinal /\ l.fence = activeLeaseX.fence
    BY <2>3, <2>4 DEF Lease
  <2> HIDE DEF l, until
  <2>6. Sound(waitersX, l, terminalX, nextOrdinal, fence)
    BY <2>2, <2>3, <2>5, AdjustSound DEF SoundX
  <2>7. Sound(waitersX, l, terminalX, nextOrdinal', fence')
    BY <2>1, <2>6
  <2>8. Beliefs(Told(id, until))
    BY <2>2, <2>4, ToldType
  <2> QED BY <2>1, <2>2, <2>7, <2>8, CommitStep DEF Bookkeeping
<1> QED BY <1>1, <1>2

LEMMA WitnessStep ==
    ASSUME IInv, NEW id \in Identity, Witness(id)
    PROVE  IInv'
<1>1. CASE Refuse
  BY <1>1, RefuseStep
<1>2. CASE ~Refuse
  <2>1. /\ Current(id)
        /\ Commit(waitersX, activeLeaseX, terminalX,
                  Told(id, activeLeaseX.expiresAt), promise)
        /\ UNCHANGED <<nextOrdinal, fence, completedReleases, now, uuids>>
    BY <1>2 DEF Witness
  <2>2. SoundX /\ Beliefs(promise) /\ Bookkeeping
    BY ExpireIInv
  <2>3. Beliefs(Told(id, activeLeaseX.expiresAt))
    BY <2>1, <2>2, CurrentLease, ToldType DEF Lease
  <2> QED BY <2>1, <2>2, <2>3, CommitStep DEF Bookkeeping, SoundX
<1> QED BY <1>1, <1>2

LEMMA ReleaseStep ==
    ASSUME IInv, NEW id \in Identity, Release(id)
    PROVE  IInv'
<1>1. SoundX /\ Beliefs(promise) /\ Bookkeeping
  BY ExpireIInv
<1>2. Sound(Without(id), LeaseWithout(id), terminalX, nextOrdinal', fence')
  BY WithoutSound DEF Release
<1>3. Beliefs(GivenUp(id))
  BY <1>1, GivenUpType
<1> QED BY <1>1, <1>2, <1>3, CommitStep DEF Release, Bookkeeping

LEMMA ReleaseCompletedStep ==
    ASSUME IInv, NEW id \in Identity, ReleaseCompleted(id)
    PROVE  IInv'
<1>1. SoundX /\ Beliefs(promise) /\ Bookkeeping
  BY ExpireIInv
<1>2. Beliefs(GivenUp(id)) /\ id.segmentId \in Segments
  BY <1>1, GivenUpType DEF Identity
<1>3. CASE Refuse
  BY <1>3, RefuseStep
<1>4. CASE /\ Commit(waiters, activeLease, terminal, GivenUp(id), GivenUp(id))
           /\ UNCHANGED <<nextOrdinal, fence, completedReleases, now, uuids>>
  <2>1. Sound(waiters, activeLease, terminal, nextOrdinal', fence')
    BY <1>4 DEF IInv, SoundNow
  <2> QED BY <1>1, <1>2, <1>4, <2>1, CommitStep DEF Bookkeeping
<1>5. CASE /\ Current(id)
           /\ completedReleases' = [completedReleases EXCEPT ![id.segmentId] = id]
           /\ Commit(waitersX, NoLease, Mark(id.segmentId, "completed"),
                     GivenUp(id), GivenUp(id))
           /\ UNCHANGED <<nextOrdinal, fence, now, uuids>>
  <2> DEFINE s == id.segmentId
             r == Mark(s, "completed")
  <2>1. \A w \in waitersX : w.segmentId \notin {s}
    BY <1>1, <1>5, CurrentLease
  <2>2. NoLease.segmentId \notin {s}
    BY <1>2, CoordinatorAssumption DEF NoLease
  <2>3. /\ r \in [Segments -> Reasons \cup {"none"}]
        /\ \A t \in Segments : t \notin {s} => r[t] = terminalX[t]
    BY <1>1, MarkType DEF Reasons
  <2>4. Sound(waitersX, NoLease, terminalX, nextOrdinal, fence)
    BY <1>1, LeaveSound DEF SoundX, Bookkeeping
  <2> HIDE DEF r, s
  <2>5. Sound(waitersX, NoLease, r, nextOrdinal, fence)
    BY <2>1, <2>2, <2>3, <2>4, FinishSound
  <2>6. Sound(waitersX, NoLease, r, nextOrdinal', fence')
    BY <1>5, <2>5
  <2>7. completedReleases' \in [Segments -> Identity \cup {NoIdentity}]
    BY <1>1, <1>5 DEF Bookkeeping
  <2> QED BY <1>1, <1>2, <1>5, <2>6, <2>7, CommitStep DEF r, s, Bookkeeping
<1> QED BY <1>3, <1>4, <1>5 DEF ReleaseCompleted

LEMMA CancelSegmentStep ==
    ASSUME IInv, NEW s \in Segments, CancelSegment(s)
    PROVE  IInv'
<1>1. SoundX /\ Beliefs(promise) /\ Bookkeeping
  BY ExpireIInv
<1>2. CASE Refuse
  BY <1>2, RefuseStep
<1>3. CASE ~Refuse
  <2> DEFINE q == waitersX \ WaitersOf(s, waitersX)
             r == Mark(s, "cancelled")
  <2>1. /\ activeLeaseX.segmentId \notin {s}
        /\ Commit(q, activeLeaseX, r, promise, promise)
        /\ UNCHANGED <<nextOrdinal, fence, completedReleases, now, uuids>>
    BY <1>3 DEF CancelSegment
  <2>2. \A w \in q : w.segmentId \notin {s}
    BY DEF WaitersOf
  <2>3. /\ r \in [Segments -> Reasons \cup {"none"}]
        /\ \A t \in Segments : t \notin {s} => r[t] = terminalX[t]
    BY <1>1, MarkType DEF Reasons
  <2>4. Sound(q, activeLeaseX, terminalX, nextOrdinal, fence)
    BY <1>1, LeaveSound DEF SoundX, Bookkeeping
  <2> HIDE DEF q, r
  <2>5. Sound(q, activeLeaseX, r, nextOrdinal, fence)
    BY <2>1, <2>2, <2>3, <2>4, FinishSound
  <2>6. Sound(q, activeLeaseX, r, nextOrdinal', fence')
    BY <2>1, <2>5
  <2> QED BY <1>1, <2>1, <2>6, CommitStep DEF Bookkeeping
<1> QED BY <1>2, <1>3

LEMMA CancelLeaseStep ==
    ASSUME IInv, NEW id \in Identity, CancelLease(id)
    PROVE  IInv'
<1>1. SoundX /\ Beliefs(promise) /\ Bookkeeping
  BY ExpireIInv
<1>2. CASE Refuse
  BY <1>2, RefuseStep
<1>3. CASE ~Refuse
  <2> DEFINE s == id.segmentId
             q == Without(id)
             l == LeaseWithout(id)
             r == Mark(s, "cancelled")
  <2>1. /\ Current(id) \/ RestoredFrom(id) # {}
        /\ Commit(q, l, r, GivenUp(id), GivenUp(id))
        /\ UNCHANGED <<nextOrdinal, fence, completedReleases, now, uuids>>
    BY <1>3 DEF CancelLease
  <2>2. (\A w \in q : w.segmentId \notin {s}) /\ l.segmentId \notin {s}
    <3>1. CASE Current(id)
      <4>1. q = waitersX /\ l = NoLease
        BY <3>1 DEF Without, LeaseWithout
      <4> QED BY <1>1, <3>1, <4>1, CurrentLease, CoordinatorAssumption
          DEF NoLease, Identity
    <3>2. CASE ~Current(id)
      <4>1. PICK w \in waitersX : w.segmentId = s /\ w.restoredFrom = id
        BY <2>1, <3>2 DEF RestoredFrom, WaitersOf
      <4>2. \A v \in waitersX : v.segmentId = s => v = w
        BY <1>1, <4>1 DEF SoundX, Sound, Ordered
      <4>3. q = waitersX \ {w}
        BY <3>2, <4>1, <4>2 DEF Without, RestoredFrom, WaitersOf
      <4>4. l = activeLeaseX /\ activeLeaseX.segmentId # s
        BY <1>1, <3>2, <4>1 DEF LeaseWithout, SoundX, Sound, Ordered
      <4> QED BY <4>2, <4>3, <4>4
    <3> QED BY <3>1, <3>2
  <2>3. /\ r \in [Segments -> Reasons \cup {"none"}]
        /\ \A t \in Segments : t \notin {s} => r[t] = terminalX[t]
    BY <1>1, MarkType DEF Reasons
  <2>4. Sound(q, l, terminalX, nextOrdinal, fence)
    BY WithoutSound
  <2>5. Beliefs(GivenUp(id))
    BY <1>1, GivenUpType
  <2> HIDE DEF q, l, r, s
  <2>6. Sound(q, l, r, nextOrdinal, fence)
    BY <2>2, <2>3, <2>4, FinishSound
  <2>7. Sound(q, l, r, nextOrdinal', fence')
    BY <2>1, <2>6
  <2> QED BY <1>1, <2>1, <2>5, <2>7, CommitStep DEF Bookkeeping
<1> QED BY <1>2, <1>3

LEMMA RestoreCapacityBusyStep ==
    ASSUME IInv, NEW id \in Identity, RestoreCapacityBusy(id)
    PROVE  IInv'
<1>1. SoundX /\ Beliefs(promise) /\ Bookkeeping
  BY ExpireIInv
<1>2. CASE Refuse
  BY <1>2, RefuseStep
<1>3. CASE ~Refuse
  <2> DEFINE s == id.segmentId
             q == waitersX \cup (IF Queued(s) \/ terminalX[s] # "none" THEN {}
                                 ELSE {Restored(activeLeaseX)})
  <2>1. /\ Current(id)
        /\ Commit(q, NoLease, terminalX, GivenUp(id), GivenUp(id))
        /\ UNCHANGED <<nextOrdinal, fence, completedReleases, now, uuids>>
    BY <1>3 DEF RestoreCapacityBusy
  <2>2. q \in {waitersX, waitersX \cup {Restored(activeLeaseX)}}
    OBVIOUS
  <2>3. activeLeaseX \in Lease /\ nextOrdinal \in Nat
    BY <1>1, <2>1, CurrentLease DEF Bookkeeping
  <2>4. Sound(waitersX, NoLease, terminalX, nextOrdinal, fence)
    BY <1>1, <2>3, LeaveSound DEF SoundX
  <2>5. Sound(waitersX \cup {Restored(activeLeaseX)}, NoLease, terminalX,
              nextOrdinal, fence)
    BY <1>1, <2>3, PutBackSound DEF SoundX
  <2>6. Beliefs(GivenUp(id))
    BY <1>1, GivenUpType
  <2> HIDE DEF q, s
  <2>7. Sound(q, NoLease, terminalX, nextOrdinal', fence')
    BY <2>1, <2>2, <2>4, <2>5
  <2> QED BY <1>1, <2>1, <2>6, <2>7, CommitStep DEF Bookkeeping
<1> QED BY <1>2, <1>3

LEMMA BeginCommitHoldStep ==
    ASSUME IInv, NEW id \in DOMAIN promise, BeginCommitHold(id)
    PROVE  IInv'
<1>1. SoundX /\ Beliefs(promise) /\ Bookkeeping
  BY ExpireIInv
<1>2. CASE Refuse
  BY <1>2, RefuseStep
<1>3. CASE ~Refuse
  <2> DEFINE until == Lesser(now + CommitHoldDuration, activeLeaseX.deadlineAt)
             l == [activeLeaseX EXCEPT !.holdExpiresAt = until,
                                       !.expiresAt = until,
                                       !.holdId = uuids + 1]
  <2>1. /\ Current(id)
        /\ uuids' = uuids + 1
        /\ Commit(waitersX, l, terminalX, Told(id, until),
                  Told(id, Lesser(promise[id], until)))
        /\ UNCHANGED <<nextOrdinal, fence, completedReleases, now>>
    BY <1>3 DEF BeginCommitHold
  <2>2. activeLeaseX \in Lease /\ activeLeaseX # NoLease
    BY <1>1, <2>1, CurrentLease
  <2>3. until \in Nat /\ uuids + 1 \in Nat
    BY <1>1, <2>2, CoordinatorAssumption DEF Lesser, Lease, Bookkeeping
  <2>4. promise[id] \in Nat /\ id \in Identity
    BY <1>1 DEF Bookkeeping
  <2>5. Lesser(promise[id], until) \in Nat
    BY <2>3, <2>4 DEF Lesser
  <2>6. /\ l \in Lease /\ l.segmentId = activeLeaseX.segmentId
        /\ l.ordinal = activeLeaseX.ordinal /\ l.fence = activeLeaseX.fence
    <3>1. activeLeaseX =
             [segmentId |-> activeLeaseX.segmentId,
              deadlineAt |-> activeLeaseX.deadlineAt,
              ordinal |-> activeLeaseX.ordinal,
              leaseId |-> activeLeaseX.leaseId,
              fence |-> activeLeaseX.fence,
              expiresAt |-> activeLeaseX.expiresAt,
              holdExpiresAt |-> activeLeaseX.holdExpiresAt,
              holdId |-> activeLeaseX.holdId]
      BY <2>2 DEF Lease
    <3> QED BY <2>2, <2>3 DEF Lease
  <2>7. Beliefs(Told(id, until)) /\ Beliefs(Told(id, Lesser(promise[id], until)))
    BY <1>1, <2>3, <2>4, <2>5, ToldType
  <2> HIDE DEF l, until
  <2>8. Sound(waitersX, l, terminalX, nextOrdinal, fence)
    BY <1>1, <2>2, <2>6, AdjustSound DEF SoundX
  <2>9. Sound(waitersX, l, terminalX, nextOrdinal', fence')
    BY <2>1, <2>8
  <2>10. uuids' \in Nat
    BY <2>1, <2>3
  <2> QED BY <1>1, <2>1, <2>7, <2>9, <2>10, CommitStep DEF Bookkeeping
<1> QED BY <1>2, <1>3

LEMMA ReleaseCommitHoldStep ==
    ASSUME IInv, NEW id \in Identity, NEW hold, ReleaseCommitHold(id, hold)
    PROVE  IInv'
<1>1. SoundX /\ Beliefs(promise) /\ Bookkeeping
  BY ExpireIInv
<1>2. CASE Refuse
  BY <1>2, RefuseStep
<1>3. CASE ~Refuse
  <2> DEFINE l == [activeLeaseX EXCEPT !.holdId = 0, !.holdExpiresAt = 0]
  <2>1. /\ Current(id)
        /\ Commit(waitersX, l, terminalX, promise, promise)
        /\ UNCHANGED <<nextOrdinal, fence, completedReleases, now, uuids>>
    BY <1>3 DEF ReleaseCommitHold
  <2>2. activeLeaseX \in Lease /\ activeLeaseX # NoLease
    BY <1>1, <2>1, CurrentLease
  <2>3. /\ l \in Lease /\ l.segmentId = activeLeaseX.segmentId
        /\ l.ordinal = activeLeaseX.ordinal /\ l.fence = activeLeaseX.fence
    BY <2>2 DEF Lease
  <2> HIDE DEF l
  <2>4. Sound(waitersX, l, terminalX, nextOrdinal, fence)
    BY <1>1, <2>2, <2>3, AdjustSound DEF SoundX
  <2>5. Sound(waitersX, l, terminalX, nextOrdinal', fence')
    BY <2>1, <2>4
  <2> QED BY <1>1, <2>1, <2>5, CommitStep DEF Bookkeeping
<1> QED BY <1>2, <1>3

LEMMA TickStep ==
    ASSUME IInv, Tick
    PROVE  IInv'
BY DEF Tick, IInv, Bookkeeping, SoundNow, Sound, Typed, Ordered, Closed

LEMMA Inductive ==
    ASSUME IInv, [Next]_vars
    PROVE  IInv'
<1>1. ASSUME NEW s \in Segments, NEW deadline \in 1..MaxTime, Enqueue(s, deadline)
      PROVE  IInv'
  BY <1>1, EnqueueStep
<1>2. ASSUME NEW requested \in Segments \cup {None}, Acquire(requested)
      PROVE  IInv'
  BY <1>2, AcquireStep
<1>3. ASSUME NEW s \in Segments, CancelSegment(s)
      PROVE  IInv'
  BY <1>3, CancelSegmentStep
<1>4. ASSUME NEW id \in DOMAIN promise, Call(id)
      PROVE  IInv'
  <2>1. id \in Identity
    BY DEF IInv, Bookkeeping
  <2> QED BY <1>4, <2>1, RenewStep, WitnessStep, ReleaseStep,
             ReleaseCompletedStep, CancelLeaseStep, RestoreCapacityBusyStep,
             BeginCommitHoldStep, ReleaseCommitHoldStep DEF Call
<1>5. CASE Alarm
  BY <1>5, RefuseStep DEF Alarm
<1>6. CASE Tick
  BY <1>6, TickStep
<1>7. CASE UNCHANGED vars
  BY <1>7 DEF vars, IInv, Bookkeeping, SoundNow, Sound, Typed, Ordered, Closed
<1> QED BY <1>1, <1>2, <1>3, <1>4, <1>5, <1>6, <1>7 DEF Next

LEMMA Initially == Init => IInv
<1> SUFFICES ASSUME Init PROVE IInv
  OBVIOUS
<1>1. Bookkeeping
  BY DEF Init, Bookkeeping
<1>2. SoundNow
  BY CoordinatorAssumption
  DEF Init, SoundNow, Sound, Typed, Ordered, Closed, NoLease, WaitersOf, Reasons
<1> QED BY <1>1, <1>2 DEF IInv

(* The invariant of the coordinator: persisted state is sound.             *)
THEOREM Invariant == Spec => []IInv
<1>1. Init => IInv
  BY Initially
<1>2. IInv /\ [Next]_vars => IInv'
  BY Inductive
<1> QED BY <1>1, <1>2, PTL DEF Spec

-----------------------------------------------------------------------------
(* Every state of the coordinator is well typed.                           *)
THEOREM TypeCorrect == Spec => []TypeOK
<1>1. IInv => TypeOK
  BY DEF IInv, Bookkeeping, SoundNow, Sound, Typed, TypeOK
<1> QED BY <1>1, Invariant, PTL

(* Nobody who waits came before the segment that is being served: GPU time *)
(* is granted first in, first out, whatever expires or is put back.        *)
THEOREM Fifo == Spec => []ServedInOrder
<1>1. IInv => ServedInOrder
  BY DEF IInv, SoundNow, Sound, Ordered, ServedInOrder
<1> QED BY <1>1, Invariant, PTL

(* No two places share an ordinal and no segment has two places: the same  *)
(* work is never queued twice or queued while it runs.                     *)
THEOREM UniquePlaces == Spec => []OnePlaceEach
<1>1. IInv => OnePlaceEach
  BY DEF IInv, SoundNow, Sound, Ordered, OnePlaceEach
<1> QED BY <1>1, Invariant, PTL

(* A segment that was cancelled, completed or expired is never again       *)
(* waiting or served.                                                      *)
THEOREM GoneForGood == Spec => []TerminalIsGone
<1>1. IInv => TerminalIsGone
  BY DEF IInv, SoundNow, Sound, Closed, TerminalIsGone
<1> QED BY <1>1, Invariant, PTL

-----------------------------------------------------------------------------
(* The limit of the queue. It may be exceeded by the one place that        *)
(* expire() gives back, and only while nobody is served.                   *)

Bounded(queue, lease) ==
    /\ IsFiniteSet(queue)
    /\ Cardinality(queue) <= Cap
    /\ lease # NoLease => Cardinality(queue) <= MaxQueueSize

LEMMA SmallerBounded ==
    ASSUME NEW q, NEW l, NEW q2, NEW l2, Bounded(q, l),
           q2 \subseteq q, l2 # NoLease => l # NoLease
    PROVE  Bounded(q2, l2)
<1>1. /\ IsFiniteSet(q2) /\ Cardinality(q2) <= Cardinality(q)
      /\ Cardinality(q2) \in Nat /\ Cardinality(q) \in Nat
  BY FS_Subset, FS_CardinalityType DEF Bounded
<1> QED BY <1>1, CoordinatorAssumption DEF Bounded, Cap

(* One place more, where there was room below the limit.                   *)
LEMMA OneMoreBounded ==
    ASSUME NEW q, NEW w, NEW l, IsFiniteSet(q), Cardinality(q) <= MaxQueueSize,
           l # NoLease => Cardinality(q) < MaxQueueSize
    PROVE  Bounded(q \cup {w}, l)
<1>1. /\ IsFiniteSet(q \cup {w}) /\ Cardinality(q) \in Nat
      /\ Cardinality(q \cup {w}) \in {Cardinality(q), Cardinality(q) + 1}
  BY FS_AddElement, FS_CardinalityType
<1> QED BY <1>1, CoordinatorAssumption DEF Bounded, Cap

LEMMA ExpireBounded ==
    ASSUME Bounded(waiters, activeLease)
    PROVE  Bounded(waitersX, activeLeaseX)
<1>1. CASE Lapsed /\ Reinstated # {}
  <2>1. activeLeaseX = NoLease /\ activeLease # NoLease
    BY <1>1 DEF activeLeaseX, Lapsed
  <2>2. Bounded(waiters \ Overdue, activeLease)
    BY SmallerBounded
  <2>3. waitersX = (waiters \ Overdue) \cup {Restored(activeLease)}
    BY <1>1 DEF waitersX, Reinstated
  <2> QED BY <2>1, <2>2, <2>3, OneMoreBounded DEF Bounded
<1>2. CASE ~(Lapsed /\ Reinstated # {})
  <2>1. waitersX \subseteq waiters
    BY <1>2 DEF waitersX, Reinstated
  <2>2. activeLeaseX # NoLease => activeLease # NoLease
    BY DEF activeLeaseX, HoldCleared, NoLease
  <2> QED BY <2>1, <2>2, SmallerBounded
<1> QED BY <1>1, <1>2

LEMMA CommitBounded ==
    ASSUME NEW q, NEW l, NEW r, NEW a, NEW u, Commit(q, l, r, a, u), Bounded(q, l)
    PROVE  Bounded(waiters, activeLease)'
BY DEF Commit, Bounded, Cap

(* Every step that adds a place looks at the limit or ends a lease.        *)
LEMMA BoundedInductive ==
    ASSUME Bounded(waiters, activeLease), [Next]_vars
    PROVE  Bounded(waiters, activeLease)'
<1>1. Bounded(waitersX, activeLeaseX)
  BY ExpireBounded
<1>2. CASE Refuse
  BY <1>1, <1>2, CommitBounded DEF Refuse
<1>3. ASSUME NEW s \in Segments, NEW deadline, Enqueue(s, deadline), ~Refuse
      PROVE  Bounded(waiters, activeLease)'
  <2>1. PICK w : /\ Commit(waitersX \cup {w}, activeLeaseX, terminalX, promise, promise)
                 /\ Cardinality(waitersX) < MaxQueueSize
    BY <1>3 DEF Enqueue
  <2>2. Cardinality(waitersX) \in Nat /\ IsFiniteSet(waitersX)
    BY <1>1, FS_CardinalityType DEF Bounded
  <2>3. Cardinality(waitersX) <= MaxQueueSize /\ Cardinality(waitersX) < MaxQueueSize
    <3> DEFINE size == Cardinality(waitersX)
    <3>1. size \in Nat /\ size < MaxQueueSize
      BY <2>1, <2>2
    <3> HIDE DEF size
    <3>2. size <= MaxQueueSize
      BY <3>1, CoordinatorAssumption
    <3> QED BY <3>1, <3>2 DEF size
  <2>4. Bounded(waitersX \cup {w}, activeLeaseX)
    BY <2>2, <2>3, OneMoreBounded
  <2> QED BY <2>1, <2>4, CommitBounded
<1>4. ASSUME NEW requested, Acquire(requested), ~Refuse
      PROVE  Bounded(waiters, activeLease)'
  <2>1. CASE Commit(waitersX \ Skipped, NoLease, terminalSkipped, promise, promise)
    BY <1>1, <2>1, SmallerBounded, CommitBounded
  <2>2. CASE \E w \in Live : Grant(w)
    <3>a. PICK w \in Live : Grant(w)
      BY <2>2
    <3>1. PICK l, a :
             Commit(waitersX \ (Skipped \cup {w}), l, terminalSkipped, a, promise)
      BY <3>a DEF Grant
    <3> DEFINE q == waitersX \ {w}
    <3>2. /\ IsFiniteSet(q) /\ Cardinality(q) = Cardinality(waitersX) - 1
          /\ Cardinality(waitersX) \in Nat
      BY <1>1, FS_RemoveElement, FS_CardinalityType DEF Live, Bounded
    <3>3. Bounded(q, l)
      BY <1>1, <3>2, CoordinatorAssumption DEF Bounded, Cap
    <3>4. waitersX \ (Skipped \cup {w}) \subseteq q
      OBVIOUS
    <3> HIDE DEF q
    <3>5. Bounded(waitersX \ (Skipped \cup {w}), l)
      BY <3>3, <3>4, SmallerBounded
    <3> QED BY <3>1, <3>5, CommitBounded
  <2> QED BY <1>4, <2>1, <2>2 DEF Acquire
<1>5. ASSUME NEW id, Call(id), ~Refuse
      PROVE  Bounded(waiters, activeLease)'
  <2>1. CASE RestoreCapacityBusy(id)
    <3>1. PICK w : \E q \in {waitersX, waitersX \cup {w}} :
                      Commit(q, NoLease, terminalX, GivenUp(id), GivenUp(id))
      <4> DEFINE back == IF Queued(id.segmentId) \/ terminalX[id.segmentId] # "none"
                         THEN {} ELSE {Restored(activeLeaseX)}
      <4>1. Commit(waitersX \cup back, NoLease, terminalX, GivenUp(id), GivenUp(id))
        BY <1>5, <2>1 DEF RestoreCapacityBusy
      <4>2. waitersX \cup back \in {waitersX, waitersX \cup {Restored(activeLeaseX)}}
        OBVIOUS
      <4> QED BY <4>1, <4>2
    <3>2. activeLeaseX # NoLease
      BY <1>5, <2>1 DEF RestoreCapacityBusy, Current
    <3>3. Bounded(waitersX \cup {w}, NoLease) /\ Bounded(waitersX, NoLease)
      BY <1>1, <3>2, OneMoreBounded DEF Bounded
    <3> QED BY <3>1, <3>3, CommitBounded
  <2>2. CASE ~RestoreCapacityBusy(id)
    <3>1. \/ Renew(id) \/ Witness(id) \/ Release(id) \/ ReleaseCompleted(id)
          \/ CancelLease(id) \/ BeginCommitHold(id)
          \/ \E hold \in 1..uuids : ReleaseCommitHold(id, hold)
      BY <1>5, <2>2 DEF Call
    <3>2. CASE ReleaseCompleted(id)
      <4>1. \E q \in {waiters, waitersX}, l \in {activeLease, NoLease} : \E r :
               /\ Commit(q, l, r, GivenUp(id), GivenUp(id))
               /\ q = waiters \/ l = NoLease
        BY <1>5, <3>2 DEF ReleaseCompleted
      <4>2. Bounded(waitersX, NoLease) /\ Bounded(waiters, NoLease)
        BY <1>1 DEF Bounded
      <4> QED BY <4>1, <4>2, CommitBounded
    <3>3. CASE Release(id) \/ CancelLease(id)
      <4>1. PICK r : Commit(Without(id), LeaseWithout(id), r, GivenUp(id), GivenUp(id))
        BY <1>5, <3>3 DEF Release, CancelLease
      <4>2. Without(id) \subseteq waitersX /\ LeaseWithout(id) \in {activeLeaseX, NoLease}
        BY DEF Without, LeaseWithout
      <4>3. Bounded(Without(id), LeaseWithout(id))
        BY <1>1, <4>2, SmallerBounded
      <4> QED BY <4>1, <4>3, CommitBounded
    <3>4. CASE \/ Renew(id) \/ Witness(id) \/ BeginCommitHold(id)
               \/ \E hold \in 1..uuids : ReleaseCommitHold(id, hold)
      <4>1. PICK l, a, u : Commit(waitersX, l, terminalX, a, u)
        BY <1>5, <3>4 DEF Renew, Witness, BeginCommitHold, ReleaseCommitHold
      <4>2. activeLeaseX # NoLease
        BY <1>5, <3>4 DEF Renew, Renewable, Witness, BeginCommitHold, ReleaseCommitHold, Current
      <4>3. Bounded(waitersX, l)
        BY <1>1, <4>2 DEF Bounded
      <4> QED BY <4>1, <4>3, CommitBounded
    <3> QED BY <3>1, <3>2, <3>3, <3>4
  <2> QED BY <2>1, <2>2
<1>6. ASSUME NEW s \in Segments, CancelSegment(s), ~Refuse
      PROVE  Bounded(waiters, activeLease)'
  <2>1. Bounded(waitersX \ WaitersOf(s, waitersX), activeLeaseX)
    BY <1>1, SmallerBounded
  <2> QED BY <1>6, <2>1, CommitBounded DEF CancelSegment
<1>7. CASE Tick \/ UNCHANGED vars
  BY <1>7 DEF Tick, vars, Bounded, Cap
<1> QED BY <1>2, <1>3, <1>4, <1>5, <1>6, <1>7 DEF Next, Alarm

(* The queue and the lease together never exceed the limit by more than    *)
(* one place, however long leases lapse, come back and are granted again.  *)
THEOREM LimitOfTheLine == Spec => []QueueIsBounded
<1>1. Init => Bounded(waiters, activeLease)
  BY FS_EmptySet, CoordinatorAssumption DEF Init, Bounded, Cap
<1>2. Bounded(waiters, activeLease) /\ [Next]_vars => Bounded(waiters, activeLease)'
  BY BoundedInductive
<1>3. Bounded(waiters, activeLease) => QueueIsBounded
  <2>1. Bounded(waiters, activeLease) => Cardinality(waiters) \in Nat
    BY FS_CardinalityType DEF Bounded
  <2> QED BY <2>1, CoordinatorAssumption DEF Bounded, QueueIsBounded, Cap
<1> QED BY <1>1, <1>2, <1>3, PTL DEF Spec

(* The line as a whole: served first in, first out, everybody in it once,  *)
(* nobody who is finished, and never longer than its limit allows.         *)
THEOREM OrderOfTheLine == Spec => []LineIsInOrder
BY Fifo, UniquePlaces, GoneForGood, LimitOfTheLine, PTL DEF LineIsInOrder

-----------------------------------------------------------------------------
(***************************************************************************)
(* What callers of the GPU lease coordinator may believe: a lease lasts    *)
(* until the time its holder was told, and fences order all leases ever    *)
(* granted. Both for every value of the constants.                         *)
(*                                                                         *)
(* Beliefs alone are not inductive. A renewal must not cut short a lease   *)
(* whose holder never got the last answer, so no lease may reach further   *)
(* than one lease duration from now; this is where the hold being no       *)
(* longer than a lease is needed.                                          *)
(***************************************************************************)

(* A lease never reaches further than a renewal would make it reach.       *)
Timed(lease) ==
    lease # NoLease => /\ lease.expiresAt <= now + LeaseDuration
                       /\ lease.expiresAt <= lease.deadlineAt

Kept(lease, p) ==
    \A id \in DOMAIN p :
        p[id] > now => /\ lease # NoLease
                       /\ IdentityOf(lease) = id
                       /\ lease.expiresAt >= p[id]

Fenced(p, newest) ==
    /\ \A id \in DOMAIN p : id.fence <= newest
    /\ \A i, j \in DOMAIN p : i.fence = j.fence => i = j

PInv ==
    /\ IInv
    /\ Timed(activeLease)
    /\ Kept(activeLease, promise)
    /\ Fenced(promise, fence)

-----------------------------------------------------------------------------
(* Expiry ends no lease whose time has not come.                           *)
LEMMA ExpireKept ==
    ASSUME PInv
    PROVE  /\ Timed(activeLeaseX)
           /\ Kept(activeLeaseX, promise)
<1>1. activeLease \in Lease \cup {NoLease} /\ now \in Nat
  BY DEF PInv, IInv, SoundNow, Sound, Typed, Bookkeeping
<1>2. promise \in [DOMAIN promise -> Nat]
  BY DEF PInv, IInv, Bookkeeping
<1>3. CASE activeLease = NoLease
  <2>1. activeLeaseX = NoLease
    BY <1>3 DEF activeLeaseX, HoldCleared, NoLease
  <2> QED BY <1>3, <2>1 DEF PInv, Timed, Kept
<1>4. CASE activeLease # NoLease
  <2>1. activeLease \in Lease /\ activeLease.expiresAt \in Nat
    BY <1>1, <1>4 DEF Lease
  <2>2. CASE Lapsed
    <3>1. activeLeaseX = NoLease
      BY <2>2 DEF activeLeaseX
    <3>2. \A id \in DOMAIN promise : ~(promise[id] > now)
      BY <1>1, <1>2, <2>1, <2>2 DEF Lapsed, PInv, Kept
    <3> QED BY <3>1, <3>2 DEF Timed, Kept
  <2>3. CASE ~Lapsed
    <3>1. activeLeaseX = HoldCleared(activeLease)
      BY <2>3 DEF activeLeaseX
    <3>2. /\ activeLeaseX.expiresAt = activeLease.expiresAt
          /\ activeLeaseX.deadlineAt = activeLease.deadlineAt
          /\ IdentityOf(activeLeaseX) = IdentityOf(activeLease)
          /\ activeLeaseX.segmentId = activeLease.segmentId
          /\ activeLeaseX \in Lease
      BY <2>1, <3>1, HoldClearedType
    <3>3. activeLeaseX # NoLease
      BY <1>4, <2>1, <3>2, NoLeaseIsNone
    <3> QED BY <1>4, <3>2, <3>3 DEF PInv, Timed, Kept
  <2> QED BY <2>2, <2>3
<1> QED BY <1>3, <1>4

(* At any time at most one caller believes it holds a lease, so what one   *)
(* caller is told contradicts nobody.                                      *)
LEMMA ToldKept ==
    ASSUME NEW l, NEW id, NEW until \in Nat, PInv,
           Kept(activeLeaseX, promise),
           l # NoLease, IdentityOf(l) = id, until <= l.expiresAt,
           activeLeaseX # NoLease => IdentityOf(activeLeaseX) = id
    PROVE  Kept(l, Told(id, until))
BY DEF Kept, Told, PInv, IInv, Bookkeeping

LEMMA GivenUpKept ==
    ASSUME NEW id, PInv, NEW l, Kept(l, promise)
    PROVE  /\ Kept(l, GivenUp(id))
           /\ IdentityOf(l) = id => \A m : Kept(m, GivenUp(id))
<1>1. now \in Nat
  BY DEF PInv, IInv, Bookkeeping
<1> QED BY <1>1 DEF Kept, GivenUp, Told

(* Beliefs about known leases keep the fences as they are.                 *)
LEMMA ToldFenced ==
    ASSUME NEW id \in DOMAIN promise, NEW until, NEW f, Fenced(promise, f)
    PROVE  Fenced(Told(id, until), f) /\ Fenced(GivenUp(id), f)
BY DEF Fenced, Told, GivenUp

LEMMA CommitKept ==
    ASSUME NEW q, NEW l, NEW r, NEW a, NEW u,
           Commit(q, l, r, a, u), IInv', now' = now,
           Timed(l), Kept(l, a), Kept(l, u),
           Fenced(a, fence'), Fenced(u, fence')
    PROVE  PInv'
BY DEF Commit, PInv, Timed, Kept, Fenced

LEMMA RefuseKept ==
    ASSUME PInv, Refuse
    PROVE  PInv'
<1>1. IInv'
  BY RefuseStep DEF PInv
<1> QED BY <1>1, ExpireKept, CommitKept DEF Refuse, PInv

LEMMA EnqueueKept ==
    ASSUME PInv, NEW s \in Segments, NEW deadline \in 1..MaxTime,
           Enqueue(s, deadline)
    PROVE  PInv'
<1>1. IInv'
  BY EnqueueStep DEF PInv
<1>2. CASE Refuse
  BY <1>2, RefuseKept
<1>3. CASE ~Refuse
  BY <1>1, <1>3, ExpireKept, CommitKept DEF Enqueue, PInv
<1> QED BY <1>2, <1>3

(* A new lease is granted only when nobody believes to hold one, under a   *)
(* fence nobody has seen.                                                  *)
LEMMA AcquireKept ==
    ASSUME PInv, NEW requested, Acquire(requested)
    PROVE  PInv'
<1>1. IInv'
  BY AcquireStep DEF PInv
<1>2. CASE Refuse
  BY <1>2, RefuseKept
<1>3. CASE /\ activeLeaseX = NoLease
           /\ Commit(waitersX \ Skipped, NoLease, terminalSkipped, promise, promise)
           /\ UNCHANGED <<nextOrdinal, fence, completedReleases, now, uuids>>
  BY <1>1, <1>3, ExpireKept, CommitKept DEF PInv
<1>4. CASE activeLeaseX = NoLease /\ \E w \in Live : Grant(w)
  <2>1. PICK w \in Live : Grant(w)
    BY <1>4
  <2> DEFINE l == LeaseFor(w, uuids + 1, fence + 1)
  <2>2. /\ Commit(waitersX \ (Skipped \cup {w}), l, terminalSkipped,
                  Told(IdentityOf(l), l.expiresAt), promise)
        /\ fence' = fence + 1 /\ now' = now
    BY <2>1 DEF Grant
  <2>3. w \in Waiter /\ now \in Nat /\ fence \in Nat
    BY ExpireIInv DEF PInv, Live, SoundX, Sound, Typed, Bookkeeping
  <2>4. /\ l.expiresAt \in Nat
        /\ l.expiresAt <= now + LeaseDuration
        /\ l.expiresAt <= l.deadlineAt
    BY <2>3, CoordinatorAssumption DEF LeaseFor, Lesser, Waiter
  <2>5. l # NoLease
    BY <2>3, CoordinatorAssumption DEF LeaseFor, Waiter, NoLease
  <2>6. IdentityOf(l).fence = fence + 1
    BY DEF LeaseFor, IdentityOf
  <2> HIDE DEF l
  <2>7. Timed(l)
    BY <2>4 DEF Timed
  <2>8. Kept(l, Told(IdentityOf(l), l.expiresAt))
    BY <1>4, <2>4, <2>5, ExpireKept, ToldKept
  <2>9. Kept(l, promise)
    BY <1>4, ExpireKept DEF Kept
  <2>10. \A id \in DOMAIN promise : id.fence \in Nat /\ id.fence <= fence
    BY DEF PInv, Fenced, IInv, Bookkeeping, Identity
  <2>11. Fenced(promise, fence')
    BY <2>2, <2>3, <2>10 DEF Fenced, PInv
  <2>12. Fenced(Told(IdentityOf(l), l.expiresAt), fence')
    BY <2>2, <2>3, <2>6, <2>10 DEF Fenced, PInv, Told
  <2> QED BY <1>1, <2>2, <2>7, <2>8, <2>9, <2>11, <2>12, CommitKept
<1> QED BY <1>2, <1>3, <1>4 DEF Acquire

-----------------------------------------------------------------------------
(* Calls with an identity.                                                 *)

LEMMA CurrentKept ==
    ASSUME PInv, NEW id, Current(id)
    PROVE  /\ activeLeaseX \in Lease
           /\ activeLeaseX # NoLease
           /\ IdentityOf(activeLeaseX) = id
           /\ activeLeaseX.expiresAt \in Nat
           /\ activeLeaseX.deadlineAt \in Nat
           /\ activeLeaseX.expiresAt <= now + LeaseDuration
           /\ activeLeaseX.expiresAt <= activeLeaseX.deadlineAt
<1>1. SoundX
  BY ExpireIInv DEF PInv
<1>2. activeLeaseX \in Lease /\ activeLeaseX # NoLease
  BY <1>1, CurrentLease
<1>3. IdentityOf(activeLeaseX) = id
  BY DEF Current
<1> QED BY <1>2, <1>3, ExpireKept DEF Timed, Lease

LEMMA RenewKept ==
    ASSUME PInv, NEW id \in DOMAIN promise, Renew(id)
    PROVE  PInv'
<1>1. IInv'
  BY RenewStep DEF PInv, IInv, Bookkeeping
<1>2. CASE Refuse
  BY <1>2, RefuseKept
<1>3. CASE ~Refuse
  <2> DEFINE until == Lesser(now + LeaseDuration, activeLeaseX.deadlineAt)
             l == [activeLeaseX EXCEPT !.expiresAt = until]
  <2>1. /\ Current(id)
        /\ Commit(waitersX, l, terminalX, Told(id, until), promise)
        /\ UNCHANGED <<nextOrdinal, fence, completedReleases, now, uuids>>
    BY <1>3 DEF Renew, Renewable
  <2>2. now \in Nat
    BY DEF PInv, IInv, Bookkeeping
  <2>3. /\ activeLeaseX \in Lease /\ activeLeaseX # NoLease
        /\ IdentityOf(activeLeaseX) = id
        /\ activeLeaseX.expiresAt \in Nat /\ activeLeaseX.deadlineAt \in Nat
        /\ activeLeaseX.expiresAt <= now + LeaseDuration
        /\ activeLeaseX.expiresAt <= activeLeaseX.deadlineAt
    BY <2>1, CurrentKept
  <2>4. /\ until \in Nat /\ until <= now + LeaseDuration
        /\ until <= activeLeaseX.deadlineAt /\ activeLeaseX.expiresAt <= until
    BY <2>2, <2>3, CoordinatorAssumption DEF Lesser
  <2>5. /\ l.expiresAt = until /\ l.deadlineAt = activeLeaseX.deadlineAt
        /\ IdentityOf(l) = id /\ l.segmentId = activeLeaseX.segmentId
    BY <2>3 DEF Lease, IdentityOf
  <2>6. l # NoLease
    BY <2>3, <2>5, NoLeaseIsNone DEF NoLease
  <2> HIDE DEF until, l
  <2>7. Timed(l)
    BY <2>4, <2>5 DEF Timed
  <2>8. Kept(l, Told(id, until))
    BY <2>3, <2>4, <2>5, <2>6, ExpireKept, ToldKept
  <2>9. Kept(l, promise)
    <3> SUFFICES ASSUME NEW i \in DOMAIN promise, promise[i] > now
                 PROVE  IdentityOf(l) = i /\ l.expiresAt >= promise[i]
      BY <2>6 DEF Kept
    <3>1. IdentityOf(activeLeaseX) = i /\ activeLeaseX.expiresAt >= promise[i]
      BY ExpireKept DEF Kept
    <3>2. promise[i] \in Nat
      BY DEF PInv, IInv, Bookkeeping
    <3> QED BY <2>3, <2>4, <2>5, <3>1, <3>2
  <2>10. Fenced(promise, fence') /\ Fenced(Told(id, until), fence')
    BY <2>1, ToldFenced DEF PInv
  <2> QED BY <1>1, <2>1, <2>7, <2>8, <2>9, <2>10, CommitKept
<1> QED BY <1>2, <1>3

LEMMA WitnessKept ==
    ASSUME PInv, NEW id \in DOMAIN promise, Witness(id)
    PROVE  PInv'
<1>1. IInv'
  BY WitnessStep DEF PInv, IInv, Bookkeeping
<1>2. CASE Refuse
  BY <1>2, RefuseKept
<1>3. CASE ~Refuse
  <2> DEFINE until == activeLeaseX.expiresAt
  <2>1. /\ Current(id)
        /\ Commit(waitersX, activeLeaseX, terminalX, Told(id, until), promise)
        /\ UNCHANGED <<nextOrdinal, fence, completedReleases, now, uuids>>
    BY <1>3 DEF Witness
  <2>2. /\ activeLeaseX # NoLease /\ IdentityOf(activeLeaseX) = id
        /\ until \in Nat
    BY <2>1, CurrentKept
  <2>3. Kept(activeLeaseX, Told(id, until))
    BY <2>2, ExpireKept, ToldKept
  <2>4. Fenced(promise, fence') /\ Fenced(Told(id, until), fence')
    BY <2>1, ToldFenced DEF PInv
  <2> QED BY <1>1, <2>1, <2>3, <2>4, ExpireKept, CommitKept
<1> QED BY <1>2, <1>3

(* Taking away the lease an identity names breaks no belief but its own,   *)
(* and that caller has just given it up.                                   *)
LEMMA WithoutKept ==
    ASSUME PInv, NEW id \in DOMAIN promise
    PROVE  /\ Timed(LeaseWithout(id))
           /\ Kept(LeaseWithout(id), GivenUp(id))
<1>1. CASE Current(id)
  <2>1. LeaseWithout(id) = NoLease /\ IdentityOf(activeLeaseX) = id
    BY <1>1 DEF LeaseWithout, Current
  <2> QED BY <2>1, ExpireKept, GivenUpKept DEF Timed
<1>2. CASE ~Current(id)
  <2>1. LeaseWithout(id) = activeLeaseX
    BY <1>2 DEF LeaseWithout
  <2> QED BY <2>1, ExpireKept, GivenUpKept
<1> QED BY <1>1, <1>2

LEMMA ReleaseKept ==
    ASSUME PInv, NEW id \in DOMAIN promise, Release(id)
    PROVE  PInv'
<1>1. IInv'
  BY ReleaseStep DEF PInv, IInv, Bookkeeping
<1>2. Fenced(GivenUp(id), fence')
  BY ToldFenced DEF Release, PInv
<1> QED BY <1>1, <1>2, WithoutKept, CommitKept DEF Release

LEMMA ReleaseCompletedKept ==
    ASSUME PInv, NEW id \in DOMAIN promise, ReleaseCompleted(id)
    PROVE  PInv'
<1>1. IInv'
  BY ReleaseCompletedStep DEF PInv, IInv, Bookkeeping
<1>2. CASE Refuse
  BY <1>2, RefuseKept
<1>3. CASE /\ Commit(waiters, activeLease, terminal, GivenUp(id), GivenUp(id))
           /\ UNCHANGED <<nextOrdinal, fence, completedReleases, now, uuids>>
  <2>1. Timed(activeLease) /\ Kept(activeLease, GivenUp(id))
    BY GivenUpKept DEF PInv
  <2>2. Fenced(GivenUp(id), fence')
    BY <1>3, ToldFenced DEF PInv
  <2> QED BY <1>1, <1>3, <2>1, <2>2, CommitKept
<1>4. CASE /\ Current(id)
           /\ Commit(waitersX, NoLease, Mark(id.segmentId, "completed"),
                     GivenUp(id), GivenUp(id))
           /\ UNCHANGED <<nextOrdinal, fence, now, uuids>>
  <2>1. LeaseWithout(id) = NoLease
    BY <1>4 DEF LeaseWithout
  <2>2. Fenced(GivenUp(id), fence')
    BY <1>4, ToldFenced DEF PInv
  <2>3. Timed(NoLease) /\ Kept(NoLease, GivenUp(id))
    BY <2>1, WithoutKept
  <2> QED BY <1>1, <1>4, <2>2, <2>3, CommitKept
<1> QED BY <1>2, <1>3, <1>4 DEF ReleaseCompleted

LEMMA CancelSegmentKept ==
    ASSUME PInv, NEW s \in Segments, CancelSegment(s)
    PROVE  PInv'
<1>1. IInv'
  BY CancelSegmentStep DEF PInv
<1>2. CASE Refuse
  BY <1>2, RefuseKept
<1>3. CASE ~Refuse
  BY <1>1, <1>3, ExpireKept, CommitKept DEF CancelSegment, PInv
<1> QED BY <1>2, <1>3

LEMMA CancelLeaseKept ==
    ASSUME PInv, NEW id \in DOMAIN promise, CancelLease(id)
    PROVE  PInv'
<1>1. IInv'
  BY CancelLeaseStep DEF PInv, IInv, Bookkeeping
<1>2. CASE Refuse
  BY <1>2, RefuseKept
<1>3. CASE ~Refuse
  <2>1. /\ Commit(Without(id), LeaseWithout(id), Mark(id.segmentId, "cancelled"),
                  GivenUp(id), GivenUp(id))
        /\ UNCHANGED <<nextOrdinal, fence, completedReleases, now, uuids>>
    BY <1>3 DEF CancelLease
  <2>2. Fenced(GivenUp(id), fence')
    BY <2>1, ToldFenced DEF PInv
  <2> QED BY <1>1, <2>1, <2>2, WithoutKept, CommitKept
<1> QED BY <1>2, <1>3

LEMMA RestoreCapacityBusyKept ==
    ASSUME PInv, NEW id \in DOMAIN promise, RestoreCapacityBusy(id)
    PROVE  PInv'
<1>1. IInv'
  BY RestoreCapacityBusyStep DEF PInv, IInv, Bookkeeping
<1>2. CASE Refuse
  BY <1>2, RefuseKept
<1>3. CASE ~Refuse
  <2> DEFINE q == waitersX \cup
                    (IF Queued(id.segmentId) \/ terminalX[id.segmentId] # "none"
                     THEN {} ELSE {Restored(activeLeaseX)})
  <2>1. /\ Current(id)
        /\ Commit(q, NoLease, terminalX, GivenUp(id), GivenUp(id))
        /\ UNCHANGED <<nextOrdinal, fence, completedReleases, now, uuids>>
    BY <1>3 DEF RestoreCapacityBusy
  <2> HIDE DEF q
  <2>2. LeaseWithout(id) = NoLease
    BY <2>1 DEF LeaseWithout
  <2>3. Fenced(GivenUp(id), fence')
    BY <2>1, ToldFenced DEF PInv
  <2>4. Timed(NoLease) /\ Kept(NoLease, GivenUp(id))
    BY <2>2, WithoutKept
  <2> QED BY <1>1, <2>1, <2>3, <2>4, CommitKept
<1> QED BY <1>2, <1>3

LEMMA BeginCommitHoldKept ==
    ASSUME PInv, NEW id \in DOMAIN promise, BeginCommitHold(id)
    PROVE  PInv'
<1>1. IInv'
  BY BeginCommitHoldStep DEF PInv
<1>2. CASE Refuse
  BY <1>2, RefuseKept
<1>3. CASE ~Refuse
  <2> DEFINE until == Lesser(now + CommitHoldDuration, activeLeaseX.deadlineAt)
             less == Lesser(promise[id], until)
             l == [activeLeaseX EXCEPT !.holdExpiresAt = until,
                                       !.expiresAt = until,
                                       !.holdId = uuids + 1]
  <2>1. /\ Current(id)
        /\ Commit(waitersX, l, terminalX, Told(id, until), Told(id, less))
        /\ UNCHANGED <<nextOrdinal, fence, completedReleases, now>>
    BY <1>3 DEF BeginCommitHold
  <2>2. now \in Nat /\ promise[id] \in Nat
    BY DEF PInv, IInv, Bookkeeping
  <2>3. /\ activeLeaseX \in Lease /\ activeLeaseX # NoLease
        /\ IdentityOf(activeLeaseX) = id /\ activeLeaseX.deadlineAt \in Nat
    BY <2>1, CurrentKept
  <2>4. /\ until \in Nat /\ until <= now + LeaseDuration
        /\ until <= activeLeaseX.deadlineAt
    BY <2>2, <2>3, CoordinatorAssumption DEF Lesser
  <2>5. less \in Nat /\ less <= until
    BY <2>2, <2>4 DEF Lesser
  <2>6. /\ l.expiresAt = until /\ l.deadlineAt = activeLeaseX.deadlineAt
        /\ IdentityOf(l) = id /\ l.segmentId = activeLeaseX.segmentId
    BY <2>3 DEF Lease, IdentityOf
  <2>7. l # NoLease
    BY <2>3, <2>6, NoLeaseIsNone DEF NoLease
  <2> HIDE DEF until, less, l
  <2>8. Timed(l)
    BY <2>4, <2>6 DEF Timed
  <2>9. Kept(l, Told(id, until))
    BY <2>3, <2>4, <2>6, <2>7, ExpireKept, ToldKept
  <2>10. Kept(l, Told(id, less))
    BY <2>3, <2>5, <2>6, <2>7, ExpireKept, ToldKept
  <2>11. Fenced(Told(id, until), fence') /\ Fenced(Told(id, less), fence')
    BY <2>1, ToldFenced DEF PInv
  <2> QED BY <1>1, <2>1, <2>8, <2>9, <2>10, <2>11, CommitKept
<1> QED BY <1>2, <1>3

LEMMA ReleaseCommitHoldKept ==
    ASSUME PInv, NEW id \in DOMAIN promise, NEW hold, ReleaseCommitHold(id, hold)
    PROVE  PInv'
<1>1. IInv'
  BY ReleaseCommitHoldStep DEF PInv, IInv, Bookkeeping
<1>2. CASE Refuse
  BY <1>2, RefuseKept
<1>3. CASE ~Refuse
  <2> DEFINE l == [activeLeaseX EXCEPT !.holdId = 0, !.holdExpiresAt = 0]
  <2>1. /\ Current(id)
        /\ Commit(waitersX, l, terminalX, promise, promise)
        /\ UNCHANGED <<nextOrdinal, fence, completedReleases, now, uuids>>
    BY <1>3 DEF ReleaseCommitHold
  <2>2. activeLeaseX \in Lease /\ activeLeaseX # NoLease
    BY <2>1, CurrentKept
  <2>3. /\ l.expiresAt = activeLeaseX.expiresAt
        /\ l.deadlineAt = activeLeaseX.deadlineAt
        /\ IdentityOf(l) = IdentityOf(activeLeaseX)
        /\ l.segmentId = activeLeaseX.segmentId
    BY <2>2 DEF Lease, IdentityOf
  <2>4. l # NoLease
    BY <2>2, <2>3, NoLeaseIsNone DEF NoLease
  <2> HIDE DEF l
  <2>5. Timed(l) /\ Kept(l, promise)
    BY <2>2, <2>3, <2>4, ExpireKept DEF Timed, Kept
  <2>6. Fenced(promise, fence')
    BY <2>1 DEF PInv
  <2> QED BY <1>1, <2>1, <2>5, <2>6, CommitKept
<1> QED BY <1>2, <1>3

LEMMA TickKept ==
    ASSUME PInv, Tick
    PROVE  PInv'
<1>1. IInv'
  BY TickStep DEF PInv
<1>2. now \in Nat /\ now' = now + 1 /\ promise \in [DOMAIN promise -> Nat]
  BY DEF Tick, PInv, IInv, Bookkeeping
<1>3. activeLease \in Lease \cup {NoLease} /\ UNCHANGED <<activeLease, promise, fence>>
  BY DEF Tick, PInv, IInv, SoundNow, Sound, Typed
<1>4. Timed(activeLease)'
  BY <1>2, <1>3, CoordinatorAssumption DEF PInv, Timed, Lease
<1>5. Kept(activeLease, promise)'
  BY <1>2, <1>3 DEF PInv, Kept
<1>6. Fenced(promise, fence)'
  BY <1>3 DEF PInv, Fenced
<1> QED BY <1>1, <1>4, <1>5, <1>6 DEF PInv

LEMMA PromiseInductive ==
    ASSUME PInv, [Next]_vars
    PROVE  PInv'
<1>1. ASSUME NEW id \in DOMAIN promise, Call(id)
      PROVE  PInv'
  BY <1>1, RenewKept, WitnessKept, ReleaseKept, ReleaseCompletedKept,
     CancelLeaseKept, RestoreCapacityBusyKept, BeginCommitHoldKept,
     ReleaseCommitHoldKept DEF Call
<1>2. CASE Alarm
  BY <1>2, RefuseKept DEF Alarm
<1>3. CASE UNCHANGED vars
  <2>1. IInv'
    BY <1>3, Inductive DEF PInv
  <2> QED BY <1>3, <2>1 DEF vars, PInv, Timed, Kept, Fenced
<1> QED BY <1>1, <1>2, <1>3, EnqueueKept, AcquireKept, CancelSegmentKept,
           TickKept DEF Next

LEMMA PromiseInitially == Init => PInv
BY Initially DEF Init, PInv, Timed, Kept, Fenced

THEOREM PromiseInvariant == Spec => []PInv
<1>1. Init => PInv
  BY PromiseInitially
<1>2. PInv /\ [Next]_vars => PInv'
  BY PromiseInductive
<1> QED BY <1>1, <1>2, PTL DEF Spec

-----------------------------------------------------------------------------
(* A caller that was told it holds the GPU until some time, and did not    *)
(* give it up, holds it until then - whatever other callers, stale         *)
(* identities, evictions and expiries do in the meantime.                  *)
THEOREM LeasesLast == Spec => []PromisesAreKept
<1>1. PInv => PromisesAreKept
  BY DEF PInv, Kept, PromisesAreKept
<1> QED BY <1>1, PromiseInvariant, PTL

(* The lease in force carries the newest fence ever issued, and no two     *)
(* leases were ever given the same: a storage authority may order them.    *)
THEOREM FencesOrderLeases == Spec => []FenceIsNewest
<1>1. PInv => FenceIsNewest
  BY DEF PInv, Fenced, IInv, SoundNow, Sound, FenceIsNewest
<1> QED BY <1>1, PromiseInvariant, PTL

-----------------------------------------------------------------------------
(***************************************************************************)
(* Whatever answers to a lease identity answers to the newest one its      *)
(* segment was ever told, for every value of the constants: the place a    *)
(* lost lease gave back, and the receipt of a completed one.               *)
(*                                                                         *)
(* Two facts carry the proof. When a place comes back its lease was the    *)
(* one in force, and so had the newest fence of all. And a newer identity  *)
(* of a segment arises only when a waiter of that segment is granted the   *)
(* GPU, which takes its place away and happens to no finished segment.     *)
(***************************************************************************)

(* A place that was put back answers to the newest identity in p.          *)
LatestPlaces(queue, p) ==
    \A w \in queue : w.restoredFrom # NoIdentity =>
        /\ w.restoredFrom.segmentId = w.segmentId
        /\ \A id \in DOMAIN p :
              id.segmentId = w.segmentId => id.fence <= w.restoredFrom.fence

LatestReceipts(releases, reasons, p) ==
    \A s \in Segments : releases[s] # NoIdentity =>
        /\ reasons[s] = "completed"
        /\ \A id \in DOMAIN p : id.segmentId = s => id.fence <= releases[s].fence

OInv ==
    /\ PInv
    /\ LatestPlaces(waiters, promise)
    /\ LatestReceipts(completedReleases, terminal, promise)

(* A reason that was recorded stays.                                       *)
Final(reasons) ==
    \A s \in Segments : terminal[s] # "none" => reasons[s] = terminal[s]

-----------------------------------------------------------------------------
(* A place that comes back from the lease in force answers to the newest   *)
(* identity of all.                                                        *)
LEMMA RestoredLatest ==
    ASSUME PInv, NEW l \in Lease, l.fence = fence
    PROVE  LatestPlaces({Restored(l)}, promise)
BY DEF LatestPlaces, Restored, IdentityOf, PInv, Fenced

LEMMA ExpireLatest ==
    ASSUME OInv
    PROVE  LatestPlaces(waitersX, promise) /\ Final(terminalX)
<1>1. \A w \in Reinstated : LatestPlaces({w}, promise)
  <2>1. CASE Reinstated = {}
    BY <2>1
  <2>2. CASE Reinstated = {Restored(activeLease)} /\ activeLease # NoLease
    <3>1. activeLease \in Lease /\ activeLease.fence = fence
      BY <2>2 DEF OInv, PInv, IInv, SoundNow, Sound, Typed
    <3> QED BY <2>2, <3>1, RestoredLatest DEF OInv
  <2> QED BY <2>1, <2>2 DEF Reinstated, Lapsed
<1>2. LatestPlaces(waitersX, promise)
  BY <1>1 DEF waitersX, OInv, LatestPlaces
<1>3. Final(terminalX)
  BY DEF Final, terminalX
<1> QED BY <1>2, <1>3

LEMMA MarkFinal ==
    ASSUME OInv, NEW s, NEW reason
    PROVE  Final(Mark(s, reason))
<1>1. terminalX = [t \in Segments |-> terminalX[t]]
  BY DEF terminalX
<1> QED BY <1>1, ExpireLatest DEF Final, Mark

LEMMA SkippedFinal ==
    ASSUME OInv
    PROVE  Final(terminalSkipped)
BY ExpireLatest DEF Final, terminalSkipped

(* The general step: no new identity, no new receipt.                      *)
LEMMA CommitLatest ==
    ASSUME OInv, PInv', NEW q, NEW l, NEW r, NEW a, NEW u,
           Commit(q, l, r, a, u),
           DOMAIN a = DOMAIN promise, DOMAIN u = DOMAIN promise,
           LatestPlaces(q, promise), Final(r),
           completedReleases' = completedReleases
    PROVE  OInv'
<1>1. waiters' = q /\ terminal' = r /\ DOMAIN promise' = DOMAIN promise
  BY DEF Commit
<1>2. LatestPlaces(waiters, promise)'
  BY <1>1 DEF LatestPlaces
<1>3. LatestReceipts(completedReleases, terminal, promise)'
  BY <1>1 DEF LatestReceipts, OInv, Final
<1> QED BY <1>2, <1>3 DEF OInv

LEMMA ToldDomain ==
    ASSUME NEW id \in DOMAIN promise, NEW until
    PROVE  DOMAIN Told(id, until) = DOMAIN promise /\ DOMAIN GivenUp(id) = DOMAIN promise
BY DEF Told, GivenUp

LEMMA RefuseLatest ==
    ASSUME OInv, PInv', Refuse
    PROVE  OInv'
BY ExpireLatest, CommitLatest DEF Refuse

LEMMA EnqueueLatest ==
    ASSUME OInv, PInv', NEW s \in Segments, NEW deadline \in 1..MaxTime,
           Enqueue(s, deadline)
    PROVE  OInv'
<1>1. CASE Refuse
  BY <1>1, RefuseLatest
<1>2. CASE ~Refuse
  <2> DEFINE w == [segmentId |-> s, deadlineAt |-> deadline,
                   ordinal |-> nextOrdinal + 1, restoredFrom |-> NoIdentity]
  <2>1. /\ Commit(waitersX \cup {w}, activeLeaseX, terminalX, promise, promise)
        /\ completedReleases' = completedReleases
    BY <1>2 DEF Enqueue
  <2>2. w.restoredFrom = NoIdentity
    OBVIOUS
  <2> HIDE DEF w
  <2>3. LatestPlaces(waitersX \cup {w}, promise)
    BY <2>2, ExpireLatest DEF LatestPlaces
  <2> QED BY <2>1, <2>3, ExpireLatest, CommitLatest
<1> QED BY <1>1, <1>2

(* A grant names a new identity, of a segment that then has no place and   *)
(* no receipt.                                                             *)
LEMMA GrantLatest ==
    ASSUME OInv, PInv', NEW w \in Live, Grant(w)
    PROVE  OInv'
<1> DEFINE l == LeaseFor(w, uuids + 1, fence + 1)
<1>1. /\ Commit(waitersX \ (Skipped \cup {w}), l, terminalSkipped,
                Told(IdentityOf(l), l.expiresAt), promise)
      /\ completedReleases' = completedReleases
  BY DEF Grant
<1>2. IdentityOf(l).segmentId = w.segmentId
  BY DEF IdentityOf, LeaseFor
<1> HIDE DEF l
<1>3. /\ waiters' \subseteq waitersX \ {w}
      /\ terminal' = terminalSkipped
      /\ \A id \in DOMAIN promise' :
            id \in DOMAIN promise \/ id.segmentId = w.segmentId
  BY <1>1, <1>2 DEF Commit, Told
<1>4. SoundX
  BY ExpireIInv DEF OInv, PInv
<1>5. \A v \in waiters' : v.segmentId # w.segmentId
  BY <1>3, <1>4 DEF SoundX, Sound, Ordered, Live
<1>6. LatestPlaces(waiters, promise)'
  BY <1>3, <1>5, ExpireLatest DEF LatestPlaces
<1>7. ASSUME NEW s \in Segments, completedReleases[s] # NoIdentity
      PROVE  terminal[s] = "completed" /\ w.segmentId # s
  <2>1. terminal[s] = "completed"
    BY <1>7 DEF OInv, LatestReceipts
  <2>2. terminalX[s] # "none"
    BY <2>1, ExpireLatest DEF Final
  <2>3. WaitersOf(s, waitersX) = {}
    BY <1>4, <2>2 DEF SoundX, Sound, Closed
  <2> QED BY <2>1, <2>3 DEF WaitersOf, Live
<1>8. LatestReceipts(completedReleases, terminal, promise)'
  BY <1>1, <1>3, <1>7, SkippedFinal DEF LatestReceipts, OInv, Final
<1> QED BY <1>6, <1>8 DEF OInv

LEMMA AcquireLatest ==
    ASSUME OInv, PInv', NEW requested, Acquire(requested)
    PROVE  OInv'
<1>1. CASE Refuse
  BY <1>1, RefuseLatest
<1>2. CASE /\ Commit(waitersX \ Skipped, NoLease, terminalSkipped, promise, promise)
           /\ UNCHANGED <<nextOrdinal, fence, completedReleases, now, uuids>>
  <2>1. LatestPlaces(waitersX \ Skipped, promise)
    BY ExpireLatest DEF LatestPlaces
  <2> QED BY <1>2, <2>1, SkippedFinal, CommitLatest
<1>3. CASE \E w \in Live : Grant(w)
  BY <1>3, GrantLatest
<1> QED BY <1>1, <1>2, <1>3 DEF Acquire

-----------------------------------------------------------------------------
(* Calls with an identity the caller was told.                             *)

LEMMA AdjustLatest ==
    ASSUME OInv, PInv', NEW id \in DOMAIN promise,
           Renew(id) \/ Witness(id) \/ BeginCommitHold(id)
             \/ \E hold \in 1..uuids : ReleaseCommitHold(id, hold)
    PROVE  OInv'
<1>1. CASE Refuse
  BY <1>1, RefuseLatest
<1>2. CASE ~Refuse
  <2>1. PICK l, a, u :
           /\ Commit(waitersX, l, terminalX, a, u)
           /\ DOMAIN a = DOMAIN promise /\ DOMAIN u = DOMAIN promise
           /\ completedReleases' = completedReleases
    BY <1>2, ToldDomain DEF Renew, Witness, BeginCommitHold, ReleaseCommitHold
  <2> QED BY <2>1, ExpireLatest, CommitLatest
<1> QED BY <1>1, <1>2

LEMMA WithoutLatest ==
    ASSUME OInv, NEW id
    PROVE  LatestPlaces(Without(id), promise)
BY ExpireLatest DEF Without, LatestPlaces

LEMMA ReleaseLatest ==
    ASSUME OInv, PInv', NEW id \in DOMAIN promise, Release(id)
    PROVE  OInv'
BY WithoutLatest, ToldDomain, ExpireLatest, CommitLatest DEF Release

(* The receipt of a completed lease names the newest identity of all.      *)
LEMMA ReleaseCompletedLatest ==
    ASSUME OInv, PInv', NEW id \in DOMAIN promise, ReleaseCompleted(id)
    PROVE  OInv'
<1>1. CASE Refuse
  BY <1>1, RefuseLatest
<1>2. CASE /\ Commit(waiters, activeLease, terminal, GivenUp(id), GivenUp(id))
           /\ UNCHANGED <<nextOrdinal, fence, completedReleases, now, uuids>>
  BY <1>2, ToldDomain, CommitLatest DEF OInv, Final
<1>3. CASE /\ Current(id)
           /\ completedReleases' = [completedReleases EXCEPT ![id.segmentId] = id]
           /\ Commit(waitersX, NoLease, Mark(id.segmentId, "completed"),
                     GivenUp(id), GivenUp(id))
  <2>1. id \in Identity
    BY DEF OInv, PInv, IInv, Bookkeeping
  <2>2. SoundX
    BY ExpireIInv DEF OInv, PInv
  <2>3. id.fence = fence /\ activeLeaseX.segmentId = id.segmentId
    BY <1>3, <2>2, CurrentLease DEF SoundX, Sound, Current, IdentityOf
  <2>4. terminalX[id.segmentId] = "none"
    BY <2>1, <2>2, <2>3 DEF SoundX, Sound, Closed, Identity
  <2>5. terminalX = [t \in Segments |-> terminalX[t]]
    BY DEF terminalX
  <2>6. Mark(id.segmentId, "completed")[id.segmentId] = "completed"
    BY <2>1, <2>4, <2>5 DEF Mark, Identity
  <2>7. /\ waiters' = waitersX /\ DOMAIN promise' = DOMAIN promise
        /\ terminal' = Mark(id.segmentId, "completed")
    BY <1>3, ToldDomain DEF Commit
  <2>8. \A i \in DOMAIN promise : i.fence <= id.fence
    BY <2>3 DEF OInv, PInv, Fenced
  <2>9. completedReleases \in [Segments -> Identity \cup {NoIdentity}]
    BY DEF OInv, PInv, IInv, Bookkeeping
  <2>10. \A s \in Segments :
            completedReleases'[s] = IF s = id.segmentId THEN id ELSE completedReleases[s]
    BY <1>3, <2>9
  <2>11. LatestPlaces(waiters, promise)'
    BY <2>7, ExpireLatest DEF LatestPlaces
  <2>12. LatestReceipts(completedReleases, terminal, promise)'
    <3> SUFFICES ASSUME NEW s \in Segments, completedReleases'[s] # NoIdentity
                 PROVE  /\ terminal'[s] = "completed"
                        /\ \A i \in DOMAIN promise :
                              i.segmentId = s => i.fence <= completedReleases'[s].fence
      BY <2>7 DEF LatestReceipts
    <3>1. CASE s = id.segmentId
      BY <3>1, <2>6, <2>7, <2>8, <2>10
    <3>2. CASE s # id.segmentId
      BY <3>2, <2>7, <2>10, MarkFinal DEF OInv, LatestReceipts, Final
    <3> QED BY <3>1, <3>2
  <2> QED BY <2>11, <2>12 DEF OInv
<1> QED BY <1>1, <1>2, <1>3 DEF ReleaseCompleted

LEMMA CancelLatest ==
    ASSUME OInv, PInv',
           \/ \E s \in Segments : CancelSegment(s)
           \/ \E id \in DOMAIN promise : CancelLease(id)
    PROVE  OInv'
<1>1. CASE Refuse
  BY <1>1, RefuseLatest
<1>2. ASSUME NEW s \in Segments, CancelSegment(s), ~Refuse
      PROVE  OInv'
  <2>1. LatestPlaces(waitersX \ WaitersOf(s, waitersX), promise)
    BY ExpireLatest DEF LatestPlaces
  <2> QED BY <1>2, <2>1, MarkFinal, CommitLatest DEF CancelSegment
<1>3. ASSUME NEW id \in DOMAIN promise, CancelLease(id), ~Refuse
      PROVE  OInv'
  BY <1>3, WithoutLatest, ToldDomain, MarkFinal, CommitLatest DEF CancelLease
<1> QED BY <1>1, <1>2, <1>3

LEMMA RestoreCapacityBusyLatest ==
    ASSUME OInv, PInv', NEW id \in DOMAIN promise, RestoreCapacityBusy(id)
    PROVE  OInv'
<1>1. CASE Refuse
  BY <1>1, RefuseLatest
<1>2. CASE ~Refuse
  <2> DEFINE back == IF Queued(id.segmentId) \/ terminalX[id.segmentId] # "none" THEN {}
                     ELSE {Restored(activeLeaseX)}
  <2>1. /\ Current(id)
        /\ Commit(waitersX \cup back, NoLease, terminalX, GivenUp(id), GivenUp(id))
        /\ completedReleases' = completedReleases
    BY <1>2 DEF RestoreCapacityBusy
  <2>2. back \subseteq {Restored(activeLeaseX)}
    OBVIOUS
  <2> HIDE DEF back
  <2>3. activeLeaseX \in Lease /\ activeLeaseX.fence = fence
    BY <2>1, ExpireIInv, CurrentLease DEF OInv, PInv, SoundX, Sound
  <2>4. LatestPlaces({Restored(activeLeaseX)}, promise)
    BY <2>3, RestoredLatest DEF OInv
  <2>5. LatestPlaces(waitersX \cup back, promise)
    BY <2>2, <2>4, ExpireLatest DEF LatestPlaces
  <2> QED BY <2>1, <2>5, ToldDomain, ExpireLatest, CommitLatest
<1> QED BY <1>1, <1>2

-----------------------------------------------------------------------------
LEMMA IdentityInductive ==
    ASSUME OInv, [Next]_vars
    PROVE  OInv'
<1>1. PInv'
  BY PromiseInductive DEF OInv
<1>2. ASSUME NEW id \in DOMAIN promise, Call(id)
      PROVE  OInv'
  BY <1>1, <1>2, AdjustLatest, ReleaseLatest, ReleaseCompletedLatest, CancelLatest,
     RestoreCapacityBusyLatest DEF Call
<1>3. CASE Alarm
  BY <1>1, <1>3, RefuseLatest DEF Alarm
<1>4. CASE Tick \/ UNCHANGED vars
  BY <1>1, <1>4 DEF Tick, vars, OInv, LatestPlaces, LatestReceipts
<1> QED BY <1>1, <1>2, <1>3, <1>4, EnqueueLatest, AcquireLatest, CancelLatest DEF Next

THEOREM IdentityInvariant == Spec => []OInv
<1>1. Init => OInv
  BY PromiseInitially DEF Init, OInv, LatestPlaces, LatestReceipts
<1>2. OInv /\ [Next]_vars => OInv'
  BY IdentityInductive
<1> QED BY <1>1, <1>2, PTL DEF Spec

-----------------------------------------------------------------------------
(* The lease in force, a place that was put back and a receipt answer to   *)
(* the newest identity their segment was ever told, whatever was evicted,  *)
(* repeated or delayed: older identities are without effect.               *)
THEOREM NewestIdentityOnly == Spec => []IdentitiesAreOrdered
<1>1. OInv => FenceIsNewest
  BY DEF OInv, PInv, Fenced, IInv, SoundNow, Sound, FenceIsNewest
<1>2. OInv => RestoredFromLatest /\ ReceiptIsLast
  BY DEF OInv, LatestPlaces, LatestReceipts, RestoredFromLatest, ReceiptIsLast
<1> QED BY <1>1, <1>2, IdentityInvariant, PTL DEF IdentitiesAreOrdered

-----------------------------------------------------------------------------
(***************************************************************************)
(* The coordinator implements the lock: every transaction, expiry          *)
(* included, is one step of FencedFifoLock or none.                        *)
(*                                                                         *)
(* An entry of the lock is a place: a segment and its ordinal, whether it  *)
(* waits, is served, or is given back. All operations but two only take    *)
(* places away (Stays); the newcomer gets an ordinal larger than all, and  *)
(* a grant moves the fence when the lease before it has lapsed, so that    *)
(* its place was given back by expire() in the same transaction.           *)
(***************************************************************************)

EntryOf(place) == [segmentId |-> place.segmentId, ticket |-> place.ordinal]

InLine(queue, lease) ==
    {EntryOf(w) : w \in queue} \cup ({EntryOf(lease)} \ {Lock!NoEntry})

(* Nobody joins, nobody new is served, no reason is taken back.            *)
Stays(queue, lease, reasons) ==
    /\ InLine(queue, lease) \subseteq InLine(waiters, activeLease)
    /\ EntryOf(lease) \in {EntryOf(activeLease), Lock!NoEntry}
    /\ Final(reasons)

LEMMA LockEntries ==
    /\ Lock!Present = InLine(waiters, activeLease)
    /\ Lock!Present' = InLine(waiters', activeLease')
BY DEF Lock!Present, Lock!NoEntry, InLine, EntryOf

LEMMA RestoredEntry ==
    ASSUME NEW l
    PROVE  EntryOf(Restored(l)) = EntryOf(l)
BY DEF EntryOf, Restored

LEMMA NoLeaseEntry ==
    ASSUME NEW l \in Lease \cup {NoLease}
    PROVE  EntryOf(l) = Lock!NoEntry <=> l = NoLease
<1>1. EntryOf(NoLease) = Lock!NoEntry
  BY DEF EntryOf, Lock!NoEntry, NoLease
<1>2. EntryOf(l) = Lock!NoEntry => l.segmentId = None
  BY DEF EntryOf, Lock!NoEntry
<1> QED BY <1>1, <1>2, NoLeaseIsNone

(* A lease that lapses leaves its place behind, or has lost it.            *)
LEMMA ExpireStays ==
    ASSUME OInv
    PROVE  Stays(waitersX, activeLeaseX, terminalX)
<1>1. activeLease \in Lease \cup {NoLease}
  BY DEF OInv, PInv, IInv, SoundNow, Sound, Typed
<1>2. CASE Lapsed
  <2>1. activeLeaseX = NoLease /\ EntryOf(NoLease) = Lock!NoEntry
    BY <1>2, NoLeaseEntry DEF activeLeaseX
  <2>2. waitersX \subseteq waiters \cup {Restored(activeLease)}
    BY DEF waitersX, Reinstated
  <2>3. EntryOf(activeLease) # Lock!NoEntry
    BY <1>1, <1>2, NoLeaseEntry DEF Lapsed
  <2> QED BY <2>1, <2>2, <2>3, RestoredEntry, ExpireLatest DEF Stays, InLine
<1>3. CASE ~Lapsed
  <2>1. waitersX \subseteq waiters
    BY <1>3 DEF waitersX, Reinstated
  <2>2. activeLeaseX = HoldCleared(activeLease)
    BY <1>3 DEF activeLeaseX
  <2>3. EntryOf(HoldCleared(activeLease)) = EntryOf(activeLease)
    <3>1. CASE activeLease \in Lease
      BY <3>1, HoldClearedType DEF EntryOf
    <3>2. CASE activeLease = NoLease
      BY <3>2 DEF HoldCleared, NoLease
    <3> QED BY <1>1, <3>1, <3>2
  <2> QED BY <2>1, <2>2, <2>3, ExpireLatest DEF Stays, InLine
<1> QED BY <1>2, <1>3

(* From the expired state on, whoever takes places away only does that.    *)
LEMMA FewerStays ==
    ASSUME OInv, NEW q, NEW l, NEW r,
           InLine(q, l) \subseteq InLine(waitersX, activeLeaseX),
           EntryOf(l) \in {EntryOf(activeLeaseX), Lock!NoEntry},
           Final(r)
    PROVE  Stays(q, l, r)
BY ExpireStays DEF Stays

LEMMA FewerInLine ==
    ASSUME NEW q, NEW l, NEW p, NEW k, q \subseteq p,
           EntryOf(l) \in {EntryOf(k), Lock!NoEntry}
    PROVE  InLine(q, l) \subseteq InLine(p, k)
BY DEF InLine

-----------------------------------------------------------------------------
(* Whoever is finished stays finished and has no place.                    *)
LEMMA LockRetires ==
    ASSUME OInv, OInv', Final(terminal')
    PROVE  Lock!Retire
<1>1. Lock!Present' = InLine(waiters', activeLease')
  BY LockEntries
<1>2. Closed(waiters', activeLease', terminal')
  BY DEF OInv, PInv, IInv, SoundNow, Sound, Closed
<1>3. \A e \in InLine(waiters', activeLease') :
         \A s \in Segments : terminal'[s] # "none" => e.segmentId # s
  BY <1>2 DEF InLine, EntryOf, Closed, WaitersOf
<1>4. \A s \in Segments : terminal[s] # "none" => terminal'[s] # "none"
  BY DEF Final
<1> QED BY <1>1, <1>3, <1>4 DEF Lock!Retire

LEMMA LockStays ==
    ASSUME OInv, OInv', NEW q, NEW l, NEW r, NEW a, NEW u,
           Commit(q, l, r, a, u), Stays(q, l, r),
           UNCHANGED <<nextOrdinal, fence>>
    PROVE  Lock!LockNext
<1>1. waiters' = q /\ activeLease' = l /\ terminal' = r
  BY DEF Commit
<1>2. Lock!KeepPlaces
  BY <1>1, LockEntries DEF Stays, Lock!KeepPlaces
<1>3. Lock!Serve
  BY <1>1 DEF Stays, EntryOf, Lock!Serve, Lock!NoEntry
<1>4. Lock!Retire
  BY <1>1, LockRetires DEF Stays
<1> QED BY <1>2, <1>3, <1>4 DEF Lock!LockNext

LEMMA LockRefuses ==
    ASSUME OInv, OInv', Refuse
    PROVE  Lock!LockNext
BY ExpireStays, LockStays DEF Refuse

-----------------------------------------------------------------------------
(* The operations.                                                         *)

(* A newcomer's ordinal is larger than that of everybody in line.          *)
LEMMA LockEnqueue ==
    ASSUME OInv, OInv', NEW s \in Segments, NEW deadline, Enqueue(s, deadline)
    PROVE  Lock!LockNext
<1>1. CASE Refuse
  BY <1>1, LockRefuses
<1>2. CASE ~Refuse
  <2> DEFINE new == [segmentId |-> s, deadlineAt |-> deadline,
                     ordinal |-> nextOrdinal + 1, restoredFrom |-> NoIdentity]
  <2> DEFINE e == [segmentId |-> s, ticket |-> nextOrdinal + 1]
  <2>1. /\ Commit(waitersX \cup {new}, activeLeaseX, terminalX, promise, promise)
        /\ nextOrdinal' = nextOrdinal + 1
        /\ fence' = fence
    BY <1>2 DEF Enqueue
  <2>2. EntryOf(new) = e
    BY DEF EntryOf
  <2>3. /\ waiters' = waitersX \cup {new}
        /\ activeLease' = activeLeaseX
        /\ terminal' = terminalX
    BY <2>1 DEF Commit
  <2> HIDE DEF new
  <2>4. InLine(waiters', activeLease') = InLine(waitersX, activeLeaseX) \cup {e}
    BY <2>2, <2>3 DEF InLine
  <2>5. e \notin InLine(waiters, activeLease)
    <3>1. nextOrdinal \in Nat
      BY DEF OInv, PInv, IInv, Bookkeeping
    <3>2. /\ waiters \subseteq Waiter
          /\ activeLease \in Lease \cup {NoLease}
          /\ \A w \in waiters : w.ordinal <= nextOrdinal
          /\ activeLease.ordinal <= nextOrdinal
      BY DEF OInv, PInv, IInv, SoundNow, Sound, Typed, Ordered
    <3>3. \A w \in waiters : w.ordinal # nextOrdinal + 1
      BY <3>1, <3>2 DEF Waiter
    <3>4. activeLease.ordinal # nextOrdinal + 1
      BY <3>1, <3>2 DEF Lease, NoLease
    <3> QED BY <3>3, <3>4 DEF InLine, EntryOf
  <2>6. Lock!KeepPlaces
    <3>1. Lock!Present' \ Lock!Present = {e}
      BY <2>4, <2>5, ExpireStays, LockEntries DEF Stays
    <3> QED BY <2>1, <3>1 DEF Lock!KeepPlaces
  <2>7. Lock!Serve
    BY <2>1, <2>3, ExpireStays DEF Stays, EntryOf, Lock!Serve, Lock!NoEntry
  <2>8. Lock!Retire
    BY <2>3, ExpireLatest, LockRetires
  <2> QED BY <2>6, <2>7, <2>8 DEF Lock!LockNext
<1> QED BY <1>1, <1>2

(* A holder is replaced only after its lease lapsed: then expire() has     *)
(* given its place back, and it stands in line, is served again, or its    *)
(* deadline passed.                                                        *)
LEMMA LockGrant ==
    ASSUME OInv, OInv', NEW w \in Live, activeLeaseX = NoLease, Grant(w)
    PROVE  Lock!LockNext
<1> DEFINE l == LeaseFor(w, uuids + 1, fence + 1)
<1>1. /\ Commit(waitersX \ (Skipped \cup {w}), l, terminalSkipped,
                Told(IdentityOf(l), l.expiresAt), promise)
      /\ fence' = fence + 1
      /\ nextOrdinal' = nextOrdinal
  BY DEF Grant
<1>2. EntryOf(l) = EntryOf(w)
  BY DEF EntryOf, LeaseFor
<1> HIDE DEF l
<1>3. /\ waiters' = waitersX \ (Skipped \cup {w})
      /\ activeLease' = l
      /\ terminal' = terminalSkipped
  BY <1>1 DEF Commit
<1>4. w \in waitersX /\ w \in Waiter
  BY ExpireIInv DEF Live, OInv, PInv, SoundX, Sound, Typed
<1>5. EntryOf(w) # Lock!NoEntry
  BY <1>4, CoordinatorAssumption DEF EntryOf, Lock!NoEntry, Waiter
<1>6. InLine(waiters', activeLease') =
         {EntryOf(v) : v \in waitersX \ Skipped} \cup {EntryOf(w)}
  BY <1>2, <1>3, <1>5 DEF InLine
<1>7. Lock!KeepPlaces
  <2>1. InLine(waiters', activeLease') \subseteq InLine(waitersX, activeLeaseX)
    BY <1>4, <1>6 DEF InLine
  <2> QED BY <1>1, <2>1, ExpireStays, LockEntries DEF Stays, Lock!KeepPlaces
<1>8. Lock!Retire
  BY <1>3, SkippedFinal, LockRetires
<1>9. activeLease' # NoLease
  BY <1>2, <1>3, <1>5, NoLeaseEntry
<1>10. \A v \in waiters' : v.ordinal > activeLease'.ordinal
  <2>1. \A v \in waiters' : activeLease'.ordinal < v.ordinal
    BY <1>9 DEF OInv, PInv, IInv, SoundNow, Sound, Ordered
  <2> QED BY <2>1
<1>11. \/ EntryOf(activeLease) = Lock!NoEntry
       \/ EntryOf(activeLease) \in InLine(waiters', activeLease')
       \/ /\ activeLease.segmentId \in Segments
          /\ terminal'[activeLease.segmentId] # "none"
  <2>1. CASE activeLease = NoLease
    BY <2>1, NoLeaseEntry
  <2>2. CASE activeLease # NoLease
    <3>1. activeLease \in Lease
      BY <2>2 DEF OInv, PInv, IInv, SoundNow, Sound, Typed
    <3>2. Lapsed
      <4>1. HoldCleared(activeLease) # NoLease
        BY <2>2, <3>1, HoldClearedType, NoLeaseIsNone
      <4> QED BY <4>1 DEF activeLeaseX
    <3> DEFINE back == Restored(activeLease)
    <3>3. activeLease.segmentId \in Segments
      BY <3>1 DEF Lease
    <3>4. \A v \in waiters : v.segmentId # activeLease.segmentId
      BY DEF OInv, PInv, IInv, SoundNow, Sound, Ordered
    <3>5. terminal[activeLease.segmentId] = "none"
      BY <3>3 DEF OInv, PInv, IInv, SoundNow, Sound, Closed
    <3>6. terminalX[activeLease.segmentId] = "none"
      BY <3>3, <3>4, <3>5 DEF terminalX, WaitersOf, Overdue
    <3>7. back \in waitersX
      BY <3>2, <3>4, <3>6 DEF waitersX, Reinstated, WaitersOf
    <3>8. EntryOf(back) = EntryOf(activeLease)
      BY RestoredEntry
    <3>9. CASE back \notin Skipped
      BY <1>6, <3>7, <3>8, <3>9
    <3>10. CASE back \in Skipped
      <4>1. back.segmentId = activeLease.segmentId
        BY DEF Restored
      <4>2. terminalSkipped[activeLease.segmentId] = "deadline-expired"
        BY <3>3, <3>6, <3>10, <4>1 DEF terminalSkipped, WaitersOf
      <4> QED BY <1>3, <3>3, <4>2
    <3> QED BY <3>9, <3>10
  <2> QED BY <2>1, <2>2
<1>12. Lock!Serve
  <2>1. EntryOf(activeLease') # Lock!NoEntry
    BY <1>2, <1>3, <1>5
  <2>2. EntryOf(activeLease) \in InLine(waiters', activeLease')
           => EntryOf(activeLease) \in Lock!Present'
    BY LockEntries
  <2> QED BY <1>1, <1>10, <1>11, <2>1, <2>2 DEF Lock!Serve, EntryOf, Lock!NoEntry
<1> QED BY <1>7, <1>8, <1>12 DEF Lock!LockNext

LEMMA LockAcquire ==
    ASSUME OInv, OInv', NEW requested, Acquire(requested)
    PROVE  Lock!LockNext
<1>1. CASE Refuse
  BY <1>1, LockRefuses
<1>2. CASE /\ Commit(waitersX \ Skipped, NoLease, terminalSkipped, promise, promise)
           /\ UNCHANGED <<nextOrdinal, fence, completedReleases, now, uuids>>
  <2>1. Stays(waitersX \ Skipped, NoLease, terminalSkipped)
    BY SkippedFinal, NoLeaseEntry, FewerInLine, FewerStays
  <2> QED BY <1>2, <2>1, LockStays
<1>3. CASE activeLeaseX = NoLease /\ \E w \in Live : Grant(w)
  BY <1>3, LockGrant
<1> QED BY <1>1, <1>2, <1>3 DEF Acquire

(* The lease stays in force, with another expiry or hold.                  *)
LEMMA LockAdjust ==
    ASSUME OInv, OInv', NEW id \in DOMAIN promise,
           Renew(id) \/ Witness(id) \/ BeginCommitHold(id)
             \/ \E hold \in 1..uuids : ReleaseCommitHold(id, hold)
    PROVE  Lock!LockNext
<1>1. CASE Refuse
  BY <1>1, LockRefuses
<1>2. CASE ~Refuse
  <2>1. Current(id)
    BY <1>2 DEF Renew, Renewable, Witness, BeginCommitHold, ReleaseCommitHold
  <2>2. activeLeaseX \in Lease
    BY <2>1, ExpireIInv, CurrentLease DEF OInv, PInv
  <2>3. PICK l, a, u :
           /\ Commit(waitersX, l, terminalX, a, u)
           /\ l.segmentId = activeLeaseX.segmentId
           /\ l.ordinal = activeLeaseX.ordinal
           /\ UNCHANGED <<nextOrdinal, fence>>
    <3> DEFINE Same(l) == /\ l.segmentId = activeLeaseX.segmentId
                          /\ l.ordinal = activeLeaseX.ordinal
    <3>1. Same(activeLeaseX)
      OBVIOUS
    <3>2. \A until : Same([activeLeaseX EXCEPT !.expiresAt = until])
      BY <2>2 DEF Lease
    <3>3. \A until, hold : Same([activeLeaseX EXCEPT !.holdExpiresAt = until,
                                                    !.expiresAt = until,
                                                    !.holdId = hold])
      BY <2>2 DEF Lease
    <3>4. Same([activeLeaseX EXCEPT !.holdId = 0, !.holdExpiresAt = 0])
      BY <2>2 DEF Lease
    <3> HIDE DEF Same
    <3>5. PICK l, a, u :
             Commit(waitersX, l, terminalX, a, u) /\ Same(l)
               /\ UNCHANGED <<nextOrdinal, fence>>
      BY <1>2, <3>1, <3>2, <3>3, <3>4
      DEF Renew, Witness, BeginCommitHold, ReleaseCommitHold
    <3> QED BY <3>5 DEF Same
  <2>4. EntryOf(l) = EntryOf(activeLeaseX)
    BY <2>3 DEF EntryOf
  <2>5. Stays(waitersX, l, terminalX)
    BY <2>4, ExpireLatest, FewerInLine, FewerStays
  <2> QED BY <2>3, <2>5, LockStays
<1> QED BY <1>1, <1>2

LEMMA WithoutStays ==
    ASSUME OInv, NEW id, NEW r, Final(r)
    PROVE  /\ Stays(Without(id), LeaseWithout(id), r)
           /\ Stays(waitersX, NoLease, r)
<1>1. Without(id) \subseteq waitersX
  BY DEF Without
<1>2. LeaseWithout(id) \in {activeLeaseX, NoLease}
  BY DEF LeaseWithout
<1>3. EntryOf(NoLease) = Lock!NoEntry
  BY NoLeaseEntry
<1> QED BY <1>1, <1>2, <1>3, FewerInLine, FewerStays

LEMMA LockRelease ==
    ASSUME OInv, OInv', NEW id, Release(id) \/ ReleaseCompleted(id)
    PROVE  Lock!LockNext
<1>1. CASE Refuse
  BY <1>1, LockRefuses
<1>2. CASE Release(id)
  BY <1>2, ExpireLatest, WithoutStays, LockStays DEF Release
<1>3. CASE /\ Commit(waiters, activeLease, terminal, GivenUp(id), GivenUp(id))
           /\ UNCHANGED <<nextOrdinal, fence, completedReleases, now, uuids>>
  <2>1. Stays(waiters, activeLease, terminal)
    BY DEF Stays, Final
  <2> QED BY <1>3, <2>1, LockStays
<1>4. CASE /\ Commit(waitersX, NoLease, Mark(id.segmentId, "completed"),
                     GivenUp(id), GivenUp(id))
           /\ UNCHANGED <<nextOrdinal, fence, now, uuids>>
  BY <1>4, MarkFinal, WithoutStays, LockStays
<1> QED BY <1>1, <1>2, <1>3, <1>4 DEF ReleaseCompleted

LEMMA LockCancel ==
    ASSUME OInv, OInv',
           (\E s \in Segments : CancelSegment(s)) \/ (\E id \in DOMAIN promise : CancelLease(id))
    PROVE  Lock!LockNext
<1>1. CASE Refuse
  BY <1>1, LockRefuses
<1>2. ASSUME NEW s \in Segments, CancelSegment(s), ~Refuse
      PROVE  Lock!LockNext
  <2>1. Stays(waitersX \ WaitersOf(s, waitersX), activeLeaseX, Mark(s, "cancelled"))
    BY MarkFinal, FewerInLine, FewerStays
  <2> QED BY <1>2, <2>1, LockStays DEF CancelSegment
<1>3. ASSUME NEW id \in DOMAIN promise, CancelLease(id), ~Refuse
      PROVE  Lock!LockNext
  BY <1>3, MarkFinal, WithoutStays, LockStays DEF CancelLease
<1> QED BY <1>1, <1>2, <1>3

(* The holder goes back to where it stood in line.                         *)
LEMMA LockRestore ==
    ASSUME OInv, OInv', NEW id \in DOMAIN promise, RestoreCapacityBusy(id)
    PROVE  Lock!LockNext
<1>1. CASE Refuse
  BY <1>1, LockRefuses
<1>2. CASE ~Refuse
  <2> DEFINE back == IF Queued(id.segmentId) \/ terminalX[id.segmentId] # "none" THEN {}
                     ELSE {Restored(activeLeaseX)}
  <2>1. /\ Current(id)
        /\ Commit(waitersX \cup back, NoLease, terminalX, GivenUp(id), GivenUp(id))
        /\ UNCHANGED <<nextOrdinal, fence>>
    BY <1>2 DEF RestoreCapacityBusy
  <2>2. back \subseteq {Restored(activeLeaseX)}
    OBVIOUS
  <2> HIDE DEF back
  <2>3. activeLeaseX \in Lease /\ activeLeaseX # NoLease
    BY <2>1, ExpireIInv, CurrentLease DEF OInv, PInv
  <2>4. EntryOf(activeLeaseX) # Lock!NoEntry /\ EntryOf(NoLease) = Lock!NoEntry
    BY <2>3, NoLeaseEntry
  <2>5. InLine(waitersX \cup back, NoLease) \subseteq InLine(waitersX, activeLeaseX)
    BY <2>2, <2>4, RestoredEntry DEF InLine
  <2>6. Stays(waitersX \cup back, NoLease, terminalX)
    BY <2>4, <2>5, ExpireLatest, FewerStays
  <2> QED BY <2>1, <2>6, LockStays
<1> QED BY <1>1, <1>2

LEMMA LockStep ==
    ASSUME OInv, [Next]_vars
    PROVE  [Lock!LockNext]_(Lock!lockVars)
<1>1. OInv'
  BY IdentityInductive
<1>2. ASSUME NEW id \in DOMAIN promise, Call(id)
      PROVE  Lock!LockNext
  BY <1>1, <1>2, LockAdjust, LockRelease, LockCancel, LockRestore DEF Call
<1>3. CASE Alarm
  BY <1>1, <1>3, LockRefuses DEF Alarm
<1>4. CASE Tick \/ UNCHANGED vars
  BY <1>4 DEF Tick, vars, Lock!lockVars
<1> QED BY <1>1, <1>2, <1>3, <1>4, LockEnqueue, LockAcquire, LockCancel DEF Next

(* The coordinator implements the lock it stands for: whatever overdue     *)
(* deadlines, evictions, late and repeated calls do, one segment holds the *)
(* GPU at a time, served in the order they came, under a larger fence than *)
(* ever before, and a holder that is replaced has its place again or is    *)
(* finished.                                                               *)
THEOREM ImplementsLock == Spec => LockSpec
<1>1. Init => Lock!LockInit
  BY DEF Init, Lock!LockInit, Lock!NoEntry, NoLease
<1>2. OInv /\ [Next]_vars => [Lock!LockNext]_(Lock!lockVars)
  BY LockStep
<1> QED BY <1>1, <1>2, IdentityInvariant, PTL DEF Spec, LockSpec, Lock!LockSpec
=============================================================================
