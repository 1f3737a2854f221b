------------------------ MODULE TrackingSystemProofs ------------------------
(***************************************************************************)
(* Theorems about tracking as a whole, for any number of segments, losses  *)
(* and faults. What one segment owns in the three stores is looked at as   *)
(* one: its row, its workflow, its call, its cleanup, what the coordinator *)
(* remembers of it, and the fences its places in the coordinator go by.    *)
(***************************************************************************)
EXTENDS TrackingSystem, SequenceTheorems, TLAPS

PlaceType == [segmentId : Segments, restoredFrom : Nat]
LeaseType == [segmentId : Segments, fence : Nat] \cup {NoLease}
FlowType == [step : FlowSteps, fence : Nat, losses : 0..MaxLosses]
CallType == {"none", "enqueuing", "acquiring"}
CleanupType == [step : {"none", "load", "release", "done"}, fence : Nat]
TerminalType == {"none", "cancelled", "completed", "deadline-expired"}

Typed ==
    /\ fence \in Nat /\ faults \in 0..MaxFaults /\ late \subseteq Segments
    /\ rows \in [Segments -> Rows]
    /\ flow \in [Segments -> FlowType]
    /\ calls \in [Segments -> CallType]
    /\ cleanup \in [Segments -> CleanupType]
    /\ terminal \in [Segments -> TerminalType]
    /\ newest \in [Segments -> Nat]

\* A segment is in the line once, or is served.
QueueOK(q) ==
    /\ q \in Seq(PlaceType)
    /\ \A i, j \in 1..Len(q) : q[i].segmentId = q[j].segmentId => i = j

LineOK(q, l) ==
    /\ QueueOK(q) /\ l \in LeaseType
    /\ \A w \in Range(q) : w.segmentId # l.segmentId

\* The fences by which the coordinator knows the places of a segment.
Fences(q, l, s) ==
    {w.restoredFrom : w \in {v \in Range(q) : v.segmentId = s}}
        \cup (IF l.segmentId = s THEN {l.fence} ELSE {})

\* D1 and the coordinator: the current attempt is the newest lease, the segment
\* has no place but that lease's, and nothing is on its way that could add one.
RowOK(r, k, n, F) ==
    /\ r.current # 0 => /\ k = "none" /\ r.accepted = 0 /\ r.state # "none"
                        /\ r.current = n /\ F \subseteq {r.current}
    /\ r.current = 0 => r.state = "none"
    /\ r.accepted # 0 => k = "none" /\ r.accepted = n

\* The coordinator: who is finished or too late has no place.
PlaceOK(r, t, l, F) ==
    /\ t # "none" \/ l => F = {}
    /\ t = "completed" => r.accepted # 0
    /\ t = "cancelled" => r.accepted = 0 /\ r.run = "cancelled"

\* The cancellation workflow goes by the row it has read, which is fenced.
CleanupOK(r, c, F) ==
    /\ c.step # "none" => r.run = "cancelled"
    /\ c.step \in {"release", "done"} => c.fence = r.current
    /\ c.step = "release" => r.accepted = 0
    /\ c.step = "done" /\ c.fence # 0 => F = {}

\* The workflow: what it knows at each step.
FlowOK(r, w, k, n, t, l, F) ==
    /\ w.step \in {"enqueue", "enqueuing", "acquire", "acquiring", "requeue"} =>
            r.current = 0 /\ r.accepted = 0
    /\ w.step = "activate" => k = "none" /\ w.fence # 0 /\ w.fence = n /\ F \subseteq {w.fence}
    /\ w.step \in {"retire", "work", "replace", "publish", "accept", "fail"} => w.fence # 0
    /\ w.step = "finish" => w.fence # 0 /\ r.accepted = w.fence
    /\ w.step = "completed" => t = "completed"
    /\ w.step = "release-failed" => w.fence = r.current /\ r.current # 0
    /\ w.step = "failed" => r.current # 0 /\ F = {}
    /\ w.step = "expire" => r.run # "active" \/ l \/ r.current # 0
    /\ w.step = "release-expired" => w.fence = r.current /\ (l \/ r.current # 0)
    /\ w.step = "expired" => (l \/ r.current # 0) /\ F = {}
    /\ w.losses = MaxLosses => w.step \in {"fail", "release-failed"}

SegOK(r, w, k, c, n, t, l, F) ==
    RowOK(r, k, n, F) /\ PlaceOK(r, t, l, F) /\ CleanupOK(r, c, F) /\ FlowOK(r, w, k, n, t, l, F)

IInv ==
    /\ Typed
    /\ LineOK(queue, lease)
    /\ \A s \in Segments : SegOK(rows[s], flow[s], calls[s], cleanup[s], newest[s], terminal[s],
                                 s \in late, Fences(queue, lease, s))

-----------------------------------------------------------------------------
(* Sequences: what the coordinator's queue is made of after each operation. *)

LEMMA RemoveAtFacts ==
    ASSUME NEW S, NEW q \in Seq(S), NEW i \in 1..Len(q)
    PROVE  /\ RemoveAt(q, i) \in Seq(S)
           /\ Len(RemoveAt(q, i)) = Len(q) - 1
           /\ \A j \in 1..Len(q)-1 : RemoveAt(q, i)[j] = IF j < i THEN q[j] ELSE q[j + 1]
<1> DEFINE a == SubSeq(q, 1, i - 1)
           b == SubSeq(q, i + 1, Len(q))
<1>1. Len(q) \in Nat /\ \A j \in 1..Len(q) : q[j] \in S  BY LenProperties, ElementOfSeq
<1>2. a \in Seq(S) /\ Len(a) = i - 1 /\ \A j \in 1..(i - 1) : a[j] = q[j]
    BY <1>1, SubSeqProperties
<1>3. b \in Seq(S) /\ Len(b) = Len(q) - i /\ \A j \in 1..(Len(q) - i) : b[j] = q[i + j]
    BY <1>1, SubSeqProperties
<1> HIDE DEF a, b
<1>4. /\ a \o b \in Seq(S) /\ Len(a \o b) = Len(q) - 1
      /\ \A j \in 1..(Len(q) - 1) : (a \o b)[j] = IF j <= i - 1 THEN a[j] ELSE b[j - (i - 1)]
    <2>1. /\ a \o b \in Seq(S) /\ Len(a \o b) = Len(a) + Len(b)
          /\ \A j \in 1..(Len(a) + Len(b)) : (a \o b)[j] = IF j <= Len(a) THEN a[j] ELSE b[j - Len(a)]
        BY <1>2, <1>3, ConcatProperties
    <2>2. Len(a) + Len(b) = Len(q) - 1  BY <1>1, <1>2, <1>3
    <2> QED  BY <1>2, <2>1, <2>2
<1>5. ASSUME NEW j \in 1..(Len(q) - 1)  PROVE (a \o b)[j] = IF j < i THEN q[j] ELSE q[j + 1]
    <2>1. CASE j < i  BY <1>1, <1>2, <1>4, <2>1
    <2>2. CASE ~(j < i)
        <3>1. j - (i - 1) \in 1..(Len(q) - i) /\ i + (j - (i - 1)) = j + 1  BY <1>1, <2>2
        <3> QED  BY <1>1, <1>3, <1>4, <2>2, <3>1
    <2> QED  BY <2>1, <2>2
<1>6. RemoveAt(q, i) = a \o b  BY DEF RemoveAt, a, b
<1> QED  BY <1>4, <1>5, <1>6

LEMMA RangeFacts ==
    ASSUME NEW S, NEW q \in Seq(S)
    PROVE  /\ DOMAIN q = 1..Len(q) /\ Len(q) \in Nat
           /\ \A w : w \in Range(q) <=> \E i \in 1..Len(q) : q[i] = w
           /\ Range(q) \subseteq S
<1>1. DOMAIN q = 1..Len(q) /\ Len(q) \in Nat /\ \A i \in 1..Len(q) : q[i] \in S
    BY LenProperties, ElementOfSeq
<1> QED  BY <1>1 DEF Range

LEMMA AppendRange ==
    ASSUME NEW q, QueueOK(q), NEW x \in PlaceType,
           \A w \in Range(q) : w.segmentId # x.segmentId
    PROVE  QueueOK(Append(q, x)) /\ Range(Append(q, x)) = Range(q) \cup {x}
<1> DEFINE p == Append(q, x)
<1>1. q \in Seq(PlaceType) /\ Len(q) \in Nat /\ DOMAIN q = 1..Len(q)  BY LenProperties DEF QueueOK
<1>2. /\ p \in Seq(PlaceType) /\ Len(p) = Len(q) + 1
      /\ \A i \in 1..Len(q) + 1 : p[i] = IF i <= Len(q) THEN q[i] ELSE x
    BY <1>1, AppendProperties
<1> HIDE DEF p
<1>3. \A w : w \in Range(p) <=> \E i \in 1..Len(p) : p[i] = w  BY <1>2, RangeFacts
<1>4. \A w : w \in Range(q) <=> \E i \in 1..Len(q) : q[i] = w  BY <1>1, RangeFacts
<1>5. ASSUME NEW i \in 1..Len(p), NEW j \in 1..Len(p), p[i].segmentId = p[j].segmentId  PROVE i = j
    <2>1. CASE i <= Len(q) /\ j <= Len(q)  BY <1>1, <1>2, <1>5, <2>1 DEF QueueOK
    <2>2. CASE i <= Len(q) /\ j > Len(q)
        <3>1. p[i] = q[i] /\ p[j] = x /\ i \in 1..Len(q)  BY <1>1, <1>2, <2>2
        <3> QED  BY <1>4, <1>5, <3>1
    <2>3. CASE i > Len(q) /\ j <= Len(q)
        <3>1. p[j] = q[j] /\ p[i] = x /\ j \in 1..Len(q)  BY <1>1, <1>2, <2>3
        <3> QED  BY <1>4, <1>5, <3>1
    <2>4. CASE i > Len(q) /\ j > Len(q)  BY <1>1, <1>2, <2>4
    <2> QED  BY <1>1, <1>2, <2>1, <2>2, <2>3, <2>4
<1>6. ASSUME NEW w  PROVE w \in Range(p) <=> w \in Range(q) \cup {x}
    <2>1. ASSUME w \in Range(p)  PROVE w \in Range(q) \cup {x}
        <3>1. PICK i \in 1..Len(p) : p[i] = w  BY <1>3, <2>1
        <3>2. i <= Len(q) => i \in 1..Len(q)  BY <1>1, <1>2
        <3> QED  BY <1>2, <1>4, <3>1, <3>2
    <2>2. ASSUME w \in Range(q)  PROVE w \in Range(p)
        <3>1. PICK i \in 1..Len(q) : q[i] = w  BY <1>4, <2>2
        <3>2. i \in 1..Len(p) /\ p[i] = w  BY <1>1, <1>2, <3>1
        <3> QED  BY <1>3, <3>2
    <2>3. x \in Range(p)
        <3>1. Len(p) \in 1..Len(p) /\ p[Len(p)] = x  BY <1>1, <1>2
        <3> QED  BY <1>3, <3>1
    <2> QED  BY <2>1, <2>2, <2>3
<1> QED  BY <1>2, <1>5, <1>6 DEF QueueOK, p

LEMMA TailRange ==
    ASSUME NEW q, QueueOK(q), q # << >>
    PROVE  /\ Head(q) \in Range(q) /\ QueueOK(Tail(q))
           /\ Range(Tail(q)) = {w \in Range(q) : w.segmentId # Head(q).segmentId}
<1> DEFINE p == Tail(q)
<1>1. /\ q \in Seq(PlaceType) /\ Len(q) \in Nat \ {0} /\ Head(q) = q[1]
      /\ \A i, j \in 1..Len(q) : q[i].segmentId = q[j].segmentId => i = j
    BY EmptySeq, LenProperties DEF QueueOK
<1>2. /\ p \in Seq(PlaceType) /\ Len(p) = Len(q) - 1
      /\ \A i \in 1..Len(p) : p[i] = q[i + 1]
    BY <1>1, HeadTailProperties
<1> HIDE DEF p
<1>3. \A w : w \in Range(p) <=> \E i \in 1..Len(p) : p[i] = w  BY <1>2, RangeFacts
<1>4. \A w : w \in Range(q) <=> \E i \in 1..Len(q) : q[i] = w  BY <1>1, RangeFacts
<1>5. ASSUME NEW i \in 1..Len(p), NEW j \in 1..Len(p), p[i].segmentId = p[j].segmentId  PROVE i = j
    <2>1. i + 1 \in 1..Len(q) /\ j + 1 \in 1..Len(q)  BY <1>1, <1>2
    <2>2. q[i + 1].segmentId = q[j + 1].segmentId  BY <1>2, <1>5
    <2>3. i + 1 = j + 1  BY <1>1, <2>1, <2>2
    <2> QED  BY <2>3
<1>6. ASSUME NEW w \in Range(p)  PROVE w \in Range(q) /\ w.segmentId # Head(q).segmentId
    <2>1. PICK i \in 1..Len(p) : p[i] = w  BY <1>3
    <2>2. i + 1 \in 1..Len(q) /\ q[i + 1] = w /\ 1 \in 1..Len(q) /\ i + 1 # 1  BY <1>1, <1>2, <2>1
    <2> QED  BY <1>1, <1>4, <2>2
<1>7. ASSUME NEW w \in Range(q), w.segmentId # Head(q).segmentId  PROVE w \in Range(p)
    <2>1. PICK i \in 1..Len(q) : q[i] = w  BY <1>4
    <2>2. i # 1  BY <1>1, <1>7, <2>1
    <2>3. i - 1 \in 1..Len(p) /\ (i - 1) + 1 = i  BY <1>1, <1>2, <2>2
    <2>4. p[i - 1] = w  BY <1>2, <2>1, <2>3
    <2> QED  BY <1>3, <2>3, <2>4
<1>8. Head(q) \in Range(q)
    <2>1. 1 \in 1..Len(q)  BY <1>1
    <2> QED  BY <1>1, <1>4, <2>1
<1> QED  BY <1>2, <1>5, <1>6, <1>7, <1>8 DEF QueueOK, p

LEMMA PrependRange ==
    ASSUME NEW q, QueueOK(q), NEW x \in PlaceType,
           \A w \in Range(q) : w.segmentId # x.segmentId
    PROVE  QueueOK(<<x>> \o q) /\ Range(<<x>> \o q) = Range(q) \cup {x}
<1> DEFINE h == <<x>>
           p == h \o q
<1>1. /\ q \in Seq(PlaceType) /\ Len(q) \in Nat
      /\ \A i, j \in 1..Len(q) : q[i].segmentId = q[j].segmentId => i = j
    BY LenProperties DEF QueueOK
<1>2. h \in Seq(PlaceType) /\ Len(h) = 1 /\ h[1] = x  OBVIOUS
<1> HIDE DEF h
<1>3. /\ p \in Seq(PlaceType) /\ Len(p) = Len(h) + Len(q)
      /\ \A i \in 1..(Len(h) + Len(q)) : p[i] = IF i <= Len(h) THEN h[i] ELSE q[i - Len(h)]
    BY <1>1, <1>2, ConcatProperties
<1> HIDE DEF p
<1>4. Len(p) = Len(q) + 1 /\ p[1] = x
    BY <1>1, <1>2, <1>3
<1>5. \A i \in 1..Len(q) : p[i + 1] = q[i]
    BY <1>1, <1>2, <1>3
<1>6. \A w : w \in Range(p) <=> \E i \in 1..Len(p) : p[i] = w  BY <1>3, RangeFacts
<1>7. \A w : w \in Range(q) <=> \E i \in 1..Len(q) : q[i] = w  BY <1>1, RangeFacts
<1>8. \A i \in 1..Len(p) : i = 1 \/ (i - 1 \in 1..Len(q) /\ p[i] = q[i - 1] /\ q[i - 1] \in Range(q))
    <2> SUFFICES ASSUME NEW i \in 1..Len(p), i # 1
                 PROVE  i - 1 \in 1..Len(q) /\ p[i] = q[i - 1] /\ q[i - 1] \in Range(q)
        OBVIOUS
    <2>1. i - 1 \in 1..Len(q) /\ (i - 1) + 1 = i  BY <1>1, <1>4
    <2>2. p[i] = q[i - 1]  BY <1>5, <2>1
    <2> QED  BY <1>7, <2>1, <2>2
<1>9. ASSUME NEW i \in 1..Len(p), NEW j \in 1..Len(p), p[i].segmentId = p[j].segmentId  PROVE i = j
    <2>1. CASE i = 1 \/ j = 1  BY <1>4, <1>8, <1>9, <2>1
    <2>2. CASE i # 1 /\ j # 1
        <3>1. i - 1 \in 1..Len(q) /\ j - 1 \in 1..Len(q) /\ q[i - 1].segmentId = q[j - 1].segmentId
            BY <1>8, <1>9, <2>2
        <3>2. i - 1 = j - 1  BY <1>1, <3>1
        <3> QED  BY <1>1, <1>4, <3>2
    <2> QED  BY <2>1, <2>2
<1>10. ASSUME NEW w \in Range(p)  PROVE w \in Range(q) \cup {x}
    BY <1>4, <1>6, <1>8
<1>11. ASSUME NEW w \in Range(q)  PROVE w \in Range(p)
    <2>1. PICK i \in 1..Len(q) : q[i] = w  BY <1>7
    <2>2. i + 1 \in 1..Len(p) /\ p[i + 1] = w  BY <1>1, <1>4, <1>5, <2>1
    <2> QED  BY <1>6, <2>2
<1>12. x \in Range(p)
    <2>1. 1 \in 1..Len(p)  BY <1>1, <1>4
    <2> QED  BY <1>4, <1>6, <2>1
<1> QED  BY <1>3, <1>9, <1>10, <1>11, <1>12 DEF QueueOK, p, h

LEMMA WithoutRange ==
    ASSUME QueueOK(queue), NEW s
    PROVE  /\ QueueOK(Without(s))
           /\ Range(Without(s)) = {w \in Range(queue) : w.segmentId # s}
<1>1. /\ queue \in Seq(PlaceType) /\ Len(queue) \in Nat /\ DOMAIN queue = 1..Len(queue)
      /\ \A i, j \in 1..Len(queue) : queue[i].segmentId = queue[j].segmentId => i = j
    BY LenProperties DEF QueueOK
<1>2. \A w : w \in Range(queue) <=> \E i \in 1..Len(queue) : queue[i] = w  BY <1>1, RangeFacts
<1>3. CASE ~Waits(s)
    <2>1. Without(s) = queue  BY <1>3 DEF Without
    <2>2. \A w \in Range(queue) : w.segmentId # s  BY <1>1, <1>2, <1>3 DEF Waits
    <2>3. Range(queue) = {w \in Range(queue) : w.segmentId # s}  BY <2>2
    <2> QED  BY <2>1, <2>3
<1>4. CASE Waits(s)
    <2> DEFINE n == CHOOSE i \in DOMAIN queue : queue[i].segmentId = s
    <2>1. n \in 1..Len(queue) /\ queue[n].segmentId = s  BY <1>1, <1>4 DEF Waits
    <2>2. Without(s) = RemoveAt(queue, n)  BY <1>4 DEF Without
    <2> HIDE DEF n
    <2> DEFINE p == Without(s)
    <2>3. /\ p \in Seq(PlaceType) /\ Len(p) = Len(queue) - 1
          /\ \A j \in 1..Len(queue)-1 : p[j] = IF j < n THEN queue[j] ELSE queue[j + 1]
        <3>1. /\ RemoveAt(queue, n) \in Seq(PlaceType) /\ Len(RemoveAt(queue, n)) = Len(queue) - 1
              /\ \A j \in 1..Len(queue)-1 :
                    RemoveAt(queue, n)[j] = IF j < n THEN queue[j] ELSE queue[j + 1]
            BY <1>1, <2>1, RemoveAtFacts
        <3> QED  BY <2>2, <3>1
    <2> HIDE DEF p
    <2>4. \A w : w \in Range(p) <=> \E i \in 1..Len(p) : p[i] = w  BY <2>3, RangeFacts
    <2> DEFINE at(j) == IF j < n THEN j ELSE j + 1
    <2>5. ASSUME NEW j \in 1..Len(p)
          PROVE  at(j) \in 1..Len(queue) /\ at(j) # n /\ p[j] = queue[at(j)]
        <3>1. j \in Nat /\ n \in Nat /\ j <= Len(queue) - 1  BY <1>1, <2>1, <2>3
        <3>2. CASE j < n  BY <1>1, <2>3, <3>1, <3>2
        <3>3. CASE ~(j < n)  BY <1>1, <2>1, <2>3, <3>1, <3>3
        <3> QED  BY <3>2, <3>3
    <2>6. ASSUME NEW i \in 1..Len(p), NEW j \in 1..Len(p), p[i].segmentId = p[j].segmentId  PROVE i = j
        <3>1. at(i) = at(j)  BY <1>1, <2>5, <2>6
        <3>2. i \in Nat /\ j \in Nat /\ n \in Nat  BY <1>1, <2>1, <2>3
        <3> QED  BY <3>1, <3>2
    <2>7. ASSUME NEW w \in Range(p)  PROVE w \in Range(queue) /\ w.segmentId # s
        <3>1. PICK j \in 1..Len(p) : p[j] = w  BY <2>4
        <3>2. at(j) \in 1..Len(queue) /\ at(j) # n /\ queue[at(j)] = w  BY <2>5, <3>1
        <3> HIDE DEF at
        <3> QED  BY <1>1, <1>2, <2>1, <3>2
    <2>8. ASSUME NEW w \in Range(queue), w.segmentId # s  PROVE w \in Range(p)
        <3>1. PICK i \in 1..Len(queue) : queue[i] = w  BY <1>2
        <3>2. i # n  BY <2>1, <2>8, <3>1
        <3>3. CASE i < n
            <4>1. i \in 1..Len(p) /\ p[i] = w  BY <1>1, <2>1, <2>3, <3>1, <3>3
            <4> QED  BY <2>4, <4>1
        <3>4. CASE i > n
            <4>1. i - 1 \in 1..Len(p) /\ ~(i - 1 < n) /\ (i - 1) + 1 = i  BY <1>1, <2>1, <2>3, <3>4
            <4>2. p[i - 1] = w  BY <2>3, <3>1, <4>1
            <4> QED  BY <2>4, <4>1, <4>2
        <3> QED  BY <1>1, <2>1, <3>2, <3>3, <3>4
    <2> QED  BY <2>3, <2>6, <2>7, <2>8 DEF QueueOK, p
<1> QED  BY <1>3, <1>4

-----------------------------------------------------------------------------
(* The coordinator: the places of every segment after each operation.      *)

LEMMA FencesOf ==
    ASSUME NEW q, NEW l, NEW s
    PROVE  \A f : f \in Fences(q, l, s) <=>
                    \/ \E w \in Range(q) : w.segmentId = s /\ w.restoredFrom = f
                    \/ l.segmentId = s /\ l.fence = f
BY DEF Fences

LEMMA PlacesNow ==
    ASSUME LineOK(queue, lease), NEW s \in Segments
    PROVE  /\ Waits(s) <=> \E w \in Range(queue) : w.segmentId = s
           /\ HasPlace(s) <=> Fences(queue, lease, s) # {}
           /\ Served(s) => ~Waits(s) /\ lease # NoLease /\ Fences(queue, lease, s) = {lease.fence}
           /\ \A f \in Nat : Restored(s, f) <=> [segmentId |-> s, restoredFrom |-> f] \in Range(queue)
<1>1. queue \in Seq(PlaceType) /\ DOMAIN queue = 1..Len(queue)
    BY LenProperties DEF LineOK, QueueOK
<1>2. \A w : w \in Range(queue) <=> \E i \in 1..Len(queue) : queue[i] = w
    BY <1>1, RangeFacts
<1>3. Waits(s) <=> \E w \in Range(queue) : w.segmentId = s
    BY <1>1, <1>2 DEF Waits
<1>4. \A f \in Nat : Restored(s, f) <=> [segmentId |-> s, restoredFrom |-> f] \in Range(queue)
    BY <1>1, <1>2 DEF Restored
<1>5. HasPlace(s) <=> Fences(queue, lease, s) # {}
    <2>1. ASSUME NEW w \in Range(queue), w.segmentId = s  PROVE Fences(queue, lease, s) # {}
        <3>1. w.restoredFrom \in Fences(queue, lease, s)  BY <2>1 DEF Fences
        <3> QED  BY <3>1
    <2>2. ASSUME Served(s)  PROVE Fences(queue, lease, s) # {}
        <3>1. lease.fence \in Fences(queue, lease, s)  BY <2>2 DEF Fences, Served
        <3> QED  BY <3>1
    <2>3. ASSUME NEW f \in Fences(queue, lease, s)
          PROVE  Served(s) \/ \E w \in Range(queue) : w.segmentId = s
        BY DEF Fences, Served
    <2> QED  BY <1>3, <2>1, <2>2, <2>3 DEF HasPlace
<1>6. ASSUME Served(s)  PROVE ~Waits(s) /\ lease # NoLease /\ Fences(queue, lease, s) = {lease.fence}
    <2>1. lease # NoLease  BY <1>6, SystemAssumption DEF Served, NoLease
    <2>2. ~Waits(s)  BY <1>3, <1>6 DEF LineOK, Served
    <2> QED  BY <1>3, <1>6, <2>1, <2>2, FencesOf DEF Served
<1> QED  BY <1>3, <1>4, <1>5, <1>6

LEMMA JoinLine ==
    ASSUME LineOK(queue, lease), NEW s \in Segments, ~Waits(s), ~Served(s)
    PROVE  /\ LineOK(Append(queue, Place(s)), lease)
           /\ \A d \in Segments \ {s} :
                Fences(Append(queue, Place(s)), lease, d) = Fences(queue, lease, d)
<1>1. Place(s) \in PlaceType /\ Place(s).segmentId = s  BY DEF Place, PlaceType
<1>2. \A w \in Range(queue) : w.segmentId # s  BY PlacesNow
<1>3. QueueOK(Append(queue, Place(s))) /\ Range(Append(queue, Place(s))) = Range(queue) \cup {Place(s)}
    BY <1>1, <1>2, AppendRange DEF LineOK
<1> DEFINE q == Append(queue, Place(s))
<1> HIDE DEF q
<1>4. QueueOK(q) /\ Range(q) = Range(queue) \cup {Place(s)}  BY <1>3 DEF q
<1>5. LineOK(q, lease)  BY <1>1, <1>4 DEF LineOK, Served
<1>6. ASSUME NEW d \in Segments \ {s}  PROVE Fences(q, lease, d) = Fences(queue, lease, d)
    <2>1. {v \in Range(q) : v.segmentId = d} = {v \in Range(queue) : v.segmentId = d}
        BY <1>1, <1>4
    <2> QED  BY <2>1 DEF Fences
<1> QED  BY <1>5, <1>6 DEF q

LEMMA ServeLine ==
    ASSUME LineOK(queue, NoLease), NEW s \in Segments, queue # << >>, Head(queue).segmentId = s,
           NEW f \in Nat
    PROVE  LET l == [segmentId |-> s, fence |-> f]
           IN  /\ LineOK(Tail(queue), l)
               /\ \A d \in Segments \ {s} :
                    Fences(Tail(queue), l, d) = Fences(queue, NoLease, d)
               /\ Fences(Tail(queue), l, s) = {f}
<1> DEFINE l == [segmentId |-> s, fence |-> f]
           q == Tail(queue)
<1>1. QueueOK(q) /\ Range(q) = {w \in Range(queue) : w.segmentId # s}
    BY TailRange DEF LineOK
<1>2. l \in LeaseType /\ l.segmentId = s /\ l.fence = f  BY DEF LeaseType
<1>3. NoLease.segmentId = None  BY DEF NoLease
<1> HIDE DEF l, q
<1>4. LineOK(q, l)  BY <1>1, <1>2 DEF LineOK
<1>5. ASSUME NEW d \in Segments \ {s}  PROVE Fences(q, l, d) = Fences(queue, NoLease, d)
    <2>1. {v \in Range(q) : v.segmentId = d} = {v \in Range(queue) : v.segmentId = d}
        BY <1>1
    <2>2. d # l.segmentId /\ d # NoLease.segmentId  BY <1>2, <1>3, SystemAssumption
    <2> QED  BY <2>1, <2>2 DEF Fences
<1>6. Fences(q, l, s) = {f}
    <2>1. {v \in Range(q) : v.segmentId = s} = {}  BY <1>1
    <2> QED  BY <1>2, <2>1 DEF Fences
<1> QED  BY <1>4, <1>5, <1>6 DEF l, q

LEMMA GiveBackLine ==
    ASSUME LineOK(queue, lease), lease # NoLease
    PROVE  /\ LineOK(GivenBack, NoLease)
           /\ \A d \in Segments : Fences(GivenBack, NoLease, d) \subseteq Fences(queue, lease, d)
<1> DEFINE x == [segmentId |-> lease.segmentId, restoredFrom |-> lease.fence]
<1>1. lease.segmentId \in Segments /\ lease.fence \in Nat  BY DEF LineOK, LeaseType
<1>2. x \in PlaceType /\ x.segmentId = lease.segmentId /\ x.restoredFrom = lease.fence
    BY <1>1 DEF PlaceType
<1>3. GivenBack = IF terminal[lease.segmentId] = "none" THEN <<x>> \o queue ELSE queue
    BY DEF GivenBack
<1> HIDE DEF x
<1>4. QueueOK(<<x>> \o queue) /\ Range(<<x>> \o queue) = Range(queue) \cup {x}
    BY <1>2, PrependRange DEF LineOK
<1>5. QueueOK(GivenBack) /\ Range(GivenBack) \subseteq Range(queue) \cup {x}
    BY <1>3, <1>4 DEF LineOK
<1>6. NoLease \in LeaseType /\ NoLease.segmentId \notin Segments
    BY SystemAssumption DEF NoLease, LeaseType
<1>7. \A w \in Range(GivenBack) : w.segmentId \in Segments
    <2>1. GivenBack \in Seq(PlaceType)  BY <1>5 DEF QueueOK
    <2>2. Range(GivenBack) \subseteq PlaceType  BY <2>1, RangeFacts
    <2> QED  BY <2>2 DEF PlaceType
<1>8. LineOK(GivenBack, NoLease)  BY <1>5, <1>6, <1>7 DEF LineOK
<1>9. ASSUME NEW d \in Segments  PROVE Fences(GivenBack, NoLease, d) \subseteq Fences(queue, lease, d)
    BY <1>2, <1>5, <1>6, FencesOf
<1> QED  BY <1>8, <1>9

\* A segment leaves: its place, and its lease.
LEMMA LeaveLine ==
    ASSUME LineOK(queue, lease), NEW s \in Segments
    PROVE  LET l == IF Served(s) THEN NoLease ELSE lease
           IN  /\ LineOK(Without(s), l)
               /\ \A d \in Segments \ {s} : Fences(Without(s), l, d) = Fences(queue, lease, d)
               /\ Fences(Without(s), l, s) = {}
<1> DEFINE l == IF Served(s) THEN NoLease ELSE lease
           q == Without(s)
<1>1. QueueOK(q) /\ Range(q) = {w \in Range(queue) : w.segmentId # s}
    BY WithoutRange DEF LineOK
<1>2. NoLease \in LeaseType /\ NoLease.segmentId \notin Segments
    BY SystemAssumption DEF NoLease, LeaseType
<1>3. /\ l \in LeaseType /\ l.segmentId # s
      /\ (l = lease /\ lease.segmentId # s) \/ (l = NoLease /\ lease.segmentId = s)
    BY <1>2 DEF LineOK, Served
<1>4. Range(queue) \subseteq PlaceType  BY RangeFacts DEF LineOK, QueueOK
<1>5. \A w \in Range(queue) : w.segmentId \in Segments  BY <1>4 DEF PlaceType
<1> HIDE DEF l, q
<1>6. LineOK(q, l)  BY <1>1, <1>2, <1>3, <1>5 DEF LineOK
<1>7. ASSUME NEW d \in Segments \ {s}  PROVE Fences(q, l, d) = Fences(queue, lease, d)
    <2>1. {v \in Range(q) : v.segmentId = d} = {v \in Range(queue) : v.segmentId = d}
        BY <1>1
    <2>2. CASE l = lease  BY <2>1, <2>2 DEF Fences
    <2>3. CASE l = NoLease /\ lease.segmentId = s
        <3>1. NoLease.segmentId # d /\ lease.segmentId # d  BY <1>2, <2>3
        <3> QED  BY <2>1, <2>3, <3>1 DEF Fences
    <2> QED  BY <1>3, <2>2, <2>3
<1>8. Fences(q, l, s) = {}
    <2>1. {v \in Range(q) : v.segmentId = s} = {}  BY <1>1
    <2> QED  BY <1>3, <2>1 DEF Fences
<1> QED  BY <1>6, <1>7, <1>8 DEF l, q

\* A lease ends without giving its place back.
LEMMA EndLease ==
    ASSUME LineOK(queue, lease), NEW s \in Segments, Served(s)
    PROVE  /\ LineOK(queue, NoLease)
           /\ \A d \in Segments \ {s} : Fences(queue, NoLease, d) = Fences(queue, lease, d)
           /\ Fences(queue, NoLease, s) = {}
<1>1. Without(s) = queue  BY PlacesNow DEF Without
<1> QED  BY <1>1, LeaveLine

\* release: whoever names a place by its fence leaves none by that fence.
LEMMA ReleaseLine ==
    ASSUME LineOK(queue, lease), NEW s \in Segments, NEW f \in Nat, Release(s, f)
    PROVE  /\ LineOK(queue', lease')
           /\ \A d \in Segments \ {s} : Fences(queue', lease', d) = Fences(queue, lease, d)
           /\ Fences(queue', lease', s) \subseteq Fences(queue, lease, s) \ {f}
<1>1. CASE Holds(s, f)
    <2>1. Served(s) /\ lease' = NoLease  BY <1>1 DEF Holds, Served, Release
    <2>2. ~Restored(s, f)
        <3>1. ~Waits(s)  BY <2>1, PlacesNow
        <3> QED  BY <3>1 DEF Waits, Restored
    <2>3. queue' = queue  BY <2>2 DEF Release
    <2> QED  BY <2>1, <2>3, EndLease
<1>2. CASE ~Holds(s, f) /\ Restored(s, f)
    <2>1. Waits(s)  BY <1>2 DEF Waits, Restored
    <2>2. ~Served(s)  BY <2>1, PlacesNow
    <2>3. queue' = Without(s) /\ lease' = lease  BY <1>2 DEF Release
    <2> QED  BY <2>2, <2>3, LeaveLine
<1>3. CASE ~Holds(s, f) /\ ~Restored(s, f)
    <2>1. queue' = queue /\ lease' = lease  BY <1>3 DEF Release
    <2>2. f \notin Fences(queue, lease, s)
        <3>1. ASSUME lease.segmentId = s, lease.fence = f  PROVE FALSE
            BY <1>3, <3>1 DEF Holds, LineOK, LeaseType, NoLease
        <3>2. ASSUME NEW w \in Range(queue), w.segmentId = s, w.restoredFrom = f  PROVE FALSE
            <4>1. Range(queue) \subseteq PlaceType  BY RangeFacts DEF LineOK, QueueOK
            <4>2. w = [segmentId |-> s, restoredFrom |-> f]  BY <3>2, <4>1 DEF PlaceType
            <4> QED  BY <1>3, <4>2, PlacesNow
        <3> QED  BY <3>1, <3>2, FencesOf
    <2> QED  BY <2>1, <2>2
<1> QED  BY <1>1, <1>2, <1>3

-----------------------------------------------------------------------------
(* One step of one segment.                                                *)

\* f has become g, which differs only at s.
Edits(f, g, s, T) == g \in [Segments -> T] /\ \A d \in Segments \ {s} : g[d] = f[d]

SegNow(s) == SegOK(rows[s], flow[s], calls[s], cleanup[s], newest[s], terminal[s],
                   s \in late, Fences(queue, lease, s))

LEMMA Here ==
    ASSUME IInv, NEW s \in Segments
    PROVE  /\ rows[s] \in Rows /\ flow[s] \in FlowType /\ calls[s] \in CallType
           /\ cleanup[s] \in CleanupType /\ newest[s] \in Nat /\ terminal[s] \in TerminalType
           /\ SegNow(s)
BY DEF IInv, Typed, SegNow

LEMMA Same ==
    ASSUME NEW f, NEW g, NEW T, NEW s, f \in [Segments -> T], g = f
    PROVE  Edits(f, g, s, T)
BY DEF Edits

LEMMA FewerPlaces ==
    ASSUME NEW r, NEW w, NEW k, NEW c, NEW n, NEW t, NEW l, NEW F, NEW G,
           SegOK(r, w, k, c, n, t, l, F), G \subseteq F
    PROVE  SegOK(r, w, k, c, n, t, l, G)
<1>1. RowOK(r, k, n, G)  BY DEF SegOK, RowOK
<1>2. PlaceOK(r, t, l, G)  BY DEF SegOK, PlaceOK
<1>3. CleanupOK(r, c, G)  BY DEF SegOK, CleanupOK
<1>4. FlowOK(r, w, k, n, t, l, G)  BY DEF SegOK, FlowOK
<1> QED  BY <1>1, <1>2, <1>3, <1>4 DEF SegOK

LEMMA SegmentStep ==
    ASSUME IInv, NEW s \in Segments,
           Edits(rows, rows', s, Rows), Edits(flow, flow', s, FlowType),
           Edits(calls, calls', s, CallType), Edits(cleanup, cleanup', s, CleanupType),
           Edits(terminal, terminal', s, TerminalType), Edits(newest, newest', s, Nat),
           late' \subseteq Segments, \A d \in Segments \ {s} : d \in late' <=> d \in late,
           fence' \in Nat, faults' \in 0..MaxFaults,
           LineOK(queue', lease'),
           \A d \in Segments \ {s} : Fences(queue', lease', d) \subseteq Fences(queue, lease, d),
           SegNow(s)'
    PROVE  IInv'
<1>1. Typed'  BY DEF Edits, Typed
<1>2. ASSUME NEW d \in Segments \ {s}  PROVE SegNow(d)'
    <2>1. SegNow(d)  BY Here
    <2>2. /\ rows'[d] = rows[d] /\ flow'[d] = flow[d] /\ calls'[d] = calls[d]
          /\ cleanup'[d] = cleanup[d] /\ terminal'[d] = terminal[d] /\ newest'[d] = newest[d]
          /\ (d \in late') = (d \in late)
        BY DEF Edits
    <2>3. SegOK(rows[d], flow[d], calls[d], cleanup[d], newest[d], terminal[d],
                d \in late, Fences(queue', lease', d))
        BY <2>1, FewerPlaces DEF SegNow
    <2> QED  BY <2>2, <2>3 DEF SegNow
<1>3. \A d \in Segments : SegNow(d)'  BY <1>2
<1> QED  BY <1>1, <1>3 DEF IInv, SegNow

\* A step that leaves the coordinator alone.
LEMMA QuietStep ==
    ASSUME IInv, NEW s \in Segments, UNCHANGED <<coordinator, late>>,
           Edits(rows, rows', s, Rows), Edits(flow, flow', s, FlowType),
           Edits(calls, calls', s, CallType), Edits(cleanup, cleanup', s, CleanupType),
           faults' \in 0..MaxFaults,
           SegOK(rows'[s], flow'[s], calls'[s], cleanup'[s], newest[s], terminal[s],
                 s \in late, Fences(queue, lease, s))
    PROVE  IInv'
<1>1. /\ queue' = queue /\ lease' = lease /\ fence' = fence /\ terminal' = terminal
      /\ newest' = newest /\ late' = late
    BY DEF coordinator
<1>2. Edits(terminal, terminal', s, TerminalType) /\ Edits(newest, newest', s, Nat)
    BY <1>1, Same DEF IInv, Typed
<1>3. LineOK(queue', lease') /\ fence' \in Nat /\ late' \subseteq Segments  BY <1>1 DEF IInv, Typed
<1>4. SegNow(s)'  BY <1>1 DEF SegNow
<1> QED  BY <1>1, <1>2, <1>3, <1>4, SegmentStep

\* The workflow goes on to a step, or ends and forgets.
LEMMA GoesFacts ==
    ASSUME flow \in [Segments -> FlowType], NEW s \in Segments, NEW step \in FlowSteps, Goes(s, step)
    PROVE  /\ Edits(flow, flow', s, FlowType)
           /\ flow'[s].step = step
           /\ step \in Endings => flow'[s].fence = 0 /\ flow'[s].losses = 0
           /\ step \notin Endings => flow'[s].fence = flow[s].fence /\ flow'[s].losses = flow[s].losses
<1>1. PICK w : w = flow[s]  OBVIOUS
<1>2. w \in FlowType /\ Fresh(step) \in FlowType /\ [w EXCEPT !.step = step] \in FlowType
    BY <1>1, SystemAssumption DEF FlowType, Fresh
<1>3. flow' = [flow EXCEPT ![s] = IF step \in Endings THEN Fresh(step) ELSE [w EXCEPT !.step = step]]
    BY <1>1 DEF Goes
<1>4. flow'[s] = IF step \in Endings THEN Fresh(step) ELSE [w EXCEPT !.step = step]
    BY <1>3
<1>5. Edits(flow, flow', s, FlowType)  BY <1>2, <1>3 DEF Edits
<1> QED  BY <1>1, <1>2, <1>4, <1>5 DEF Fresh, FlowType

\* D1: the row of a segment.
LEMMA RowEdit ==
    ASSUME rows \in [Segments -> Rows], NEW s \in Segments, NEW r \in Rows,
           rows' = [rows EXCEPT ![s] = r]
    PROVE  Edits(rows, rows', s, Rows) /\ rows'[s] = r
BY DEF Edits

-----------------------------------------------------------------------------
(* Steps of the workflow alone.                                            *)

FlowNow(s, w) == FlowOK(rows[s], w, calls[s], newest[s], terminal[s], s \in late,
                        Fences(queue, lease, s))

LEMMA FlowStep ==
    ASSUME IInv, NEW s \in Segments, UNCHANGED <<coordinator, late, rows, calls, cleanup>>,
           faults' \in 0..MaxFaults, Edits(flow, flow', s, FlowType), FlowNow(s, flow'[s])
    PROVE  IInv'
<1>1. UNCHANGED <<coordinator, late>> /\ rows' = rows /\ calls' = calls /\ cleanup' = cleanup
    OBVIOUS
<1>2. /\ Edits(rows, rows', s, Rows) /\ Edits(calls, calls', s, CallType)
      /\ Edits(cleanup, cleanup', s, CleanupType)
    BY <1>1, Same DEF IInv, Typed
<1>3. SegOK(rows'[s], flow'[s], calls'[s], cleanup'[s], newest[s], terminal[s],
            s \in late, Fences(queue, lease, s))
    BY <1>1, Here DEF SegNow, SegOK, FlowNow
<1> QED  BY <1>1, <1>2, <1>3, QuietStep

\* A workflow that has given up, or starts anew, claims nothing.
LEMMA Idle ==
    ASSUME NEW w, w.step \in {"errored", "terminated", "replayed", "resume"}, w.losses = 0,
           NEW r, NEW k, NEW n, NEW t, NEW l, NEW F
    PROVE  FlowOK(r, w, k, n, t, l, F)
BY SystemAssumption DEF FlowOK

-----------------------------------------------------------------------------
(* The actions.                                                            *)

LEMMA GivesUp ==
    ASSUME IInv, NEW s \in Segments, NEW step \in {"errored", "terminated", "replayed"},
           Goes(s, step), UNCHANGED <<coordinator, late, rows, calls, cleanup>>,
           faults' \in 0..MaxFaults
    PROVE  IInv'
<1>1. step \in FlowSteps /\ step \in Endings  BY DEF FlowSteps, Endings
<1>2. Edits(flow, flow', s, FlowType) /\ flow'[s].step = step /\ flow'[s].losses = 0
    BY <1>1, GoesFacts DEF IInv, Typed
<1>3. FlowNow(s, flow'[s])  BY <1>2, Idle DEF FlowNow
<1> QED  BY <1>2, <1>3, FlowStep

LEMMA PublishKeeps ==
    ASSUME IInv, NEW s \in Segments, Publish(s)
    PROVE  IInv'
<1>1. UNCHANGED <<coordinator, late, rows, calls, cleanup>> /\ faults' \in 0..MaxFaults
      /\ At(s, "publish")
    BY DEF Publish, IInv, Typed
<1>2. CASE Goes(s, "errored")  BY <1>1, <1>2, GivesUp
<1>3. CASE \E step \in {"expire", "accept"} : Goes(s, step) /\ IsCurrent(s)
    <2>1. PICK step \in {"expire", "accept"} : Goes(s, step) /\ IsCurrent(s)  BY <1>3
    <2>2. step \in FlowSteps /\ step \notin Endings  BY DEF FlowSteps, Endings
    <2>3. /\ Edits(flow, flow', s, FlowType) /\ flow'[s].step = step
          /\ flow'[s].fence = flow[s].fence /\ flow'[s].losses = flow[s].losses
        BY <2>1, <2>2, GoesFacts DEF IInv, Typed
    <2>4. FlowNow(s, flow[s]) /\ flow[s].step = "publish" /\ rows[s].current = flow[s].fence
        BY <1>1, <2>1, Here DEF SegNow, SegOK, FlowNow, At, IsCurrent
    <2>5. FlowNow(s, flow'[s])  BY <2>3, <2>4 DEF FlowNow, FlowOK
    <2> QED  BY <1>1, <2>3, <2>5, FlowStep
<1> QED  BY <1>2, <1>3 DEF Publish

\* The workflow goes on with another step, fence or count.
LEMMA FlowEdit ==
    ASSUME flow \in [Segments -> FlowType], NEW s \in Segments, NEW w \in FlowType,
           flow' = [flow EXCEPT ![s] = w]
    PROVE  Edits(flow, flow', s, FlowType) /\ flow'[s] = w
BY DEF Edits

LEMMA TurnsTo ==
    ASSUME flow \in [Segments -> FlowType], NEW s \in Segments, NEW step \in FlowSteps, NEW f \in Nat,
           \/ flow' = [flow EXCEPT ![s].step = step, ![s].fence = f]
           \/ flow' = [flow EXCEPT ![s].fence = f, ![s].step = step]
    PROVE  /\ Edits(flow, flow', s, FlowType) /\ flow'[s].step = step
           /\ flow'[s].fence = f /\ flow'[s].losses = flow[s].losses
<1>1. PICK w : w = [flow[s] EXCEPT !.step = step, !.fence = f]  OBVIOUS
<1>2. flow[s] \in FlowType  OBVIOUS
<1>3. /\ w \in FlowType /\ w.step = step /\ w.fence = f /\ w.losses = flow[s].losses
      /\ w = [flow[s] EXCEPT !.fence = f, !.step = step]
    BY <1>1, <1>2 DEF FlowType
<1>4. flow' = [flow EXCEPT ![s] = w]  BY <1>1, <1>3
<1> QED  BY <1>3, <1>4, FlowEdit

LEMMA LoseFacts ==
    ASSUME flow \in [Segments -> FlowType], NEW s \in Segments, NEW n \in 0..MaxLosses, Lose(s, n)
    PROVE  /\ Edits(flow, flow', s, FlowType)
           /\ flow'[s].fence = flow[s].fence /\ flow'[s].losses = n
           /\ flow'[s].step = "fail" \/ (flow'[s].step = "replace" /\ n # MaxLosses)
<1>1. PICK step : step = IF n >= MaxLosses \/ Ready(s) THEN "fail" ELSE "replace"  OBVIOUS
<1>2. step \in FlowSteps /\ (step = "fail" \/ (step = "replace" /\ n # MaxLosses))
    BY <1>1, SystemAssumption DEF FlowSteps
<1>3. PICK w : w = [flow[s] EXCEPT !.losses = n, !.step = step]  OBVIOUS
<1>4. w \in FlowType /\ w.step = step /\ w.losses = n /\ w.fence = flow[s].fence
    BY <1>2, <1>3 DEF FlowType
<1>5. flow' = [flow EXCEPT ![s] = w]  BY <1>1, <1>3 DEF Lose
<1> QED  BY <1>2, <1>4, <1>5, FlowEdit

LEMMA ResumeKeeps ==
    ASSUME IInv, NEW s \in Segments, Resume(s)
    PROVE  IInv'
<1>1. UNCHANGED <<coordinator, late, rows, calls, cleanup>> /\ faults' \in 0..MaxFaults
      /\ At(s, "resume")
    BY DEF Resume, IInv, Typed
<1>2. CASE Goes(s, "errored") \/ Goes(s, "replayed")  BY <1>1, <1>2, GivesUp
<1>3. CASE Active(s) /\ rows[s].accepted = 0 /\ ResumeAttempt(s)
    <2>1. PICK r : r = rows[s]  OBVIOUS
    <2>2. r \in Rows /\ r.current \in Nat /\ r.accepted = 0 /\ (r.current # 0 => r.state # "none")
        BY <1>3, <2>1, Here DEF Rows, SegNow, SegOK, RowOK
    <2>3. PICK step :
            step = CASE r.current = 0                            -> "enqueue"
                     [] r.state = "failed"                       -> "retire"
                     [] r.state = "working" /\ ~Holds(s, r.current) -> "retire"
                     [] Ready(s) /\ ~Holds(s, r.current)         -> "expire"
                     [] OTHER                                    -> "work"
        OBVIOUS
    <2>4. flow' = [flow EXCEPT ![s].fence = r.current, ![s].step = step]
        BY <1>3, <2>1, <2>3 DEF ResumeAttempt
    <2>5. \/ step = "enqueue" /\ r.current = 0
          \/ step \in {"retire", "expire", "work"} /\ r.current # 0
        <3>1. CASE r.current = 0
            <4>1. r.state = "none"  BY <2>1, <3>1, Here DEF SegNow, SegOK, RowOK
            <4> QED  BY <2>1, <2>3, <3>1, <4>1 DEF Ready
        <3>2. CASE r.current # 0
            <4>1. r.state \in {"working", "output-ready", "failed"}  BY <2>2, <3>2 DEF Rows
            <4> QED  BY <2>1, <2>3, <3>2, <4>1 DEF Ready
        <3> QED  BY <3>1, <3>2
    <2>6. step \in FlowSteps  BY <2>5 DEF FlowSteps
    <2>7. /\ Edits(flow, flow', s, FlowType) /\ flow'[s].step = step
          /\ flow'[s].fence = r.current /\ flow'[s].losses = flow[s].losses
        BY <2>2, <2>4, <2>6, TurnsTo DEF IInv, Typed
    <2>8. flow[s].losses # MaxLosses  BY <1>1, Here DEF SegNow, SegOK, FlowOK, At
    <2>9. FlowNow(s, flow'[s])
        BY <2>1, <2>2, <2>5, <2>7, <2>8 DEF FlowNow, FlowOK
    <2> QED  BY <1>1, <2>7, <2>9, FlowStep
<1> QED  BY <1>2, <1>3 DEF Resume

LEMMA ContactKeeps ==
    ASSUME IInv, NEW s \in Segments, Contact(s)
    PROVE  IInv'
<1>1. UNCHANGED <<coordinator, late, rows, calls, cleanup>> /\ faults' \in 0..MaxFaults
      /\ At(s, "work")
    BY DEF Contact, IInv, Typed
<1>2. /\ flow[s] \in FlowType /\ flow[s].step = "work" /\ FlowNow(s, flow[s])
      /\ flow[s].losses \in 0..MaxLosses /\ flow[s].losses # MaxLosses /\ flow[s].fence # 0
    BY <1>1, Here DEF SegNow, SegOK, FlowNow, FlowOK, At, FlowType
<1>3. CASE Goes(s, "errored")  BY <1>1, <1>3, GivesUp
<1>4. CASE \E step \in {"expire", "publish", "fail"} : Goes(s, step) /\ IsCurrent(s)
    <2>1. PICK step \in {"expire", "publish", "fail"} : Goes(s, step) /\ IsCurrent(s)  BY <1>4
    <2>2. step \in FlowSteps /\ step \notin Endings  BY DEF FlowSteps, Endings
    <2>3. /\ Edits(flow, flow', s, FlowType) /\ flow'[s].step = step
          /\ flow'[s].fence = flow[s].fence /\ flow'[s].losses = flow[s].losses
        BY <2>1, <2>2, GoesFacts DEF IInv, Typed
    <2>4. rows[s].current # 0  BY <1>2, <2>1 DEF IsCurrent
    <2>5. FlowNow(s, flow'[s])  BY <1>2, <2>3, <2>4 DEF FlowNow, FlowOK
    <2> QED  BY <1>1, <2>3, <2>5, FlowStep
<1>5. CASE Lose(s, flow[s].losses + 1)
    <2>1. flow[s].losses + 1 \in 0..MaxLosses  BY <1>2, SystemAssumption
    <2>2. /\ Edits(flow, flow', s, FlowType)
          /\ flow'[s].fence = flow[s].fence /\ flow'[s].losses = flow[s].losses + 1
          /\ flow'[s].step = "fail" \/ (flow'[s].step = "replace" /\ flow[s].losses + 1 # MaxLosses)
        BY <1>5, <2>1, LoseFacts DEF IInv, Typed
    <2>3. FlowNow(s, flow'[s])  BY <1>2, <2>2 DEF FlowNow, FlowOK
    <2> QED  BY <1>1, <2>2, <2>3, FlowStep
<1> QED  BY <1>3, <1>4, <1>5 DEF Contact

LEMMA BusyKeeps ==
    ASSUME IInv, NEW s \in Segments, Busy(s)
    PROVE  IInv'
<1>1. UNCHANGED <<coordinator, late, rows, calls, cleanup>> /\ faults' \in 0..MaxFaults
      /\ At(s, "work")
    BY SystemAssumption DEF Busy, IInv, Typed
<1>2. /\ flow[s] \in FlowType /\ flow[s].step = "work" /\ FlowNow(s, flow[s])
      /\ flow[s].losses \in 0..MaxLosses /\ flow[s].losses # MaxLosses /\ flow[s].fence # 0
    BY <1>1, Here DEF SegNow, SegOK, FlowNow, FlowOK, At, FlowType
<1>3. /\ Edits(flow, flow', s, FlowType)
      /\ flow'[s].fence = flow[s].fence /\ flow'[s].losses = flow[s].losses
      /\ flow'[s].step = "fail" \/ flow'[s].step = "replace"
    BY <1>2, LoseFacts DEF Busy, IInv, Typed
<1>4. FlowNow(s, flow'[s])  BY <1>2, <1>3 DEF FlowNow, FlowOK
<1> QED  BY <1>1, <1>3, <1>4, FlowStep

LEMMA CrashKeeps ==
    ASSUME IInv, NEW s \in Segments, Crash(s) \/ Restart(s) \/ Terminate(s)
    PROVE  IInv'
<1>1. CASE Crash(s)
    <2>1. faults' \in 0..MaxFaults  BY <1>1, SystemAssumption DEF Crash, IInv, Typed
    <2> QED  BY <1>1, <2>1, GivesUp DEF Crash
<1>2. CASE Terminate(s)
    <2>1. faults' \in 0..MaxFaults  BY <1>2 DEF Terminate, IInv, Typed
    <2> QED  BY <1>2, <2>1, GivesUp DEF Terminate
<1>3. CASE Restart(s)
    <2>1. UNCHANGED <<coordinator, late, rows, calls, cleanup>> /\ faults' \in 0..MaxFaults
        BY <1>3 DEF Restart, IInv, Typed
    <2>2. Fresh("resume") \in FlowType /\ Fresh("resume").step = "resume" /\ Fresh("resume").losses = 0
        BY SystemAssumption DEF Fresh, FlowType, FlowSteps
    <2>3. Edits(flow, flow', s, FlowType) /\ flow'[s] = Fresh("resume")
        BY <1>3, <2>2, FlowEdit DEF Restart, IInv, Typed
    <2>4. FlowNow(s, flow'[s])  BY <2>2, <2>3, Idle DEF FlowNow
    <2> QED  BY <2>1, <2>3, <2>4, FlowStep
<1> QED  BY <1>1, <1>2, <1>3

-----------------------------------------------------------------------------
(* Steps that D1 commits.                                                  *)

LEMMA RowStep ==
    ASSUME IInv, NEW s \in Segments, UNCHANGED <<coordinator, late, calls, cleanup>>,
           faults' \in 0..MaxFaults, NEW m \in Rows, rows' = [rows EXCEPT ![s] = m],
           Edits(flow, flow', s, FlowType),
           SegOK(m, flow'[s], calls[s], cleanup[s], newest[s], terminal[s],
                 s \in late, Fences(queue, lease, s))
    PROVE  IInv'
<1>1. UNCHANGED <<coordinator, late>> /\ calls' = calls /\ cleanup' = cleanup  OBVIOUS
<1>2. Edits(calls, calls', s, CallType) /\ Edits(cleanup, cleanup', s, CleanupType)
    BY <1>1, Same DEF IInv, Typed
<1>3. Edits(rows, rows', s, Rows) /\ rows'[s] = m  BY RowEdit DEF IInv, Typed
<1> QED  BY <1>1, <1>2, <1>3, QuietStep

\* What holds of a segment whose run is active: no cancellation has begun.
LEMMA ActiveNow ==
    ASSUME IInv, NEW s \in Segments, Active(s)
    PROVE  /\ cleanup[s].step = "none" /\ terminal[s] # "cancelled"
           /\ \A m, F : CleanupOK(m, cleanup[s], F)
<1>1. /\ CleanupOK(rows[s], cleanup[s], Fences(queue, lease, s))
      /\ PlaceOK(rows[s], terminal[s], s \in late, Fences(queue, lease, s))
      /\ rows[s].run = "active"
    BY Here DEF SegNow, SegOK, Active
<1>2. cleanup[s].step = "none" /\ terminal[s] # "cancelled"
    BY <1>1 DEF CleanupOK, PlaceOK, IInv, Typed, CleanupType
<1> QED  BY <1>2 DEF CleanupOK

LEMMA RetireAttemptKeeps ==
    ASSUME IInv, NEW s \in Segments, RetireAttempt(s)
    PROVE  IInv'
<1>1. UNCHANGED <<coordinator, late, calls, cleanup>> /\ faults' \in 0..MaxFaults
    BY DEF RetireAttempt, IInv, Typed
<1>2. PICK r, w, F : r = rows[s] /\ w = flow[s] /\ F = Fences(queue, lease, s)  OBVIOUS
<1>3. /\ r \in Rows /\ w \in FlowType /\ w.step \in {"retire", "replace"} /\ w.fence # 0
      /\ w.losses # MaxLosses
      /\ RowOK(r, calls[s], newest[s], F) /\ PlaceOK(r, terminal[s], s \in late, F)
      /\ FlowNow(s, w)
    BY <1>2, Here DEF RetireAttempt, At, SegNow, SegOK, FlowOK, FlowNow
<1>4. CASE IsCurrent(s) /\ (At(s, "replace") => s \notin late)
    <2>1. r.run = "active" /\ r.current # 0 /\ r.accepted = 0
        BY <1>2, <1>3, <1>4 DEF IsCurrent, Active, RowOK
    <2>2. PICK m : m = [r EXCEPT !.current = 0, !.state = "none"]  OBVIOUS
    <2>3. /\ m \in Rows /\ m.current = 0 /\ m.state = "none"
          /\ m.accepted = r.accepted /\ m.run = r.run
        BY <1>3, <2>2 DEF Rows
    <2>4. rows' = [rows EXCEPT ![s] = m]  BY <1>2, <1>4, <2>2 DEF RetireAttempt
    <2>5. /\ Edits(flow, flow', s, FlowType) /\ flow'[s].step \in {"enqueue", "requeue"}
          /\ flow'[s].losses = w.losses
        <3>1. CASE At(s, "replace")
            <4>1. Goes(s, "requeue")  BY <1>4, <3>1 DEF RetireAttempt
            <4>2. "requeue" \in FlowSteps /\ "requeue" \notin Endings  BY DEF FlowSteps, Endings
            <4> QED  BY <1>2, <4>1, <4>2, GoesFacts DEF IInv, Typed
        <3>2. CASE ~At(s, "replace")
            <4>1. flow' = [flow EXCEPT ![s].step = "enqueue", ![s].fence = 0]
                BY <1>4, <3>2 DEF RetireAttempt
            <4>2. "enqueue" \in FlowSteps  BY DEF FlowSteps
            <4> QED  BY <1>2, <4>1, <4>2, TurnsTo DEF IInv, Typed
        <3> QED  BY <3>1, <3>2
    <2>6. RowOK(m, calls[s], newest[s], F)  BY <2>1, <2>3 DEF RowOK
    <2>7. PlaceOK(m, terminal[s], s \in late, F)  BY <1>3, <2>1, <2>3 DEF PlaceOK
    <2>8. FlowOK(m, flow'[s], calls[s], newest[s], terminal[s], s \in late, F)
        BY <1>3, <2>1, <2>3, <2>5 DEF FlowOK
    <2>9. CleanupOK(m, cleanup[s], F)  BY <1>4, ActiveNow DEF IsCurrent
    <2> QED  BY <1>1, <1>2, <2>3, <2>4, <2>5, <2>6, <2>7, <2>8, <2>9, RowStep DEF SegOK
<1>5. CASE ~(IsCurrent(s) /\ (At(s, "replace") => s \notin late))
    <2>1. rows' = rows  BY <1>5 DEF RetireAttempt
    <2>2. CASE ~IsCurrent(s)
        <3>1. Goes(s, "errored")  BY <1>5, <2>2 DEF RetireAttempt
        <3> QED  BY <1>1, <2>1, <3>1, GivesUp
    <2>3. CASE IsCurrent(s)
        <3>1. Goes(s, "expire")  BY <1>5, <2>3 DEF RetireAttempt
        <3>2. "expire" \in FlowSteps /\ "expire" \notin Endings  BY DEF FlowSteps, Endings
        <3>3. /\ Edits(flow, flow', s, FlowType) /\ flow'[s].step = "expire"
              /\ flow'[s].losses = w.losses
            BY <1>2, <3>1, <3>2, GoesFacts DEF IInv, Typed
        <3>4. rows[s].current # 0  BY <1>2, <1>3, <2>3 DEF IsCurrent
        <3>5. FlowNow(s, flow'[s])  BY <1>3, <3>3, <3>4 DEF FlowNow, FlowOK
        <3> QED  BY <1>1, <2>1, <3>3, <3>5, FlowStep
    <2> QED  BY <2>2, <2>3
<1> QED  BY <1>4, <1>5

LEMMA ActivateKeeps ==
    ASSUME IInv, NEW s \in Segments, Activate(s) \/ ActivationUnanswered(s)
    PROVE  IInv'
<1>1. UNCHANGED <<coordinator, late, calls, cleanup>> /\ faults' \in 0..MaxFaults
    BY SystemAssumption DEF Activate, ActivationUnanswered, IInv, Typed
<1>2. PICK r, w, F : r = rows[s] /\ w = flow[s] /\ F = Fences(queue, lease, s)  OBVIOUS
<1>3. /\ r \in Rows /\ w \in FlowType /\ w.step = "activate" /\ w.losses # MaxLosses
      /\ RowOK(r, calls[s], newest[s], F) /\ PlaceOK(r, terminal[s], s \in late, F)
      /\ FlowNow(s, w)
    BY <1>2, Here DEF Activate, ActivationUnanswered, At, SegNow, SegOK, FlowOK, FlowNow
<1>4. calls[s] = "none" /\ w.fence # 0 /\ w.fence = newest[s] /\ F \subseteq {w.fence}
    BY <1>2, <1>3 DEF FlowNow, FlowOK
<1>5. PICK step \in {"work", "give-back"} :
            Goes(s, step) /\ (step = "work" => Activatable(s) /\ rows' = Activated(s))
                          /\ (rows' = rows \/ (Activatable(s) /\ rows' = Activated(s)))
    BY DEF Activate, ActivationUnanswered
<1>6. /\ Edits(flow, flow', s, FlowType) /\ flow'[s].step = step
      /\ flow'[s].fence = w.fence /\ flow'[s].losses = w.losses
    <2>1. step \in FlowSteps /\ step \notin Endings  BY DEF FlowSteps, Endings
    <2> QED  BY <1>2, <1>5, <2>1, GoesFacts DEF IInv, Typed
<1>7. \A m : FlowOK(m, flow'[s], calls[s], newest[s], terminal[s], s \in late, F)
    BY <1>3, <1>4, <1>5, <1>6 DEF FlowOK
<1>8. CASE rows' = rows
    <2>1. FlowNow(s, flow'[s])  BY <1>2, <1>7 DEF FlowNow
    <2> QED  BY <1>1, <1>6, <1>8, <2>1, FlowStep
<1>9. CASE Activatable(s) /\ rows' = Activated(s)
    <2>1. r.run = "active" /\ r.current = 0 /\ r.accepted = 0
        BY <1>2, <1>9 DEF Activatable, Active
    <2>2. PICK m : m = [r EXCEPT !.current = w.fence, !.state = "working"]  OBVIOUS
    <2>3. /\ m \in Rows /\ m.current = w.fence /\ m.state = "working"
          /\ m.accepted = r.accepted /\ m.run = r.run
        BY <1>3, <2>2 DEF Rows, FlowType
    <2>4. rows' = [rows EXCEPT ![s] = m]  BY <1>2, <1>9, <2>2 DEF Activated
    <2>5. RowOK(m, calls[s], newest[s], F)  BY <1>4, <2>1, <2>3 DEF RowOK
    <2>6. PlaceOK(m, terminal[s], s \in late, F)  BY <1>3, <2>1, <2>3 DEF PlaceOK
    <2>7. CleanupOK(m, cleanup[s], F)  BY <1>9, ActiveNow DEF Activatable
    <2> QED  BY <1>1, <1>2, <1>6, <1>7, <2>3, <2>4, <2>5, <2>6, <2>7, RowStep DEF SegOK
<1> QED  BY <1>5, <1>8, <1>9

LEMMA SynchronizeKeeps ==
    ASSUME IInv, NEW s \in Segments, Synchronize(s)
    PROVE  IInv'
<1>1. UNCHANGED <<coordinator, late, calls, cleanup>> /\ faults' \in 0..MaxFaults /\ flow' = flow
    BY DEF Synchronize, IInv, Typed
<1>2. PICK r, w, F : r = rows[s] /\ w = flow[s] /\ F = Fences(queue, lease, s)  OBVIOUS
<1>3. /\ r \in Rows /\ w \in FlowType /\ w.step = "work" /\ w.fence # 0
      /\ r.run = "active" /\ r.current = w.fence
      /\ RowOK(r, calls[s], newest[s], F) /\ PlaceOK(r, terminal[s], s \in late, F)
      /\ FlowNow(s, w)
    BY <1>2, Here DEF Synchronize, At, IsCurrent, Active, SegNow, SegOK, FlowOK, FlowNow
<1>4. PICK m : m = [r EXCEPT !.state = "output-ready"]  OBVIOUS
<1>5. /\ m \in Rows /\ m.current = r.current /\ m.state = "output-ready"
      /\ m.accepted = r.accepted /\ m.run = r.run
    BY <1>3, <1>4 DEF Rows
<1>6. rows' = [rows EXCEPT ![s] = m]  BY <1>2, <1>4 DEF Synchronize
<1>7. RowOK(m, calls[s], newest[s], F)  BY <1>3, <1>5 DEF RowOK
<1>8. PlaceOK(m, terminal[s], s \in late, F)  BY <1>3, <1>5 DEF PlaceOK
<1>9. FlowOK(m, w, calls[s], newest[s], terminal[s], s \in late, F)
    BY <1>2, <1>3, <1>5 DEF FlowOK, FlowNow
<1>10. CleanupOK(m, cleanup[s], F)  BY ActiveNow DEF Synchronize, IsCurrent
<1>11. Edits(flow, flow', s, FlowType) /\ flow'[s] = w  BY <1>1, <1>2, Same DEF IInv, Typed
<1> QED  BY <1>1, <1>2, <1>5, <1>6, <1>7, <1>8, <1>9, <1>10, <1>11, RowStep DEF SegOK

LEMMA AcceptKeeps ==
    ASSUME IInv, NEW s \in Segments, Accept(s)
    PROVE  IInv'
<1>1. UNCHANGED <<coordinator, late, calls, cleanup>> /\ faults' \in 0..MaxFaults
    BY DEF Accept, IInv, Typed
<1>2. CASE ~Acceptable(s)
    <2>1. Goes(s, "errored") /\ rows' = rows  BY <1>2 DEF Accept
    <2> QED  BY <1>1, <2>1, GivesUp
<1>3. CASE Acceptable(s)
    <2>1. PICK r, w, F : r = rows[s] /\ w = flow[s] /\ F = Fences(queue, lease, s)  OBVIOUS
    <2>2. /\ r \in Rows /\ w \in FlowType /\ w.step = "accept" /\ w.fence # 0
          /\ w.losses # MaxLosses /\ r.run = "active" /\ r.current = w.fence
          /\ RowOK(r, calls[s], newest[s], F) /\ PlaceOK(r, terminal[s], s \in late, F)
        BY <1>3, <2>1, Here
        DEF Accept, At, Acceptable, IsCurrent, Active, SegNow, SegOK, FlowOK
    <2>3. PICK m : m = [r EXCEPT !.accepted = w.fence, !.current = 0, !.state = "none"]  OBVIOUS
    <2>4. /\ m \in Rows /\ m.current = 0 /\ m.state = "none"
          /\ m.accepted = w.fence /\ m.run = r.run
        BY <2>2, <2>3 DEF Rows, FlowType
    <2>5. rows' = [rows EXCEPT ![s] = m]  BY <1>3, <2>1, <2>3 DEF Accept
    <2>6. RowOK(m, calls[s], newest[s], F)  BY <2>2, <2>4 DEF RowOK
    <2>7. terminal[s] # "cancelled"  BY <1>3, ActiveNow DEF Acceptable, IsCurrent
    <2>8. PlaceOK(m, terminal[s], s \in late, F)  BY <2>2, <2>4, <2>7 DEF PlaceOK
    <2>9. CleanupOK(m, cleanup[s], F)  BY <1>3, ActiveNow DEF Acceptable, IsCurrent
    <2>10. Goes(s, "finish")  BY <1>3 DEF Accept
    <2>11. "finish" \in FlowSteps /\ "finish" \notin Endings  BY DEF FlowSteps, Endings
    <2>12. /\ Edits(flow, flow', s, FlowType) /\ flow'[s].step = "finish"
           /\ flow'[s].fence = w.fence /\ flow'[s].losses = w.losses
        BY <2>1, <2>10, <2>11, GoesFacts DEF IInv, Typed
    <2>13. FlowOK(m, flow'[s], calls[s], newest[s], terminal[s], s \in late, F)
        BY <2>2, <2>4, <2>12 DEF FlowOK
    <2> QED  BY <1>1, <2>1, <2>4, <2>5, <2>6, <2>8, <2>9, <2>12, <2>13, RowStep DEF SegOK
<1> QED  BY <1>2, <1>3

LEMMA FailKeeps ==
    ASSUME IInv, NEW s \in Segments, Fail(s)
    PROVE  IInv'
<1>1. UNCHANGED <<coordinator, late, calls, cleanup>> /\ faults' \in 0..MaxFaults
    BY DEF Fail, IInv, Typed
<1>2. CASE ~IsCurrent(s)
    <2>1. Goes(s, "errored") /\ rows' = rows  BY <1>2 DEF Fail
    <2> QED  BY <1>1, <2>1, GivesUp
<1>3. CASE IsCurrent(s)
    <2>1. PICK r, w, F : r = rows[s] /\ w = flow[s] /\ F = Fences(queue, lease, s)  OBVIOUS
    <2>2. /\ r \in Rows /\ w \in FlowType /\ w.fence # 0 /\ r.run = "active" /\ r.current = w.fence
          /\ RowOK(r, calls[s], newest[s], F) /\ PlaceOK(r, terminal[s], s \in late, F)
        BY <1>3, <2>1, Here DEF Fail, At, IsCurrent, Active, SegNow, SegOK, FlowOK
    <2>3. PICK m : m = [r EXCEPT !.state = "failed"]  OBVIOUS
    <2>4. /\ m \in Rows /\ m.current = r.current /\ m.state = "failed"
          /\ m.accepted = r.accepted /\ m.run = r.run
        BY <2>2, <2>3 DEF Rows
    <2>5. rows' = [rows EXCEPT ![s] = m]  BY <1>3, <2>1, <2>3 DEF Fail
    <2>6. RowOK(m, calls[s], newest[s], F)  BY <2>2, <2>4 DEF RowOK
    <2>7. PlaceOK(m, terminal[s], s \in late, F)  BY <2>2, <2>4 DEF PlaceOK
    <2>8. CleanupOK(m, cleanup[s], F)  BY <1>3, ActiveNow DEF IsCurrent
    <2>9. Goes(s, "release-failed")  BY <1>3 DEF Fail
    <2>10. "release-failed" \in FlowSteps /\ "release-failed" \notin Endings  BY DEF FlowSteps, Endings
    <2>11. /\ Edits(flow, flow', s, FlowType) /\ flow'[s].step = "release-failed"
           /\ flow'[s].fence = w.fence
        BY <2>1, <2>9, <2>10, GoesFacts DEF IInv, Typed
    <2>12. FlowOK(m, flow'[s], calls[s], newest[s], terminal[s], s \in late, F)
        BY <2>2, <2>4, <2>11 DEF FlowOK
    <2> QED  BY <1>1, <2>1, <2>4, <2>5, <2>6, <2>7, <2>8, <2>11, <2>12, RowStep DEF SegOK
<1> QED  BY <1>2, <1>3

LEMMA ExpireKeeps ==
    ASSUME IInv, NEW s \in Segments, Expire(s)
    PROVE  IInv'
<1>1. UNCHANGED <<coordinator, late, calls, cleanup>> /\ faults' \in 0..MaxFaults
    BY DEF Expire, IInv, Typed
<1>2. CASE ~Active(s)
    <2>1. Goes(s, "errored") /\ rows' = rows  BY <1>2 DEF Expire
    <2> QED  BY <1>1, <2>1, GivesUp
<1>3. CASE Active(s)
    <2>1. PICK r, w, F, f : r = rows[s] /\ w = flow[s] /\ F = Fences(queue, lease, s) /\ f = r.current
        OBVIOUS
    <2>2. /\ r \in Rows /\ w \in FlowType /\ w.losses # MaxLosses /\ r.run = "active"
          /\ s \in late \/ r.current # 0
          /\ RowOK(r, calls[s], newest[s], F) /\ PlaceOK(r, terminal[s], s \in late, F)
        BY <1>3, <2>1, Here DEF Expire, At, Active, SegNow, SegOK, FlowOK
    <2>3. PICK m : m = [r EXCEPT !.run = "failed"]  OBVIOUS
    <2>4. /\ m \in Rows /\ m.current = r.current /\ m.state = r.state
          /\ m.accepted = r.accepted /\ f \in Nat
        BY <2>1, <2>2, <2>3 DEF Rows
    <2>5. rows' = [rows EXCEPT ![s] = m]  BY <1>3, <2>1, <2>3 DEF Expire
    <2>6. RowOK(m, calls[s], newest[s], F)  BY <2>2, <2>4 DEF RowOK
    <2>7. terminal[s] # "cancelled"  BY <1>3, ActiveNow
    <2>8. PlaceOK(m, terminal[s], s \in late, F)  BY <2>2, <2>4, <2>7 DEF PlaceOK
    <2>9. CleanupOK(m, cleanup[s], F)  BY <1>3, ActiveNow
    <2>10. flow' = [flow EXCEPT ![s].step = "release-expired", ![s].fence = f]
        BY <1>3, <2>1 DEF Expire
    <2>11. "release-expired" \in FlowSteps  BY DEF FlowSteps
    <2>12. /\ Edits(flow, flow', s, FlowType) /\ flow'[s].step = "release-expired"
           /\ flow'[s].fence = f /\ flow'[s].losses = w.losses
        <3>1. flow \in [Segments -> FlowType] /\ f \in Nat  BY <2>4 DEF IInv, Typed
        <3>2. /\ Edits(flow, flow', s, FlowType) /\ flow'[s].step = "release-expired"
              /\ flow'[s].fence = f /\ flow'[s].losses = flow[s].losses
            BY <2>10, <2>11, <3>1, TurnsTo
        <3> QED  BY <2>1, <3>2
    <2>13. FlowOK(m, flow'[s], calls[s], newest[s], terminal[s], s \in late, F)
        BY <2>1, <2>2, <2>4, <2>12 DEF FlowOK
    <2> QED  BY <1>1, <2>1, <2>4, <2>5, <2>6, <2>8, <2>9, <2>12, <2>13, RowStep DEF SegOK
<1> QED  BY <1>2, <1>3

-----------------------------------------------------------------------------
(* Steps of the coordinator.                                               *)

\* A step after which no segment has a place it did not have.
LEMMA LineStep ==
    ASSUME IInv, NEW s \in Segments,
           UNCHANGED <<fence, terminal, newest, late, rows, calls, cleanup>>,
           faults' \in 0..MaxFaults, LineOK(queue', lease'),
           \A d \in Segments : Fences(queue', lease', d) \subseteq Fences(queue, lease, d),
           Edits(flow, flow', s, FlowType),
           FlowOK(rows[s], flow'[s], calls[s], newest[s], terminal[s], s \in late,
                  Fences(queue', lease', s))
    PROVE  IInv'
<1>1. /\ fence' = fence /\ terminal' = terminal /\ newest' = newest /\ late' = late
      /\ rows' = rows /\ calls' = calls /\ cleanup' = cleanup
    OBVIOUS
<1>2. /\ Edits(rows, rows', s, Rows) /\ Edits(calls, calls', s, CallType)
      /\ Edits(cleanup, cleanup', s, CleanupType) /\ Edits(terminal, terminal', s, TerminalType)
      /\ Edits(newest, newest', s, Nat) /\ fence' \in Nat /\ late' \subseteq Segments
    BY <1>1, Same DEF IInv, Typed
<1>3. SegOK(rows[s], flow[s], calls[s], cleanup[s], newest[s], terminal[s],
            s \in late, Fences(queue', lease', s))
    BY Here, FewerPlaces DEF SegNow
<1>4. SegNow(s)'  BY <1>1, <1>3 DEF SegNow, SegOK
<1> QED  BY <1>1, <1>2, <1>4, SegmentStep

LEMMA LapseKeeps ==
    ASSUME IInv, Lapse
    PROVE  IInv'
<1>1. LineOK(queue, lease) /\ lease # NoLease  BY DEF IInv, Lapse
<1>2. PICK s \in Segments : s = lease.segmentId  BY <1>1 DEF LineOK, LeaseType
<1>3. LineOK(queue', lease')
      /\ \A d \in Segments : Fences(queue', lease', d) \subseteq Fences(queue, lease, d)
    BY <1>1, GiveBackLine DEF Lapse
<1>4. UNCHANGED <<fence, terminal, newest, late, rows, calls, cleanup>> /\ flow' = flow
      /\ faults' \in 0..MaxFaults
    BY DEF Lapse, IInv, Typed
<1>5. Edits(flow, flow', s, FlowType)  BY <1>4, Same DEF IInv, Typed
<1>6. SegOK(rows[s], flow[s], calls[s], cleanup[s], newest[s], terminal[s],
            s \in late, Fences(queue', lease', s))
    BY <1>3, Here, FewerPlaces DEF SegNow
<1> QED  BY <1>3, <1>4, <1>5, <1>6, LineStep DEF SegOK

LEMMA RequeueKeeps ==
    ASSUME IInv, NEW s \in Segments, Requeue(s)
    PROVE  IInv'
<1>1. LineOK(queue, lease) /\ NoLease.segmentId # s  BY SystemAssumption DEF IInv, NoLease
<1>2. UNCHANGED <<fence, terminal, newest, late, rows, calls, cleanup>>
      /\ faults' \in 0..MaxFaults /\ At(s, "requeue")
    BY DEF Requeue, IInv, Typed
<1>3. LineOK(queue', lease')
      /\ \A d \in Segments : Fences(queue', lease', d) \subseteq Fences(queue, lease, d)
    <2>1. CASE Holds(s, flow[s].fence)
        <3>1. lease # NoLease /\ queue' = GivenBack /\ lease' = NoLease
            BY <1>1, <2>1 DEF Requeue, Holds
        <3> QED  BY <1>1, <3>1, GiveBackLine
    <2>2. CASE ~Holds(s, flow[s].fence)
        <3>1. queue' = queue /\ lease' = lease  BY <2>2 DEF Requeue
        <3> QED  BY <1>1, <3>1
    <2> QED  BY <2>1, <2>2
<1>4. PICK w : w = flow[s]  OBVIOUS
<1>5. /\ w.step = "requeue" /\ w.losses # MaxLosses
      /\ rows[s].current = 0 /\ rows[s].accepted = 0
    BY <1>2, <1>4, Here DEF At, SegNow, SegOK, FlowOK
<1>6. Edits(flow, flow', s, FlowType)
      /\ \/ flow'[s].step = "errored" /\ flow'[s].losses = 0
         \/ flow'[s].step = "enqueue" /\ flow'[s].losses = w.losses
    <2>1. CASE Goes(s, "errored")
        <3>1. "errored" \in FlowSteps /\ "errored" \in Endings  BY DEF FlowSteps, Endings
        <3> QED  BY <2>1, <3>1, GoesFacts DEF IInv, Typed
    <2>2. CASE flow' = [flow EXCEPT ![s].step = "enqueue", ![s].fence = 0]
        <3>1. "enqueue" \in FlowSteps  BY DEF FlowSteps
        <3> QED  BY <1>4, <2>2, <3>1, TurnsTo DEF IInv, Typed
    <2> QED  BY <2>1, <2>2 DEF Requeue
<1>7. PICK F : F = Fences(queue', lease', s)  OBVIOUS
<1>8. FlowOK(rows[s], flow'[s], calls[s], newest[s], terminal[s], s \in late, F)
    BY <1>5, <1>6, SystemAssumption DEF FlowOK
<1> QED  BY <1>2, <1>3, <1>6, <1>7, <1>8, LineStep

LEMMA GiveBackKeeps ==
    ASSUME IInv, NEW s \in Segments, GiveBack(s) \/ ReleaseAtEnd(s)
    PROVE  IInv'
<1>1. Release(s, flow[s].fence) /\ UNCHANGED <<late, rows, calls, cleanup, faults>>
    BY DEF GiveBack, ReleaseAtEnd
<1>2. UNCHANGED <<fence, terminal, newest, late, rows, calls, cleanup>> /\ faults' \in 0..MaxFaults
    BY <1>1 DEF Release, IInv, Typed
<1>3. PICK r, w, F, G : /\ r = rows[s] /\ w = flow[s] /\ F = Fences(queue, lease, s)
                        /\ G = Fences(queue', lease', s)
    OBVIOUS
<1>4. w \in FlowType /\ w.fence \in Nat  BY <1>3, Here DEF FlowType
<1>5. /\ LineOK(queue', lease')
      /\ \A d \in Segments : Fences(queue', lease', d) \subseteq Fences(queue, lease, d)
      /\ G \subseteq F \ {w.fence}
    <2>1. LineOK(queue, lease) /\ Release(s, w.fence)  BY <1>1, <1>3 DEF IInv
    <2>2. /\ LineOK(queue', lease')
          /\ \A d \in Segments \ {s} : Fences(queue', lease', d) = Fences(queue, lease, d)
          /\ Fences(queue', lease', s) \subseteq Fences(queue, lease, s) \ {w.fence}
        BY <1>4, <2>1, ReleaseLine
    <2> QED  BY <1>3, <2>2
<1>6. \/ GiveBack(s) /\ Goes(s, "errored")
      \/ w.step = "release-failed" /\ Goes(s, "failed")
      \/ w.step = "release-expired" /\ Goes(s, "expired")
    BY <1>3 DEF GiveBack, ReleaseAtEnd, At
<1>7. PICK step \in {"errored", "failed", "expired"} :
            /\ Goes(s, step)
            /\ step = "failed" => w.step = "release-failed"
            /\ step = "expired" => w.step = "release-expired"
    BY <1>6
<1>8. Edits(flow, flow', s, FlowType) /\ flow'[s].step = step /\ flow'[s].losses = 0
    <2>1. step \in FlowSteps /\ step \in Endings  BY DEF FlowSteps, Endings
    <2> QED  BY <1>7, <2>1, GoesFacts DEF IInv, Typed
<1>9. /\ step = "failed" => r.current # 0 /\ G = {}
      /\ step = "expired" => (s \in late \/ r.current # 0) /\ G = {}
    <2>1. /\ RowOK(r, calls[s], newest[s], F) /\ PlaceOK(r, terminal[s], s \in late, F)
          /\ FlowOK(r, w, calls[s], newest[s], terminal[s], s \in late, F)
        BY <1>3, Here DEF SegNow, SegOK
    <2>2. CASE step = "failed"
        <3>1. r.current # 0 /\ w.fence = r.current  BY <1>7, <2>1, <2>2 DEF FlowOK
        <3>2. F \subseteq {w.fence}  BY <2>1, <3>1 DEF RowOK
        <3> QED  BY <1>5, <2>2, <3>1, <3>2
    <2>3. CASE step = "expired"
        <3>1. (s \in late \/ r.current # 0) /\ w.fence = r.current  BY <1>7, <2>1, <2>3 DEF FlowOK
        <3>2. F \subseteq {w.fence}  BY <2>1, <3>1 DEF RowOK, PlaceOK
        <3> QED  BY <1>5, <2>3, <3>1, <3>2
    <2> QED  BY <2>2, <2>3
<1>10. FlowOK(r, flow'[s], calls[s], newest[s], terminal[s], s \in late, G)
    BY <1>8, <1>9, SystemAssumption DEF FlowOK
<1> QED  BY <1>2, <1>3, <1>5, <1>8, <1>10, LineStep

LEMMA FinishKeeps ==
    ASSUME IInv, NEW s \in Segments, Finish(s)
    PROVE  IInv'
<1>1. /\ UNCHANGED <<queue, fence, newest, late, rows, calls, cleanup>>
      /\ faults' \in 0..MaxFaults /\ At(s, "finish")
    BY DEF Finish, IInv, Typed
<1>2. CASE ~Holds(s, flow[s].fence)
    <2>1. Goes(s, "errored") /\ lease' = lease /\ terminal' = terminal  BY <1>2 DEF Finish
    <2> QED  BY <1>1, <2>1, GivesUp DEF coordinator
<1>3. CASE Holds(s, flow[s].fence)
    <2>1. Goes(s, "completed") /\ lease' = NoLease /\ terminal' = Mark(s, "completed")
        BY <1>3 DEF Finish
    <2>2. LineOK(queue, lease) /\ Served(s)  BY <1>3 DEF Holds, Served, IInv
    <2>3. /\ LineOK(queue', lease')
          /\ \A d \in Segments \ {s} : Fences(queue', lease', d) \subseteq Fences(queue, lease, d)
          /\ Fences(queue', lease', s) = {}
        BY <1>1, <2>1, <2>2, EndLease
    <2>4. PICK r, w, F : r = rows[s] /\ w = flow[s] /\ F = Fences(queue, lease, s)  OBVIOUS
    <2>5. /\ w.step = "finish" /\ F # {}
          /\ RowOK(r, calls[s], newest[s], F) /\ PlaceOK(r, terminal[s], s \in late, F)
          /\ CleanupOK(r, cleanup[s], F) /\ FlowNow(s, w)
        BY <1>1, <2>2, <2>4, Here, PlacesNow DEF At, SegNow, SegOK, FlowNow
    <2>6. terminal[s] = "none" /\ r.accepted # 0 /\ r.accepted = w.fence /\ w.fence # 0
        BY <2>4, <2>5 DEF PlaceOK, FlowNow, FlowOK
    <2>7. Edits(terminal, terminal', s, TerminalType) /\ terminal'[s] = "completed"
        BY <2>1, <2>6 DEF Edits, Mark, IInv, Typed, TerminalType
    <2>8. Edits(flow, flow', s, FlowType) /\ flow'[s].step = "completed" /\ flow'[s].losses = 0
        <3>1. "completed" \in FlowSteps /\ "completed" \in Endings  BY DEF FlowSteps, Endings
        <3> QED  BY <2>1, <3>1, GoesFacts DEF IInv, Typed
    <2>9. SegOK(r, flow'[s], calls[s], cleanup[s], newest[s], terminal'[s], s \in late, {})
        <3>1. RowOK(r, calls[s], newest[s], {})  BY <2>5 DEF RowOK
        <3>2. PlaceOK(r, terminal'[s], s \in late, {})  BY <2>6, <2>7 DEF PlaceOK
        <3>3. CleanupOK(r, cleanup[s], {})  BY <2>5 DEF CleanupOK
        <3>4. FlowOK(r, flow'[s], calls[s], newest[s], terminal'[s], s \in late, {})
            BY <2>7, <2>8, SystemAssumption DEF FlowOK
        <3> QED  BY <3>1, <3>2, <3>3, <3>4 DEF SegOK
    <2>10. SegNow(s)'  BY <1>1, <2>3, <2>4, <2>9 DEF SegNow
    <2>11. /\ Edits(rows, rows', s, Rows) /\ Edits(calls, calls', s, CallType)
           /\ Edits(cleanup, cleanup', s, CleanupType) /\ Edits(newest, newest', s, Nat)
           /\ fence' \in Nat /\ late' \subseteq Segments /\ late' = late
        BY <1>1, Same DEF IInv, Typed
    <2> QED  BY <1>1, <2>3, <2>7, <2>8, <2>10, <2>11, SegmentStep
<1> QED  BY <1>2, <1>3

LEMMA AskKeeps ==
    ASSUME IInv, NEW s \in Segments, NEW from, NEW call, Ask(s, from, call),
           \/ from = "enqueue" /\ call = "enqueuing"
           \/ from = "acquire" /\ call = "acquiring"
    PROVE  IInv'
<1>1. UNCHANGED <<coordinator, late, rows, cleanup>> /\ faults' \in 0..MaxFaults
      /\ At(s, from) /\ calls[s] = "none"
    BY DEF Ask, IInv, Typed
<1>2. PICK r, w, F : r = rows[s] /\ w = flow[s] /\ F = Fences(queue, lease, s)  OBVIOUS
<1>3. /\ w.step = from /\ w.losses # MaxLosses /\ r.current = 0 /\ r.accepted = 0
      /\ RowOK(r, calls[s], newest[s], F) /\ PlaceOK(r, terminal[s], s \in late, F)
      /\ CleanupOK(r, cleanup[s], F) /\ FlowNow(s, w)
    BY <1>1, <1>2, Here DEF At, SegNow, SegOK, FlowNow, FlowOK
<1>4. CASE Active(s) /\ s \notin late
    <2>1. calls' = [calls EXCEPT ![s] = call] /\ Goes(s, call)  BY <1>4 DEF Ask
    <2>2. call \in FlowSteps /\ call \notin Endings /\ call \in CallType
        BY DEF FlowSteps, Endings, CallType
    <2>3. Edits(flow, flow', s, FlowType) /\ flow'[s].step = call /\ flow'[s].losses = w.losses
        BY <1>2, <2>1, <2>2, GoesFacts DEF IInv, Typed
    <2>4. Edits(calls, calls', s, CallType) /\ calls'[s] = call
        BY <2>1, <2>2 DEF Edits, IInv, Typed
    <2>5. Edits(rows, rows', s, Rows) /\ Edits(cleanup, cleanup', s, CleanupType)
        BY <1>1, Same DEF IInv, Typed
    <2>6. RowOK(r, calls'[s], newest[s], F)  BY <1>3 DEF RowOK
    <2>7. FlowOK(r, flow'[s], calls'[s], newest[s], terminal[s], s \in late, F)
        BY <1>3, <2>3 DEF FlowOK
    <2>8. SegOK(rows'[s], flow'[s], calls'[s], cleanup'[s], newest[s], terminal[s], s \in late,
                Fences(queue, lease, s))
        BY <1>1, <1>2, <1>3, <2>6, <2>7 DEF SegOK
    <2>9. UNCHANGED <<coordinator, late>>  BY <1>1
    <2> QED  BY <1>1, <2>3, <2>4, <2>5, <2>8, <2>9, QuietStep
<1>5. CASE ~Active(s)
    <2>1. Goes(s, "errored") /\ calls' = calls  BY <1>5 DEF Ask
    <2> QED  BY <1>1, <2>1, GivesUp
<1>6. CASE Active(s) /\ s \in late
    <2>1. Goes(s, "expire") /\ calls' = calls  BY <1>6 DEF Ask
    <2>2. "expire" \in FlowSteps /\ "expire" \notin Endings  BY DEF FlowSteps, Endings
    <2>3. Edits(flow, flow', s, FlowType) /\ flow'[s].step = "expire" /\ flow'[s].losses = w.losses
        BY <1>2, <2>1, <2>2, GoesFacts DEF IInv, Typed
    <2>4. FlowNow(s, flow'[s])  BY <1>3, <1>6, <2>3 DEF FlowNow, FlowOK
    <2> QED  BY <1>1, <2>1, <2>3, <2>4, FlowStep
<1> QED  BY <1>4, <1>5, <1>6

\* While a call is on its way its segment has no attempt and no evidence.
LEMMA CallNow ==
    ASSUME IInv, NEW s \in Segments, calls[s] # "none"
    PROVE  /\ rows[s].current = 0 /\ rows[s].accepted = 0 /\ rows[s].state = "none"
           /\ flow[s].step \notin {"activate", "failed"}
           /\ \A k, n, F : RowOK(rows[s], k, n, F)
           /\ \A F : CleanupOK(rows[s], cleanup[s], F)
<1>1. PICK r, F : r = rows[s] /\ F = Fences(queue, lease, s)  OBVIOUS
<1>2. /\ RowOK(r, calls[s], newest[s], F) /\ CleanupOK(r, cleanup[s], F)
      /\ FlowOK(r, flow[s], calls[s], newest[s], terminal[s], s \in late, F)
    BY <1>1, Here DEF SegNow, SegOK
<1>3. r.current = 0 /\ r.accepted = 0 /\ r.state = "none"  BY <1>2 DEF RowOK
<1>4. flow[s].step \notin {"activate", "failed"}  BY <1>2, <1>3 DEF FlowOK
<1>5. ASSUME NEW G  PROVE CleanupOK(r, cleanup[s], G)  BY <1>2, <1>3 DEF CleanupOK
<1>6. \A k, n, G : RowOK(r, k, n, G)  BY <1>3 DEF RowOK
<1> QED  BY <1>1, <1>3, <1>4, <1>5, <1>6

LEMMA EnqueueKeeps ==
    ASSUME IInv, NEW s \in Segments, Enqueue(s)
    PROVE  IInv'
<1>1. UNCHANGED <<lease, fence, terminal, newest, late, rows, cleanup>> /\ faults' \in 0..MaxFaults
      /\ calls[s] = "enqueuing"
    BY DEF Enqueue, IInv, Typed
<1>2. PICK r, w, F, G : /\ r = rows[s] /\ w = flow[s] /\ F = Fences(queue, lease, s)
                        /\ G = Fences(queue', lease', s)
    OBVIOUS
<1>3. LineOK(queue, lease)  BY DEF IInv
<1>4. /\ r.current = 0 /\ r.accepted = 0 /\ w.step \notin {"activate", "failed"}
      /\ \A k, n, H : RowOK(r, k, n, H)
      /\ \A H : CleanupOK(r, cleanup[s], H)
    BY <1>1, <1>2, CallNow
<1>5. /\ w \in FlowType /\ PlaceOK(r, terminal[s], s \in late, F)
      /\ FlowOK(r, w, calls[s], newest[s], terminal[s], s \in late, F)
    BY <1>2, Here DEF SegNow, SegOK
<1>6. /\ LineOK(queue', lease')
      /\ \A d \in Segments \ {s} : Fences(queue', lease', d) \subseteq Fences(queue, lease, d)
      /\ G = F \/ (s \notin late /\ terminal[s] = "none")
    <2>1. CASE s \in late \/ terminal[s] # "none" \/ Waits(s) \/ Served(s)
        BY <1>1, <1>2, <1>3, <2>1 DEF Enqueue
    <2>2. CASE ~(s \in late \/ terminal[s] # "none" \/ Waits(s) \/ Served(s))
        <3>1. queue' = Append(queue, Place(s)) /\ lease' = lease  BY <1>1, <2>2 DEF Enqueue
        <3> QED  BY <1>3, <2>2, <3>1, JoinLine
    <2> QED  BY <2>1, <2>2
<1>7. PlaceOK(r, terminal[s], s \in late, G)  BY <1>5, <1>6 DEF PlaceOK
<1>8. PICK m : m = [w EXCEPT !.step = IF s \in late THEN "expire" ELSE "acquire"]  OBVIOUS
<1>9. /\ m \in FlowType /\ m.losses = w.losses
      /\ m.step = "acquire" \/ (m.step = "expire" /\ s \in late)
    BY <1>5, <1>8 DEF FlowType, FlowSteps
<1>10. Edits(flow, flow', s, FlowType)
       /\ (flow'[s] = w \/ (flow'[s] = m /\ w.step = "enqueuing"))
    <2>1. CASE At(s, "enqueuing")
        <3>1. flow' = [flow EXCEPT ![s] = m]  BY <1>1, <1>2, <1>8, <2>1 DEF Enqueue, Answered
        <3> QED  BY <1>2, <1>9, <2>1, <3>1, FlowEdit DEF IInv, Typed, At
    <2>2. CASE ~At(s, "enqueuing")
        <3>1. flow' = flow  BY <1>1, <2>2 DEF Enqueue, Answered
        <3> QED  BY <1>2, <3>1, Same DEF IInv, Typed
    <2> QED  BY <2>1, <2>2
<1>11. Edits(calls, calls', s, CallType) /\ calls'[s] = "none"
    BY DEF Enqueue, Answered, Edits, CallType, IInv, Typed
<1>12. FlowOK(r, flow'[s], "none", newest[s], terminal[s], s \in late, G)
    <2>1. CASE flow'[s] = w
        BY <1>1, <1>4, <1>5, <1>6, <2>1 DEF FlowOK
    <2>2. CASE flow'[s] = m /\ w.step = "enqueuing"
        BY <1>4, <1>5, <1>9, <2>2 DEF FlowOK
    <2> QED  BY <1>10, <2>1, <2>2
<1>13. SegNow(s)'
    BY <1>1, <1>2, <1>4, <1>7, <1>11, <1>12 DEF SegNow, SegOK
<1>14. /\ Edits(rows, rows', s, Rows) /\ Edits(cleanup, cleanup', s, CleanupType)
       /\ Edits(terminal, terminal', s, TerminalType) /\ Edits(newest, newest', s, Nat)
       /\ fence' \in Nat /\ late' \subseteq Segments /\ late' = late
    BY <1>1, Same DEF IInv, Typed
<1> QED  BY <1>1, <1>6, <1>10, <1>11, <1>13, <1>14, SegmentStep

LEMMA AcquireKeeps ==
    ASSUME IInv, NEW s \in Segments, Acquire(s)
    PROVE  IInv'
<1>1. UNCHANGED <<terminal, late, rows, cleanup>> /\ faults' \in 0..MaxFaults
      /\ calls[s] = "acquiring"
    BY DEF Acquire, IInv, Typed
<1>2. PICK r, w, F, f : /\ r = rows[s] /\ w = flow[s] /\ F = Fences(queue, lease, s)
                        /\ f = fence + 1
    OBVIOUS
<1>3. LineOK(queue, lease) /\ f \in Nat /\ f # 0  BY <1>2 DEF IInv, Typed
<1>4. /\ r.current = 0 /\ r.accepted = 0 /\ w.step \notin {"activate", "failed"}
      /\ \A k, n, H : RowOK(r, k, n, H)
      /\ \A H : CleanupOK(r, cleanup[s], H)
    BY <1>1, <1>2, CallNow
<1>5. /\ w \in FlowType /\ PlaceOK(r, terminal[s], s \in late, F)
      /\ FlowOK(r, w, calls[s], newest[s], terminal[s], s \in late, F)
    BY <1>2, Here DEF SegNow, SegOK
<1>6. /\ Edits(rows, rows', s, Rows) /\ Edits(cleanup, cleanup', s, CleanupType)
      /\ Edits(terminal, terminal', s, TerminalType)
      /\ late' \subseteq Segments /\ late' = late
    BY <1>1, Same DEF IInv, Typed
<1>7. Edits(calls, calls', s, CallType) /\ calls'[s] = "none"
    <2>1. calls' = [calls EXCEPT ![s] = "none"]  BY DEF Acquire, Answered
    <2> QED  BY <2>1 DEF Edits, CallType, IInv, Typed
<1>8. CASE lease = NoLease /\ queue # << >> /\ Head(queue).segmentId = s
    <2>1. /\ queue' = Tail(queue) /\ lease' = [segmentId |-> s, fence |-> f] /\ fence' = f
          /\ newest' = [newest EXCEPT ![s] = f]
          /\ Answered(s, [w EXCEPT !.step = "activate", !.fence = f])
        BY <1>2, <1>8 DEF Acquire
    <2>2. /\ LineOK(queue', lease')
          /\ \A d \in Segments \ {s} : Fences(queue', lease', d) \subseteq Fences(queue, lease, d)
          /\ Fences(queue', lease', s) = {f}
        BY <1>3, <1>8, <2>1, ServeLine
    <2>3. F # {}
        <3>1. Head(queue) \in Range(queue)  BY <1>3, <1>8, TailRange DEF LineOK
        <3> QED  BY <1>2, <1>3, <1>8, <3>1, PlacesNow DEF HasPlace
    <2>4. terminal[s] = "none" /\ s \notin late  BY <1>5, <2>3 DEF PlaceOK
    <2>5. PlaceOK(r, terminal[s], s \in late, {f})  BY <2>4 DEF PlaceOK
    <2>6. Edits(newest, newest', s, Nat) /\ newest'[s] = f  BY <1>3, <2>1 DEF Edits, IInv, Typed
    <2>7. PICK m : m = [w EXCEPT !.step = "activate", !.fence = f]  OBVIOUS
    <2>8. m \in FlowType /\ m.step = "activate" /\ m.fence = f /\ m.losses = w.losses
        BY <1>3, <1>5, <2>7 DEF FlowType, FlowSteps
    <2>9. Edits(flow, flow', s, FlowType)
          /\ (flow'[s] = w \/ (flow'[s] = m /\ w.step = "acquiring"))
        <3>1. CASE At(s, "acquiring")
            <4>1. flow' = [flow EXCEPT ![s] = m]  BY <1>1, <2>1, <2>7, <3>1 DEF Answered
            <4> QED  BY <1>2, <2>8, <3>1, <4>1, FlowEdit DEF IInv, Typed, At
        <3>2. CASE ~At(s, "acquiring")
            <4>1. flow' = flow  BY <1>1, <2>1, <3>2 DEF Answered
            <4> QED  BY <1>2, <4>1, Same DEF IInv, Typed
        <3> QED  BY <3>1, <3>2
    <2>10. FlowOK(r, flow'[s], "none", f, terminal[s], s \in late, {f})
        <3>1. CASE flow'[s] = w  BY <1>4, <1>5, <2>4, <3>1 DEF FlowOK
        <3>2. CASE flow'[s] = m /\ w.step = "acquiring"
            BY <1>3, <1>5, <2>8, <3>2 DEF FlowOK
        <3> QED  BY <2>9, <3>1, <3>2
    <2>11. SegNow(s)'
        BY <1>1, <1>2, <1>4, <1>7, <2>2, <2>5, <2>6, <2>10 DEF SegNow, SegOK
    <2>12. fence' \in Nat  BY <1>3, <2>1
    <2> QED  BY <1>1, <1>6, <1>7, <2>2, <2>6, <2>9, <2>11, <2>12, SegmentStep
<1>9. CASE ~(lease = NoLease /\ queue # << >> /\ Head(queue).segmentId = s)
    <2>1. /\ queue' = queue /\ lease' = lease /\ fence' = fence /\ newest' = newest
          /\ Answered(s, [w EXCEPT !.step = "acquire"])
        BY <1>2, <1>9 DEF Acquire
    <2>2. PICK m : m = [w EXCEPT !.step = "acquire"]  OBVIOUS
    <2>3. m \in FlowType /\ m.step = "acquire" /\ m.losses = w.losses
        BY <1>5, <2>2 DEF FlowType, FlowSteps
    <2>4. Edits(flow, flow', s, FlowType)
          /\ (flow'[s] = w \/ (flow'[s] = m /\ w.step = "acquiring"))
        <3>1. CASE At(s, "acquiring")
            <4>1. flow' = [flow EXCEPT ![s] = m]  BY <1>1, <2>1, <2>2, <3>1 DEF Answered
            <4> QED  BY <1>2, <2>3, <3>1, <4>1, FlowEdit DEF IInv, Typed, At
        <3>2. CASE ~At(s, "acquiring")
            <4>1. flow' = flow  BY <1>1, <2>1, <3>2 DEF Answered
            <4> QED  BY <1>2, <4>1, Same DEF IInv, Typed
        <3> QED  BY <3>1, <3>2
    <2>5. FlowOK(r, flow'[s], "none", newest[s], terminal[s], s \in late, F)
        <3>1. CASE flow'[s] = w  BY <1>4, <1>5, <3>1 DEF FlowOK
        <3>2. CASE flow'[s] = m /\ w.step = "acquiring"  BY <1>4, <1>5, <2>3, <3>2 DEF FlowOK
        <3> QED  BY <2>4, <3>1, <3>2
    <2>6. UNCHANGED <<coordinator, late>>  BY <1>1, <2>1 DEF coordinator
    <2>7. SegOK(rows'[s], flow'[s], calls'[s], cleanup'[s], newest[s], terminal[s], s \in late,
                Fences(queue, lease, s))
        BY <1>1, <1>2, <1>4, <1>5, <1>7, <2>5 DEF SegOK
    <2> QED  BY <1>1, <1>6, <1>7, <2>4, <2>6, <2>7, QuietStep
<1> QED  BY <1>8, <1>9

LEMMA DeadlineKeeps ==
    ASSUME IInv, NEW s \in Segments, Deadline(s)
    PROVE  IInv'
<1>1. /\ late' = late \cup {s} /\ UNCHANGED <<fence, rows, flow, calls, cleanup, newest>>
      /\ faults' \in 0..MaxFaults /\ queue' = Without(s)
      /\ lease' = IF Served(s) THEN NoLease ELSE lease
    BY DEF Deadline, IInv, Typed
<1>2. PICK r, w, F : r = rows[s] /\ w = flow[s] /\ F = Fences(queue, lease, s)  OBVIOUS
<1>3. LineOK(queue, lease)  BY DEF IInv
<1>4. /\ LineOK(queue', lease') /\ Fences(queue', lease', s) = {}
      /\ \A d \in Segments \ {s} : Fences(queue', lease', d) \subseteq Fences(queue, lease, d)
    BY <1>1, <1>3, LeaveLine
<1>5. /\ RowOK(r, calls[s], newest[s], F) /\ PlaceOK(r, terminal[s], s \in late, F)
      /\ CleanupOK(r, cleanup[s], F)
      /\ FlowOK(r, w, calls[s], newest[s], terminal[s], s \in late, F)
      /\ terminal[s] \in TerminalType
    BY <1>2, Here DEF SegNow, SegOK
<1>6. /\ Edits(terminal, terminal', s, TerminalType)
      /\ terminal'[s] = terminal[s] \/ terminal'[s] = "deadline-expired"
      /\ terminal[s] = "completed" => terminal'[s] = "completed"
    <2>1. CASE terminal' = terminal
        <3>1. Edits(terminal, terminal', s, TerminalType)  BY <2>1, Same DEF IInv, Typed
        <3> QED  BY <2>1, <3>1
    <2>2. CASE terminal' = Mark(s, "deadline-expired")
        BY <2>2 DEF Edits, Mark, IInv, Typed, TerminalType
    <2> QED  BY <2>1, <2>2 DEF Deadline
<1>7. SegOK(r, w, calls[s], cleanup[s], newest[s], terminal'[s], TRUE, {})
    <2>1. RowOK(r, calls[s], newest[s], {})  BY <1>5 DEF RowOK
    <2>2. PlaceOK(r, terminal'[s], TRUE, {})  BY <1>5, <1>6 DEF PlaceOK
    <2>3. CleanupOK(r, cleanup[s], {})  BY <1>5 DEF CleanupOK
    <2>4. FlowOK(r, w, calls[s], newest[s], terminal'[s], TRUE, {})  BY <1>5, <1>6 DEF FlowOK
    <2> QED  BY <2>1, <2>2, <2>3, <2>4 DEF SegOK
<1>8. (s \in late') = TRUE  BY <1>1
<1>9. SegNow(s)'  BY <1>1, <1>2, <1>4, <1>7, <1>8 DEF SegNow
<1>10. /\ Edits(rows, rows', s, Rows) /\ Edits(flow, flow', s, FlowType)
       /\ Edits(calls, calls', s, CallType) /\ Edits(cleanup, cleanup', s, CleanupType)
       /\ Edits(newest, newest', s, Nat) /\ fence' \in Nat /\ late' \subseteq Segments
       /\ \A d \in Segments \ {s} : d \in late' <=> d \in late
    BY <1>1, Same DEF IInv, Typed
<1> QED  BY <1>1, <1>4, <1>6, <1>9, <1>10, SegmentStep

LEMMA FenceRunKeeps ==
    ASSUME IInv, NEW s \in Segments, FenceRun(s)
    PROVE  IInv'
<1>1. /\ UNCHANGED <<coordinator, late>> /\ flow' = flow /\ calls' = calls
      /\ faults' \in 0..MaxFaults /\ Active(s) /\ cleanup[s].step = "none"
    BY DEF FenceRun, IInv, Typed
<1>2. PICK r, w, c, F :
            r = rows[s] /\ w = flow[s] /\ c = cleanup[s] /\ F = Fences(queue, lease, s)
    OBVIOUS
<1>3. /\ r \in Rows /\ c \in CleanupType
      /\ RowOK(r, calls[s], newest[s], F) /\ PlaceOK(r, terminal[s], s \in late, F)
      /\ FlowOK(r, w, calls[s], newest[s], terminal[s], s \in late, F)
    BY <1>2, Here DEF SegNow, SegOK
<1>4. PICK m, e : m = [r EXCEPT !.run = "cancelled"] /\ e = [c EXCEPT !.step = "load"]  OBVIOUS
<1>5. /\ m \in Rows /\ m.run = "cancelled" /\ m.current = r.current /\ m.state = r.state
      /\ m.accepted = r.accepted /\ e \in CleanupType /\ e.step = "load"
    BY <1>3, <1>4 DEF Rows, CleanupType
<1>6. rows' = [rows EXCEPT ![s] = m] /\ cleanup' = [cleanup EXCEPT ![s] = e]
    BY <1>2, <1>4 DEF FenceRun
<1>7. Edits(rows, rows', s, Rows) /\ rows'[s] = m  BY <1>5, <1>6, RowEdit DEF IInv, Typed
<1>8. Edits(cleanup, cleanup', s, CleanupType) /\ cleanup'[s] = e
    BY <1>5, <1>6 DEF Edits, IInv, Typed
<1>9. Edits(flow, flow', s, FlowType) /\ Edits(calls, calls', s, CallType)
    BY <1>1, Same DEF IInv, Typed
<1>10. SegOK(m, w, calls[s], e, newest[s], terminal[s], s \in late, F)
    <2>1. RowOK(m, calls[s], newest[s], F)  BY <1>3, <1>5 DEF RowOK
    <2>2. PlaceOK(m, terminal[s], s \in late, F)  BY <1>3, <1>5 DEF PlaceOK
    <2>3. CleanupOK(m, e, F)  BY <1>5 DEF CleanupOK
    <2>4. FlowOK(m, w, calls[s], newest[s], terminal[s], s \in late, F)  BY <1>3, <1>5 DEF FlowOK
    <2> QED  BY <2>1, <2>2, <2>3, <2>4 DEF SegOK
<1> QED  BY <1>1, <1>2, <1>7, <1>8, <1>9, <1>10, QuietStep

\* A step of the cancellation workflow that leaves the coordinator alone.
LEMMA CleanupStep ==
    ASSUME IInv, NEW s \in Segments, UNCHANGED <<coordinator, late, rows, flow, calls, faults>>,
           NEW e \in CleanupType, cleanup' = [cleanup EXCEPT ![s] = e],
           CleanupOK(rows[s], e, Fences(queue, lease, s))
    PROVE  IInv'
<1>1. UNCHANGED <<coordinator, late>> /\ rows' = rows /\ flow' = flow /\ calls' = calls
      /\ faults' \in 0..MaxFaults
    BY DEF IInv, Typed
<1>2. Edits(cleanup, cleanup', s, CleanupType) /\ cleanup'[s] = e  BY DEF Edits, IInv, Typed
<1>3. /\ Edits(flow, flow', s, FlowType) /\ Edits(calls, calls', s, CallType)
      /\ Edits(rows, rows', s, Rows)
    BY <1>1, Same DEF IInv, Typed
<1>4. SegOK(rows'[s], flow'[s], calls'[s], cleanup'[s], newest[s], terminal[s], s \in late,
            Fences(queue, lease, s))
    BY <1>1, <1>2, Here DEF SegNow, SegOK
<1> QED  BY <1>1, <1>2, <1>3, <1>4, QuietStep

LEMMA LoadTargetsKeeps ==
    ASSUME IInv, NEW s \in Segments, LoadTargets(s)
    PROVE  IInv'
<1>1. PICK r, F, e : /\ r = rows[s] /\ F = Fences(queue, lease, s)
                     /\ e = [step  |-> IF r.accepted # 0 THEN "done" ELSE "release",
                             fence |-> r.current]
    OBVIOUS
<1>2. /\ r \in Rows /\ RowOK(r, calls[s], newest[s], F) /\ CleanupOK(r, cleanup[s], F)
      /\ cleanup[s].step = "load"
    BY <1>1, Here DEF LoadTargets, SegNow, SegOK
<1>3. e \in CleanupType /\ e.fence = r.current
      /\ e.step = IF r.accepted # 0 THEN "done" ELSE "release"
    BY <1>1, <1>2 DEF Rows, CleanupType
<1>4. CleanupOK(r, e, F)  BY <1>2, <1>3 DEF CleanupOK, RowOK
<1>5. cleanup' = [cleanup EXCEPT ![s] = e]  BY <1>1 DEF LoadTargets
<1> QED  BY <1>1, <1>3, <1>4, <1>5, CleanupStep DEF LoadTargets

LEMMA CancelPlaceKeeps ==
    ASSUME IInv, NEW s \in Segments, CancelPlace(s)
    PROVE  IInv'
<1>1. UNCHANGED <<fence, newest, late, rows, flow, calls, faults>> /\ cleanup[s].step = "release"
    BY DEF CancelPlace
<1>2. PICK r, w, c, F, f : /\ r = rows[s] /\ w = flow[s] /\ c = cleanup[s]
                           /\ F = Fences(queue, lease, s) /\ f = c.fence
    OBVIOUS
<1>3. LineOK(queue, lease)  BY DEF IInv
<1>4. /\ r \in Rows /\ c \in CleanupType
      /\ RowOK(r, calls[s], newest[s], F) /\ PlaceOK(r, terminal[s], s \in late, F)
      /\ CleanupOK(r, c, F)
      /\ FlowOK(r, w, calls[s], newest[s], terminal[s], s \in late, F)
    BY <1>2, Here DEF SegNow, SegOK
<1>5. r.run = "cancelled" /\ r.accepted = 0 /\ f = r.current /\ f \in Nat
    BY <1>1, <1>2, <1>4 DEF CleanupOK, CleanupType
<1>6. PICK e : e = [c EXCEPT !.step = "done"]  OBVIOUS
<1>7. e \in CleanupType /\ e.step = "done" /\ e.fence = f  BY <1>2, <1>4, <1>6 DEF CleanupType
<1>8. cleanup' = [cleanup EXCEPT ![s] = e]  BY <1>2, <1>6 DEF CancelPlace
<1>9. CASE ~Cancellable(s, f)
    <2>1. queue' = queue /\ lease' = lease /\ terminal' = terminal
        BY <1>2, <1>9 DEF CancelPlace
    <2>2. ASSUME f # 0, F # {}  PROVE FALSE
        <3>1. F = {f} /\ terminal[s] = "none"  BY <1>4, <1>5, <2>2 DEF RowOK, PlaceOK
        <3>2. ~Holds(s, f) /\ (Served(s) \/ ~Waits(s) \/ ~Restored(s, f))
            BY <1>9, <2>2, <3>1 DEF Cancellable
        <3>3. CASE Served(s)
            <4>1. lease.fence = f /\ lease # NoLease  BY <1>2, <1>3, <3>1, <3>3, PlacesNow
            <4>2. lease \in [segmentId : Segments, fence : Nat]  BY <1>3, <4>1 DEF LineOK, LeaseType
            <4> QED  BY <3>2, <3>3, <4>1, <4>2 DEF Holds, Served
        <3>4. CASE ~Served(s)
            <4>1. f \in Fences(queue, lease, s)  BY <1>2, <3>1
            <4>2. PICK v \in Range(queue) : v.segmentId = s /\ v.restoredFrom = f
                BY <3>4, <4>1, FencesOf DEF Served
            <4>3. Range(queue) \subseteq PlaceType  BY <1>3, RangeFacts DEF LineOK, QueueOK
            <4>4. v = [segmentId |-> s, restoredFrom |-> f]  BY <4>2, <4>3 DEF PlaceType
            <4>5. Waits(s) /\ Restored(s, f)  BY <1>3, <1>5, <4>2, <4>4, PlacesNow
            <4> QED  BY <3>2, <3>4, <4>5
        <3> QED  BY <3>3, <3>4
    <2>3. CleanupOK(r, e, F)  BY <1>5, <1>7, <2>2 DEF CleanupOK
    <2>4. UNCHANGED <<coordinator, late, rows, flow, calls, faults>>
        BY <1>1, <2>1 DEF coordinator
    <2> QED  BY <1>2, <1>7, <1>8, <2>3, <2>4, CleanupStep
<1>10. CASE Cancellable(s, f)
    <2>1. /\ queue' = Without(s) /\ lease' = IF Holds(s, f) THEN NoLease ELSE lease
          /\ terminal' = Mark(s, "cancelled")
        BY <1>2, <1>10 DEF CancelPlace
    <2>2. terminal[s] = "none" /\ (Holds(s, f) <=> Served(s))
        BY <1>10 DEF Cancellable, Holds, Served
    <2>3. lease' = IF Served(s) THEN NoLease ELSE lease  BY <2>1, <2>2
    <2>4. /\ LineOK(queue', lease') /\ Fences(queue', lease', s) = {}
          /\ \A d \in Segments \ {s} : Fences(queue', lease', d) \subseteq Fences(queue, lease, d)
        BY <1>3, <2>1, <2>3, LeaveLine
    <2>5. Edits(terminal, terminal', s, TerminalType) /\ terminal'[s] = "cancelled"
        BY <2>1, <2>2 DEF Edits, Mark, IInv, Typed, TerminalType
    <2>6. Edits(cleanup, cleanup', s, CleanupType) /\ cleanup'[s] = e
        BY <1>7, <1>8 DEF Edits, IInv, Typed
    <2>7. SegOK(r, w, calls[s], e, newest[s], "cancelled", s \in late, {})
        <3>1. RowOK(r, calls[s], newest[s], {})  BY <1>4 DEF RowOK
        <3>2. PlaceOK(r, "cancelled", s \in late, {})  BY <1>5 DEF PlaceOK
        <3>3. CleanupOK(r, e, {})  BY <1>5, <1>7 DEF CleanupOK
        <3>4. FlowOK(r, w, calls[s], newest[s], "cancelled", s \in late, {})
            BY <1>4, <2>2 DEF FlowOK
        <3> QED  BY <3>1, <3>2, <3>3, <3>4 DEF SegOK
    <2>8. SegNow(s)'  BY <1>1, <1>2, <2>4, <2>5, <2>6, <2>7 DEF SegNow
    <2>9. /\ Edits(rows, rows', s, Rows) /\ Edits(flow, flow', s, FlowType)
          /\ Edits(calls, calls', s, CallType) /\ Edits(newest, newest', s, Nat)
          /\ fence' \in Nat /\ late' \subseteq Segments /\ late' = late /\ faults' \in 0..MaxFaults
        BY <1>1, Same DEF IInv, Typed
    <2> QED  BY <2>4, <2>5, <2>6, <2>8, <2>9, SegmentStep
<1> QED  BY <1>9, <1>10

-----------------------------------------------------------------------------
(* The theorems.                                                           *)

LEMMA InitHolds == Init => IInv
<1> SUFFICES ASSUME Init  PROVE IInv
    OBVIOUS
<1>1. Fresh("resume") \in FlowType /\ Fresh("resume").step = "resume" /\ Fresh("resume").losses = 0
    BY SystemAssumption DEF Fresh, FlowType, FlowSteps
<1>2. Typed
    BY <1>1, SystemAssumption DEF Init, Typed, Rows, CallType, CleanupType, TerminalType
<1>3. LineOK(queue, lease) /\ Range(queue) = {}
    <2>1. queue \in Seq(PlaceType) /\ Len(queue) = 0  BY DEF Init
    <2>2. Range(queue) = {}
        <3>1. \A w : w \in Range(queue) <=> \E i \in 1..Len(queue) : queue[i] = w
            BY <2>1, RangeFacts
        <3>2. 1..Len(queue) = {}  BY <2>1
        <3> QED  BY <3>1, <3>2
    <2> QED  BY <2>1, <2>2 DEF Init, LineOK, QueueOK, LeaseType
<1>4. ASSUME NEW s \in Segments  PROVE SegNow(s)
    <2>1. Fences(queue, lease, s) = {}
        <3>1. lease.segmentId # s  BY SystemAssumption DEF Init, NoLease
        <3> QED  BY <1>3, <3>1 DEF Fences
    <2>2. PICK r, w, c : r = rows[s] /\ w = flow[s] /\ c = cleanup[s]  OBVIOUS
    <2>3. /\ r.run = "active" /\ r.current = 0 /\ r.state = "none" /\ r.accepted = 0
          /\ w = Fresh("resume") /\ c.step = "none"
          /\ calls[s] = "none" /\ newest[s] = 0 /\ terminal[s] = "none" /\ s \notin late
        BY <2>2 DEF Init
    <2>4. RowOK(r, calls[s], newest[s], {})  BY <2>3 DEF RowOK
    <2>5. PlaceOK(r, terminal[s], s \in late, {})  BY <2>3 DEF PlaceOK
    <2>6. CleanupOK(r, c, {})  BY <2>3 DEF CleanupOK
    <2>7. FlowOK(r, w, calls[s], newest[s], terminal[s], s \in late, {})  BY <1>1, <2>3, Idle
    <2> QED  BY <2>1, <2>2, <2>4, <2>5, <2>6, <2>7 DEF SegNow, SegOK
<1> QED  BY <1>2, <1>3, <1>4 DEF IInv, SegNow

LEMMA NextKeeps == IInv /\ [Next]_vars => IInv'
<1> SUFFICES ASSUME IInv, [Next]_vars  PROVE IInv'
    OBVIOUS
<1>1. CASE UNCHANGED vars
    <2>1. Typed'  BY <1>1 DEF vars, IInv, Typed
    <2>2. LineOK(queue', lease')  BY <1>1 DEF vars, IInv
    <2>3. ASSUME NEW s \in Segments  PROVE SegNow(s)'
        BY <1>1, Here DEF vars, SegNow
    <2> QED  BY <2>1, <2>2, <2>3 DEF IInv, SegNow
<1>2. CASE Lapse  BY <1>2, LapseKeeps
<1>3. ASSUME NEW s \in Segments, Step(s)  PROVE IInv'
    <2>1. CASE Resume(s)  BY <2>1, ResumeKeeps
    <2>2. CASE RetireAttempt(s)  BY <2>2, RetireAttemptKeeps
    <2>3. CASE Requeue(s)  BY <2>3, RequeueKeeps
    <2>4. CASE Ask(s, "enqueue", "enqueuing")  BY <2>4, AskKeeps
    <2>5. CASE Enqueue(s)  BY <2>5, EnqueueKeeps
    <2>6. CASE Ask(s, "acquire", "acquiring")  BY <2>6, AskKeeps
    <2>7. CASE Acquire(s)  BY <2>7, AcquireKeeps
    <2>8. CASE Activate(s)  BY <2>8, ActivateKeeps
    <2>9. CASE GiveBack(s) \/ ReleaseAtEnd(s)  BY <2>9, GiveBackKeeps
    <2>10. CASE Contact(s)  BY <2>10, ContactKeeps
    <2>11. CASE Synchronize(s)  BY <2>11, SynchronizeKeeps
    <2>12. CASE Publish(s)  BY <2>12, PublishKeeps
    <2>13. CASE Accept(s)  BY <2>13, AcceptKeeps
    <2>14. CASE Finish(s)  BY <2>14, FinishKeeps
    <2>15. CASE Fail(s)  BY <2>15, FailKeeps
    <2>16. CASE Expire(s)  BY <2>16, ExpireKeeps
    <2> QED  BY <1>3, <2>1, <2>2, <2>3, <2>4, <2>5, <2>6, <2>7, <2>8, <2>9, <2>10, <2>11, <2>12,
                <2>13, <2>14, <2>15, <2>16 DEF Step
<1>4. ASSUME NEW s \in Segments, Cleanup(s)  PROVE IInv'
    BY <1>4, CrashKeeps, LoadTargetsKeeps, CancelPlaceKeeps DEF Cleanup
<1>5. ASSUME NEW s \in Segments, \/ Busy(s) \/ ActivationUnanswered(s) \/ Crash(s) \/ Restart(s)
                                 \/ FenceRun(s) \/ Deadline(s)
      PROVE  IInv'
    BY <1>5, BusyKeeps, ActivateKeeps, CrashKeeps, FenceRunKeeps, DeadlineKeeps
<1> QED  BY <1>1, <1>2, <1>3, <1>4, <1>5 DEF Next

\* IInv is an inductive invariant: what a segment owns in the workflow engine, in
\* D1 and in the coordinator fits together after every step of every actor.
THEOREM Invariant == Spec => []IInv
<1>1. Init => IInv  BY InitHolds
<1>2. IInv /\ [Next]_vars => IInv'  BY NextKeeps
<1> QED  BY <1>1, <1>2, PTL DEF Spec

\* The state keeps its type.
THEOREM TypeCorrect == Spec => []TypeOK
<1>1. IInv => TypeOK
    BY DEF IInv, Typed, LineOK, QueueOK, TypeOK, PlaceType, LeaseType, FlowType, CallType,
           CleanupType, TerminalType
<1> QED  BY <1>1, Invariant, PTL

\* The workflow, D1 and the coordinator, which no transaction spans, never disagree
\* on what became of a segment nor on which lease was its last, and what has ended in
\* one of them is not left behind in another.
THEOREM StoresStayInStep == Spec => []StoresAgree
<1>1. IInv => StoresAgree
    <2> SUFFICES ASSUME IInv, NEW s \in Segments
                 PROVE  /\ flow[s].step \in {"completed", "failed", "expired"} => ~HasPlace(s)
                        /\ rows[s].accepted # 0 => rows[s].accepted = newest[s]
                        /\ terminal[s] = "completed" => rows[s].accepted # 0
                        /\ terminal[s] = "cancelled" =>
                              rows[s].accepted = 0 /\ rows[s].run = "cancelled"
                        /\ cleanup[s].step = "done" /\ cleanup[s].fence # 0 => ~HasPlace(s)
        BY DEF StoresAgree, EndedLeavesNoPlace, EvidenceIsNewest, TerminalTellsTheTruth,
               CancelledAttemptIsGone
    <2>1. HasPlace(s) <=> Fences(queue, lease, s) # {}  BY PlacesNow DEF IInv
    <2>2. PICK F : F = Fences(queue, lease, s)  OBVIOUS
    <2>3. /\ RowOK(rows[s], calls[s], newest[s], F)
          /\ PlaceOK(rows[s], terminal[s], s \in late, F)
          /\ CleanupOK(rows[s], cleanup[s], F)
          /\ FlowOK(rows[s], flow[s], calls[s], newest[s], terminal[s], s \in late, F)
        BY <2>2, Here DEF SegNow, SegOK
    <2>4. flow[s].step \in {"completed", "failed", "expired"} => F = {}
        BY <2>3 DEF FlowOK, PlaceOK
    <2> QED  BY <2>1, <2>2, <2>3, <2>4 DEF RowOK, PlaceOK, CleanupOK
<1> QED  BY <1>1, Invariant, PTL
=============================================================================
