---------------------------- MODULE CarSyncProofs ----------------------------
(***************************************************************************)
(* Theorems about the synchronization of a car, for any number of devices, *)
(* operations, fields and lost requests. Everything rests on what an       *)
(* operation identity stands for: from the first request on it is bound to *)
(* one body, its terminal outcome stays, and whoever holds a copy of the   *)
(* car holds one of its versions.                                          *)
(***************************************************************************)
EXTENDS CarSync, FiniteSetTheorems, WellFoundedInduction, TLAPS

Copies == Cars \cup {NoCar}
Kinds == {"create", "edit", "archive", "restore"}
Partials == UNION {[G -> Values] : G \in SUBSET Fields}
BaseType == [version : Nat, fields : Partials, archived : Int]
CommandType == [kind : Kinds, changes : Partials, base : BaseType]
OperationType ==
    [id : Operations, sequence : Nat, kind : Kinds, changes : Partials, base : BaseType,
     after : SUBSET Operations, status : {"pending", "needs-attention", "conflict"},
     remote : Copies]
RequestType ==
    [by : Devices, try : Nat, id : Operations, command : CommandType,
     step : {"sent", "claimed", "read", "answered"}, seen : Copies,
     answer : {"none", "applied", "conflict", "rejected", "unavailable"}, copy : Copies]
ReceiptType == [outcome : Outcomes, command : CommandType \cup {NoCar}, car : Copies]
Final == {"applied", "conflict", "rejected"}

\* Who creates a car says what all its fields hold.
Whole(command) == command.kind = "create" => DOMAIN command.changes = Fields

\* The copy is the car as it was at its version.
Copy(c) == c # NoCar => /\ car # NoCar /\ c.version <= car.version
                        /\ c.version = car.version => c = car

Typed ==
    /\ car \in Copies
    /\ lastOperation \in Operations \cup {0}
    /\ pausedByCar \in BOOLEAN
    /\ receipt \in [Operations -> ReceiptType]
    /\ requests \subseteq RequestType
    /\ cached \in [Devices -> Copies]
    /\ queue \in [Devices -> SUBSET OperationType]
    /\ loop \in [Devices -> {"idle", "reading", "waiting", "closing"}]
    /\ timer \in [Devices -> BOOLEAN]
    /\ tries \in [Devices -> Nat]
    /\ drawn \in 0..MaxOperations

\* What the car names has been applied, and its plan follows it.
CarOK ==
    /\ lastOperation # 0 => receipt[lastOperation].outcome = "applied"
    /\ PlanFollowsCar

ReceiptOK(o) ==
    /\ receipt[o].outcome # "none" => o <= drawn /\ receipt[o].command \in CommandType
    /\ receipt[o].outcome = "applied" => receipt[o].car # NoCar
    /\ receipt[o].outcome \in {"applied", "conflict"} => ~Refused(receipt[o].command)
    /\ receipt[o].outcome = "rejected" =>
            Refused(receipt[o].command) /\ receipt[o].car = NoCar
    /\ Copy(receipt[o].car)

\* A request goes on only over the receipt of its own body and brings its outcome.
RequestOK(r) ==
    /\ r.id <= drawn /\ Whole(r.command)
    /\ r.command.kind # "create" => car # NoCar
    /\ receipt[r.id].outcome # "none" => receipt[r.id].command = r.command
    /\ r.step # "sent" => receipt[r.id].outcome # "none"
    /\ r.step = "read" => r.seen # NoCar /\ r.command.kind # "create" /\ ~Refused(r.command)
    /\ r.step = "answered" /\ r.answer \in Final =>
            receipt[r.id].outcome = r.answer /\ r.copy = receipt[r.id].car
    /\ r.step = "answered" => r.answer # "none"
    /\ Copy(r.seen) /\ Copy(r.copy)

\* An operation that waits for another one was not sent, and what it says of its
\* outcome is so.
QueuedOK(o) ==
    /\ o.id <= drawn /\ o.sequence <= drawn /\ Whole(o)
    /\ \A i \in o.after : i <= drawn
    /\ o.after = {} /\ o.kind # "create" => car # NoCar
    /\ receipt[o.id].outcome # "none" => receipt[o.id].command = Command(o) /\ o.after = {}
    /\ o.status = "conflict" =>
            receipt[o.id].outcome = "conflict" /\ o.remote = receipt[o.id].car
    /\ o.status = "needs-attention" => receipt[o.id].outcome \in {"none", "rejected"}
    /\ Copy(o.remote)

\* One identity, one body, one place in one queue.
SameBody ==
    /\ \A r, q \in requests : r.id = q.id => r.command = q.command
    /\ \A r \in requests, d \in Devices : \A o \in queue[d] : o.id = r.id =>
            /\ r.command = Command(o) /\ o.after = {}
            /\ o.status = "needs-attention" => receipt[o.id].outcome = "rejected"
    /\ \A d, e \in Devices : \A o \in queue[d], p \in queue[e] :
            o.id = p.id => d = e /\ o = p

IInv ==
    /\ Typed /\ CarOK /\ SameBody
    /\ \A o \in Operations : ReceiptOK(o)
    /\ \A r \in requests : RequestOK(r)
    /\ \A d \in Devices : Copy(cached[d])
    /\ \A d \in Devices : \A o \in queue[d] : QueuedOK(o)

-----------------------------------------------------------------------------
(* The operators.                                                          *)

\* A set of numbers with a bound has a greatest one.
LEMMA Greatest ==
    ASSUME NEW T, T \subseteq Nat, T # {}, NEW n \in Nat, \A x \in T : x <= n
    PROVE  \E x \in T : \A y \in T : y <= x
<1>1. PICK above : above = {(x + 1)..n : x \in T}  OBVIOUS
<1>2. ASSUME NEW U \in above  PROVE U \in FiniteSubsetsOf(Nat)
    <2>1. PICK x \in T : U = (x + 1)..n  BY <1>1
    <2>2. x + 1 \in Int /\ n \in Int /\ x \in Nat  OBVIOUS
    <2>3. IsFiniteSet(U)  BY <2>1, <2>2, FS_Interval
    <2>4. U \subseteq Nat  BY <2>1, <2>2
    <2> QED  BY <2>3, <2>4 DEF FiniteSubsetsOf
<1>3. above \subseteq FiniteSubsetsOf(Nat) /\ above # {}  BY <1>1, <1>2
<1>4. PICK U \in above : \A V \in above : ~ (<<V, U>> \in StrictSubsetOrdering(Nat))
    BY <1>3, FS_StrictSubsetOrderingWellFounded, WFMin
<1>5. PICK x \in T : U = (x + 1)..n  BY <1>1
<1>6. ASSUME NEW y \in T, ~ (y <= x)  PROVE FALSE
    <2>1. PICK V : V = (y + 1)..n  OBVIOUS
    <2>2. x \in Nat /\ y \in Nat /\ y <= n  OBVIOUS
    <2>3. V \subseteq U /\ y \in U /\ y \notin V  BY <1>5, <1>6, <2>1, <2>2
    <2>4. V \in above /\ U \subseteq Nat  BY <1>1, <1>3, <2>1 DEF FiniteSubsetsOf
    <2>5. <<V, U>> \in StrictSubsetOrdering(Nat)  BY <2>3, <2>4 DEF StrictSubsetOrdering
    <2> QED  BY <2>4, <2>5, <1>4
<1> QED  BY <1>6

\* The latest of some queued operations is one of them.
LEMMA LatestIsOne ==
    ASSUME NEW S \in SUBSET OperationType, S # {}, NEW n \in Nat, \A o \in S : o.sequence <= n
    PROVE  Latest(S) \in S /\ Newest(S) # {}
<1>1. PICK T : T = {o.sequence : o \in S}  OBVIOUS
<1>2. T \subseteq Nat /\ T # {} /\ \A x \in T : x <= n
    BY <1>1 DEF OperationType
<1>3. PICK x \in T : \A y \in T : y <= x  BY <1>2, Greatest
<1>4. PICK o \in S : x = o.sequence  BY <1>1, <1>3
<1>5. o \in Newest(S)  BY <1>1, <1>3, <1>4 DEF Newest
<1> QED  BY <1>5 DEF Latest, Newest

LEMMA PartialFacts ==
    /\ \A g : g \in Partials <=> DOMAIN g \subseteq Fields /\ g \in [DOMAIN g -> Values]
    /\ \A g \in [Fields -> Values] : g \in Partials
    /\ Unset \in Partials
<1>1. \A g : g \in Partials <=> DOMAIN g \subseteq Fields /\ g \in [DOMAIN g -> Values]
    BY DEF Partials
<1>2. DOMAIN Unset = {} /\ Unset \in [{} -> Values]  BY DEF Unset
<1> QED  BY <1>1, <1>2

LEMMA BaseTyped ==
    ASSUME NEW kind \in Kinds, NEW changes \in Partials, NEW copy \in Copies,
           copy = NoCar => kind = "create"
    PROVE  BaseOf(kind, changes, copy) \in BaseType
<1>1. DOMAIN changes \subseteq Fields /\ changes \in [DOMAIN changes -> Values]
    BY PartialFacts
<1>2. CASE copy = NoCar
    BY <1>2, PartialFacts DEF BaseOf, BaseType, Lifecycle
<1>3. CASE copy # NoCar
    <2>1. copy.version \in Nat /\ copy.archived \in Int /\ copy.fields \in [Fields -> Values]
        BY <1>3 DEF Copies, Cars
    <2>2. PICK seen : seen = [f \in DOMAIN changes |-> copy.fields[f]]  OBVIOUS
    <2>3. seen \in Partials  BY <1>1, <2>1, <2>2, PartialFacts
    <2>4. BaseOf(kind, changes, copy) =
            [version |-> copy.version, fields |-> IF kind = "edit" THEN seen ELSE Unset,
             archived |-> IF kind \in Lifecycle THEN copy.archived ELSE 0]
        BY <1>3, <2>2 DEF BaseOf
    <2> QED  BY <2>1, <2>3, <2>4, PartialFacts DEF BaseType
<1> QED  BY <1>2, <1>3

LEMMA WorkingFacts ==
    ASSUME IInv, NEW d \in Devices
    PROVE  /\ Working(d) \in Copies
           /\ queue[d] = {} => Working(d) = cached[d]
<1>1. /\ queue[d] \in SUBSET OperationType /\ drawn \in Nat /\ cached[d] \in Copies
      /\ \A o \in queue[d] : o.sequence <= drawn /\ Whole(o)
    BY SyncAssumption DEF IInv, Typed, QueuedOK
<1>2. ASSUME NEW S \in SUBSET queue[d], S # {}
      PROVE  Latest(S) \in S /\ Latest(S) \in OperationType
    BY <1>1, <1>2, LatestIsOne
<1>3. PICK fields : fields = [f \in Fields |-> IF Setting(d, f) = {} THEN cached[d].fields[f]
                                             ELSE Latest(Setting(d, f)).changes[f]]
    OBVIOUS
<1>4. PICK archived : archived = IF Moving(d) = {} THEN cached[d].archived
                                 ELSE IF Latest(Moving(d)).kind = "archive"
                                 THEN -Latest(Moving(d)).id ELSE 0
    OBVIOUS
<1>5. PICK version : version = IF Creations(d) = {} THEN cached[d].version ELSE 0  OBVIOUS
<1>6. Working(d) = IF cached[d] = NoCar /\ Creations(d) = {} THEN NoCar
                   ELSE [fields |-> fields, archived |-> archived, version |-> version]
    BY <1>3, <1>4, <1>5 DEF Working
<1>7. ASSUME ~(cached[d] = NoCar /\ Creations(d) = {})
      PROVE  /\ fields \in [Fields -> Values] /\ archived \in Int /\ version \in Nat
    <2>1. cached[d] # NoCar => /\ cached[d].fields \in [Fields -> Values]
                               /\ cached[d].archived \in Int /\ cached[d].version \in Nat
        BY <1>1 DEF Copies, Cars
    <2>2. ASSUME NEW o \in Creations(d)
          PROVE  o \in Moving(d) /\ \A f \in Fields : o \in Setting(d, f)
        BY <1>1 DEF Creations, Moving, Setting, Whole
    <2>3. ASSUME NEW f \in Fields  PROVE fields[f] \in Values
        <3>1. CASE Setting(d, f) = {}
            <4>1. cached[d] # NoCar  BY <1>7, <2>2, <3>1
            <4> QED  BY <1>3, <2>1, <3>1, <4>1
        <3>2. CASE Setting(d, f) # {}
            <4>1. Setting(d, f) \in SUBSET queue[d]  BY DEF Setting
            <4>2. PICK o : o = Latest(Setting(d, f))  OBVIOUS
            <4>3. o \in Setting(d, f) /\ o \in OperationType  BY <1>2, <3>2, <4>1, <4>2
            <4>4. o.changes \in Partials /\ f \in DOMAIN o.changes
                BY <4>3 DEF Setting, OperationType
            <4>5. o.changes[f] \in Values  BY <4>4, PartialFacts
            <4> QED  BY <1>3, <3>2, <4>2, <4>5
        <3> QED  BY <3>1, <3>2
    <2>4. fields \in [Fields -> Values]  BY <1>3, <2>3
    <2>5. archived \in Int
        <3>1. CASE Moving(d) = {}
            <4>1. cached[d] # NoCar  BY <1>7, <2>2, <3>1
            <4> QED  BY <1>4, <2>1, <3>1, <4>1
        <3>2. CASE Moving(d) # {}
            <4>1. Moving(d) \in SUBSET queue[d]  BY DEF Moving
            <4>2. PICK o : o = Latest(Moving(d))  OBVIOUS
            <4>3. o \in OperationType  BY <1>2, <3>2, <4>1, <4>2
            <4>4. o.id \in Int  BY <4>3, SyncAssumption DEF OperationType, Operations
            <4> QED  BY <1>4, <3>2, <4>2, <4>4
        <3> QED  BY <3>1, <3>2
    <2>6. version \in Nat  BY <1>5, <1>7, <2>1
    <2> QED  BY <2>4, <2>5, <2>6
<1>8. Working(d) \in Copies  BY <1>6, <1>7 DEF Copies, Cars
<1>9. ASSUME queue[d] = {}  PROVE Working(d) = cached[d]
    <2>1. Creations(d) = {} /\ Moving(d) = {} /\ \A f \in Fields : Setting(d, f) = {}
        BY <1>9 DEF Creations, Moving, Setting
    <2>2. CASE cached[d] = NoCar  BY <1>6, <2>1, <2>2
    <2>3. CASE cached[d] # NoCar
        <3>1. PICK own : own = cached[d]  OBVIOUS
        <3>2. own \in Cars  BY <1>1, <2>3, <3>1 DEF Copies
        <3>3. own.fields = [f \in Fields |-> own.fields[f]]  BY <3>2 DEF Cars
        <3>4. fields = own.fields /\ archived = own.archived /\ version = own.version
            BY <1>3, <1>4, <1>5, <2>1, <3>1, <3>3
        <3>5. own = [fields |-> own.fields, archived |-> own.archived, version |-> own.version]
            BY <3>2 DEF Cars
        <3> QED  BY <1>6, <2>3, <3>1, <3>4, <3>5
    <2> QED  BY <2>2, <2>3
<1> QED  BY <1>8, <1>9

\* What is kept of two copies is one of them.
LEMMA MergedFacts ==
    ASSUME IInv, NEW d \in Devices, NEW c \in Copies, Copy(c)
    PROVE  /\ Merged(d, c) \in Copies /\ Copy(Merged(d, c))
           /\ c # NoCar => Merged(d, c) # NoCar
<1>1. Merged(d, c) = cached[d] => cached[d] # NoCar \/ Merged(d, c) = c  BY DEF Merged
<1>2. Merged(d, c) \in {c, cached[d]}  BY DEF Merged
<1>3. cached[d] \in Copies /\ Copy(cached[d])  BY DEF IInv, Typed
<1> QED  BY <1>1, <1>2, <1>3

-----------------------------------------------------------------------------
(* Steps of the devices.                                                    *)

\* What a queued operation says stays so while the server does nothing.
LEMMA QueuedKept ==
    ASSUME IInv, UNCHANGED server, drawn' \in Nat, drawn <= drawn',
           NEW o \in OperationType, QueuedOK(o)
    PROVE  QueuedOK(o)'
<1>1. o.id \in Nat /\ o.sequence \in Nat /\ drawn \in Nat /\ o.after \subseteq Nat
    BY SyncAssumption DEF IInv, Typed, OperationType, Operations
<1>2. car' = car /\ receipt' = receipt  BY DEF server
<1>3. o.id <= drawn' /\ o.sequence <= drawn' /\ \A i \in o.after : i <= drawn'
    BY <1>1 DEF QueuedOK
<1>4. Copy(o.remote)'  BY <1>2 DEF QueuedOK, Copy
<1> QED  BY <1>2, <1>3, <1>4 DEF QueuedOK

\* What a request relies on stays so, too.
LEMMA RequestKept ==
    ASSUME IInv, UNCHANGED server, drawn' \in Nat, drawn <= drawn',
           NEW r \in requests
    PROVE  RequestOK(r)'
<1>1. r.id \in Nat /\ drawn \in Nat /\ RequestOK(r)
    BY SyncAssumption DEF IInv, Typed, RequestType, Operations
<1>2. car' = car /\ receipt' = receipt  BY DEF server
<1>3. r.id <= drawn'  BY <1>1 DEF RequestOK
<1>4. Copy(r.seen)' /\ Copy(r.copy)'  BY <1>1, <1>2 DEF RequestOK, Copy
<1> QED  BY <1>1, <1>2, <1>3, <1>4 DEF RequestOK

LEMMA ServerKept ==
    ASSUME IInv, UNCHANGED server, drawn' \in Nat, drawn <= drawn'
    PROVE  CarOK' /\ \A o \in Operations : ReceiptOK(o)'
<1>1. car' = car /\ receipt' = receipt /\ lastOperation' = lastOperation
            /\ pausedByCar' = pausedByCar
    BY DEF server
<1>2. CarOK'  BY <1>1 DEF IInv, CarOK, PlanFollowsCar
<1>3. ASSUME NEW o \in Operations  PROVE ReceiptOK(o)'
    <2>1. o \in Nat /\ drawn \in Nat /\ ReceiptOK(o)
        BY SyncAssumption DEF IInv, Typed, Operations
    <2>2. receipt'[o].outcome # "none" => o <= drawn'  BY <1>1, <2>1 DEF ReceiptOK
    <2>3. Copy(receipt[o].car)'  BY <1>1, <2>1 DEF ReceiptOK, Copy
    <2> QED  BY <1>1, <2>1, <2>2, <2>3 DEF ReceiptOK
<1> QED  BY <1>2, <1>3

\* A step of a device: every operation in its queue is new, or was there before,
\* with the body it was sent with.
LEMMA DeviceStep ==
    ASSUME IInv, NEW d \in Devices, NEW Q \in SUBSET OperationType, NEW c \in Copies,
           Copy(c), UNCHANGED server,
           queue' = [queue EXCEPT ![d] = Q], cached' = [cached EXCEPT ![d] = c],
           requests' \subseteq requests,
           drawn' \in 0..MaxOperations, drawn <= drawn',
           loop' \in [Devices -> {"idle", "reading", "waiting", "closing"}],
           timer' \in [Devices -> BOOLEAN], tries' \in [Devices -> Nat],
           \A o \in Q : QueuedOK(o)',
           \A o, p \in Q : o.id = p.id => o = p,
           \A o \in Q : ~ (o.id <= drawn) \/ \E p \in queue[d] :
                /\ p.id = o.id
                /\ p.after = {} => Command(o) = Command(p) /\ o.after = {}
                /\ o.status = "needs-attention" =>
                        \/ p.status = "needs-attention" \/ p.after # {}
                        \/ receipt[o.id].outcome = "rejected"
    PROVE  IInv'
<1>1. /\ car' = car /\ receipt' = receipt /\ lastOperation' = lastOperation
      /\ pausedByCar' = pausedByCar
    BY DEF server
<1>2. drawn \in Nat /\ drawn' \in Nat  BY SyncAssumption DEF IInv, Typed
<1>3. Typed'
    <2>1. queue' \in [Devices -> SUBSET OperationType]  BY DEF IInv, Typed
    <2>2. cached' \in [Devices -> Copies]  BY DEF IInv, Typed
    <2> QED  BY <1>1, <2>1, <2>2 DEF IInv, Typed
<1>4. /\ queue'[d] = Q /\ \A e \in Devices \ {d} : queue'[e] = queue[e]
      /\ cached'[d] = c /\ \A e \in Devices \ {d} : cached'[e] = cached[e]
    BY DEF IInv, Typed
<1>5. \A e \in Devices : Copy(cached[e])'  BY <1>1, <1>4 DEF IInv, Copy
<1>6. ASSUME NEW e \in Devices, NEW o \in queue'[e]  PROVE QueuedOK(o)'
    <2>1. CASE e = d  BY <2>1, <1>4
    <2>2. CASE e # d
        <3>1. o \in queue[e] /\ o \in OperationType /\ QueuedOK(o)
            BY <2>2, <1>4 DEF IInv, Typed
        <3> QED  BY <3>1, <1>2, QueuedKept
    <2> QED  BY <2>1, <2>2
<1>7. \A r \in requests' : RequestOK(r)'  BY <1>2, RequestKept
<1>8. SameBody'
    <2>1. \A r, q \in requests' : r.id = q.id => r.command = q.command
        BY DEF IInv, SameBody
    <2>2. ASSUME NEW r \in requests', NEW e \in Devices, NEW o \in queue'[e], o.id = r.id
          PROVE  /\ r.command = Command(o) /\ o.after = {}
                 /\ o.status = "needs-attention" => receipt'[o.id].outcome = "rejected"
        <3>1. r \in requests /\ r.id <= drawn  BY DEF IInv, RequestOK
        <3>2. CASE e = d
            <4>1. PICK p \in queue[d] :
                    /\ p.id = o.id
                    /\ p.after = {} => Command(o) = Command(p) /\ o.after = {}
                    /\ o.status = "needs-attention" =>
                            \/ p.status = "needs-attention" \/ p.after # {}
                            \/ receipt[o.id].outcome = "rejected"
                BY <3>1, <3>2, <2>2, <1>4
            <4>2. /\ r.command = Command(p) /\ p.after = {}
                  /\ p.status = "needs-attention" => receipt[p.id].outcome = "rejected"
                BY <4>1, <3>1, <2>2 DEF IInv, SameBody
            <4> QED  BY <4>1, <4>2, <1>1
        <3>3. CASE e # d  BY <3>1, <3>3, <2>2, <1>1, <1>4 DEF IInv, SameBody
        <3> QED  BY <3>2, <3>3
    <2>3. ASSUME NEW e \in Devices, NEW o \in Q, NEW p \in queue[e], e # d
          PROVE  o.id # p.id
        <3>1. p.id <= drawn  BY DEF IInv, QueuedOK
        <3> QED  BY <2>3, <3>1 DEF IInv, SameBody
    <2>4. ASSUME NEW e \in Devices, NEW g \in Devices, NEW o \in queue'[e],
                 NEW p \in queue'[g], o.id = p.id
          PROVE  e = g /\ o = p
        <3>1. CASE e = d /\ g = d  BY <2>4, <3>1, <1>4
        <3>2. CASE e = d /\ g # d  BY <2>3, <2>4, <3>2, <1>4
        <3>3. CASE e # d /\ g = d  BY <2>3, <2>4, <3>3, <1>4
        <3>4. CASE e # d /\ g # d  BY <2>4, <3>4, <1>4 DEF IInv, SameBody
        <3> QED  BY <3>1, <3>2, <3>3, <3>4
    <2> QED  BY <2>1, <2>2, <2>4 DEF SameBody
<1>9. CarOK' /\ \A o \in Operations : ReceiptOK(o)'  BY <1>2, ServerKept
<1> QED  BY <1>3, <1>5, <1>6, <1>7, <1>8, <1>9 DEF IInv

\* A step of a device that leaves its queue alone.
LEMMA QuietStep ==
    ASSUME IInv, NEW d \in Devices, NEW c \in Copies,
           Copy(c), UNCHANGED <<server, queue, drawn>>,
           cached' = [cached EXCEPT ![d] = c], requests' \subseteq requests,
           loop' \in [Devices -> {"idle", "reading", "waiting", "closing"}],
           timer' \in [Devices -> BOOLEAN], tries' \in [Devices -> Nat]
    PROVE  IInv'
<1>1. PICK Q : Q = queue[d]  OBVIOUS
<1>2. Q \in SUBSET OperationType /\ queue' = [queue EXCEPT ![d] = Q]
    BY <1>1 DEF IInv, Typed
<1>3. drawn' \in 0..MaxOperations /\ drawn \in Nat /\ drawn' \in Nat /\ drawn <= drawn'
    BY SyncAssumption DEF IInv, Typed
<1>4. \A o \in Q : QueuedOK(o)'  BY <1>1, <1>2, <1>3, QueuedKept DEF IInv
<1>5. \A o, p \in Q : o.id = p.id => o = p  BY <1>1 DEF IInv, SameBody
<1>6. \A o \in Q : ~ (o.id <= drawn) \/ \E p \in queue[d] :
                /\ p.id = o.id
                /\ p.after = {} => Command(o) = Command(p) /\ o.after = {}
                /\ o.status = "needs-attention" =>
                        \/ p.status = "needs-attention" \/ p.after # {}
                        \/ receipt[o.id].outcome = "rejected"
    BY <1>1
<1> QED  BY <1>2, <1>3, <1>4, <1>5, <1>6, DeviceStep

\* A step of a device that touches neither its queue nor its copy.
LEMMA LoopStep ==
    ASSUME IInv, NEW d \in Devices, UNCHANGED <<server, queue, cached, drawn>>,
           requests' \subseteq requests,
           loop' \in [Devices -> {"idle", "reading", "waiting", "closing"}],
           timer' \in [Devices -> BOOLEAN], tries' \in [Devices -> Nat]
    PROVE  IInv'
<1>1. PICK c : c = cached[d]  OBVIOUS
<1>2. c \in Copies /\ Copy(c) /\ cached' = [cached EXCEPT ![d] = c]
    BY <1>1 DEF IInv, Typed
<1> QED  BY <1>2, QuietStep

LEMMA CommitStep ==
    ASSUME IInv, NEW d \in Devices,
           NEW kind \in {"create", "edit"} \cup Lifecycle,
           NEW changes \in Edits \cup NewCars \cup {Unset}, Commit(d, kind, changes)
    PROVE  IInv'
<1>1. PICK o : o = Built(d, drawn', kind, changes)  OBVIOUS
<1>2. PICK Q : Q = queue[d] \cup {o}  OBVIOUS
<1>3. PICK c : c = cached[d]  OBVIOUS
<1>4. /\ drawn \in Nat /\ drawn' = drawn + 1 /\ drawn' \in Operations
      /\ drawn' \in 0..MaxOperations /\ drawn' \in Nat /\ drawn <= drawn' /\ ~ (drawn' <= drawn)
    BY SyncAssumption DEF Commit, IInv, Typed, Operations
<1>5. /\ queue[d] \in SUBSET OperationType /\ c \in Copies /\ Copy(c)
      /\ \A p \in queue[d] : p.sequence <= drawn /\ p.id <= drawn
    BY <1>3 DEF IInv, Typed, QueuedOK
<1>6. changes \in Partials /\ kind \in Kinds
    BY SyncAssumption, PartialFacts DEF Kinds, Lifecycle
<1>7. kind # "create" => Working(d) # NoCar  BY DEF Commit, Offered, Lifecycle
<1>8. kind = "create" => DOMAIN changes = Fields
    <2>1. kind = "create" => changes \in NewCars  BY DEF Commit, Offered, Lifecycle
    <2> QED  BY <2>1, SyncAssumption
<1>9. BaseOf(kind, changes, Working(d)) \in BaseType
    BY <1>6, <1>7, WorkingFacts, BaseTyped
<1>10. PICK number : number = IF queue[d] = {} THEN 1 ELSE 1 + Latest(queue[d]).sequence  OBVIOUS
<1>11. /\ number \in Nat /\ number <= drawn'
       /\ queue[d] # {} => Newest(queue[d]) # {}
    <2>1. CASE queue[d] = {}  BY <2>1, <1>4, <1>10
    <2>2. CASE queue[d] # {}
        <3>1. PICK p : p = Latest(queue[d])  OBVIOUS
        <3>2. p \in queue[d] /\ Newest(queue[d]) # {}
            BY <2>2, <3>1, <1>4, <1>5, LatestIsOne
        <3>3. p.sequence \in Nat /\ p.sequence <= drawn  BY <3>2, <1>5 DEF OperationType
        <3> QED  BY <2>2, <3>1, <3>2, <3>3, <1>4, <1>10
    <2> QED  BY <2>1, <2>2
<1>12. PICK base : base = BaseOf(kind, changes, Working(d))  OBVIOUS
<1>13. PICK after : after = {p.id : p \in Newest(queue[d])}  OBVIOUS
<1>14. /\ after \subseteq Operations /\ \A i \in after : i <= drawn
       /\ queue[d] # {} => after # {}
    BY <1>5, <1>11, <1>13 DEF Newest, OperationType
<1>15. o = [id |-> drawn', sequence |-> number, kind |-> kind, changes |-> changes,
            base |-> base, after |-> after, status |-> "pending", remote |-> NoCar]
    BY <1>1, <1>10, <1>12, <1>13 DEF Built
<1>16. o \in OperationType
    BY <1>15, <1>4, <1>6, <1>9, <1>11, <1>12, <1>14 DEF OperationType, Copies
<1>17. car' = car /\ receipt' = receipt /\ UNCHANGED server  BY DEF Commit, server
<1>18. receipt[drawn'].outcome = "none"  BY <1>4 DEF IInv, ReceiptOK
<1>19. QueuedOK(o)'
    <2>1. /\ o.id = drawn' /\ o.sequence = number /\ o.kind = kind /\ o.changes = changes
          /\ o.after = after /\ o.status = "pending" /\ o.remote = NoCar
        BY <1>15
    <2>2. \A i \in after : i <= drawn'  BY <1>4, <1>14, SyncAssumption DEF Operations
    <2>3. after = {} /\ kind # "create" => car # NoCar
        <3>1. CASE queue[d] = {}
            BY <3>1, <1>3, <1>5, <1>7, WorkingFacts DEF Copy
        <3>2. CASE queue[d] # {}  BY <3>2, <1>14
        <3> QED  BY <3>1, <3>2
    <2>4. Whole(o)  BY <2>1, <1>8 DEF Whole
    <2>5. o.id <= drawn' /\ o.sequence <= drawn'  BY <2>1, <1>4, <1>11
    <2> QED  BY <2>1, <2>2, <2>3, <2>4, <2>5, <1>17, <1>18 DEF QueuedOK, Copy
<1>20. \A p \in Q : QueuedOK(p)'
    BY <1>2, <1>4, <1>5, <1>17, <1>19, QueuedKept DEF IInv
<1>21. \A p, q \in Q : p.id = q.id => p = q
    BY <1>2, <1>4, <1>5, <1>15 DEF IInv, SameBody
<1>22. \A p \in Q : ~ (p.id <= drawn) \/ \E q \in queue[d] :
                /\ q.id = p.id
                /\ q.after = {} => Command(p) = Command(q) /\ p.after = {}
                /\ p.status = "needs-attention" =>
                        \/ q.status = "needs-attention" \/ q.after # {}
                        \/ receipt[p.id].outcome = "rejected"
    BY <1>2, <1>4, <1>15
<1>23. /\ queue' = [queue EXCEPT ![d] = Q] /\ cached' = [cached EXCEPT ![d] = c]
       /\ Q \in SUBSET OperationType /\ requests' \subseteq requests
    BY <1>1, <1>2, <1>3, <1>5, <1>16 DEF Commit, IInv, Typed
<1>24. /\ loop' \in [Devices -> {"idle", "reading", "waiting", "closing"}]
       /\ timer' \in [Devices -> BOOLEAN] /\ tries' \in [Devices -> Nat]
    BY DEF Commit, Wake, IInv, Typed
<1> QED  BY <1>4, <1>5, <1>17, <1>20, <1>21, <1>22, <1>23, <1>24, DeviceStep

LEMMA SendStep ==
    ASSUME IInv, NEW d \in Devices, Send(d)
    PROVE  IInv'
<1>1. PICK o \in Ready(queue[d]) : requests' = requests \cup
            {[by |-> d, try |-> tries[d], id |-> o.id, command |-> Command(o),
              step |-> "sent", seen |-> NoCar, answer |-> "none", copy |-> NoCar]}
    BY DEF Send
<1>2. PICK r : r = [by |-> d, try |-> tries[d], id |-> o.id, command |-> Command(o),
              step |-> "sent", seen |-> NoCar, answer |-> "none", copy |-> NoCar]
    OBVIOUS
<1>3. /\ o \in queue[d] /\ o \in OperationType /\ QueuedOK(o) /\ o.after = {}
      /\ o.status = "pending"
    BY DEF Ready, IInv, Typed
<1>4. /\ UNCHANGED <<server, cached, queue, timer, tries, drawn>>
      /\ loop' = [loop EXCEPT ![d] = "waiting"]
      /\ car' = car /\ receipt' = receipt
    BY DEF Send, server
<1>5. drawn \in Nat /\ drawn' \in Nat /\ drawn <= drawn'
    BY <1>4, SyncAssumption DEF IInv, Typed
<1>6. Command(o) \in CommandType /\ Command(o).kind = o.kind
            /\ Command(o).changes = o.changes
    BY <1>3 DEF Command, CommandType, OperationType
<1>7. r \in RequestType
    BY <1>2, <1>3, <1>6 DEF RequestType, IInv, Typed, Copies, OperationType
<1>8. Typed'
    BY <1>1, <1>2, <1>4, <1>7 DEF IInv, Typed, server
<1>9. RequestOK(r)'
    <2>1. /\ r.id = o.id /\ r.command = Command(o) /\ r.step = "sent" /\ r.seen = NoCar
          /\ r.copy = NoCar
        BY <1>2
    <2>2. Whole(r.command)  BY <2>1, <1>3, <1>6 DEF QueuedOK, Whole
    <2> QED  BY <2>1, <2>2, <1>3, <1>4, <1>6 DEF RequestOK, QueuedOK, Copy
<1>10. \A q \in requests : RequestOK(q)'  BY <1>4, <1>5, RequestKept
<1>11. SameBody'
    <2>1. ASSUME NEW q \in requests, q.id = o.id  PROVE q.command = Command(o)
        BY <2>1, <1>3 DEF IInv, SameBody
    <2>2. ASSUME NEW e \in Devices, NEW p \in queue[e], p.id = o.id  PROVE p = o
        BY <2>2, <1>3 DEF IInv, SameBody
    <2>3. \A q, s \in requests' : q.id = s.id => q.command = s.command
        BY <1>1, <1>2, <2>1 DEF IInv, SameBody
    <2>4. ASSUME NEW q \in requests', NEW e \in Devices, NEW p \in queue'[e], p.id = q.id
          PROVE  /\ q.command = Command(p) /\ p.after = {}
                 /\ p.status = "needs-attention" => receipt'[p.id].outcome = "rejected"
        <3>1. CASE q \in requests  BY <2>4, <3>1, <1>4 DEF IInv, SameBody
        <3>2. CASE q = r  BY <2>2, <2>4, <3>2, <1>2, <1>3, <1>4
        <3> QED  BY <3>1, <3>2, <1>1, <1>2
    <2> QED  BY <2>3, <2>4, <1>4 DEF IInv, SameBody
<1>12. CarOK' /\ \A p \in Operations : ReceiptOK(p)'  BY <1>4, <1>5, ServerKept
<1>13. /\ \A e \in Devices : Copy(cached[e])'
       /\ \A e \in Devices : \A p \in queue'[e] : QueuedOK(p)'
    <2>1. \A e \in Devices : Copy(cached[e])'  BY <1>4 DEF IInv, Copy
    <2>2. \A e \in Devices : \A p \in queue[e] : p \in OperationType  BY DEF IInv, Typed
    <2> QED  BY <2>1, <2>2, <1>4, <1>5, QueuedKept DEF IInv
<1> QED  BY <1>1, <1>2, <1>8, <1>9, <1>10, <1>11, <1>12, <1>13 DEF IInv

\* An operation after a review, under its new identity.
LEMMA ReviewedFacts ==
    ASSUME NEW o \in OperationType, NEW id \in Operations
    PROVE  /\ Reviewed(o, id) \in OperationType
           /\ Reviewed(o, id).id = id /\ Reviewed(o, id).sequence = o.sequence
           /\ Reviewed(o, id).kind = o.kind /\ Reviewed(o, id).changes = o.changes
           /\ Reviewed(o, id).after = o.after /\ Reviewed(o, id).status = "pending"
           /\ Reviewed(o, id).remote = NoCar
<1>1. PICK base : base = IF o.remote = NoCar \/ o.kind = "create" THEN o.base
                         ELSE BaseOf(o.kind, o.changes, o.remote)
    OBVIOUS
<1>2. base \in BaseType  BY <1>1, BaseTyped DEF OperationType
<1>3. Reviewed(o, id) =
        [id |-> id, sequence |-> o.sequence, kind |-> o.kind, changes |-> o.changes,
         base |-> base, after |-> o.after, status |-> "pending", remote |-> NoCar]
    <2>1. Reviewed(o, id) = [o EXCEPT !.id = id, !.status = "pending", !.remote = NoCar,
                                      !.base = base]
        BY <1>1 DEF Reviewed
    <2>2. o = [id |-> o.id, sequence |-> o.sequence, kind |-> o.kind, changes |-> o.changes,
               base |-> o.base, after |-> o.after, status |-> o.status, remote |-> o.remote]
        BY DEF OperationType
    <2>3. PICK given : given = [id |-> o.id, sequence |-> o.sequence, kind |-> o.kind,
                   changes |-> o.changes, base |-> o.base, after |-> o.after,
                   status |-> o.status, remote |-> o.remote]
        OBVIOUS
    <2>4. Reviewed(o, id) = [given EXCEPT !.id = id, !.status = "pending", !.remote = NoCar,
                                          !.base = base]
        BY <2>1, <2>2, <2>3
    <2> QED  BY <2>3, <2>4
<1> QED  BY <1>2, <1>3 DEF OperationType, Copies

LEMMA KeepMineStep ==
    ASSUME IInv, NEW d \in Devices, NEW o \in queue[d], KeepMine(d, o)
    PROVE  IInv'
<1>1. PICK n : n = drawn'  OBVIOUS
<1>2. PICK Moved : Moved = [p \in queue[d] |->
            IF p = o THEN Reviewed(o, n)
            ELSE IF o.id \in p.after THEN [p EXCEPT !.after = (@ \ {o.id}) \cup {n}] ELSE p]
    OBVIOUS
<1>3. PICK Q : Q = {Moved[p] : p \in queue[d]}  OBVIOUS
<1>4. PICK c : c = IF o.remote = NoCar THEN cached[d] ELSE Merged(d, o.remote)  OBVIOUS
<1>5. /\ drawn \in Nat /\ n = drawn + 1 /\ n \in Operations /\ n \in 0..MaxOperations
      /\ n \in Nat /\ drawn <= n /\ ~ (n <= drawn)
    BY <1>1, SyncAssumption DEF KeepMine, IInv, Typed, Operations
<1>6. /\ queue[d] \in SUBSET OperationType
      /\ \A p \in queue[d] : p \in OperationType /\ QueuedOK(p) /\ p.id <= drawn
    BY DEF IInv, Typed, QueuedOK
<1>7. c \in Copies /\ Copy(c)
    BY <1>4, <1>6, MergedFacts DEF IInv, Typed, QueuedOK, OperationType
<1>8. /\ UNCHANGED server /\ car' = car /\ receipt' = receipt
      /\ receipt[n].outcome = "none"
    BY <1>5 DEF KeepMine, server, IInv, ReceiptOK
<1>9. ASSUME NEW p \in queue[d]
      PROVE  \/ p = o /\ Moved[p] = Reviewed(o, n)
             \/ p # o /\ p.after # {} /\ Moved[p] = [p EXCEPT !.after = (@ \ {o.id}) \cup {n}]
             \/ p # o /\ Moved[p] = p
    BY <1>2
<1>10. ASSUME NEW p \in queue[d]
       PROVE  /\ Moved[p] \in OperationType /\ QueuedOK(Moved[p])'
              /\ p = o => Moved[p].id = n
              /\ p # o =>
                    /\ Moved[p].id = p.id /\ Moved[p].status = p.status
                    /\ p.after = {} => Command(Moved[p]) = Command(p) /\ Moved[p].after = {}
    <2>1. CASE p = o /\ Moved[p] = Reviewed(o, n)
        <3>1. PICK q : q = Moved[p]  OBVIOUS
        <3>2. /\ q \in OperationType /\ q.id = n /\ q.sequence = o.sequence
              /\ q.kind = o.kind /\ q.changes = o.changes /\ q.after = o.after
              /\ q.status = "pending" /\ q.remote = NoCar
            BY <2>1, <3>1, <1>5, <1>6, ReviewedFacts
        <3>3. QueuedOK(o) /\ o \in OperationType  BY <1>6
        <3>4. q.sequence <= n /\ \A i \in q.after : i <= n
            BY <3>2, <3>3, <1>5, SyncAssumption DEF QueuedOK, OperationType, Operations
        <3>5. Whole(q)  BY <3>2, <3>3 DEF QueuedOK, Whole
        <3>6. QueuedOK(q)'
            BY <3>2, <3>3, <3>4, <3>5, <1>1, <1>5, <1>8 DEF QueuedOK, Copy
        <3> QED  BY <3>1, <3>2, <3>6, <2>1
    <2>2. CASE p # o /\ p.after # {} /\ Moved[p] = [p EXCEPT !.after = (@ \ {o.id}) \cup {n}]
        <3>1. PICK q : q = Moved[p]  OBVIOUS
        <3>2. PICK after : after = (p.after \ {o.id}) \cup {n}  OBVIOUS
        <3>3. p \in OperationType /\ QueuedOK(p)  BY <1>6
        <3>4. q = [id |-> p.id, sequence |-> p.sequence, kind |-> p.kind,
                   changes |-> p.changes, base |-> p.base, after |-> after,
                   status |-> p.status, remote |-> p.remote]
            BY <2>2, <3>1, <3>2, <3>3 DEF OperationType
        <3>5. after \in SUBSET Operations /\ after # {}
            BY <3>2, <3>3, <1>5 DEF OperationType
        <3>6. q \in OperationType  BY <3>3, <3>4, <3>5 DEF OperationType
        <3>7. /\ q.id = p.id /\ q.sequence = p.sequence /\ q.kind = p.kind
              /\ q.changes = p.changes /\ q.after = after /\ q.status = p.status
              /\ q.remote = p.remote
            BY <3>4
        <3>8. q.id <= n /\ q.sequence <= n /\ \A i \in after : i <= n
            BY <3>2, <3>3, <3>7, <1>5, SyncAssumption
            DEF QueuedOK, OperationType, Operations
        <3>9. Whole(q)  BY <3>3, <3>7 DEF QueuedOK, Whole
        <3>10. receipt[p.id].outcome = "none"  BY <2>2, <3>3 DEF QueuedOK
        <3>11. p.status # "conflict"  BY <3>3, <3>10 DEF QueuedOK
        <3>12. QueuedOK(q)'
            BY <3>3, <3>5, <3>7, <3>8, <3>9, <3>10, <3>11, <1>1, <1>8 DEF QueuedOK, Copy
        <3> QED  BY <2>2, <3>1, <3>6, <3>7, <3>12
    <2>3. CASE p # o /\ Moved[p] = p
        BY <2>3, <1>1, <1>5, <1>6, <1>8, QueuedKept
    <2> QED  BY <2>1, <2>2, <2>3, <1>9
<1>11. Q \in SUBSET OperationType /\ \A p \in Q : QueuedOK(p)'
    BY <1>3, <1>10
<1>12. \A p, q \in Q : p.id = q.id => p = q
    <2>1. \A p, q \in queue[d] : p.id = q.id => p = q  BY DEF IInv, SameBody
    <2>2. \A p \in queue[d] : p.id # n  BY <1>5, <1>6
    <2> QED  BY <2>1, <2>2, <1>3, <1>10
<1>13. \A q \in Q : ~ (q.id <= drawn) \/ \E p \in queue[d] :
                /\ p.id = q.id
                /\ p.after = {} => Command(q) = Command(p) /\ q.after = {}
                /\ q.status = "needs-attention" =>
                        \/ p.status = "needs-attention" \/ p.after # {}
                        \/ receipt[q.id].outcome = "rejected"
    BY <1>3, <1>5, <1>10
<1>14. queue' = [queue EXCEPT ![d] = Q]
    <2>1. Q = {IF p = o THEN Reviewed(o, n)
               ELSE IF o.id \in p.after
                    THEN [p EXCEPT !.after = (@ \ {o.id}) \cup {n}] ELSE p : p \in queue[d]}
        BY <1>2, <1>3
    <2> QED  BY <2>1, <1>1 DEF KeepMine, IInv, Typed
<1>15. cached' = [cached EXCEPT ![d] = c]
    BY <1>4 DEF KeepMine, IInv, Typed
<1>16. /\ loop' \in [Devices -> {"idle", "reading", "waiting", "closing"}]
       /\ timer' \in [Devices -> BOOLEAN] /\ tries' \in [Devices -> Nat]
       /\ requests' \subseteq requests
    BY DEF KeepMine, Wake, IInv, Typed
<1> QED  BY <1>1, <1>5, <1>7, <1>8, <1>11, <1>12, <1>13, <1>14, <1>15, <1>16, DeviceStep

LEMMA DiscardStep ==
    ASSUME IInv, NEW d \in Devices, NEW o \in queue[d], Discard(d, o)
    PROVE  IInv'
<1>1. PICK Moved : Moved = [p \in queue[d] |->
            IF o.id \in p.after THEN [p EXCEPT !.status = "needs-attention"] ELSE p]
    OBVIOUS
<1>2. PICK Q : Q = {Moved[p] : p \in queue[d] \ {o}}  OBVIOUS
<1>3. PICK c : c = IF o.remote = NoCar THEN cached[d] ELSE Merged(d, o.remote)  OBVIOUS
<1>4. /\ drawn' = drawn /\ drawn \in Nat /\ drawn' \in Nat /\ drawn <= drawn'
      /\ drawn' \in 0..MaxOperations
    BY SyncAssumption DEF Discard, IInv, Typed
<1>5. /\ queue[d] \in SUBSET OperationType
      /\ \A p \in queue[d] : p \in OperationType /\ QueuedOK(p)
    BY DEF IInv, Typed
<1>6. c \in Copies /\ Copy(c)
    BY <1>3, <1>5, MergedFacts DEF IInv, Typed, QueuedOK, OperationType
<1>7. UNCHANGED server /\ car' = car /\ receipt' = receipt  BY DEF Discard, server
<1>8. ASSUME NEW p \in queue[d]
      PROVE  /\ Moved[p] \in OperationType /\ QueuedOK(Moved[p])'
             /\ Moved[p].id = p.id
             /\ p.after = {} => Command(Moved[p]) = Command(p) /\ Moved[p].after = {}
             /\ Moved[p].status = "needs-attention" =>
                    p.status = "needs-attention" \/ p.after # {}
    <2>1. CASE o.id \in p.after
        <3>1. PICK q : q = Moved[p]  OBVIOUS
        <3>2. p \in OperationType /\ QueuedOK(p)  BY <1>5
        <3>3. q = [id |-> p.id, sequence |-> p.sequence, kind |-> p.kind,
                   changes |-> p.changes, base |-> p.base, after |-> p.after,
                   status |-> "needs-attention", remote |-> p.remote]
            BY <2>1, <3>1, <3>2, <1>1 DEF OperationType
        <3>4. q \in OperationType  BY <3>2, <3>3 DEF OperationType
        <3>5. /\ q.id = p.id /\ q.sequence = p.sequence /\ q.kind = p.kind
              /\ q.changes = p.changes /\ q.after = p.after
              /\ q.status = "needs-attention" /\ q.remote = p.remote
            BY <3>3
        <3>6. Whole(q)  BY <3>2, <3>5 DEF QueuedOK, Whole
        <3>7. receipt[p.id].outcome = "none"  BY <2>1, <3>2 DEF QueuedOK
        <3>8. QueuedOK(q)'
            BY <2>1, <3>2, <3>5, <3>6, <3>7, <1>4, <1>7 DEF QueuedOK, Copy
        <3> QED  BY <2>1, <3>1, <3>4, <3>5, <3>8
    <2>2. CASE o.id \notin p.after
        <3>1. Moved[p] = p  BY <2>2, <1>1
        <3> QED  BY <3>1, <1>4, <1>5, <1>7, QueuedKept
    <2> QED  BY <2>1, <2>2
<1>9. Q \in SUBSET OperationType /\ \A p \in Q : QueuedOK(p)'  BY <1>2, <1>8
<1>10. \A p, q \in Q : p.id = q.id => p = q
    <2>1. \A p, q \in queue[d] : p.id = q.id => p = q  BY DEF IInv, SameBody
    <2> QED  BY <2>1, <1>2, <1>8
<1>11. \A q \in Q : ~ (q.id <= drawn) \/ \E p \in queue[d] :
                /\ p.id = q.id
                /\ p.after = {} => Command(q) = Command(p) /\ q.after = {}
                /\ q.status = "needs-attention" =>
                        \/ p.status = "needs-attention" \/ p.after # {}
                        \/ receipt[q.id].outcome = "rejected"
    BY <1>2, <1>8
<1>12. queue' = [queue EXCEPT ![d] = Q]
    <2>1. Q = {IF o.id \in p.after THEN [p EXCEPT !.status = "needs-attention"] ELSE p :
                    p \in queue[d] \ {o}}
        BY <1>1, <1>2
    <2> QED  BY <2>1 DEF Discard, IInv, Typed
<1>13. cached' = [cached EXCEPT ![d] = c]
    BY <1>3 DEF Discard, IInv, Typed
<1>14. /\ loop' \in [Devices -> {"idle", "reading", "waiting", "closing"}]
       /\ timer' \in [Devices -> BOOLEAN] /\ tries' \in [Devices -> Nat]
       /\ requests' \subseteq requests
    BY DEF Discard, Wake, IInv, Typed
<1> QED  BY <1>4, <1>6, <1>7, <1>9, <1>10, <1>11, <1>12, <1>13, <1>14, DeviceStep

\* What waited for an operation takes its base from the car that was acknowledged.
LEMMA RebasedFacts ==
    ASSUME NEW o \in OperationType, NEW id \in Operations, NEW c \in Cars
    PROVE  /\ Rebased(o, id, c) \in OperationType
           /\ Rebased(o, id, c).id = o.id /\ Rebased(o, id, c).sequence = o.sequence
           /\ Rebased(o, id, c).kind = o.kind /\ Rebased(o, id, c).changes = o.changes
           /\ Rebased(o, id, c).after = o.after \ {id}
           /\ Rebased(o, id, c).status = o.status /\ Rebased(o, id, c).remote = o.remote
           /\ id \notin o.after => Rebased(o, id, c) = o
<1>1. CASE id \notin o.after  BY <1>1 DEF Rebased
<1>2. CASE id \in o.after
    <2>1. PICK base : base = IF o.kind = "create" THEN o.base
                             ELSE BaseOf(o.kind, o.changes, c)
        OBVIOUS
    <2>2. base \in BaseType  BY <2>1, SyncAssumption, BaseTyped DEF OperationType, Copies
    <2>3. PICK given : given = [id |-> o.id, sequence |-> o.sequence, kind |-> o.kind,
                   changes |-> o.changes, base |-> o.base, after |-> o.after,
                   status |-> o.status, remote |-> o.remote]
        OBVIOUS
    <2>4. o = given  BY <2>3 DEF OperationType
    <2>5. Rebased(o, id, c) = [o EXCEPT !.after = o.after \ {id}, !.base = base]
        BY <1>2, <2>1 DEF Rebased
    <2>6. Rebased(o, id, c) = [given EXCEPT !.after = o.after \ {id}, !.base = base]
        BY <2>4, <2>5
    <2>7. Rebased(o, id, c) =
            [id |-> o.id, sequence |-> o.sequence, kind |-> o.kind, changes |-> o.changes,
             base |-> base, after |-> o.after \ {id}, status |-> o.status,
             remote |-> o.remote]
        BY <2>3, <2>6
    <2> QED  BY <1>2, <2>2, <2>7 DEF OperationType
<1> QED  BY <1>1, <1>2

LEMMA ReceiveStep ==
    ASSUME IInv, NEW r \in requests, Receive(r)
    PROVE  IInv'
<1>1. PICK d : d = r.by  OBVIOUS
<1>2. PICK rest : rest = {o \in queue[d] : o.id # r.id}  OBVIOUS
<1>3. PICK own : own = queue[d] \ rest  OBVIOUS
<1>4. /\ d \in Devices /\ r.id \in Operations /\ r.copy \in Copies
      /\ r.answer \in Final /\ receipt[r.id].outcome = r.answer
      /\ r.copy = receipt[r.id].car /\ Copy(r.copy) /\ ReceiptOK(r.id)
    BY <1>1 DEF Receive, IInv, Typed, RequestType, RequestOK, Final
<1>5. /\ drawn' = drawn /\ drawn \in Nat /\ drawn' \in Nat /\ drawn <= drawn'
      /\ drawn' \in 0..MaxOperations
    BY SyncAssumption DEF Receive, IInv, Typed
<1>6. /\ queue[d] \in SUBSET OperationType
      /\ \A p \in queue[d] : p \in OperationType /\ QueuedOK(p)
      /\ \A p, q \in queue[d] : p.id = q.id => p = q
    BY <1>4 DEF IInv, Typed, SameBody
<1>7. /\ UNCHANGED server /\ car' = car /\ receipt' = receipt
      /\ requests' \subseteq requests
      /\ loop' \in [Devices -> {"idle", "reading", "waiting", "closing"}]
      /\ timer' \in [Devices -> BOOLEAN] /\ tries' \in [Devices -> Nat]
    BY DEF Receive, server, IInv, Typed
<1>8. \A o \in own : o.id = r.id /\ o \in queue[d]  BY <1>2, <1>3
<1>9. queue[d] = rest \cup own /\ rest \subseteq queue[d]  BY <1>2, <1>3
<1>10. queue' = [queue EXCEPT ![d] = Recorded(d, r)]  BY <1>1 DEF Receive
<1>11. CASE own = {}
    <2>1. queue' = queue
        <3>1. Recorded(d, r) = queue[d]  BY <1>2, <1>3, <1>11 DEF Recorded
        <3> QED  BY <3>1, <1>10 DEF IInv, Typed
    <2>2. cached' = cached
        <3>1. ~ \E o \in queue[d] : o.id = r.id  BY <1>2, <1>3, <1>11
        <3> QED  BY <3>1, <1>1 DEF Receive
    <2> QED  BY <2>1, <2>2, <1>4, <1>5, <1>7, LoopStep
<1>12. CASE own # {} /\ r.answer = "applied"
    <2>1. PICK c : c = Merged(d, r.copy)  OBVIOUS
    <2>2. c \in Copies /\ Copy(c) /\ c # NoCar
        BY <2>1, <1>4, <1>12, MergedFacts DEF ReceiptOK
    <2>3. c \in Cars  BY <2>2 DEF Copies
    <2>4. PICK Q : Q = {Rebased(o, r.id, c) : o \in rest}  OBVIOUS
    <2>5. queue' = [queue EXCEPT ![d] = Q]
        <3>1. Recorded(d, r) = Q
            BY <1>2, <1>3, <1>12, <2>1, <2>4 DEF Recorded
        <3> QED  BY <3>1, <1>10
    <2>6. cached' = [cached EXCEPT ![d] = c]
        BY <1>1, <1>2, <1>3, <1>12, <2>1 DEF Receive
    <2>7. ASSUME NEW o \in rest
          PROVE  /\ Rebased(o, r.id, c) \in OperationType /\ QueuedOK(Rebased(o, r.id, c))'
                 /\ Rebased(o, r.id, c).id = o.id
                 /\ Rebased(o, r.id, c).status = o.status
                 /\ o.after = {} => Rebased(o, r.id, c) = o
        <3>1. PICK q : q = Rebased(o, r.id, c)  OBVIOUS
        <3>2. o \in OperationType /\ QueuedOK(o)  BY <1>6, <1>9
        <3>3. /\ q \in OperationType /\ q.id = o.id /\ q.sequence = o.sequence
              /\ q.kind = o.kind /\ q.changes = o.changes /\ q.after = o.after \ {r.id}
              /\ q.status = o.status /\ q.remote = o.remote
              /\ r.id \notin o.after => q = o
            BY <3>1, <3>2, <1>4, <2>3, RebasedFacts
        <3>4. CASE q = o
            BY <3>1, <3>2, <3>4, <1>5, <1>7, QueuedKept
        <3>5. CASE q # o
            <4>1. receipt[o.id].outcome = "none" /\ o.after # {}  BY <3>2, <3>3, <3>5 DEF QueuedOK
            <4>2. car # NoCar  BY <2>2 DEF Copy
            <4>3. Whole(q)  BY <3>2, <3>3 DEF QueuedOK, Whole
            <4>4. QueuedOK(q)'
                BY <3>2, <3>3, <4>1, <4>2, <4>3, <1>5, <1>7 DEF QueuedOK, Copy
            <4> QED  BY <3>1, <3>3, <4>1, <4>4
        <3> QED  BY <3>4, <3>5
    <2>8. Q \in SUBSET OperationType /\ \A q \in Q : QueuedOK(q)'  BY <2>4, <2>7
    <2>9. \A p, q \in Q : p.id = q.id => p = q  BY <2>4, <2>7, <1>6, <1>9
    <2>10. \A q \in Q : ~ (q.id <= drawn) \/ \E p \in queue[d] :
                /\ p.id = q.id
                /\ p.after = {} => Command(q) = Command(p) /\ q.after = {}
                /\ q.status = "needs-attention" =>
                        \/ p.status = "needs-attention" \/ p.after # {}
                        \/ receipt[q.id].outcome = "rejected"
        BY <2>4, <2>7, <1>9
    <2> QED  BY <2>2, <2>5, <2>6, <2>8, <2>9, <2>10, <1>4, <1>5, <1>7, DeviceStep
<1>13. CASE own # {} /\ r.answer \in {"conflict", "rejected"}
    <2>1. PICK Marked : Marked = [o \in own |->
            IF r.answer = "conflict" THEN [o EXCEPT !.status = "conflict", !.remote = r.copy]
            ELSE [o EXCEPT !.status = "needs-attention"]]
        OBVIOUS
    <2>2. PICK Q : Q = rest \cup {Marked[o] : o \in own}  OBVIOUS
    <2>3. PICK c : c = cached[d]  OBVIOUS
    <2>4. c \in Copies /\ Copy(c) /\ cached' = [cached EXCEPT ![d] = c]
        BY <2>3, <1>4, <1>13 DEF Receive, IInv, Typed
    <2>5. queue' = [queue EXCEPT ![d] = Q]
        <3>1. CASE r.answer = "conflict"
            <4>1. {Marked[o] : o \in own} =
                    {[o EXCEPT !.status = "conflict", !.remote = r.copy] : o \in own}
                BY <2>1, <3>1
            <4>2. Recorded(d, r) = Q
                BY <4>1, <3>1, <2>2, <1>2, <1>3, <1>13 DEF Recorded
            <4> QED  BY <4>2, <1>10
        <3>2. CASE r.answer = "rejected"
            <4>1. {Marked[o] : o \in own} =
                    {[o EXCEPT !.status = "needs-attention"] : o \in own}
                BY <2>1, <3>2
            <4>2. Recorded(d, r) = Q
                BY <4>1, <3>2, <2>2, <1>2, <1>3, <1>13 DEF Recorded
            <4> QED  BY <4>2, <1>10
        <3> QED  BY <3>1, <3>2, <1>13
    <2>6. ASSUME NEW o \in own
          PROVE  /\ Marked[o] \in OperationType /\ QueuedOK(Marked[o])'
                 /\ Marked[o].id = o.id /\ Command(Marked[o]) = Command(o)
                 /\ Marked[o].after = o.after
                 /\ Marked[o].status = "needs-attention" => r.answer = "rejected"
        <3>1. PICK q : q = Marked[o]  OBVIOUS
        <3>2. PICK status : status = IF r.answer = "conflict" THEN "conflict"
                                     ELSE "needs-attention"
            OBVIOUS
        <3>3. PICK remote : remote = IF r.answer = "conflict" THEN r.copy ELSE o.remote
            OBVIOUS
        <3>4. o \in OperationType /\ QueuedOK(o) /\ o.id = r.id  BY <1>6, <1>8
        <3>5. q = [id |-> o.id, sequence |-> o.sequence, kind |-> o.kind,
                   changes |-> o.changes, base |-> o.base, after |-> o.after,
                   status |-> status, remote |-> remote]
            <4>1. PICK given : given = [id |-> o.id, sequence |-> o.sequence,
                    kind |-> o.kind, changes |-> o.changes, base |-> o.base,
                    after |-> o.after, status |-> o.status, remote |-> o.remote]
                OBVIOUS
            <4>2. o = given  BY <3>4, <4>1 DEF OperationType
            <4>3. CASE r.answer = "conflict"
                <5>1. q = [o EXCEPT !.status = "conflict", !.remote = r.copy]
                    BY <2>1, <3>1, <4>3
                <5>2. q = [given EXCEPT !.status = "conflict", !.remote = r.copy]
                    BY <4>2, <5>1
                <5> QED  BY <3>2, <3>3, <4>1, <4>3, <5>2
            <4>4. CASE r.answer # "conflict"
                <5>1. q = [o EXCEPT !.status = "needs-attention"]
                    BY <2>1, <3>1, <4>4
                <5>2. q = [given EXCEPT !.status = "needs-attention"]
                    BY <4>2, <5>1
                <5> QED  BY <3>2, <3>3, <4>1, <4>4, <5>2
            <4> QED  BY <4>3, <4>4
        <3>6. q \in OperationType
            BY <3>2, <3>3, <3>4, <3>5, <1>4 DEF OperationType
        <3>7. /\ q.id = o.id /\ q.sequence = o.sequence /\ q.kind = o.kind
              /\ q.changes = o.changes /\ q.base = o.base /\ q.after = o.after
              /\ q.status = status /\ q.remote = remote
            BY <3>5
        <3>8. Command(q) = Command(o) /\ Whole(q)
            BY <3>4, <3>7 DEF Command, QueuedOK, Whole
        <3>9. Copy(remote)  BY <3>3, <3>4, <1>4 DEF QueuedOK
        <3>10. /\ status = "conflict" => receipt[q.id].outcome = "conflict"
                                         /\ remote = receipt[q.id].car
               /\ status = "needs-attention" => receipt[q.id].outcome = "rejected"
            BY <3>2, <3>3, <3>4, <3>7, <1>4, <1>13
        <3>11. QueuedOK(q)'
            BY <3>4, <3>7, <3>8, <3>9, <3>10, <1>5, <1>7 DEF QueuedOK, Copy
        <3> QED  BY <3>1, <3>2, <3>6, <3>7, <3>8, <3>11, <1>13
    <2>7. Q \in SUBSET OperationType /\ \A q \in Q : QueuedOK(q)'
        <3>1. \A q \in rest : q \in OperationType /\ QueuedOK(q)'
            BY <1>5, <1>6, <1>7, <1>9, QueuedKept
        <3> QED  BY <3>1, <2>2, <2>6
    <2>8. \A p, q \in Q : p.id = q.id => p = q
        <3>1. \A p \in rest : p \in queue[d] /\ p.id # r.id  BY <1>2
        <3>2. \A p, q \in own : p = q  BY <1>6, <1>8
        <3> QED  BY <3>1, <3>2, <2>2, <2>6, <1>6, <1>8
    <2>9. \A q \in Q : ~ (q.id <= drawn) \/ \E p \in queue[d] :
                /\ p.id = q.id
                /\ p.after = {} => Command(q) = Command(p) /\ q.after = {}
                /\ q.status = "needs-attention" =>
                        \/ p.status = "needs-attention" \/ p.after # {}
                        \/ receipt[q.id].outcome = "rejected"
        <3>1. ASSUME NEW o \in own, r.answer = "rejected"
              PROVE  receipt[o.id].outcome = "rejected"
            BY <1>4, <1>8, <3>1
        <3> QED  BY <3>1, <2>2, <2>6, <1>8, <1>9
    <2> QED  BY <2>4, <2>5, <2>7, <2>8, <2>9, <1>4, <1>5, <1>7, DeviceStep
<1> QED  BY <1>4, <1>11, <1>12, <1>13 DEF Final

\* The steps of the loop, the timer and the lists that are read.
LEMMA LoopSteps ==
    ASSUME IInv, NEW d \in Devices,
           \/ FindNothing(d) \/ Close(d) \/ GiveUp(d) \/ Retry(d) \/ Restart(d)
           \/ Observe(d)
    PROVE  IInv'
<1>0. /\ loop \in [Devices -> {"idle", "reading", "waiting", "closing"}]
      /\ timer \in [Devices -> BOOLEAN] /\ tries \in [Devices -> Nat]
    BY DEF IInv, Typed
<1>1. CASE FindNothing(d)  BY <1>0, <1>1, LoopStep DEF FindNothing
<1>2. CASE Close(d)  BY <1>0, <1>2, LoopStep DEF Close
<1>3. CASE GiveUp(d)
    <2>1. requests' \subseteq requests  BY <1>3 DEF GiveUp
    <2> QED  BY <1>0, <1>3, <2>1, LoopStep DEF GiveUp
<1>4. CASE Retry(d)  BY <1>0, <1>4, LoopStep DEF Retry, Wake
<1>5. CASE Restart(d)
    <2>1. requests' \subseteq requests  BY <1>5 DEF Restart
    <2> QED  BY <1>0, <1>5, <2>1, LoopStep DEF Restart
<1>6. CASE Observe(d)
    <2>1. PICK c : c = Merged(d, car)  OBVIOUS
    <2>2. car \in Copies /\ Copy(car)  BY SyncAssumption DEF IInv, Typed, Copy, Copies, Cars
    <2>3. c \in Copies /\ Copy(c)  BY <2>1, <2>2, MergedFacts
    <2> QED  BY <1>0, <1>6, <2>1, <2>3, QuietStep DEF Observe
<1> QED  BY <1>1, <1>2, <1>3, <1>4, <1>5, <1>6

LEMMA UnavailableStep ==
    ASSUME IInv, NEW r \in requests, ReceiveUnavailable(r)
    PROVE  IInv'
<1>1. PICK d : d = r.by  OBVIOUS
<1>2. d \in Devices  BY <1>1 DEF IInv, Typed, RequestType
<1>3. /\ loop \in [Devices -> {"idle", "reading", "waiting", "closing"}]
      /\ timer \in [Devices -> BOOLEAN] /\ tries \in [Devices -> Nat]
    BY DEF IInv, Typed
<1> QED  BY <1>1, <1>2, <1>3, LoopStep DEF ReceiveUnavailable

-----------------------------------------------------------------------------
(* Steps of the server.                                                     *)

\* What the server does for a request: only its receipt changes, never back and never
\* after it is final, and what was a copy of the car stays one.
Served(r) ==
    /\ UNCHANGED <<cached, queue, loop, timer, tries, drawn, shown>>
    /\ receipt' \in [Operations -> ReceiptType]
    /\ \A o \in Operations \ {r.id} : receipt'[o] = receipt[o]
    /\ receipt'[r.id].outcome # "none" /\ receipt'[r.id].command = r.command
    /\ receipt[r.id].outcome \in Final => receipt'[r.id] = receipt[r.id]
    /\ ReceiptOK(r.id)' /\ CarOK'
    /\ car' \in Copies /\ (car # NoCar => car' # NoCar)
    /\ \A c \in Copies : Copy(c) => Copy(c)'
    /\ lastOperation' \in Operations \cup {0} /\ pausedByCar' \in BOOLEAN

\* Thereupon the request is gone or goes on.
LEMMA ServerStep ==
    ASSUME IInv, NEW r \in requests, NEW N \in SUBSET RequestType, Served(r),
           requests' = (requests \ {r}) \cup N,
           \A q \in N : q.id = r.id /\ q.command = r.command /\ RequestOK(q)'
    PROVE  IInv'
<1> USE DEF Served
<1>1. /\ cached' = cached /\ queue' = queue /\ drawn' = drawn /\ loop' = loop
      /\ timer' = timer /\ tries' = tries
    OBVIOUS
<1>2. Typed'  BY <1>1 DEF IInv, Typed
<1>3. ASSUME NEW o \in Operations  PROVE ReceiptOK(o)'
    <2>1. CASE o = r.id  BY <2>1
    <2>2. CASE o # r.id
        <3>1. receipt[o].car \in Copies /\ ReceiptOK(o) /\ receipt'[o] = receipt[o]
            BY <2>2 DEF IInv, Typed, ReceiptType
        <3>2. Copy(receipt[o].car)'  BY <3>1 DEF ReceiptOK, Copy
        <3> QED  BY <3>1, <3>2, <1>1 DEF ReceiptOK
    <2> QED  BY <2>1, <2>2
<1>4. ASSUME NEW q \in requests \ {r}  PROVE RequestOK(q)'
    <2>1. /\ q \in RequestType /\ RequestOK(q) /\ q.id \in Operations
          /\ q.seen \in Copies /\ q.copy \in Copies
        BY DEF IInv, Typed, RequestType
    <2>2. q.id = r.id => q.command = r.command  BY DEF IInv, SameBody
    <2>3. /\ receipt'[q.id].outcome # "none" => receipt'[q.id].command = q.command
          /\ q.step # "sent" => receipt'[q.id].outcome # "none"
        BY <2>1, <2>2 DEF RequestOK
    <2>4. q.step = "answered" /\ q.answer \in Final =>
                receipt'[q.id].outcome = q.answer /\ q.copy = receipt'[q.id].car
        BY <2>1 DEF RequestOK
    <2>5. Copy(q.seen)' /\ Copy(q.copy)'  BY <2>1 DEF RequestOK
    <2> QED  BY <2>1, <2>3, <2>4, <2>5, <1>1 DEF RequestOK
<1>5. ASSUME NEW d \in Devices, NEW o \in queue[d]  PROVE QueuedOK(o)'
    <2>1. /\ o \in OperationType /\ QueuedOK(o) /\ o.id \in Operations
          /\ o.remote \in Copies
        BY DEF IInv, Typed, OperationType
    <2>2. o.id = r.id => /\ r.command = Command(o) /\ o.after = {}
                         /\ o.status = "needs-attention" => receipt[o.id].outcome = "rejected"
        BY DEF IInv, SameBody
    <2>3. receipt'[o.id].outcome # "none" =>
                receipt'[o.id].command = Command(o) /\ o.after = {}
        BY <2>1, <2>2 DEF QueuedOK
    <2>4. o.status = "conflict" =>
                receipt'[o.id].outcome = "conflict" /\ o.remote = receipt'[o.id].car
        BY <2>1 DEF QueuedOK, Final
    <2>5. o.status = "needs-attention" => receipt'[o.id].outcome \in {"none", "rejected"}
        BY <2>1, <2>2 DEF QueuedOK, Final
    <2>6. Copy(o.remote)'  BY <2>1 DEF QueuedOK
    <2> QED  BY <2>1, <2>3, <2>4, <2>5, <2>6, <1>1 DEF QueuedOK
<1>6. SameBody'
    <2>1. \A q \in requests' : \E p \in requests : q.id = p.id /\ q.command = p.command
        OBVIOUS
    <2>2. ASSUME NEW q \in requests', NEW s \in requests', q.id = s.id
          PROVE  q.command = s.command
        BY <2>1, <2>2 DEF IInv, SameBody
    <2>3. ASSUME NEW q \in requests', NEW d \in Devices, NEW o \in queue[d], o.id = q.id
          PROVE  /\ q.command = Command(o) /\ o.after = {}
                 /\ o.status = "needs-attention" => receipt'[o.id].outcome = "rejected"
        <3>1. /\ q.command = Command(o) /\ o.after = {}
              /\ o.status = "needs-attention" => receipt[o.id].outcome = "rejected"
            BY <2>1, <2>3 DEF IInv, SameBody
        <3>2. o.id \in Operations  BY DEF IInv, Typed, OperationType
        <3> QED  BY <3>1, <3>2 DEF Final
    <2> QED  BY <2>2, <2>3, <1>1 DEF IInv, SameBody
<1>7. \A d \in Devices : Copy(cached[d])'
    <2>1. \A d \in Devices : cached[d] \in Copies /\ Copy(cached[d])  BY DEF IInv, Typed
    <2> QED  BY <2>1, <1>1 DEF Copy
<1> QED  BY <1>1, <1>2, <1>3, <1>4, <1>5, <1>6, <1>7 DEF IInv

\* A request that is answered.
LEMMA AnswerStep ==
    ASSUME IInv, NEW r \in requests, Served(r),
           NEW answer \in Final \cup {"unavailable"}, NEW copy \in Copies,
           Answer(r, answer, copy), Copy(copy)',
           answer \in Final =>
                receipt'[r.id].outcome = answer /\ copy = receipt'[r.id].car
    PROVE  IInv'
<1>1. PICK p : p = [r EXCEPT !.step = "answered", !.seen = NoCar, !.answer = answer,
                             !.copy = copy]
    OBVIOUS
<1>2. r \in RequestType /\ RequestOK(r)  BY DEF IInv, Typed
<1>3. p = [by |-> r.by, try |-> r.try, id |-> r.id, command |-> r.command,
           step |-> "answered", seen |-> NoCar, answer |-> answer, copy |-> copy]
    <2>1. PICK given : given = [by |-> r.by, try |-> r.try, id |-> r.id,
            command |-> r.command, step |-> r.step, seen |-> r.seen,
            answer |-> r.answer, copy |-> r.copy]
        OBVIOUS
    <2>2. r = given  BY <1>2, <2>1 DEF RequestType
    <2>3. p = [given EXCEPT !.step = "answered", !.seen = NoCar, !.answer = answer,
                            !.copy = copy]
        BY <1>1, <2>2
    <2> QED  BY <2>1, <2>3
<1>4. p \in RequestType
    BY <1>2, <1>3 DEF RequestType, Copies, Final
<1>5. /\ p.id = r.id /\ p.command = r.command /\ p.step = "answered" /\ p.seen = NoCar
      /\ p.answer = answer /\ p.copy = copy
    BY <1>3
<1>6. RequestOK(p)'
    <2>1. r.id <= drawn' /\ Whole(r.command)  BY <1>2 DEF RequestOK, Served
    <2>2. r.command.kind # "create" => car' # NoCar  BY <1>2 DEF RequestOK, Served
    <2>3. receipt'[r.id].outcome # "none" /\ receipt'[r.id].command = r.command
        BY DEF Served
    <2> QED  BY <2>1, <2>2, <2>3, <1>5 DEF RequestOK, Copy, Final
<1>7. PICK N : N = {q \in {p} : Awaited(r)}  OBVIOUS
<1>8. requests' = (requests \ {r}) \cup N
    BY <1>1, <1>7 DEF Answer
<1>9. /\ N \in SUBSET RequestType
      /\ \A q \in N : q.id = r.id /\ q.command = r.command /\ RequestOK(q)'
    BY <1>4, <1>5, <1>6, <1>7
<1> QED  BY <1>8, <1>9, ServerStep

\* A request whose answer is what its receipt says then.
LEMMA ReportStep ==
    ASSUME IInv, NEW r \in requests, Served(r), AnswerFromReceipt(r)
    PROVE  IInv'
<1>1. PICK row : row = receipt'[r.id]  OBVIOUS
<1>2. r.id \in Operations  BY DEF IInv, Typed, RequestType
<1>3. row.outcome \in Final \cup {"pending"} /\ row.car \in Copies /\ Copy(row.car)'
    BY <1>1, <1>2 DEF Served, ReceiptType, Outcomes, Final, ReceiptOK
<1>4. CASE row.outcome = "pending"
    <2>1. Answer(r, "unavailable", NoCar)  BY <1>1, <1>4 DEF AnswerFromReceipt
    <2> QED  BY <2>1, AnswerStep DEF Copies, Copy, Final
<1>5. CASE row.outcome # "pending"
    <2>1. Answer(r, row.outcome, row.car)  BY <1>1, <1>5 DEF AnswerFromReceipt
    <2> QED  BY <2>1, <1>1, <1>3, <1>5, AnswerStep
<1> QED  BY <1>4, <1>5

\* Completing a receipt.
LEMMA CompletedFacts ==
    ASSUME IInv, NEW r \in requests, r.step \in {"claimed", "read"},
           NEW outcome \in Final, NEW copy \in Copies,
           receipt' = Completed(r, outcome, copy), drawn' = drawn,
           \A c \in Copies : Copy(c) => Copy(c)',
           Pending(r) => Copy(copy)',
           outcome = "applied" => copy # NoCar,
           outcome \in {"applied", "conflict"} => ~ Refused(r.command),
           outcome = "rejected" => Refused(r.command) /\ copy = NoCar
    PROVE  /\ receipt' \in [Operations -> ReceiptType]
           /\ \A o \in Operations \ {r.id} : receipt'[o] = receipt[o]
           /\ receipt[r.id].outcome # "none" /\ receipt[r.id].command = r.command
           /\ receipt'[r.id].outcome # "none" /\ receipt'[r.id].command = r.command
           /\ receipt[r.id].outcome \in Final => receipt'[r.id] = receipt[r.id]
           /\ Pending(r) =>
                receipt'[r.id].outcome = outcome /\ receipt'[r.id].car = copy
           /\ ~ Pending(r) => receipt' = receipt /\ receipt[r.id].outcome \in Final
           /\ ReceiptOK(r.id)'
<1>1. /\ r.id \in Operations /\ receipt[r.id] \in ReceiptType
      /\ receipt \in [Operations -> ReceiptType] /\ ReceiptOK(r.id)
    BY DEF IInv, Typed, RequestType
<1>2. receipt[r.id].outcome # "none" /\ receipt[r.id].command = r.command
    BY DEF IInv, RequestOK
<1>3. receipt[r.id].outcome \in Final \cup {"pending"}
    BY <1>1, <1>2 DEF ReceiptType, Outcomes, Final
<1>4. Pending(r) <=> receipt[r.id].outcome = "pending"  BY <1>2 DEF Pending
<1>5. CASE Pending(r)
    <2>1. PICK was : was = receipt[r.id]  OBVIOUS
    <2>2. PICK row : row = [was EXCEPT !.outcome = outcome, !.car = copy]  OBVIOUS
    <2>3. receipt' = [receipt EXCEPT ![r.id] = row]
        BY <2>1, <2>2, <1>1, <1>5 DEF Completed
    <2>4. was \in ReceiptType /\ was.command = r.command  BY <2>1, <1>1, <1>2
    <2>5. row.outcome = outcome /\ row.command = r.command /\ row.car = copy
        BY <2>2, <2>4 DEF ReceiptType
    <2>6. row \in ReceiptType  BY <2>2, <2>4 DEF ReceiptType, Outcomes, Final
    <2>7. /\ receipt' \in [Operations -> ReceiptType] /\ receipt'[r.id] = row
          /\ \A o \in Operations \ {r.id} : receipt'[o] = receipt[o]
        BY <2>3, <2>6, <1>1
    <2>8. ReceiptOK(r.id)'
        <3>1. r.id <= drawn' /\ r.command \in CommandType
            BY <1>1, <1>2 DEF ReceiptOK
        <3> QED  BY <3>1, <2>5, <2>7, <1>5 DEF ReceiptOK, Final
    <2> QED  BY <2>5, <2>7, <2>8, <1>2, <1>4, <1>5 DEF Final
<1>6. CASE ~ Pending(r)
    <2>1. receipt' = receipt  BY <1>1, <1>6 DEF Completed
    <2>2. receipt[r.id].car \in Copies  BY <1>1 DEF ReceiptType
    <2>3. Copy(receipt[r.id].car)'  BY <2>1, <2>2, <1>1 DEF ReceiptOK, Copy
    <2>4. ReceiptOK(r.id)'  BY <2>1, <2>3, <1>1 DEF ReceiptOK
    <2> QED  BY <2>1, <2>4, <1>1, <1>2, <1>3, <1>4, <1>6
<1> QED  BY <1>5, <1>6

\* The row of the car is left as it is.
LEMMA StillCar ==
    ASSUME IInv, NEW i \in Operations, UNCHANGED <<car, lastOperation, pausedByCar>>,
           \A o \in Operations \ {i} : receipt'[o] = receipt[o],
           receipt[i].outcome \in Final => receipt'[i] = receipt[i]
    PROVE  /\ CarOK' /\ car' \in Copies /\ (car # NoCar => car' # NoCar)
           /\ \A c \in Copies : Copy(c) => Copy(c)'
           /\ lastOperation' \in Operations \cup {0} /\ pausedByCar' \in BOOLEAN
<1>1. /\ car \in Copies /\ lastOperation \in Operations \cup {0} /\ pausedByCar \in BOOLEAN
      /\ CarOK
    BY DEF IInv, Typed
<1>2. \A c \in Copies : Copy(c) => Copy(c)'  BY DEF Copy
<1>3. CarOK'  BY <1>1 DEF CarOK, PlanFollowsCar, Final
<1> QED  BY <1>1, <1>2, <1>3

LEMMA ClaimStep ==
    ASSUME IInv, NEW r \in requests, Claim(r),
           UNCHANGED <<cached, queue, loop, timer, tries, drawn, shown>>
    PROVE  IInv'
<1>1. /\ r \in RequestType /\ RequestOK(r) /\ r.id \in Operations
      /\ receipt[r.id] \in ReceiptType /\ receipt \in [Operations -> ReceiptType]
      /\ ReceiptOK(r.id) /\ r.command \in CommandType
    BY DEF IInv, Typed, RequestType
<1>2. PICK row : row = IF receipt[r.id].outcome # "none" THEN receipt[r.id]
                       ELSE [receipt[r.id] EXCEPT !.outcome = "pending",
                                                  !.command = r.command]
    OBVIOUS
<1>3. receipt' = [receipt EXCEPT ![r.id] = row]
    BY <1>1, <1>2 DEF Claim
<1>4. /\ row.command = r.command /\ row.outcome # "none" /\ row \in ReceiptType
      /\ row.car = receipt[r.id].car
      /\ receipt[r.id].outcome # "none" => row = receipt[r.id]
      /\ receipt[r.id].outcome = "none" => row.outcome = "pending"
    BY <1>1, <1>2 DEF RequestOK, ReceiptType, Outcomes
<1>5. /\ receipt' \in [Operations -> ReceiptType] /\ receipt'[r.id] = row
      /\ \A o \in Operations \ {r.id} : receipt'[o] = receipt[o]
      /\ receipt[r.id].outcome \in Final => receipt'[r.id] = receipt[r.id]
    BY <1>1, <1>3, <1>4 DEF Final
<1>6. UNCHANGED <<car, lastOperation, pausedByCar>>  BY DEF Claim
<1>7. ReceiptOK(r.id)'
    <2>1. Copy(row.car)'  BY <1>1, <1>4, <1>6 DEF ReceiptOK, Copy
    <2>2. CASE receipt[r.id].outcome # "none"
        BY <2>1, <2>2, <1>1, <1>4, <1>5 DEF ReceiptOK
    <2>3. CASE receipt[r.id].outcome = "none"
        <3>1. r.id <= drawn'  BY <1>1 DEF RequestOK
        <3> QED  BY <2>1, <2>3, <3>1, <1>1, <1>4, <1>5 DEF ReceiptOK
    <2> QED  BY <2>2, <2>3
<1>8. Served(r)  BY <1>1, <1>4, <1>5, <1>6, <1>7, StillCar DEF Served
<1>9. CASE row.outcome # "pending"
    <2>1. Answer(r, row.outcome, row.car)  BY <1>4, <1>5, <1>9 DEF Claim
    <2>2. row.outcome \in Final /\ row.car \in Copies
        BY <1>4, <1>9 DEF ReceiptType, Outcomes, Final
    <2>3. Copy(row.car)'  BY <1>1, <1>4, <1>6 DEF ReceiptOK, Copy
    <2> QED  BY <2>1, <2>2, <2>3, <1>5, <1>8, AnswerStep
<1>10. CASE row.outcome = "pending"
    <2>1. PICK p : p = [r EXCEPT !.step = "claimed"]  OBVIOUS
    <2>2. requests' = (requests \ {r}) \cup {p}
        BY <2>1, <1>4, <1>5, <1>10 DEF Claim
    <2>3. /\ p \in RequestType /\ p.id = r.id /\ p.command = r.command /\ p.step = "claimed"
          /\ p.seen = r.seen /\ p.copy = r.copy
        BY <2>1, <1>1 DEF RequestType
    <2>4. Copy(p.seen)' /\ Copy(p.copy)'  BY <2>3, <1>1, <1>6 DEF RequestOK, Copy
    <2>5. RequestOK(p)'
        BY <2>3, <2>4, <1>1, <1>4, <1>5, <1>6 DEF RequestOK
    <2>6. PICK N : N = {p}  OBVIOUS
    <2>7. /\ N \in SUBSET RequestType /\ requests' = (requests \ {r}) \cup N
          /\ \A q \in N : q.id = r.id /\ q.command = r.command /\ RequestOK(q)'
        BY <2>2, <2>3, <2>5, <2>6
    <2> QED  BY <2>7, <1>8, ServerStep
<1> QED  BY <1>9, <1>10

LEMMA ReadCarStep ==
    ASSUME IInv, NEW r \in requests, ReadCar(r),
           UNCHANGED <<cached, queue, loop, timer, tries, drawn, shown>>
    PROVE  IInv'
<1>1. /\ r \in RequestType /\ RequestOK(r) /\ r.id \in Operations
      /\ receipt \in [Operations -> ReceiptType] /\ ReceiptOK(r.id)
      /\ car \in Copies /\ drawn \in Nat
      /\ car # NoCar => car \in Cars
    BY SyncAssumption DEF IInv, Typed, RequestType, Copies
<1>2. /\ UNCHANGED <<car, lastOperation, pausedByCar>> /\ receipt' = receipt
      /\ UNCHANGED server
    BY DEF ReadCar, server
<1>3. ReceiptOK(r.id)'  BY <1>1, <1>2, ServerKept
<1>4. receipt[r.id].outcome # "none" /\ receipt[r.id].command = r.command
    BY <1>1 DEF ReadCar, RequestOK
<1>5. Served(r)  BY <1>1, <1>2, <1>3, <1>4, StillCar DEF Served
<1>6. PICK p : p = [r EXCEPT !.step = "read", !.seen = car]  OBVIOUS
<1>7. requests' = (requests \ {r}) \cup {p}  BY <1>6 DEF ReadCar
<1>8. /\ p \in RequestType /\ p.id = r.id /\ p.command = r.command /\ p.step = "read"
      /\ p.seen = car /\ p.copy = r.copy
    BY <1>1, <1>6 DEF RequestType
<1>9. Copy(p.seen)' /\ Copy(p.copy)'
    <2>1. Copy(car)  BY <1>1 DEF Copy, Cars
    <2> QED  BY <2>1, <1>1, <1>2, <1>8 DEF RequestOK, Copy
<1>10. RequestOK(p)'
    BY <1>1, <1>2, <1>4, <1>8, <1>9 DEF RequestOK, ReadCar
<1>11. PICK N : N = {p}  OBVIOUS
<1>12. /\ N \in SUBSET RequestType /\ requests' = (requests \ {r}) \cup N
       /\ \A q \in N : q.id = r.id /\ q.command = r.command /\ RequestOK(q)'
    BY <1>7, <1>8, <1>10, <1>11
<1> QED  BY <1>5, <1>12, ServerStep

LEMMA RejectStep ==
    ASSUME IInv, NEW r \in requests, RejectInvalid(r),
           UNCHANGED <<cached, queue, loop, timer, tries, drawn, shown>>
    PROVE  IInv'
<1>1. /\ r.step = "claimed" /\ Refused(r.command) /\ r.id \in Operations
      /\ UNCHANGED <<car, lastOperation, pausedByCar>>
      /\ receipt' = Completed(r, "rejected", NoCar) /\ Answer(r, "rejected", NoCar)
    BY DEF RejectInvalid, Reject, IInv, Typed, RequestType
<1>2. \A c \in Copies : Copy(c) => Copy(c)'  BY <1>1 DEF Copy
<1>3. /\ receipt' \in [Operations -> ReceiptType]
      /\ \A o \in Operations \ {r.id} : receipt'[o] = receipt[o]
      /\ receipt[r.id].command = r.command
      /\ receipt'[r.id].outcome # "none" /\ receipt'[r.id].command = r.command
      /\ receipt[r.id].outcome \in Final => receipt'[r.id] = receipt[r.id]
      /\ Pending(r) =>
            receipt'[r.id].outcome = "rejected" /\ receipt'[r.id].car = NoCar
      /\ ~ Pending(r) => receipt' = receipt /\ receipt[r.id].outcome \in Final
      /\ ReceiptOK(r.id)'
    BY <1>1, <1>2, CompletedFacts DEF Copies, Copy, Final
<1>4. Served(r)  BY <1>1, <1>3, StillCar DEF Served
<1>5. receipt'[r.id].outcome = "rejected" /\ receipt'[r.id].car = NoCar
    <2>1. CASE Pending(r)  BY <2>1, <1>3
    <2>2. CASE ~ Pending(r)
        <3>1. ReceiptOK(r.id)  BY <1>1 DEF IInv
        <3> QED  BY <2>2, <3>1, <1>1, <1>3 DEF ReceiptOK, Final
    <2> QED  BY <2>1, <2>2
<1> QED  BY <1>1, <1>4, <1>5, AnswerStep DEF Copies, Copy, Final

LEMMA SameOrRefuseStep ==
    ASSUME IInv, NEW r \in requests, AcknowledgeSame(r) \/ Refuse(r),
           UNCHANGED <<cached, queue, loop, timer, tries, drawn, shown>>
    PROVE  IInv'
<1>1. PICK outcome \in {"applied", "conflict"} : receipt' = Completed(r, outcome, r.seen)
    BY DEF AcknowledgeSame, Refuse
<1>2. /\ r.step = "read" /\ r.seen # NoCar /\ r.id \in Operations /\ r.seen \in Copies
      /\ UNCHANGED <<car, lastOperation, pausedByCar>> /\ AnswerFromReceipt(r)
    BY DEF AcknowledgeSame, Refuse, IInv, Typed, RequestType
<1>3. ~ Refused(r.command) /\ Copy(r.seen)  BY <1>2 DEF IInv, RequestOK
<1>4. \A c \in Copies : Copy(c) => Copy(c)'  BY <1>2 DEF Copy
<1>5. /\ receipt' \in [Operations -> ReceiptType]
      /\ \A o \in Operations \ {r.id} : receipt'[o] = receipt[o]
      /\ receipt'[r.id].outcome # "none" /\ receipt'[r.id].command = r.command
      /\ receipt[r.id].outcome \in Final => receipt'[r.id] = receipt[r.id]
      /\ ReceiptOK(r.id)'
    BY <1>1, <1>2, <1>3, <1>4, CompletedFacts DEF Final
<1>6. Served(r)  BY <1>2, <1>5, StillCar DEF Served
<1> QED  BY <1>2, <1>6, ReportStep

\* The car after a command.
LEMMA EffectFacts ==
    ASSUME NEW command \in CommandType, NEW copy \in Copies,
           Whole(command), copy = NoCar => command.kind = "create"
    PROVE  /\ Effect(command, copy) \in Cars
           /\ command.kind = "create" => Effect(command, copy).archived = 0
           /\ command.kind # "create" =>
                /\ Effect(command, copy).version = copy.version + 1
                /\ command.kind = "archive" => Effect(command, copy).archived # 0
                /\ command.kind = "restore" => Effect(command, copy).archived = 0
                /\ command.kind = "edit" => Effect(command, copy).archived = copy.archived
<1>1. /\ command.changes \in Partials /\ command.kind \in Kinds  BY DEF CommandType
<1>2. CASE command.kind = "create"
    <2>1. command.changes \in [Fields -> Values]
        BY <1>1, <1>2, PartialFacts DEF Whole
    <2>2. Effect(command, copy) =
            [fields |-> command.changes, archived |-> 0, version |-> 1]
        BY <1>2 DEF Effect, FirstCar
    <2> QED  BY <2>1, <2>2, <1>2 DEF Cars
<1>3. CASE command.kind # "create"
    <2>1. /\ copy.fields \in [Fields -> Values] /\ copy.archived \in Int
          /\ copy.version \in Nat
        BY <1>3 DEF Copies, Cars
    <2>2. PICK fields : fields = [f \in Fields |-> IF f \in DOMAIN command.changes
                                       THEN command.changes[f] ELSE copy.fields[f]]
        OBVIOUS
    <2>3. PICK archived : archived = CASE command.kind = "archive" -> copy.version + 1
                                       [] command.kind = "restore" -> 0
                                       [] OTHER -> copy.archived
        OBVIOUS
    <2>4. fields \in [Fields -> Values]  BY <2>1, <2>2, <1>1, PartialFacts
    <2>5. /\ archived \in Int
          /\ command.kind = "archive" => archived # 0
          /\ command.kind = "restore" => archived = 0
          /\ command.kind = "edit" => archived = copy.archived
        BY <2>1, <2>3
    <2>6. Effect(command, copy) =
            [fields |-> fields, archived |-> archived, version |-> copy.version + 1]
        BY <1>3, <2>2, <2>3 DEF Effect
    <2> QED  BY <2>1, <2>4, <2>5, <2>6, <1>3 DEF Cars
<1> QED  BY <1>2, <1>3

\* A car that is newer than every copy takes the place of the old one.
LEMMA NewerCar ==
    ASSUME IInv, car' \in Cars,
           car = NoCar \/ (car \in Cars /\ car'.version = car.version + 1)
    PROVE  \A c \in Copies : Copy(c) => Copy(c)'
<1>1. ASSUME NEW c \in Copies, Copy(c), c # NoCar  PROVE Copy(c)'
    <2>1. car # NoCar /\ c.version <= car.version /\ c \in Cars  BY <1>1 DEF Copy, Copies
    <2>2. car'.version = car.version + 1 /\ car.version \in Nat /\ c.version \in Nat
        BY <2>1 DEF Cars
    <2>3. c.version <= car'.version /\ c.version # car'.version  BY <2>1, <2>2
    <2>4. car' # NoCar  BY SyncAssumption
    <2> QED  BY <2>3, <2>4 DEF Copy
<1>2. ASSUME NEW c \in Copies, c = NoCar  PROVE Copy(c)'  BY <1>2 DEF Copy
<1> QED  BY <1>1, <1>2

\* A batch whose first statement changed nothing changes nothing.
LEMMA EmptyBatch ==
    ASSUME IInv, NEW r \in requests, r.step \in {"claimed", "read"},
           UNCHANGED <<car, lastOperation, pausedByCar, receipt>>,
           UNCHANGED <<cached, queue, loop, timer, tries, drawn, shown>>,
           AnswerFromReceipt(r)
    PROVE  IInv'
<1>1. /\ r.id \in Operations /\ receipt \in [Operations -> ReceiptType] /\ drawn \in Nat
      /\ receipt[r.id].outcome # "none" /\ receipt[r.id].command = r.command
    BY SyncAssumption DEF IInv, Typed, RequestType, RequestOK
<1>2. ReceiptOK(r.id)'  BY <1>1, ServerKept DEF server
<1>3. Served(r)  BY <1>1, <1>2, StillCar DEF Served
<1> QED  BY <1>3, ReportStep

LEMMA ApplyChangeStep ==
    ASSUME IInv, NEW r \in requests, ApplyChange(r),
           UNCHANGED <<cached, queue, loop, timer, tries, drawn, shown>>
    PROVE  IInv'
<1>1. /\ r \in RequestType /\ RequestOK(r) /\ r.id \in Operations /\ r.command \in CommandType
      /\ r.step = "read" /\ r.seen # NoCar /\ r.seen \in Copies /\ AnswerFromReceipt(r)
      /\ car \in Copies /\ r.id # 0
    BY SyncAssumption DEF ApplyChange, IInv, Typed, RequestType, Operations
<1>2. CASE ~ Writable(r)
    <2>1. car' = car /\ lastOperation' = lastOperation  BY <1>2 DEF ApplyChange
    <2>2. ~ Witnessed(r)
        BY <2>1, <1>1 DEF Witnessed, Pending, IInv, CarOK
    <2>3. receipt' = receipt /\ pausedByCar' = pausedByCar
        BY <2>2 DEF ApplyChange
    <2> QED  BY <2>1, <2>3, <1>1, EmptyBatch
<1>3. CASE Writable(r)
    <2>1. /\ Pending(r) /\ car # NoCar /\ car.version = r.seen.version
          /\ lastOperation' = r.id
        BY <1>3 DEF Writable, ApplyChange
    <2>2. r.seen = car /\ car \in Cars
        BY <2>1, <1>1 DEF RequestOK, Copy, Copies
    <2>3. r.command.kind # "create" /\ ~ Refused(r.command) /\ Whole(r.command)
        BY <1>1 DEF RequestOK
    <2>4. PICK next : next = Effect(r.command, car)  OBVIOUS
    <2>5. /\ next \in Cars /\ next.version = car.version + 1
          /\ r.command.kind = "archive" => next.archived # 0
          /\ r.command.kind = "restore" => next.archived = 0
          /\ r.command.kind = "edit" => next.archived = car.archived
        BY <2>2, <2>3, <2>4, <1>1, EffectFacts, SyncAssumption
    <2>6. car' = next /\ next \in Copies /\ next # NoCar
        BY <2>4, <2>5, <1>3, SyncAssumption DEF ApplyChange, Copies
    <2>7. \A c \in Copies : Copy(c) => Copy(c)'  BY <2>2, <2>5, <2>6, NewerCar
    <2>8. Copy(next)'
        <3>1. next.version \in Nat  BY <2>5 DEF Cars
        <3> QED  BY <3>1, <2>6 DEF Copy
    <2>9. Witnessed(r)  BY <2>1 DEF Witnessed
    <2>10. receipt' = Completed(r, "applied", next)
        BY <2>2, <2>4, <2>9 DEF ApplyChange
    <2>11. /\ receipt' \in [Operations -> ReceiptType]
           /\ \A o \in Operations \ {r.id} : receipt'[o] = receipt[o]
           /\ receipt'[r.id].outcome # "none" /\ receipt'[r.id].command = r.command
           /\ receipt[r.id].outcome \in Final => receipt'[r.id] = receipt[r.id]
           /\ receipt'[r.id].outcome = "applied"
           /\ ReceiptOK(r.id)'
        BY <2>1, <2>3, <2>6, <2>7, <2>8, <2>10, <1>1, CompletedFacts DEF Final
    <2>12. pausedByCar' = IF r.command.kind \in Lifecycle
                          THEN r.command.kind = "archive" ELSE pausedByCar
        BY <2>9 DEF ApplyChange
    <2>13. CarOK' /\ pausedByCar' \in BOOLEAN
        <3>1. pausedByCar \in BOOLEAN /\ (pausedByCar = (car.archived # 0))
            BY <2>1 DEF IInv, Typed, CarOK, PlanFollowsCar
        <3>2. r.command.kind \in {"edit", "archive", "restore"}
            BY <2>3, <1>1 DEF CommandType, Kinds
        <3>3. (pausedByCar' = (next.archived # 0)) /\ pausedByCar' \in BOOLEAN
            <4>1. CASE r.command.kind = "edit"  BY <4>1, <3>1, <2>5, <2>12 DEF Lifecycle
            <4>2. CASE r.command.kind = "archive"  BY <4>2, <2>5, <2>12 DEF Lifecycle
            <4>3. CASE r.command.kind = "restore"  BY <4>3, <2>5, <2>12 DEF Lifecycle
            <4> QED  BY <4>1, <4>2, <4>3, <3>2
        <3> QED  BY <3>3, <2>1, <2>6, <2>11 DEF CarOK, PlanFollowsCar
    <2>14. Served(r)
        BY <2>1, <2>6, <2>7, <2>11, <2>13, <1>1 DEF Served
    <2> QED  BY <2>14, <1>1, ReportStep
<1> QED  BY <1>2, <1>3

LEMMA CreateCarStep ==
    ASSUME IInv, NEW r \in requests, CreateCar(r),
           UNCHANGED <<cached, queue, loop, timer, tries, drawn, shown>>
    PROVE  IInv'
<1>1. /\ r \in RequestType /\ RequestOK(r) /\ r.id \in Operations /\ r.command \in CommandType
      /\ r.step = "claimed" /\ r.command.kind = "create" /\ ~ Refused(r.command)
      /\ AnswerFromReceipt(r) /\ pausedByCar' = pausedByCar /\ car \in Copies /\ r.id # 0
    BY SyncAssumption DEF CreateCar, IInv, Typed, RequestType, Operations
<1>2. CASE Pending(r) /\ car # NoCar
    BY <1>1, <1>2, EmptyBatch DEF CreateCar
<1>3. CASE ~ Pending(r)
    <2>1. receipt' = receipt
        BY <1>3 DEF CreateCar, Completed, IInv, Typed
    <2> QED  BY <2>1, <1>1, <1>3, EmptyBatch DEF CreateCar
<1>4. CASE Pending(r) /\ car = NoCar
    <2>1. PICK next : next = Effect(r.command, car)  OBVIOUS
    <2>2. Whole(r.command)  BY <1>1 DEF RequestOK
    <2>3. next \in Cars /\ next.archived = 0
        BY <2>1, <2>2, <1>1, EffectFacts
    <2>4. /\ car' = next /\ lastOperation' = r.id
          /\ receipt' = Completed(r, "applied", next)
          /\ next \in Copies /\ next # NoCar
        BY <2>1, <2>3, <1>4, SyncAssumption DEF CreateCar, Copies
    <2>5. \A c \in Copies : Copy(c) => Copy(c)'  BY <2>3, <2>4, <1>4, NewerCar
    <2>6. Copy(next)'
        <3>1. next.version \in Nat  BY <2>3 DEF Cars
        <3> QED  BY <3>1, <2>4 DEF Copy
    <2>7. /\ receipt' \in [Operations -> ReceiptType]
          /\ \A o \in Operations \ {r.id} : receipt'[o] = receipt[o]
          /\ receipt'[r.id].outcome # "none" /\ receipt'[r.id].command = r.command
          /\ receipt[r.id].outcome \in Final => receipt'[r.id] = receipt[r.id]
          /\ receipt'[r.id].outcome = "applied"
          /\ ReceiptOK(r.id)'
        BY <2>4, <2>5, <2>6, <1>1, <1>4, CompletedFacts DEF Final
    <2>8. CarOK' /\ pausedByCar' \in BOOLEAN
        <3>1. pausedByCar = FALSE  BY <1>4 DEF IInv, CarOK, PlanFollowsCar
        <3> QED  BY <3>1, <2>3, <2>4, <2>7, <1>1 DEF CarOK, PlanFollowsCar
    <2>9. Served(r)
        BY <2>4, <2>5, <2>7, <2>8, <1>1, <1>4 DEF Served
    <2> QED  BY <2>9, <1>1, ReportStep
<1> QED  BY <1>2, <1>3, <1>4

-----------------------------------------------------------------------------
(* The invariant, and what it means.                                        *)

LEMMA InitOK == Init => IInv
<1> SUFFICES ASSUME Init PROVE IInv  OBVIOUS
<1>1. car \in Copies /\ (car # NoCar => car.archived = 0)
    <2>1. Known \in [Fields -> Values]  BY SyncAssumption DEF Known
    <2>2. FirstCar(Known) \in Cars /\ FirstCar(Known).archived = 0
        BY <2>1 DEF FirstCar, Cars
    <2> QED  BY <2>2 DEF Init, Copies
<1>2. \A o \in Operations : receipt[o] = [outcome |-> "none", command |-> NoCar, car |-> NoCar]
    BY DEF Init
<1>3. receipt \in [Operations -> ReceiptType]
    <2>1. [outcome |-> "none", command |-> NoCar, car |-> NoCar] \in ReceiptType
        BY DEF ReceiptType, Outcomes, Copies
    <2> QED  BY <2>1 DEF Init
<1>4. cached = [d \in Devices |-> car]  BY DEF Init
<1>5. Typed
    <2>1. cached \in [Devices -> Copies]  BY <1>1, <1>4
    <2>2. /\ requests \subseteq RequestType /\ queue \in [Devices -> SUBSET OperationType]
          /\ loop \in [Devices -> {"idle", "reading", "waiting", "closing"}]
          /\ timer \in [Devices -> BOOLEAN] /\ tries \in [Devices -> Nat]
          /\ lastOperation = 0 /\ pausedByCar = FALSE
        BY DEF Init
    <2>3. drawn \in 0..MaxOperations  BY SyncAssumption DEF Init
    <2> QED  BY <1>1, <1>3, <2>1, <2>2, <2>3 DEF Typed
<1>6. CarOK  BY <1>1 DEF Init, CarOK, PlanFollowsCar
<1>7. \A o \in Operations : ReceiptOK(o)  BY <1>2 DEF ReceiptOK, Copy
<1>8. Copy(car)
    <2>1. car # NoCar => car.version \in Nat  BY <1>1 DEF Copies, Cars
    <2> QED  BY <2>1 DEF Copy
<1>9. SameBody  BY DEF Init, SameBody
<1> QED  BY <1>4, <1>5, <1>6, <1>7, <1>8, <1>9 DEF Init, IInv

LEMMA StillOK ==
    ASSUME IInv, UNCHANGED vars  PROVE IInv'
<1>1. /\ car' = car /\ lastOperation' = lastOperation /\ pausedByCar' = pausedByCar
      /\ receipt' = receipt /\ requests' = requests /\ cached' = cached /\ queue' = queue
      /\ loop' = loop /\ timer' = timer /\ tries' = tries /\ drawn' = drawn
    BY DEF vars
<1>2. Typed'  BY <1>1 DEF IInv, Typed
<1>3. CarOK' /\ SameBody'  BY <1>1 DEF IInv, CarOK, PlanFollowsCar, SameBody
<1>4. \A o \in Operations : ReceiptOK(o)'  BY <1>1 DEF IInv, ReceiptOK, Copy
<1>5. \A r \in requests : RequestOK(r)'  BY <1>1 DEF IInv, RequestOK, Copy
<1>6. \A d \in Devices : Copy(cached[d])'  BY <1>1 DEF IInv, Copy
<1>7. \A d \in Devices : \A o \in queue[d] : QueuedOK(o)'
    BY <1>1 DEF IInv, QueuedOK, Copy
<1> QED  BY <1>1, <1>2, <1>3, <1>4, <1>5, <1>6, <1>7 DEF IInv

LEMMA ServeStep ==
    ASSUME IInv, NEW r \in requests, Serve(r)
    PROVE  IInv'
<1>1. UNCHANGED <<cached, queue, loop, timer, tries, drawn, shown>>  BY DEF Serve
<1>2. CASE Claim(r)  BY <1>1, <1>2, ClaimStep
<1>3. CASE RejectInvalid(r)  BY <1>1, <1>3, RejectStep
<1>4. CASE ReadCar(r)  BY <1>1, <1>4, ReadCarStep
<1>5. CASE RejectMissing(r)  BY <1>5 DEF RejectMissing, IInv, RequestOK
<1>6. CASE AcknowledgeSame(r) \/ Refuse(r)  BY <1>1, <1>6, SameOrRefuseStep
<1>7. CASE ApplyChange(r)  BY <1>1, <1>7, ApplyChangeStep
<1>8. CASE CreateCar(r)  BY <1>1, <1>8, CreateCarStep
<1> QED  BY <1>2, <1>3, <1>4, <1>5, <1>6, <1>7, <1>8 DEF Serve

LEMMA NextOK == IInv /\ [Next]_vars => IInv'
<1> SUFFICES ASSUME IInv, [Next]_vars PROVE IInv'  OBVIOUS
<1>1. ASSUME NEW d \in Devices, NEW kind \in {"create", "edit"} \cup Lifecycle,
             NEW changes \in Edits \cup NewCars \cup {Unset}, Commit(d, kind, changes)
      PROVE  IInv'
    BY <1>1, CommitStep
<1>2. ASSUME NEW d \in Devices, Send(d)  PROVE IInv'  BY <1>2, SendStep
<1>3. ASSUME NEW d \in Devices,
             \/ FindNothing(d) \/ Close(d) \/ GiveUp(d) \/ Retry(d) \/ Restart(d)
             \/ Observe(d)
      PROVE  IInv'
    BY <1>3, LoopSteps
<1>4. ASSUME NEW d \in Devices, NEW o \in queue[d], KeepMine(d, o)  PROVE IInv'
    BY <1>4, KeepMineStep
<1>5. ASSUME NEW d \in Devices, NEW o \in queue[d], Discard(d, o)  PROVE IInv'
    BY <1>5, DiscardStep
<1>6. ASSUME NEW r \in requests, Receive(r)  PROVE IInv'  BY <1>6, ReceiveStep
<1>7. ASSUME NEW r \in requests, ReceiveUnavailable(r)  PROVE IInv'
    BY <1>7, UnavailableStep
<1>8. ASSUME NEW r \in requests, Serve(r)  PROVE IInv'  BY <1>8, ServeStep
<1>9. CASE UNCHANGED vars  BY <1>9, StillOK
<1> QED  BY <1>1, <1>2, <1>3, <1>4, <1>5, <1>6, <1>7, <1>8, <1>9 DEF Next

\* What holds of the queues, the requests and the receipts together is an invariant.
THEOREM Invariant == Spec => []IInv
<1> QED  BY InitOK, NextOK, PTL DEF Spec

\* Every variable has its type, for any number of devices, operations and fields.
THEOREM TypeCorrect == Spec => []TypeOK
<1>1. IInv => TypeOK
    <2> SUFFICES ASSUME IInv PROVE TypeOK  OBVIOUS
    <2>1. ASSUME NEW g \in Partials  PROVE Partial(g)  BY PartialFacts DEF Partial
    <2>2. ASSUME NEW c, NEW base \in BaseType, c.base = base, c.changes \in Partials,
                 c.kind \in Kinds
          PROVE  IsCommand(c)
        BY <2>1, <2>2 DEF IsCommand, BaseType, Kinds, Lifecycle
    <2>3. \A c \in CommandType : IsCommand(c)  BY <2>2 DEF CommandType
    <2>4. \A o \in OperationType : IsCommand(o)  BY <2>2 DEF OperationType
    <2>5. /\ car \in Cars \cup {NoCar}
          /\ lastOperation \in Operations \cup {0} /\ pausedByCar \in BOOLEAN
          /\ cached \in [Devices -> Cars \cup {NoCar}]
          /\ loop \in [Devices -> {"idle", "reading", "waiting", "closing"}]
          /\ timer \in [Devices -> BOOLEAN]
          /\ tries \in [Devices -> Nat] /\ drawn \in Nat
        BY SyncAssumption DEF IInv, Typed, Copies
    <2>6. ASSUME NEW o \in Operations
          PROVE  /\ receipt[o].outcome \in Outcomes /\ receipt[o].car \in Cars \cup {NoCar}
                 /\ receipt[o].outcome # "none" => IsCommand(receipt[o].command)
        BY <2>3 DEF IInv, Typed, ReceiptType, ReceiptOK, Copies
    <2>7. ASSUME NEW r \in requests
          PROVE  /\ r.by \in Devices /\ r.try \in Nat /\ r.id \in Operations
                 /\ IsCommand(r.command)
                 /\ r.step \in {"sent", "claimed", "read", "answered"}
                 /\ {r.seen, r.copy} \subseteq Cars \cup {NoCar}
        BY <2>3 DEF IInv, Typed, RequestType, Copies
    <2>8. ASSUME NEW d \in Devices, NEW o \in queue[d]
          PROVE  /\ o.id \in Operations /\ o.sequence \in Nat /\ IsCommand(o)
                 /\ o.after \subseteq Operations
                 /\ o.status \in {"pending", "needs-attention", "conflict"}
        <3>1. o \in OperationType  BY DEF IInv, Typed
        <3> QED  BY <2>4, <3>1 DEF OperationType
    <2> QED  BY <2>5, <2>6, <2>7, <2>8 DEF TypeOK
<1> QED  BY Invariant, <1>1, PTL

\* An operation is never sent with two bodies, nothing is refused because its car is not
\* there yet, and what a review shows is what the server has recorded.
THEOREM QueueSound == Spec => []QueueIsSound
<1>1. IInv => QueueIsSound
    <2> SUFFICES ASSUME IInv PROVE QueueIsSound  OBVIOUS
    <2>1. StableBodies  BY DEF IInv, RequestOK, QueuedOK, StableBodies
    <2>2. CreationComesFirst  BY DEF IInv, ReceiptOK, CreationComesFirst
    <2>3. MarksAreTrue  BY DEF IInv, QueuedOK, MarksAreTrue
    <2> QED  BY <2>1, <2>2, <2>3 DEF QueueIsSound
<1> QED  BY Invariant, <1>1, PTL

\* The maintenance plan follows the car, and every copy of the car is one of its versions.
THEOREM StateFollows == Spec => []StateFollowsCar
<1>1. IInv => StateFollowsCar
    <2> SUFFICES ASSUME IInv PROVE StateFollowsCar  OBVIOUS
    <2>1. PlanFollowsCar  BY DEF IInv, CarOK
    <2>2. /\ \A o \in Operations : Copy(receipt[o].car)
          /\ \A r \in requests : Copy(r.seen) /\ Copy(r.copy)
          /\ \A d \in Devices : Copy(cached[d])
          /\ \A d \in Devices : \A o \in queue[d] : Copy(o.remote)
        BY DEF IInv, ReceiptOK, RequestOK, QueuedOK
    <2>3. CopiesAreVersions  BY <2>2 DEF CopiesAreVersions, Copy
    <2> QED  BY <2>1, <2>3 DEF StateFollowsCar
<1> QED  BY Invariant, <1>1, PTL

\* Queued work leaves a device only when the server has applied it or when its user has
\* decided in a review.
THEOREM NothingDropped == Spec => NothingIsDropped
<1>1. ASSUME IInv, [Next]_vars
      PROVE  \A d \in Devices : \A o \in queue[d] :
                (\A p \in queue'[d] : p.id # o.id) =>
                    receipt[o.id].outcome = "applied" \/ o.status # "pending"
    <2> SUFFICES ASSUME NEW d \in Devices, NEW o \in queue[d],
                        \A p \in queue'[d] : p.id # o.id, o.status = "pending"
                 PROVE  receipt[o.id].outcome = "applied"
        OBVIOUS
    <2>1. /\ queue[d] \in SUBSET OperationType /\ o \in OperationType
          /\ queue \in [Devices -> SUBSET OperationType]
        BY <1>1 DEF IInv, Typed
    <2>2. queue'[d] # queue[d]  OBVIOUS
    <2>3. ASSUME NEW e \in Devices, NEW kind \in {"create", "edit"} \cup Lifecycle,
                 NEW changes \in Edits \cup NewCars \cup {Unset}, Commit(e, kind, changes)
          PROVE  FALSE
        <3>1. queue[d] \subseteq queue'[d]  BY <2>1, <2>3 DEF Commit
        <3> QED  BY <3>1
    <2>4. ASSUME NEW e \in Devices,
                 \/ Send(e) \/ FindNothing(e) \/ Close(e) \/ GiveUp(e) \/ Retry(e)
                 \/ Restart(e) \/ Observe(e)
          PROVE  FALSE
        BY <2>2, <2>4 DEF Send, FindNothing, Close, GiveUp, Retry, Restart, Observe
    <2>5. ASSUME NEW e \in Devices, NEW m \in queue[e], KeepMine(e, m)  PROVE FALSE
        <3>1. e = d  BY <2>1, <2>2, <2>5 DEF KeepMine
        <3>2. o # m  BY <2>5 DEF KeepMine
        <3>3. PICK p : p = IF m.id \in o.after
                           THEN [o EXCEPT !.after = (@ \ {m.id}) \cup {drawn'}] ELSE o
            OBVIOUS
        <3>4. p \in queue'[d]  BY <3>1, <3>2, <3>3, <2>1, <2>5 DEF KeepMine
        <3>5. p.id = o.id  BY <3>3, <2>1 DEF OperationType
        <3> QED  BY <3>4, <3>5
    <2>6. ASSUME NEW e \in Devices, NEW m \in queue[e], Discard(e, m)  PROVE FALSE
        <3>1. e = d  BY <2>1, <2>2, <2>6 DEF Discard
        <3>2. o # m  BY <2>6 DEF Discard
        <3>3. PICK p : p = IF m.id \in o.after
                           THEN [o EXCEPT !.status = "needs-attention"] ELSE o
            OBVIOUS
        <3>4. p \in queue'[d]  BY <3>1, <3>2, <3>3, <2>1, <2>6 DEF Discard
        <3>5. p.id = o.id  BY <3>3, <2>1 DEF OperationType
        <3> QED  BY <3>4, <3>5
    <2>7. ASSUME NEW r \in requests, Receive(r)
          PROVE  receipt[o.id].outcome = "applied"
        <3>1. r.by = d  BY <2>1, <2>2, <2>7 DEF Receive
        <3>2. /\ r.answer \in Final /\ receipt[r.id].outcome = r.answer
              /\ r.copy = receipt[r.id].car /\ ReceiptOK(r.id) /\ r.copy \in Copies
              /\ Copy(r.copy) /\ r.id \in Operations
            BY <1>1, <2>7 DEF Receive, IInv, Typed, RequestType, RequestOK, Final
        <3>3. PICK rest : rest = {p \in queue[d] : p.id # r.id}  OBVIOUS
        <3>4. queue'[d] = Recorded(d, r)  BY <3>1, <2>1, <2>7 DEF Receive
        <3>5. PICK own : own = queue[d] \ rest  OBVIOUS
        <3>6. own # {}  BY <3>3, <3>4, <3>5, <2>2 DEF Recorded
        <3>7. CASE o.id = r.id
            <4>1. o \in own  BY <3>3, <3>5, <3>7
            <4>2. \A p \in own : p \in OperationType /\ p.id = r.id
                BY <2>1, <3>3, <3>5
            <4>3. CASE r.answer = "conflict"
                <5>1. [o EXCEPT !.status = "conflict", !.remote = r.copy] \in queue'[d]
                    BY <3>3, <3>4, <3>5, <3>6, <4>1, <4>3 DEF Recorded
                <5>2. [o EXCEPT !.status = "conflict", !.remote = r.copy].id = o.id
                    BY <2>1 DEF OperationType
                <5> QED  BY <5>1, <5>2
            <4>4. CASE r.answer = "rejected"
                <5>1. [o EXCEPT !.status = "needs-attention"] \in queue'[d]
                    BY <3>3, <3>4, <3>5, <3>6, <4>1, <4>4 DEF Recorded
                <5>2. [o EXCEPT !.status = "needs-attention"].id = o.id
                    BY <2>1 DEF OperationType
                <5> QED  BY <5>1, <5>2
            <4> QED  BY <3>2, <3>7, <4>3, <4>4 DEF Final
        <3>8. CASE o.id # r.id
            <4>1. o \in rest  BY <3>3, <3>8
            <4>2. CASE r.answer = "applied"
                <5>1. PICK c : c = Merged(d, r.copy)  OBVIOUS
                <5>2. c \in Cars
                    BY <1>1, <3>2, <4>2, <5>1, MergedFacts DEF ReceiptOK, Copies
                <5>3. Rebased(o, r.id, c) \in queue'[d]
                    BY <3>3, <3>4, <3>5, <3>6, <4>1, <4>2, <5>1 DEF Recorded
                <5>4. Rebased(o, r.id, c).id = o.id  BY <2>1, <3>2, <5>2, RebasedFacts
                <5> QED  BY <5>3, <5>4
            <4>3. CASE r.answer # "applied"
                BY <3>3, <3>4, <3>5, <3>6, <4>1, <4>3 DEF Recorded
            <4> QED  BY <4>2, <4>3
        <3> QED  BY <3>7, <3>8
    <2>8. ASSUME NEW r \in requests, ReceiveUnavailable(r) \/ Serve(r)  PROVE FALSE
        BY <2>2, <2>8 DEF ReceiveUnavailable, Serve
    <2>9. CASE UNCHANGED vars  BY <2>2, <2>9 DEF vars
    <2> QED  BY <1>1, <2>3, <2>4, <2>5, <2>6, <2>7, <2>8, <2>9 DEF Next
<1> QED  BY Invariant, <1>1, PTL DEF Spec, NothingIsDropped

-----------------------------------------------------------------------------
(* The contract.                                                             *)

\* A step that completes a receipt and leaves the car alone settles its operation.
LEMMA Settles ==
    ASSUME IInv, NEW r \in requests, r.step \in {"claimed", "read"}, UNCHANGED car,
           NEW outcome \in Final, NEW copy, receipt' = Completed(r, outcome, copy),
           outcome = "applied" => Repeatable(r.command)
    PROVE  [Serial!Next]_(Serial!vars)
<1>1. /\ r.id \in Operations /\ receipt \in [Operations -> ReceiptType]
      /\ receipt[r.id] \in ReceiptType
    BY DEF IInv, Typed, RequestType
<1>2. CASE ~ Pending(r)
    <2>1. receipt' = receipt  BY <1>1, <1>2 DEF Completed
    <2> QED  BY <2>1 DEF Serial!vars
<1>3. CASE Pending(r)
    <2>1. PICK was : was = receipt[r.id]  OBVIOUS
    <2>2. PICK row : row = [was EXCEPT !.outcome = outcome, !.car = copy]  OBVIOUS
    <2>3. receipt' = [receipt EXCEPT ![r.id] = row]
        BY <2>1, <2>2, <1>1, <1>3 DEF Completed
    <2>4. row.outcome = outcome /\ row.command = was.command
        BY <2>1, <2>2, <1>1 DEF ReceiptType
    <2>5. was.outcome = "pending" /\ was.command = r.command  BY <2>1, <1>3 DEF Pending
    <2>6. [o \in Operations |-> receipt[o].outcome]' =
                [[o \in Operations |-> receipt[o].outcome] EXCEPT ![r.id] = outcome]
        BY <2>3, <2>4, <1>1
    <2>7. [o \in Operations |-> receipt[o].command]' =
                [o \in Operations |-> receipt[o].command]
        BY <2>1, <2>3, <2>4, <1>1
    <2>8. Serial!Settle(r.id)
        BY <2>1, <2>5, <2>6, <2>7, <1>1 DEF Serial!Settle, Serial!Terminal, Final
    <2> QED  BY <2>8, <1>1 DEF Serial!Next
<1> QED  BY <1>2, <1>3

\* A step that completes a receipt and changes the car applies its operation.
LEMMA Applies ==
    ASSUME IInv, NEW r \in requests, Pending(r), NEW copy,
           OnBase(r.command, car), car' = Effect(r.command, car),
           receipt' = Completed(r, "applied", copy)
    PROVE  Serial!Next
<1>1. /\ r.id \in Operations /\ receipt \in [Operations -> ReceiptType]
      /\ receipt[r.id] \in ReceiptType
    BY DEF IInv, Typed, RequestType
<1>2. PICK was : was = receipt[r.id]  OBVIOUS
<1>3. PICK row : row = [was EXCEPT !.outcome = "applied", !.car = copy]  OBVIOUS
<1>4. receipt' = [receipt EXCEPT ![r.id] = row]
    BY <1>1, <1>2, <1>3 DEF Completed
<1>5. row.outcome = "applied" /\ row.command = was.command
    BY <1>1, <1>2, <1>3 DEF ReceiptType
<1>6. was.outcome = "pending" /\ was.command = r.command  BY <1>2 DEF Pending
<1>7. [o \in Operations |-> receipt[o].outcome]' =
            [[o \in Operations |-> receipt[o].outcome] EXCEPT ![r.id] = "applied"]
    BY <1>1, <1>4, <1>5
<1>8. [o \in Operations |-> receipt[o].command]' =
            [o \in Operations |-> receipt[o].command]
    BY <1>1, <1>2, <1>4, <1>5
<1>9. Serial!Apply(r.id)
    BY <1>1, <1>2, <1>6, <1>7, <1>8 DEF Serial!Apply
<1> QED  BY <1>1, <1>9 DEF Serial!Next

\* The first request of an operation binds it.
LEMMA Accepts ==
    ASSUME IInv, NEW r \in requests, Claim(r)
    PROVE  [Serial!Next]_(Serial!vars)
<1>1. /\ r.id \in Operations /\ receipt \in [Operations -> ReceiptType]
      /\ receipt[r.id] \in ReceiptType /\ car' = car
    BY DEF IInv, Typed, RequestType, Claim
<1>2. CASE receipt[r.id].outcome # "none"
    <2>1. receipt' = receipt  BY <1>2 DEF Claim
    <2> QED  BY <1>1, <2>1 DEF Serial!vars
<1>3. CASE receipt[r.id].outcome = "none"
    <2>1. PICK row : row = [receipt[r.id] EXCEPT !.outcome = "pending",
                                                 !.command = r.command]
        OBVIOUS
    <2>2. receipt' = [receipt EXCEPT ![r.id] = row]  BY <2>1, <1>1, <1>3 DEF Claim
    <2>3. row.outcome = "pending"  BY <2>1, <1>1 DEF ReceiptType
    <2>4. [o \in Operations |-> receipt[o].outcome]' =
                [[o \in Operations |-> receipt[o].outcome] EXCEPT ![r.id] = "pending"]
        BY <2>2, <2>3, <1>1
    <2>5. \A p \in Operations \ {r.id} : receipt'[p].command = receipt[p].command
        BY <2>2, <1>1
    <2>6. Serial!Accept(r.id)
        BY <2>4, <2>5, <1>1, <1>3 DEF Serial!Accept
    <2> QED  BY <2>6, <1>1 DEF Serial!Next
<1> QED  BY <1>2, <1>3

\* However often an operation is delivered and however requests overlap, it changes the
\* car once, in the step that makes it applied, and only over the values it is based on.
THEOREM Implements == Spec => SerialSpec
<1>1. Init => Serial!Init
    BY DEF Init, Serial!Init
<1>2. ASSUME IInv, [Next]_vars  PROVE [Serial!Next]_(Serial!vars)
    <2>1. ASSUME UNCHANGED <<car, receipt>>  PROVE UNCHANGED Serial!vars
        BY <2>1 DEF Serial!vars
    <2>2. ASSUME NEW d \in Devices, NEW kind \in {"create", "edit"} \cup Lifecycle,
                 NEW changes \in Edits \cup NewCars \cup {Unset}, Commit(d, kind, changes)
          PROVE  UNCHANGED Serial!vars
        BY <2>1, <2>2 DEF Commit, server
    <2>3. ASSUME NEW d \in Devices,
                 \/ Send(d) \/ FindNothing(d) \/ Close(d) \/ GiveUp(d) \/ Retry(d)
                 \/ Restart(d) \/ Observe(d)
          PROVE  UNCHANGED Serial!vars
        BY <2>1, <2>3
        DEF Send, FindNothing, Close, GiveUp, Retry, Restart, Observe, server
    <2>4. ASSUME NEW d \in Devices, NEW o \in queue[d], KeepMine(d, o) \/ Discard(d, o)
          PROVE  UNCHANGED Serial!vars
        BY <2>1, <2>4 DEF KeepMine, Discard, server
    <2>5. ASSUME NEW r \in requests, Receive(r) \/ ReceiveUnavailable(r)
          PROVE  UNCHANGED Serial!vars
        BY <2>1, <2>5 DEF Receive, ReceiveUnavailable, server
    <2>6. ASSUME NEW r \in requests, Serve(r)  PROVE [Serial!Next]_(Serial!vars)
        <3>0. RequestOK(r) /\ r.seen \in Copies /\ r.id # 0
            BY <1>2, SyncAssumption DEF IInv, Typed, RequestType, Operations
        <3>1. CASE Claim(r)  BY <1>2, <3>1, Accepts
        <3>2. CASE RejectInvalid(r)
            BY <1>2, <3>2, Settles DEF RejectInvalid, Reject, Final
        <3>3. CASE ReadCar(r)  BY <2>1, <3>3 DEF ReadCar, server
        <3>4. CASE RejectMissing(r)  BY <3>0, <3>4 DEF RejectMissing, RequestOK
        <3>5. CASE AcknowledgeSame(r)
            BY <1>2, <3>5, Settles DEF AcknowledgeSame, AlreadySo, Repeatable, Final
        <3>6. CASE Refuse(r)
            BY <1>2, <3>6, Settles DEF Refuse, Final
        <3>7. CASE ApplyChange(r)
            <4>1. CASE ~ Writable(r)
                <5>1. car' = car /\ lastOperation' = lastOperation
                    BY <3>7, <4>1 DEF ApplyChange
                <5>2. ~ Witnessed(r)
                    BY <5>1, <1>2, <3>0 DEF Witnessed, Pending, IInv, CarOK
                <5>3. receipt' = receipt  BY <3>7, <5>2 DEF ApplyChange
                <5> QED  BY <2>1, <5>1, <5>3
            <4>2. CASE Writable(r)
                <5>1. /\ Pending(r) /\ car # NoCar /\ car.version = r.seen.version
                      /\ lastOperation' = r.id /\ car' = Effect(r.command, car)
                      /\ OnBase(r.command, r.seen) /\ r.seen # NoCar
                    BY <3>7, <4>2 DEF Writable, ApplyChange
                <5>2. r.seen = car  BY <3>0, <5>1 DEF RequestOK, Copy
                <5>3. Witnessed(r)  BY <5>1 DEF Witnessed
                <5>4. receipt' = Completed(r, "applied", Effect(r.command, r.seen))
                    BY <3>7, <5>3 DEF ApplyChange
                <5> QED  BY <1>2, <5>1, <5>2, <5>4, Applies
            <4> QED  BY <4>1, <4>2
        <3>8. CASE CreateCar(r)
            <4>1. CASE Pending(r) /\ car # NoCar
                BY <2>1, <3>8, <4>1 DEF CreateCar
            <4>2. CASE ~ Pending(r)
                <5>1. receipt' = receipt /\ car' = car
                    BY <1>2, <3>8, <4>2 DEF CreateCar, Completed, IInv, Typed
                <5> QED  BY <2>1, <5>1
            <4>3. CASE Pending(r) /\ car = NoCar
                <5>1. /\ car' = Effect(r.command, car) /\ r.command.kind = "create"
                      /\ receipt' = Completed(r, "applied", Effect(r.command, car))
                    BY <3>8, <4>3 DEF CreateCar
                <5>2. OnBase(r.command, car)  BY <4>3, <5>1 DEF OnBase
                <5> QED  BY <1>2, <4>3, <5>1, <5>2, Applies
            <4> QED  BY <4>1, <4>2, <4>3
        <3> QED
            BY <2>6, <3>1, <3>2, <3>3, <3>4, <3>5, <3>6, <3>7, <3>8 DEF Serve
    <2>7. CASE UNCHANGED vars  BY <2>1, <2>7 DEF vars
    <2> QED  BY <1>2, <2>2, <2>3, <2>4, <2>5, <2>6, <2>7 DEF Next
<1> QED  BY Invariant, <1>1, <1>2, PTL DEF Spec, SerialSpec, Serial!Spec
=============================================================================
