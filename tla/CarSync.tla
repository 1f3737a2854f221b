------------------------------- MODULE CarSync -------------------------------
(* Synchronization of one car between devices that work offline and the server *)
(* (src/routes/cars/car-sync.ts and the client under src/client/src/app).      *)
(* A device queues commands over its copy of the car, sends them one at a time *)
(* and records the outcomes; the server claims a receipt per operation, reads  *)
(* the car and writes car, maintenance plan and receipt in one batch.          *)
EXTENDS Integers, FiniteSets

CONSTANTS Devices,
          Fields,        \* the editable fields of the car
          Values,        \* what a field may hold
          Edits,         \* the changes users type: functions from some fields to values
          NewCars,       \* the inputs users create the car with
          Blank,         \* the value of a field the first car starts with
          Bad,           \* a value the server's schema refuses
          NoCar,
          MaxOperations, \* operation identities drawn in all
          Flaky,         \* the devices that lose requests or restart
          MaxTries       \* how often

Operations == 1..MaxOperations
Unset == [f \in {} |-> Blank]
Cars == [fields : [Fields -> Values], archived : Int, version : Nat]

ASSUME SyncAssumption ==
    /\ MaxOperations \in Nat /\ Blank \in Values /\ NoCar \notin Cars
    /\ NewCars \subseteq [Fields -> Values]
    /\ \A changes \in Edits : /\ DOMAIN changes \subseteq Fields
                              /\ changes \in [DOMAIN changes -> Values]

VARIABLES car,           \* the row of the car at the server
          lastOperation, \* its column lastOperationId (0: none)
          pausedByCar,   \* the car's maintenance plan is paused by its archive
          receipt,       \* operation -> row of sync_operation
          requests,      \* requests the server works on
          cached,        \* device -> acknowledged copy of the car
          queue,         \* device -> queued operations
          loop,          \* device -> position of runSync
          timer,         \* device -> a retry is scheduled
          tries,         \* device -> requests given up so far
          drawn,         \* operation identities drawn so far
          shown          \* operation -> what its author saw in the changed fields (history)

server == <<car, lastOperation, pausedByCar, receipt>>
vars == <<car, lastOperation, pausedByCar, receipt, requests, cached, queue, loop,
          timer, tries, drawn, shown>>

------------------------------------------------------------------------------
(* Commands, operations and cars                                               *)

Lifecycle == {"archive", "restore"}

FirstCar(values) == [fields |-> values, archived |-> 0, version |-> 1]

Newest(operations) == {o \in operations : \A p \in operations : p.sequence =< o.sequence}

Latest(operations) == CHOOSE o \in Newest(operations) : TRUE

(* materializeCars, the working copy a user sees: the acknowledged copy under   *)
(* the queued commands in their sequence, so that the latest one counts that    *)
(* sets a field or moves the car; a creation, always the first, sets them all.  *)
(* 0 is "not archived"; server times are versions and local times negative, so  *)
(* that none is equal.                                                          *)
Creations(d) == {o \in queue[d] : o.kind = "create"}

Setting(d, f) == {o \in queue[d] : o.kind \in {"create", "edit"} /\ f \in DOMAIN o.changes}

Moving(d) == {o \in queue[d] : o.kind # "edit"}

Working(d) ==
    IF cached[d] = NoCar /\ Creations(d) = {} THEN NoCar
    ELSE [fields |-> [f \in Fields |-> IF Setting(d, f) = {} THEN cached[d].fields[f]
                                      ELSE Latest(Setting(d, f)).changes[f]],
          archived |-> IF Moving(d) = {} THEN cached[d].archived
                       ELSE IF Latest(Moving(d)).kind = "archive" THEN -Latest(Moving(d)).id
                       ELSE 0,
          version |-> IF Creations(d) = {} THEN cached[d].version ELSE 0]

(* The base a command carries, read from a copy of the car.                    *)
BaseOf(kind, changes, copy) ==
    [version |-> IF copy = NoCar THEN 0 ELSE copy.version,
     fields |-> IF kind = "edit" THEN [f \in DOMAIN changes |-> copy.fields[f]] ELSE Unset,
     archived |-> IF kind \in Lifecycle THEN copy.archived ELSE 0]

(* buildCarSyncOperation                                                       *)
Built(d, id, kind, changes) ==
    [id |-> id,
     sequence |-> IF queue[d] = {} THEN 1 ELSE 1 + Latest(queue[d]).sequence,
     kind |-> kind,
     changes |-> changes,
     base |-> BaseOf(kind, changes, Working(d)),
     after |-> {o.id : o \in Newest(queue[d])},
     status |-> "pending",
     remote |-> NoCar]

Command(o) == [kind |-> o.kind, changes |-> o.changes, base |-> o.base]

(* rebaseCarSyncOperation: an operation that waited for an acknowledged one    *)
(* takes its base from the acknowledged car.                                   *)
Rebased(o, id, acknowledged) ==
    IF id \notin o.after THEN o
    ELSE [o EXCEPT !.after = @ \ {id},
                   !.base = IF o.kind = "create" THEN @
                            ELSE BaseOf(o.kind, o.changes, acknowledged)]

(* readyCarSyncOperations                                                      *)
Ready(operations) == {o \in operations : o.status = "pending" /\ o.after = {}}

(* mergeCanonicalCars: a copy never replaces a newer one.                      *)
Merged(d, copy) ==
    IF cached[d] # NoCar /\ copy.version < cached[d].version THEN cached[d] ELSE copy

------------------------------------------------------------------------------
(* The devices                                                                 *)

Wake(d) == loop' = [loop EXCEPT ![d] = IF @ = "idle" THEN "reading" ELSE @]

Known == [f \in Fields |-> Blank]

Init ==
    /\ \E exists \in BOOLEAN :
          /\ car = IF exists THEN FirstCar(Known) ELSE NoCar
          /\ cached = [d \in Devices |-> car]
    /\ lastOperation = 0
    /\ pausedByCar = FALSE
    /\ receipt = [o \in Operations |->
                     [outcome |-> "none", command |-> NoCar, car |-> NoCar]]
    /\ requests = {}
    /\ queue = [d \in Devices |-> {}]
    /\ loop = [d \in Devices |-> "idle"]
    /\ timer = [d \in Devices |-> FALSE]
    /\ tries = [d \in Devices |-> 0]
    /\ drawn = 0
    /\ shown = [o \in Operations |-> Unset]

(* commitCar, then runSync. The garage offers "archive" for a car shown as     *)
(* active and "restore" for one shown as archived; the car that is followed    *)
(* is created once.                                                            *)
Offered(d, kind, changes) ==
    \/ kind = "create" /\ changes \in NewCars /\ drawn = 0 /\ car = NoCar
    \/ kind = "edit" /\ changes \in Edits /\ Working(d) # NoCar
    \/ /\ kind \in Lifecycle /\ changes = Unset /\ Working(d) # NoCar
       /\ (kind = "archive") = (Working(d).archived = 0)

Commit(d, kind, changes) ==
    /\ drawn < MaxOperations
    /\ Offered(d, kind, changes)
    /\ drawn' = drawn + 1
    /\ LET o == Built(d, drawn', kind, changes)
       IN /\ queue' = [queue EXCEPT ![d] = @ \cup {o}]
          /\ shown' = [shown EXCEPT ![o.id] = o.base.fields]
    /\ Wake(d)
    /\ UNCHANGED <<server, requests, cached, timer, tries>>

(* runSync reads the ready operations and sends the first.                     *)
Send(d) ==
    /\ loop[d] = "reading"
    /\ Ready(queue[d]) # {}
    /\ \E o \in Ready(queue[d]) :
          /\ \A p \in Ready(queue[d]) : o.sequence =< p.sequence
          /\ requests' = requests \cup
                {[by |-> d, try |-> tries[d], id |-> o.id, command |-> Command(o),
                  step |-> "sent", seen |-> NoCar, answer |-> "none", copy |-> NoCar]}
    /\ loop' = [loop EXCEPT ![d] = "waiting"]
    /\ UNCHANGED <<server, cached, queue, timer, tries, drawn, shown>>

(* Nothing is ready; the flag that keeps a second runSync out is lowered later. *)
FindNothing(d) ==
    /\ loop[d] = "reading"
    /\ Ready(queue[d]) = {}
    /\ loop' = [loop EXCEPT ![d] = "closing"]
    /\ UNCHANGED <<server, requests, cached, queue, timer, tries, drawn, shown>>

Close(d) ==
    /\ loop[d] = "closing"
    /\ loop' = [loop EXCEPT ![d] = "idle"]
    /\ UNCHANGED <<server, requests, cached, queue, timer, tries, drawn, shown>>

Awaited(r) == loop[r.by] = "waiting" /\ r.try = tries[r.by]

(* Faulty: the outcome is stored under the server's name for it.               *)
RecordedVerbatim(d, r) ==
    LET own == {o \in queue[d] : o.id = r.id}
    IN IF r.answer = "applied"
       THEN {Rebased(o, r.id, Merged(d, r.copy)) : o \in queue[d] \ own}
       ELSE (queue[d] \ own) \cup {[o EXCEPT !.status = r.answer, !.remote = r.copy] : o \in own}

(* recordCarOutcome                                                            *)
Recorded(d, r) ==
    LET rest == {o \in queue[d] : o.id # r.id}
        own  == queue[d] \ rest
    IN IF own = {} THEN queue[d]
       ELSE CASE r.answer = "applied" -> {Rebased(o, r.id, Merged(d, r.copy)) : o \in rest}
              [] r.answer = "conflict" ->
                    rest \cup {[o EXCEPT !.status = "conflict", !.remote = r.copy] : o \in own}
              [] OTHER -> rest \cup {[o EXCEPT !.status = "needs-attention"] : o \in own}

(* An outcome arrives: markRequestSucceeded, recordCarOutcome and on with the loop. *)
Receive(r) ==
    /\ Awaited(r)
    /\ r.step = "answered" /\ r.answer # "unavailable"
    /\ queue' = [queue EXCEPT ![r.by] = Recorded(r.by, r)]
    /\ cached' = IF r.answer = "applied" /\ \E o \in queue[r.by] : o.id = r.id
                 THEN [cached EXCEPT ![r.by] = Merged(r.by, r.copy)] ELSE cached
    /\ requests' = requests \ {r}
    /\ timer' = [timer EXCEPT ![r.by] = FALSE]
    /\ loop' = [loop EXCEPT ![r.by] = "reading"]
    /\ UNCHANGED <<server, tries, drawn, shown>>

(* The server answers 503: the loop ends and a retry is scheduled.             *)
ReceiveUnavailable(r) ==
    /\ Awaited(r)
    /\ r.step = "answered" /\ r.answer = "unavailable"
    /\ requests' = requests \ {r}
    /\ timer' = [timer EXCEPT ![r.by] = TRUE]
    /\ loop' = [loop EXCEPT ![r.by] = "idle"]
    /\ UNCHANGED <<server, cached, queue, tries, drawn, shown>>

(* Faulty: nobody schedules a retry.                                           *)
GiveUpForGood(d) ==
    /\ loop[d] = "waiting"
    /\ d \in Flaky /\ tries[d] < MaxTries
    /\ tries' = [tries EXCEPT ![d] = @ + 1]
    /\ requests' = {r \in requests : r.by # d \/ r.step # "answered"}
    /\ loop' = [loop EXCEPT ![d] = "idle"]
    /\ UNCHANGED <<server, cached, queue, timer, drawn, shown>>

(* No answer: the request or its answer was lost, the worker died, or it still *)
(* works on the request, which stays behind.                                   *)
GiveUp(d) ==
    /\ loop[d] = "waiting"
    /\ d \in Flaky /\ tries[d] < MaxTries
    /\ tries' = [tries EXCEPT ![d] = @ + 1]
    /\ requests' = {r \in requests : r.by # d \/ r.step # "answered"}
    /\ timer' = [timer EXCEPT ![d] = TRUE]
    /\ loop' = [loop EXCEPT ![d] = "idle"]
    /\ UNCHANGED <<server, cached, queue, drawn, shown>>

(* The timer moves the retry hint, and the hint runs the loop.                 *)
Retry(d) ==
    /\ timer[d]
    /\ timer' = [timer EXCEPT ![d] = FALSE]
    /\ Wake(d)
    /\ UNCHANGED <<server, requests, cached, queue, tries, drawn, shown>>

(* The page is closed at any moment and opened again: the database remains.    *)
Restart(d) ==
    /\ d \in Flaky /\ tries[d] < MaxTries
    /\ tries' = [tries EXCEPT ![d] = @ + 1]
    /\ requests' = {r \in requests : r.by # d \/ r.step # "answered"}
    /\ timer' = [timer EXCEPT ![d] = FALSE]
    /\ loop' = [loop EXCEPT ![d] = "reading"]
    /\ UNCHANGED <<server, cached, queue, drawn, shown>>

(* Faulty: queued commands are based on every copy that arrives.               *)
ObserveAndRebase(d) ==
    /\ car # NoCar
    /\ cached[d] # car
    /\ cached' = [cached EXCEPT ![d] = Merged(d, car)]
    /\ queue' = [queue EXCEPT ![d] = {[o EXCEPT !.base = IF o.kind = "create" THEN @
                                           ELSE BaseOf(o.kind, o.changes, car)] : o \in @}]
    /\ UNCHANGED <<server, requests, loop, timer, tries, drawn, shown>>

(* observeServerCars: the list of cars is read from the server and merged.     *)
Observe(d) ==
    /\ car # NoCar
    /\ cached[d] # car
    /\ cached' = [cached EXCEPT ![d] = Merged(d, car)]
    /\ UNCHANGED <<server, requests, queue, loop, timer, tries, drawn, shown>>

(* retryReviewedOperation: the same intent under a new identity, based on the  *)
(* remote car the review showed.                                               *)
Reviewed(o, id) ==
    [o EXCEPT !.id = id, !.status = "pending", !.remote = NoCar,
              !.base = IF o.remote = NoCar \/ o.kind = "create" THEN @
                       ELSE BaseOf(o.kind, o.changes, o.remote)]

(* resolveSyncReview, the user keeps the change of the device: dependent       *)
(* operations follow the new identity. The stores are opened again.            *)
KeepMine(d, o) ==
    /\ o.status # "pending"
    /\ drawn < MaxOperations
    /\ drawn' = drawn + 1
    /\ queue' = [queue EXCEPT ![d] =
                    {IF p = o THEN Reviewed(o, drawn')
                     ELSE IF o.id \in p.after
                          THEN [p EXCEPT !.after = (@ \ {o.id}) \cup {drawn'}]
                          ELSE p : p \in @}]
    /\ cached' = IF o.remote = NoCar THEN cached
                 ELSE [cached EXCEPT ![d] = Merged(d, o.remote)]
    /\ shown' = [shown EXCEPT ![drawn'] = Reviewed(o, drawn').base.fields]
    /\ Wake(d)
    /\ UNCHANGED <<server, requests, timer, tries>>

(* resolveSyncReview, the user discards the change: what depended on it needs  *)
(* attention, and keeps the discarded identity among its dependencies.         *)
Discard(d, o) ==
    /\ o.status # "pending"
    /\ queue' = [queue EXCEPT ![d] =
                    {IF o.id \in p.after THEN [p EXCEPT !.status = "needs-attention"] ELSE p :
                        p \in @ \ {o}}]
    /\ cached' = IF o.remote = NoCar THEN cached
                 ELSE [cached EXCEPT ![d] = Merged(d, o.remote)]
    /\ Wake(d)
    /\ UNCHANGED <<server, requests, timer, tries, drawn, shown>>

------------------------------------------------------------------------------
(* The server                                                                  *)

(* pendingSyncReceipt: the receipt of exactly this request is still pending.   *)
Pending(r) ==
    /\ receipt[r.id].outcome = "pending"
    /\ receipt[r.id].command = r.command

(* The row of the receipt after a batch that would complete it.                *)
Completed(r, outcome, copy) ==
    [receipt EXCEPT ![r.id] = IF Pending(r)
        THEN [@ EXCEPT !.outcome = outcome, !.car = copy] ELSE @]

(* The answer reaches a device that still waits for it.                        *)
Answer(r, answer, copy) ==
    requests' = (requests \ {r}) \cup
        {[p EXCEPT !.step = "answered", !.seen = NoCar, !.answer = answer, !.copy = copy] :
            p \in {q \in {r} : Awaited(q)}}

(* requireTerminalReceipt: without one the request ends as a 503.              *)
AnswerFromReceipt(r) ==
    LET row == receipt'[r.id]
    IN IF row.outcome = "pending" THEN Answer(r, "unavailable", NoCar)
       ELSE Answer(r, row.outcome, row.car)

(* The receipt is inserted or read: a terminal one is the answer, a pending    *)
(* one lets the request go on, one of another request refuses this one.        *)
Claim(r) ==
    /\ r.step = "sent"
    /\ receipt' = IF receipt[r.id].outcome # "none" THEN receipt
                  ELSE [receipt EXCEPT ![r.id] = [@ EXCEPT !.outcome = "pending",
                                                           !.command = r.command]]
    /\ LET row == receipt'[r.id]
       IN IF row.command # r.command THEN Answer(r, "reused", NoCar)
          ELSE IF row.outcome # "pending" THEN Answer(r, row.outcome, row.car)
          ELSE requests' = (requests \ {r}) \cup {[r EXCEPT !.step = "claimed"]}
    /\ UNCHANGED <<car, lastOperation, pausedByCar>>

Refused(command) == \E f \in DOMAIN command.changes : command.changes[f] = Bad

Reject(r) ==
    /\ receipt' = Completed(r, "rejected", NoCar)
    /\ Answer(r, "rejected", NoCar)
    /\ UNCHANGED <<car, lastOperation, pausedByCar>>

(* rejectValidation                                                            *)
RejectInvalid(r) ==
    /\ r.step = "claimed"
    /\ Refused(r.command)
    /\ Reject(r)

(* ownedCar                                                                    *)
ReadCar(r) ==
    /\ r.step = "claimed"
    /\ r.command.kind # "create" /\ ~Refused(r.command)
    /\ requests' = (requests \ {r}) \cup {[r EXCEPT !.step = "read", !.seen = car]}
    /\ UNCHANGED server

(* rejectNotFound                                                              *)
RejectMissing(r) ==
    /\ r.step = "read"
    /\ r.seen = NoCar
    /\ Reject(r)

(* The car has the values the command is based on.                             *)
OnBase(command, copy) ==
    CASE command.kind = "create" -> copy = NoCar
      [] command.kind = "edit" ->
            /\ copy # NoCar
            /\ \A f \in DOMAIN command.changes : copy.fields[f] = command.base.fields[f]
      [] OTHER -> copy # NoCar /\ copy.archived = command.base.archived

(* An archived car is archived, or an active one restored, without a change.   *)
AlreadySo(command, copy) ==
    /\ command.kind \in Lifecycle
    /\ (command.kind = "archive") = (copy.archived # 0)

AcknowledgeSame(r) ==
    /\ r.step = "read" /\ r.seen # NoCar
    /\ AlreadySo(r.command, r.seen)
    /\ receipt' = Completed(r, "applied", r.seen)
    /\ AnswerFromReceipt(r)
    /\ UNCHANGED <<car, lastOperation, pausedByCar>>

Refuse(r) ==
    /\ r.step = "read" /\ r.seen # NoCar
    /\ ~AlreadySo(r.command, r.seen) /\ ~OnBase(r.command, r.seen)
    /\ receipt' = Completed(r, "conflict", r.seen)
    /\ AnswerFromReceipt(r)
    /\ UNCHANGED <<car, lastOperation, pausedByCar>>

(* The car after a command that fits.                                          *)
Effect(command, copy) ==
    IF command.kind = "create" THEN FirstCar(command.changes)
    ELSE [fields |-> [f \in Fields |-> IF f \in DOMAIN command.changes
                                       THEN command.changes[f] ELSE copy.fields[f]],
          archived |-> CASE command.kind = "archive" -> copy.version + 1
                         [] command.kind = "restore" -> 0
                         [] OTHER -> copy.archived,
          version |-> copy.version + 1]

(* Faulty: the statement does not ask for the version that was read.           *)
WritableOver(r) == Pending(r) /\ car # NoCar

(* The condition of the batch's first statement: the receipt is pending, the   *)
(* row has the version that was read and, for the lifecycle, its base.         *)
Writable(r) ==
    /\ Pending(r)
    /\ car # NoCar /\ car.version = r.seen.version
    /\ r.command.kind \in Lifecycle => OnBase(r.command, car)

(* Faulty: the other statements do not look for what the first has written.    *)
WitnessedByReceipt(r) == Pending(r)

(* The row of the receipt becomes "applied" if the car names this operation.   *)
Witnessed(r) == Pending(r) /\ lastOperation' = r.id

ApplyChange(r) ==
    /\ r.step = "read" /\ r.seen # NoCar
    /\ ~AlreadySo(r.command, r.seen) /\ OnBase(r.command, r.seen)
    /\ car' = IF Writable(r) THEN Effect(r.command, car) ELSE car
    /\ lastOperation' = IF Writable(r) THEN r.id ELSE lastOperation
    /\ pausedByCar' = IF r.command.kind \in Lifecycle /\ Witnessed(r)
                      THEN r.command.kind = "archive" ELSE pausedByCar
    /\ receipt' = IF Witnessed(r) THEN Completed(r, "applied", Effect(r.command, r.seen))
                  ELSE receipt
    /\ AnswerFromReceipt(r)

(* car.create: a row with this identity makes the whole batch fail.            *)
CreateCar(r) ==
    /\ r.step = "claimed"
    /\ r.command.kind = "create" /\ ~Refused(r.command)
    /\ LET inserts == Pending(r)
           fails   == inserts /\ car # NoCar
       IN /\ car' = IF inserts /\ ~fails THEN Effect(r.command, car) ELSE car
          /\ lastOperation' = IF inserts /\ ~fails THEN r.id ELSE lastOperation
          /\ receipt' = IF fails THEN receipt
                        ELSE Completed(r, "applied", Effect(r.command, car))
    /\ AnswerFromReceipt(r)
    /\ UNCHANGED pausedByCar

Serve(r) ==
    /\ \/ Claim(r) \/ RejectInvalid(r) \/ ReadCar(r) \/ RejectMissing(r)
       \/ AcknowledgeSame(r) \/ Refuse(r) \/ ApplyChange(r) \/ CreateCar(r)
    /\ UNCHANGED <<cached, queue, loop, timer, tries, drawn, shown>>

------------------------------------------------------------------------------
Next ==
    \/ \E d \in Devices :
          \/ \E kind \in {"create", "edit"} \cup Lifecycle,
                changes \in Edits \cup NewCars \cup {Unset} : Commit(d, kind, changes)
          \/ Send(d) \/ FindNothing(d) \/ Close(d) \/ GiveUp(d) \/ Retry(d)
          \/ Restart(d) \/ Observe(d)
          \/ \E o \in queue[d] : KeepMine(d, o) \/ Discard(d, o)
    \/ \E r \in requests : Receive(r) \/ ReceiveUnavailable(r) \/ Serve(r)

Spec == Init /\ [][Next]_vars

(* A device that runs goes on with its loop and its timer, and the server with *)
(* the request the device waits for; requests left behind may stop anywhere.   *)
GoOn(d) ==
    \/ Send(d) \/ FindNothing(d) \/ Close(d) \/ Retry(d)
    \/ \E r \in requests : r.by = d /\ (Receive(r) \/ ReceiveUnavailable(r)
                                        \/ (Awaited(r) /\ Serve(r)))

FairSpec == Spec /\ WF_vars(\E d \in Devices : GoOn(d))

------------------------------------------------------------------------------
(* Properties                                                                  *)

Outcomes == {"none", "pending", "applied", "conflict", "rejected"}

Partial(g) == DOMAIN g \subseteq Fields /\ \A f \in DOMAIN g : g[f] \in Values

IsCommand(c) ==
    /\ c.kind \in {"create", "edit"} \cup Lifecycle
    /\ Partial(c.changes) /\ Partial(c.base.fields)
    /\ c.base.version \in Nat /\ c.base.archived \in Int

(* Every variable has its type.                                                *)
TypeOK ==
    /\ car \in Cars \cup {NoCar}
    /\ lastOperation \in Operations \cup {0}
    /\ pausedByCar \in BOOLEAN
    /\ \A o \in Operations :
          /\ receipt[o].outcome \in Outcomes /\ receipt[o].car \in Cars \cup {NoCar}
          /\ receipt[o].outcome # "none" => IsCommand(receipt[o].command)
    /\ \A r \in requests :
          /\ r.by \in Devices /\ r.try \in Nat /\ r.id \in Operations
          /\ IsCommand(r.command)
          /\ r.step \in {"sent", "claimed", "read", "answered"}
          /\ {r.seen, r.copy} \subseteq Cars \cup {NoCar}
    /\ cached \in [Devices -> Cars \cup {NoCar}]
    /\ \A d \in Devices : \A o \in queue[d] :
          /\ o.id \in Operations /\ o.sequence \in Nat /\ IsCommand(o)
          /\ o.after \subseteq Operations
          /\ o.status \in {"pending", "needs-attention", "conflict"}
    /\ loop \in [Devices -> {"idle", "reading", "waiting", "closing"}]
    /\ timer \in [Devices -> BOOLEAN]
    /\ tries \in [Devices -> Nat] /\ drawn \in Nat

Repeatable(command) == command.kind \in Lifecycle

(* The abstract contract. Its operators speak of commands the server accepted. *)
Serial == INSTANCE SerialCar WITH
    outcome <- [o \in Operations |-> receipt[o].outcome],
    command <- [o \in Operations |-> receipt[o].command],
    Fits <- OnBase

(* However often an operation is delivered, by whatever device, and however    *)
(* the requests overlap, it changes the car once, in the step that makes it    *)
(* applied, and only over the values it is based on (car-sync.ts: the batches  *)
(* and their conditions).                                                      *)
SerialSpec == Serial!Spec

(* An operation identity is never sent with two bodies, and what waits in the  *)
(* queue under a claimed identity is what was claimed: a retry can never run   *)
(* into OPERATION_ID_REUSED (car-sync-rules.ts rebases only what was not sent). *)
StableBodies ==
    /\ \A r \in requests : receipt[r.id].outcome # "none" =>
          receipt[r.id].command = r.command
    /\ \A d \in Devices : \A o \in queue[d] : receipt[o.id].outcome # "none" =>
          receipt[o.id].command = Command(o)

(* Nothing is refused because the car it is about is not there yet: what the   *)
(* server rejects is what its schema refuses (readyCarSyncOperations).         *)
CreationComesFirst ==
    \A o \in Operations : receipt[o].outcome = "rejected" => Refused(receipt[o].command)

(* The maintenance plan is paused by the car exactly while the car is archived *)
(* (the second statement of a lifecycle batch and its witness).                *)
PlanFollowsCar == pausedByCar = (car # NoCar /\ car.archived # 0)

(* Every copy of the car that a receipt, a request or a device holds is the    *)
(* car as it was at that version: an answer never describes a car that was     *)
(* not there (the answers are computed from the row read before the batch).    *)
CopiesAreVersions ==
    LET copies == {receipt[o].car : o \in Operations} \cup {r.seen : r \in requests}
                     \cup {r.copy : r \in requests} \cup {cached[d] : d \in Devices}
                     \cup UNION {{o.remote : o \in queue[d]} : d \in Devices}
    IN \A copy \in copies \ {NoCar} :
          /\ car # NoCar /\ copy.version =< car.version
          /\ copy.version = car.version => copy = car

(* What was written next to the car agrees with it, the plan as well as every  *)
(* copy: no batch takes effect in part, none with what another one has made    *)
(* stale.                                                                      *)
StateFollowsCar == PlanFollowsCar /\ CopiesAreVersions

(* What a review shows as the outcome of a queued operation is what the server *)
(* has recorded for it, and an operation that still waits for another one was  *)
(* never claimed (recordCarOutcome, resolveSyncReview).                        *)
MarksAreTrue ==
    \A d \in Devices : \A o \in queue[d] :
        /\ o.status = "conflict" =>
              receipt[o.id].outcome = "conflict" /\ o.remote = receipt[o.id].car
        /\ o.status = "needs-attention" => receipt[o.id].outcome \in {"none", "rejected"}
        /\ o.after # {} => receipt[o.id].outcome = "none"

(* What the queue of a device says of its operations is sound: under which     *)
(* body they were sent, what they wait for and what became of them.            *)
QueueIsSound == StableBodies /\ CreationComesFirst /\ MarksAreTrue

(* Queued work leaves a device only when the server has applied it or when the *)
(* user has decided in a review: it is never silently discarded (ADR 0015).    *)
NothingIsDropped ==
    [][\A d \in Devices : \A o \in queue[d] :
          (\A p \in queue'[d] : p.id # o.id) =>
              receipt[o.id].outcome = "applied" \/ o.status # "pending"]_vars

(* What the server has begun is finished and its author learns of it: requests *)
(* that go missing are sent again until the outcome is recorded (scheduleRetry, *)
(* the receipt's replay).                                                      *)
ClaimedWorkIsSettled ==
    <>[](\A o \in Operations :
            /\ receipt[o].outcome # "pending"
            /\ \A d \in Devices : \A p \in queue[d] :
                  p.id = o /\ receipt[o].outcome # "none" => p.status # "pending")

(* Queued work is settled: never dropped, and never stuck once it was begun.   *)
QueuedWorkIsSettled == NothingIsDropped /\ ClaimedWorkIsSettled

(* An edit replaces only values its author has seen, at the time of the edit   *)
(* or in the review (docs/adr/0015-offline-garage-work-after-initial-sync.md). *)
NothingUnseenIsOverwritten ==
    [][\A o \in Operations :
          receipt[o].outcome = "pending" /\ receipt'[o].outcome = "applied"
                /\ receipt[o].command.kind = "edit"
             => \A f \in DOMAIN shown[o] : car.fields[f] = shown[o][f]]_vars
=============================================================================
