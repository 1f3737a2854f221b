----------------------------- MODULE SetupHistory -----------------------------
(* The setups of one car and which of them is current                          *)
(* (src/src/routes/setups). Snapshots are saved, copied, corrected and selected *)
(* by online requests, by the acceptance of an import draft, and by commands   *)
(* that devices queued and send until they get a receipt. Every handler reads  *)
(* in one or more statements and writes in one batch, so that anything may     *)
(* happen in between; the batch repeats as conditions some of what was read.   *)
EXTENDS Naturals, FiniteSets

CONSTANTS MaxRequests, \* online requests; each also names the setup it may create
          Commands,    \* queued commands; each also names the setup it may create
          MaxTries,    \* executions of commands that can be under way together
          First,       \* the setup the car has in the beginning
          Fields,      \* the fields of a setup
          None,
          MaxBegun     \* how many requests, commands and other calls there are in all

VARIABLES car,         \* the columns of the row of the car: current setup, version of
                       \* the selection, operation that selected it, archived
          setups,      \* id -> row of the setup
          draft,       \* the row of the import draft
          asked,       \* request -> what it has read and what it was answered
          command,     \* command -> what the device queued
          receipt,     \* command -> outcome in its row of sync_operation
          try,         \* what each execution of a command has read
          effects,     \* id -> how often something was written for it (history)
          begun

setupVars == <<car, setups, draft, asked, command, receipt, try, effects, begun>>

Requests == 1..MaxRequests
Authors == Requests \cup Commands
Tries == 1..MaxTries
Ids == Authors \cup {First}

(* The names are different ones.                                               *)
ASSUME SetupAssumption ==
    /\ MaxRequests \in Nat /\ MaxTries \in Nat /\ MaxBegun \in Nat
    /\ Commands \cap Requests = {} /\ First \notin Authors /\ None \notin Ids
    /\ None \notin [version : Nat, fields : [Fields -> Ids], operation : Commands \cup {None}]

(* A field holds whatever its last author wrote; a copy holds what was copied. *)
Row(fields, operation) == [version |-> 1, fields |-> fields, operation |-> operation]

Written(i) == [f \in Fields |-> i]

(* An INSERT; the names that are inserted are new.                             *)
Inserted(i, row) ==
    [j \in DOMAIN setups \cup {i} |-> IF j \in DOMAIN setups THEN setups[j] ELSE row]

Selection == [current |-> car.current, version |-> car.version]

------------------------------------------------------------------------------
(* Batches                                                                     *)

(* setupSelectionWitness                                                       *)
Witness(seen) == Selection = seen

(* The car once a setup was selected; nextSetupSelectionVersion.               *)
Select(i, operation) ==
    [car EXCEPT !.current = i, !.version = @ + 1, !.operation = operation]

(* Faulty: the insertion does not depend on the selection.                     *)
InsertAnyway(i, row, makeCurrent, seen) ==
    /\ setups' = Inserted(i, row)
    /\ car' = IF makeCurrent /\ Witness(seen) THEN Select(i, None) ELSE car

(* Faulty: the selection does not depend on the existence of the row.          *)
SelectAnyway(i, row, makeCurrent, seen) ==
    /\ setups' = IF makeCurrent /\ ~Witness(seen) THEN setups ELSE Inserted(i, row)
    /\ car' = IF makeCurrent THEN Select(i, None) ELSE car

(* INSERT ... SELECT under the witness and, if it is to be current, the        *)
(* selection under the witness and the existence of the row.                   *)
Insert(i, row, makeCurrent, seen) ==
    /\ makeCurrent => Witness(seen)
    /\ setups' = Inserted(i, row)
    /\ car' = IF makeCurrent THEN Select(i, None) ELSE car

Counted(i) == effects' = [effects EXCEPT ![i] = @ + 1]

------------------------------------------------------------------------------
(* Online requests. One that finds the car archived is refused at once and     *)
(* does nothing.                                                               *)

Job(kind, setup, makeCurrent, guarded) ==
    [kind |-> kind, setup |-> setup, makeCurrent |-> makeCurrent, guarded |-> guarded,
     field |-> None, expected |-> 0, step |-> "read",
     car |-> IF makeCurrent THEN Selection ELSE None, row |-> None]

Unasked == [kind |-> "none", step |-> "none", makeCurrent |-> FALSE, guarded |-> FALSE,
            setup |-> None]

Saves == {"create", "copy", "copyOf", "accept"}

Begin == begun < MaxBegun /\ begun' = begun + 1

Began(r, job) ==
    /\ asked[r] = Unasked /\ \A q \in 1..(r - 1) : asked[q] # Unasked
    /\ Begin
    /\ asked' = [asked EXCEPT ![r] = job]

(* What is kept of a request that was answered.                                *)
Answer(r, answer) ==
    asked' = [asked EXCEPT ![r] = [kind |-> @.kind, step |-> answer,
                                   makeCurrent |-> @.makeCurrent, guarded |-> @.guarded,
                                   setup |-> @.setup]]

Untried == UNCHANGED <<command, receipt, try, begun>>

Asked == UNCHANGED <<car, setups, draft, effects, command, receipt, try>>

(* ownedCar and canWriteSetup, for requests about an existing setup or none.   *)
AskCreate(r) ==
    /\ ~car.archived
    /\ \E makeCurrent \in BOOLEAN :
          Began(r, [Job("create", None, makeCurrent, FALSE) EXCEPT !.step = "write"])
    /\ Asked

(* chooseCopySource: the setup that was current when the car was read.         *)
AskCopy(r) ==
    /\ ~car.archived
    /\ \E makeCurrent \in BOOLEAN : Began(r, Job("copy", car.current, makeCurrent, FALSE))
    /\ Asked

(* A guarded copy names the source as the current setup, in the version its    *)
(* author looked at. Without the guard it is saved and selected blindly.       *)
AskCopyOf(r) ==
    /\ ~car.archived
    /\ \E s \in DOMAIN setups, makeCurrent \in BOOLEAN :
          \/ Began(r, Job("copyOf", s, makeCurrent, FALSE))
          \/ \E version \in 1..setups[s].version :
                Began(r, [Job("copyOf", s, TRUE, TRUE) EXCEPT !.expected = version])
    /\ Asked

AskPatch(r) ==
    /\ ~car.archived
    /\ \E s \in DOMAIN setups, f \in Fields :
          Began(r, [Job("patch", s, FALSE, FALSE) EXCEPT !.field = f, !.row = setups[s],
                                                         !.step = "write"])
    /\ Asked

AskSelect(r) ==
    /\ ~car.archived
    /\ \E s \in DOMAIN setups : 
          Began(r, [Job("select", s, TRUE, FALSE) EXCEPT !.step = "write"])
    /\ Asked

(* The draft is read before the car.                                           *)
AskAccept(r) ==
    /\ draft.status = "draft"
    /\ \E makeCurrent \in BOOLEAN :
          Began(r, [Job("accept", None, makeCurrent, FALSE) EXCEPT !.step = "car", !.car = None])
    /\ Asked

AskCancel(r) ==
    /\ draft.status = "draft"
    /\ Began(r, [Job("cancel", None, FALSE, FALSE) EXCEPT !.step = "write"])
    /\ Asked

(* The second read of a copy: the row of its source.                           *)
ReadRow(r) ==
    /\ asked[r].step = "read"
    /\ asked' = [asked EXCEPT ![r].step = "write", ![r].row = setups[asked[r].setup]]
    /\ UNCHANGED <<car, setups, draft, effects>> /\ Untried

(* Acceptance: the car, and the setups imported from the same source.          *)
Imported == {i \in DOMAIN setups \cap Requests : asked[i].kind = "accept"}

ReadForImport(r) ==
    /\ asked[r].step = "car"
    /\ \/ (car.archived \/ Imported # {}) /\ Answer(r, "refused")
       \/ /\ ~car.archived /\ Imported = {}
          /\ asked' = [asked EXCEPT ![r].step = "write",
                                    ![r].car = IF asked[r].makeCurrent THEN Selection ELSE None]
    /\ UNCHANGED <<car, setups, draft, effects>> /\ Untried

Writing(r, kinds) == asked[r].step = "write" /\ asked[r].kind \in kinds

Refused(r, answer) ==
    /\ Answer(r, answer)
    /\ UNCHANGED <<car, setups, draft, effects>> /\ Untried

NewRow(r) ==
    Row(IF asked[r].row = None THEN Written(r) ELSE asked[r].row.fields, None)

(* POST setups, POST setups/copy                                               *)
Save(r) ==
    /\ Writing(r, {"create", "copy"})
    /\ \/ /\ Insert(r, NewRow(r), asked[r].makeCurrent, asked[r].car)
          /\ Answer(r, "saved") /\ Counted(r)
          /\ UNCHANGED draft /\ Untried
       \/ asked[r].makeCurrent /\ ~Witness(asked[r].car) /\ Refused(r, "refused")

(* Faulty: the version of the source is not compared.                          *)
UnguardedSource(r) == TRUE

(* The row the author of a guarded copy looked at is still there.              *)
GuardedSource(r) ==
    /\ setups[asked[r].setup].version = asked[r].expected
    /\ asked[r].car.current = asked[r].setup

(* POST setups/:setupId/copy                                                   *)
SaveCopyOf(r) ==
    LET job == asked[r]
    IN  /\ Writing(r, {"copyOf"})
        /\ \/ /\ job.guarded /\ GuardedSource(r)
              /\ Insert(r, NewRow(r), TRUE, job.car)
              /\ Answer(r, "saved") /\ Counted(r)
              /\ UNCHANGED draft /\ Untried
           \/ /\ job.guarded /\ ~(GuardedSource(r) /\ Witness(job.car))
              /\ Refused(r, "refused")
           \/ /\ ~job.guarded
              /\ setups' = Inserted(r, NewRow(r))
              /\ car' = IF job.makeCurrent THEN Select(r, None) ELSE car
              /\ Answer(r, "saved") /\ Counted(r)
              /\ UNCHANGED draft /\ Untried

(* POST setup-imports/drafts/:draftId/accept. The draft would refer to a row   *)
(* that was not inserted: the batch fails on the foreign key as a whole.       *)
Accept(r) ==
    /\ Writing(r, {"accept"})
    /\ \/ /\ Insert(r, Row(Written(r), None), asked[r].makeCurrent, asked[r].car)
          /\ draft' = [status |-> "accepted", setup |-> r]
          /\ Answer(r, "saved") /\ Counted(r) /\ Untried
       \/ asked[r].makeCurrent /\ ~Witness(asked[r].car) /\ Refused(r, "failed")

Cancel(r) ==
    /\ Writing(r, {"cancel"})
    /\ draft' = [draft EXCEPT !.status = "cancelled"]
    /\ Answer(r, "saved") /\ Counted(r)
    /\ UNCHANGED <<car, setups>> /\ Untried

(* PATCH setups/:setupId: a correction, under the version this handler read.   *)
Patch(r) ==
    LET job == asked[r]
        s == job.setup
    IN  /\ Writing(r, {"patch"})
        /\ \/ /\ setups[s].version = job.row.version
              /\ setups' = [setups EXCEPT ![s].version = @ + 1,
                                          ![s].fields[job.field] = r,
                                          ![s].operation = None]
              /\ Answer(r, "saved") /\ Counted(r)
              /\ UNCHANGED <<car, draft>> /\ Untried
           \/ setups[s].version # job.row.version /\ Refused(r, "refused")

(* POST setups/:setupId/current                                                *)
SelectCurrent(r) ==
    LET job == asked[r]
    IN  /\ Writing(r, {"select"})
        /\ \/ job.car.current = job.setup /\ Refused(r, "already")
           \/ /\ job.car.current # job.setup /\ Witness(job.car)
              /\ car' = Select(job.setup, None)
              /\ Answer(r, "saved") /\ Counted(r)
              /\ UNCHANGED <<setups, draft>> /\ Untried
           \/ /\ job.car.current # job.setup /\ ~Witness(job.car)
              /\ Refused(r, "refused")

(* POST archive, POST restore: they write other columns of the car.            *)
Toggle ==
    /\ Begin
    /\ car' = [car EXCEPT !.archived = ~@]
    /\ UNCHANGED <<setups, draft, asked, command, receipt, try, effects>>

Online(r) ==
    \/ AskCreate(r) \/ AskCopy(r) \/ AskCopyOf(r) \/ AskPatch(r) \/ AskSelect(r)
    \/ AskAccept(r) \/ AskCancel(r)
    \/ ReadRow(r) \/ ReadForImport(r)
    \/ Save(r) \/ SaveCopyOf(r) \/ Accept(r) \/ Cancel(r) \/ Patch(r) \/ SelectCurrent(r)

------------------------------------------------------------------------------
(* Commands. A device queues what its user did over the state it last saw and  *)
(* sends it until a receipt answers; two executions of one command may overlap, *)
(* because an answer may be given up for lost while the server still works.    *)

Unqueued == [type |-> "none", setup |-> None, makeCurrent |-> FALSE, base |-> Selection,
             field |-> None, baseValue |-> None]

NotQueued(c) == command[c].type = "none"

Queue(c) ==
    /\ NotQueued(c) /\ Begin
    /\ \/ \E makeCurrent \in BOOLEAN :
             command' = [command EXCEPT ![c] =
                 [Unqueued EXCEPT !.type = "setup.create", !.setup = c,
                                  !.makeCurrent = makeCurrent]]
       \/ \E s \in DOMAIN setups, f \in Fields :
             command' = [command EXCEPT ![c] =
                 [Unqueued EXCEPT !.type = "setup.correct", !.setup = s, !.field = f,
                                  !.baseValue = setups[s].fields[f]]]
       \/ \E s \in DOMAIN setups :
             command' = [command EXCEPT ![c] =
                 [Unqueued EXCEPT !.type = "setup.select-current", !.setup = s,
                                  !.makeCurrent = TRUE]]
    /\ UNCHANGED <<car, setups, draft, asked, receipt, try, effects>>

Idle == [of |-> None, step |-> "idle"]

Free(t) == try[t].step = "idle"

Rest(t) == try' = [try EXCEPT ![t] = Idle]

Pending(c) == receipt[c] = "pending"

Untouched == UNCHANGED <<car, setups, draft, asked, command, receipt, effects, begun>>

Concluded(t, verdict) ==
    try' = [try EXCEPT ![t] = [of |-> try[t].of, step |-> "complete", verdict |-> verdict]]

(* ownedCar: a command for an archived car is to be rejected.                  *)
ReadCar(t, c) ==
    try' = [try EXCEPT ![t] =
               IF car.archived THEN [of |-> c, step |-> "complete", verdict |-> "rejected"]
               ELSE [of |-> c, step |-> "setup", car |-> car]]

(* Faulty: a command whose receipt is pending is somebody else's.              *)
ClaimNew(c) ==
    /\ ~NotQueued(c) /\ receipt[c] = "none"
    /\ \E t \in Tries :
          /\ Free(t) /\ \A u \in 1..(t - 1) : ~Free(u)
          /\ ReadCar(t, c)
    /\ receipt' = [receipt EXCEPT ![c] = "pending"]
    /\ UNCHANGED <<car, setups, draft, asked, command, effects, begun>>

(* The receipt is claimed, or found pending: the command is executed then too. *)
(* The car is read at once; until then the execution is like one that waits.   *)
Claim(c) ==
    /\ ~NotQueued(c) /\ receipt[c] \in {"none", "pending"}
    /\ \E t \in Tries :
          /\ Free(t) /\ \A u \in 1..(t - 1) : ~Free(u)
          /\ ReadCar(t, c)
    /\ receipt' = [receipt EXCEPT ![c] = "pending"]
    /\ UNCHANGED <<car, setups, draft, asked, command, effects, begun>>

SeenBy(t) == [current |-> try[t].car.current, version |-> try[t].car.version]

(* The setup the command is about, and what it says of the command's base.     *)
Judged(t) ==
    LET c == try[t].of
        cmd == command[c]
        exists == cmd.setup \in DOMAIN setups
    IN  CASE cmd.type = "setup.create" /\ exists ->
                IF \/ setups[c].operation # c
                   \/ cmd.makeCurrent /\ try[t].car.operation # c
                THEN "conflict" ELSE "applied"
          [] cmd.type = "setup.create" /\ ~exists ->
                IF cmd.makeCurrent /\ cmd.base # SeenBy(t) THEN "conflict" ELSE "write"
          [] cmd.type = "setup.correct" ->
                IF setups[cmd.setup].fields[cmd.field] # cmd.baseValue
                THEN "conflict" ELSE "write"
          [] cmd.type = "setup.select-current" ->
                IF try[t].car.current = cmd.setup THEN "applied"
                ELSE IF cmd.base # SeenBy(t) THEN "conflict" ELSE "write"

ReadSetup(t) ==
    LET s == command[try[t].of].setup
    IN  /\ try[t].step = "setup"
        /\ \/ Judged(t) # "write" /\ Concluded(t, Judged(t))
           \/ /\ Judged(t) = "write"
              /\ try' = [try EXCEPT ![t] =
                            [of |-> try[t].of, step |-> "write",
                             version |-> IF command[try[t].of].type = "setup.correct"
                                         THEN setups[s].version ELSE try[t].car.version]]
        /\ Untouched

(* complete(): only a pending receipt takes the verdict.                       *)
Complete(t) ==
    /\ try[t].step = "complete"
    /\ receipt' = [receipt EXCEPT ![try[t].of] = IF @ = "pending" THEN try[t].verdict ELSE @]
    /\ Rest(t)
    /\ UNCHANGED <<car, setups, draft, asked, command, effects, begun>>

Apply(c) ==
    /\ receipt' = [receipt EXCEPT ![c] = "applied"]
    /\ Counted(c)
    /\ UNCHANGED <<draft, asked, command, begun>>

(* The batch of a command that creates a setup. The insertion wants the car    *)
(* active, the selection does not: if only the first finds nothing, the batch  *)
(* fails on the foreign key of the selection and the receipt stays pending.    *)
CreateByCommand(t) ==
    LET c == try[t].of
        cmd == command[c]
        based == cmd.makeCurrent => Witness(cmd.base)
        inserted == ~car.archived /\ Pending(c) /\ based
    IN  /\ try[t].step = "write" /\ cmd.type = "setup.create"
        /\ \/ /\ inserted
              /\ setups' = Inserted(c, Row(Written(c), c))
              /\ car' = IF cmd.makeCurrent
                        THEN [Select(c, c) EXCEPT !.version = try[t].version + 1]
                        ELSE car
              /\ Apply(c) /\ Rest(t)
           \/ /\ ~inserted
              /\ IF cmd.makeCurrent /\ ~(Pending(c) /\ based)
                 THEN Concluded(t, "conflict") ELSE Rest(t)
              /\ Untouched

(* Faulty: the batch does not ask whether the receipt is still pending.        *)
CorrectAgain(t) ==
    LET c == try[t].of
        s == command[c].setup
    IN  /\ try[t].step = "write" /\ command[c].type = "setup.correct"
        /\ \/ /\ setups[s].version = try[t].version
              /\ setups' = [setups EXCEPT ![s].version = @ + 1,
                                          ![s].fields[command[c].field] = c,
                                          ![s].operation = c]
              /\ Counted(c)
              /\ receipt' = [receipt EXCEPT ![c] = IF @ = "pending" THEN "applied" ELSE @]
              /\ UNCHANGED <<car, draft, asked, command, begun>> /\ Rest(t)
           \/ /\ setups[s].version # try[t].version
              /\ Concluded(t, "conflict") /\ Untouched

(* A correction names the fields it is based on, not the version of the setup: *)
(* it survives corrections of other fields, but not one since it was judged.   *)
CorrectByCommand(t) ==
    LET c == try[t].of
        s == command[c].setup
        unchanged == setups[s].version = try[t].version /\ Pending(c)
    IN  /\ try[t].step = "write" /\ command[c].type = "setup.correct"
        /\ \/ /\ unchanged
              /\ setups' = [setups EXCEPT ![s].version = @ + 1,
                                          ![s].fields[command[c].field] = c,
                                          ![s].operation = c]
              /\ UNCHANGED car
              /\ Apply(c) /\ Rest(t)
           \/ /\ ~unchanged
              /\ Concluded(t, "conflict") /\ Untouched

(* When the selection has moved the receipt stays pending: the next execution  *)
(* finds the conflict.                                                         *)
SelectByCommand(t) ==
    LET c == try[t].of
        cmd == command[c]
        unchanged == Pending(c) /\ Witness(cmd.base)
    IN  /\ try[t].step = "write" /\ cmd.type = "setup.select-current"
        /\ \/ /\ unchanged
              /\ car' = [Select(cmd.setup, c) EXCEPT !.version = try[t].version + 1]
              /\ UNCHANGED setups
              /\ Apply(c) /\ Rest(t)
           \/ ~unchanged /\ Rest(t) /\ Untouched

GoOn(t) ==
    \/ ReadSetup(t) \/ Complete(t)
    \/ CreateByCommand(t) \/ CorrectByCommand(t) \/ SelectByCommand(t)

------------------------------------------------------------------------------
SetupInit ==
    /\ car = [current |-> First, version |-> 1, operation |-> None, archived |-> FALSE]
    /\ setups = [i \in {First} |-> Row(Written(i), None)]
    /\ draft = [status |-> "draft", setup |-> None]
    /\ asked = [r \in Requests |-> Unasked]
    /\ command = [c \in Commands |-> Unqueued]
    /\ receipt = [c \in Commands |-> "none"]
    /\ try = [t \in Tries |-> Idle]
    /\ effects = [i \in Authors |-> 0]
    /\ begun = 0

SetupNext ==
    \/ \E r \in Requests : Online(r)
    \/ Toggle
    \/ \E c \in Commands : Queue(c) \/ Claim(c)
    \/ \E t \in Tries : GoOn(t)

(* Executions go on until they end, and a device sends a command again until   *)
(* its receipt is terminal. Users owe nothing.                                 *)
SetupFairness ==
    /\ \A t \in Tries : WF_setupVars(GoOn(t))
    /\ \A c \in Commands : WF_setupVars(Claim(c))

SetupSpec == SetupInit /\ [][SetupNext]_setupVars /\ SetupFairness

------------------------------------------------------------------------------
SetupTypeOK ==
    /\ car.current \in DOMAIN setups
    /\ car \in [current : DOMAIN setups, version : Nat, operation : Commands \cup {None},
                archived : BOOLEAN]
    /\ \A i \in DOMAIN setups :
          setups[i] \in [version : Nat \ {0}, fields : [Fields -> DOMAIN setups \cup Authors],
                         operation : Commands \cup {None}]
    /\ draft.status \in {"draft", "accepted", "cancelled"}
    /\ draft.setup \in (Requests \cap DOMAIN setups) \cup {None}
    /\ receipt \in [Commands -> {"none", "pending", "applied", "rejected", "conflict"}]
    /\ \A t \in Tries : try[t].of \in Commands \cup {None}
    /\ effects \in [Authors -> Nat]

(* Everybody is told the truth. A command whose receipt says applied took      *)
(* effect exactly once, or found its setup selected already; one that was      *)
(* refused, is in conflict or still pending took none, however often it was    *)
(* sent and whatever the executions of earlier tries still do. The same holds  *)
(* for the answers to online requests.                                         *)
OutcomesAreTrue ==
    /\ \A c \in Commands :
          /\ effects[c] <= 1
          /\ receipt[c] # "applied" => effects[c] = 0
          /\ receipt[c] = "applied" /\ command[c].type # "setup.select-current" => effects[c] = 1
          /\ c \in DOMAIN setups <=> command[c].type = "setup.create" /\ receipt[c] = "applied"
    /\ \A r \in Requests :
          /\ effects[r] = (IF asked[r].step = "saved" THEN 1 ELSE 0)
          /\ r \in DOMAIN setups <=> asked[r].kind \in Saves /\ asked[r].step = "saved"

(* Every command a device queued gets a terminal receipt: no batch that   *)
(* failed and no selection that moved leaves it pending for ever.              *)
CommandsSettle ==
    \A c \in Commands :
        ~NotQueued(c) ~> receipt[c] \in {"applied", "rejected", "conflict"}
===============================================================================
