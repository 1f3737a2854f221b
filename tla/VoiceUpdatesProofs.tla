-------------------------- MODULE VoiceUpdatesProofs --------------------------
(***************************************************************************)
(* Theorems about the setups of a car, for any number of requests,         *)
(* commands, executions and calls about a voice note. Versions make the    *)
(* argument: a row only gains versions, so that an author who finds the    *)
(* version it has read finds the fields it has read.                       *)
(***************************************************************************)
EXTENDS VoiceUpdates, TLAPS

Universe == Ids \cup {Note}
Operation == Commands \cup {None}
RowType == [version : Nat \ {0}, fields : [Fields -> Ids], operation : Operation]
SelectionType == [current : Universe, version : Nat]
CarType == [current : Universe, version : Nat, operation : Operation, archived : BOOLEAN]
DraftRowType == [status : {"draft", "accepted", "cancelled"}, setup : Requests \cup {None}]

Kinds == {"create", "copy", "copyOf", "accept", "patch", "select", "cancel"}
JobType == [kind : Kinds, setup : Universe \cup {None}, makeCurrent : BOOLEAN,
            guarded : BOOLEAN, field : Fields \cup {None}, expected : Nat,
            step : {"read", "car", "write"}, car : SelectionType \cup {None},
            row : RowType \cup {None}]
AnswerType == [kind : Kinds, step : {"saved", "refused", "failed", "already"},
               makeCurrent : BOOLEAN, guarded : BOOLEAN, setup : Universe \cup {None}]
CommandType == [type : {"none", "setup.create", "setup.correct", "setup.select-current"},
                setup : Universe \cup {None}, makeCurrent : BOOLEAN, base : SelectionType,
                field : Fields \cup {None}, baseValue : Ids \cup {None}]
ReceiptType == {"none", "pending", "applied", "rejected", "conflict"}
SetupTryType == [of : Commands, step : {"setup"}, car : CarType]
WriteTryType == [of : Commands, step : {"write"}, version : Nat]
CompleteTryType == [of : Commands, step : {"complete"},
                    verdict : {"applied", "rejected", "conflict"}]
DraftType == [of : 0..MaxBegun, saves : Contents]
Statuses == {"processing", "needs-review", "saved", "failed", "discarded"}
BlindCallType ==
    [kind : {"process", "correct"}, step : {"car", "write", "listen"}, of : 0..MaxBegun,
     saw : {None}, car : SelectionType \cup {None}, fields : [Fields -> Ids] \cup {None}]
ReviewCallType ==
    [kind : {"edit", "confirm"}, step : {"car", "write"}, of : 0..MaxBegun, saw : DraftType,
     car : SelectionType \cup {None}, fields : [Fields -> Ids] \cup {None}]
DiscardCallType ==
    [kind : {"discard"}, step : {"car", "write"}, of : 0..MaxBegun, saw : Statuses,
     car : SelectionType \cup {None}, fields : [Fields -> Ids] \cup {None}]
CallType == {Resting} \cup BlindCallType \cup ReviewCallType \cup DiscardCallType
VoiceType == [status : Statuses, draft : DraftType]

\* What is stored: the car, its setups, the import draft.
StoreOK ==
    /\ setups \in [DOMAIN setups -> RowType]
    /\ First \in DOMAIN setups /\ DOMAIN setups \subseteq Universe
    /\ car \in CarType /\ car.current \in DOMAIN setups
    /\ draft \in DraftRowType /\ draft.setup \in DOMAIN setups \cup {None}
    /\ begun \in 0..MaxBegun

\* Someone has read this row of the setup: as long as the version is the same, so
\* are the fields.
HasRead(row, s) ==
    /\ s \in DOMAIN setups
    /\ row.version <= setups[s].version
    /\ row.version = setups[s].version => row.fields = setups[s].fields

AskOK(a) ==
    /\ a \in JobType \cup AnswerType \cup {Unasked}
    /\ a.guarded => a.kind = "copyOf"
    /\ a.step = "read" => a.kind \in {"copy", "copyOf"}
    /\ a.step = "car" => a.kind = "accept"
    /\ a.step = "write" /\ a.kind = "patch" => a.field \in Fields
    /\ a.step \in {"read", "write"} /\ a.kind \in {"copy", "copyOf", "patch", "select"} =>
            a.setup \in DOMAIN setups
    /\ a.step = "write" /\ a.kind \in {"copy", "copyOf", "patch"} =>
            a.row \in RowType /\ HasRead(a.row, a.setup)
    /\ a.step \in {"car", "write"} /\ a.kind \in {"create", "accept"} => a.row = None
    /\ a.step = "read" /\ a.guarded => a.expected <= setups[a.setup].version
    /\ a.step = "write" /\ a.guarded => a.expected <= a.row.version

\* A request has written what it was told it has.
RequestOK(r) ==
    /\ AskOK(asked[r])
    /\ effects[r] = IF asked[r].step = "saved" THEN 1 ELSE 0
    /\ r \in DOMAIN setups <=> asked[r].kind \in Saves /\ asked[r].step = "saved"

QueuedOK(c, cmd) ==
    /\ cmd.type = "setup.create" => cmd.setup = c
    /\ cmd.type \in {"setup.correct", "setup.select-current"} => cmd.setup \in DOMAIN setups
    /\ cmd.type = "setup.correct" => cmd.field \in Fields
    /\ cmd.type = "setup.select-current" => cmd.makeCurrent

\* A command has had the effect its receipt says.
CommandOK(c) ==
    /\ QueuedOK(c, command[c])
    /\ effects[c] \in {0, 1}
    /\ receipt[c] # "applied" => effects[c] = 0
    /\ receipt[c] = "applied" /\ command[c].type # "setup.select-current" => effects[c] = 1
    /\ c \in DOMAIN setups <=> command[c].type = "setup.create" /\ receipt[c] = "applied"
    /\ command[c].type = "none" => receipt[c] = "none"

\* An execution knows the base of its command as long as nothing has moved.
TryOK(a) ==
    /\ a \in SetupTryType \cup WriteTryType \cup CompleteTryType \cup {Idle}
    /\ a.step # "idle" => command[a.of].type # "none" /\ receipt[a.of] # "none"
    /\ a.step = "complete" /\ a.verdict = "applied" =>
            receipt[a.of] = "applied" \/ command[a.of].type = "setup.select-current"
    /\ a.step = "write" /\ command[a.of].makeCurrent
            /\ command[a.of].type \in {"setup.create", "setup.select-current"} =>
            a.version = command[a.of].base.version
    /\ a.step = "write" /\ command[a.of].type = "setup.correct" =>
            /\ a.version <= setups[command[a.of].setup].version
            /\ a.version = setups[command[a.of].setup].version =>
                  setups[command[a.of].setup].fields[command[a.of].field]
                    = command[a.of].baseValue

\* The setup of the note exists if its results contain one.
VoiceOK ==
    /\ voice \in VoiceType
    /\ results \in DraftType \cup {None}
    /\ Note \in DOMAIN setups <=> results # None /\ results.saves = "setup"

CallOK(a) ==
    /\ a \in CallType
    /\ a.step = "write" /\ a.kind = "confirm" /\ a.saw.saves = "setup" =>
            a.fields \in [Fields -> Ids]

Typed ==
    /\ command \in [Commands -> CommandType]
    /\ receipt \in [Commands -> ReceiptType]
    /\ effects \in [Authors -> Nat]
    /\ asked \in [Requests -> JobType \cup AnswerType \cup {Unasked}]
    /\ try \in [Tries -> SetupTryType \cup WriteTryType \cup CompleteTryType \cup {Idle}]
    /\ calls \in [Calls -> CallType]

IInv ==
    /\ StoreOK /\ Typed /\ VoiceOK
    /\ \A r \in Requests : RequestOK(r)
    /\ \A c \in Commands : CommandOK(c)
    /\ \A t \in Tries : TryOK(try[t])
    /\ \A k \in Calls : CallOK(calls[k])

-----------------------------------------------------------------------------
(* What stays true of the others while somebody takes a step.              *)

\* f has become g, which differs only at i.
Edits(f, g, i) == DOMAIN g = DOMAIN f /\ \A j \in DOMAIN f \ {i} : g[j] = f[j]

\* Setups only come and gain versions.
Grows ==
    \A s \in DOMAIN setups :
        /\ s \in DOMAIN setups'
        /\ setups'[s] = setups[s] \/ setups'[s].version = setups[s].version + 1

LEMMA HasReadKept ==
    ASSUME StoreOK, StoreOK', Grows, NEW row \in RowType, NEW s, HasRead(row, s)
    PROVE  HasRead(row, s)'
<1>1. s \in DOMAIN setups /\ s \in DOMAIN setups'  BY DEF HasRead, Grows
<1>2. setups[s] \in RowType /\ setups'[s] \in RowType  BY <1>1 DEF StoreOK
<1>3. setups[s].version \in Nat /\ row.version \in Nat  BY <1>2 DEF RowType
<1>4. CASE setups'[s] = setups[s]  BY <1>1, <1>4 DEF HasRead
<1>5. CASE setups'[s].version = setups[s].version + 1  BY <1>1, <1>3, <1>5 DEF HasRead
<1> QED  BY <1>1, <1>4, <1>5 DEF Grows

LEMMA AskKept ==
    ASSUME StoreOK, StoreOK', Grows, NEW a, AskOK(a)
    PROVE  AskOK(a)'
<1>1. a.step \in {"read", "write"} /\ a.kind \in {"copy", "copyOf", "patch", "select"} =>
            a.setup \in DOMAIN setups /\ a.setup \in DOMAIN setups'
    BY DEF AskOK, Grows
<1>2. a.step = "write" /\ a.kind \in {"copy", "copyOf", "patch"} =>
            a.row \in RowType /\ HasRead(a.row, a.setup)'
    BY HasReadKept DEF AskOK
<1>3. a.step = "read" /\ a.guarded => a.expected <= setups'[a.setup].version
    <2> SUFFICES ASSUME a.step = "read", a.guarded  PROVE a.expected <= setups'[a.setup].version
        OBVIOUS
    <2>1. a \in JobType /\ a.setup \in DOMAIN setups /\ a.setup \in DOMAIN setups'
          /\ a.expected <= setups[a.setup].version
        BY <1>1 DEF AskOK, AnswerType, Unasked
    <2>2. setups[a.setup] \in RowType  BY <2>1 DEF StoreOK
    <2>3. a.expected \in Nat /\ setups[a.setup].version \in Nat  BY <2>1, <2>2 DEF JobType, RowType
    <2> QED  BY <2>1, <2>3 DEF Grows
<1> QED  BY <1>1, <1>2, <1>3 DEF AskOK

LEMMA TryKept ==
    ASSUME StoreOK, StoreOK', Grows, command \in [Commands -> CommandType],
           NEW a, TryOK(a), \A c \in Commands : CommandOK(c),
           a.step # "idle" => /\ command'[a.of] = command[a.of]
                              /\ receipt'[a.of] # "none"
                              /\ receipt[a.of] = "applied" => receipt'[a.of] = "applied"
    PROVE  TryOK(a)'
<1>1. CASE a.step = "idle"
    BY <1>1 DEF TryOK
<1>2. CASE a.step # "idle"
    <2>1. a.of \in Commands
        BY <1>2 DEF TryOK, Idle, SetupTryType, WriteTryType, CompleteTryType
    <2>2. PICK cmd : cmd = command[a.of]  OBVIOUS
    <2>3. command'[a.of] = cmd  BY <1>2, <2>2
    <2>4. ASSUME a.step = "write", cmd.type = "setup.correct"
          PROVE  /\ a.version <= setups'[cmd.setup].version
                 /\ a.version = setups'[cmd.setup].version =>
                        setups'[cmd.setup].fields[cmd.field] = cmd.baseValue
        <3>1. cmd.setup \in DOMAIN setups /\ cmd.setup \in DOMAIN setups'
            BY <2>1, <2>2, <2>4 DEF CommandOK, QueuedOK, Grows
        <3>2. setups[cmd.setup] \in RowType  BY <3>1 DEF StoreOK
        <3>3. a.version \in Nat /\ setups[cmd.setup].version \in Nat
            BY <2>4, <3>2 DEF RowType, TryOK, Idle, SetupTryType, WriteTryType, CompleteTryType
        <3>4. /\ a.version <= setups[cmd.setup].version
              /\ a.version = setups[cmd.setup].version =>
                        setups[cmd.setup].fields[cmd.field] = cmd.baseValue
            BY <2>2, <2>4 DEF TryOK
        <3>5. CASE setups'[cmd.setup] = setups[cmd.setup]  BY <3>4, <3>5
        <3>6. CASE setups'[cmd.setup].version = setups[cmd.setup].version + 1  BY <3>3, <3>4, <3>6
        <3> QED  BY <3>1, <3>5, <3>6 DEF Grows
    <2> QED  BY <1>2, <2>2, <2>3, <2>4 DEF TryOK
<1> QED  BY <1>1, <1>2

LEMMA InsertedFacts ==
    ASSUME setups \in [DOMAIN setups -> RowType], NEW i, NEW row \in RowType, i \notin DOMAIN setups,
           setups' = Inserted(i, row)
    PROVE  /\ DOMAIN setups' = DOMAIN setups \cup {i}
           /\ setups' \in [DOMAIN setups' -> RowType]
           /\ \A s \in DOMAIN setups : setups'[s] = setups[s]
           /\ setups'[i] = row
           /\ Grows
BY DEF Inserted, Grows

\* The names of requests, of commands and of the note are different.
LEMMA Names ==
    /\ \A r \in Requests : r \notin Commands /\ r # Note /\ r # First /\ r # None /\ r \in Ids
    /\ \A c \in Commands : c # Note /\ c # First /\ c # None /\ c \in Ids
    /\ Authors \subseteq Ids /\ Ids \subseteq Universe /\ First \in Ids /\ Note \in Universe
    /\ None \notin Ids /\ None # Note /\ Note \notin Authors /\ First # Note
BY SetupAssumption, VoiceAssumption DEF Ids, Authors, Universe

\* A step of one request.
LEMMA RequestStep ==
    ASSUME IInv, NEW r \in Requests, StoreOK', Grows,
           asked' \in [Requests -> JobType \cup AnswerType \cup {Unasked}], Edits(asked, asked', r),
           effects' \in [Authors -> Nat], Edits(effects, effects', r),
           DOMAIN setups' \subseteq DOMAIN setups \cup {r},
           UNCHANGED <<command, receipt, try, voice, results, calls>>,
           RequestOK(r)'
    PROVE  IInv'
<1>1. Typed'  BY DEF IInv, Typed
<1>2. \A i \in Universe \ {r} : i \in DOMAIN setups' <=> i \in DOMAIN setups  BY DEF Grows
<1>3. VoiceOK'  BY <1>2, Names DEF IInv, VoiceOK
<1>4. ASSUME NEW q \in Requests  PROVE RequestOK(q)'
    <2>1. CASE q # r
        <3>1. asked'[q] = asked[q] /\ effects'[q] = effects[q]
            BY <2>1 DEF Edits, IInv, Typed, Authors
        <3>2. PICK a : a = asked[q]  OBVIOUS
        <3>3. AskOK(a)'  BY <3>2, AskKept DEF IInv, RequestOK
        <3>4. AskOK(asked[q])'  BY <3>1, <3>2, <3>3 DEF AskOK
        <3>5. q \in DOMAIN setups' <=> q \in DOMAIN setups  BY <1>2, <2>1, Names
        <3> QED  BY <3>1, <3>4, <3>5 DEF IInv, RequestOK
    <2> QED  BY <2>1
<1>5. ASSUME NEW c \in Commands  PROVE CommandOK(c)'
    <2>1. effects'[c] = effects[c]  BY Names DEF Edits, IInv, Typed, Authors
    <2>2. c \in DOMAIN setups' <=> c \in DOMAIN setups  BY <1>2, Names
    <2>3. QueuedOK(c, command[c])'  BY DEF IInv, CommandOK, QueuedOK, Grows
    <2> QED  BY <2>1, <2>2, <2>3 DEF IInv, CommandOK
<1>6. ASSUME NEW t \in Tries  PROVE TryOK(try[t])'
    BY TryKept DEF IInv, TryOK, Typed
<1>7. ASSUME NEW k \in Calls  PROVE CallOK(calls[k])'
    BY DEF IInv, CallOK
<1> QED  BY <1>1, <1>3, <1>4, <1>5, <1>6, <1>7 DEF IInv

-----------------------------------------------------------------------------
(* Online requests.                                                        *)

\* What SavesAreCoherent asks of a step.
Coherent ==
    /\ \A i \in DOMAIN setups' \ DOMAIN setups :
          MakesCurrent(i) => car'.current = i /\ car'.version = car.version + 1
    /\ \A r \in Requests \cap (DOMAIN setups' \ DOMAIN setups) :
          asked[r].guarded => setups'[r].fields = setups[asked[r].setup].fields
    /\ Selection' # Selection => SawSelection
    /\ \A s \in DOMAIN setups : /\ s \in DOMAIN setups'
                                /\ \A f \in Fields :
                                      setups'[s].fields[f] # setups[s].fields[f] => SawField(s, f)

LEMMA QuietIsCoherent ==
    ASSUME setups' = setups, Selection' = Selection
    PROVE  Coherent
BY DEF Coherent

LEMMA NoGrowth ==
    ASSUME setups' = setups
    PROVE  Grows /\ DOMAIN setups' = DOMAIN setups
BY DEF Grows

LEMMA SelectionTyped ==
    ASSUME StoreOK
    PROVE  Selection \in SelectionType /\ Selection.current = car.current
           /\ Selection.version = car.version /\ car.version \in Nat
           /\ car.current \in Universe
BY DEF StoreOK, CarType, Selection, SelectionType

\* A request begins: it has not been answered.
LEMMA BeganKeeps ==
    ASSUME IInv, NEW r \in Requests, NEW job \in JobType, Began(r, job), Asked, AskOK(job),
           UNCHANGED voiceVars
    PROVE  IInv' /\ Coherent
<1>1. /\ asked' = [asked EXCEPT ![r] = job] /\ asked[r] = Unasked
      /\ begun' \in 0..MaxBegun
      /\ UNCHANGED <<car, setups, draft, effects, command, receipt, try>>
    BY SetupAssumption DEF Began, Begin, Asked, IInv, StoreOK
<1>2. StoreOK'  BY <1>1 DEF IInv, StoreOK
<1>3. /\ asked' \in [Requests -> JobType \cup AnswerType \cup {Unasked}]
      /\ Edits(asked, asked', r) /\ asked'[r] = job
    BY <1>1 DEF IInv, Typed, Edits
<1>4. effects' \in [Authors -> Nat] /\ Edits(effects, effects', r)
    BY <1>1 DEF IInv, Typed, Edits
<1>5. AskOK(asked[r])'  BY <1>1, <1>3 DEF AskOK, HasRead
<1>6. effects[r] = 0 /\ r \notin DOMAIN setups
    BY <1>1 DEF IInv, RequestOK, Unasked
<1>7. job.step # "saved"  BY DEF JobType
<1>8. RequestOK(r)'  BY <1>1, <1>3, <1>5, <1>6, <1>7 DEF RequestOK
<1>9. UNCHANGED <<command, receipt, try, voice, results, calls>>  BY <1>1 DEF voiceVars
<1>10. IInv'  BY <1>1, <1>2, <1>3, <1>4, <1>8, <1>9, NoGrowth, RequestStep
<1>11. Selection' = Selection  BY <1>1 DEF Selection
<1> QED  BY <1>1, <1>10, <1>11, QuietIsCoherent

LEMMA AskKeeps ==
    ASSUME IInv, NEW r \in Requests, UNCHANGED voiceVars,
           \/ AskCreate(r) \/ AskCopy(r) \/ AskCopyOf(r) \/ AskPatch(r) \/ AskSelect(r)
           \/ AskAccept(r) \/ AskCancel(r)
    PROVE  IInv' /\ Coherent
<1>1. PICK now : now = Selection  OBVIOUS
<1>2. now \in SelectionType /\ car.current \in DOMAIN setups /\ DOMAIN setups \subseteq Universe
      /\ \A s \in DOMAIN setups : setups[s] \in RowType
    BY <1>1, SelectionTyped DEF IInv, StoreOK
<1>3. ASSUME NEW makeCurrent \in BOOLEAN, NEW job,
             job = [Job("create", None, makeCurrent, FALSE) EXCEPT !.step = "write"]
      PROVE  job \in JobType /\ AskOK(job)
    <2>1. /\ job \in JobType /\ job.kind = "create" /\ job.step = "write" /\ job.row = None
          /\ job.guarded = FALSE
        BY <1>1, <1>2, <1>3 DEF Job, JobType, Kinds
    <2> QED  BY <2>1 DEF AskOK
<1>4. ASSUME NEW makeCurrent \in BOOLEAN, NEW job, NEW s \in DOMAIN setups, NEW kind \in {"copy", "copyOf"},
             job = Job(kind, s, makeCurrent, FALSE)
      PROVE  job \in JobType /\ AskOK(job)
    <2>1. /\ job \in JobType /\ job.kind = kind /\ job.step = "read" /\ job.setup = s
          /\ job.guarded = FALSE
        BY <1>1, <1>2, <1>4 DEF Job, JobType, Kinds
    <2> QED  BY <2>1 DEF AskOK
<1>5. ASSUME NEW job, NEW s \in DOMAIN setups, NEW version \in 1..setups[s].version,
             job = [Job("copyOf", s, TRUE, TRUE) EXCEPT !.expected = version]
      PROVE  job \in JobType /\ AskOK(job)
    <2>0. setups[s].version \in Nat  BY <1>2 DEF RowType
    <2>1. version \in Nat /\ version <= setups[s].version  BY <2>0
    <2>2. /\ job \in JobType /\ job.kind = "copyOf" /\ job.step = "read" /\ job.setup = s
          /\ job.guarded = TRUE /\ job.expected = version
        BY <1>1, <1>2, <1>5, <2>1 DEF Job, JobType, Kinds
    <2> QED  BY <2>1, <2>2 DEF AskOK
<1>6. ASSUME NEW job, NEW s \in DOMAIN setups, NEW f \in Fields, NEW row, row = setups[s],
             job = [Job("patch", s, FALSE, FALSE) EXCEPT !.field = f, !.row = row, !.step = "write"]
      PROVE  job \in JobType /\ AskOK(job)
    <2>1. row \in RowType /\ row.version \in Nat  BY <1>2, <1>6 DEF RowType
    <2>2. /\ job \in JobType /\ job.kind = "patch" /\ job.step = "write" /\ job.setup = s
          /\ job.guarded = FALSE /\ job.field = f /\ job.row = row
        BY <1>2, <1>6, <2>1 DEF Job, JobType, Kinds
    <2>3. HasRead(row, s)  BY <1>6, <2>1 DEF HasRead
    <2> QED  BY <2>1, <2>2, <2>3 DEF AskOK
<1>7. ASSUME NEW job, NEW s \in DOMAIN setups,
             job = [Job("select", s, TRUE, FALSE) EXCEPT !.step = "write"]
      PROVE  job \in JobType /\ AskOK(job)
    <2>1. /\ job \in JobType /\ job.kind = "select" /\ job.step = "write" /\ job.setup = s
          /\ job.guarded = FALSE
        BY <1>1, <1>2, <1>7 DEF Job, JobType, Kinds
    <2> QED  BY <2>1 DEF AskOK
<1>8. ASSUME NEW makeCurrent \in BOOLEAN, NEW job,
             job = [Job("accept", None, makeCurrent, FALSE) EXCEPT !.step = "car", !.car = None]
      PROVE  job \in JobType /\ AskOK(job)
    <2>1. /\ job \in JobType /\ job.kind = "accept" /\ job.step = "car" /\ job.row = None
          /\ job.guarded = FALSE
        BY <1>1, <1>2, <1>8 DEF Job, JobType, Kinds
    <2> QED  BY <2>1 DEF AskOK
<1>9. ASSUME NEW job, job = [Job("cancel", None, FALSE, FALSE) EXCEPT !.step = "write"]
      PROVE  job \in JobType /\ AskOK(job)
    <2>1. /\ job \in JobType /\ job.kind = "cancel" /\ job.step = "write"
          /\ job.guarded = FALSE
        BY <1>9 DEF Job, JobType, Kinds
    <2> QED  BY <2>1 DEF AskOK
<1>10. PICK job : Began(r, job) /\ Asked /\ job \in JobType /\ AskOK(job)
    <2>1. CASE AskCreate(r)  BY <1>3, <2>1 DEF AskCreate
    <2>2. CASE AskCopy(r)  BY <1>2, <1>4, <2>2 DEF AskCopy
    <2>3. CASE AskCopyOf(r)  BY <1>4, <1>5, <2>3 DEF AskCopyOf
    <2>4. CASE AskPatch(r)  BY <1>6, <2>4 DEF AskPatch
    <2>5. CASE AskSelect(r)  BY <1>7, <2>5 DEF AskSelect
    <2>6. CASE AskAccept(r)  BY <1>8, <2>6 DEF AskAccept
    <2>7. CASE AskCancel(r)  BY <1>9, <2>7 DEF AskCancel
    <2> QED  BY <2>1, <2>2, <2>3, <2>4, <2>5, <2>6, <2>7
<1> QED  BY <1>10, BeganKeeps

\* What the answer to a request is.
LEMMA AnswerFacts ==
    ASSUME IInv, NEW r \in Requests, asked[r] \in JobType,
           NEW answer \in {"saved", "refused", "failed", "already"}, Answer(r, answer)
    PROVE  /\ asked' \in [Requests -> JobType \cup AnswerType \cup {Unasked}]
           /\ Edits(asked, asked', r) /\ AskOK(asked[r])'
           /\ asked'[r].step = answer /\ asked'[r].kind = asked[r].kind
           /\ effects[r] = 0 /\ r \notin DOMAIN setups /\ asked'[r] # asked[r]
<1>1. PICK told : told = [kind |-> asked[r].kind, step |-> answer,
                          makeCurrent |-> asked[r].makeCurrent,
                          guarded |-> asked[r].guarded, setup |-> asked[r].setup]
    OBVIOUS
<1>2. asked' = [asked EXCEPT ![r] = told]  BY <1>1 DEF Answer, IInv, Typed
<1>3. told \in AnswerType /\ told.step = answer /\ told.kind = asked[r].kind
      /\ told.guarded = asked[r].guarded
    BY <1>1 DEF JobType, AnswerType
<1>4. asked' \in [Requests -> JobType \cup AnswerType \cup {Unasked}] /\ asked'[r] = told
      /\ Edits(asked, asked', r)
    BY <1>2, <1>3 DEF IInv, Typed, Edits
<1>5. told.guarded => told.kind = "copyOf"  BY <1>3 DEF IInv, RequestOK, AskOK
<1>6. AskOK(told)'  BY <1>3, <1>5 DEF AskOK
<1>7. AskOK(asked[r])'  BY <1>4, <1>6 DEF AskOK
<1>8. asked[r].step \in {"read", "car", "write"}  BY DEF JobType
<1>9. effects[r] = 0 /\ r \notin DOMAIN setups  BY <1>8 DEF IInv, RequestOK
<1> QED  BY <1>3, <1>4, <1>7, <1>8, <1>9

LEMMA RefusedKeeps ==
    ASSUME IInv, NEW r \in Requests, asked[r] \in JobType,
           NEW answer \in {"refused", "failed", "already"}, Refused(r, answer),
           UNCHANGED voiceVars
    PROVE  IInv' /\ Coherent
<1>1. UNCHANGED <<car, setups, draft, effects, command, receipt, try, begun>> /\ Answer(r, answer)
    BY DEF Refused, Untried
<1>2. StoreOK'  BY <1>1 DEF IInv, StoreOK
<1>3. effects' \in [Authors -> Nat] /\ Edits(effects, effects', r)
    BY <1>1 DEF IInv, Typed, Edits
<1>4. RequestOK(r)'  BY <1>1, AnswerFacts DEF RequestOK
<1>5. UNCHANGED <<command, receipt, try, voice, results, calls>>  BY <1>1 DEF voiceVars
<1>6. IInv'  BY <1>1, <1>2, <1>3, <1>4, <1>5, NoGrowth, AnswerFacts, RequestStep
<1>7. Selection' = Selection  BY <1>1 DEF Selection
<1> QED  BY <1>1, <1>6, <1>7, QuietIsCoherent

\* A request is answered that it is saved, in the step that wrote.
LEMMA SavedKeeps ==
    ASSUME IInv, NEW r \in Requests, asked[r] \in JobType, Answer(r, "saved"), Counted(r),
           Untried, UNCHANGED voiceVars, StoreOK', Grows,
           \/ asked[r].kind \notin Saves /\ DOMAIN setups' = DOMAIN setups
           \/ asked[r].kind \in Saves /\ DOMAIN setups' = DOMAIN setups \cup {r}
    PROVE  IInv'
<1>1. effects' = [effects EXCEPT ![r] = effects[r] + 1] /\ effects \in [Authors -> Nat]
      /\ r \in Authors
    BY DEF Counted, Authors, IInv, Typed
<1>2. effects' \in [Authors -> Nat] /\ Edits(effects, effects', r) /\ effects'[r] = effects[r] + 1
    BY <1>1 DEF Edits
<1>3. RequestOK(r)'  BY <1>2, AnswerFacts DEF RequestOK
<1>4. UNCHANGED <<command, receipt, try, voice, results, calls>>  BY DEF voiceVars, Untried
<1>5. DOMAIN setups' \subseteq DOMAIN setups \cup {r}  OBVIOUS
<1> QED  BY <1>2, <1>3, <1>4, <1>5, AnswerFacts, RequestStep

\* A request goes on, having read something.
LEMMA ReadKeeps ==
    ASSUME IInv, NEW r \in Requests, asked[r] \in JobType, NEW job \in JobType, AskOK(job),
           asked' = [asked EXCEPT ![r] = job], UNCHANGED <<car, setups, draft, effects>>,
           Untried, UNCHANGED voiceVars
    PROVE  IInv' /\ Coherent
<1>1. StoreOK'  BY DEF IInv, StoreOK, Untried
<1>2. /\ asked' \in [Requests -> JobType \cup AnswerType \cup {Unasked}]
      /\ Edits(asked, asked', r) /\ asked'[r] = job
    BY DEF IInv, Typed, Edits
<1>3. effects' \in [Authors -> Nat] /\ Edits(effects, effects', r)
    BY DEF IInv, Typed, Edits
<1>4. AskOK(asked[r])'  BY <1>2 DEF AskOK, HasRead
<1>5. asked[r].step # "saved" /\ job.step # "saved"  BY DEF JobType
<1>6. effects[r] = 0 /\ r \notin DOMAIN setups
    BY <1>5 DEF IInv, RequestOK
<1>7. RequestOK(r)'  BY <1>2, <1>4, <1>5, <1>6 DEF RequestOK
<1>8. UNCHANGED <<command, receipt, try, voice, results, calls>>  BY DEF voiceVars, Untried
<1>9. IInv'  BY <1>1, <1>2, <1>3, <1>7, <1>8, NoGrowth, RequestStep
<1>10. Selection' = Selection  BY DEF Selection
<1> QED  BY <1>9, <1>10, QuietIsCoherent

\* The step of a request says what is kept of it.
LEMMA JobByStep ==
    ASSUME IInv, NEW r \in Requests, asked[r].step \in {"read", "car", "write"}
    PROVE  asked[r] \in JobType
BY DEF IInv, Typed, AnswerType, Unasked

LEMMA ReadRowKeeps ==
    ASSUME IInv, NEW r \in Requests, ReadRow(r), UNCHANGED voiceVars
    PROVE  IInv' /\ Coherent
<1>1. PICK a : a = asked[r]  OBVIOUS
<1>2. a \in JobType /\ a.step = "read" /\ AskOK(a)
    BY <1>1, JobByStep DEF ReadRow, IInv, RequestOK
<1>3. a.kind \in {"copy", "copyOf"} /\ a.setup \in DOMAIN setups  BY <1>2 DEF AskOK
<1>4. PICK row : row = setups[a.setup]  OBVIOUS
<1>5. row \in RowType /\ row.version \in Nat  BY <1>3, <1>4 DEF IInv, StoreOK, RowType
<1>6. PICK job : job = [a EXCEPT !.step = "write", !.row = row]  OBVIOUS
<1>7. /\ job \in JobType /\ job.step = "write" /\ job.row = row /\ job.setup = a.setup
      /\ job.kind = a.kind /\ job.guarded = a.guarded /\ job.expected = a.expected
    BY <1>2, <1>5, <1>6 DEF JobType
<1>8. HasRead(row, a.setup)  BY <1>3, <1>4, <1>5 DEF HasRead
<1>9. AskOK(job)  BY <1>2, <1>3, <1>4, <1>5, <1>7, <1>8 DEF AskOK
<1>10. asked' = [asked EXCEPT ![r] = job] /\ UNCHANGED <<car, setups, draft, effects>> /\ Untried
    BY <1>1, <1>4, <1>6 DEF ReadRow, IInv, Typed
<1> QED  BY <1>1, <1>2, <1>7, <1>9, <1>10, ReadKeeps

LEMMA ReadForImportKeeps ==
    ASSUME IInv, NEW r \in Requests, ReadForImport(r), UNCHANGED voiceVars
    PROVE  IInv' /\ Coherent
<1>1. PICK a : a = asked[r]  OBVIOUS
<1>2. a \in JobType /\ a.step = "car" /\ AskOK(a)
    BY <1>1, JobByStep DEF ReadForImport, IInv, RequestOK
<1>3. CASE Answer(r, "refused")
    BY <1>1, <1>2, <1>3, RefusedKeeps DEF ReadForImport, Refused
<1>4. CASE asked' = [asked EXCEPT ![r].step = "write",
                                  ![r].car = IF asked[r].makeCurrent THEN Selection ELSE None]
    <2>1. PICK seen : seen = IF asked[r].makeCurrent THEN Selection ELSE None  OBVIOUS
    <2>2. seen \in SelectionType \cup {None}  BY <2>1, SelectionTyped DEF IInv
    <2>3. PICK job : job = [a EXCEPT !.step = "write", !.car = seen]  OBVIOUS
    <2>4. /\ job \in JobType /\ job.step = "write" /\ job.row = a.row
          /\ job.kind = a.kind /\ job.guarded = a.guarded
        BY <1>2, <2>2, <2>3 DEF JobType
    <2>5. a.kind = "accept" /\ a.row = None /\ ~a.guarded  BY <1>2 DEF AskOK, JobType
    <2>6. AskOK(job)  BY <2>4, <2>5 DEF AskOK
    <2>7. asked' = [asked EXCEPT ![r] = job]  BY <1>1, <1>4, <2>1, <2>3 DEF IInv, Typed
    <2> QED  BY <1>1, <1>2, <2>4, <2>6, <2>7, ReadKeeps DEF ReadForImport
<1> QED  BY <1>3, <1>4 DEF ReadForImport

\* A setup is inserted and, if it is to be current, selected.
LEMMA InsertFacts ==
    ASSUME StoreOK, NEW i \in Universe \ DOMAIN setups, NEW row \in RowType,
           NEW operation \in Operation, NEW makeCurrent \in BOOLEAN,
           setups' = Inserted(i, row),
           car' = IF makeCurrent THEN Select(i, operation) ELSE car,
           draft' \in DraftRowType, draft'.setup \in DOMAIN setups \cup {i, None},
           UNCHANGED begun
    PROVE  /\ StoreOK' /\ Grows /\ DOMAIN setups' = DOMAIN setups \cup {i}
           /\ setups'[i] = row /\ \A s \in DOMAIN setups : setups'[s] = setups[s]
           /\ makeCurrent => car'.current = i /\ car'.version = car.version + 1
           /\ ~makeCurrent => Selection' = Selection
<1>1. /\ DOMAIN setups' = DOMAIN setups \cup {i} /\ setups' \in [DOMAIN setups' -> RowType]
      /\ \A s \in DOMAIN setups : setups'[s] = setups[s]
      /\ setups'[i] = row /\ Grows
    BY InsertedFacts DEF StoreOK
<1>2. CASE makeCurrent
    <2>1. car' = [car EXCEPT !.current = i, !.version = car.version + 1, !.operation = operation]
        BY <1>2 DEF Select
    <2>2. car \in CarType /\ car.version \in Nat  BY DEF StoreOK, CarType
    <2>3. car' = [current |-> i, version |-> car.version + 1, operation |-> operation,
                  archived |-> car.archived]
        BY <2>1, <2>2 DEF CarType
    <2>5. car' \in CarType /\ car'.current = i /\ car'.version = car.version + 1
        BY <2>2, <2>3 DEF CarType
    <2>4. StoreOK'  BY <1>1, <2>5 DEF StoreOK
    <2> QED  BY <1>1, <1>2, <2>5, <2>4
<1>3. CASE ~makeCurrent
    <2>1. car' = car  BY <1>3
    <2>2. StoreOK'  BY <1>1, <2>1 DEF StoreOK
    <2> QED  BY <1>1, <1>3, <2>1, <2>2 DEF Selection
<1> QED  BY <1>2, <1>3

\* The same for a request, which has seen the selection or does not look at it.
LEMMA InsertCoherent ==
    ASSUME IInv, NEW r \in Requests \ DOMAIN setups, NEW row \in RowType, NEW makeCurrent \in BOOLEAN,
           asked[r].makeCurrent => makeCurrent,
           makeCurrent => \/ asked[r].car = Selection
                          \/ asked[r].kind = "copyOf" /\ ~asked[r].guarded,
           asked[r].guarded => row.fields = setups[asked[r].setup].fields,
           asked'[r] # asked[r],
           setups' = Inserted(r, row), car' = IF makeCurrent THEN Select(r, None) ELSE car,
           draft' \in DraftRowType, draft'.setup \in DOMAIN setups \cup {r, None},
           UNCHANGED begun
    PROVE  /\ StoreOK' /\ Grows /\ DOMAIN setups' = DOMAIN setups \cup {r} /\ Coherent
<1>1. StoreOK /\ None \in Operation /\ r \in Universe \ DOMAIN setups
    BY Names DEF IInv, Operation
<1>2. /\ StoreOK' /\ Grows /\ DOMAIN setups' = DOMAIN setups \cup {r}
      /\ setups'[r] = row /\ \A s \in DOMAIN setups : setups'[s] = setups[s]
      /\ makeCurrent => car'.current = r /\ car'.version = car.version + 1
      /\ ~makeCurrent => Selection' = Selection
    BY <1>1, InsertFacts
<1>3. DOMAIN setups' \ DOMAIN setups = {r}  BY <1>2
<1>4. MakesCurrent(r) = asked[r].makeCurrent  BY DEF MakesCurrent
<1>5. Selection' # Selection => SawSelection  BY <1>2 DEF SawSelection
<1> QED  BY <1>2, <1>3, <1>4, <1>5 DEF Coherent

LEMMA NewRowTyped ==
    ASSUME NEW r \in Requests, asked[r].row \in RowType \cup {None}
    PROVE  /\ NewRow(r) \in RowType
           /\ asked[r].row \in RowType => NewRow(r).fields = asked[r].row.fields
<1>1. CASE asked[r].row = None
    <2>1. None \notin RowType  BY SetupAssumption DEF RowType, Operation
    <2> QED  BY <1>1, <2>1, Names DEF NewRow, Row, Written, RowType, Operation
<1>2. CASE asked[r].row \in RowType
    <2>1. asked[r].row # None  BY <1>2, SetupAssumption DEF RowType, Operation
    <2>2. asked[r].row.fields \in [Fields -> Ids]  BY <1>2 DEF RowType
    <2>3. NewRow(r) = [version |-> 1, fields |-> asked[r].row.fields, operation |-> None]
        BY <2>1 DEF NewRow, Row
    <2> QED  BY <2>2, <2>3 DEF RowType, Operation
<1> QED  BY <1>1, <1>2

LEMMA SaveKeeps ==
    ASSUME IInv, NEW r \in Requests, Save(r), UNCHANGED voiceVars
    PROVE  IInv' /\ Coherent
<1>1. /\ asked[r] \in JobType /\ asked[r].step = "write" /\ asked[r].kind \in {"create", "copy"}
      /\ AskOK(asked[r])
    BY JobByStep DEF Save, Writing, IInv, RequestOK
<1>2. CASE Refused(r, "refused")  BY <1>1, <1>2, RefusedKeeps
<1>3. CASE /\ Insert(r, NewRow(r), asked[r].makeCurrent, asked[r].car)
           /\ Answer(r, "saved") /\ Counted(r)
           /\ UNCHANGED draft /\ Untried
    <2>1. ~asked[r].guarded /\ asked[r].makeCurrent \in BOOLEAN
          /\ asked[r].row \in RowType \cup {None}
        BY <1>1 DEF AskOK, JobType
    <2>2. NewRow(r) \in RowType  BY <2>1, NewRowTyped
    <2>3. asked'[r] # asked[r] /\ r \notin DOMAIN setups  BY <1>1, <1>3, AnswerFacts
    <2>4. /\ setups' = Inserted(r, NewRow(r))
          /\ car' = IF asked[r].makeCurrent THEN Select(r, None) ELSE car
          /\ asked[r].makeCurrent => asked[r].car = Selection
        BY <1>3 DEF Insert, Witness
    <2>5. draft' \in DraftRowType /\ draft'.setup \in DOMAIN setups \cup {r, None}
          /\ begun' = begun
        BY <1>3 DEF IInv, StoreOK, Untried
    <2>6. StoreOK' /\ Grows /\ DOMAIN setups' = DOMAIN setups \cup {r} /\ Coherent
        BY <2>1, <2>2, <2>3, <2>4, <2>5, InsertCoherent
    <2>7. asked[r].kind \in Saves  BY <1>1 DEF Saves
    <2> QED  BY <1>1, <1>3, <2>6, <2>7, SavedKeeps
<1> QED  BY <1>2, <1>3 DEF Save

LEMMA SaveCopyOfKeeps ==
    ASSUME IInv, NEW r \in Requests, SaveCopyOf(r), UNCHANGED voiceVars
    PROVE  IInv' /\ Coherent
<1>0. PICK job : job = asked[r]  OBVIOUS
<1>1. /\ job \in JobType /\ job.step = "write" /\ job.kind = "copyOf" /\ AskOK(job)
    BY <1>0, JobByStep DEF SaveCopyOf, Writing, IInv, RequestOK
<1>2. CASE Refused(r, "refused")  BY <1>0, <1>1, <1>2, RefusedKeeps
<1>3. /\ job.row \in RowType /\ HasRead(job.row, job.setup) /\ job.setup \in DOMAIN setups
      /\ job.guarded => job.expected <= job.row.version
    BY <1>1 DEF AskOK
<1>4. NewRow(r) \in RowType /\ NewRow(r).fields = job.row.fields  BY <1>0, <1>3, NewRowTyped
<1>5. job.makeCurrent \in BOOLEAN /\ job.expected \in Nat /\ job.row.version \in Nat
      /\ setups[job.setup].version \in Nat
    BY <1>1, <1>3 DEF JobType, RowType, IInv, StoreOK
<1>6. ASSUME Answer(r, "saved"), Counted(r), UNCHANGED draft, Untried,
             NEW makeCurrent \in BOOLEAN, job.makeCurrent => makeCurrent,
             makeCurrent => job.car = Selection \/ ~job.guarded,
             job.guarded => GuardedSource(r),
             setups' = Inserted(r, NewRow(r)),
             car' = IF makeCurrent THEN Select(r, None) ELSE car
      PROVE  IInv' /\ Coherent
    <2>1. asked'[r] # asked[r] /\ r \notin DOMAIN setups  BY <1>0, <1>1, <1>6, AnswerFacts
    <2>2. draft' \in DraftRowType /\ draft'.setup \in DOMAIN setups \cup {r, None}
          /\ begun' = begun
        BY <1>6 DEF IInv, StoreOK, Untried
    <2>3. job.guarded => NewRow(r).fields = setups[job.setup].fields
        BY <1>0, <1>3, <1>4, <1>5, <1>6 DEF GuardedSource, HasRead
    <2>4. StoreOK' /\ Grows /\ DOMAIN setups' = DOMAIN setups \cup {r} /\ Coherent
        BY <1>0, <1>1, <1>4, <1>6, <2>1, <2>2, <2>3, InsertCoherent
    <2>5. asked[r].kind \in Saves  BY <1>0, <1>1 DEF Saves
    <2> QED  BY <1>0, <1>1, <1>6, <2>4, <2>5, SavedKeeps
<1>7. CASE /\ job.guarded /\ GuardedSource(r)
           /\ Insert(r, NewRow(r), TRUE, job.car)
           /\ Answer(r, "saved") /\ Counted(r)
           /\ UNCHANGED draft /\ Untried
    <2>1. job.car = Selection /\ setups' = Inserted(r, NewRow(r)) /\ car' = Select(r, None)
        BY <1>7 DEF Insert, Witness
    <2> QED  BY <1>6, <1>7, <2>1
<1>8. CASE /\ ~job.guarded
           /\ setups' = Inserted(r, NewRow(r))
           /\ car' = IF job.makeCurrent THEN Select(r, None) ELSE car
           /\ Answer(r, "saved") /\ Counted(r)
           /\ UNCHANGED draft /\ Untried
    BY <1>5, <1>6, <1>8
<1> QED  BY <1>0, <1>2, <1>7, <1>8 DEF SaveCopyOf

LEMMA AcceptKeeps ==
    ASSUME IInv, NEW r \in Requests, Accept(r), UNCHANGED voiceVars
    PROVE  IInv' /\ Coherent
<1>1. /\ asked[r] \in JobType /\ asked[r].step = "write" /\ asked[r].kind = "accept"
      /\ AskOK(asked[r])
    BY JobByStep DEF Accept, Writing, IInv, RequestOK
<1>2. CASE Refused(r, "failed")  BY <1>1, <1>2, RefusedKeeps
<1>3. CASE /\ Insert(r, Row(Written(r), None), asked[r].makeCurrent, asked[r].car)
           /\ draft' = [status |-> "accepted", setup |-> r]
           /\ Answer(r, "saved") /\ Counted(r) /\ Untried
    <2>1. ~asked[r].guarded /\ asked[r].makeCurrent \in BOOLEAN
        BY <1>1 DEF AskOK, JobType
    <2>2. Row(Written(r), None) \in RowType  BY Names DEF Row, Written, RowType, Operation
    <2>3. asked'[r] # asked[r] /\ r \notin DOMAIN setups  BY <1>1, <1>3, AnswerFacts
    <2>4. /\ setups' = Inserted(r, Row(Written(r), None))
          /\ car' = IF asked[r].makeCurrent THEN Select(r, None) ELSE car
          /\ asked[r].makeCurrent => asked[r].car = Selection
        BY <1>3 DEF Insert, Witness
    <2>5. draft' \in DraftRowType /\ draft'.setup \in DOMAIN setups \cup {r, None}
          /\ begun' = begun
        BY <1>3 DEF DraftRowType, Untried
    <2>6. StoreOK' /\ Grows /\ DOMAIN setups' = DOMAIN setups \cup {r} /\ Coherent
        BY <2>1, <2>2, <2>3, <2>4, <2>5, InsertCoherent
    <2>7. asked[r].kind \in Saves  BY <1>1 DEF Saves
    <2> QED  BY <1>1, <1>3, <2>6, <2>7, SavedKeeps
<1> QED  BY <1>2, <1>3 DEF Accept

LEMMA CancelKeeps ==
    ASSUME IInv, NEW r \in Requests, Cancel(r), UNCHANGED voiceVars
    PROVE  IInv' /\ Coherent
<1>1. asked[r] \in JobType /\ asked[r].kind = "cancel"
    BY JobByStep DEF Cancel, Writing
<1>2. draft' \in DraftRowType /\ draft'.setup = draft.setup
    BY DEF Cancel, IInv, StoreOK, DraftRowType
<1>3. UNCHANGED <<car, setups, begun>>  BY DEF Cancel, Untried
<1>4. StoreOK'  BY <1>2, <1>3 DEF IInv, StoreOK
<1>5. asked[r].kind \notin Saves  BY <1>1 DEF Saves
<1>6. Selection' = Selection  BY <1>3 DEF Selection
<1> QED  BY <1>1, <1>3, <1>4, <1>5, <1>6, NoGrowth, QuietIsCoherent, SavedKeeps DEF Cancel

\* One field of a setup is corrected; its version grows.
LEMMA Corrected ==
    ASSUME StoreOK, NEW s \in DOMAIN setups, NEW f \in Fields, NEW i \in Ids,
           NEW operation \in Operation,
           setups' = [setups EXCEPT ![s].version = @ + 1, ![s].fields[f] = i,
                                    ![s].operation = operation],
           UNCHANGED <<car, draft, begun>>
    PROVE  /\ StoreOK' /\ Grows /\ DOMAIN setups' = DOMAIN setups
           /\ setups'[s].version = setups[s].version + 1
           /\ \A q \in DOMAIN setups : \A g \in Fields :
                 setups'[q].fields[g] # setups[q].fields[g] => q = s /\ g = f
           /\ Selection' = Selection
<1>1. PICK row : row = setups[s]  OBVIOUS
<1>2. row \in RowType /\ row.version \in Nat /\ row.fields \in [Fields -> Ids]
    BY <1>1 DEF StoreOK, RowType
<1>3. PICK fields : fields = [row.fields EXCEPT ![f] = i]  OBVIOUS
<1>4. fields \in [Fields -> Ids] /\ \A g \in Fields \ {f} : fields[g] = row.fields[g]
    BY <1>2, <1>3
<1>5. PICK new : new = [row EXCEPT !.version = row.version + 1, !.fields = fields,
                                   !.operation = operation]
    OBVIOUS
<1>6. new \in RowType /\ new.version = row.version + 1 /\ new.fields = fields
    <2>1. new = [version |-> row.version + 1, fields |-> fields, operation |-> operation]
        BY <1>2, <1>5 DEF RowType
    <2> QED  BY <1>2, <1>4, <2>1 DEF RowType
<1>7. setups' = [setups EXCEPT ![s] = new]  BY <1>1, <1>2, <1>3, <1>5 DEF StoreOK, RowType
<1>8. DOMAIN setups' = DOMAIN setups /\ setups'[s] = new
      /\ \A q \in DOMAIN setups \ {s} : setups'[q] = setups[q]
    BY <1>7
<1>9. setups' \in [DOMAIN setups' -> RowType]  BY <1>6, <1>7 DEF StoreOK
<1>10. StoreOK'  BY <1>8, <1>9 DEF StoreOK
<1>11. Grows  BY <1>1, <1>6, <1>8 DEF Grows
<1> QED  BY <1>1, <1>4, <1>6, <1>8, <1>10, <1>11 DEF Selection

LEMMA PatchKeeps ==
    ASSUME IInv, NEW r \in Requests, Patch(r), UNCHANGED voiceVars
    PROVE  IInv' /\ Coherent
<1>0. PICK job : job = asked[r]  OBVIOUS
<1>1. /\ job \in JobType /\ job.step = "write" /\ job.kind = "patch" /\ AskOK(job)
    BY <1>0, JobByStep DEF Patch, Writing, IInv, RequestOK
<1>2. CASE Refused(r, "refused")  BY <1>0, <1>1, <1>2, RefusedKeeps
<1>3. CASE /\ setups[job.setup].version = job.row.version
           /\ setups' = [setups EXCEPT ![job.setup].version = @ + 1,
                                       ![job.setup].fields[job.field] = r,
                                       ![job.setup].operation = None]
           /\ Answer(r, "saved") /\ Counted(r)
           /\ UNCHANGED <<car, draft>> /\ Untried
    <2>1. /\ job.setup \in DOMAIN setups /\ job.field \in Fields /\ HasRead(job.row, job.setup)
        BY <1>1 DEF AskOK
    <2>2. StoreOK /\ r \in Ids /\ None \in Operation /\ begun' = begun
        BY <1>3, Names DEF IInv, Operation, Untried
    <2>3. /\ StoreOK' /\ Grows /\ DOMAIN setups' = DOMAIN setups
          /\ \A q \in DOMAIN setups : \A g \in Fields :
                setups'[q].fields[g] # setups[q].fields[g] => q = job.setup /\ g = job.field
          /\ Selection' = Selection
        BY <1>3, <2>1, <2>2, Corrected
    <2>4. job.kind \notin Saves  BY <1>1 DEF Saves
    <2>5. IInv'  BY <1>0, <1>1, <1>3, <2>3, <2>4, SavedKeeps
    <2>6. asked'[r] # asked[r]  BY <1>0, <1>1, <1>3, AnswerFacts
    <2>7. job.row.fields = setups[job.setup].fields  BY <1>3, <2>1 DEF HasRead
    <2>8. SawField(job.setup, job.field)  BY <1>0, <2>6, <2>7 DEF SawField
    <2>9. Coherent  BY <2>3, <2>8 DEF Coherent
    <2> QED  BY <2>5, <2>9
<1> QED  BY <1>0, <1>2, <1>3 DEF Patch

\* A setup that is there is selected.
LEMMA SelectFacts ==
    ASSUME StoreOK, NEW s \in DOMAIN setups, NEW operation \in Operation,
           car' = Select(s, operation), UNCHANGED <<setups, draft, begun>>
    PROVE  StoreOK' /\ Grows /\ DOMAIN setups' = DOMAIN setups
<1>1. car' = [car EXCEPT !.current = s, !.version = car.version + 1, !.operation = operation]
    BY DEF Select
<1>2. car \in CarType /\ car.version \in Nat /\ s \in Universe  BY DEF StoreOK, CarType
<1>4. car' = [current |-> s, version |-> car.version + 1, operation |-> operation,
              archived |-> car.archived]
    BY <1>1, <1>2 DEF CarType
<1>3. car' \in CarType /\ car'.current = s  BY <1>2, <1>4 DEF CarType
<1> QED  BY <1>3, NoGrowth DEF StoreOK

LEMMA SelectCurrentKeeps ==
    ASSUME IInv, NEW r \in Requests, SelectCurrent(r), UNCHANGED voiceVars
    PROVE  IInv' /\ Coherent
<1>0. PICK job : job = asked[r]  OBVIOUS
<1>1. /\ job \in JobType /\ job.step = "write" /\ job.kind = "select" /\ AskOK(job)
    BY <1>0, JobByStep DEF SelectCurrent, Writing, IInv, RequestOK
<1>2. CASE Refused(r, "refused")  BY <1>0, <1>1, <1>2, RefusedKeeps
<1>3. CASE Refused(r, "already")  BY <1>0, <1>1, <1>3, RefusedKeeps
<1>4. CASE /\ job.car.current # job.setup /\ Witness(job.car)
           /\ car' = Select(job.setup, None)
           /\ Answer(r, "saved") /\ Counted(r)
           /\ UNCHANGED <<setups, draft>> /\ Untried
    <2>1. job.setup \in DOMAIN setups  BY <1>1 DEF AskOK
    <2>2. StoreOK /\ None \in Operation /\ begun' = begun  BY <1>4 DEF IInv, Operation, Untried
    <2>3. StoreOK' /\ Grows /\ DOMAIN setups' = DOMAIN setups
        BY <1>4, <2>1, <2>2, SelectFacts
    <2>4. job.kind \notin Saves  BY <1>1 DEF Saves
    <2>5. IInv'  BY <1>0, <1>1, <1>4, <2>3, <2>4, SavedKeeps
    <2>6. asked'[r] # asked[r]  BY <1>0, <1>1, <1>4, AnswerFacts
    <2>7. SawSelection  BY <1>0, <1>4, <2>6 DEF SawSelection, Witness
    <2>8. Coherent  BY <1>4, <2>7 DEF Coherent
    <2> QED  BY <2>5, <2>8
<1> QED  BY <1>0, <1>2, <1>3, <1>4 DEF SelectCurrent

LEMMA OnlineKeeps ==
    ASSUME IInv, NEW r \in Requests, Online(r), UNCHANGED voiceVars
    PROVE  IInv' /\ Coherent
BY AskKeeps, ReadRowKeeps, ReadForImportKeeps, SaveKeeps, SaveCopyOfKeeps, AcceptKeeps,
   CancelKeeps, PatchKeeps, SelectCurrentKeeps
   DEF Online

-----------------------------------------------------------------------------
(* Commands.                                                               *)

\* A step of one command and, if it has one under way, of one execution.
LEMMA CommandStep ==
    ASSUME IInv, NEW c \in Commands, NEW t, StoreOK', Grows,
           command' \in [Commands -> CommandType], Edits(command, command', c),
           receipt' \in [Commands -> ReceiptType], Edits(receipt, receipt', c),
           effects' \in [Authors -> Nat], Edits(effects, effects', c),
           try' \in [Tries -> SetupTryType \cup WriteTryType \cup CompleteTryType \cup {Idle}],
           Edits(try, try', t),
           DOMAIN setups' \subseteq DOMAIN setups \cup {c},
           UNCHANGED <<asked, voice, results, calls>>,
           \/ command[c].type = "none"
           \/ /\ command' = command /\ receipt'[c] # "none"
              /\ receipt[c] = "applied" => receipt'[c] = "applied",
           CommandOK(c)', t \in Tries => TryOK(try[t])'
    PROVE  IInv'
<1>1. Typed'  BY DEF IInv, Typed
<1>2. \A i \in Universe \ {c} : i \in DOMAIN setups' <=> i \in DOMAIN setups  BY DEF Grows
<1>3. VoiceOK'  BY <1>2, Names DEF IInv, VoiceOK
<1>4. ASSUME NEW r \in Requests  PROVE RequestOK(r)'
    <2>1. asked'[r] = asked[r] /\ effects'[r] = effects[r]
        BY Names DEF Edits, IInv, Typed, Authors
    <2>2. PICK a : a = asked[r]  OBVIOUS
    <2>3. AskOK(a)'  BY <2>2, AskKept DEF IInv, RequestOK
    <2>4. AskOK(asked[r])'  BY <2>1, <2>2, <2>3 DEF AskOK
    <2>5. r \in DOMAIN setups' <=> r \in DOMAIN setups  BY <1>2, Names
    <2> QED  BY <2>1, <2>4, <2>5 DEF IInv, RequestOK
<1>5. ASSUME NEW d \in Commands  PROVE CommandOK(d)'
    <2>1. CASE d # c
        <3>1. command'[d] = command[d] /\ receipt'[d] = receipt[d] /\ effects'[d] = effects[d]
            BY <2>1 DEF Edits, IInv, Typed, Authors
        <3>2. d \in DOMAIN setups' <=> d \in DOMAIN setups  BY <1>2, <2>1, Names
        <3>3. QueuedOK(d, command[d])'  BY <3>1 DEF IInv, CommandOK, QueuedOK, Grows
        <3> QED  BY <3>1, <3>2, <3>3 DEF IInv, CommandOK
    <2> QED  BY <2>1
<1>6. ASSUME NEW u \in Tries  PROVE TryOK(try[u])'
    <2>1. CASE u # t
        <3>1. try'[u] = try[u]  BY <2>1 DEF Edits, IInv, Typed
        <3>2. PICK a : a = try[u]  OBVIOUS
        <3>3. TryOK(a)  BY <3>2 DEF IInv
        <3>4. a.step # "idle" => a.of \in Commands
            BY <3>3 DEF TryOK, Idle, SetupTryType, WriteTryType, CompleteTryType
        <3>5. a.step # "idle" => /\ command'[a.of] = command[a.of]
                                 /\ receipt'[a.of] # "none"
                                 /\ receipt[a.of] = "applied" => receipt'[a.of] = "applied"
            BY <3>3, <3>4 DEF TryOK, Edits, IInv, Typed
        <3>6. TryOK(a)'  BY <3>3, <3>5, TryKept DEF IInv, Typed
        <3> QED  BY <3>1, <3>2, <3>6 DEF TryOK
    <2> QED  BY <2>1
<1>7. ASSUME NEW k \in Calls  PROVE CallOK(calls[k])'
    BY DEF IInv, CallOK
<1> QED  BY <1>1, <1>3, <1>4, <1>5, <1>6, <1>7 DEF IInv

LEMMA QueueKeeps ==
    ASSUME IInv, NEW c \in Commands, Queue(c), UNCHANGED voiceVars
    PROVE  IInv' /\ Coherent
<1>1. PICK now : now = Selection  OBVIOUS
<1>2. now \in SelectionType  BY <1>1, SelectionTyped DEF IInv
<1>3. PICK queued :
        /\ \/ \E makeCurrent \in BOOLEAN :
                queued = [Unqueued EXCEPT !.type = "setup.create", !.setup = c,
                                          !.makeCurrent = makeCurrent]
           \/ \E s \in DOMAIN setups, f \in Fields :
                queued = [Unqueued EXCEPT !.type = "setup.correct", !.setup = s, !.field = f,
                                          !.baseValue = setups[s].fields[f]]
           \/ \E s \in DOMAIN setups :
                queued = [Unqueued EXCEPT !.type = "setup.select-current", !.setup = s,
                                          !.makeCurrent = TRUE]
        /\ command' = [command EXCEPT ![c] = queued]
    BY DEF Queue
<1>4. queued \in CommandType /\ QueuedOK(c, queued) /\ queued.type # "none"
    <2>1. CASE \E makeCurrent \in BOOLEAN :
                queued = [Unqueued EXCEPT !.type = "setup.create", !.setup = c,
                                          !.makeCurrent = makeCurrent]
        <3>1. PICK mk \in BOOLEAN :
                  queued = [type |-> "setup.create", setup |-> c, makeCurrent |-> mk,
                            base |-> now, field |-> None, baseValue |-> None]
            BY <1>1, <2>1 DEF Unqueued
        <3> QED  BY <1>2, <3>1, Names DEF CommandType, QueuedOK
    <2>2. CASE \E s \in DOMAIN setups, f \in Fields :
                queued = [Unqueued EXCEPT !.type = "setup.correct", !.setup = s, !.field = f,
                                          !.baseValue = setups[s].fields[f]]
        <3>1. PICK s \in DOMAIN setups, f \in Fields :
                  queued = [type |-> "setup.correct", setup |-> s, makeCurrent |-> FALSE,
                            base |-> now, field |-> f, baseValue |-> setups[s].fields[f]]
            BY <1>1, <2>2 DEF Unqueued
        <3>2. s \in Universe /\ setups[s].fields[f] \in Ids  BY DEF IInv, StoreOK, RowType
        <3> QED  BY <1>2, <3>1, <3>2 DEF CommandType, QueuedOK
    <2>3. CASE \E s \in DOMAIN setups :
                queued = [Unqueued EXCEPT !.type = "setup.select-current", !.setup = s,
                                          !.makeCurrent = TRUE]
        <3>1. PICK s \in DOMAIN setups :
                  queued = [type |-> "setup.select-current", setup |-> s, makeCurrent |-> TRUE,
                            base |-> now, field |-> None, baseValue |-> None]
            BY <1>1, <2>3 DEF Unqueued
        <3>2. s \in Universe  BY DEF IInv, StoreOK
        <3> QED  BY <1>2, <3>1, <3>2 DEF CommandType, QueuedOK
    <2> QED  BY <1>3, <2>1, <2>2, <2>3
<1>5. /\ UNCHANGED <<car, setups, draft, asked, receipt, try, effects>> /\ command[c].type = "none"
      /\ begun' \in 0..MaxBegun
    <2>1. /\ UNCHANGED <<car, setups, draft, asked, receipt, try, effects>>
          /\ command[c].type = "none" /\ Begin
        BY DEF Queue, NotQueued
    <2>2. begun' \in 0..MaxBegun  BY <2>1, SetupAssumption DEF Begin, IInv, StoreOK
    <2> QED  BY <2>1, <2>2
<1>6. StoreOK'  BY <1>5 DEF IInv, StoreOK
<1>7. command' \in [Commands -> CommandType] /\ Edits(command, command', c) /\ command'[c] = queued
    BY <1>3, <1>4 DEF IInv, Typed, Edits
<1>8. receipt' \in [Commands -> ReceiptType] /\ Edits(receipt, receipt', c)
      /\ effects' \in [Authors -> Nat] /\ Edits(effects, effects', c)
      /\ try' \in [Tries -> SetupTryType \cup WriteTryType \cup CompleteTryType \cup {Idle}]
      /\ Edits(try, try', 0)
    BY <1>5 DEF IInv, Typed, Edits
<1>9. QueuedOK(c, command[c])'  BY <1>4, <1>5, <1>7 DEF QueuedOK
<1>10. receipt[c] = "none" /\ effects[c] = 0 /\ c \notin DOMAIN setups
    BY <1>5 DEF IInv, CommandOK
<1>11. CommandOK(c)'  BY <1>4, <1>5, <1>7, <1>9, <1>10 DEF CommandOK
<1>12. IInv'
    BY <1>5, <1>6, <1>7, <1>8, <1>11, NoGrowth, CommandStep, 0 \notin Tries DEF voiceVars, Tries
<1>13. Selection' = Selection  BY <1>5 DEF Selection
<1> QED  BY <1>5, <1>12, <1>13, QuietIsCoherent

\* The car and the setups stay, one execution moves on, the receipt does not go back.
LEMMA TryKeeps ==
    ASSUME IInv, NEW c \in Commands, NEW t \in Tries,
           UNCHANGED <<car, setups, draft, asked, command, effects, begun>>,
           NEW answer \in ReceiptType \ {"none"}, receipt' = [receipt EXCEPT ![c] = answer],
           command[c].type # "none",
           receipt[c] = "applied" => answer = "applied",
           answer = "applied" => \/ receipt[c] = "applied"
                                 \/ command[c].type = "setup.select-current",
           NEW a \in SetupTryType \cup WriteTryType \cup CompleteTryType \cup {Idle},
           TryOK(a)', try' = [try EXCEPT ![t] = a],
           UNCHANGED voiceVars
    PROVE  IInv' /\ Coherent
<1>1. StoreOK'  BY DEF IInv, StoreOK
<1>2. receipt' \in [Commands -> ReceiptType] /\ Edits(receipt, receipt', c) /\ receipt'[c] = answer
    BY DEF IInv, Typed, Edits
<1>3. try' \in [Tries -> SetupTryType \cup WriteTryType \cup CompleteTryType \cup {Idle}]
      /\ Edits(try, try', t) /\ try'[t] = a
    BY DEF IInv, Typed, Edits
<1>4. /\ command' \in [Commands -> CommandType] /\ Edits(command, command', c)
      /\ effects' \in [Authors -> Nat] /\ Edits(effects, effects', c)
    BY DEF IInv, Typed, Edits
<1>5. TryOK(try[t])'  BY <1>3 DEF TryOK
<1>6. CommandOK(c) /\ QueuedOK(c, command[c])'  BY DEF IInv, CommandOK, QueuedOK
<1>7. CommandOK(c)'  BY <1>2, <1>6 DEF CommandOK
<1>8. IInv'
    BY <1>1, <1>2, <1>3, <1>4, <1>5, <1>7, NoGrowth, CommandStep DEF voiceVars
<1>9. Selection' = Selection  BY DEF Selection
<1> QED  BY <1>8, <1>9, QuietIsCoherent

\* The same, and the receipt stays too.
LEMMA OnlyTryKeeps ==
    ASSUME IInv, NEW t \in Tries, try[t].step # "idle", Untouched,
           NEW a \in SetupTryType \cup WriteTryType \cup CompleteTryType \cup {Idle},
           TryOK(a)', try' = [try EXCEPT ![t] = a],
           UNCHANGED voiceVars
    PROVE  IInv' /\ Coherent
<1>1. TryOK(try[t])  BY DEF IInv
<1>2. PICK c : c = try[t].of  OBVIOUS
<1>3. c \in Commands /\ command[c].type # "none" /\ receipt[c] # "none"
    BY <1>1, <1>2 DEF TryOK, Idle, SetupTryType, WriteTryType, CompleteTryType
<1>4. receipt[c] \in ReceiptType \ {"none"} /\ receipt' = [receipt EXCEPT ![c] = receipt[c]]
    BY <1>3 DEF IInv, Typed, Untouched
<1> QED  BY <1>3, <1>4, TryKeeps DEF Untouched

LEMMA IdleIsOK ==
    TryOK(Idle)' /\ Idle \in SetupTryType \cup WriteTryType \cup CompleteTryType \cup {Idle}
BY DEF TryOK, Idle

LEMMA ClaimKeeps ==
    ASSUME IInv, NEW c \in Commands, Claim(c), UNCHANGED voiceVars
    PROVE  IInv' /\ Coherent
<1>1. PICK t \in Tries : ReadCar(t, c)  BY DEF Claim
<1>2. PICK a : a = IF car.archived THEN [of |-> c, step |-> "complete", verdict |-> "rejected"]
                   ELSE [of |-> c, step |-> "setup", car |-> car]
    OBVIOUS
<1>3. try' = [try EXCEPT ![t] = a]  BY <1>1, <1>2 DEF ReadCar
<1>4. a \in SetupTryType \cup CompleteTryType /\ a.of = c
      /\ (a.step = "complete" => a.verdict = "rejected")
    BY <1>2 DEF IInv, StoreOK, SetupTryType, CompleteTryType
<1>5. a.step # "write"  BY <1>4 DEF SetupTryType, CompleteTryType
<1>6. /\ receipt' = [receipt EXCEPT ![c] = "pending"] /\ receipt[c] \in {"none", "pending"}
      /\ command[c].type # "none"
      /\ UNCHANGED <<car, setups, draft, asked, command, effects, begun>>
    BY DEF Claim, NotQueued
<1>7. command'[c].type # "none" /\ receipt'[c] # "none"  BY <1>6 DEF IInv, Typed
<1>8. TryOK(a)'  BY <1>4, <1>5, <1>7 DEF TryOK
<1>9. "pending" \in ReceiptType \ {"none"}  BY DEF ReceiptType
<1> QED  BY <1>3, <1>4, <1>6, <1>8, <1>9, TryKeeps

\* What an execution is doing says what it is.
LEMMA TryByStep ==
    ASSUME IInv, NEW t \in Tries, NEW a, a = try[t], a.step \in {"setup", "write", "complete"}
    PROVE  /\ TryOK(a) /\ a.of \in Commands /\ a.step # "idle"
           /\ command[a.of] \in CommandType /\ command[a.of].type # "none"
           /\ receipt[a.of] \in ReceiptType \ {"none"}
           /\ CommandOK(a.of) /\ QueuedOK(a.of, command[a.of])
           /\ a.step = "setup" => a \in SetupTryType
           /\ a.step = "write" => a \in WriteTryType
           /\ a.step = "complete" => a \in CompleteTryType
<1>1. TryOK(a)  BY DEF IInv
<1>2. a.of \in Commands /\ a.step # "idle"
      /\ command[a.of].type # "none" /\ receipt[a.of] # "none"
    BY <1>1 DEF TryOK, Idle, SetupTryType, WriteTryType, CompleteTryType
<1>3. /\ a.step = "setup" => a \in SetupTryType
      /\ a.step = "write" => a \in WriteTryType
      /\ a.step = "complete" => a \in CompleteTryType
    BY <1>1 DEF TryOK, Idle, SetupTryType, WriteTryType, CompleteTryType
<1> QED  BY <1>1, <1>2, <1>3 DEF IInv, Typed, CommandOK

\* An execution has come to a conclusion.
LEMMA ConcludedKeeps ==
    ASSUME IInv, NEW t \in Tries, try[t].step \in {"setup", "write"}, Untouched,
           NEW verdict \in {"applied", "rejected", "conflict"}, Concluded(t, verdict),
           verdict = "applied" => \/ receipt[try[t].of] = "applied"
                                  \/ command[try[t].of].type = "setup.select-current",
           UNCHANGED voiceVars
    PROVE  IInv' /\ Coherent
<1>1. PICK c : c = try[t].of  OBVIOUS
<1>2. c \in Commands /\ command[c].type # "none" /\ receipt[c] # "none"
    BY <1>1, TryByStep
<1>3. PICK a : a = [of |-> c, step |-> "complete", verdict |-> verdict]  OBVIOUS
<1>4. a \in CompleteTryType /\ a.of = c /\ a.step = "complete" /\ a.verdict = verdict
    BY <1>2, <1>3 DEF CompleteTryType
<1>5. try' = [try EXCEPT ![t] = a]  BY <1>1, <1>3 DEF Concluded
<1>6. UNCHANGED <<command, receipt>>  BY DEF Untouched
<1>7. TryOK(a)'  BY <1>1, <1>2, <1>4, <1>6 DEF TryOK
<1> QED  BY <1>4, <1>5, <1>7, OnlyTryKeeps

LEMMA RestKeeps ==
    ASSUME IInv, NEW t \in Tries, try[t].step \in {"setup", "write"}, Untouched, Rest(t),
           UNCHANGED voiceVars
    PROVE  IInv' /\ Coherent
BY IdleIsOK, OnlyTryKeeps DEF Rest

LEMMA ReadSetupKeeps ==
    ASSUME IInv, NEW t \in Tries, ReadSetup(t), UNCHANGED voiceVars
    PROVE  IInv' /\ Coherent
<1>1. PICK b : b = try[t]  OBVIOUS
<1>2. PICK c : c = b.of  OBVIOUS
<1>3. PICK cmd : cmd = command[c]  OBVIOUS
<1>4. b.step = "setup" /\ Untouched  BY <1>1 DEF ReadSetup
<1>5. /\ b \in SetupTryType /\ c \in Commands /\ cmd \in CommandType /\ cmd.type # "none"
      /\ CommandOK(c) /\ QueuedOK(c, cmd) /\ receipt[c] # "none"
    BY <1>1, <1>2, <1>3, <1>4, TryByStep
<1>6. cmd.type \in {"setup.create", "setup.correct", "setup.select-current"}
    BY <1>5 DEF CommandType
<1>7. b.car.version \in Nat  BY <1>5 DEF SetupTryType, CarType
<1>8. CASE cmd.type = "setup.create"
    <2>1. CASE cmd.setup \in DOMAIN setups
        <3>1. receipt[c] = "applied"  BY <1>3, <1>5, <1>8, <2>1 DEF CommandOK, QueuedOK
        <3>2. Judged(t) \in {"conflict", "applied"}
            BY <1>1, <1>2, <1>3, <1>8, <2>1 DEF Judged
        <3> QED  BY <1>1, <1>2, <1>4, <3>1, <3>2, ConcludedKeeps DEF ReadSetup
    <2>2. CASE cmd.setup \notin DOMAIN setups
        <3>1. Judged(t) = IF cmd.makeCurrent /\ cmd.base # SeenBy(t) THEN "conflict" ELSE "write"
            BY <1>1, <1>2, <1>3, <1>8, <2>2 DEF Judged
        <3>2. CASE Judged(t) # "write"
            BY <1>1, <1>4, <3>1, <3>2, ConcludedKeeps DEF ReadSetup
        <3>3. CASE Judged(t) = "write"
            <4>1. PICK a : a = [of |-> c, step |-> "write", version |-> b.car.version]  OBVIOUS
            <4>2. try' = [try EXCEPT ![t] = a]
                BY <1>1, <1>2, <1>3, <1>8, <3>3, <4>1 DEF ReadSetup
            <4>3. a \in WriteTryType /\ a.of = c /\ a.step = "write" /\ a.version = b.car.version
                BY <1>5, <1>7, <4>1 DEF WriteTryType
            <4>4. cmd.makeCurrent => cmd.base.version = b.car.version
                BY <1>1, <3>1, <3>3 DEF SeenBy
            <4>5. UNCHANGED <<command, receipt>>  BY <1>4 DEF Untouched
            <4>6. TryOK(a)'  BY <1>3, <1>5, <1>8, <4>3, <4>4, <4>5 DEF TryOK
            <4> QED  BY <1>1, <1>4, <4>2, <4>3, <4>6, OnlyTryKeeps
        <3> QED  BY <3>2, <3>3
    <2> QED  BY <2>1, <2>2
<1>9. CASE cmd.type = "setup.correct"
    <2>1. Judged(t) = IF setups[cmd.setup].fields[cmd.field] # cmd.baseValue
                      THEN "conflict" ELSE "write"
        BY <1>1, <1>2, <1>3, <1>9 DEF Judged
    <2>2. CASE Judged(t) # "write"
        BY <1>1, <1>4, <2>1, <2>2, ConcludedKeeps DEF ReadSetup
    <2>3. CASE Judged(t) = "write"
        <3>1. cmd.setup \in DOMAIN setups  BY <1>5, <1>9 DEF QueuedOK
        <3>2. PICK v : v = setups[cmd.setup].version  OBVIOUS
        <3>3. v \in Nat  BY <3>1, <3>2 DEF IInv, StoreOK, RowType
        <3>4. PICK a : a = [of |-> c, step |-> "write", version |-> v]  OBVIOUS
        <3>5. try' = [try EXCEPT ![t] = a]
            BY <1>1, <1>2, <1>3, <1>9, <2>3, <3>2, <3>4 DEF ReadSetup
        <3>6. a \in WriteTryType /\ a.of = c /\ a.step = "write" /\ a.version = v
            BY <1>5, <3>3, <3>4 DEF WriteTryType
        <3>7. UNCHANGED <<command, receipt, setups>>  BY <1>4 DEF Untouched
        <3>8. TryOK(a)'  BY <1>3, <1>5, <1>9, <2>1, <2>3, <3>2, <3>3, <3>6, <3>7 DEF TryOK
        <3> QED  BY <1>1, <1>4, <3>5, <3>6, <3>8, OnlyTryKeeps
    <2> QED  BY <2>2, <2>3
<1>10. CASE cmd.type = "setup.select-current"
    <2>1. Judged(t) = IF b.car.current = cmd.setup THEN "applied"
                      ELSE IF cmd.base # SeenBy(t) THEN "conflict" ELSE "write"
        BY <1>1, <1>2, <1>3, <1>10 DEF Judged
    <2>2. CASE Judged(t) # "write"
        BY <1>1, <1>2, <1>3, <1>4, <1>10, <2>1, <2>2, ConcludedKeeps DEF ReadSetup
    <2>3. CASE Judged(t) = "write"
        <3>1. PICK a : a = [of |-> c, step |-> "write", version |-> b.car.version]  OBVIOUS
        <3>2. try' = [try EXCEPT ![t] = a]
            BY <1>1, <1>2, <1>3, <1>10, <2>3, <3>1 DEF ReadSetup
        <3>3. a \in WriteTryType /\ a.of = c /\ a.step = "write" /\ a.version = b.car.version
            BY <1>5, <1>7, <3>1 DEF WriteTryType
        <3>4. cmd.base.version = b.car.version  BY <1>1, <2>1, <2>3 DEF SeenBy
        <3>5. UNCHANGED <<command, receipt>>  BY <1>4 DEF Untouched
        <3>6. TryOK(a)'  BY <1>3, <1>5, <1>10, <3>3, <3>4, <3>5 DEF TryOK
        <3> QED  BY <1>1, <1>4, <3>2, <3>3, <3>6, OnlyTryKeeps
    <2> QED  BY <2>2, <2>3
<1> QED  BY <1>6, <1>8, <1>9, <1>10

LEMMA CompleteKeeps ==
    ASSUME IInv, NEW t \in Tries, Complete(t), UNCHANGED voiceVars
    PROVE  IInv' /\ Coherent
<1>1. PICK a : a = try[t]  OBVIOUS
<1>2. PICK c : c = a.of  OBVIOUS
<1>3. a.step = "complete"  BY <1>1 DEF Complete
<1>4. /\ a \in CompleteTryType /\ c \in Commands /\ command[c].type # "none"
      /\ receipt[c] \in ReceiptType \ {"none"} /\ TryOK(a)
    BY <1>1, <1>2, <1>3, TryByStep
<1>5. PICK answer : answer = IF receipt[c] = "pending" THEN a.verdict ELSE receipt[c]  OBVIOUS
<1>6. answer \in ReceiptType \ {"none"}
    BY <1>4, <1>5 DEF CompleteTryType, ReceiptType
<1>7. /\ receipt[c] = "applied" => answer = "applied"
      /\ answer = "applied" => \/ receipt[c] = "applied"
                               \/ command[c].type = "setup.select-current"
    BY <1>2, <1>3, <1>4, <1>5 DEF TryOK
<1>8. receipt' = [receipt EXCEPT ![c] = answer] /\ try' = [try EXCEPT ![t] = Idle]
      /\ UNCHANGED <<car, setups, draft, asked, command, effects, begun>>
    BY <1>1, <1>2, <1>4, <1>5 DEF Complete, Rest, IInv, Typed
<1> QED  BY <1>4, <1>6, <1>7, <1>8, IdleIsOK, TryKeeps

\* The batch of a command that is pending, and its effect.
LEMMA AppliedKeeps ==
    ASSUME IInv, NEW t \in Tries, NEW c \in Commands, command[c].type # "none", Pending(c),
           Apply(c), Rest(t), UNCHANGED voiceVars, StoreOK', Grows,
           \/ command[c].type # "setup.create" /\ DOMAIN setups' = DOMAIN setups
           \/ command[c].type = "setup.create" /\ DOMAIN setups' = DOMAIN setups \cup {c}
    PROVE  IInv'
<1>1. /\ receipt' = [receipt EXCEPT ![c] = "applied"] /\ receipt[c] = "pending"
      /\ effects' = [effects EXCEPT ![c] = effects[c] + 1] /\ c \in Authors
      /\ UNCHANGED <<draft, asked, command, begun, voice, results, calls>>
      /\ try' = [try EXCEPT ![t] = Idle]
    BY DEF Apply, Counted, Pending, Rest, Authors, voiceVars
<1>2. CommandOK(c) /\ effects[c] = 0 /\ c \notin DOMAIN setups
    BY <1>1 DEF IInv, CommandOK
<1>3. "applied" \in ReceiptType  BY DEF ReceiptType
<1>4. /\ receipt' \in [Commands -> ReceiptType] /\ Edits(receipt, receipt', c)
      /\ receipt'[c] = "applied"
    BY <1>1, <1>3 DEF IInv, Typed, Edits
<1>5. effects' \in [Authors -> Nat] /\ Edits(effects, effects', c) /\ effects'[c] = 1
    BY <1>1, <1>2 DEF IInv, Typed, Edits
<1>6. try' \in [Tries -> SetupTryType \cup WriteTryType \cup CompleteTryType \cup {Idle}]
      /\ Edits(try, try', t) /\ try'[t] = Idle
    BY <1>1, IdleIsOK DEF IInv, Typed, Edits
<1>7. TryOK(try[t])'  BY <1>6, IdleIsOK DEF TryOK
<1>8. command' \in [Commands -> CommandType] /\ Edits(command, command', c)
    BY <1>1 DEF IInv, Typed, Edits
<1>9. QueuedOK(c, command[c])'  BY <1>1, <1>2 DEF CommandOK, QueuedOK, Grows
<1>10. CommandOK(c)'  BY <1>1, <1>2, <1>4, <1>5, <1>9 DEF CommandOK
<1>11. DOMAIN setups' \subseteq DOMAIN setups \cup {c}  OBVIOUS
<1> QED
    BY <1>1, <1>4, <1>5, <1>6, <1>7, <1>8, <1>10, <1>11, CommandStep

\* A batch that repeats the base of its command writes the version after it.
LEMMA SelectedFromBase ==
    ASSUME StoreOK, NEW base \in SelectionType, Witness(base), NEW s, NEW c, NEW v, v = base.version,
           car' = [Select(s, c) EXCEPT !.version = v + 1]
    PROVE  car' = Select(s, c)
<1>1. car \in CarType /\ car.version = v  BY DEF StoreOK, Witness, Selection
<1>2. PICK old : old = car  OBVIOUS
<1>3. PICK new : new = [old EXCEPT !.current = s, !.version = v + 1, !.operation = c]  OBVIOUS
<1>4. old \in CarType /\ old.version = v  BY <1>1, <1>2
<1>5. new = [current |-> s, version |-> v + 1, operation |-> c, archived |-> old.archived]
    BY <1>3, <1>4 DEF CarType
<1>6. Select(s, c) = new  BY <1>2, <1>3, <1>4 DEF Select, CarType
<1>7. [new EXCEPT !.version = v + 1] = new  BY <1>5
<1> QED  BY <1>6, <1>7

LEMMA CreateByCommandKeeps ==
    ASSUME IInv, NEW t \in Tries, CreateByCommand(t), UNCHANGED voiceVars
    PROVE  IInv' /\ Coherent
<1>1. PICK a : a = try[t]  OBVIOUS
<1>2. PICK c : c = a.of  OBVIOUS
<1>3. PICK cmd : cmd = command[c]  OBVIOUS
<1>4. a.step = "write" /\ cmd.type = "setup.create"  BY <1>1, <1>2, <1>3 DEF CreateByCommand
<1>5. /\ a \in WriteTryType /\ c \in Commands /\ cmd \in CommandType /\ TryOK(a) /\ CommandOK(c)
    BY <1>1, <1>2, <1>3, <1>4, TryByStep
<1>6. CASE Untouched /\ (Rest(t) \/ Concluded(t, "conflict"))
    BY <1>1, <1>4, <1>6, RestKeeps, ConcludedKeeps
<1>7. CASE /\ Pending(c)
           /\ cmd.makeCurrent => Witness(cmd.base)
           /\ setups' = Inserted(c, Row(Written(c), c))
           /\ car' = IF cmd.makeCurrent
                     THEN [Select(c, c) EXCEPT !.version = a.version + 1] ELSE car
           /\ Apply(c) /\ Rest(t)
    <2>1. c \in Operation /\ c \in Universe /\ c \notin Requests /\ cmd.makeCurrent \in BOOLEAN
        BY <1>5, Names DEF Operation, CommandType
    <2>2. c \notin DOMAIN setups  BY <1>5, <1>7 DEF CommandOK, Pending
    <2>3. Row(Written(c), c) \in RowType  BY <1>5, Names DEF Row, Written, RowType, Operation
    <2>4. car' = IF cmd.makeCurrent THEN Select(c, c) ELSE car
        <3>1. cmd.makeCurrent => a.version = cmd.base.version
            BY <1>2, <1>3, <1>4, <1>5 DEF TryOK
        <3>2. cmd.base \in SelectionType  BY <1>5 DEF CommandType
        <3> QED  BY <1>7, <3>1, <3>2, SelectedFromBase DEF IInv
    <2>5. draft' \in DraftRowType /\ draft'.setup \in DOMAIN setups \cup {c, None}
          /\ begun' = begun
        BY <1>7 DEF IInv, StoreOK, Apply
    <2>6. /\ StoreOK' /\ Grows /\ DOMAIN setups' = DOMAIN setups \cup {c}
          /\ \A s \in DOMAIN setups : setups'[s] = setups[s]
          /\ cmd.makeCurrent => car'.current = c /\ car'.version = car.version + 1
          /\ ~cmd.makeCurrent => Selection' = Selection
        BY <1>7, <2>1, <2>2, <2>3, <2>4, <2>5, InsertFacts DEF IInv
    <2>7. IInv'  BY <1>3, <1>4, <1>5, <1>7, <2>6, AppliedKeeps
    <2>8. receipt'[c] # receipt[c]  BY <1>5, <1>7 DEF Apply, Pending, IInv, Typed
    <2>9. Selection' # Selection => SawSelection
        BY <1>3, <1>5, <1>7, <2>6, <2>8 DEF SawSelection, Witness
    <2>10. DOMAIN setups' \ DOMAIN setups = {c} /\ MakesCurrent(c) = cmd.makeCurrent
        BY <1>3, <1>5, <2>1, <2>2, <2>6 DEF MakesCurrent
    <2>11. Coherent  BY <2>1, <2>6, <2>9, <2>10 DEF Coherent
    <2> QED  BY <2>7, <2>11
<1> QED  BY <1>1, <1>2, <1>3, <1>6, <1>7 DEF CreateByCommand

LEMMA CorrectByCommandKeeps ==
    ASSUME IInv, NEW t \in Tries, CorrectByCommand(t), UNCHANGED voiceVars
    PROVE  IInv' /\ Coherent
<1>1. PICK a : a = try[t]  OBVIOUS
<1>2. PICK c : c = a.of  OBVIOUS
<1>3. PICK cmd : cmd = command[c]  OBVIOUS
<1>4. a.step = "write" /\ cmd.type = "setup.correct"  BY <1>1, <1>2, <1>3 DEF CorrectByCommand
<1>5. /\ a \in WriteTryType /\ c \in Commands /\ TryOK(a) /\ QueuedOK(c, cmd)
    BY <1>1, <1>2, <1>3, <1>4, TryByStep
<1>6. CASE Untouched /\ Concluded(t, "conflict")
    BY <1>1, <1>4, <1>6, ConcludedKeeps
<1>7. CASE /\ setups[cmd.setup].version = a.version /\ Pending(c)
           /\ setups' = [setups EXCEPT ![cmd.setup].version = @ + 1,
                                       ![cmd.setup].fields[cmd.field] = c,
                                       ![cmd.setup].operation = c]
           /\ UNCHANGED car
           /\ Apply(c) /\ Rest(t)
    <2>1. cmd.setup \in DOMAIN setups /\ cmd.field \in Fields  BY <1>4, <1>5 DEF QueuedOK
    <2>2. setups[cmd.setup].fields[cmd.field] = cmd.baseValue
        BY <1>2, <1>3, <1>4, <1>5, <1>7 DEF TryOK
    <2>3. StoreOK /\ c \in Ids /\ c \in Operation /\ draft' = draft /\ begun' = begun
        BY <1>5, <1>7, Names DEF IInv, Operation, Apply
    <2>4. /\ StoreOK' /\ Grows /\ DOMAIN setups' = DOMAIN setups
          /\ \A q \in DOMAIN setups : \A g \in Fields :
                setups'[q].fields[g] # setups[q].fields[g] => q = cmd.setup /\ g = cmd.field
          /\ Selection' = Selection
        BY <1>7, <2>1, <2>3, Corrected
    <2>5. IInv'  BY <1>3, <1>4, <1>5, <1>7, <2>4, AppliedKeeps
    <2>6. receipt'[c] # receipt[c]  BY <1>5, <1>7 DEF Apply, Pending, IInv, Typed
    <2>7. SawField(cmd.setup, cmd.field)  BY <1>3, <1>5, <2>2, <2>6 DEF SawField
    <2>8. Coherent  BY <2>4, <2>7 DEF Coherent
    <2> QED  BY <2>5, <2>8
<1> QED  BY <1>1, <1>2, <1>3, <1>6, <1>7 DEF CorrectByCommand

LEMMA SelectByCommandKeeps ==
    ASSUME IInv, NEW t \in Tries, SelectByCommand(t), UNCHANGED voiceVars
    PROVE  IInv' /\ Coherent
<1>1. PICK a : a = try[t]  OBVIOUS
<1>2. PICK c : c = a.of  OBVIOUS
<1>3. PICK cmd : cmd = command[c]  OBVIOUS
<1>4. a.step = "write" /\ cmd.type = "setup.select-current"
    BY <1>1, <1>2, <1>3 DEF SelectByCommand
<1>5. /\ a \in WriteTryType /\ c \in Commands /\ cmd \in CommandType /\ TryOK(a)
      /\ QueuedOK(c, cmd)
    BY <1>1, <1>2, <1>3, <1>4, TryByStep
<1>6. CASE Untouched /\ Rest(t)  BY <1>1, <1>4, <1>6, RestKeeps
<1>7. CASE /\ Pending(c) /\ Witness(cmd.base)
           /\ car' = [Select(cmd.setup, c) EXCEPT !.version = a.version + 1]
           /\ UNCHANGED setups
           /\ Apply(c) /\ Rest(t)
    <2>1. cmd.setup \in DOMAIN setups /\ cmd.makeCurrent  BY <1>4, <1>5 DEF QueuedOK
    <2>2. a.version = cmd.base.version  BY <1>2, <1>3, <1>4, <1>5, <2>1 DEF TryOK
    <2>3. cmd.base \in SelectionType  BY <1>5 DEF CommandType
    <2>4. car' = Select(cmd.setup, c)  BY <1>7, <2>2, <2>3, SelectedFromBase DEF IInv
    <2>5. c \in Operation /\ draft' = draft /\ begun' = begun
        BY <1>5, <1>7 DEF Operation, Apply
    <2>6. StoreOK' /\ Grows /\ DOMAIN setups' = DOMAIN setups
        BY <1>7, <2>1, <2>4, <2>5, SelectFacts DEF IInv
    <2>7. IInv'  BY <1>3, <1>4, <1>5, <1>7, <2>6, AppliedKeeps
    <2>8. receipt'[c] # receipt[c]  BY <1>5, <1>7 DEF Apply, Pending, IInv, Typed
    <2>9. SawSelection  BY <1>3, <1>5, <1>7, <2>8 DEF SawSelection, Witness
    <2>10. Coherent  BY <1>7, <2>9 DEF Coherent
    <2> QED  BY <2>7, <2>10
<1> QED  BY <1>1, <1>2, <1>3, <1>6, <1>7 DEF SelectByCommand

LEMMA GoOnKeeps ==
    ASSUME IInv, NEW t \in Tries, GoOn(t), UNCHANGED voiceVars
    PROVE  IInv' /\ Coherent
BY ReadSetupKeeps, CompleteKeeps, CreateByCommandKeeps, CorrectByCommandKeeps,
   SelectByCommandKeeps DEF GoOn

-----------------------------------------------------------------------------
(* The note.                                                               *)

LEMMA DraftsAreSomething ==
    ASSUME NEW d \in DraftType
    PROVE  d # None
<1>1. d.of \in 0..MaxBegun /\ d.saves \in Contents /\ d = Draft(d.of, d.saves)
    BY DEF DraftType, Draft
<1> QED  BY <1>1, VoiceAssumption

\* A step of the note, and of whatever nobody else has read.
LEMMA VoiceKeeps ==
    ASSUME IInv, StoreOK', Grows, DOMAIN setups' \subseteq DOMAIN setups \cup {Note},
           UNCHANGED <<asked, command, receipt, try, effects>>, VoiceOK',
           calls' \in [Calls -> CallType], \A k \in Calls : CallOK(calls[k])'
    PROVE  IInv'
<1>1. Typed'  BY DEF IInv, Typed
<1>2. \A i \in Authors : i \in DOMAIN setups' <=> i \in DOMAIN setups  BY Names DEF Grows
<1>3. ASSUME NEW r \in Requests  PROVE RequestOK(r)'
    <2>1. PICK a : a = asked[r]  OBVIOUS
    <2>2. AskOK(a)'  BY <2>1, AskKept DEF IInv, RequestOK
    <2>3. AskOK(asked[r])'  BY <2>1, <2>2 DEF AskOK
    <2>4. r \in DOMAIN setups' <=> r \in DOMAIN setups  BY <1>2 DEF Authors
    <2> QED  BY <2>3, <2>4 DEF IInv, RequestOK
<1>4. ASSUME NEW c \in Commands  PROVE CommandOK(c)'
    <2>1. c \in DOMAIN setups' <=> c \in DOMAIN setups  BY <1>2 DEF Authors
    <2>2. QueuedOK(c, command[c])'  BY DEF IInv, CommandOK, QueuedOK, Grows
    <2> QED  BY <2>1, <2>2 DEF IInv, CommandOK
<1>5. ASSUME NEW t \in Tries  PROVE TryOK(try[t])'
    <2>1. PICK a : a = try[t]  OBVIOUS
    <2>2. TryOK(a)  BY <2>1 DEF IInv
    <2>3. TryOK(a)'  BY <2>2, TryKept DEF IInv, Typed, TryOK
    <2> QED  BY <2>1, <2>3 DEF TryOK
<1> QED  BY <1>1, <1>3, <1>4, <1>5 DEF IInv

\* One call moves on.
LEMMA CallMoves ==
    ASSUME IInv, NEW k \in Calls, NEW a \in CallType, CallOK(a)', calls' = [calls EXCEPT ![k] = a]
    PROVE  calls' \in [Calls -> CallType] /\ \A j \in Calls : CallOK(calls[j])'
<1>1. calls' \in [Calls -> CallType] /\ calls'[k] = a /\ \A j \in Calls \ {k} : calls'[j] = calls[j]
    BY DEF IInv, Typed
<1>2. CallOK(calls[k])'  BY <1>1 DEF CallOK
<1>3. ASSUME NEW j \in Calls \ {k}  PROVE CallOK(calls[j])'
    BY <1>1 DEF CallOK, IInv
<1> QED  BY <1>1, <1>2, <1>3

LEMMA RestingIsOK ==
    Resting \in CallType /\ CallOK(Resting)'
BY DEF CallType, CallOK, Resting

\* The setups stay; the row of the note may be written.
LEMMA OnlyVoiceKeeps ==
    ASSUME IInv, NEW k \in Calls, NEW a \in CallType, CallOK(a)', calls' = [calls EXCEPT ![k] = a],
           UNCHANGED <<car, setups, draft, asked, command, receipt, try, effects, results>>,
           begun' \in 0..MaxBegun, voice' \in VoiceType
    PROVE  IInv' /\ Coherent
<1>1. StoreOK'  BY DEF IInv, StoreOK
<1>2. VoiceOK'  BY DEF IInv, VoiceOK
<1>3. calls' \in [Calls -> CallType] /\ \A j \in Calls : CallOK(calls[j])'  BY CallMoves
<1>4. IInv'  BY <1>1, <1>2, <1>3, NoGrowth, VoiceKeeps
<1>5. Selection' = Selection  BY DEF Selection
<1> QED  BY <1>4, <1>5, QuietIsCoherent

LEMMA BeginCallKeeps ==
    ASSUME IInv, NEW k \in Calls, BeginCall(k)
    PROVE  IInv' /\ Coherent
<1>1. PICK kind \in {"process", "correct", "edit", "confirm", "discard"} :
        Begun(k, [kind |-> kind, step |-> "car", of |-> begun + 1, saw |-> Seen(kind),
                  car |-> None, fields |-> None])
    BY DEF BeginCall
<1>2. PICK a : a = [kind |-> kind, step |-> "car", of |-> begun + 1, saw |-> Seen(kind),
                    car |-> None, fields |-> None]
    OBVIOUS
<1>3. /\ UNCHANGED <<car, setups, draft, asked, command, receipt, try, effects, voice, results>>
      /\ begun < MaxBegun /\ begun' = begun + 1 /\ calls' = [calls EXCEPT ![k] = a]
    BY <1>1, <1>2 DEF Begun, Begin
<1>4. begun + 1 \in 0..MaxBegun  BY <1>3, SetupAssumption DEF IInv, StoreOK
<1>5. voice \in VoiceType /\ voice.draft \in DraftType /\ voice.status \in Statuses
    BY DEF IInv, VoiceOK, VoiceType
<1>6. a \in CallType /\ a.step = "car" /\ (a.kind = "discard" => a.saw = voice.status)
    <2>1. CASE kind \in {"process", "correct"}
        <3>1. Seen(kind) = None  BY <2>1 DEF Seen
        <3> QED  BY <1>2, <1>4, <2>1, <3>1 DEF CallType, BlindCallType
    <2>2. CASE kind \in {"edit", "confirm"}
        <3>1. Seen(kind) = voice.draft  BY <2>2 DEF Seen
        <3> QED  BY <1>2, <1>4, <1>5, <2>2, <3>1 DEF CallType, ReviewCallType
    <2>3. CASE kind = "discard"
        <3>1. Seen(kind) = voice.status  BY <2>3 DEF Seen
        <3> QED  BY <1>2, <1>4, <1>5, <2>3, <3>1 DEF CallType, DiscardCallType
    <2> QED  BY <2>1, <2>2, <2>3
<1>7. CallOK(a)'  BY <1>3, <1>5, <1>6 DEF CallOK
<1> QED  BY <1>3, <1>4, <1>5, <1>6, <1>7, OnlyVoiceKeeps

LEMMA ReadCarOfKeeps ==
    ASSUME IInv, NEW k \in Calls, ReadCarOf(k)
    PROVE  IInv' /\ Coherent
<1>1. PICK a : a = calls[k]  OBVIOUS
<1>2. a \in CallType /\ CallOK(a) /\ a.step = "car"  BY <1>1 DEF ReadCarOf, IInv, Typed
<1>3. /\ UNCHANGED <<car, setups, draft, asked, command, receipt, try, effects, voice, results>>
      /\ begun' \in 0..MaxBegun /\ voice' \in VoiceType
    BY DEF ReadCarOf, OnlyCalls, setupVars, IInv, StoreOK, VoiceOK
<1>4. CASE Ended(k)
    BY <1>3, <1>4, RestingIsOK, OnlyVoiceKeeps DEF Ended
<1>5. CASE ~Ended(k)
    <2>1. PICK copies : copies = (a.kind = "confirm" /\ a.saw.saves = "setup")  OBVIOUS
    <2>2. PICK seen : seen = IF copies THEN Selection ELSE None  OBVIOUS
    <2>3. PICK fields : fields = IF copies THEN setups[car.current].fields ELSE None  OBVIOUS
    <2>4. seen \in SelectionType \cup {None}  BY <2>2, SelectionTyped DEF IInv
    <2>5. fields \in [Fields -> Ids] \cup {None} /\ (copies => fields \in [Fields -> Ids])
        BY <2>3 DEF IInv, StoreOK, RowType
    <2>6. PICK b : b = [a EXCEPT !.step = "write", !.car = seen, !.fields = fields]  OBVIOUS
    <2>7. calls' = [calls EXCEPT ![k] = b]
        BY <1>1, <1>5, <2>1, <2>2, <2>3, <2>6 DEF ReadCarOf, IInv, Typed
    <2>8. b \in CallType /\ b.kind = a.kind /\ b.saw = a.saw /\ b.fields = fields
        <3>1. CASE a \in BlindCallType
            BY <2>4, <2>5, <2>6, <3>1 DEF CallType, BlindCallType
        <3>2. CASE a \in ReviewCallType
            BY <2>4, <2>5, <2>6, <3>2 DEF CallType, ReviewCallType
        <3>3. CASE a \in DiscardCallType
            BY <2>4, <2>5, <2>6, <3>3 DEF CallType, DiscardCallType
        <3> QED  BY <1>2, <3>1, <3>2, <3>3 DEF CallType, Resting
    <2>9. CallOK(b)'  BY <1>2, <1>3, <2>1, <2>5, <2>8 DEF CallOK
    <2> QED  BY <1>3, <2>7, <2>8, <2>9, OnlyVoiceKeeps
<1> QED  BY <1>4, <1>5

\* What writes the row of the note writes one that may be there.
LEMMA RowOfNote ==
    ASSUME IInv, NEW status \in Statuses, NEW d \in DraftType, NEW v, v \in VoiceType
    PROVE  /\ [v EXCEPT !.status = status] \in VoiceType
           /\ [v EXCEPT !.status = status].status = status
           /\ [v EXCEPT !.draft = d] \in VoiceType
           /\ [v EXCEPT !.draft = d].status = v.status
           /\ [status |-> status, draft |-> d] \in VoiceType
           /\ [status |-> status, draft |-> d].status = status
BY DEF VoiceType

LEMMA ProcessingKeeps ==
    ASSUME IInv, NEW k \in Calls,
           StartProcessing(k) \/ FinishProcessing(k) \/ Correct(k) \/ Edit(k) \/ Discard(k)
    PROVE  IInv' /\ Coherent
<1>1. PICK a : a = calls[k]  OBVIOUS
<1>2. a \in CallType /\ CallOK(a)  BY <1>1 DEF IInv, Typed
<1>3. /\ UNCHANGED <<car, setups, draft, asked, command, receipt, try, effects, results>>
      /\ begun' \in 0..MaxBegun
    BY DEF StartProcessing, FinishProcessing, Correct, Edit, Discard, setupVars, IInv, StoreOK
<1>4. PICK v : v = voice  OBVIOUS
<1>5. v \in VoiceType /\ v.draft \in DraftType
    BY <1>4 DEF IInv, VoiceOK, VoiceType
<1>6. a.step # "idle" => a.of \in 0..MaxBegun
    BY <1>2 DEF CallType, Resting, BlindCallType, ReviewCallType, DiscardCallType
<1>7. a.step # "idle" => NewDrafts(k) \subseteq DraftType
    BY <1>1, <1>6 DEF NewDrafts, Draft, DraftType
<1>8. CASE StartProcessing(k)
    <2>1. a.step = "write" /\ a.kind = "process"  BY <1>1, <1>8 DEF StartProcessing, Writes
    <2>2. PICK b : b = [a EXCEPT !.step = "listen"]  OBVIOUS
    <2>3. a \in BlindCallType
        BY <1>2, <2>1 DEF CallType, Resting, BlindCallType, ReviewCallType, DiscardCallType
    <2>4. b \in BlindCallType /\ b.kind = "process"  BY <2>1, <2>2, <2>3 DEF BlindCallType
    <2>5. b \in CallType /\ CallOK(b)'  BY <2>4 DEF CallType, CallOK
    <2>6. calls' = [calls EXCEPT ![k] = b]
        BY <1>1, <1>8, <2>2 DEF StartProcessing, IInv, Typed
    <2>7. voice' = [v EXCEPT !.status = "processing"]  BY <1>4, <1>8 DEF StartProcessing
    <2>8. "processing" \in Statuses  BY DEF Statuses
    <2>9. voice' \in VoiceType  BY <1>5, <2>7, <2>8, RowOfNote
    <2> QED  BY <1>3, <2>5, <2>6, <2>9, OnlyVoiceKeeps
<1>9. CASE FinishProcessing(k)
    <2>1. a.step = "listen"  BY <1>1, <1>9 DEF FinishProcessing
    <2>2. "failed" \in Statuses /\ "needs-review" \in Statuses  BY DEF Statuses
    <2>3. \/ voice' = [v EXCEPT !.status = "failed"]
          \/ \E d \in DraftType : voice' = [status |-> "needs-review", draft |-> d]
        BY <1>4, <1>7, <1>9, <2>1 DEF FinishProcessing
    <2>4. voice' \in VoiceType
        <3>1. CASE voice' = [v EXCEPT !.status = "failed"]
            BY <1>5, <2>2, <3>1, RowOfNote
        <3>2. ASSUME NEW d \in DraftType, voice' = [status |-> "needs-review", draft |-> d]
              PROVE  voice' \in VoiceType
            BY <2>2, <3>2 DEF VoiceType
        <3> QED  BY <2>3, <3>1, <3>2
    <2> QED  BY <1>3, <1>9, <2>4, RestingIsOK, OnlyVoiceKeeps DEF FinishProcessing, Ended
<1>10. CASE Correct(k) \/ Edit(k)
    <2>1. a.step = "write"  BY <1>1, <1>10 DEF Correct, Edit, Writes
    <2>2. Edit(k) => a.saw \in DraftType
        BY <1>1, <1>2, <2>1
           DEF Edit, Writes, CallType, Resting, BlindCallType, ReviewCallType, DiscardCallType
    <2>3. \E d \in DraftType : voice' = [v EXCEPT !.draft = d]
        BY <1>1, <1>4, <1>5, <1>7, <1>10, <2>1, <2>2 DEF Correct, Edit
    <2>4. voice' \in VoiceType
        BY <1>5, <2>3, RowOfNote DEF VoiceType
    <2> QED  BY <1>3, <1>10, <2>4, RestingIsOK, OnlyVoiceKeeps DEF Correct, Edit, Ended
<1>11. CASE Discard(k)
    <2>1. a.step = "write" /\ a.kind = "discard"  BY <1>1, <1>11 DEF Discard, Writes
    <2>2. PICK status : status = IF a.saw = "saved" THEN "saved" ELSE "discarded"  OBVIOUS
    <2>3. status \in Statuses  BY <2>2 DEF Statuses
    <2>4. voice' = [v EXCEPT !.status = status]  BY <1>1, <1>4, <1>11, <2>2 DEF Discard
    <2>5. voice' \in VoiceType  BY <1>5, <2>3, <2>4, RowOfNote
    <2> QED  BY <1>3, <1>11, <2>3, <2>5, RestingIsOK, OnlyVoiceKeeps DEF Discard, Ended
<1> QED  BY <1>8, <1>9, <1>10, <1>11

LEMMA ConfirmKeeps ==
    ASSUME IInv, NEW k \in Calls, Confirm(k)
    PROVE  /\ IInv' /\ Coherent /\ (results # None => results' = results)
           /\ voice'.status = "saved" /\ voice.status # "saved" => MaySave(k)
<1>1. PICK a : a = calls[k]  OBVIOUS
<1>2. a \in CallType /\ CallOK(a) /\ a.step = "write" /\ a.kind = "confirm"
    BY <1>1 DEF Confirm, Writes, IInv, Typed
<1>3. a.saw \in DraftType /\ a.saw # None
    <2>1. a.saw \in DraftType
        BY <1>2 DEF CallType, Resting, BlindCallType, ReviewCallType, DiscardCallType
    <2> QED  BY <2>1, DraftsAreSomething
<1>4. calls' = [calls EXCEPT ![k] = Resting]
      /\ UNCHANGED <<draft, asked, command, receipt, try, effects, begun>>
    BY DEF Confirm, Ended
<1>5. CASE UNCHANGED <<setups, car, results, voice>>
    <2>1. begun' \in 0..MaxBegun /\ voice' \in VoiceType
        BY <1>4, <1>5 DEF IInv, StoreOK, VoiceOK
    <2> QED  BY <1>4, <1>5, <2>1, RestingIsOK, OnlyVoiceKeeps
<1>6. CASE /\ a.saw.saves = "nothing" \/ results = None
           /\ a.saw.saves = "setup" => Witness(a.car)
           /\ IF a.saw.saves = "setup" THEN Insert(Note, Row(a.fields, None), TRUE, a.car)
              ELSE UNCHANGED <<setups, car>>
           /\ results' = IF a.saw.saves = "nothing" THEN results ELSE a.saw
           /\ voice' = [voice EXCEPT !.status = "saved"]
    <2>1. a.saw.saves # "nothing" => Note \notin DOMAIN setups /\ results = None
        BY <1>6 DEF IInv, VoiceOK
    <2>2. "saved" \in Statuses /\ voice \in VoiceType /\ voice.draft \in DraftType
        BY DEF Statuses, IInv, VoiceOK, VoiceType
    <2>3. voice' \in VoiceType
        <3>1. PICK v : v = voice  OBVIOUS
        <3> QED  BY <1>6, <2>2, <3>1, RowOfNote
    <2>4. calls' \in [Calls -> CallType] /\ \A j \in Calls : CallOK(calls[j])'
        BY <1>3, <1>4, <1>6, RestingIsOK, CallMoves
    <2>5. MaySave(k)
        <3>1. calls'[k] # calls[k]  BY <1>1, <1>2, <1>4 DEF IInv, Typed, Resting
        <3>2. a.saw.saves = "nothing" \/ results' = a.saw  BY <1>6
        <3> QED  BY <1>1, <1>2, <3>1, <3>2 DEF MaySave
    <2>6. results # None => results' = results  BY <1>6
    <2>7. CASE a.saw.saves = "setup"
        <3>1. Row(a.fields, None) \in RowType
            BY <1>2, <2>7 DEF CallOK, Row, RowType, Operation
        <3>2. /\ setups' = Inserted(Note, Row(a.fields, None)) /\ car' = Select(Note, None)
              /\ a.car = Selection
            BY <1>6, <2>7 DEF Insert, Witness
        <3>3. /\ StoreOK' /\ Grows /\ DOMAIN setups' = DOMAIN setups \cup {Note}
              /\ \A s \in DOMAIN setups : setups'[s] = setups[s]
              /\ car'.current = Note /\ car'.version = car.version + 1
            <4>1. StoreOK /\ Note \in Universe \ DOMAIN setups /\ None \in Operation
                BY <2>1, <2>7, Names DEF IInv, Operation
            <4>2. draft' \in DraftRowType /\ draft'.setup \in DOMAIN setups \cup {Note, None}
                  /\ begun' = begun
                BY <1>4 DEF IInv, StoreOK
            <4>3. car' = IF TRUE THEN Select(Note, None) ELSE car  BY <3>2
            <4> QED  BY <3>1, <3>2, <4>1, <4>2, <4>3, InsertFacts
        <3>4. VoiceOK'  BY <1>3, <1>6, <2>3, <2>7, <3>3 DEF VoiceOK
        <3>5. IInv'  BY <1>4, <2>4, <3>3, <3>4, VoiceKeeps
        <3>6. calls'[k] # calls[k]  BY <1>1, <1>2, <1>4 DEF IInv, Typed, Resting
        <3>7. SawSelection  BY <1>1, <3>2, <3>6 DEF SawSelection
        <3>8. DOMAIN setups' \ DOMAIN setups = {Note} /\ Note \notin Requests
            BY <2>1, <2>7, <3>3, Names
        <3>9. Coherent  BY <3>3, <3>7, <3>8 DEF Coherent
        <3> QED  BY <2>5, <2>6, <3>5, <3>9
    <2>8. CASE a.saw.saves # "setup"
        <3>1. UNCHANGED <<setups, car>>  BY <1>6, <2>8
        <3>2. StoreOK'  BY <1>4, <3>1 DEF IInv, StoreOK
        <3>3. VoiceOK'
            <4>1. CASE a.saw.saves = "nothing"
                <5>1. results' = results  BY <1>6, <4>1
                <5> QED  BY <2>3, <3>1, <5>1 DEF IInv, VoiceOK
            <4>2. CASE a.saw.saves # "nothing"
                <5>1. results' = a.saw /\ Note \notin DOMAIN setups  BY <1>6, <2>1, <4>2
                <5> QED  BY <1>3, <2>3, <2>8, <3>1, <5>1 DEF VoiceOK
            <4> QED  BY <4>1, <4>2
        <3>4. IInv'  BY <1>4, <2>4, <3>1, <3>2, <3>3, NoGrowth, VoiceKeeps
        <3>5. Selection' = Selection  BY <3>1 DEF Selection
        <3> QED  BY <2>5, <2>6, <3>1, <3>4, <3>5, QuietIsCoherent
    <2> QED  BY <2>7, <2>8
<1> QED  BY <1>1, <1>5, <1>6 DEF Confirm, NamesAreFree

\* What VoiceIsSavedOnce asks of a step.
SavedOnce ==
    /\ results # None => results' = results
    /\ voice'.status = "saved" /\ voice.status # "saved" => \E k \in Calls : MaySave(k)
    /\ (Note \in DOMAIN setups') <=> (results' # None /\ results'.saves = "setup")

\* Of the other steps of a call only a discard that has read the mark puts it back.
LEMMA MarkIsKept ==
    ASSUME IInv, NEW k \in Calls, VoiceStep(k), ~Confirm(k),
           voice'.status = "saved", voice.status # "saved"
    PROVE  MaySave(k)
<1>1. PICK v : v = voice  OBVIOUS
<1>2. v \in VoiceType /\ voice.status = v.status  BY <1>1 DEF IInv, VoiceOK
<1>3. ASSUME NEW status \in STRING, voice' = [v EXCEPT !.status = status]
      PROVE  voice'.status = status
    BY <1>2, <1>3 DEF VoiceType
<1>4. ASSUME NEW d, voice' = [v EXCEPT !.draft = d]
      PROVE  voice'.status = v.status
    BY <1>2, <1>4 DEF VoiceType
<1>5. CASE BeginCall(k) \/ ReadCarOf(k)
    BY <1>5 DEF BeginCall, Begun, ReadCarOf, OnlyCalls
<1>6. CASE StartProcessing(k)
    BY <1>1, <1>3, <1>6 DEF StartProcessing
<1>7. CASE FinishProcessing(k)
    <2>1. CASE voice' = [voice EXCEPT !.status = "failed"]
        BY <1>1, <1>3, <2>1
    <2>2. CASE \E d \in NewDrafts(k) : voice' = [status |-> "needs-review", draft |-> d]
        BY <2>2
    <2> QED  BY <1>7, <2>1, <2>2 DEF FinishProcessing
<1>8. CASE Correct(k) \/ Edit(k)
    <2>1. \E d : voice' = [v EXCEPT !.draft = d]  BY <1>1, <1>8 DEF Correct, Edit
    <2> QED  BY <1>2, <1>4, <2>1
<1>9. CASE Discard(k)
    <2>1. PICK a : a = calls[k]  OBVIOUS
    <2>2. PICK status : status = IF a.saw = "saved" THEN "saved" ELSE "discarded"  OBVIOUS
    <2>3. voice' = [v EXCEPT !.status = status]  BY <1>1, <1>9, <2>1, <2>2 DEF Discard
    <2>4. a.saw = "saved"  BY <1>3, <2>2, <2>3
    <2>5. a.step = "write" /\ a.kind = "discard" /\ calls' = [calls EXCEPT ![k] = Resting]
        BY <1>9, <2>1 DEF Discard, Writes, Ended
    <2>6. calls'[k] # calls[k]  BY <2>1, <2>5 DEF IInv, Typed, Resting
    <2> QED  BY <2>1, <2>4, <2>5, <2>6 DEF MaySave
<1> QED  BY <1>5, <1>6, <1>7, <1>8, <1>9 DEF VoiceStep

LEMMA ToggleKeeps ==
    ASSUME IInv, Toggle, UNCHANGED voiceVars
    PROVE  IInv' /\ Coherent
<1>1. /\ begun' \in 0..MaxBegun /\ car' = [car EXCEPT !.archived = ~car.archived]
      /\ UNCHANGED <<setups, draft, asked, command, receipt, try, effects, voice, results, calls>>
    BY SetupAssumption DEF Toggle, Begin, IInv, StoreOK, voiceVars
<1>2. car \in CarType /\ car.current \in DOMAIN setups  BY DEF IInv, StoreOK
<1>3. car' \in CarType /\ car'.current = car.current /\ car'.version = car.version
    BY <1>1, <1>2 DEF CarType
<1>4. StoreOK'  BY <1>1, <1>2, <1>3 DEF IInv, StoreOK
<1>5. VoiceOK'  BY <1>1 DEF IInv, VoiceOK
<1>6. calls' \in [Calls -> CallType] /\ \A k \in Calls : CallOK(calls[k])'
    BY <1>1 DEF IInv, Typed, CallOK
<1>7. IInv'  BY <1>1, <1>4, <1>5, <1>6, NoGrowth, VoiceKeeps
<1>8. Selection' = Selection  BY <1>3 DEF Selection
<1> QED  BY <1>1, <1>7, <1>8, QuietIsCoherent

LEMMA NextKeeps ==
    ASSUME IInv, [Next]_vars
    PROVE  IInv' /\ (Coherent \/ UNCHANGED vars) /\ SavedOnce
<1>1. CASE SetupNext /\ UNCHANGED voiceVars
    <2>1. IInv' /\ Coherent
        BY <1>1, OnlineKeeps, ToggleKeeps, QueueKeeps, ClaimKeeps, GoOnKeeps DEF SetupNext
    <2>2. results' = results /\ voice' = voice  BY <1>1 DEF voiceVars
    <2> QED  BY <2>1, <2>2 DEF SavedOnce, IInv, VoiceOK
<1>2. ASSUME NEW k \in Calls, VoiceStep(k)
      PROVE  IInv' /\ Coherent /\ SavedOnce
    <2>1. CASE Confirm(k)
        BY <2>1, ConfirmKeeps DEF SavedOnce, IInv, VoiceOK
    <2>2. CASE ~Confirm(k)
        <3>1. IInv' /\ Coherent
            BY <1>2, <2>2, BeginCallKeeps, ReadCarOfKeeps, ProcessingKeeps DEF VoiceStep
        <3>2. results' = results
            BY <1>2, <2>2
               DEF VoiceStep, BeginCall, Begun, ReadCarOf, OnlyCalls, StartProcessing,
                   FinishProcessing, Correct, Edit, Discard
        <3>3. voice'.status = "saved" /\ voice.status # "saved" => MaySave(k)
            BY <1>2, <2>2, MarkIsKept
        <3> QED  BY <3>1, <3>2, <3>3 DEF SavedOnce, IInv, VoiceOK
    <2> QED  BY <2>1, <2>2
<1>3. CASE UNCHANGED vars
    <2>1. /\ UNCHANGED <<car, setups, draft, asked, command, receipt, try, effects, begun>>
          /\ UNCHANGED <<voice, results, calls>>
        BY <1>3 DEF vars, setupVars, voiceVars
    <2>2. StoreOK' /\ VoiceOK'  BY <2>1 DEF IInv, StoreOK, VoiceOK
    <2>3. calls' \in [Calls -> CallType] /\ \A k \in Calls : CallOK(calls[k])'
        BY <2>1 DEF IInv, Typed, CallOK
    <2>4. IInv'  BY <2>1, <2>2, <2>3, NoGrowth, VoiceKeeps
    <2> QED  BY <1>3, <2>1, <2>4 DEF SavedOnce, IInv, VoiceOK
<1> QED  BY <1>1, <1>2, <1>3 DEF Next

LEMMA InitIsOK == Init => IInv
<1> SUFFICES ASSUME Init  PROVE IInv
    OBVIOUS
<1>1. /\ car = [current |-> First, version |-> 1, operation |-> None, archived |-> FALSE]
      /\ setups = [i \in {First} |-> Row(Written(i), None)]
      /\ draft = [status |-> "draft", setup |-> None]
      /\ asked = [r \in Requests |-> Unasked]
      /\ command = [c \in Commands |-> Unqueued]
      /\ receipt = [c \in Commands |-> "none"]
      /\ try = [t \in Tries |-> Idle]
      /\ effects = [i \in Authors |-> 0]
      /\ begun = 0
      /\ voice = [status |-> "needs-review", draft |-> ReviewedDraft]
      /\ results = None
      /\ calls = [k \in Calls |-> Resting]
    BY DEF Init, SetupInit
<1>2. DOMAIN setups = {First}  BY <1>1
<1>3. StoreOK
    <2>1. Row(Written(First), None) \in RowType  BY Names DEF Row, Written, RowType, Operation
    <2>2. setups \in [DOMAIN setups -> RowType]  BY <1>1, <1>2, <2>1
    <2>3. car \in CarType /\ car.current = First  BY <1>1, Names DEF CarType, Operation
    <2>4. draft \in DraftRowType /\ draft.setup = None  BY <1>1 DEF DraftRowType
    <2>5. begun \in 0..MaxBegun  BY <1>1, SetupAssumption
    <2> QED  BY <1>2, <2>2, <2>3, <2>4, <2>5, Names DEF StoreOK
<1>4. VoiceOK
    <2>1. ReviewedDraft \in DraftType  BY SetupAssumption DEF ReviewedDraft, Draft, DraftType, Contents
    <2>2. voice \in VoiceType /\ voice.status = "needs-review"
        BY <1>1, <2>1 DEF VoiceType, Statuses
    <2> QED  BY <1>1, <1>2, <2>2, Names DEF VoiceOK
<1>5. Unqueued \in CommandType /\ Unqueued.type = "none"
    <2>1. PICK now : now = Selection  OBVIOUS
    <2>2. now \in SelectionType  BY <1>3, <2>1, SelectionTyped
    <2> QED  BY <2>1, <2>2 DEF Unqueued, CommandType
<1>6. Typed
    BY <1>1, <1>5, RestingIsOK DEF Typed, ReceiptType, Authors
<1>7. ASSUME NEW r \in Requests  PROVE RequestOK(r)
    <2>1. asked[r] = Unasked /\ effects[r] = 0 /\ r \notin DOMAIN setups
        BY <1>1, <1>2, Names DEF Authors
    <2>2. AskOK(Unasked)  BY DEF AskOK, Unasked
    <2> QED  BY <2>1, <2>2 DEF RequestOK, Unasked
<1>8. ASSUME NEW c \in Commands  PROVE CommandOK(c)
    <2>1. command[c] = Unqueued /\ receipt[c] = "none" /\ effects[c] = 0 /\ c \notin DOMAIN setups
        BY <1>1, <1>2, Names DEF Authors
    <2> QED  BY <1>5, <2>1 DEF CommandOK, QueuedOK
<1>9. \A t \in Tries : TryOK(try[t])  BY <1>1 DEF TryOK, Idle
<1>10. \A k \in Calls : CallOK(calls[k])  BY <1>1 DEF CallOK, CallType, Resting
<1> QED  BY <1>3, <1>4, <1>6, <1>7, <1>8, <1>9, <1>10 DEF IInv

-----------------------------------------------------------------------------
(* Theorems.                                                               *)

(* The inductive invariant: everybody who has read a row has read the fields *)
(* of its version, and every answer, receipt and mark tells what was written. *)
THEOREM Invariant == Spec => []IInv
<1>1. IInv /\ [Next]_vars => IInv'  BY NextKeeps
<1> QED  BY InitIsOK, <1>1, PTL DEF Spec

(* The rows and what the executions have read have their types, and whatever *)
(* refers to a setup refers to one that is there.                            *)
THEOREM TypeCorrect == Spec => []TypeOK
<1>1. ASSUME IInv  PROVE TypeOK
    <2>1. car \in [current : DOMAIN setups, version : Nat, operation : Commands \cup {None},
                   archived : BOOLEAN]
        <3>1. PICK own : own = car  OBVIOUS
        <3>2. own \in CarType /\ own.current \in DOMAIN setups  BY <1>1, <3>1 DEF IInv, StoreOK
        <3> QED  BY <3>1, <3>2 DEF CarType, Operation
    <2>2. ASSUME NEW i \in DOMAIN setups
          PROVE  setups[i] \in [version : Nat \ {0},
                                fields : [Fields -> DOMAIN setups \cup Authors],
                                operation : Commands \cup {None}]
        <3>1. setups[i] \in RowType /\ First \in DOMAIN setups  BY <1>1 DEF IInv, StoreOK
        <3>2. Ids \subseteq DOMAIN setups \cup Authors  BY <3>1 DEF Ids
        <3> QED  BY <3>1, <3>2 DEF RowType, Operation
    <2>3. draft.status \in {"draft", "accepted", "cancelled"}
          /\ draft.setup \in (Requests \cap DOMAIN setups) \cup {None}
        BY <1>1 DEF IInv, StoreOK, DraftRowType
    <2>4. \A t \in Tries : try[t].of \in Commands \cup {None}
        BY <1>1 DEF IInv, TryOK, SetupTryType, WriteTryType, CompleteTryType, Idle
    <2>5. DOMAIN setups \subseteq Ids \cup {Note} /\ car.current \in DOMAIN setups
        BY <1>1 DEF IInv, StoreOK, Universe
    <2>6. voice.status \in {"processing", "needs-review", "saved", "failed", "discarded"}
        BY <1>1 DEF IInv, VoiceOK, VoiceType, Statuses
    <2>7. receipt \in [Commands -> {"none", "pending", "applied", "rejected", "conflict"}]
          /\ effects \in [Authors -> Nat]
        BY <1>1 DEF IInv, Typed, ReceiptType
    <2> QED  BY <2>1, <2>2, <2>3, <2>4, <2>5, <2>6, <2>7 DEF TypeOK, SetupTypeOK
<1> QED  BY Invariant, <1>1, PTL

(* Everybody is told the truth: a command whose receipt says applied took      *)
(* effect exactly once (or found its setup selected), any other took none,     *)
(* however often it was sent; and so for the answers to online requests.       *)
THEOREM ToldTheTruth == Spec => []OutcomesAreTrue
<1>1. ASSUME IInv  PROVE OutcomesAreTrue
    BY <1>1 DEF IInv, RequestOK, CommandOK, OutcomesAreTrue
<1> QED  BY Invariant, <1>1, PTL

(* One save creates one coherent snapshot: what was to be current is current at *)
(* once, a guarded copy holds what its source holds now, the selection is       *)
(* replaced by someone who saw it and a field by someone who saw its value.     *)
THEOREM SavesCohere == Spec => SavesAreCoherent
<1>1. IInv /\ [Next]_vars => [Coherent]_vars  BY NextKeeps
<1> QED  BY Invariant, <1>1, PTL DEF Spec, SavesAreCoherent, Coherent

(* What a note saves it saves once: its setup and its results come from one     *)
(* confirmation of one draft and are never replaced, and the note is marked     *)
(* saved only by a confirmation whose draft is what was saved or was empty, or  *)
(* by a discard that puts back the mark it had read.                            *)
THEOREM SavedOnceOnly == Spec => VoiceIsSavedOnce
<1>1. IInv /\ [Next]_vars => [SavedOnce]_vars  BY NextKeeps
<1> QED  BY Invariant, <1>1, PTL DEF Spec, VoiceIsSavedOnce, SavedOnce
=============================================================================
