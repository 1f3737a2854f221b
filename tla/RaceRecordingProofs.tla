------------------------- MODULE RaceRecordingProofs -------------------------
(***************************************************************************)
(* Theorems about the Race recording, for any number of requests, parts,  *)
(* recordings, claims and faults.                                          *)
(***************************************************************************)
EXTENDS RaceRecordingUpload, TLAPS

UploadSteps == {"insert", "abandon"}
PartSteps == {"claim", "check", "put", "release", "finalize"}
RemovalSteps == {"abort", "delete", "erase"}
Gone == {"deleting", "none"}
Steps == {"idle", "discard", "parts", "assemble", "head", "reset", "persist", "ensure"}
            \cup UploadSteps \cup PartSteps \cup RemovalSteps

CallType ==
    [at : Steps, recording : 0..MaxRecordings, status : Statuses, part : Parts \cup {0},
     had : PartRows, claim : Etags, mayReset : BOOLEAN, etags : [Parts -> Etags]]

StoreType == [upload : {"none", "open", "closed"}, parts : [Parts -> Etags], object : BOOLEAN]

RowTypes ==
    /\ video \in [Recordings -> Statuses]
    /\ part \in [Recordings -> [Parts -> PartRows]]
    /\ validation \in [Recordings -> Verdicts]
    /\ analysis \in [Recordings -> BOOLEAN]
    /\ store \in [Recordings -> StoreType]
    /\ workflow \in [Recordings -> {"none", "started", "loaded", "ready", "invalid", "errored", "ended"}]
    /\ opened \in 0..MaxRecordings /\ claims \in Etags /\ faults \in 0..MaxFaults

Typed == RowTypes /\ call \in [Callers -> CallType]

\* What a request m carries at the step it is at.
CallOK(m) ==
    /\ IF m.at = "idle" THEN m.recording = 0 ELSE m.recording \in Recordings /\ m.recording <= opened
    /\ m.at \in PartSteps => m.part \in Parts
    /\ m.at \in PartSteps \ {"claim"} => m.claim # 0
    /\ m.at = "assemble" => \A p \in Parts : m.etags[p] # 0
    /\ m.at = "discard" => m.status # "none"

\* What it may rely on, with the rows v and the storage s. Removal is one-way
\* and empties the storage step by step; a request that has seen the object
\* finds it unless the recording is removed.
StoreOK(m, v, s) ==
    /\ m.at \in RemovalSteps => v[m.recording] \in Gone
    /\ m.at \in {"delete", "erase"} => s[m.recording].upload = "closed"
    /\ m.at = "erase" => ~s[m.recording].object
    /\ m.at = "persist" => s[m.recording].object \/ v[m.recording] \in Gone

\* Whoever has opened an upload and not yet inserted its row is alone with it.
Alone(c) ==
    At(c, "insert") => /\ video[call[c].recording] = "none"
                       /\ \A d \in Callers \ {c} : call[d].recording # call[c].recording

\* Before a row is inserted nobody but its request knows of the upload.
Untouched(r) ==
    /\ \A p \in Parts : store[r].parts[p] = 0
    /\ \A d \in Callers : call[d].recording = r => call[d].at \in UploadSteps

\* Rows and storage of one recording.
RowsOK(r) ==
    /\ video[r] = "none" => ~store[r].object
    /\ video[r] = "validating" => store[r].object
    /\ store[r].object => \A p \in Parts : store[r].parts[p] # 0
    /\ analysis[r] => video[r] = "validating" /\ validation[r] = "ready"

RecordingInv(r) ==
    /\ RowsOK(r)
    /\ r > opened => video[r] = "none" /\ store[r].upload = "none"
    /\ video[r] = "none" /\ store[r].upload # "closed" => Untouched(r)

CallInv(c) == CallOK(call[c]) /\ StoreOK(call[c], video, store) /\ Alone(c)

IInv ==
    /\ Typed
    /\ \A c \in Callers : CallInv(c)
    /\ \A r \in Recordings : RecordingInv(r)

-----------------------------------------------------------------------------
(* What every step does to the one recording it is about.                  *)

\* The rows and the storage of recording q evolve; among others, those who
\* know of it besides the request that acts.
Evolves(q, others) ==
    /\ q \in Recordings /\ q <= opened
    /\ \A r \in Recordings \ {q} :
        /\ video'[r] = video[r] /\ store'[r] = store[r]
        /\ validation'[r] = validation[r] /\ analysis'[r] = analysis[r]
    /\ video[q] = "none" => video'[q] = "none" \/ \A d \in others : call[d].recording # q
    /\ video[q] = "deleting" => video'[q] \in Gone
    /\ store[q].upload = "closed" =>
        store'[q].upload = "closed" /\ (store'[q].object => store[q].object)
    /\ store[q].object => store'[q].object \/ video'[q] \in Gone
    /\ video'[q] = "none" /\ store'[q].upload # "closed" => video[q] = "none" /\ store'[q] = store[q]
    /\ RowsOK(q)'

\* The request c goes on as m.
Becomes(c, m) ==
    /\ m \in CallType
    /\ call' = [call EXCEPT ![c] = m]
    /\ CallOK(m) /\ m.at # "insert"
    /\ StoreOK(m, video', store')

\* It knows of a recording because it has a row or it knew of it before.
Knew(c, m) ==
    \/ m.recording = 0
    \/ video'[m.recording] # "none"
    \/ /\ m.recording = call[c].recording
       /\ call[c].at \in UploadSteps => m.at \in UploadSteps

\* What others rely on is not disturbed.
LEMMA OthersStoreOK ==
    ASSUME IInv, NEW c \in Callers, NEW q, Evolves(q, Callers \ {c}),
           NEW d \in Callers, d # c \/ Evolves(q, Callers)
    PROVE  StoreOK(call[d], video', store')
<1>1. CallOK(call[d]) /\ StoreOK(call[d], video, store)  BY DEF IInv, CallInv
<1>2. call[d].at \in RemovalSteps \cup {"persist"} => call[d].recording \in Recordings
    BY <1>1 DEF CallOK, RemovalSteps
<1>3. CASE call[d].recording = q
    BY <1>1, <1>2, <1>3 DEF StoreOK, Evolves, Gone, RemovalSteps
<1>4. CASE call[d].recording # q
    <2>1. CASE call[d].at \in RemovalSteps \cup {"persist"}
        <3>1. video'[call[d].recording] = video[call[d].recording]
              /\ store'[call[d].recording] = store[call[d].recording]
            BY <1>2, <1>4, <2>1 DEF Evolves
        <3> QED  BY <1>1, <3>1 DEF StoreOK
    <2>2. CASE call[d].at \notin RemovalSteps \cup {"persist"}
        BY <2>2 DEF StoreOK, RemovalSteps
    <2> QED  BY <2>1, <2>2
<1> QED  BY <1>3, <1>4

LEMMA OthersAlone ==
    ASSUME IInv, NEW c \in Callers, NEW m, Becomes(c, m), Knew(c, m),
           NEW q, Evolves(q, Callers \ {c}), NEW d \in Callers, d # c
    PROVE  Alone(d)'
<1> SUFFICES ASSUME At(d, "insert")'
             PROVE  /\ video'[call'[d].recording] = "none"
                    /\ \A e \in Callers \ {d} : call'[e].recording # call'[d].recording
    BY DEF Alone
<1>1. call' \in [Callers -> CallType] /\ call'[c] = m
      /\ \A e \in Callers \ {c} : call'[e] = call[e]
    BY DEF IInv, Typed, Becomes
<1>2. call'[d] = call[d] /\ At(d, "insert")  BY <1>1 DEF At
<1>3. Alone(d) /\ CallOK(call[d])  BY DEF IInv, CallInv
<1>4. call[d].recording \in Recordings /\ call[d].recording # 0
    BY <1>2, <1>3, UploadAssumption DEF CallOK, At, Recordings
<1>5. /\ video[call[d].recording] = "none"
      /\ \A e \in Callers \ {d} : call[e].recording # call[d].recording
    BY <1>2, <1>3 DEF Alone
<1>6. video'[call[d].recording] = "none"
    BY <1>4, <1>5 DEF Evolves
<1>7. m.recording # call[d].recording
    BY <1>4, <1>5, <1>6 DEF Knew
<1> QED  BY <1>1, <1>2, <1>5, <1>6, <1>7

LEMMA RecordingStep ==
    ASSUME IInv, NEW q, Evolves(q, {}), UNCHANGED opened, NEW r \in Recordings,
           \A d \in Callers : call'[d].recording = r =>
               \/ call'[d].at \in UploadSteps
               \/ video'[r] # "none"
               \/ call[d].recording = r /\ (call[d].at \in UploadSteps => call'[d].at \in UploadSteps)
    PROVE  RecordingInv(r)'
<1>1. RecordingInv(r)  BY DEF IInv
<1>2. RowsOK(r)'
    BY <1>1 DEF RecordingInv, RowsOK, Evolves
<1>3. (r > opened => video[r] = "none" /\ store[r].upload = "none")'
    <2>1. q <= opened /\ q \in Recordings /\ opened \in Nat  BY DEF Evolves, IInv, Typed, RowTypes
    <2>2. r > opened => r # q  BY <2>1, UploadAssumption DEF Recordings
    <2> QED  BY <1>1, <2>2 DEF RecordingInv, Evolves
<1>4. (video[r] = "none" /\ store[r].upload # "closed" => Untouched(r))'
    <2> SUFFICES ASSUME video'[r] = "none", store'[r].upload # "closed"  PROVE Untouched(r)'
        OBVIOUS
    <2>1. video[r] = "none" /\ store'[r] = store[r]
        BY DEF Evolves
    <2>2. Untouched(r)  BY <1>1, <2>1 DEF RecordingInv
    <2> QED  BY <2>1, <2>2 DEF Untouched
<1> QED  BY <1>2, <1>3, <1>4 DEF RecordingInv

\* A step of a request.
LEMMA RequestStep ==
    ASSUME IInv, NEW c \in Callers, NEW m, Becomes(c, m), Knew(c, m),
           NEW q, Evolves(q, Callers \ {c}), RowTypes', UNCHANGED opened
    PROVE  IInv'
<1>1. /\ call' \in [Callers -> CallType] /\ call'[c] = m
      /\ \A e \in Callers \ {c} : call'[e] = call[e]
    BY DEF IInv, Typed, Becomes
<1>2. Typed'  BY <1>1 DEF Typed
<1>3. ASSUME NEW d \in Callers  PROVE CallInv(d)'
    <2>1. CASE d = c
        <3>1. CallOK(call[d])'  BY <1>1, <2>1 DEF Becomes, CallOK
        <3>2. StoreOK(call[d], video, store)'  BY <1>1, <2>1 DEF Becomes, StoreOK
        <3>3. Alone(d)'  BY <1>1, <2>1 DEF Becomes, Alone, At
        <3> QED  BY <3>1, <3>2, <3>3 DEF CallInv
    <2>2. CASE d # c
        <3>1. call'[d] = call[d]  BY <1>1, <2>2
        <3>2. CallOK(call[d])  BY DEF IInv, CallInv
        <3>3. CallOK(call[d])'  BY <3>1, <3>2 DEF CallOK
        <3>4. StoreOK(call[d], video', store')  BY <2>2, OthersStoreOK
        <3>5. StoreOK(call[d], video, store)'  BY <3>1, <3>4 DEF StoreOK
        <3>6. Alone(d)'  BY <2>2, OthersAlone
        <3> QED  BY <3>3, <3>5, <3>6 DEF CallInv
    <2> QED  BY <2>1, <2>2
<1>4. ASSUME NEW r \in Recordings  PROVE RecordingInv(r)'
    <2>1. \A d \in Callers : call'[d].recording = r =>
               \/ call'[d].at \in UploadSteps
               \/ video'[r] # "none"
               \/ call[d].recording = r /\ (call[d].at \in UploadSteps => call'[d].at \in UploadSteps)
        BY <1>1, UploadAssumption DEF Knew, Recordings
    <2>2. CASE video[q] # "none" \/ video'[q] = "none"
        <3>1. Evolves(q, {})  BY <2>2 DEF Evolves
        <3> QED  BY <2>1, <3>1, RecordingStep
    <2>3. CASE video[q] = "none" /\ video'[q] # "none"
        <3>1. Evolves(q, {})  BY <2>3 DEF Evolves
        <3> QED  BY <2>1, <3>1, RecordingStep
    <2> QED  BY <2>2, <2>3
<1> QED  BY <1>2, <1>3, <1>4 DEF IInv

\* A step that no request takes.
LEMMA RowsStep ==
    ASSUME IInv, NEW q, Evolves(q, Callers), RowTypes', UNCHANGED <<opened, call>>
    PROVE  IInv'
<1>1. Typed'  BY DEF IInv, Typed
<1>2. ASSUME NEW d \in Callers  PROVE CallInv(d)'
    <2>1. CallOK(call[d]) /\ Alone(d)  BY DEF IInv, CallInv
    <2>2. CallOK(call[d])'  BY <2>1 DEF CallOK
    <2>3. Evolves(q, Callers \ {d})  BY DEF Evolves
    <2>4. StoreOK(call[d], video', store')  BY <2>3, OthersStoreOK
    <2>5. StoreOK(call[d], video, store)'  BY <2>4 DEF StoreOK
    <2>6. Alone(d)'
        <3> SUFFICES ASSUME At(d, "insert")  PROVE video'[call[d].recording] = "none"
            BY <2>1 DEF Alone, At
        <3>1. call[d].recording \in Recordings /\ video[call[d].recording] = "none"
            BY <2>1 DEF CallOK, At, Alone
        <3> QED  BY <3>1 DEF Evolves
    <2> QED  BY <2>2, <2>5, <2>6 DEF CallInv
<1>3. ASSUME NEW r \in Recordings  PROVE RecordingInv(r)'
    <2>1. Evolves(q, {})  BY DEF Evolves
    <2> QED  BY <2>1, RecordingStep
<1> QED  BY <1>1, <1>2, <1>3 DEF IInv

-----------------------------------------------------------------------------
(* How a request goes on.                                                  *)

LEMMA StepNames ==
    /\ UploadSteps \subseteq Steps /\ PartSteps \subseteq Steps /\ RemovalSteps \subseteq Steps
    /\ {"insert", "abandon", "claim", "check", "put", "release", "finalize", "abort", "delete", "erase",
        "idle", "discard", "parts", "assemble", "head", "reset", "persist", "ensure"} \subseteq Steps
BY DEF Steps, UploadSteps, PartSteps, RemovalSteps

LEMMA NoCallFacts ==
    /\ NoCall \in CallType /\ CallOK(NoCall)
    /\ NoCall.at = "idle" /\ NoCall.recording = 0 /\ NoCall.claim = 0 /\ NoCall.had = NoPart
    /\ \A v, s : StoreOK(NoCall, v, s)
    /\ NoPart \in PartRows
<1>1. NoPart \in PartRows  BY UploadAssumption DEF NoPart, PartRows, Etags
<1>2. NoCall \in CallType
    BY <1>1, StepNames, UploadAssumption DEF NoCall, CallType, Etags, Statuses
<1> QED
    BY <1>1, <1>2 DEF NoCall, CallOK, StoreOK, PartSteps, RemovalSteps

LEMMA GotoFacts ==
    ASSUME call \in [Callers -> CallType], NEW c \in Callers, NEW step \in Steps, Goto(c, step)
    PROVE  LET m == [call[c] EXCEPT !.at = step]
           IN  /\ m \in CallType /\ call' = [call EXCEPT ![c] = m]
               /\ m.at = step /\ m.recording = call[c].recording /\ m.part = call[c].part
               /\ m.claim = call[c].claim /\ m.etags = call[c].etags /\ m.had = call[c].had
<1>1. call[c] \in CallType  OBVIOUS
<1> QED  BY <1>1 DEF Goto, CallType

\* A request that is under way is about a recording that has been opened.
LEMMA AboutRecording ==
    ASSUME IInv, NEW c \in Callers, call[c].at # "idle"
    PROVE  call[c].recording \in Recordings /\ call[c].recording <= opened /\ call[c].recording # 0
BY UploadAssumption DEF IInv, CallInv, CallOK, Recordings

\* A recording with a row has been opened.
LEMMA RowIsOpened ==
    ASSUME IInv, NEW r \in Recordings, video[r] # "none"
    PROVE  r <= opened
BY UploadAssumption DEF IInv, RecordingInv, Typed, RowTypes, Recordings

LEMMA StillEvolves ==
    ASSUME IInv, NEW q \in Recordings, q <= opened, NEW others,
           UNCHANGED <<video, validation, analysis, store>>
    PROVE  Evolves(q, others)
<1>1. RowsOK(q) BY DEF IInv, RecordingInv
<1>2. RowsOK(q)' BY <1>1 DEF RowsOK
<1>3. RecordingInv(q) BY DEF IInv
<1> QED  BY <1>1, <1>2, <1>3 DEF Evolves, RecordingInv, Gone, RowsOK

\* A request that changes neither rows nor storage.
LEMMA ReadStep ==
    ASSUME IInv, NEW c \in Callers, NEW m \in CallType,
           call' = [call EXCEPT ![c] = m], CallOK(m), m.at # "insert",
           StoreOK(m, video, store),
           call[c].at # "idle" \/ m.at # "idle",
           \/ m.recording = 0
           \/ video[m.recording] # "none"
           \/ /\ m.recording = call[c].recording
              /\ call[c].at \in UploadSteps => m.at \in UploadSteps,
           UNCHANGED <<video, validation, analysis, store, opened>>, RowTypes'
    PROVE  IInv'
<1>1. Becomes(c, m) /\ Knew(c, m)  BY DEF Becomes, Knew, StoreOK
<1>2. PICK q \in Recordings : q <= opened
    BY AboutRecording DEF CallOK
<1>3. Evolves(q, Callers \ {c})  BY <1>2, StillEvolves
<1> QED  BY <1>1, <1>3, RequestStep

LEMMA RowTypesStay ==
    ASSUME IInv, UNCHANGED <<rows, store, opened>>,
           claims' \in Etags, faults' \in 0..MaxFaults, workflow' = workflow
    PROVE  RowTypes'
BY DEF IInv, Typed, RowTypes, rows

LEMMA FaultType ==
    ASSUME IInv, Fault
    PROVE  faults' \in 0..MaxFaults
BY UploadAssumption DEF IInv, Typed, RowTypes, Fault

LEMMA TypesNow ==
    ASSUME IInv
    PROVE  RowTypes /\ call \in [Callers -> CallType] /\ \A c \in Callers : call[c] \in CallType /\ CallOK(call[c])
BY DEF IInv, Typed, CallInv

-----------------------------------------------------------------------------
(* The steps of a request that only read.                                  *)

LEMMA StopStep ==
    ASSUME IInv, NEW c \in Callers, Stop(c)  PROVE IInv'
<1>1. call' = [call EXCEPT ![c] = NoCall]  BY DEF Stop, Done
<1>2. RowTypes'  BY RowTypesStay, FaultType, TypesNow DEF Stop, rows, media, RowTypes
<1> QED  BY <1>1, <1>2, ReadStep, NoCallFacts DEF Stop, At, rows, media

LEMMA InsertRefusedStep ==
    ASSUME IInv, NEW c \in Callers, InsertRefused(c)  PROVE IInv'
<1> DEFINE m == [call[c] EXCEPT !.at = "abandon"]
<1>1. /\ m \in CallType /\ call' = [call EXCEPT ![c] = m]
      /\ m.at = "abandon" /\ m.recording = call[c].recording
    BY GotoFacts, StepNames, TypesNow DEF InsertRefused
<1>2. RowTypes'  BY RowTypesStay, FaultType, TypesNow DEF InsertRefused, rows, media, RowTypes
<1>3. call[c].at = "insert"  BY DEF InsertRefused, At
<1>4. CallOK(m) /\ StoreOK(m, video, store)
    BY <1>1, <1>3, TypesNow DEF CallOK, StoreOK, PartSteps, RemovalSteps
<1> HIDE DEF m
<1> QED  BY <1>1, <1>2, <1>3, <1>4, ReadStep DEF InsertRefused, rows, media, UploadSteps

LEMMA BeginPartStep ==
    ASSUME IInv, NEW c \in Callers, NEW r \in Recordings, NEW p \in Parts, BeginPart(c, r, p)  PROVE IInv'
<1> DEFINE m == [NoCall EXCEPT !.at = "claim", !.recording = r, !.part = p, !.had = part[r][p]]
<1>1. part[r][p] \in PartRows  BY TypesNow DEF RowTypes
<1>2. /\ m \in CallType /\ m.at = "claim" /\ m.recording = r /\ m.part = p
    <2>1. r \in 0..MaxRecordings /\ "claim" \in Steps /\ p \in Parts \cup {0} /\ NoCall \in CallType
        BY NoCallFacts, StepNames, UploadAssumption DEF Recordings
    <2>2. m \in CallType  BY <1>1, <2>1 DEF CallType
    <2> QED  BY <2>1, <2>2 DEF CallType
<1>3. call' = [call EXCEPT ![c] = m]  BY DEF BeginPart
<1>4. RowTypes'  BY RowTypesStay, TypesNow DEF BeginPart, rows, media, RowTypes
<1>5. video[r] = "uploading" /\ r <= opened  BY RowIsOpened DEF BeginPart
<1>6. CallOK(m) /\ StoreOK(m, video, store)
    BY <1>2, <1>5 DEF CallOK, StoreOK, PartSteps, RemovalSteps
<1> HIDE DEF m
<1> QED  BY <1>2, <1>3, <1>4, <1>5, <1>6, ReadStep DEF BeginPart, rows, media

LEMMA ClaimRefusedStep ==
    ASSUME IInv, NEW c \in Callers, ClaimRefused(c)  PROVE IInv'
<1>1. call' = [call EXCEPT ![c] = NoCall]  BY DEF ClaimRefused, Done
<1>2. RowTypes'  BY RowTypesStay, TypesNow DEF ClaimRefused, rows, media, RowTypes
<1> QED  BY <1>1, <1>2, ReadStep, NoCallFacts DEF ClaimRefused, At, rows, media

LEMMA CheckParentStep ==
    ASSUME IInv, NEW c \in Callers, CheckParent(c)  PROVE IInv'
<1> PICK step \in {"put", "release"} : Goto(c, step)
    BY DEF CheckParent
<1> DEFINE m == [call[c] EXCEPT !.at = step]
<1>1. /\ m \in CallType /\ call' = [call EXCEPT ![c] = m]
      /\ m.at = step /\ m.recording = call[c].recording /\ m.part = call[c].part /\ m.claim = call[c].claim
    BY GotoFacts, StepNames, TypesNow
<1>2. RowTypes'  BY RowTypesStay, TypesNow DEF CheckParent, rows, media, RowTypes
<1>3. call[c].at = "check"  BY DEF CheckParent, At
<1>4. CallOK(m) /\ StoreOK(m, video, store)
    BY <1>1, <1>3, TypesNow DEF CallOK, StoreOK, PartSteps, RemovalSteps
<1> HIDE DEF m
<1> QED  BY <1>1, <1>2, <1>3, <1>4, ReadStep DEF CheckParent, rows, media, UploadSteps

LEMMA PutRefusedStep ==
    ASSUME IInv, NEW c \in Callers, PutRefused(c)  PROVE IInv'
<1> DEFINE m == [call[c] EXCEPT !.at = "release"]
<1>1. /\ m \in CallType /\ call' = [call EXCEPT ![c] = m]
      /\ m.at = "release" /\ m.recording = call[c].recording /\ m.part = call[c].part /\ m.claim = call[c].claim
    BY GotoFacts, StepNames, TypesNow DEF PutRefused
<1>2. RowTypes'  BY RowTypesStay, FaultType, TypesNow DEF PutRefused, rows, media, RowTypes
<1>3. call[c].at = "put"  BY DEF PutRefused, At
<1>4. CallOK(m) /\ StoreOK(m, video, store)
    BY <1>1, <1>3, TypesNow DEF CallOK, StoreOK, PartSteps, RemovalSteps
<1> HIDE DEF m
<1> QED  BY <1>1, <1>2, <1>3, <1>4, ReadStep DEF PutRefused, rows, media, UploadSteps

LEMMA ReadPartsStep ==
    ASSUME IInv, NEW c \in Callers, ReadParts(c)  PROVE IInv'
<1> DEFINE r == call[c].recording
<1>1. call[c].at = "parts" /\ UNCHANGED <<video, validation, analysis, store, opened>>
    BY DEF ReadParts, At, rows, media
<1>2. RowTypes'  BY RowTypesStay, TypesNow DEF ReadParts, rows, media, RowTypes
<1>3. r \in Recordings /\ r <= opened  BY <1>1, AboutRecording
<1>4. CASE AllUploaded(r)
    <2> DEFINE m == [call[c] EXCEPT !.at = "assemble", !.etags = [p \in Parts |-> part[r][p].etag]]
    <2>1. \A p \in Parts : part[r][p].etag \in Etags \ {0}
        BY <1>3, <1>4, TypesNow DEF AllUploaded, RowTypes, PartRows
    <2>2. /\ m \in CallType /\ m.at = "assemble" /\ m.recording = r
          /\ \A p \in Parts : m.etags[p] # 0
        BY <2>1, StepNames, TypesNow DEF CallType
    <2>3. call' = [call EXCEPT ![c] = m]  BY <1>4, TypesNow DEF ReadParts
    <2>4. CallOK(m) /\ StoreOK(m, video, store)
        BY <2>2, <1>3 DEF CallOK, StoreOK, PartSteps, RemovalSteps
    <2> HIDE DEF m
    <2> QED  BY <1>1, <1>2, <2>2, <2>3, <2>4, ReadStep DEF UploadSteps
<1>5. CASE ~AllUploaded(r)
    <2> DEFINE m == [call[c] EXCEPT !.at = "reset"]
    <2>1. /\ m \in CallType /\ call' = [call EXCEPT ![c] = m] /\ m.at = "reset" /\ m.recording = r
        BY <1>5, GotoFacts, StepNames, TypesNow DEF ReadParts
    <2>2. CallOK(m) /\ StoreOK(m, video, store)
        BY <2>1, <1>3 DEF CallOK, StoreOK, PartSteps, RemovalSteps
    <2> HIDE DEF m
    <2> QED  BY <1>1, <1>2, <2>1, <2>2, ReadStep DEF UploadSteps
<1> QED  BY <1>4, <1>5

LEMMA AnsweredFacts ==
    ASSUME IInv, NEW c \in Callers, call[c].at = "assemble", NEW step \in {"persist", "head"}, Answered(c, step)
    PROVE  LET m == [call[c] EXCEPT !.at = step, !.etags = NoCall.etags]
           IN  /\ m \in CallType /\ call' = [call EXCEPT ![c] = m]
               /\ m.at = step /\ m.recording = call[c].recording /\ CallOK(m)
<1> DEFINE m == [call[c] EXCEPT !.at = step, !.etags = NoCall.etags]
<1>1. NoCall.etags \in [Parts -> Etags]  BY NoCallFacts DEF CallType
<1>2. /\ m \in CallType /\ call' = [call EXCEPT ![c] = m]
      /\ m.at = step /\ m.recording = call[c].recording
    BY <1>1, StepNames, TypesNow DEF Answered, CallType
<1>3. CallOK(m)
    BY <1>2, TypesNow DEF CallOK, PartSteps
<1> QED  BY <1>2, <1>3

LEMMA AssembleRefusedStep ==
    ASSUME IInv, NEW c \in Callers, AssembleRefused(c)  PROVE IInv'
<1> DEFINE m == [call[c] EXCEPT !.at = "head", !.etags = NoCall.etags]
<1>1. call[c].at = "assemble"  BY DEF AssembleRefused, At
<1>2. /\ m \in CallType /\ call' = [call EXCEPT ![c] = m]
      /\ m.at = "head" /\ m.recording = call[c].recording /\ CallOK(m)
    BY <1>1, AnsweredFacts DEF AssembleRefused
<1>3. RowTypes'  BY RowTypesStay, FaultType, TypesNow DEF AssembleRefused, rows, media, RowTypes
<1>4. StoreOK(m, video, store)
    BY <1>2 DEF StoreOK, RemovalSteps
<1> HIDE DEF m
<1> QED  BY <1>1, <1>2, <1>3, <1>4, ReadStep DEF AssembleRefused, rows, media, UploadSteps

LEMMA HeadStep ==
    ASSUME IInv, NEW c \in Callers, Head(c)  PROVE IInv'
<1>1. call[c].at = "head"  BY DEF Head, At
<1>2. PICK step \in {"persist", "reset"} :
        Goto(c, step) /\ (step = "persist" => store[call[c].recording].object)
    BY DEF Head
<1> DEFINE m == [call[c] EXCEPT !.at = step]
<1>3. /\ m \in CallType /\ call' = [call EXCEPT ![c] = m]
      /\ m.at = step /\ m.recording = call[c].recording
    BY <1>2, GotoFacts, StepNames, TypesNow
<1>4. RowTypes'  BY RowTypesStay, FaultType, TypesNow DEF Head, rows, media, RowTypes
<1>5. CallOK(m)  BY <1>1, <1>3, TypesNow DEF CallOK, PartSteps
<1>6. StoreOK(m, video, store)  BY <1>2, <1>3 DEF StoreOK, RemovalSteps
<1> HIDE DEF m
<1> QED  BY <1>1, <1>3, <1>4, <1>5, <1>6, ReadStep DEF Head, rows, media, UploadSteps

LEMMA EnsureValidationStep ==
    ASSUME IInv, NEW c \in Callers, EnsureValidation(c)  PROVE IInv'
<1>1. call' = [call EXCEPT ![c] = NoCall]  BY DEF EnsureValidation, Done
<1>2. RowTypes'  BY TypesNow DEF EnsureValidation, rows, media, RowTypes
<1> QED  BY <1>1, <1>2, ReadStep, NoCallFacts DEF EnsureValidation, At, rows, media

\* Removal begins with what the request has read of the row.
LEMMA BeginDiscardStep ==
    ASSUME IInv, NEW c \in Callers, NEW r \in Recordings, video[r] # "none",
           BeginDiscard(c, r), RowTypes',
           UNCHANGED <<video, validation, analysis, store, opened>>
    PROVE  IInv'
<1> PICK step \in {"abort", "discard"} :
        /\ step = "abort" => video[r] = "deleting"
        /\ call' = [call EXCEPT ![c] = [NoCall EXCEPT !.at = step, !.recording = r, !.status = video[r]]]
    BY DEF BeginDiscard
<1> DEFINE m == [NoCall EXCEPT !.at = step, !.recording = r, !.status = video[r]]
<1>1. video[r] \in Statuses  BY TypesNow DEF RowTypes
<1>2. /\ m \in CallType /\ call' = [call EXCEPT ![c] = m] /\ m.at = step /\ m.recording = r
    <2>1. r \in 0..MaxRecordings /\ step \in Steps /\ NoCall \in CallType
        BY NoCallFacts, StepNames, UploadAssumption DEF Recordings
    <2>2. m \in CallType  BY <1>1, <2>1 DEF CallType
    <2> QED  BY <2>1, <2>2 DEF CallType
<1>3. CallOK(m) /\ StoreOK(m, video, store)
    BY <1>2, RowIsOpened DEF CallOK, StoreOK, PartSteps, RemovalSteps, Gone
<1> HIDE DEF m
<1> QED  BY <1>2, <1>3, ReadStep

LEMMA BeginRemoveStep ==
    ASSUME IInv, NEW c \in Callers, NEW r \in Recordings, BeginRemove(c, r)  PROVE IInv'
<1>1. RowTypes'  BY RowTypesStay, TypesNow DEF BeginRemove, rows, media, RowTypes
<1> QED  BY <1>1, BeginDiscardStep DEF BeginRemove, rows, media

LEMMA AbandonUploadStep ==
    ASSUME IInv, NEW c \in Callers, AbandonUpload(c)  PROVE IInv'
<1> PICK q \in Recordings : q = call[c].recording  BY AboutRecording DEF AbandonUpload, At
<1>1. call' = [call EXCEPT ![c] = NoCall]  BY DEF AbandonUpload, Done
<1>2. /\ q <= opened
      /\ store' = [store EXCEPT ![q].upload = "closed"]
      /\ UNCHANGED <<video, part, validation, analysis, opened, workflow, claims, faults>>
    BY AboutRecording DEF AbandonUpload, At, rows
<1>3. store' \in [Recordings -> StoreType]
    BY <1>2, TypesNow DEF RowTypes, StoreType
<1>4. RowTypes'  BY <1>2, <1>3, TypesNow DEF RowTypes
<1>5. /\ \A r \in Recordings \ {q} : store'[r] = store[r]
      /\ store'[q].upload = "closed" /\ store'[q].object = store[q].object /\ store'[q].parts = store[q].parts
    BY <1>2, TypesNow DEF RowTypes, StoreType
<1>6. RowsOK(q)'  BY <1>2, <1>5 DEF IInv, RecordingInv, RowsOK
<1>7. Evolves(q, Callers \ {c})  BY <1>2, <1>5, <1>6 DEF Evolves, Gone
<1>8. Becomes(c, NoCall) /\ Knew(c, NoCall)  BY <1>1, NoCallFacts DEF Becomes, Knew
<1> QED  BY <1>2, <1>4, <1>7, <1>8, RequestStep

LEMMA InsertVideoStep ==
    ASSUME IInv, NEW c \in Callers, InsertVideo(c)  PROVE IInv'
<1> PICK q \in Recordings : q = call[c].recording  BY AboutRecording DEF InsertVideo, At
<1>1. /\ call[c].at = "insert"
      /\ q <= opened /\ video[q] = "none"
      /\ \A d \in Callers \ {c} : call[d].recording # q
    BY AboutRecording DEF InsertVideo, At, IInv, CallInv, Alone
<1>2. /\ video' = [video EXCEPT ![q] = "uploading"]
      /\ UNCHANGED <<part, validation, analysis, store, opened, workflow, claims>>
      /\ Done(c) \/ Goto(c, "abandon")
    BY DEF InsertVideo, media
<1>3. faults' \in 0..MaxFaults  BY FaultType, TypesNow DEF InsertVideo, RowTypes
<1>4. PICK m \in CallType :
        /\ call' = [call EXCEPT ![c] = m]
        /\ CallOK(m) /\ m.at \in {"idle", "abandon"} /\ m.recording \in {0, q}
    <2>1. CASE Done(c)  BY <2>1, NoCallFacts DEF Done
    <2>2. CASE Goto(c, "abandon")
        <3> DEFINE m == [call[c] EXCEPT !.at = "abandon"]
        <3>1. /\ m \in CallType /\ call' = [call EXCEPT ![c] = m] /\ m.at = "abandon" /\ m.recording = q
            BY <2>2, GotoFacts, StepNames, TypesNow
        <3> HIDE DEF m
        <3>2. CallOK(m)  BY <3>1, <1>1 DEF CallOK, PartSteps
        <3> QED  BY <3>1, <3>2
    <2> QED  BY <1>2, <2>1, <2>2
<1>5. video' \in [Recordings -> Statuses] /\ video'[q] = "uploading"
      /\ \A r \in Recordings \ {q} : video'[r] = video[r]
    BY <1>1, <1>2, TypesNow DEF RowTypes, Statuses
<1>6. RowTypes'  BY <1>2, <1>3, <1>5, TypesNow DEF RowTypes
<1>7. RowsOK(q) BY <1>1 DEF IInv, RecordingInv
<1>8. RowsOK(q)' BY <1>7, <1>1, <1>2, <1>5 DEF RowsOK
<1>9. Evolves(q, Callers \ {c})
    BY <1>1, <1>2, <1>5, <1>7, <1>8 DEF Evolves
<1>10. Becomes(c, m)  BY <1>4 DEF Becomes, StoreOK, RemovalSteps
<1>11. Knew(c, m)  BY <1>4, <1>5 DEF Knew
<1> QED  BY <1>2, <1>6, <1>9, <1>10, <1>11, RequestStep

LEMMA ClaimPartStep ==
    ASSUME IInv, NEW c \in Callers, ClaimPart(c)  PROVE IInv'
<1> DEFINE r == call[c].recording
           p == call[c].part
           had == IF call[c].had.status = "uploaded" THEN call[c].had ELSE NoPart
           m == [call[c] EXCEPT !.at = "check", !.claim = claims + 1, !.had = had]
<1>1. call[c].at = "claim"  BY DEF ClaimPart, At
<1>2. r \in Recordings /\ p \in Parts  BY <1>1, AboutRecording, TypesNow DEF CallOK, PartSteps
<1>3. claims + 1 \in Etags /\ claims + 1 # 0
    BY UploadAssumption, TypesNow DEF ClaimPart, RowTypes, Etags
<1>4. had \in PartRows  BY NoCallFacts, TypesNow DEF CallType
<1>5. call' = [call EXCEPT ![c] = m]  BY TypesNow DEF ClaimPart, CallType
<1> HIDE DEF had
<1>6. /\ m \in CallType /\ m.at = "check" /\ m.recording = r /\ m.part = p /\ m.claim = claims + 1
    BY <1>3, <1>4, StepNames, TypesNow DEF CallType
<1> HIDE DEF m
<1>7. CallOK(m) /\ StoreOK(m, video, store)
    BY <1>1, <1>2, <1>3, <1>6, AboutRecording DEF CallOK, StoreOK, PartSteps, RemovalSteps
<1>8. part' = [part EXCEPT ![r][p].status = "uploading", ![r][p].claim = claims + 1]
    BY DEF ClaimPart
<1>9. part' \in [Recordings -> [Parts -> PartRows]]
    <2>1. part[r][p] \in PartRows /\ part \in [Recordings -> [Parts -> PartRows]]
        BY <1>2, TypesNow DEF RowTypes
    <2> DEFINE row == [part[r][p] EXCEPT !.status = "uploading", !.claim = claims + 1]
    <2>2. row \in PartRows  BY <2>1, <1>3 DEF PartRows
    <2>3. part' = [part EXCEPT ![r] = [part[r] EXCEPT ![p] = row]]
        BY <1>2, <1>8, <2>1 DEF PartRows
    <2> HIDE DEF row
    <2> QED  BY <1>2, <2>1, <2>2, <2>3
<1>10. RowTypes'  BY <1>3, <1>9, TypesNow DEF RowTypes, ClaimPart, media
<1> QED  BY <1>1, <1>5, <1>6, <1>7, <1>10, ReadStep DEF ClaimPart, media, UploadSteps

\* What an upload of a part writes into its row.
LEMMA PartRowWritten ==
    ASSUME IInv, NEW c \in Callers, call[c].at \in {"release", "finalize"}, NEW row \in PartRows,
           part' \in {part, [part EXCEPT ![call[c].recording][call[c].part] = row]}
    PROVE  part' \in [Recordings -> [Parts -> PartRows]]
<1> DEFINE r == call[c].recording
           p == call[c].part
<1>1. r \in Recordings /\ p \in Parts  BY AboutRecording, TypesNow DEF CallOK, PartSteps
<1>2. part \in [Recordings -> [Parts -> PartRows]]  BY TypesNow DEF RowTypes
<1>3. part' \in {part, [part EXCEPT ![r][p] = row]} OBVIOUS
<1> HIDE DEF r, p
<1> QED  BY <1>1, <1>2, <1>3

LEMMA ReleasePartClaimStep ==
    ASSUME IInv, NEW c \in Callers, ReleasePartClaim(c)  PROVE IInv'
<1>1. call' = [call EXCEPT ![c] = NoCall] /\ call[c].at = "release"  BY DEF ReleasePartClaim, Done, At
<1>2. call[c].had \in PartRows  BY TypesNow DEF CallType
<1>3. part' \in [Recordings -> [Parts -> PartRows]]
    BY <1>1, <1>2, PartRowWritten DEF ReleasePartClaim
<1>4. RowTypes'  BY <1>3, TypesNow DEF ReleasePartClaim, media, RowTypes
<1> QED  BY <1>1, <1>4, ReadStep, NoCallFacts DEF ReleasePartClaim, media

LEMMA FinalizePartStep ==
    ASSUME IInv, NEW c \in Callers, FinalizePart(c)  PROVE IInv'
<1>1. call' = [call EXCEPT ![c] = NoCall] /\ call[c].at = "finalize"  BY DEF FinalizePart, Done, At
<1>2. Recorded(call[c].claim) \in PartRows /\ Recoverable \in PartRows
    <2>1. call[c].claim \in Etags \ {0}
        BY <1>1, TypesNow DEF CallType, CallOK, PartSteps
    <2> QED  BY <2>1, UploadAssumption DEF Recorded, Recoverable, PartRows, NoPart, Etags
<1>3. part' \in [Recordings -> [Parts -> PartRows]]
    BY <1>1, <1>2, PartRowWritten DEF FinalizePart
<1>4. faults' \in 0..MaxFaults  BY FaultType, TypesNow DEF FinalizePart, RowTypes
<1>5. RowTypes'  BY <1>3, <1>4, TypesNow DEF FinalizePart, media, RowTypes
<1> QED  BY <1>1, <1>5, ReadStep, NoCallFacts DEF FinalizePart, media

LEMMA PutPartStep ==
    ASSUME IInv, NEW c \in Callers, PutPart(c)  PROVE IInv'
<1> PICK q \in Recordings : q = call[c].recording  BY AboutRecording DEF PutPart, At
<1> DEFINE p == call[c].part
           k == call[c].claim
<1>1. /\ call[c].at = "put" /\ q <= opened /\ p \in Parts
      /\ k \in Etags /\ k # 0
    BY AboutRecording, TypesNow DEF PutPart, At, CallOK, PartSteps, CallType
<1>2. /\ store' = [store EXCEPT ![q].parts[p] = k] /\ store[q].upload = "open"
      /\ UNCHANGED <<video, part, validation, analysis, opened, workflow, claims>>
    BY DEF PutPart, rows
<1>3. faults' \in 0..MaxFaults  BY FaultType, TypesNow DEF PutPart, RowTypes
<1>4. PICK m \in CallType :
        /\ call' = [call EXCEPT ![c] = m]
        /\ CallOK(m) /\ m.at \in {"finalize", "release"} /\ m.recording = q
    <2>1. CASE call' = [call EXCEPT ![c].at = "finalize", ![c].had = NoPart]
        <3> DEFINE m == [call[c] EXCEPT !.at = "finalize", !.had = NoPart]
        <3>1. m \in CallType /\ call' = [call EXCEPT ![c] = m] /\ m.at = "finalize" /\ m.recording = q
              /\ m.part = p /\ m.claim = k
            BY <2>1, NoCallFacts, StepNames, TypesNow DEF CallType
        <3> HIDE DEF m
        <3>2. CallOK(m)  BY <3>1, <1>1 DEF CallOK, PartSteps
        <3> QED  BY <3>1, <3>2
    <2>2. CASE Goto(c, "release")
        <3> DEFINE m == [call[c] EXCEPT !.at = "release"]
        <3>1. m \in CallType /\ call' = [call EXCEPT ![c] = m] /\ m.at = "release" /\ m.recording = q
              /\ m.part = p /\ m.claim = k
            BY <2>2, GotoFacts, StepNames, TypesNow
        <3> HIDE DEF m
        <3>2. CallOK(m)  BY <3>1, <1>1 DEF CallOK, PartSteps
        <3> QED  BY <3>1, <3>2
    <2> QED  BY <2>1, <2>2 DEF PutPart
<1>5. RecordingInv(q) /\ store \in [Recordings -> StoreType]
    BY <1>1, TypesNow DEF IInv, RowTypes
<1>6. video[q] # "none"
    BY <1>1, <1>2, <1>5 DEF RecordingInv, Untouched, UploadSteps
<1> HIDE DEF p, k
<1>7. /\ store' \in [Recordings -> StoreType]
      /\ \A r \in Recordings \ {q} : store'[r] = store[r]
      /\ store'[q].upload = "open" /\ store'[q].object = store[q].object
      /\ store'[q].parts = [store[q].parts EXCEPT ![p] = k]
    BY <1>1, <1>2, <1>5 DEF StoreType
<1>8. RowTypes'  BY <1>2, <1>3, <1>7, TypesNow DEF RowTypes
<1>9. store[q].parts \in [Parts -> Etags]  BY <1>1, <1>5 DEF StoreType
<1>10. RowsOK(q)'  BY <1>1, <1>2, <1>5, <1>7, <1>9 DEF RecordingInv, RowsOK
<1>11. Evolves(q, Callers \ {c})  BY <1>1, <1>2, <1>6, <1>7, <1>10 DEF Evolves, Gone
<1>12. Becomes(c, m) /\ Knew(c, m)  BY <1>4, <1>2, <1>6 DEF Becomes, Knew, StoreOK, RemovalSteps
<1> QED  BY <1>2, <1>8, <1>11, <1>12, RequestStep

LEMMA AssembleStep ==
    ASSUME IInv, NEW c \in Callers, Assemble(c)  PROVE IInv'
<1> PICK q \in Recordings : q = call[c].recording  BY AboutRecording DEF Assemble, At
<1>1. call[c].at = "assemble" /\ q <= opened
    BY AboutRecording DEF Assemble, At
<1>2. /\ store' = [store EXCEPT ![q].upload = "closed", ![q].object = TRUE]
      /\ store[q].upload = "open"
      /\ UNCHANGED <<video, part, validation, analysis, opened, workflow, claims>>
    BY DEF Assemble, rows
<1>3. \A p \in Parts : store[q].parts[p] # 0
    BY <1>1, TypesNow DEF Assemble, CallOK
<1>4. faults' \in 0..MaxFaults  BY FaultType, TypesNow DEF Assemble, RowTypes
<1>5. RecordingInv(q) /\ store \in [Recordings -> StoreType]
    BY <1>1, TypesNow DEF IInv, RowTypes
<1>6. video[q] # "none"
    BY <1>1, <1>2, <1>5 DEF RecordingInv, Untouched, UploadSteps
<1>7. /\ store' \in [Recordings -> StoreType]
      /\ \A r \in Recordings \ {q} : store'[r] = store[r]
      /\ store'[q].upload = "closed" /\ store'[q].object /\ store'[q].parts = store[q].parts
    BY <1>2, <1>5 DEF StoreType
<1>8. RowTypes'  BY <1>2, <1>4, <1>7, TypesNow DEF RowTypes
<1>9. RowsOK(q)'  BY <1>2, <1>3, <1>5, <1>6, <1>7 DEF RecordingInv, RowsOK
<1>10. Evolves(q, Callers \ {c})  BY <1>1, <1>2, <1>6, <1>7, <1>9 DEF Evolves, Gone
<1>11. PICK step \in {"persist", "head"} : Answered(c, step)  BY DEF Assemble
<1> DEFINE m == [call[c] EXCEPT !.at = step, !.etags = NoCall.etags]
<1>12. /\ m \in CallType /\ call' = [call EXCEPT ![c] = m]
       /\ m.at = step /\ m.recording = call[c].recording /\ CallOK(m)
    BY <1>1, <1>11, AnsweredFacts
<1> HIDE DEF m
<1>13. Becomes(c, m) /\ Knew(c, m)
    BY <1>2, <1>6, <1>7, <1>12 DEF Becomes, Knew, StoreOK, RemovalSteps
<1> QED  BY <1>2, <1>8, <1>10, <1>13, RequestStep

LEMMA ResetStep ==
    ASSUME IInv, NEW c \in Callers, Reset(c)  PROVE IInv'
<1> PICK q \in Recordings : q = call[c].recording  BY AboutRecording DEF Reset, At
<1>1. call' = [call EXCEPT ![c] = NoCall] /\ call[c].at = "reset" /\ q <= opened
    BY AboutRecording DEF Reset, Done, At
<1>2. UNCHANGED <<part, validation, analysis, store, opened, workflow, claims, faults>>
    BY DEF Reset, media
<1>3. /\ video' \in [Recordings -> Statuses]
      /\ \A r \in Recordings \ {q} : video'[r] = video[r]
      /\ video'[q] = video[q] \/ (video[q] = "completing" /\ video'[q] = "uploading")
    <2>1. video \in [Recordings -> Statuses] /\ "uploading" \in Statuses
        BY TypesNow DEF RowTypes, Statuses
    <2>2. video' \in {video, [video EXCEPT ![q] = "uploading"]} /\ (video' # video => video[q] = "completing")
        BY DEF Reset, Resettable
    <2>3. CASE UNCHANGED video  BY <2>1, <2>3
    <2>4. CASE ~UNCHANGED video
        <3>1. video' = [video EXCEPT ![q] = "uploading"] /\ video[q] = "completing"  BY <2>2, <2>4
        <3> QED  BY <2>1, <3>1
    <2> QED  BY <2>3, <2>4
<1>4. RowTypes'  BY <1>2, <1>3, TypesNow DEF RowTypes
<1>5. RecordingInv(q)  BY DEF IInv
<1>6. RowsOK(q)'  BY <1>2, <1>3, <1>5 DEF RecordingInv, RowsOK
<1>7. Evolves(q, Callers \ {c})  BY <1>1, <1>2, <1>3, <1>6 DEF Evolves, Gone
<1>8. Becomes(c, NoCall) /\ Knew(c, NoCall)  BY <1>1, NoCallFacts DEF Becomes, Knew
<1> QED  BY <1>2, <1>4, <1>7, <1>8, RequestStep

LEMMA PersistStep ==
    ASSUME IInv, NEW c \in Callers, Persist(c)  PROVE IInv'
<1> PICK q \in Recordings : q = call[c].recording  BY AboutRecording DEF Persist, At
<1>1. call[c].at = "persist" /\ q <= opened
    BY AboutRecording DEF Persist, At
<1>2. UNCHANGED <<part, analysis, store, opened, workflow, claims, faults>>
    BY DEF Persist, media
<1>3. /\ video' \in [Recordings -> Statuses] /\ validation' \in [Recordings -> Verdicts]
      /\ \A r \in Recordings \ {q} : video'[r] = video[r] /\ validation'[r] = validation[r]
      /\ \/ video'[q] = video[q] /\ validation'[q] = validation[q]
         \/ video[q] = "completing" /\ video'[q] = "validating"
    <2>1. video \in [Recordings -> Statuses] /\ validation \in [Recordings -> Verdicts]
        BY TypesNow DEF RowTypes
    <2>2. CASE UNCHANGED <<video, validation>>  BY <2>1, <2>2
    <2>3. CASE ~UNCHANGED <<video, validation>>
        <3>1. PICK verdict \in Verdicts :
                /\ video' = [video EXCEPT ![q] = "validating"]
                /\ validation' = [validation EXCEPT ![q] = verdict]
                /\ video[q] = "completing"
            <4>1. /\ video' = [video EXCEPT ![q] = "validating"] /\ video[q] = "completing"
                  /\ validation' = [validation EXCEPT ![q] = IF validation[q] = "none" THEN "pending" ELSE validation[q]]
                BY <2>3 DEF Persist
            <4> QED  BY <2>1, <4>1 DEF Verdicts
        <3>2. "validating" \in Statuses  BY DEF Statuses
        <3> QED  BY <2>1, <3>1, <3>2
    <2> QED  BY <2>2, <2>3
<1>4. RowTypes'  BY <1>2, <1>3, TypesNow DEF RowTypes
<1>5. RecordingInv(q) /\ StoreOK(call[c], video, store)  BY DEF IInv, CallInv
<1>6. RowsOK(q)'  BY <1>1, <1>2, <1>3, <1>5 DEF RecordingInv, RowsOK, StoreOK, Gone
<1>7. Evolves(q, Callers \ {c})  BY <1>1, <1>2, <1>3, <1>5, <1>6 DEF Evolves, Gone, RecordingInv
<1>8. CASE Done(c)
    <2>1. Becomes(c, NoCall) /\ Knew(c, NoCall)  BY <1>8, NoCallFacts DEF Done, Becomes, Knew
    <2> QED  BY <1>2, <1>4, <1>7, <2>1, RequestStep
<1>9. CASE Goto(c, "ensure")
    <2> DEFINE m == [call[c] EXCEPT !.at = "ensure"]
    <2>1. m \in CallType /\ call' = [call EXCEPT ![c] = m] /\ m.at = "ensure" /\ m.recording = call[c].recording
        BY <1>9, GotoFacts, StepNames, TypesNow
    <2> HIDE DEF m
    <2>2. CallOK(m)  BY <2>1, <1>1 DEF CallOK, PartSteps
    <2>3. Becomes(c, m) /\ Knew(c, m)
        BY <1>1, <2>1, <2>2 DEF Becomes, Knew, StoreOK, RemovalSteps, UploadSteps
    <2> QED  BY <1>2, <1>4, <1>7, <2>3, RequestStep
<1> QED  BY <1>8, <1>9 DEF Persist

LEMMA ClaimDiscardStep ==
    ASSUME IInv, NEW c \in Callers, ClaimDiscard(c)  PROVE IInv'
<1> PICK q \in Recordings : q = call[c].recording  BY AboutRecording DEF ClaimDiscard, At
<1>1. call[c].at = "discard" /\ q <= opened
    BY AboutRecording DEF ClaimDiscard, At
<1>2. UNCHANGED <<part, validation, analysis, store, opened, workflow, claims, faults>>
    BY DEF ClaimDiscard, media
<1>3. RecordingInv(q)  BY DEF IInv
<1>4. CASE ~Discardable(c)
    <2>1. call' = [call EXCEPT ![c] = NoCall] /\ UNCHANGED video  BY <1>4 DEF ClaimDiscard, Done
    <2>2. RowTypes'  BY <1>2, <2>1, TypesNow DEF RowTypes
    <2> QED  BY <1>1, <1>2, <2>1, <2>2, ReadStep, NoCallFacts
<1>5. CASE Discardable(c)
    <2>1. video' = [video EXCEPT ![q] = "deleting"] /\ ~analysis[q] /\ video[q] # "none"
        BY <1>1, <1>5, TypesNow DEF ClaimDiscard, Discardable, CallOK
    <2>2. /\ video' \in [Recordings -> Statuses] /\ video'[q] = "deleting"
          /\ \A r \in Recordings \ {q} : video'[r] = video[r]
        BY <2>1, TypesNow DEF RowTypes, Statuses
    <2>3. RowTypes'  BY <1>2, <2>2, TypesNow DEF RowTypes
    <2>4. RowsOK(q)'  BY <1>2, <1>3, <2>1, <2>2 DEF RecordingInv, RowsOK
    <2>5. Evolves(q, Callers \ {c})  BY <1>1, <1>2, <2>1, <2>2, <2>4 DEF Evolves, Gone
    <2> DEFINE m == [call[c] EXCEPT !.at = "abort", !.status = "none"]
    <2>6. call' = [call EXCEPT ![c] = m]
        BY <1>5, TypesNow DEF ClaimDiscard, CallType
    <2>7. m \in CallType /\ m.at = "abort" /\ m.recording = call[c].recording
        BY StepNames, TypesNow DEF CallType, Statuses
    <2> HIDE DEF m
    <2>8. CallOK(m)  BY <1>1, <2>7 DEF CallOK, PartSteps
    <2>9. Becomes(c, m) /\ Knew(c, m)
        BY <1>1, <2>2, <2>6, <2>7, <2>8 DEF Becomes, Knew, StoreOK, RemovalSteps, UploadSteps, Gone
    <2> QED  BY <1>2, <2>3, <2>5, <2>9, RequestStep
<1> QED  BY <1>4, <1>5

LEMMA AbortUploadStep ==
    ASSUME IInv, NEW c \in Callers, AbortUpload(c)  PROVE IInv'
<1> PICK q \in Recordings : q = call[c].recording  BY AboutRecording DEF AbortUpload, At
<1>1. call[c].at = "abort" /\ q <= opened
    BY AboutRecording DEF AbortUpload, At
<1>2. /\ store' = [store EXCEPT ![q].upload = "closed"]
      /\ UNCHANGED <<video, part, validation, analysis, opened, workflow, claims, faults>>
    BY DEF AbortUpload, rows
<1>3. /\ store' \in [Recordings -> StoreType]
      /\ \A r \in Recordings \ {q} : store'[r] = store[r]
      /\ store'[q].upload = "closed" /\ store'[q].object = store[q].object /\ store'[q].parts = store[q].parts
    <2>1. store \in [Recordings -> StoreType]  BY TypesNow DEF RowTypes
    <2>2. store' \in [Recordings -> StoreType]  BY <1>2, <2>1 DEF StoreType
    <2> QED  BY <1>2, <2>1, <2>2 DEF StoreType
<1>4. RowTypes'  BY <1>2, <1>3, TypesNow DEF RowTypes
<1>5. RecordingInv(q) /\ StoreOK(call[c], video, store)  BY DEF IInv, CallInv
<1>6. RowsOK(q)'  BY <1>2, <1>3, <1>5 DEF RecordingInv, RowsOK
<1>7. Evolves(q, Callers \ {c})  BY <1>1, <1>2, <1>3, <1>6 DEF Evolves, Gone
<1> DEFINE m == [call[c] EXCEPT !.at = "delete"]
<1>8. m \in CallType /\ call' = [call EXCEPT ![c] = m] /\ m.at = "delete" /\ m.recording = call[c].recording
    BY GotoFacts, StepNames, TypesNow DEF AbortUpload
<1> HIDE DEF m
<1>9. CallOK(m)  BY <1>1, <1>8 DEF CallOK, PartSteps
<1>10. Becomes(c, m) /\ Knew(c, m)
    BY <1>1, <1>2, <1>3, <1>5, <1>8, <1>9 DEF Becomes, Knew, StoreOK, RemovalSteps, UploadSteps
<1> QED  BY <1>2, <1>4, <1>7, <1>10, RequestStep

LEMMA DeleteObjectStep ==
    ASSUME IInv, NEW c \in Callers, DeleteObject(c)  PROVE IInv'
<1> PICK q \in Recordings : q = call[c].recording  BY AboutRecording DEF DeleteObject, At
<1>1. call[c].at = "delete" /\ q <= opened
    BY AboutRecording DEF DeleteObject, At
<1>2. /\ store' = [store EXCEPT ![q].object = FALSE]
      /\ UNCHANGED <<video, part, validation, analysis, opened, workflow, claims, faults>>
    BY DEF DeleteObject, rows
<1>3. /\ store' \in [Recordings -> StoreType]
      /\ \A r \in Recordings \ {q} : store'[r] = store[r]
      /\ store'[q].upload = store[q].upload /\ ~store'[q].object /\ store'[q].parts = store[q].parts
    <2>1. store \in [Recordings -> StoreType]  BY TypesNow DEF RowTypes
    <2>2. store' \in [Recordings -> StoreType]  BY <1>2, <2>1 DEF StoreType
    <2> QED  BY <1>2, <2>1, <2>2 DEF StoreType
<1>4. RowTypes'  BY <1>2, <1>3, TypesNow DEF RowTypes
<1>5. RecordingInv(q) /\ video[q] \in Gone /\ store[q].upload = "closed"
    BY <1>1 DEF IInv, CallInv, StoreOK, RemovalSteps
<1>6. RowsOK(q)'  BY <1>2, <1>3, <1>5 DEF RecordingInv, RowsOK, Gone
<1>7. Evolves(q, Callers \ {c})  BY <1>1, <1>2, <1>3, <1>5, <1>6 DEF Evolves, Gone
<1> DEFINE m == [call[c] EXCEPT !.at = "erase"]
<1>8. m \in CallType /\ call' = [call EXCEPT ![c] = m] /\ m.at = "erase" /\ m.recording = call[c].recording
    BY GotoFacts, StepNames, TypesNow DEF DeleteObject
<1> HIDE DEF m
<1>9. CallOK(m)  BY <1>1, <1>8 DEF CallOK, PartSteps
<1>10. Becomes(c, m) /\ Knew(c, m)
    BY <1>1, <1>2, <1>3, <1>5, <1>8, <1>9 DEF Becomes, Knew, StoreOK, RemovalSteps, UploadSteps
<1> QED  BY <1>2, <1>4, <1>7, <1>10, RequestStep

LEMMA EraseRowsStep ==
    ASSUME IInv, NEW c \in Callers, EraseRows(c)  PROVE IInv'
<1> PICK q \in Recordings : q = call[c].recording  BY AboutRecording DEF EraseRows, At
<1>1. call' = [call EXCEPT ![c] = NoCall] /\ call[c].at = "erase" /\ q <= opened
    BY AboutRecording DEF EraseRows, Done, At
<1>2. /\ video' = [video EXCEPT ![q] = "none"]
      /\ part' = [part EXCEPT ![q] = [p \in Parts |-> NoPart]]
      /\ validation' = [validation EXCEPT ![q] = "none"]
      /\ UNCHANGED <<analysis, store, opened, workflow, claims, faults>>
    BY DEF EraseRows, media
<1>3. /\ video' \in [Recordings -> Statuses] /\ video'[q] = "none"
      /\ validation' \in [Recordings -> Verdicts]
      /\ part' \in [Recordings -> [Parts -> PartRows]]
      /\ \A r \in Recordings \ {q} : video'[r] = video[r] /\ validation'[r] = validation[r]
    BY <1>2, TypesNow, NoCallFacts DEF RowTypes, Statuses, Verdicts
<1>4. RowTypes'  BY <1>2, <1>3, TypesNow DEF RowTypes
<1>5. /\ RecordingInv(q) /\ video[q] \in Gone
      /\ store[q].upload = "closed" /\ ~store[q].object
    BY <1>1 DEF IInv, CallInv, StoreOK, RemovalSteps
<1>6. RowsOK(q)'  BY <1>2, <1>3, <1>5 DEF RecordingInv, RowsOK, Gone
<1>7. Evolves(q, Callers \ {c})  BY <1>1, <1>2, <1>3, <1>5, <1>6 DEF Evolves, Gone
<1>8. Becomes(c, NoCall) /\ Knew(c, NoCall)  BY <1>1, NoCallFacts DEF Becomes, Knew
<1> QED  BY <1>2, <1>4, <1>7, <1>8, RequestStep

\* A request that helps a completion on, for the owner or for the scheduled
\* recovery.
Helps(m, r) ==
    \E step \in {"parts", "ensure"} :
        \/ m = [NoCall EXCEPT !.at = step, !.recording = r]
        \/ m = [NoCall EXCEPT !.at = step, !.recording = r, !.mayReset = TRUE]

LEMMA HelpsFacts ==
    ASSUME IInv, NEW r \in Recordings, r <= opened, NEW m, Helps(m, r)
    PROVE  /\ m \in CallType /\ CallOK(m) /\ m.at \in {"parts", "ensure"} /\ m.recording = r
           /\ \A v, s : StoreOK(m, v, s)
<1>1. PICK step \in {"parts", "ensure"} :
        \/ m = [NoCall EXCEPT !.at = step, !.recording = r]
        \/ m = [NoCall EXCEPT !.at = step, !.recording = r, !.mayReset = TRUE]
    BY DEF Helps
<1>2. r \in 0..MaxRecordings /\ step \in Steps /\ NoCall \in CallType
    BY NoCallFacts, StepNames, UploadAssumption DEF Recordings
<1>3. m \in CallType  BY <1>1, <1>2 DEF CallType
<1>4. m.at = step /\ m.recording = r  BY <1>1, <1>2 DEF CallType
<1>5. CallOK(m) /\ \A v, s : StoreOK(m, v, s)
    BY <1>4 DEF CallOK, StoreOK, PartSteps, RemovalSteps
<1> QED  BY <1>3, <1>4, <1>5

LEMMA HelpStep ==
    ASSUME IInv, NEW c \in Callers, NEW r \in Recordings, video[r] # "none",
           NEW m, Helps(m, r), call' = [call EXCEPT ![c] = m],
           RowTypes', UNCHANGED <<video, validation, analysis, store, opened>>
    PROVE  IInv'
<1>1. m \in CallType /\ CallOK(m) /\ m.at \in {"parts", "ensure"} /\ m.recording = r /\ StoreOK(m, video, store)
    BY RowIsOpened, HelpsFacts
<1> QED  BY <1>1, ReadStep

LEMMA BeginCompleteStep ==
    ASSUME IInv, NEW c \in Callers, NEW q \in Recordings, BeginComplete(c, q)  PROVE IInv'
<1>1. UNCHANGED <<part, validation, analysis, store, opened, workflow, claims, faults>>
    BY DEF BeginComplete, media
<1>2. video[q] # "none" /\ q <= opened  BY RowIsOpened DEF BeginComplete
<1>3. CASE video' = video
    <2>1. RowTypes'  BY <1>1, <1>3, TypesNow DEF RowTypes
    <2>2. PICK m : Helps(m, q) /\ call' = [call EXCEPT ![c] = m]
        BY DEF BeginComplete, Helps
    <2> QED  BY <1>1, <1>2, <1>3, <2>1, <2>2, HelpStep
<1>4. CASE video' # video
    <2>1. /\ video' = [video EXCEPT ![q] = "completing"] /\ video[q] = "uploading"
          /\ call' = [call EXCEPT ![c] = [NoCall EXCEPT !.at = "parts", !.recording = q, !.mayReset = TRUE]]
        BY <1>4 DEF BeginComplete
    <2>2. /\ video' \in [Recordings -> Statuses] /\ video'[q] = "completing"
          /\ \A r \in Recordings \ {q} : video'[r] = video[r]
        BY <2>1, TypesNow DEF RowTypes, Statuses
    <2>3. RowTypes'  BY <1>1, <2>2, TypesNow DEF RowTypes
    <2>4. RecordingInv(q)  BY DEF IInv
    <2>5. RowsOK(q)'  BY <1>1, <2>1, <2>2, <2>4 DEF RecordingInv, RowsOK
    <2>6. Evolves(q, Callers \ {c})  BY <1>1, <1>2, <2>1, <2>2, <2>5 DEF Evolves, Gone
    <2>7. PICK m : Helps(m, q) /\ call' = [call EXCEPT ![c] = m]
        BY <2>1 DEF Helps
    <2>8. m \in CallType /\ CallOK(m) /\ m.at # "insert" /\ m.recording = q /\ StoreOK(m, video', store')
        BY <1>2, <2>7, HelpsFacts
    <2>9. Becomes(c, m) /\ Knew(c, m)  BY <2>2, <2>7, <2>8 DEF Becomes, Knew
    <2> QED  BY <1>1, <2>3, <2>6, <2>9, RequestStep
<1> QED  BY <1>3, <1>4

LEMMA RecoverStep ==
    ASSUME IInv, NEW r \in Recordings, Recover(r)  PROVE IInv'
<1>1. UNCHANGED <<video, part, validation, analysis, store, opened, workflow, claims, faults>>
    BY DEF Recover, rows, media
<1>2. RowTypes'  BY <1>1, TypesNow DEF RowTypes
<1>3. Cron \in Callers /\ video[r] # "none"  BY DEF Recover, Callers
<1>4. CASE BeginDiscard(Cron, r)
    BY <1>1, <1>2, <1>3, <1>4, BeginDiscardStep
<1>5. CASE ~BeginDiscard(Cron, r)
    <2>1. PICK m : Helps(m, r) /\ call' = [call EXCEPT ![Cron] = m]
        BY <1>5 DEF Recover, Helps
    <2> QED  BY <1>1, <1>2, <1>3, <2>1, HelpStep
<1> QED  BY <1>4, <1>5

-----------------------------------------------------------------------------
(* Steps that no request takes, and the opening of an upload.              *)

\* Nothing of the rows and the storage changes but parts, or the workflow.
LEMMA StillStep ==
    ASSUME IInv, RowTypes', UNCHANGED <<video, validation, analysis, store, opened, call>>
    PROVE  IInv'
<1>1. Typed'  BY DEF IInv, Typed
<1>2. ASSUME NEW c \in Callers  PROVE CallInv(c)'
    <2>1. CallInv(c)  BY DEF IInv
    <2> QED  BY <2>1 DEF CallInv, CallOK, StoreOK, Alone, At
<1>3. ASSUME NEW r \in Recordings  PROVE RecordingInv(r)'
    <2>1. RecordingInv(r)  BY DEF IInv
    <2> QED  BY <2>1 DEF RecordingInv, RowsOK, Untouched
<1> QED  BY <1>1, <1>2, <1>3 DEF IInv

LEMMA RecoverPartStep ==
    ASSUME IInv, NEW r \in Recordings, NEW p \in Parts, RecoverPart(r, p)  PROVE IInv'
<1>1. Recoverable \in PartRows
    BY UploadAssumption DEF Recoverable, PartRows, NoPart, Etags
<1>2. part' \in [Recordings -> [Parts -> PartRows]]
    BY <1>1, TypesNow DEF RecoverPart, RowTypes
<1>3. RowTypes'  BY <1>2, TypesNow DEF RowTypes, RecoverPart, media
<1> QED  BY <1>3, StillStep DEF RecoverPart, media

LEMMA WorkflowStep ==
    ASSUME IInv, NEW r \in Recordings, LoadContext(r) \/ ValidateMedia(r) \/ WorkflowError(r)  PROVE IInv'
<1>1. PICK s \in {"loaded", "ended", "ready", "invalid", "errored"} : workflow' = [workflow EXCEPT ![r] = s]
    BY DEF LoadContext, ValidateMedia, WorkflowError
<1>2. faults' \in 0..MaxFaults
    BY FaultType, TypesNow DEF LoadContext, ValidateMedia, WorkflowError, RowTypes
<1>3. UNCHANGED <<video, part, validation, analysis, store, opened, call, claims>>
    BY DEF LoadContext, ValidateMedia, WorkflowError, rows, media
<1>4. RowTypes'  BY <1>1, <1>2, <1>3, TypesNow DEF RowTypes
<1> QED  BY <1>3, <1>4, StillStep

LEMMA PublishStep ==
    ASSUME IInv, NEW q \in Recordings, Publish(q)  PROVE IInv'
<1>1. UNCHANGED <<video, part, analysis, store, opened, call, claims, faults>>
    BY DEF Publish, media
<1>2. workflow' = [workflow EXCEPT ![q] = "ended"]  BY DEF Publish
<1>3. CASE validation' = validation
    <2>1. RowTypes'  BY <1>1, <1>2, <1>3, TypesNow DEF RowTypes
    <2> QED  BY <1>1, <1>3, <2>1, StillStep
<1>4. CASE validation' # validation
    <2>1. /\ validation' = [validation EXCEPT ![q] = workflow[q]] /\ workflow[q] \in {"ready", "invalid"}
          /\ video[q] = "validating" /\ validation[q] = "pending"
        BY <1>4 DEF Publish, Current
    <2>2. workflow[q] \in Verdicts  BY <2>1 DEF Verdicts
    <2>3. /\ validation' \in [Recordings -> Verdicts]
          /\ \A r \in Recordings \ {q} : validation'[r] = validation[r]
        BY <2>1, <2>2, TypesNow DEF RowTypes
    <2>4. RowTypes'  BY <1>1, <1>2, <2>3, TypesNow DEF RowTypes
    <2>5. RecordingInv(q) /\ q <= opened  BY <2>1, RowIsOpened DEF IInv
    <2>6. RowsOK(q)'  BY <1>1, <2>1, <2>5 DEF RecordingInv, RowsOK
    <2>7. Evolves(q, Callers)  BY <1>1, <2>1, <2>3, <2>5, <2>6 DEF Evolves
    <2> QED  BY <1>1, <2>4, <2>7, RowsStep
<1> QED  BY <1>3, <1>4

LEMMA AnalysisStep ==
    ASSUME IInv, NEW q \in Recordings, BeginAnalysis(q) \/ EndAnalysis(q)  PROVE IInv'
<1>1. UNCHANGED <<video, part, validation, store, opened, workflow, call, claims, faults>>
    BY DEF BeginAnalysis, EndAnalysis, media
<1>2. RecordingInv(q)  BY DEF IInv
<1>3. video[q] = "validating" /\ validation[q] = "ready"
    BY <1>2 DEF BeginAnalysis, EndAnalysis, RecordingInv, RowsOK
<1>4. /\ analysis' \in [Recordings -> BOOLEAN]
      /\ \A r \in Recordings \ {q} : analysis'[r] = analysis[r]
    <2>1. PICK b \in BOOLEAN : analysis' = [analysis EXCEPT ![q] = b]  BY DEF BeginAnalysis, EndAnalysis
    <2> QED  BY <2>1, TypesNow DEF RowTypes
<1>5. RowTypes'  BY <1>1, <1>4, TypesNow DEF RowTypes
<1>6. RowsOK(q)'  BY <1>1, <1>2, <1>3 DEF RecordingInv, RowsOK
<1>7. q <= opened  BY <1>3, RowIsOpened
<1>8. Evolves(q, Callers)  BY <1>1, <1>3, <1>4, <1>6, <1>7 DEF Evolves
<1> QED  BY <1>1, <1>5, <1>8, RowsStep

LEMMA OpenUploadStep ==
    ASSUME IInv, NEW c \in Callers, OpenUpload(c)  PROVE IInv'
<1>1. opened \in 0..MaxRecordings /\ opened < MaxRecordings  BY TypesNow DEF OpenUpload, RowTypes
<1> PICK n \in Recordings : n = opened + 1  BY <1>1, UploadAssumption DEF Recordings
<1>2. /\ opened' = n /\ store' = [store EXCEPT ![n].upload = "open"]
      /\ UNCHANGED <<video, part, validation, analysis, workflow, claims, faults>>
      /\ video[n] = "none" /\ n > opened
    BY <1>1 DEF OpenUpload, rows
<1> DEFINE m == [NoCall EXCEPT !.at = "insert", !.recording = n]
<1>3. n \in 0..MaxRecordings /\ NoCall \in CallType
    BY NoCallFacts, UploadAssumption DEF Recordings
<1>4. m \in CallType  BY <1>3, StepNames DEF CallType
<1>5. m.at = "insert" /\ m.recording = n  BY <1>3 DEF CallType
<1>6. call' = [call EXCEPT ![c] = m]  BY DEF OpenUpload
<1> HIDE DEF m
<1>7. /\ call' \in [Callers -> CallType] /\ call'[c] = m
      /\ \A d \in Callers \ {c} : call'[d] = call[d]
    BY <1>4, <1>6, TypesNow
<1>8. store \in [Recordings -> StoreType]  BY TypesNow DEF RowTypes
<1>9. store' \in [Recordings -> StoreType]  BY <1>2, <1>8 DEF StoreType
<1>10. /\ \A r \in Recordings \ {n} : store'[r] = store[r]
       /\ store'[n].upload = "open" /\ store'[n].object = store[n].object /\ store'[n].parts = store[n].parts
    BY <1>2, <1>8 DEF StoreType
<1>11. \A d \in Callers : call[d].recording # n
    <2> SUFFICES ASSUME NEW d \in Callers  PROVE call[d].recording # n  OBVIOUS
    <2>1. CASE call[d].at = "idle"  BY <1>1, <1>2, <2>1, TypesNow DEF CallOK
    <2>2. CASE call[d].at # "idle"  BY <1>1, <1>2, <2>2, AboutRecording, UploadAssumption DEF Recordings
    <2> QED  BY <2>1, <2>2
<1>12. Typed'
    <2>1. opened' \in 0..MaxRecordings  BY <1>2, UploadAssumption DEF Recordings
    <2> QED  BY <1>2, <1>7, <1>9, <2>1, TypesNow DEF Typed, RowTypes
<1>13. ASSUME NEW d \in Callers  PROVE CallInv(d)'
    <2>1. CASE d = c
        <3>1. n <= opened'  BY <1>2, UploadAssumption DEF Recordings
        <3>2. CallOK(call[d])'  BY <1>5, <1>7, <2>1, <3>1 DEF CallOK, PartSteps
        <3>3. StoreOK(call[d], video, store)'  BY <1>5, <1>7, <2>1 DEF StoreOK, RemovalSteps
        <3>4. Alone(d)'  BY <1>2, <1>5, <1>7, <1>11, <2>1 DEF Alone
        <3> QED  BY <3>2, <3>3, <3>4 DEF CallInv
    <2>2. CASE d # c
        <3>1. CallInv(d) /\ call'[d] = call[d] /\ call[d].recording # n  BY <1>7, <1>11, <2>2 DEF IInv
        <3>2. call[d].at # "idle" => call[d].recording \in Recordings /\ call[d].recording <= opened
            BY AboutRecording
        <3>3. CallOK(call[d])'
            <4>1. CASE call[d].at = "idle"  BY <3>1, <4>1 DEF CallInv, CallOK, PartSteps
            <4>2. CASE call[d].at # "idle"
                <5>1. call[d].recording <= opened'  BY <1>1, <1>2, <3>2, <4>2, UploadAssumption DEF Recordings
                <5> QED  BY <3>1, <3>2, <4>2, <5>1 DEF CallInv, CallOK
            <4> QED  BY <4>1, <4>2
        <3>4. StoreOK(call[d], video, store)'
            BY <1>2, <1>10, <3>1, <3>2 DEF CallInv, StoreOK, RemovalSteps
        <3>5. Alone(d)'
            BY <1>2, <1>5, <1>7, <3>1 DEF CallInv, Alone, At
        <3> QED  BY <3>3, <3>4, <3>5 DEF CallInv
    <2> QED  BY <2>1, <2>2
<1>14. ASSUME NEW r \in Recordings  PROVE RecordingInv(r)'
    <2>1. RecordingInv(r)  BY DEF IInv
    <2>2. CASE r = n
        <3>1. store[n].upload = "none" /\ RowsOK(n) /\ Untouched(n)  BY <1>2, <2>1, <2>2 DEF RecordingInv
        <3>2. RowsOK(n)'  BY <1>2, <1>10, <3>1 DEF RowsOK
        <3>3. Untouched(n)'  BY <1>5, <1>7, <1>10, <1>11, <3>1 DEF Untouched, UploadSteps
        <3>4. ~(n > opened')  BY <1>2, UploadAssumption DEF Recordings
        <3> QED  BY <2>2, <3>2, <3>3, <3>4 DEF RecordingInv
    <2>3. CASE r # n
        <3>1. RowsOK(r)'  BY <1>2, <1>10, <2>1, <2>3 DEF RecordingInv, RowsOK
        <3>2. r > opened' => r > opened  BY <1>1, <1>2, UploadAssumption DEF Recordings
        <3>3. Untouched(r) => Untouched(r)'  BY <1>5, <1>7, <1>10, <2>3 DEF Untouched
        <3> QED  BY <1>2, <1>10, <2>1, <2>3, <3>1, <3>2, <3>3 DEF RecordingInv
    <2> QED  BY <2>2, <2>3
<1> QED  BY <1>12, <1>13, <1>14 DEF IInv

-----------------------------------------------------------------------------
LEMMA InitIInv ==
    Init => IInv
<1> SUFFICES ASSUME Init  PROVE IInv  OBVIOUS
<1>1. [upload |-> "none", parts |-> [p \in Parts |-> 0], object |-> FALSE] \in StoreType
    <2>1. [p \in Parts |-> 0] \in [Parts -> Etags]  BY UploadAssumption DEF Etags
    <2> QED  BY <2>1 DEF StoreType
<1>2. Typed
    BY <1>1, NoCallFacts, UploadAssumption DEF Init, Typed, RowTypes, Statuses, Verdicts, Etags
<1>3. \A c \in Callers : CallInv(c)
    BY NoCallFacts DEF Init, CallInv, Alone, At, CallOK
<1>4. ASSUME NEW r \in Recordings  PROVE RecordingInv(r)
    BY NoCallFacts, UploadAssumption DEF Init, RecordingInv, RowsOK, Untouched, Recordings
<1> QED  BY <1>2, <1>3, <1>4 DEF IInv

LEMMA NextIInv ==
    IInv /\ [Next]_vars => IInv'
<1> SUFFICES ASSUME IInv, [Next]_vars  PROVE IInv'  OBVIOUS
<1>1. CASE UNCHANGED vars
    <2>1. RowTypes'  BY <1>1, TypesNow DEF vars, RowTypes
    <2> QED  BY <1>1, <2>1, StillStep DEF vars
<1>2. ASSUME NEW c \in Clients, OpenUpload(c)  PROVE IInv'
    BY <1>2, OpenUploadStep DEF Callers
<1>3. ASSUME NEW c \in Clients, NEW r \in Recordings,
             (\E p \in Parts : BeginPart(c, r, p)) \/ BeginComplete(c, r) \/ BeginRemove(c, r)
      PROVE IInv'
    BY <1>3, BeginPartStep, BeginCompleteStep, BeginRemoveStep DEF Callers
<1>4. ASSUME NEW c \in Callers, Continue(c) \/ Stop(c)  PROVE IInv'
    BY <1>4, StopStep, InsertVideoStep, InsertRefusedStep, AbandonUploadStep, ClaimPartStep, ClaimRefusedStep,
       CheckParentStep, PutPartStep, PutRefusedStep, ReleasePartClaimStep, FinalizePartStep, ReadPartsStep,
       AssembleStep, AssembleRefusedStep, HeadStep, ResetStep, PersistStep, EnsureValidationStep,
       ClaimDiscardStep, AbortUploadStep, DeleteObjectStep, EraseRowsStep
       DEF Continue
<1>5. ASSUME NEW r \in Recordings,
             \/ Recover(r) \/ \E p \in Parts : RecoverPart(r, p)
             \/ Workflow(r) \/ WorkflowError(r)
             \/ BeginAnalysis(r) \/ EndAnalysis(r)
      PROVE IInv'
    BY <1>5, RecoverStep, RecoverPartStep, WorkflowStep, PublishStep, AnalysisStep DEF Workflow
<1> QED  BY <1>1, <1>2, <1>3, <1>4, <1>5 DEF Next

\* The inductive invariant: what a request carries and relies on, and how the
\* rows and the storage of each recording agree between any two steps.
THEOREM Invariant == Spec => []IInv
<1>1. Init => IInv  BY InitIInv
<1>2. IInv /\ [Next]_vars => IInv'  BY NextIInv
<1> QED  BY <1>1, <1>2, PTL DEF Spec

\* Every variable keeps to its type.
THEOREM TypeCorrect == Spec => []TypeOK
<1>1. IInv => TypeOK
    BY DEF IInv, Typed, RowTypes, TypeOK, CallType, StoreType
<1> QED  BY <1>1, Invariant, PTL

\* What is being validated is whole in the storage, and what is erased left
\* nothing there, whichever of its requests were cut off.
THEOREM StorageMatchesRows == Spec => []StatusMatchesStorage
<1>1. IInv => StatusMatchesStorage
    <2> SUFFICES ASSUME IInv  PROVE StatusMatchesStorage  OBVIOUS
    <2>1. ValidatingIsWhole
        BY DEF IInv, RecordingInv, RowsOK, ValidatingIsWhole
    <2>2. ErasedLeavesNothing
        BY DEF IInv, RecordingInv, RowsOK, Untouched, ErasedLeavesNothing, HoldsBytes
    <2> QED  BY <2>1, <2>2 DEF StatusMatchesStorage
<1> QED  BY <1>1, Invariant, PTL

-----------------------------------------------------------------------------
(* What a step may do.                                                     *)

\* Which steps write the rows of analyses, and which those of parts.
LEMMA AnalysisWriters ==
    ASSUME IInv, [Next]_vars, NEW r \in Recordings, analysis'[r] # analysis[r]
    PROVE  BeginAnalysis(r) \/ EndAnalysis(r)
<1>1. UNCHANGED analysis \/ \E q \in Recordings : BeginAnalysis(q) \/ EndAnalysis(q)
    BY DEF Next, vars, OpenUpload, BeginPart, BeginComplete, BeginRemove, Stop, Recover, RecoverPart,
        Workflow, LoadContext, ValidateMedia, Publish, WorkflowError, Continue,
        InsertVideo, InsertRefused, AbandonUpload, ClaimPart, ClaimRefused, CheckParent, PutPart,
        PutRefused, ReleasePartClaim, FinalizePart, ReadParts, Assemble, AssembleRefused, Head,
        Reset, Persist, EnsureValidation, ClaimDiscard, AbortUpload, DeleteObject, EraseRows,
        rows, media
<1>2. PICK q \in Recordings : BeginAnalysis(q) \/ EndAnalysis(q)  BY <1>1
<1>3. q = r  BY <1>2, TypesNow DEF RowTypes, BeginAnalysis, EndAnalysis
<1> QED  BY <1>2, <1>3

LEMMA PartWriters ==
    ASSUME [Next]_vars
    PROVE  \/ UNCHANGED part
           \/ \E c \in Callers : ClaimPart(c) \/ ReleasePartClaim(c) \/ FinalizePart(c) \/ EraseRows(c)
           \/ \E r \in Recordings, p \in Parts : RecoverPart(r, p)
BY DEF Next, vars, OpenUpload, BeginPart, BeginComplete, BeginRemove, Stop, Recover,
        Workflow, LoadContext, ValidateMedia, Publish, WorkflowError, BeginAnalysis, EndAnalysis, Continue,
        InsertVideo, InsertRefused, AbandonUpload, ClaimRefused, CheckParent, PutPart,
        PutRefused, ReadParts, Assemble, AssembleRefused, Head,
        Reset, Persist, EnsureValidation, ClaimDiscard, AbortUpload, DeleteObject,
        rows, media

\* An analysis never loses its source. The proof looks at the state after the
\* step: a recording that is in use there is ready there.
THEOREM SourceStaysReady == Spec => OffersReadySource
<1>1. ASSUME IInv, IInv', [Next]_vars, NEW r \in Recordings
      PROVE  Use(r)!Next \/ UNCHANGED <<video[r], validation[r], analysis[r]>>
    <2> DEFINE ready == video[r] = "validating" /\ validation[r] = "ready"
    <2>1. analysis'[r] \in BOOLEAN /\ analysis[r] \in BOOLEAN
        BY <1>1 DEF IInv, Typed, RowTypes
    <2>2. analysis[r] => ready  BY <1>1 DEF IInv, RecordingInv, RowsOK
    <2>3. analysis'[r] => ready'  BY <1>1 DEF IInv, RecordingInv, RowsOK
    <2>4. CASE analysis'[r] # analysis[r]
        <3>1. BeginAnalysis(r) \/ EndAnalysis(r)  BY <1>1, <2>4, AnalysisWriters
        <3>2. ready /\ UNCHANGED ready
            BY <3>1, <2>2 DEF BeginAnalysis, EndAnalysis
        <3> QED  BY <2>1, <2>4, <3>2 DEF Use!Next, Use!Use, Use!Release
    <2>5. CASE analysis'[r] = analysis[r]
        BY <2>1, <2>3, <2>5 DEF Use!Next, Use!Offer, Use!Withdraw
    <2> QED  BY <2>4, <2>5
<1>2. IInv /\ IInv' /\ [Next]_vars =>
        [\A r \in Recordings : Use(r)!Next \/ UNCHANGED <<video[r], validation[r], analysis[r]>>]_vars
    BY <1>1
<1> QED  BY <1>2, Invariant, PTL DEF Spec, OffersReadySource

\* A recorded ETag is replaced only by the upload that holds the newest claim
\* of its part; whoever lost the claim changes nothing.
THEOREM NewestClaimRecords == Spec => LaterClaimStays
<1> DEFINE Step(r, p) ==
        part'[r][p].etag \notin {0, part[r][p].etag} =>
            /\ part[r][p].status = "uploading"
            /\ \/ part'[r][p] = Recorded(part[r][p].claim)
               \/ \E c \in Callers : /\ call[c].claim = part[r][p].claim
                                     /\ part'[r][p] = call[c].had
<1>1. ASSUME IInv, [Next]_vars, NEW r \in Recordings, NEW p \in Parts  PROVE Step(r, p)
    <2>1. part \in [Recordings -> [Parts -> PartRows]] /\ part[r][p] \in PartRows
        BY <1>1, TypesNow DEF RowTypes
    <2>2. CASE UNCHANGED part  BY <2>2
    <2>3. ASSUME NEW c \in Callers, ClaimPart(c)  PROVE part'[r][p].etag = part[r][p].etag
        <3> DEFINE q == call[c].recording
                   x == call[c].part
        <3>1. q \in Recordings /\ x \in Parts
            BY <1>1, <2>3, AboutRecording, TypesNow DEF ClaimPart, At, CallOK, PartSteps
        <3>2. part' = [part EXCEPT ![q][x].status = "uploading", ![q][x].claim = claims + 1]
            BY <2>3 DEF ClaimPart
        <3> HIDE DEF q, x
        <3> QED  BY <2>1, <3>1, <3>2 DEF PartRows
    <2>4. ASSUME NEW c \in Callers, NEW row, call[c].at \in {"release", "finalize"}, HoldsClaim(c),
                 part' = [part EXCEPT ![call[c].recording][call[c].part] = row],
                 row.etag = 0 \/ row = call[c].had \/ row = Recorded(call[c].claim)
          PROVE  Step(r, p)
        <3> DEFINE q == call[c].recording
                   x == call[c].part
        <3>1. q \in Recordings /\ x \in Parts /\ call[c].claim # 0
            BY <1>1, <2>4, AboutRecording, TypesNow DEF CallOK, PartSteps
        <3>2. part[q][x].claim = call[c].claim  BY <2>4 DEF HoldsClaim
        <3>3. part[q][x].status = "uploading"  BY <2>1, <3>1, <3>2 DEF PartRows
        <3>4. part' = [part EXCEPT ![q][x] = row]  BY <2>4
        <3> HIDE DEF q, x
        <3>5. CASE r = q /\ p = x
            <4>1. part'[r][p] = row  BY <2>1, <3>1, <3>4, <3>5
            <4> QED  BY <2>4, <3>2, <3>3, <3>5, <4>1
        <3>6. CASE ~(r = q /\ p = x)
            <4>1. part'[r][p] = part[r][p]  BY <2>1, <3>1, <3>4, <3>6
            <4> QED  BY <4>1
        <3> QED  BY <3>5, <3>6
    <2>5. ASSUME NEW c \in Callers, ReleasePartClaim(c)  PROVE Step(r, p)
        BY <2>2, <2>4, <2>5 DEF ReleasePartClaim, At
    <2>6. ASSUME NEW c \in Callers, FinalizePart(c)  PROVE Step(r, p)
        <3>1. Recoverable.etag = 0  BY DEF Recoverable, NoPart
        <3> QED  BY <2>2, <2>4, <2>6, <3>1 DEF FinalizePart, At
    <2>7. ASSUME NEW c \in Callers, EraseRows(c)  PROVE part'[r][p].etag \in {0, part[r][p].etag}
        <3>1. call[c].recording \in Recordings
            BY <1>1, <2>7, AboutRecording DEF EraseRows, At
        <3> QED  BY <2>1, <2>7, <3>1 DEF EraseRows, NoPart
    <2>8. ASSUME NEW q \in Recordings, NEW x \in Parts, RecoverPart(q, x)
          PROVE  part'[r][p].etag \in {0, part[r][p].etag}
        BY <2>1, <2>8 DEF RecoverPart, Recoverable, NoPart
    <2> HIDE DEF Step
    <2>9. part'[r][p].etag \in {0, part[r][p].etag} => Step(r, p)  BY DEF Step
    <2> QED  BY <1>1, <2>2, <2>3, <2>5, <2>6, <2>7, <2>8, <2>9, PartWriters
<1>2. IInv /\ [Next]_vars => [\A r \in Recordings, p \in Parts : Step(r, p)]_vars
    BY <1>1
<1> QED  BY <1>2, Invariant, PTL DEF Spec, LaterClaimStays

\* The recording of an analysis is ready, and whole in the storage.
AnalysedIsWhole ==
    \A r \in Recordings : analysis[r] =>
        /\ video[r] = "validating" /\ validation[r] = "ready"
        /\ store[r].object /\ \A p \in Parts : store[r].parts[p] # 0

\* The recording of an analysis is there and whole as long as the analysis: no
\* removal, recovery or late answer of the storage takes it away.
THEOREM AnalysisKeepsItsSource == Spec => []AnalysedIsWhole
<1>1. IInv => AnalysedIsWhole
  BY DEF IInv, RecordingInv, RowsOK, AnalysedIsWhole
<1> QED  BY <1>1, Invariant, PTL
=============================================================================
