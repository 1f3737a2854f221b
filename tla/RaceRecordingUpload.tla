------------------------- MODULE RaceRecordingUpload -------------------------
(***************************************************************************)
(* The Race recording of one Drive session, from the first multipart      *)
(* upload to its removal: RaceRecordingAuthority with its rows in D1 and   *)
(* its media in R2, the validation workflow, the scheduled recovery, and   *)
(* the analyses that need the recording.                                   *)
(*                                                                         *)
(* A request is a caller that goes through the awaits of one method; it    *)
(* may stop for good after any of them. An answer of the storage may be    *)
(* lost although the storage acted. Every PUT of a part is numbered by the *)
(* claim it was made under, and that number is the ETag. No clock is       *)
(* modelled: what the code does with an upload, a completion or a claim    *)
(* that is old enough may happen to it at any moment.                      *)
(***************************************************************************)
EXTENDS Integers, FiniteSets

CONSTANTS
    Clients,        \* requests of the owner that are under way at once
    Cron,           \* the scheduled recovery
    Parts,          \* the part numbers of a whole recording
    MaxRecordings,  \* how many uploads are ever opened
    MaxClaims,      \* how many uploads of a part are ever claimed
    MaxFaults       \* how many storage calls, steps or requests ever fail

ASSUME UploadAssumption ==
    /\ Cron \notin Clients
    /\ MaxRecordings \in Nat \ {0} /\ MaxClaims \in Nat /\ MaxFaults \in Nat

VARIABLES
    video,      \* race_video.status, per recording
    part,       \* race_video_upload_part, per recording and part number
    validation, \* race_video_validation.status
    analysis,   \* whether an analysis or tracking run of the recording is active
    store,      \* R2: the multipart upload, its parts and the object
    workflow,   \* the validation workflow of the recording
    call,       \* what each request is about to do, with what it has read
    opened,     \* recordings whose upload has been opened
    claims,     \* claims made so far
    faults      \* failures so far

vars == <<video, part, validation, analysis, store, workflow, call, opened, claims, faults>>

Recordings == 1..MaxRecordings
Callers == Clients \cup {Cron}
Etags == 0..MaxClaims

Statuses == {"none", "uploading", "completing", "validating", "deleting"}
Verdicts == {"none", "pending", "ready", "invalid"}

NoPart == [status |-> "none", claim |-> 0, etag |-> 0]
NoCall == [at |-> "idle", recording |-> 0, status |-> "none", part |-> 0, had |-> NoPart,
           claim |-> 0, mayReset |-> FALSE, etags |-> [p \in Parts |-> 0]]

\* What the CHECK of the table admits: a claim and no other row has a claim
\* identity, and an uploaded part has an ETag.
PartRows ==
    {row \in [status : {"none", "uploading", "uploaded", "recoverable"}, claim : Etags, etag : Etags] :
        /\ row.status = "uploading" <=> row.claim # 0
        /\ row.status = "uploaded" => row.etag # 0}

At(c, step) == call[c].at = step
Goto(c, step) == call' = [call EXCEPT ![c].at = step]
Done(c) == call' = [call EXCEPT ![c] = NoCall]

Init ==
    /\ video = [r \in Recordings |-> "none"]
    /\ part = [r \in Recordings |-> [p \in Parts |-> NoPart]]
    /\ validation = [r \in Recordings |-> "none"]
    /\ analysis = [r \in Recordings |-> FALSE]
    /\ store = [r \in Recordings |-> [upload |-> "none", parts |-> [p \in Parts |-> 0], object |-> FALSE]]
    /\ workflow = [r \in Recordings |-> "none"]
    /\ call = [c \in Callers |-> NoCall]
    /\ opened = 0 /\ claims = 0 /\ faults = 0

-----------------------------------------------------------------------------
(* Failures.                                                               *)

rows == <<video, part, validation, analysis>>
media == <<store, opened>>

Fault == faults < MaxFaults /\ faults' = faults + 1

\* A request stops between two awaits and nobody takes it up again.
Stop(c) ==
    /\ ~At(c, "idle") /\ Fault /\ Done(c)
    /\ UNCHANGED <<rows, media, workflow, claims>>

-----------------------------------------------------------------------------
(* create: the upload is opened before there is a row for it.              *)

OpenUpload(c) ==
    /\ At(c, "idle") /\ opened < MaxRecordings
    /\ \A r \in Recordings : video[r] = "none"
    /\ opened' = opened + 1
    /\ store' = [store EXCEPT ![opened + 1].upload = "open"]
    /\ call' = [call EXCEPT ![c] = [NoCall EXCEPT !.at = "insert", !.recording = opened + 1]]
    /\ UNCHANGED <<rows, workflow, claims, faults>>

\* The row of a Drive session is unique.
InsertVideo(c) ==
    /\ At(c, "insert")
    /\ \A r \in Recordings : video[r] = "none"
    /\ video' = [video EXCEPT ![call[c].recording] = "uploading"]
    /\ \/ Done(c) /\ UNCHANGED faults
       \/ Fault /\ Goto(c, "abandon")
    /\ UNCHANGED <<part, validation, analysis, media, workflow, claims>>

InsertRefused(c) ==
    /\ At(c, "insert")
    /\ \/ (\E r \in Recordings : video[r] # "none") /\ UNCHANGED faults
       \/ Fault
    /\ Goto(c, "abandon")
    /\ UNCHANGED <<rows, media, workflow, claims>>

AbandonUpload(c) ==
    /\ At(c, "abandon")
    /\ store' = [store EXCEPT ![call[c].recording].upload = "closed"]
    /\ Done(c)
    /\ UNCHANGED <<rows, opened, workflow, claims, faults>>

-----------------------------------------------------------------------------
(* uploadPart: claim the part in D1, store it in R2, record its ETag.      *)

BeginPart(c, r, p) ==
    /\ At(c, "idle")
    /\ video[r] = "uploading"
    /\ call' = [call EXCEPT ![c] = [NoCall EXCEPT !.at = "claim", !.recording = r,
                                                  !.part = p, !.had = part[r][p]]]
    /\ UNCHANGED <<rows, media, workflow, claims, faults>>

\* Nobody else has claimed the part since it was read.
StillClaimable(now, had) ==
    /\ now.status = had.status
    /\ had.status = "uploading" => now.claim = had.claim

ClaimPart(c) ==
    LET r == call[c].recording
        p == call[c].part
    IN  /\ At(c, "claim") /\ claims < MaxClaims
        /\ video[r] # "none"
        /\ StillClaimable(part[r][p], call[c].had)
        /\ claims' = claims + 1
        /\ part' = [part EXCEPT ![r][p].status = "uploading", ![r][p].claim = claims + 1]
        /\ call' = [call EXCEPT ![c].at = "check", ![c].claim = claims + 1,
                                ![c].had = IF @.status = "uploaded" THEN @ ELSE NoPart]
        /\ UNCHANGED <<video, validation, analysis, media, workflow, faults>>

ClaimRefused(c) ==
    LET r == call[c].recording
    IN  /\ At(c, "claim")
        /\ \/ video[r] = "none"
           \/ ~StillClaimable(part[r][call[c].part], call[c].had)
           \/ claims = MaxClaims
        /\ Done(c)
        /\ UNCHANGED <<rows, media, workflow, claims, faults>>

CheckParent(c) ==
    /\ At(c, "check")
    /\ Goto(c, IF video[call[c].recording] = "uploading" THEN "put" ELSE "release")
    /\ UNCHANGED <<rows, media, workflow, claims, faults>>

\* The storage keeps the bytes of the latest PUT of a part.
PutPart(c) ==
    LET r == call[c].recording
    IN  /\ At(c, "put") /\ store[r].upload = "open"
        /\ store' = [store EXCEPT ![r].parts[call[c].part] = call[c].claim]
        /\ \/ call' = [call EXCEPT ![c].at = "finalize", ![c].had = NoPart] /\ UNCHANGED faults
           \/ Fault /\ Goto(c, "release")
        /\ UNCHANGED <<rows, opened, workflow, claims>>

PutRefused(c) ==
    /\ At(c, "put")
    /\ \/ store[call[c].recording].upload # "open" /\ UNCHANGED faults
       \/ Fault
    /\ Goto(c, "release")
    /\ UNCHANGED <<rows, media, workflow, claims>>

\* Faulty: the statements of an upload name the part and not the claim.
HoldsPart(c) == part[call[c].recording][call[c].part].status # "none"

HoldsClaim(c) == part[call[c].recording][call[c].part].claim = call[c].claim

\* A PUT that failed gives the part back as it was before.
ReleasePartClaim(c) ==
    LET r == call[c].recording
        p == call[c].part
    IN  /\ At(c, "release")
        /\ part' = IF HoldsClaim(c) THEN [part EXCEPT ![r][p] = call[c].had] ELSE part
        /\ Done(c)
        /\ UNCHANGED <<video, validation, analysis, media, workflow, claims, faults>>

\* Faulty: the claim stays in the row.
RecordedInPlace(claim) == [status |-> "uploaded", claim |-> claim, etag |-> claim]

Recorded(claim) == [status |-> "uploaded", claim |-> 0, etag |-> claim]
Recoverable == [NoPart EXCEPT !.status = "recoverable"]

\* The claim is looked at again by the statement that records the ETag; when
\* that statement fails the part is left to be sent again.
FinalizePart(c) ==
    LET r == call[c].recording
        p == call[c].part
    IN  /\ At(c, "finalize")
        /\ \/ /\ part' = IF HoldsClaim(c) THEN [part EXCEPT ![r][p] = Recorded(call[c].claim)] ELSE part
              /\ UNCHANGED faults
           \/ /\ HoldsClaim(c) /\ Fault
              /\ part' = [part EXCEPT ![r][p] = Recoverable]
        /\ Done(c)
        /\ UNCHANGED <<video, validation, analysis, media, workflow, claims>>

-----------------------------------------------------------------------------
(* complete and finishCompletion.                                          *)

NothingUploading(r) == \A p \in Parts : part[r][p].status # "uploading"

\* The request that moves the row to completing may move it back; one that
\* finds it there only helps.
BeginComplete(c, r) ==
    /\ At(c, "idle")
    /\ \/ /\ video[r] = "uploading" /\ NothingUploading(r)
          /\ video' = [video EXCEPT ![r] = "completing"]
          /\ call' = [call EXCEPT ![c] = [NoCall EXCEPT !.at = "parts", !.recording = r, !.mayReset = TRUE]]
       \/ /\ video[r] = "completing"
          /\ call' = [call EXCEPT ![c] = [NoCall EXCEPT !.at = "parts", !.recording = r]]
          /\ UNCHANGED video
       \/ /\ video[r] = "validating"
          /\ call' = [call EXCEPT ![c] = [NoCall EXCEPT !.at = "ensure", !.recording = r]]
          /\ UNCHANGED video
    /\ UNCHANGED <<part, validation, analysis, media, workflow, claims, faults>>

\* Faulty: the parts that are there are taken for all of them.
NoneMissing(r) == \A p \in Parts : part[r][p].status \in {"uploaded", "none"}

AllUploaded(r) == \A p \in Parts : part[r][p].status = "uploaded"

ReadParts(c) ==
    LET r == call[c].recording
    IN  /\ At(c, "parts")
        /\ IF AllUploaded(r)
           THEN call' = [call EXCEPT ![c].at = "assemble",
                                     ![c].etags = [p \in Parts |-> part[r][p].etag]]
           ELSE Goto(c, "reset")
        /\ UNCHANGED <<rows, media, workflow, claims, faults>>

Answered(c, step) == call' = [call EXCEPT ![c].at = step, ![c].etags = NoCall.etags]

\* The storage assembles an open upload whose parts have the ETags named.
Assemble(c) ==
    LET r == call[c].recording
    IN  /\ At(c, "assemble")
        /\ store[r].upload = "open" /\ store[r].parts = call[c].etags
        /\ store' = [store EXCEPT ![r].upload = "closed", ![r].object = TRUE]
        /\ \/ Answered(c, "persist") /\ UNCHANGED faults
           \/ Fault /\ Answered(c, "head")
        /\ UNCHANGED <<rows, opened, workflow, claims>>

AssembleRefused(c) ==
    LET r == call[c].recording
    IN  /\ At(c, "assemble")
        /\ \/ (store[r].upload # "open" \/ store[r].parts # call[c].etags) /\ UNCHANGED faults
           \/ Fault
        /\ Answered(c, "head")
        /\ UNCHANGED <<rows, media, workflow, claims>>

Head(c) ==
    /\ At(c, "head")
    /\ \/ store[call[c].recording].object /\ Goto(c, "persist") /\ UNCHANGED faults
       \/ ~store[call[c].recording].object /\ Goto(c, "reset") /\ UNCHANGED faults
       \/ Fault /\ Goto(c, "reset")
    /\ UNCHANGED <<rows, media, workflow, claims>>

\* Whether a completion that came to nothing moves the row back.
Resettable(c) == call[c].mayReset /\ video[call[c].recording] = "completing"

Reset(c) ==
    /\ At(c, "reset")
    /\ video' = IF Resettable(c)
                THEN [video EXCEPT ![call[c].recording] = "uploading"]
                ELSE video
    /\ Done(c)
    /\ UNCHANGED <<part, validation, analysis, media, workflow, claims, faults>>

\* One batch: the row goes to validating, and a validation is pending.
Persist(c) ==
    LET r == call[c].recording
    IN  /\ At(c, "persist")
        /\ \/ /\ video[r] = "completing"
              /\ video' = [video EXCEPT ![r] = "validating"]
              /\ validation' = [validation EXCEPT ![r] = IF @ = "none" THEN "pending" ELSE @]
              /\ Goto(c, "ensure")
           \/ /\ video[r] = "validating" /\ Goto(c, "ensure")
              /\ UNCHANGED <<video, validation>>
           \/ /\ video[r] \notin {"completing", "validating"} /\ Done(c)
              /\ UNCHANGED <<video, validation>>
        /\ UNCHANGED <<part, analysis, media, workflow, claims, faults>>

\* The workflow of a recording is created once, and restarted after an error.
NotRunning(r) == workflow[r] \in {"none", "errored"}

EnsureValidation(c) ==
    LET r == call[c].recording
    IN  /\ At(c, "ensure")
        /\ workflow' = IF video[r] = "validating" /\ NotRunning(r)
                       THEN [workflow EXCEPT ![r] = "started"] ELSE workflow
        /\ Done(c)
        /\ UNCHANGED <<rows, media, claims, faults>>

-----------------------------------------------------------------------------
(* remove and discard.                                                     *)

\* Faulty: a removal is left to whoever has begun it.
BeginDiscardOnce(c, r) ==
    call' = IF video[r] = "deleting" THEN call
            ELSE [call EXCEPT ![c] = [NoCall EXCEPT !.at = "discard", !.recording = r, !.status = video[r]]]

\* A removal that has begun is carried on.
BeginDiscard(c, r) ==
    call' = [call EXCEPT ![c] = [NoCall EXCEPT !.at = IF video[r] = "deleting" THEN "abort" ELSE "discard",
                                               !.recording = r, !.status = video[r]]]

\* The owner removes a recording, or comes upon an expired upload.
BeginRemove(c, r) ==
    /\ At(c, "idle")
    /\ video[r] \in {"uploading", "validating", "deleting"} /\ ~analysis[r]
    /\ BeginDiscard(c, r)
    /\ UNCHANGED <<rows, media, workflow, claims, faults>>

\* Faulty: only the request looked for analyses.
DiscardableAsRead(c) == video[call[c].recording] = call[c].status

\* The statement that claims a recording for removal looks for analyses again.
Discardable(c) ==
    LET r == call[c].recording
    IN  video[r] = call[c].status /\ ~analysis[r]

ClaimDiscard(c) ==
    LET r == call[c].recording
    IN  /\ At(c, "discard")
        /\ \/ /\ Discardable(c)
              /\ video' = [video EXCEPT ![r] = "deleting"]
              /\ call' = [call EXCEPT ![c].at = "abort", ![c].status = "none"]
           \/ ~Discardable(c) /\ Done(c) /\ UNCHANGED video
        /\ UNCHANGED <<part, validation, analysis, media, workflow, claims, faults>>

AbortUpload(c) ==
    /\ At(c, "abort")
    /\ store' = [store EXCEPT ![call[c].recording].upload = "closed"]
    /\ Goto(c, "delete")
    /\ UNCHANGED <<rows, opened, workflow, claims, faults>>

DeleteObject(c) ==
    /\ At(c, "delete")
    /\ store' = [store EXCEPT ![call[c].recording].object = FALSE]
    /\ Goto(c, "erase")
    /\ UNCHANGED <<rows, opened, workflow, claims, faults>>

EraseRows(c) ==
    LET r == call[c].recording
    IN  /\ At(c, "erase")
        /\ video' = [video EXCEPT ![r] = "none"]
        /\ part' = [part EXCEPT ![r] = [p \in Parts |-> NoPart]]
        /\ validation' = [validation EXCEPT ![r] = "none"]
        /\ Done(c)
        /\ UNCHANGED <<analysis, media, workflow, claims, faults>>

-----------------------------------------------------------------------------
(* recoverStale, on a schedule.                                            *)

Recover(r) ==
    /\ At(Cron, "idle")
    /\ \/ /\ \/ video[r] = "uploading"
             \/ video[r] = "deleting"
             \/ video[r] = "validating" /\ validation[r] = "invalid"
          /\ BeginDiscard(Cron, r)
       \/ /\ video[r] = "completing"
          /\ call' = [call EXCEPT ![Cron] = [NoCall EXCEPT !.at = "parts", !.recording = r, !.mayReset = TRUE]]
       \/ /\ video[r] = "validating" /\ validation[r] \in {"none", "pending"}
          /\ workflow[r] \notin {"started", "loaded", "ready", "invalid"}
          /\ call' = [call EXCEPT ![Cron] = [NoCall EXCEPT !.at = "ensure", !.recording = r]]
    /\ UNCHANGED <<rows, media, workflow, claims, faults>>

\* A claim nobody has renewed is released for another upload of the part.
RecoverPart(r, p) ==
    /\ At(Cron, "idle")
    /\ part[r][p].status = "uploading"
    /\ part' = [part EXCEPT ![r][p] = Recoverable]
    /\ UNCHANGED <<video, validation, analysis, media, workflow, call, claims, faults>>

-----------------------------------------------------------------------------
(* The validation workflow.                                                *)

LoadContext(r) ==
    /\ workflow[r] = "started"
    /\ workflow' = [workflow EXCEPT ![r] =
            IF video[r] = "validating" /\ validation[r] = "pending" THEN "loaded" ELSE "ended"]
    /\ UNCHANGED <<rows, media, call, claims, faults>>

\* The container reads the object; without it there is no verdict but invalid.
ValidateMedia(r) ==
    /\ workflow[r] = "loaded"
    /\ \/ store[r].object /\ workflow' = [workflow EXCEPT ![r] = "ready"]
       \/ workflow' = [workflow EXCEPT ![r] = "invalid"]
    /\ UNCHANGED <<rows, media, call, claims, faults>>

Current(r) == video[r] = "validating" /\ validation[r] = "pending"

Publish(r) ==
    /\ workflow[r] \in {"ready", "invalid"}
    /\ validation' = IF Current(r) THEN [validation EXCEPT ![r] = workflow[r]] ELSE validation
    /\ workflow' = [workflow EXCEPT ![r] = "ended"]
    /\ UNCHANGED <<video, part, analysis, media, call, claims, faults>>

WorkflowError(r) ==
    /\ workflow[r] \in {"started", "loaded", "ready", "invalid"} /\ Fault
    /\ workflow' = [workflow EXCEPT ![r] = "errored"]
    /\ UNCHANGED <<rows, media, call, claims>>

-----------------------------------------------------------------------------
(* Analyses of the recording, whose rows a trigger guards.                 *)

BeginAnalysis(r) ==
    /\ ~analysis[r] /\ video[r] = "validating" /\ validation[r] = "ready"
    /\ analysis' = [analysis EXCEPT ![r] = TRUE]
    /\ UNCHANGED <<video, part, validation, media, workflow, call, claims, faults>>

EndAnalysis(r) ==
    /\ analysis[r]
    /\ analysis' = [analysis EXCEPT ![r] = FALSE]
    /\ UNCHANGED <<video, part, validation, media, workflow, call, claims, faults>>

-----------------------------------------------------------------------------
Continue(c) ==
    \/ InsertVideo(c) \/ InsertRefused(c) \/ AbandonUpload(c)
    \/ ClaimPart(c) \/ ClaimRefused(c) \/ CheckParent(c) \/ PutPart(c) \/ PutRefused(c)
    \/ ReleasePartClaim(c) \/ FinalizePart(c)
    \/ ReadParts(c) \/ Assemble(c) \/ AssembleRefused(c) \/ Head(c) \/ Reset(c)
    \/ Persist(c) \/ EnsureValidation(c)
    \/ ClaimDiscard(c) \/ AbortUpload(c) \/ DeleteObject(c) \/ EraseRows(c)

Workflow(r) == LoadContext(r) \/ ValidateMedia(r) \/ Publish(r)

Next ==
    \/ \E c \in Clients : OpenUpload(c)
    \/ \E c \in Clients, r \in Recordings :
        \/ \E p \in Parts : BeginPart(c, r, p)
        \/ BeginComplete(c, r)
        \/ BeginRemove(c, r)
    \/ \E c \in Callers : Continue(c) \/ Stop(c)
    \/ \E r \in Recordings :
        \/ Recover(r) \/ \E p \in Parts : RecoverPart(r, p)
        \/ Workflow(r) \/ WorkflowError(r)
        \/ BeginAnalysis(r) \/ EndAnalysis(r)

Spec == Init /\ [][Next]_vars

\* A request that is not cut off goes on, workflows run, and the scheduled
\* recovery comes back for what it finds. The owner need not send anything.
Fairness ==
    /\ \A c \in Callers : WF_vars(Continue(c))
    /\ \A r \in Recordings :
        /\ WF_vars(Recover(r)) /\ WF_vars(Workflow(r))
        /\ \A p \in Parts : WF_vars(RecoverPart(r, p))

FairSpec == Spec /\ Fairness

-----------------------------------------------------------------------------
TypeOK ==
    /\ video \in [Recordings -> Statuses]
    /\ part \in [Recordings -> [Parts -> PartRows]]
    /\ validation \in [Recordings -> Verdicts]
    /\ analysis \in [Recordings -> BOOLEAN]
    /\ store \in [Recordings -> [upload : {"none", "open", "closed"}, parts : [Parts -> Etags], object : BOOLEAN]]
    /\ workflow \in [Recordings -> {"none", "started", "loaded", "ready", "invalid", "errored", "ended"}]
    /\ \A c \in Callers : call[c].recording \in 0..MaxRecordings /\ call[c].claim \in Etags
    /\ opened \in 0..MaxRecordings /\ claims \in Etags /\ faults \in 0..MaxFaults

\* A recording that is being validated or played is whole in the storage: its
\* object exists and was assembled from every part.
ValidatingIsWhole ==
    \A r \in Recordings : video[r] = "validating" =>
        store[r].object /\ \A p \in Parts : store[r].parts[p] # 0

\* An analysis never loses its source: it begins with a ready recording, which
\* no removal withdraws before the analysis has ended.
Use(r) == INSTANCE RecordingUse
    WITH ready <- video[r] = "validating" /\ validation[r] = "ready", inUse <- analysis[r]
OffersReadySource ==
    [][\A r \in Recordings : Use(r)!Next \/ UNCHANGED <<video[r], validation[r], analysis[r]>>]_vars

\* Once the rows of a recording are erased none of its bytes are left in the
\* storage, and no request that is still under way brings any of them back.
HoldsBytes(r) ==
    store[r].object \/ (store[r].upload = "open" /\ \E p \in Parts : store[r].parts[p] # 0)

ErasedLeavesNothing ==
    \A r \in Recordings : video[r] = "none" => ~HoldsBytes(r)

\* The rows and the storage agree in everything that can be seen of them: what
\* is being validated is whole, and what is gone left nothing.
StatusMatchesStorage ==
    ValidatingIsWhole /\ ErasedLeavesNothing

\* A recorded ETag is replaced only by the upload that holds the newest claim
\* of the part: by its own, or, when it fails, by the row it had read before it
\* claimed the part. An upload whose claim was taken over changes nothing.
\* (What is put back can be older than what it replaces: the claim of an
\* uploaded part compares the status of the row, not what was uploaded.)
LaterClaimStays ==
    [][\A r \in Recordings, p \in Parts :
        part'[r][p].etag \notin {0, part[r][p].etag} =>
            /\ part[r][p].status = "uploading"
            /\ \/ part'[r][p] = Recorded(part[r][p].claim)
               \/ \E c \in Callers : /\ call[c].claim = part[r][p].claim
                                     /\ part'[r][p] = call[c].had]_vars

\* Once the owner stops asking, every upload comes to an end: it is validated
\* or nothing of it remains.
UploadEnds ==
    <>[](\A c \in Clients : At(c, "idle")) =>
        \A r \in Recordings :
            video[r] \notin {"none", "validating"} ~>
                (video[r] = "none" \/ validation[r] = "ready")
=============================================================================
