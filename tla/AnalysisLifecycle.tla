-------------------------- MODULE AnalysisLifecycle --------------------------
(***************************************************************************)
(* One Driving analysis from the request that creates it to the removal   *)
(* of its media: DrivingAnalysisAuthority, the creation workflow with the  *)
(* preparation of the Track view, the tracking run as far as the analysis  *)
(* sees it, the clips, the lifecycle commands of the owner and the daily   *)
(* maintenance.                                                            *)
(*                                                                         *)
(* A retry gives the analysis a new workflow; workflow w has the run w.    *)
(* What one D1 batch does is one action, every await between two of them   *)
(* is a place where others may act. The steps of a workflow are named by   *)
(* `at`. No clock is modelled: maintenance may come round at any time.     *)
(***************************************************************************)
EXTENDS Integers, FiniteSets

CONSTANTS
    MaxClients,    \* requests of the owner that are under way at once
    Commands,      \* identities of the owner's retry commands
    MaxRequests,   \* requests that are new, a replayed correction is not
    MaxWorkflows,  \* how many workflows the analysis ever gets
    MaxTries,      \* how often the preparation step is tried again
    MaxGaps,       \* tracking gaps of one run
    MaxFaults      \* answers, dispatches, steps or requests that are lost

ASSUME LifecycleAssumption ==
    /\ MaxClients \in Nat /\ MaxRequests \in Nat /\ MaxWorkflows \in Nat \ {0} /\ MaxTries \in Nat
    /\ MaxGaps \in Nat /\ MaxFaults \in Nat

VARIABLES
    analysis,   \* the row of driving_analysis
    run,        \* tracking_run and its segments, per workflow
    intent,     \* preparation_intent.state, per workflow
    prepared,   \* the accepted Track view and its retention, per workflow
    clip,       \* corner_clip and its publication, per workflow
    deletion,   \* analysis_deletion: none, requested, or deletedAt is set
    receipt,    \* analysis_retry_command: the workflow a command has made
    source,     \* whether the Race recording is ready
    drive,      \* the Car, the Drive session and the Track map: all in force, not all, all again
    store,      \* objects in R2
    writing,    \* objects the media container has not finished
    instance,   \* the workflow instances
    request,    \* what each request is about to do, with what it has read
    sent,       \* new requests so far
    keeper,     \* the scheduled cleanup of deleted analyses
    claimed,    \* abandoned preparations whose objects are to be deleted
    faults      \* failures so far

vars == <<analysis, run, intent, prepared, clip, deletion, receipt, source, drive, store,
          writing, instance, request, sent, keeper, claimed, faults>>

Workflows == 1..MaxWorkflows
Clients == 1..MaxClients
Media == {"prepared", "clip"} \X Workflows

Active == {"queued", "running", "awaiting"}
Statuses == Active \cup {"none", "completed", "failed", "cancelled", "deleting", "deleted"}
\* `prepared` is the stage preparation at 20 percent.
Stages == <<"preparation", "prepared", "tracking", "finalization">>
Progress(stage) == CHOOSE k \in DOMAIN Stages : Stages[k] = stage

NoAnalysis == [status |-> "none", stage |-> "preparation", workflow |-> 0, version |-> 0]
NoRun == [status |-> "none", pinned |-> FALSE, gaps |-> 0, corrections |-> 0, evidence |-> "none"]
NoInstance == [status |-> "none", at |-> "off", payload |-> 0, version |-> 0, target |-> "none",
               event |-> FALSE, tries |-> 0]
NoRequest == [at |-> "idle", workflow |-> 0, version |-> 0, status |-> "none", command |-> "none"]
IdleKeeper == [at |-> "idle", keys |-> {}]

Init ==
    /\ analysis = NoAnalysis
    /\ run = [w \in Workflows |-> NoRun]
    /\ intent = [w \in Workflows |-> "none"]
    /\ prepared = [w \in Workflows |-> "none"]
    /\ clip = [w \in Workflows |-> "none"]
    /\ deletion = "none" /\ receipt = [k \in Commands |-> 0] /\ source = TRUE /\ drive = "current"
    /\ store = {} /\ writing = {}
    /\ instance = [w \in Workflows |-> NoInstance]
    /\ request = [c \in Clients |-> NoRequest]
    /\ sent = 0 /\ keeper = IdleKeeper /\ claimed = {} /\ faults = 0

rows == <<analysis, run, intent, prepared, clip, deletion, receipt>>
inputs == <<source, drive>>
media == <<store, writing>>
people == <<request, keeper, claimed>>

Fault == faults < MaxFaults /\ faults' = faults + 1
NoFault == UNCHANGED faults
Sends == sent < MaxRequests /\ sent' = sent + 1

\* Whether the triggers of driving_analysis admit the new row.
Admitted(new) ==
    /\ new.version = analysis.version + 1
    /\ analysis.status # "deleted"
    /\ IF new.workflow = analysis.workflow
       THEN /\ Progress(new.stage) >= Progress(analysis.stage)
            /\ CASE analysis.status = "queued"   -> new.status \in {"running", "failed", "cancelled", "deleting"}
                 [] analysis.status = "running"  -> new.status \in Statuses \ {"none", "queued", "deleted"}
                 [] analysis.status = "awaiting" -> new.status \in {"running", "cancelled", "deleting"}
                 [] analysis.status = "deleting" -> new.status \in {"deleting", "deleted"}
                 [] OTHER -> new.status = "deleting"
       ELSE /\ new.workflow = analysis.workflow + 1
            /\ analysis.status \in {"failed", "completed"}
            /\ new.status = "queued" /\ new.stage = "preparation"

\* The active runs among ws end with this status.
Fenced(ws, status) ==
    [w \in Workflows |-> IF w \in ws /\ run[w].status = "active"
                         THEN [run[w] EXCEPT !.status = status] ELSE run[w]]

-----------------------------------------------------------------------------
(* Requests of the owner: read the row, write it in one batch under a      *)
(* witness of what was read, then dispatch the workflow. Any of them may   *)
(* stop between two awaits, and any may be sent again.                     *)

Asks(c, at) == request[c].at = at
\* A request that begins takes the first free place.
Free(c) == Asks(c, "idle") /\ \A d \in 1..(c - 1) : ~Asks(d, "idle")
Answered(c) == request' = [request EXCEPT ![c] = NoRequest]
Remember(c, at) ==
    request' = [request EXCEPT ![c] = [NoRequest EXCEPT !.at = at, !.workflow = analysis.workflow,
                                        !.version = analysis.version, !.status = analysis.status]]
ThenTerminate(c) == request' = [request EXCEPT ![c] = [NoRequest EXCEPT !.at = "terminate", !.workflow = analysis.workflow]]
ThenDispatch(c, new) ==
    request' = [request EXCEPT ![c] = [NoRequest EXCEPT !.at = "dispatch", !.workflow = new.workflow,
                                        !.version = new.version]]

\* The row is still the one this request has read.
Unchanged(c) ==
    /\ analysis.workflow = request[c].workflow
    /\ analysis.version = request[c].version
    /\ analysis.status = request[c].status

BeginCreate(c) ==
    /\ Free(c) /\ Sends
    /\ analysis.status \in {"none", "queued"}
    /\ Remember(c, IF analysis.status = "none" THEN "create" ELSE "dispatch")
    /\ UNCHANGED <<rows, inputs, media, instance, keeper, claimed, faults>>

InForce == drive # "withdrawn"

\* A request that lost the race for the row answers like a replay of it.
Create(c) ==
    /\ Asks(c, "create")
    /\ IF analysis.status = "none" /\ source /\ InForce
       THEN /\ analysis' = [status |-> "queued", stage |-> "preparation", workflow |-> 1, version |-> 1]
            /\ ThenDispatch(c, analysis')
       ELSE /\ UNCHANGED analysis
            /\ IF analysis.status = "queued" THEN Remember(c, "dispatch") ELSE Answered(c)
    /\ UNCHANGED <<run, intent, prepared, clip, deletion, receipt, inputs, sent, media, instance, keeper, claimed, faults>>

BeginCancel(c) ==
    /\ Free(c) /\ Sends
    /\ analysis.status \in Active \cup {"cancelled"}
    /\ Remember(c, IF analysis.status = "cancelled" THEN "terminate" ELSE "cancel")
    /\ UNCHANGED <<rows, inputs, media, instance, keeper, claimed, faults>>

Cancel(c) ==
    LET new == [analysis EXCEPT !.status = "cancelled", !.version = @ + 1]
    IN  /\ Asks(c, "cancel")
        /\ IF Unchanged(c) /\ Admitted(new)
           THEN /\ analysis' = new
                /\ run' = Fenced({analysis.workflow}, "cancelled")
                /\ ThenTerminate(c)
           ELSE UNCHANGED <<analysis, run>> /\ Answered(c)
        /\ UNCHANGED <<intent, prepared, clip, deletion, receipt, inputs, sent, media, instance, keeper, claimed, faults>>

BeginRemove(c) ==
    /\ Free(c) /\ Sends
    /\ analysis.status \notin {"none", "deleted"}
    /\ Remember(c, IF analysis.status = "deleting" THEN "terminate" ELSE "remove")
    /\ UNCHANGED <<rows, inputs, media, instance, keeper, claimed, faults>>

Remove(c) ==
    /\ Asks(c, "remove")
    /\ IF Unchanged(c)
       THEN /\ analysis' = [analysis EXCEPT !.status = "deleting", !.version = @ + 1]
            /\ run' = Fenced(Workflows, "cancelled")
            /\ deletion' = "requested"
            /\ ThenTerminate(c)
       ELSE UNCHANGED <<analysis, run, deletion>> /\ Answered(c)
    /\ UNCHANGED <<intent, prepared, clip, receipt, inputs, sent, media, instance, keeper, claimed, faults>>

\* A command with a receipt is a replay: it resumes the workflow it has made.
BeginRetry(c, k) ==
    /\ Free(c) /\ Sends
    /\ \/ /\ receipt[k] # 0 /\ receipt[k] = analysis.workflow
          /\ analysis.status = "queued"
          /\ Remember(c, "dispatch")
       \/ /\ receipt[k] = 0
          /\ analysis.status = "queued" /\ analysis.workflow > 1
          /\ Remember(c, "dispatch")
       \/ /\ receipt[k] = 0
          /\ analysis.status \in {"failed", "completed"} /\ source
          /\ analysis.workflow < MaxWorkflows
          /\ request' = [request EXCEPT ![c] = [at |-> "retry", workflow |-> analysis.workflow,
                                                 version |-> analysis.version,
                                                 status |-> analysis.status, command |-> k]]
    /\ UNCHANGED <<rows, inputs, media, instance, keeper, claimed, faults>>

\* Faulty: the batch trusts what the request has read of the recording.
RetrySourceAsRead(c) == Unchanged(c)

\* What the batch of a retry requires: the row it has read, and a source that
\* is still ready.
Retriable(c) == Unchanged(c) /\ source

Retry(c) ==
    LET k == request[c].command
        new == [status |-> "queued", stage |-> "preparation", workflow |-> request[c].workflow + 1,
                version |-> request[c].version + 1]
    IN  /\ Asks(c, "retry")
        /\ IF Retriable(c) /\ receipt[k] = 0 /\ Admitted(new)
           THEN /\ receipt' = [receipt EXCEPT ![k] = new.workflow]
                /\ run' = Fenced(Workflows, "replaced")
                /\ analysis' = new
                /\ ThenDispatch(c, new)
           ELSE UNCHANGED <<analysis, run, receipt>> /\ Answered(c)
        /\ UNCHANGED <<intent, prepared, clip, deletion, inputs, sent, media, instance, keeper, claimed, faults>>

Begun(w, payload) ==
    instance' = [instance EXCEPT ![w] = [NoInstance EXCEPT !.status = "running", !.at = "begin", !.payload = payload]]

EndedAs(w, status) == [NoInstance EXCEPT !.status = status, !.payload = instance[w].payload]

\* startDrivingAnalysisWorkflow: the instance is made once; one that has
\* errored or was terminated is restarted, whatever it does by then.
Dispatch(c) ==
    LET w == request[c].workflow
    IN  /\ Asks(c, "dispatch")
        /\ IF instance[w].status = "none"
           THEN Begun(w, request[c].version)
           ELSE UNCHANGED instance
        /\ IF instance[w].status \in {"errored", "terminated"}
           THEN request' = [request EXCEPT ![c].at = "restart"]
           ELSE Answered(c)
        /\ UNCHANGED <<rows, inputs, sent, media, keeper, claimed, faults>>

Restart(c) ==
    /\ Asks(c, "restart")
    /\ Begun(request[c].workflow, instance[request[c].workflow].payload)
    /\ Answered(c)
    /\ UNCHANGED <<rows, inputs, sent, media, keeper, claimed, faults>>

Stopped(w) ==
    IF instance[w].status = "running"
    THEN [instance EXCEPT ![w] = EndedAs(w, "terminated")]
    ELSE instance

\* The cancellation workflow releases what the tracking run holds outside;
\* the original instance is terminated.
Terminate(c) ==
    /\ Asks(c, "terminate")
    /\ instance' = Stopped(request[c].workflow)
    /\ Answered(c)
    /\ UNCHANGED <<rows, inputs, sent, media, keeper, claimed, faults>>

\* The owner marks the subject after a gap; the same correction may be sent again.
Correct(c) ==
    LET w == analysis.workflow
    IN  /\ Free(c) /\ w # 0
        /\ run[w].status = "active"
        /\ run[w].gaps > 0 /\ run[w].gaps \in {run[w].corrections, run[w].corrections + 1}
        /\ IF run[w].gaps = run[w].corrections THEN UNCHANGED sent ELSE Sends
        /\ run' = [run EXCEPT ![w].corrections = run[w].gaps]
        /\ Remember(c, "signal")
        /\ UNCHANGED <<analysis, intent, prepared, clip, deletion, receipt, inputs, media, instance, keeper, claimed, faults>>

\* An event waits until the instance asks for it; an instance that has ended
\* takes none.
Signal(c) ==
    LET w == request[c].workflow
    IN  /\ Asks(c, "signal")
        /\ instance' = IF instance[w].status = "running" THEN [instance EXCEPT ![w].event = TRUE] ELSE instance
        /\ Answered(c)
        /\ UNCHANGED <<rows, inputs, sent, media, keeper, claimed, faults>>

-----------------------------------------------------------------------------
(* The workflow: preparation of the Track view.                            *)

Runs(w, at) == instance[w].status = "running" /\ instance[w].at = at
Goes(w, at) == instance' = [instance EXCEPT ![w].at = at]
GoesWith(w, at, version) == instance' = [instance EXCEPT ![w].at = at, ![w].version = version]
Ends(w, status) == instance' = [instance EXCEPT ![w] = EndedAs(w, status)]

\* hasCurrentWorkflowInput
Current(w) == analysis.workflow = w /\ source /\ InForce

\* What publishes nothing because it was published before goes on.
Replayed(w, version, stage) ==
    analysis.version > version /\ Progress(analysis.stage) >= Progress(stage)

BeginPreparation(w) ==
    LET version == instance[w].payload
    IN  /\ Runs(w, "begin")
        /\ CASE Current(w) /\ analysis.status = "queued" /\ analysis.version = version ->
                  /\ analysis' = [analysis EXCEPT !.status = "running", !.version = @ + 1]
                  /\ GoesWith(w, "create", version + 1)
             [] Current(w) /\ Replayed(w, version, "preparation") /\ analysis.stage = "preparation" ->
                  UNCHANGED analysis /\ GoesWith(w, "create", analysis.version)
             [] Current(w) /\ Replayed(w, version, "preparation") /\ analysis.stage = "tracking" ->
                  UNCHANGED analysis /\ Goes(w, "track")
             [] OTHER -> UNCHANGED analysis /\ Ends(w, "complete")
        /\ UNCHANGED <<run, intent, prepared, clip, deletion, receipt, inputs, sent, media, people, faults>>

\* Faulty: the tries are not limited.
PreparationTriesOn(w) == instance' = [instance EXCEPT ![w].at = "create", ![w].tries = @ + 1]

\* An error in the preparation step tries it again, then gives the workflow up.
PreparationFails(w) ==
    instance' = [instance EXCEPT ![w].at = IF instance[w].tries < MaxTries THEN "create" ELSE "fail",
                                 ![w].tries = IF @ < MaxTries THEN @ + 1 ELSE @]

\* The identity of the run is derived from the workflow, so there is one.
CreateRun(w) ==
    /\ Runs(w, "create")
    /\ IF source
       THEN /\ run' = IF run[w].status = "none" THEN [run EXCEPT ![w].status = "active"] ELSE run
            /\ Goes(w, "reread")
       ELSE UNCHANGED run /\ PreparationFails(w)
    /\ UNCHANGED <<analysis, intent, prepared, clip, deletion, receipt, inputs, sent, media, people, faults>>

\* The run is made without a look at the analysis; this is the look.
RereadAnalysis(w) ==
    /\ Runs(w, "reread")
    /\ CASE analysis.status \in {"deleting", "deleted"} -> PreparationFails(w)
         [] analysis.status = "cancelled" ->
              IF run[w].status = "active" THEN Goes(w, "fence") ELSE PreparationFails(w)
         [] OTHER -> Goes(w, "pin")
    /\ UNCHANGED <<rows, inputs, sent, media, people, faults>>

FenceRun(w) ==
    /\ Runs(w, "fence")
    /\ run' = Fenced({w}, "cancelled")
    /\ PreparationFails(w)
    /\ UNCHANGED <<analysis, intent, prepared, clip, deletion, receipt, inputs, sent, media, people, faults>>

\* A trigger refuses the input of a run whose source is not ready.
PinRunInput(w) ==
    /\ Runs(w, "pin")
    /\ IF run[w].status = "active" /\ (run[w].pinned \/ source)
       THEN run' = [run EXCEPT ![w].pinned = TRUE] /\ Goes(w, "context")
       ELSE UNCHANGED run /\ PreparationFails(w)
    /\ UNCHANGED <<analysis, intent, prepared, clip, deletion, receipt, inputs, sent, media, people, faults>>

Stored(kind, w) == <<kind, w>> \in store
Deleted(keys) == store' = store \ keys

\* A view that was accepted before is verified and used again.
PreparationContext(w) ==
    /\ Runs(w, "context")
    /\ CASE run[w].status # "active" -> PreparationFails(w)
         [] run[w].status = "active" /\ prepared[w] = "none" -> Goes(w, "intent")
         [] OTHER -> IF Stored("prepared", w) THEN Goes(w, "progress") ELSE PreparationFails(w)
    /\ UNCHANGED <<rows, inputs, sent, media, people, faults>>

\* The identity is recorded before the media container is asked for the view.
RecordPreparationIntent(w) ==
    LET recorded == IF run[w].status = "active" /\ intent[w] = "none" THEN "preparing" ELSE intent[w]
    IN  /\ Runs(w, "intent")
        /\ intent' = [intent EXCEPT ![w] = recorded]
        /\ IF run[w].status = "active" /\ recorded = "preparing"
           THEN writing' = writing \cup {<<"prepared", w>>} /\ Goes(w, "media")
           ELSE UNCHANGED writing /\ PreparationFails(w)
        /\ UNCHANGED <<analysis, run, prepared, clip, deletion, receipt, inputs, sent, store, people, faults>>

\* The container answers after the upload, and the object is as described.
MediaPrepared(w) ==
    /\ Runs(w, "media")
    /\ Stored("prepared", w) /\ <<"prepared", w>> \notin writing
    /\ Goes(w, "accept")
    /\ UNCHANGED <<rows, inputs, sent, media, people, faults>>

\* Faulty: acceptance does not ask whether the identity was claimed.
AcceptableUnclaimed(w) == run[w].status = "active" /\ prepared[w] = "none"

\* The batch of the acceptance finds the run active and the identity not
\* claimed by the cleanup of abandoned preparations.
Acceptable(w) ==
    /\ run[w].status = "active" /\ prepared[w] = "none"
    /\ intent[w] # "deleting"

AcceptPreparedTrackView(w) ==
    /\ Runs(w, "accept")
    /\ IF Acceptable(w)
       THEN prepared' = [prepared EXCEPT ![w] = "active"] /\ Goes(w, "progress")
       ELSE /\ UNCHANGED prepared
            /\ IF prepared[w] = "none" THEN Goes(w, "discard") ELSE PreparationFails(w)
    /\ UNCHANGED <<analysis, run, intent, clip, deletion, receipt, inputs, sent, media, people, faults>>

\* The call has an answer, or it is given up while the container goes on.
Answers(kind, w) == IF <<kind, w>> \in writing THEN Fault ELSE NoFault

\* The candidate of a container that fails, of a call that is given up and of
\* a refused acceptance is deleted.
DiscardCandidate(w) ==
    /\ \/ Runs(w, "media") /\ Answers("prepared", w)
       \/ Runs(w, "discard") /\ NoFault
    /\ Deleted({<<"prepared", w>>})
    /\ PreparationFails(w)
    /\ UNCHANGED <<rows, inputs, sent, writing, people>>

PublishPreparationProgress(w) ==
    LET version == instance[w].version
    IN  /\ Runs(w, "progress")
        /\ CASE Current(w) /\ analysis.version = version /\ analysis.status = "running"
                  /\ analysis.stage = "preparation" ->
                  /\ analysis' = [analysis EXCEPT !.stage = "prepared", !.version = @ + 1]
                  /\ GoesWith(w, "start", version + 1)
             [] Current(w) /\ Replayed(w, version, "prepared") ->
                  UNCHANGED analysis /\ GoesWith(w, "start", analysis.version)
             [] OTHER -> UNCHANGED analysis /\ Ends(w, "complete")
        /\ UNCHANGED <<run, intent, prepared, clip, deletion, receipt, inputs, sent, media, people, faults>>

PublishTrackingStart(w) ==
    LET version == instance[w].version
    IN  /\ Runs(w, "start")
        /\ CASE Current(w) /\ analysis.version = version /\ analysis.status = "running"
                  /\ analysis.stage = "prepared" ->
                  /\ analysis' = [analysis EXCEPT !.stage = "tracking", !.version = @ + 1]
                  /\ Goes(w, "track")
             [] Current(w) /\ Replayed(w, version, "tracking") ->
                  UNCHANGED analysis /\ Goes(w, "track")
             [] OTHER -> UNCHANGED analysis /\ Ends(w, "complete")
        /\ UNCHANGED <<run, intent, prepared, clip, deletion, receipt, inputs, sent, media, people, faults>>

-----------------------------------------------------------------------------
(* The workflow: tracking, evidence, clips and completion. A segment ends  *)
(* with a gap, with the race, or with a failure; what its attempts do is   *)
(* TrackingEvidence. One clip stands for the clips of a run.               *)

PublishesNext(w, target) == instance' = [instance EXCEPT ![w].at = "publish", ![w].target = target]

\* A run that is no longer active has no authority to track.
TrackingStale(w) ==
    /\ Runs(w, "track") \/ Runs(w, "resume") \/ Runs(w, "evidence")
    /\ run[w].status # "active"
    /\ Goes(w, "fail")
    /\ UNCHANGED <<rows, inputs, sent, media, people, faults>>

\* A provider answers for the segment that follows a correction.
ResumeTracking(w) ==
    /\ Runs(w, "resume") /\ run[w].status = "active"
    /\ PublishesNext(w, "running")
    /\ UNCHANGED <<rows, inputs, sent, media, people, faults>>

AcceptGap(w) ==
    /\ Runs(w, "track") /\ run[w].status = "active"
    /\ run[w].gaps = run[w].corrections /\ run[w].gaps < MaxGaps /\ run[w].evidence = "none"
    /\ run' = [run EXCEPT ![w].gaps = @ + 1]
    /\ PublishesNext(w, "awaiting")
    /\ UNCHANGED <<analysis, intent, prepared, clip, deletion, receipt, inputs, sent, media, people, faults>>

\* A restarted workflow finds the gap it has accepted before.
ResumeAtGap(w) ==
    /\ Runs(w, "track") /\ run[w].status = "active"
    /\ run[w].gaps > run[w].corrections
    /\ PublishesNext(w, "awaiting")
    /\ UNCHANGED <<rows, inputs, sent, media, people, faults>>

AcceptRace(w) ==
    /\ Runs(w, "track") /\ run[w].status = "active"
    /\ run[w].gaps = run[w].corrections
    /\ run' = [run EXCEPT ![w].evidence = IF @ = "none" THEN "accepted" ELSE @]
    /\ Goes(w, "evidence")
    /\ UNCHANGED <<analysis, intent, prepared, clip, deletion, receipt, inputs, sent, media, people, faults>>

TrackingFails(w) ==
    /\ Runs(w, "track") /\ run[w].status = "active" /\ run[w].evidence = "none"
    /\ PublishesNext(w, "failed")
    /\ UNCHANGED <<rows, inputs, sent, media, people, faults>>

\* Whatever came of the publication, the workflow goes on with its run.
GoesOn(w) ==
    Goes(w, CASE instance[w].target = "running" -> "track"
              [] instance[w].target = "awaiting" -> "wait"
              [] OTHER -> "fail")

\* publishTrackingState: what it has read of the row is its witness.
ReadTrackingState(w) ==
    LET target == instance[w].target
    IN  /\ Runs(w, "publish")
        /\ IF /\ run[w].status = "active"
              /\ analysis.workflow = w /\ analysis.stage = "tracking"
              /\ analysis.status \in {"running", "awaiting"} \ {target}
           THEN GoesWith(w, "write", analysis.version)
           ELSE GoesOn(w)
        /\ UNCHANGED <<rows, inputs, sent, media, people, faults>>

Witnessed(w) ==
    /\ analysis.workflow = w /\ analysis.stage = "tracking"
    /\ analysis.version = instance[w].version

\* A trigger refuses to fail an analysis that awaits the owner.
PublishTrackingState(w) ==
    LET new == [analysis EXCEPT !.status = instance[w].target, !.version = @ + 1]
    IN  /\ Runs(w, "write")
        /\ CASE ~Witnessed(w) -> UNCHANGED <<analysis, run>> /\ GoesOn(w)
             [] Witnessed(w) /\ ~Admitted(new) -> UNCHANGED <<analysis, run>> /\ Goes(w, "fail")
             [] OTHER -> /\ analysis' = new
                         /\ run' = IF instance[w].target = "failed" THEN Fenced({w}, "failed") ELSE run
                         /\ GoesOn(w)
        /\ UNCHANGED <<intent, prepared, clip, deletion, receipt, inputs, sent, media, people, faults>>

\* An event only wakes the workflow; the saved correction is what it goes by.
WakeUp(w) ==
    /\ Runs(w, "wait") /\ instance[w].event
    /\ instance' = [instance EXCEPT ![w].event = FALSE,
                                    ![w].at = IF run[w].status # "active" THEN "fail"
                                              ELSE IF run[w].gaps = run[w].corrections THEN "resume"
                                              ELSE "wait"]
    /\ UNCHANGED <<rows, inputs, sent, media, people, faults>>

CommitEvidence(w) ==
    /\ Runs(w, "evidence") /\ run[w].status = "active"
    /\ run' = [run EXCEPT ![w].evidence = "committed"]
    /\ Goes(w, "inputs")
    /\ UNCHANGED <<analysis, intent, prepared, clip, deletion, receipt, inputs, sent, media, people, faults>>

\* The analysis still wants the clips of this run.
Renders(w) ==
    /\ analysis.workflow = w /\ analysis.status \in {"running", "awaiting"}
    /\ run[w].status \in {"active", "completed"}

ReadClipInputs(w) ==
    /\ Runs(w, "inputs")
    /\ Goes(w, IF Renders(w) THEN "plan" ELSE "complete")
    /\ UNCHANGED <<rows, inputs, sent, media, people, faults>>

\* The row is there before the object, whatever became of the analysis.
RenderClip(w) ==
    /\ Runs(w, "plan")
    /\ clip' = [clip EXCEPT ![w] = IF @ = "none" THEN "planned" ELSE @]
    /\ IF clip[w] = "published"
       THEN UNCHANGED writing /\ Goes(w, "complete")
       ELSE writing' = writing \cup {<<"clip", w>>} /\ Goes(w, "rendering")
    /\ UNCHANGED <<analysis, run, intent, prepared, deletion, receipt, inputs, sent, store, people, faults>>

ClipRendered(w) ==
    /\ Runs(w, "rendering") /\ Answers("clip", w)
    /\ Goes(w, IF Stored("clip", w) /\ <<"clip", w>> \notin writing THEN "publishClip" ELSE "fail")
    /\ UNCHANGED <<rows, inputs, sent, media, people>>

PublishClip(w) ==
    /\ Runs(w, "publishClip")
    /\ IF Renders(w)
       THEN clip' = [clip EXCEPT ![w] = "published"] /\ Goes(w, "complete") /\ UNCHANGED store
       ELSE /\ UNCHANGED clip /\ Goes(w, "fail")
            /\ IF analysis.status \in {"deleting", "deleted"} THEN Deleted({<<"clip", w>>}) ELSE UNCHANGED store
    /\ UNCHANGED <<analysis, run, intent, prepared, deletion, receipt, inputs, sent, writing, people, faults>>

\* Every accepted segment is reviewable.
Reviewable(w) == run[w].evidence = "committed" /\ clip[w] = "published"

CompleteDrivingAnalysis(w) ==
    LET new == [analysis EXCEPT !.status = "completed", !.stage = "finalization", !.version = @ + 1]
    IN  /\ Runs(w, "complete")
        /\ IF /\ run[w].status = "active" /\ Reviewable(w)
              /\ analysis.workflow = w /\ analysis.status \in Active /\ Admitted(new)
           THEN run' = Fenced({w}, "completed") /\ analysis' = new /\ Ends(w, "complete")
           ELSE UNCHANGED <<run, analysis>> /\ Goes(w, "fail")
        /\ UNCHANGED <<intent, prepared, clip, deletion, receipt, inputs, sent, media, people, faults>>

-----------------------------------------------------------------------------
(* The workflow: failure, steps whose answer is lost, workflows that die.  *)

\* Faulty: only an analysis that still waits in the queue fails.
FailWhenQueued(w) ==
    /\ Runs(w, "fail")
    /\ IF Current(w) /\ analysis.status = "queued"
       THEN GoesWith(w, "publishFailure", analysis.version)
       ELSE Ends(w, "errored")
    /\ UNCHANGED <<rows, inputs, sent, media, people, faults>>

ReadForFailure(w) ==
    /\ Runs(w, "fail")
    /\ IF Current(w) /\ analysis.status \in {"queued", "running"}
       THEN GoesWith(w, "publishFailure", analysis.version)
       ELSE Ends(w, "errored")
    /\ UNCHANGED <<rows, inputs, sent, media, people, faults>>

\* The run is fenced without the witness of the analysis.
PublishWorkflowFailure(w) ==
    /\ Runs(w, "publishFailure")
    /\ run' = Fenced({w}, "failed")
    /\ analysis' = IF /\ analysis.workflow = w /\ analysis.version = instance[w].version
                      /\ analysis.status \in {"queued", "running"}
                   THEN [analysis EXCEPT !.status = "failed", !.version = @ + 1]
                   ELSE analysis
    /\ Ends(w, "errored")
    /\ UNCHANGED <<intent, prepared, clip, deletion, receipt, inputs, sent, media, people, faults>>

\* Where a step begins whose answer was lost after it had acted.
StepOf(at) ==
    CASE at = "create" -> "begin"
      [] at \in {"reread", "fence", "pin", "context", "intent", "media", "accept", "discard", "progress"} -> "create"
      [] at = "start" -> "progress"
      [] at = "track" -> "start"
      [] at = "write" -> "publish"
      [] at \in {"inputs", "plan", "rendering", "publishClip"} -> "inputs"
      [] at = "publishFailure" -> "fail"
      [] OTHER -> at

RunAgain(w) ==
    /\ instance[w].status = "running" /\ StepOf(instance[w].at) # instance[w].at /\ Fault
    /\ Goes(w, StepOf(instance[w].at))
    /\ UNCHANGED <<rows, inputs, sent, media, people>>

\* A step that fails for good, after its tries, fails the workflow.
StepFails(w) ==
    /\ instance[w].status = "running" /\ Fault
    /\ instance[w].at \in {"create", "progress", "start", "publish", "resume", "evidence", "inputs", "publishClip", "complete"}
    /\ Goes(w, "fail")
    /\ UNCHANGED <<rows, inputs, sent, media, people>>

\* A step outside the catch fails for good.
Die(w) ==
    /\ Runs(w, "begin") \/ Runs(w, "fail") \/ Runs(w, "publishFailure")
    /\ Fault
    /\ Ends(w, "errored")
    /\ UNCHANGED <<rows, inputs, sent, media, people>>

-----------------------------------------------------------------------------
(* The container, the recording, and the daily maintenance.                *)

FinishWrite(m) ==
    /\ m \in writing
    /\ writing' = writing \ {m} /\ store' = store \cup {m}
    /\ UNCHANGED <<rows, inputs, sent, instance, people, faults>>

AbortWrite(m) ==
    /\ m \in writing
    /\ writing' = writing \ {m}
    /\ UNCHANGED <<rows, inputs, sent, store, instance, people, faults>>

InUse ==
    \/ analysis.status \in Active
    \/ \E w \in Workflows : run[w].status = "active" /\ run[w].pinned

\* Discarding the recording is RaceRecordingUpload's; its claim looks here.
DiscardSource ==
    /\ source /\ ~InUse
    /\ source' = FALSE
    /\ UNCHANGED <<rows, drive, sent, media, instance, people, faults>>

\* A request archives the Car, deletes the session or retires the Track map,
\* whatever becomes of the analyses made of them; all but a retired map return.
WithdrawDrive ==
    /\ InForce /\ Sends
    /\ drive' = "withdrawn"
    /\ UNCHANGED <<rows, source, media, instance, people, faults>>

RestoreDrive ==
    /\ ~InForce /\ Sends
    /\ drive' = "restored"
    /\ UNCHANGED <<rows, source, media, instance, people, faults>>

\* Faulty: a clip that was planned and never published has no key.
PublishedKeys ==
    {m \in Media : \/ m[1] = "prepared" /\ (prepared[m[2]] # "none" \/ intent[m[2]] # "none")
                   \/ m[1] = "clip" /\ clip[m[2]] = "published"}

\* Every object that a row has named before it was written.
NamedKeys ==
    {m \in Media : \/ m[1] = "prepared" /\ (prepared[m[2]] # "none" \/ intent[m[2]] # "none")
                   \/ m[1] = "clip" /\ clip[m[2]] # "none"}

\* A deletion comes up every day, also when it is done.
BeginCleanup ==
    /\ keeper.at = "idle" /\ deletion # "none"
    /\ instance' = IF deletion = "requested" THEN Stopped(analysis.workflow) ELSE instance
    /\ keeper' = [at |-> "delete", keys |-> NamedKeys]
    /\ UNCHANGED <<rows, inputs, sent, media, request, claimed, faults>>

\* Only when all the objects are deleted the analysis is.
DeleteMedia ==
    /\ keeper.at = "delete"
    /\ Deleted(keeper.keys)
    /\ analysis' = IF analysis.status = "deleting"
                   THEN [analysis EXCEPT !.status = "deleted", !.version = @ + 1] ELSE analysis
    /\ deletion' = "done"
    /\ keeper' = IdleKeeper
    /\ UNCHANGED <<run, intent, prepared, clip, receipt, inputs, sent, writing, instance, request, claimed, faults>>

\* Some of the objects are deleted, the others are tried again another day.
DeleteMediaFails ==
    /\ keeper.at = "delete" /\ Fault
    /\ \E keys \in SUBSET keeper.keys : Deleted(keys)
    /\ keeper' = IdleKeeper
    /\ UNCHANGED <<rows, inputs, sent, writing, instance, request, claimed>>

\* An accepted view goes a day after its run has ended. No upload lasts a day.
SweepAccepted(w) ==
    /\ prepared[w] = "active" /\ run[w].status # "active"
    /\ <<"prepared", w>> \notin writing
    /\ Deleted({<<"prepared", w>>})
    /\ \/ prepared' = [prepared EXCEPT ![w] = "deleted"] /\ NoFault
       \/ UNCHANGED prepared /\ Fault
    /\ UNCHANGED <<analysis, run, intent, clip, deletion, receipt, inputs, sent, writing, instance, people>>

\* A preparation is abandoned when nothing was accepted within a day.
Abandoned(w) == intent[w] # "none" /\ prepared[w] = "none"

ClaimAbandoned(w) ==
    /\ w \notin claimed /\ Abandoned(w)
    /\ intent' = [intent EXCEPT ![w] = "deleting"]
    /\ claimed' = claimed \cup {w}
    /\ UNCHANGED <<analysis, run, prepared, clip, deletion, receipt, inputs, sent, media, instance, request, keeper, faults>>

DeleteAbandoned(w) ==
    /\ w \in claimed
    /\ claimed' = claimed \ {w}
    /\ Deleted({<<"prepared", w>>})
    /\ UNCHANGED <<rows, inputs, sent, writing, instance, request, keeper, faults>>

-----------------------------------------------------------------------------
Requests(c) ==
    \/ Create(c) \/ Cancel(c) \/ Remove(c) \/ Retry(c)
    \/ Dispatch(c) \/ Restart(c) \/ Terminate(c) \/ Signal(c)

Begins(c) ==
    \/ BeginCreate(c) \/ BeginCancel(c) \/ BeginRemove(c) \/ Correct(c)
    \/ \E k \in Commands : BeginRetry(c, k)

Preparation(w) ==
    \/ BeginPreparation(w) \/ CreateRun(w) \/ RereadAnalysis(w) \/ FenceRun(w)
    \/ PinRunInput(w) \/ PreparationContext(w) \/ RecordPreparationIntent(w)
    \/ MediaPrepared(w) \/ AcceptPreparedTrackView(w) \/ DiscardCandidate(w)
    \/ PublishPreparationProgress(w) \/ PublishTrackingStart(w)

Tracking(w) ==
    \/ TrackingStale(w) \/ ResumeTracking(w) \/ AcceptGap(w) \/ ResumeAtGap(w) \/ AcceptRace(w)
    \/ TrackingFails(w) \/ ReadTrackingState(w) \/ PublishTrackingState(w) \/ WakeUp(w)
    \/ CommitEvidence(w) \/ ReadClipInputs(w) \/ RenderClip(w) \/ ClipRendered(w)
    \/ PublishClip(w) \/ CompleteDrivingAnalysis(w) \/ ReadForFailure(w) \/ PublishWorkflowFailure(w)

Writes(m) == FinishWrite(m) \/ AbortWrite(m)
Cleanup == BeginCleanup \/ DeleteMedia
Sweeps(w) == SweepAccepted(w) \/ ClaimAbandoned(w) \/ DeleteAbandoned(w)

Next ==
    \/ \E c \in Clients : Begins(c) \/ Requests(c)
    \/ \E w \in Workflows : Preparation(w) \/ Tracking(w) \/ StepFails(w) \/ RunAgain(w) \/ Die(w) \/ Sweeps(w)
    \/ \E m \in Media : Writes(m)
    \/ Cleanup \/ DeleteMediaFails \/ DiscardSource \/ WithdrawDrive \/ RestoreDrive

Spec == Init /\ [][Next]_vars

\* Containers finish or give up, a step of a workflow is tried until it is
\* done, maintenance comes round; a request may always stop.
Fairness ==
    /\ WF_vars(\E w \in Workflows : Preparation(w) \/ Tracking(w))
    /\ WF_vars(\E m \in Media : Writes(m))
    /\ \A w \in Workflows : WF_vars(Sweeps(w))
    /\ WF_vars(Cleanup)

FairSpec == Spec /\ Fairness
\* The owner who has marked the subject sends the mark until it works.
PersistentSpec ==
    /\ FairSpec
    /\ WF_vars(\E c \in Clients : Correct(c))
    /\ \A c \in Clients : WF_vars(Requests(c))

-----------------------------------------------------------------------------
Ats == {"off", "begin", "create", "reread", "fence", "pin", "context", "intent",
        "media", "accept", "discard", "progress", "start", "track", "publish", "write",
        "wait", "resume", "evidence", "inputs", "plan", "rendering", "publishClip",
        "complete", "fail", "publishFailure"}

\* The shape of the state.
TypeOK ==
    /\ analysis \in [status : Statuses, stage : {"preparation", "prepared", "tracking", "finalization"},
                     workflow : 0..MaxWorkflows, version : Nat]
    /\ run \in [Workflows -> [status : {"none", "active", "completed", "failed", "cancelled", "replaced"},
                              pinned : BOOLEAN, gaps : 0..MaxGaps, corrections : 0..MaxGaps,
                              evidence : {"none", "accepted", "committed"}]]
    /\ intent \in [Workflows -> {"none", "preparing", "deleting"}]
    /\ prepared \in [Workflows -> {"none", "active", "deleted"}]
    /\ clip \in [Workflows -> {"none", "planned", "published"}]
    /\ deletion \in {"none", "requested", "done"}
    /\ receipt \in [Commands -> 0..MaxWorkflows]
    /\ source \in BOOLEAN /\ drive \in {"current", "withdrawn", "restored"}
    /\ store \subseteq Media /\ writing \subseteq Media
    /\ instance \in [Workflows -> [status : {"none", "running", "complete", "errored", "terminated"}, at : Ats,
                                   payload : Nat, version : Nat, target : {"none", "running", "awaiting", "failed"},
                                   event : BOOLEAN, tries : 0..MaxTries]]
    /\ request \in [Clients -> [at : {"idle", "create", "cancel", "remove", "retry", "dispatch", "restart", "terminate", "signal"},
                                workflow : 0..MaxWorkflows, version : Nat, status : Statuses,
                                command : Commands \cup {"none"}]]
    /\ keeper \in [at : {"idle", "delete"}, keys : SUBSET Media]
    /\ claimed \subseteq Workflows /\ faults \in 0..MaxFaults

\* An analysis takes the recording only while it is ready, and keeps it from
\* being discarded until the last run that has it as its input has ended.
Use == INSTANCE RecordingUse WITH ready <- source, inUse <- InUse
UsesReadySource == Use!Spec

\* The accepted Track view of a run that goes on is there: neither a refused
\* candidate, nor the claim of an abandoned preparation, nor a sweep or a
\* deletion that began for another reason takes it away.
AcceptedMediaIsKept ==
    \A w \in Workflows : prepared[w] = "active" /\ run[w].status = "active" => Stored("prepared", w)

\* What the owner sees as completed is whole: the run has ended with committed
\* evidence, and its clips can be watched.
CompletedIsWhole ==
    analysis.status = "completed" =>
        LET w == analysis.workflow
        IN  /\ run[w].status = "completed" /\ run[w].evidence = "committed"
            /\ clip[w] = "published" /\ Stored("clip", w)

\* Media are there as long as somebody goes by them, the next step of the run
\* or the owner who watches the clips.
MediaAreThere == AcceptedMediaIsKept /\ CompletedIsWhole

\* Deletion is final for the media, including what a container or a workflow
\* finishes after the keys were deleted.
DeletedLeavesNothing == <>[](deletion # "none" => store = {})

\* The Track view is working media: it goes when its run has ended.
WorkingMediaGoes ==
    <>[](\A w \in Workflows : run[w].status \notin {"none", "active"} => ~Stored("prepared", w))

\* Media nobody is entitled to any more are gone in the end, whatever is still
\* uploading when they are deleted.
MediaGo == DeletedLeavesNothing /\ WorkingMediaGoes

\* A workflow that finds its Car, session or map withdrawn publishes nothing
\* more, not even its failure: it ends, and the analysis stays running until
\* the owner cancels or deletes it, also when all are in force again.
LeftRunning ==
    drive # "current" /\ instance[analysis.workflow].status \in {"complete", "errored"}

\* Unless a step fails for good, a workflow that has taken its analysis to
\* running brings it out again: it waits for the owner, or has ended. Only what
\* the analysis is made of being withdrawn makes the workflow end without it.
AnalysisSettles == []<>(analysis.status # "running" \/ faults > 0 \/ LeftRunning)

\* The correction of a gap that is saved resumes the tracking, when it is sent
\* again and again.
Corrected ==
    /\ analysis.status = "awaiting"
    /\ run[analysis.workflow].gaps = run[analysis.workflow].corrections
CorrectionResumes == []<>~Corrected
=============================================================================
