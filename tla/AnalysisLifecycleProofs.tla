------------------------ MODULE AnalysisLifecycleProofs ------------------------
(***************************************************************************)
(* Theorems about one Driving analysis, for any number of requests,        *)
(* retries, workflows, gaps and faults. The argument follows each workflow *)
(* on its own: what its run, its rows, its objects and the step it stands  *)
(* at say of each other. A run can still begin after the deletion of its   *)
(* analysis, but then the workflow gets no further than the look that      *)
(* follows, so it never asks for media.                                    *)
(***************************************************************************)
EXTENDS AnalysisLifecycle, TLAPS

USE DEF inputs

AnalysisType == [status : Statuses, stage : {"preparation", "prepared", "tracking", "finalization"},
                 workflow : 0..MaxWorkflows, version : Nat]
RunType == [status : {"none", "active", "completed", "failed", "cancelled", "replaced"},
            pinned : BOOLEAN, gaps : 0..MaxGaps, corrections : 0..MaxGaps,
            evidence : {"none", "accepted", "committed"}]
InstanceType == [status : {"none", "running", "complete", "errored", "terminated"}, at : Ats,
                 payload : Nat, version : Nat, target : {"none", "running", "awaiting", "failed"},
                 event : BOOLEAN, tries : 0..MaxTries]
RequestType == [at : {"idle", "create", "cancel", "remove", "retry", "dispatch", "restart",
                      "terminate", "signal"},
                workflow : 0..MaxWorkflows, version : Nat, status : Statuses,
                command : Commands \cup {"none"}]
KeeperType == [at : {"idle", "delete"}, keys : SUBSET Media]

Typed ==
    /\ analysis \in AnalysisType
    /\ run \in [Workflows -> RunType]
    /\ intent \in [Workflows -> {"none", "preparing", "deleting"}]
    /\ prepared \in [Workflows -> {"none", "active", "deleted"}]
    /\ clip \in [Workflows -> {"none", "planned", "published"}]
    /\ deletion \in {"none", "requested", "done"}
    /\ receipt \in [Commands -> 0..MaxWorkflows]
    /\ source \in BOOLEAN /\ drive \in {"current", "withdrawn", "restored"}
    /\ store \subseteq Media /\ writing \subseteq Media
    /\ instance \in [Workflows -> InstanceType]
    /\ request \in [Clients -> RequestType]
    /\ keeper \in KeeperType
    /\ claimed \subseteq Workflows /\ faults \in 0..MaxFaults

\* Where a workflow may stand before it has a run, and before it has looked at
\* the analysis again.
Before == {"off", "begin", "create", "fail", "publishFailure"}
Early == Before \cup {"reread"}
\* Where it stands on the way to an accepted Track view or to a published clip.
Delicate == {"intent", "media", "accept", "discard", "publishClip"}

\* What the rows, the objects and the step of one workflow say of each other.
FlowOK(w) ==
    /\ run[w].status = "none" =>
            ~ run[w].pinned /\ prepared[w] = "none" /\ instance[w].at \in Before
    /\ w \in claimed => intent[w] = "deleting"
    /\ intent[w] = "deleting" => prepared[w] = "none"
    /\ instance[w].at \in Delicate \ {"publishClip"} => prepared[w] = "none"
    /\ run[w].status = "active" =>
          /\ prepared[w] = "active" => Stored("prepared", w)
          /\ instance[w].at = "accept" => Stored("prepared", w) \/ intent[w] = "deleting"
    /\ deletion = "none" =>
          (clip[w] = "published" \/ instance[w].at = "publishClip" => Stored("clip", w))
    /\ deletion # "none" /\ run[w].status = "active" =>
          /\ prepared[w] = "none" /\ instance[w].at \in Early
          /\ analysis.workflow = w => analysis.stage = "preparation"

RequestOK(c) ==
    /\ request[c].at \notin {"idle", "create"} => request[c].workflow \in Workflows
    /\ request[c].at = "retry" => /\ request[c].workflow < MaxWorkflows
                                  /\ request[c].command \in Commands

AnalysisOK ==
    /\ analysis.status # "none" => analysis.workflow \in Workflows
    /\ (deletion # "none") = (analysis.status \in {"deleting", "deleted"})
    /\ keeper.at = "delete" => deletion # "none"
    /\ analysis.stage # "preparation" =>
            analysis.workflow \in Workflows /\ run[analysis.workflow].status # "none"
    /\ analysis.status = "completed" =>
            /\ run[analysis.workflow].status = "completed"
            /\ run[analysis.workflow].evidence = "committed"
            /\ clip[analysis.workflow] = "published"

IInv ==
    /\ Typed /\ AnalysisOK
    /\ \A w \in Workflows : FlowOK(w)
    /\ \A c \in Clients : RequestOK(c)

-----------------------------------------------------------------------------
(* Steps that leave the places of the workflows as they are.               *)

\* What FlowOK relies on is kept, but for the step the workflow stands at; a run
\* goes from active to an end and never back.
Kept(w) ==
    /\ prepared'[w] = prepared[w] /\ intent'[w] = intent[w] /\ clip'[w] = clip[w]
    /\ \/ run'[w] = run[w]
       \/ /\ run[w].status # "none" /\ run'[w].status # "none"
          /\ run'[w].status = "active" => run[w].status = "active"
    /\ w \in claimed' => w \in claimed
    /\ Stored("prepared", w) => Stored("prepared", w)'
    /\ Stored("clip", w) => Stored("clip", w)'
    /\ deletion' = deletion
    /\ deletion # "none" =>
            analysis'.workflow = analysis.workflow /\ analysis'.stage = analysis.stage

\* A workflow with a run may go to a place where nothing is relied on, unless it
\* has gone on past the deletion.
May(w, at) ==
    /\ run[w].status # "none" /\ at \notin Delicate
    /\ at = "reread" \/ deletion = "none" \/ run[w].status # "active"

\* The workflow stays, or goes where nothing is relied on.
Steady(w) ==
    \/ instance'[w].at = instance[w].at
    \/ instance'[w].at \in Before
    \/ instance[w].at \notin Early /\ instance'[w].at \notin Delicate
    \/ May(w, instance'[w].at)

LEMMA FlowKept ==
    ASSUME NEW w \in Workflows, FlowOK(w), Kept(w), Steady(w)
    PROVE  FlowOK(w)'
BY DEF FlowOK, Kept, Steady, May, Before, Early, Delicate

\* Runs do not disappear, and a completed one stays as it is.
RunsLast ==
    \A w \in Workflows :
        /\ run[w].status # "none" => run'[w].status # "none"
        /\ run[w].status = "completed" =>
                run'[w].status = "completed" /\ run'[w].evidence = run[w].evidence
        /\ clip[w] = "published" => clip'[w] = "published"

LEMMA AnalysisKept ==
    ASSUME AnalysisOK, RunsLast, UNCHANGED <<analysis, deletion>>,
           keeper'.at = "delete" => deletion # "none"
    PROVE  AnalysisOK'
BY DEF AnalysisOK, RunsLast

\* The analysis goes on within its workflow, to a status that is neither completed nor
\* one of a deletion.
LEMMA AnalysisGoesOn ==
    ASSUME AnalysisOK, RunsLast, UNCHANGED <<deletion, keeper>>, deletion = "none",
           analysis'.workflow \in Workflows,
           analysis'.status \in Active \cup {"failed", "cancelled"},
           \/ analysis'.stage = "preparation"
           \/ run'[analysis'.workflow].status # "none"
    PROVE  AnalysisOK'
BY DEF AnalysisOK, RunsLast, Active

LEMMA RequestsKept ==
    ASSUME \A c \in Clients : RequestOK(c), request' = request
    PROVE  \A c \in Clients : RequestOK(c)'
BY DEF RequestOK

\* A request takes its next step with what it remembers.
LEMMA RequestSet ==
    ASSUME IInv, NEW c \in Clients, NEW q \in RequestType, request' = [request EXCEPT ![c] = q],
           q.at \notin {"idle", "create"} => q.workflow \in Workflows,
           q.at = "retry" => q.workflow < MaxWorkflows /\ q.command \in Commands
    PROVE  request' \in [Clients -> RequestType] /\ \A d \in Clients : RequestOK(d)'
<1>1. request \in [Clients -> RequestType] /\ \A d \in Clients : RequestOK(d)
    BY DEF IInv, Typed
<1>2. request' \in [Clients -> RequestType] /\ request'[c] = q
            /\ \A d \in Clients \ {c} : request'[d] = request[d]
    BY <1>1
<1> QED  BY <1>1, <1>2 DEF RequestOK

LEMMA AnsweredFacts ==
    ASSUME IInv, NEW c \in Clients, Answered(c)
    PROVE  request' \in [Clients -> RequestType] /\ \A d \in Clients : RequestOK(d)'
<1>1. NoRequest \in RequestType /\ NoRequest.at = "idle"
    BY LifecycleAssumption DEF NoRequest, RequestType, Statuses, Active
<1> QED  BY <1>1, RequestSet DEF Answered

LEMMA RememberFacts ==
    ASSUME IInv, NEW c \in Clients,
           NEW at \in {"create", "cancel", "remove", "dispatch", "terminate", "signal"},
           Remember(c, at), at # "create" => analysis.workflow \in Workflows
    PROVE  request' \in [Clients -> RequestType] /\ \A d \in Clients : RequestOK(d)'
<1>1. PICK q : q = [NoRequest EXCEPT !.at = at, !.workflow = analysis.workflow,
                                     !.version = analysis.version, !.status = analysis.status]
    OBVIOUS
<1>2. q \in RequestType /\ q.at = at /\ q.workflow = analysis.workflow
    BY <1>1, LifecycleAssumption DEF NoRequest, RequestType, IInv, Typed, AnalysisType
<1> QED  BY <1>1, <1>2, RequestSet DEF Remember

LEMMA ThenFacts ==
    ASSUME IInv, NEW c \in Clients, NEW new \in AnalysisType, new.workflow \in Workflows,
           ThenDispatch(c, new)
    PROVE  request' \in [Clients -> RequestType] /\ \A d \in Clients : RequestOK(d)'
<1>1. PICK q : q = [NoRequest EXCEPT !.at = "dispatch", !.workflow = new.workflow,
                                     !.version = new.version]
    OBVIOUS
<1>2. q \in RequestType /\ q.at = "dispatch" /\ q.workflow = new.workflow
    BY <1>1, LifecycleAssumption DEF NoRequest, RequestType, AnalysisType, Statuses
<1> QED  BY <1>1, <1>2, RequestSet DEF ThenDispatch

LEMMA ThenTerminateFacts ==
    ASSUME IInv, NEW c \in Clients, analysis.workflow \in Workflows, ThenTerminate(c)
    PROVE  request' \in [Clients -> RequestType] /\ \A d \in Clients : RequestOK(d)'
<1>1. PICK q : q = [NoRequest EXCEPT !.at = "terminate", !.workflow = analysis.workflow]
    OBVIOUS
<1>2. q \in RequestType /\ q.at = "terminate" /\ q.workflow = analysis.workflow
    BY <1>1, LifecycleAssumption
    DEF NoRequest, RequestType, IInv, Typed, AnalysisType, Statuses
<1> QED  BY <1>1, <1>2, RequestSet DEF ThenTerminate

\* A step that only a request takes: no row changes.
LEMMA OnlyRequests ==
    ASSUME IInv, UNCHANGED <<rows, inputs, media, instance, keeper, claimed, faults>>,
           request' \in [Clients -> RequestType], \A c \in Clients : RequestOK(c)'
    PROVE  IInv'
<1>1. Typed'  BY DEF IInv, Typed, rows, media
<1>2. \A w \in Workflows : Kept(w) /\ Steady(w)
    BY DEF Kept, Steady, rows, media, Stored
<1>3. \A w \in Workflows : FlowOK(w)'  BY <1>2, FlowKept DEF IInv
<1>4. AnalysisOK'  BY AnalysisKept DEF IInv, AnalysisOK, RunsLast, rows
<1> QED  BY <1>1, <1>3, <1>4 DEF IInv

\* Fencing ends active runs and touches no others.
LEMMA FencedFacts ==
    ASSUME IInv, NEW ws \in SUBSET Workflows,
           NEW status \in {"completed", "failed", "cancelled", "replaced"},
           run' = Fenced(ws, status)
    PROVE  /\ run' \in [Workflows -> RunType]
           /\ \A w \in Workflows :
                \/ run'[w] = run[w]
                \/ /\ run[w].status = "active" /\ run'[w].status = status /\ w \in ws
                   /\ run'[w].evidence = run[w].evidence
           /\ \A w \in ws : run'[w].status # "active"
           /\ \A w \in ws : run[w].status = "active" => run'[w].status = status
<1>1. run \in [Workflows -> RunType]  BY DEF IInv, Typed
<1>2. ASSUME NEW w \in Workflows
      PROVE  /\ run'[w] \in RunType
             /\ \/ run'[w] = run[w]
                \/ /\ run[w].status = "active" /\ run'[w].status = status /\ w \in ws
                   /\ run'[w].evidence = run[w].evidence
             /\ w \in ws => run'[w].status # "active"
             /\ w \in ws /\ run[w].status = "active" => run'[w].status = status
    <2>1. PICK r : r = run[w]  OBVIOUS
    <2>2. r \in RunType  BY <1>1, <2>1
    <2>3. run'[w] = IF w \in ws /\ r.status = "active" THEN [r EXCEPT !.status = status] ELSE r
        BY <2>1 DEF Fenced
    <2> QED  BY <2>1, <2>2, <2>3 DEF RunType
<1>3. run' \in [Workflows -> RunType]  BY <1>2 DEF Fenced
<1> QED  BY <1>2, <1>3

-----------------------------------------------------------------------------
(* What happens to the instance of a workflow.                             *)

\* The instance of w, and no other, moves to one of these places.
Move(w, ats) ==
    /\ instance' \in [Workflows -> InstanceType]
    /\ instance'[w].at \in ats
    /\ \A v \in Workflows \ {w} : instance'[v] = instance[v]

LEMMA MoveSteady ==
    ASSUME NEW w \in Workflows, NEW ats, Move(w, ats),
           \A at \in ats : \/ at = instance[w].at \/ at \in Before
                           \/ instance[w].at \notin Early /\ at \notin Delicate
                           \/ May(w, at)
    PROVE  \A v \in Workflows : Steady(v)
BY DEF Move, Steady

LEMMA InstanceSet ==
    ASSUME IInv, NEW w \in Workflows, NEW i \in InstanceType, instance' = [instance EXCEPT ![w] = i]
    PROVE  Move(w, {i.at})
BY DEF IInv, Typed, Move

LEMMA GoesFacts ==
    ASSUME IInv, NEW w \in Workflows, NEW at \in Ats, Goes(w, at)
    PROVE  Move(w, {at})
<1>1. PICK i : i = instance[w]  OBVIOUS
<1>2. i \in InstanceType  BY <1>1 DEF IInv, Typed
<1>3. [i EXCEPT !.at = at] \in InstanceType /\ [i EXCEPT !.at = at].at = at
    BY <1>2 DEF InstanceType
<1>4. instance' = [instance EXCEPT ![w] = [i EXCEPT !.at = at]]
    BY <1>1 DEF Goes
<1> QED  BY <1>3, <1>4, InstanceSet

LEMMA GoesWithFacts ==
    ASSUME IInv, NEW w \in Workflows, NEW at \in Ats, NEW version \in Nat, GoesWith(w, at, version)
    PROVE  Move(w, {at})
<1>1. PICK i : i = instance[w]  OBVIOUS
<1>2. i \in InstanceType /\ instance \in [Workflows -> InstanceType]
    BY <1>1 DEF IInv, Typed
<1>3. PICK j : j = [i EXCEPT !.at = at, !.version = version]  OBVIOUS
<1>4. j \in InstanceType /\ j.at = at  BY <1>2, <1>3 DEF InstanceType
<1>5. instance' = [instance EXCEPT ![w] = j]
    BY <1>1, <1>2, <1>3 DEF GoesWith
<1> QED  BY <1>4, <1>5, InstanceSet

LEMMA NextFacts ==
    ASSUME IInv, NEW w \in Workflows, NEW target \in {"running", "awaiting", "failed"},
           PublishesNext(w, target)
    PROVE  Move(w, {"publish"})
<1>1. PICK i : i = instance[w]  OBVIOUS
<1>2. i \in InstanceType /\ instance \in [Workflows -> InstanceType]
    BY <1>1 DEF IInv, Typed
<1>3. PICK j : j = [i EXCEPT !.at = "publish", !.target = target]  OBVIOUS
<1>4. j \in InstanceType /\ j.at = "publish"  BY <1>2, <1>3 DEF InstanceType, Ats
<1>5. instance' = [instance EXCEPT ![w] = j]
    BY <1>1, <1>2, <1>3 DEF PublishesNext
<1> QED  BY <1>4, <1>5, InstanceSet

LEMMA FailsFacts ==
    ASSUME IInv, NEW w \in Workflows, PreparationFails(w)
    PROVE  Move(w, {"create", "fail"})
<1>1. PICK i : i = instance[w]  OBVIOUS
<1>2. i \in InstanceType /\ instance \in [Workflows -> InstanceType]
    BY <1>1 DEF IInv, Typed
<1>3. PICK j : j = [i EXCEPT !.at = IF i.tries < MaxTries THEN "create" ELSE "fail",
                             !.tries = IF i.tries < MaxTries THEN i.tries + 1 ELSE i.tries]
    OBVIOUS
<1>a. i.tries \in 0..MaxTries  BY <1>2 DEF InstanceType
<1>b. PICK tries \in 0..MaxTries : tries = IF i.tries < MaxTries THEN i.tries + 1 ELSE i.tries
    BY <1>a, LifecycleAssumption
<1>c. PICK at \in {"create", "fail"} : at = IF i.tries < MaxTries THEN "create" ELSE "fail"
    OBVIOUS
<1>d. j = [i EXCEPT !.at = at, !.tries = tries]  BY <1>3, <1>b, <1>c
<1>e. at \in Ats  BY DEF Ats
<1>4. j \in InstanceType /\ j.at \in {"create", "fail"}
    BY <1>2, <1>d, <1>e DEF InstanceType
<1>5. instance' = [instance EXCEPT ![w] = j]
    BY <1>1, <1>2, <1>3 DEF PreparationFails
<1>6. Move(w, {j.at})  BY <1>4, <1>5, InstanceSet
<1> QED  BY <1>4, <1>6 DEF Move

LEMMA GoesOnFacts ==
    ASSUME IInv, NEW w \in Workflows, GoesOn(w)
    PROVE  Move(w, {"track", "wait", "fail"})
<1>1. PICK at : at = CASE instance[w].target = "running" -> "track"
                       [] instance[w].target = "awaiting" -> "wait"
                       [] OTHER -> "fail"
    OBVIOUS
<1>2. at \in {"track", "wait", "fail"}  BY <1>1
<1>3. at \in Ats /\ Goes(w, at)  BY <1>1, <1>2 DEF GoesOn, Ats
<1>4. Move(w, {at})  BY <1>3, GoesFacts
<1> QED  BY <1>2, <1>4 DEF Move

LEMMA NoInstanceTyped == NoInstance \in InstanceType
<1>1. 0 \in 0..MaxTries /\ "off" \in Ats  BY LifecycleAssumption DEF Ats
<1> QED  BY <1>1 DEF NoInstance, InstanceType

LEMMA EndedFacts ==
    ASSUME IInv, NEW w \in Workflows, NEW status \in {"complete", "errored", "terminated"}
    PROVE  EndedAs(w, status) \in InstanceType /\ EndedAs(w, status).at = "off"
<1>1. PICK i : i = instance[w]  OBVIOUS
<1>2. i \in InstanceType  BY <1>1 DEF IInv, Typed
<1>3. PICK n : n = NoInstance  OBVIOUS
<1>4. n \in InstanceType /\ n.at = "off"  BY <1>3, NoInstanceTyped DEF NoInstance
<1>5. i.payload \in Nat  BY <1>2 DEF InstanceType
<1>6. EndedAs(w, status) = [n EXCEPT !.status = status, !.payload = i.payload]
    BY <1>1, <1>3 DEF EndedAs
<1> QED  BY <1>4, <1>5, <1>6 DEF InstanceType

LEMMA EndsFacts ==
    ASSUME IInv, NEW w \in Workflows, NEW status \in {"complete", "errored", "terminated"},
           Ends(w, status)
    PROVE  Move(w, {"off"})
BY EndedFacts, InstanceSet DEF Ends

LEMMA BegunFacts ==
    ASSUME IInv, NEW w \in Workflows, NEW payload \in Nat, Begun(w, payload)
    PROVE  Move(w, {"begin"})
<1>n. PICK n : n = NoInstance  OBVIOUS
<1>1. PICK i : i = [n EXCEPT !.status = "running", !.at = "begin", !.payload = payload]
    OBVIOUS
<1>a. n \in InstanceType /\ "begin" \in Ats  BY <1>n, NoInstanceTyped DEF Ats
<1>2. i \in InstanceType /\ i.at = "begin"
    BY <1>1, <1>a DEF InstanceType
<1> QED  BY <1>n, <1>1, <1>2, InstanceSet DEF Begun

\* An instance that has ended stays as it is.
LEMMA StoppedFacts ==
    ASSUME IInv, NEW w \in Workflows, instance' = Stopped(w)
    PROVE  Move(w, {"off", instance[w].at})
<1>1. CASE instance[w].status = "running"
    <2>1. Move(w, {"off"})  BY <1>1, EndedFacts, InstanceSet DEF Stopped
    <2> QED  BY <2>1 DEF Move
<1>2. CASE instance[w].status # "running"
    BY <1>2 DEF Stopped, Move, IInv, Typed
<1> QED  BY <1>1, <1>2

-----------------------------------------------------------------------------
(* Steps on the row of the analysis, the runs and the instances.           *)

\* A step that leaves the media and what names them alone, moves workflows only
\* to where nothing is relied on, and ends runs but starts none.
LEMMA QuietStep ==
    ASSUME IInv, UNCHANGED <<intent, prepared, clip, deletion, inputs, store, keeper, claimed>>,
           analysis' \in AnalysisType, run' \in [Workflows -> RunType],
           receipt' \in [Commands -> 0..MaxWorkflows], writing' \subseteq Media,
           instance' \in [Workflows -> InstanceType], faults' \in 0..MaxFaults,
           request' \in [Clients -> RequestType], \A c \in Clients : RequestOK(c)',
           \A w \in Workflows :
                /\ Steady(w)
                /\ \/ run'[w] = run[w]
                   \/ /\ run[w].status # "none" /\ run'[w].status # "none"
                      /\ run'[w].status = "active" => run[w].status = "active",
           deletion # "none" =>
                analysis'.workflow = analysis.workflow /\ analysis'.stage = analysis.stage,
           AnalysisOK'
    PROVE  IInv'
<1>1. Typed'  BY DEF IInv, Typed
<1>2. \A w \in Workflows : Kept(w)  BY DEF Kept, Stored
<1>3. \A w \in Workflows : FlowOK(w)'  BY <1>2, FlowKept DEF IInv
<1> QED  BY <1>1, <1>3 DEF IInv

\* The same, when only instances move.
LEMMA MoveStep ==
    ASSUME IInv, UNCHANGED <<rows, inputs, store, keeper, claimed>>,
           NEW w \in Workflows, NEW ats, Move(w, ats),
           \A at \in ats : \/ at = instance[w].at \/ at \in Before
                           \/ instance[w].at \notin Early /\ at \notin Delicate
                           \/ May(w, at),
           writing' \subseteq Media, faults' \in 0..MaxFaults,
           request' \in [Clients -> RequestType], \A c \in Clients : RequestOK(c)'
    PROVE  IInv'
<1>1. \A v \in Workflows : Steady(v)  BY MoveSteady
<1>2. AnalysisOK'  BY AnalysisKept DEF IInv, AnalysisOK, RunsLast, rows
<1>3. /\ analysis' \in AnalysisType /\ run' \in [Workflows -> RunType]
      /\ receipt' \in [Commands -> 0..MaxWorkflows]
      /\ instance' \in [Workflows -> InstanceType]
    BY DEF rows, IInv, Typed, Move
<1>4. UNCHANGED <<analysis, run, intent, prepared, clip, deletion, receipt>>
    BY DEF rows
<1> QED  BY <1>1, <1>2, <1>3, <1>4, QuietStep

-----------------------------------------------------------------------------
(* The requests of the owner.                                              *)

LEMMA BeginCreateStep == ASSUME IInv, NEW c \in Clients, BeginCreate(c) PROVE IInv'
<1>1. PICK at \in {"create", "dispatch"} :
            /\ at = IF analysis.status = "none" THEN "create" ELSE "dispatch"
            /\ Remember(c, at)
    BY DEF BeginCreate
<1>2. at # "create" => analysis.workflow \in Workflows
    BY <1>1 DEF IInv, AnalysisOK
<1>3. request' \in [Clients -> RequestType] /\ \A d \in Clients : RequestOK(d)'
    BY <1>1, <1>2, RememberFacts
<1> QED  BY <1>3, OnlyRequests DEF BeginCreate

LEMMA BeginCancelStep == ASSUME IInv, NEW c \in Clients, BeginCancel(c) PROVE IInv'
<1>1. PICK at \in {"cancel", "terminate"} :
            /\ at = IF analysis.status = "cancelled" THEN "terminate" ELSE "cancel"
            /\ Remember(c, at)
    BY DEF BeginCancel
<1>2. analysis.workflow \in Workflows
    BY DEF IInv, AnalysisOK, BeginCancel, Active
<1>3. request' \in [Clients -> RequestType] /\ \A d \in Clients : RequestOK(d)'
    BY <1>1, <1>2, RememberFacts
<1> QED  BY <1>3, OnlyRequests DEF BeginCancel

LEMMA BeginRemoveStep == ASSUME IInv, NEW c \in Clients, BeginRemove(c) PROVE IInv'
<1>1. PICK at \in {"remove", "terminate"} :
            /\ at = IF analysis.status = "deleting" THEN "terminate" ELSE "remove"
            /\ Remember(c, at)
    BY DEF BeginRemove
<1>2. analysis.workflow \in Workflows
    BY DEF IInv, AnalysisOK, BeginRemove
<1>3. request' \in [Clients -> RequestType] /\ \A d \in Clients : RequestOK(d)'
    BY <1>1, <1>2, RememberFacts
<1> QED  BY <1>3, OnlyRequests DEF BeginRemove

LEMMA BeginRetryStep ==
    ASSUME IInv, NEW c \in Clients, NEW k \in Commands, BeginRetry(c, k) PROVE IInv'
<1>1. analysis.status # "none" /\ analysis.workflow \in Workflows
    BY DEF BeginRetry, IInv, AnalysisOK
<1>2. CASE Remember(c, "dispatch")
    <2>1. request' \in [Clients -> RequestType] /\ \A d \in Clients : RequestOK(d)'
        BY <1>1, <1>2, RememberFacts
    <2> QED  BY <2>1, OnlyRequests DEF BeginRetry
<1>3. CASE ~ Remember(c, "dispatch")
    <2>1. PICK q : q = [at |-> "retry", workflow |-> analysis.workflow,
                        version |-> analysis.version, status |-> analysis.status, command |-> k]
        OBVIOUS
    <2>2. /\ q \in RequestType /\ q.at = "retry"
          /\ q.workflow = analysis.workflow /\ q.command = k
        BY <2>1 DEF RequestType, IInv, Typed, AnalysisType
    <2>3. request' = [request EXCEPT ![c] = q] /\ analysis.workflow < MaxWorkflows
        BY <1>3, <2>1 DEF BeginRetry
    <2>4. request' \in [Clients -> RequestType] /\ \A d \in Clients : RequestOK(d)'
        BY <1>1, <2>2, <2>3, RequestSet
    <2> QED  BY <2>4, OnlyRequests DEF BeginRetry
<1> QED  BY <1>2, <1>3

\* Nothing is known of an analysis that is made but that it has no run yet.
LEMMA CreateStep == ASSUME IInv, NEW c \in Clients, Create(c) PROVE IInv'
<1>1. CASE analysis.status = "none" /\ source /\ InForce
    <2>1. PICK new : new = [status |-> "queued", stage |-> "preparation", workflow |-> 1, version |-> 1]
        OBVIOUS
    <2>2. new \in AnalysisType /\ new.workflow \in Workflows
        BY <2>1, LifecycleAssumption DEF AnalysisType, Statuses, Active, Workflows
    <2>3. analysis' = new /\ ThenDispatch(c, new)
        BY <1>1, <2>1 DEF Create
    <2>4. request' \in [Clients -> RequestType] /\ \A d \in Clients : RequestOK(d)'
        BY <2>2, <2>3, ThenFacts
    <2>5. deletion = "none"  BY <1>1 DEF IInv, Typed, AnalysisOK
    <2>6. RunsLast  BY DEF Create, RunsLast
    <2>7. AnalysisOK'
        BY <2>1, <2>2, <2>3, <2>5, <2>6, AnalysisGoesOn DEF IInv, Create, Active
    <2> QED  BY <2>2, <2>3, <2>4, <2>5, <2>7, QuietStep DEF Create, IInv, Typed, Steady, media
<1>2. CASE ~ (analysis.status = "none" /\ source /\ InForce)
    <2>1. CASE analysis.status = "queued"
        <3>1. Remember(c, "dispatch") /\ analysis.workflow \in Workflows
            BY <1>2, <2>1 DEF Create, IInv, AnalysisOK
        <3>2. request' \in [Clients -> RequestType] /\ \A d \in Clients : RequestOK(d)'
            BY <3>1, RememberFacts
        <3> QED  BY <1>2, <3>2, OnlyRequests DEF Create, rows
    <2>2. CASE analysis.status # "queued"
        <3>1. Answered(c)  BY <1>2, <2>2 DEF Create
        <3> QED  BY <1>2, <3>1, AnsweredFacts, OnlyRequests DEF Create, rows
    <2> QED  BY <2>1, <2>2
<1> QED  BY <1>1, <1>2

LEMMA CancelStep == ASSUME IInv, NEW c \in Clients, Cancel(c) PROVE IInv'
<1>1. PICK new : new = [analysis EXCEPT !.status = "cancelled", !.version = @ + 1]
    OBVIOUS
<1>2. CASE Unchanged(c) /\ Admitted(new)
    <2>1. analysis' = new /\ run' = Fenced({analysis.workflow}, "cancelled") /\ ThenTerminate(c)
        BY <1>1, <1>2 DEF Cancel
    <2>2. PICK a : a = analysis  OBVIOUS
    <2>3. a \in AnalysisType  BY <2>2 DEF IInv, Typed
    <2>s. "cancelled" \in Statuses  BY DEF Statuses
    <2>4. /\ new \in AnalysisType /\ new.status = "cancelled"
          /\ new.workflow = a.workflow /\ new.stage = a.stage
        <3>1. PICK v \in Nat : v = a.version + 1  BY <2>3 DEF AnalysisType
        <3>2. new = [a EXCEPT !.status = "cancelled", !.version = v]
            BY <3>1, <1>1, <2>2, <2>3 DEF AnalysisType
        <3> QED  BY <2>3, <2>s, <3>2 DEF AnalysisType
    <2>5. analysis.status \in Active
        BY <1>2, <2>2, <2>4 DEF Admitted, IInv, Typed, AnalysisType, Statuses, Active
    <2>6. analysis.workflow \in Workflows /\ deletion = "none"
        BY <2>5 DEF IInv, Typed, AnalysisOK, Active
    <2>7. request' \in [Clients -> RequestType] /\ \A d \in Clients : RequestOK(d)'
        BY <2>1, <2>6, ThenTerminateFacts
    <2>w. PICK ws \in SUBSET Workflows : ws = {analysis.workflow}  BY <2>6
    <2>f. run' = Fenced(ws, "cancelled")  BY <2>1, <2>w
    <2>8. /\ run' \in [Workflows -> RunType]
          /\ \A w \in Workflows :
                \/ run'[w] = run[w]
                \/ run[w].status = "active" /\ run'[w].status = "cancelled"
        BY <2>f, FencedFacts
    <2>9. RunsLast  BY <2>8 DEF Cancel, RunsLast
    <2>a. \/ analysis'.stage = "preparation"
          \/ run'[analysis'.workflow].status # "none"
        BY <2>1, <2>2, <2>4, <2>6, <2>9 DEF IInv, AnalysisOK, RunsLast
    <2>b. AnalysisOK'
        BY <2>1, <2>2, <2>4, <2>6, <2>9, <2>a, AnalysisGoesOn DEF IInv, Cancel
    <2> QED  BY <2>1, <2>4, <2>6, <2>7, <2>8, <2>b, QuietStep DEF Cancel, IInv, Typed, Steady, media
<1>3. CASE ~ (Unchanged(c) /\ Admitted(new))
    BY <1>1, <1>3, AnsweredFacts, OnlyRequests DEF Cancel, rows
<1> QED  BY <1>2, <1>3

\* The deletion ends every run, so whatever workflow is under way owes nothing.
LEMMA RemoveStep == ASSUME IInv, NEW c \in Clients, Remove(c) PROVE IInv'
<1>1. CASE Unchanged(c)
    <2>1. PICK a : a = analysis  OBVIOUS
    <2>2. PICK new : new = [a EXCEPT !.status = "deleting", !.version = @ + 1]
        OBVIOUS
    <2>3. a \in AnalysisType  BY <2>1 DEF IInv, Typed
    <2>s. "deleting" \in Statuses  BY DEF Statuses
    <2>4. /\ new \in AnalysisType /\ new.status = "deleting"
          /\ new.workflow = a.workflow /\ new.stage = a.stage
        <3>1. PICK v \in Nat : v = a.version + 1  BY <2>3 DEF AnalysisType
        <3>2. new = [a EXCEPT !.status = "deleting", !.version = v]
            BY <3>1, <2>2, <2>3 DEF AnalysisType
        <3> QED  BY <2>3, <2>s, <3>2 DEF AnalysisType
    <2>5. /\ analysis' = new /\ run' = Fenced(Workflows, "cancelled") /\ ThenTerminate(c)
          /\ deletion' = "requested"
        BY <1>1, <2>1, <2>2 DEF Remove
    <2>6. analysis.workflow \in Workflows
        BY <1>1 DEF Remove, Asks, Unchanged, IInv, RequestOK
    <2>7. request' \in [Clients -> RequestType] /\ \A d \in Clients : RequestOK(d)'
        BY <2>5, <2>6, ThenTerminateFacts
    <2>8. /\ run' \in [Workflows -> RunType]
          /\ \A w \in Workflows :
                /\ \/ run'[w] = run[w]
                   \/ run[w].status = "active" /\ run'[w].status = "cancelled"
                /\ run'[w].status # "active"
        BY <2>5, FencedFacts
    <2>9. UNCHANGED <<intent, prepared, clip, receipt, inputs, store, writing, instance, keeper, claimed, faults>>
        BY DEF Remove, media
    <2>a. Typed'
        BY <2>4, <2>5, <2>7, <2>8, <2>9 DEF IInv, Typed
    <2>b. ASSUME NEW w \in Workflows PROVE FlowOK(w)'
        <3>1. FlowOK(w)  BY DEF IInv
        <3> QED  BY <2>5, <2>8, <2>9, <3>1 DEF FlowOK, Stored
    <2>c. AnalysisOK'
        BY <2>1, <2>4, <2>5, <2>6, <2>8 DEF IInv, AnalysisOK
    <2> QED  BY <2>7, <2>a, <2>b, <2>c DEF IInv
<1>2. CASE ~ Unchanged(c)
    BY <1>2, AnsweredFacts, OnlyRequests DEF Remove, rows
<1> QED  BY <1>1, <1>2

LEMMA RetryStep == ASSUME IInv, NEW c \in Clients, Retry(c) PROVE IInv'
<1>1. PICK k : k = request[c].command  OBVIOUS
<1>2. PICK new : new = [status |-> "queued", stage |-> "preparation",
                        workflow |-> request[c].workflow + 1, version |-> request[c].version + 1]
    OBVIOUS
<1>3. CASE Retriable(c) /\ receipt[k] = 0 /\ Admitted(new)
    <2>1. /\ receipt' = [receipt EXCEPT ![k] = new.workflow] /\ run' = Fenced(Workflows, "replaced")
          /\ analysis' = new /\ ThenDispatch(c, new)
        BY <1>1, <1>2, <1>3 DEF Retry
    <2>2. /\ request[c] \in RequestType /\ request[c].workflow \in Workflows
          /\ request[c].workflow < MaxWorkflows /\ k \in Commands
          /\ analysis.workflow = request[c].workflow
        BY <1>1, <1>3 DEF Retry, Asks, IInv, Typed, RequestOK, Retriable, Unchanged
    <2>3. request[c].version \in Nat  BY <2>2 DEF RequestType
    <2>4. new \in AnalysisType /\ new.workflow \in Workflows /\ new.workflow # analysis.workflow
        BY <1>2, <2>2, <2>3, LifecycleAssumption DEF AnalysisType, Statuses, Active, Workflows
    <2>5. analysis.status \in {"failed", "completed"}
        BY <1>3, <2>4 DEF Admitted
    <2>6. deletion = "none"  BY <2>5 DEF IInv, Typed, AnalysisOK
    <2>7. request' \in [Clients -> RequestType] /\ \A d \in Clients : RequestOK(d)'
        BY <2>1, <2>4, ThenFacts
    <2>8. /\ run' \in [Workflows -> RunType]
          /\ \A w \in Workflows :
                \/ run'[w] = run[w]
                \/ run[w].status = "active" /\ run'[w].status = "replaced"
        BY <2>1, FencedFacts
    <2>9. RunsLast  BY <2>8 DEF Retry, RunsLast
    <2>a. AnalysisOK'
        BY <1>2, <2>1, <2>4, <2>6, <2>9, AnalysisGoesOn DEF IInv, Retry, Active
    <2>b. receipt' \in [Commands -> 0..MaxWorkflows]
        BY <2>1, <2>2, <2>4 DEF IInv, Typed, Workflows
    <2> QED  BY <2>1, <2>4, <2>6, <2>7, <2>8, <2>a, <2>b, QuietStep DEF Retry, IInv, Typed, Steady, media
<1>4. CASE ~ (Retriable(c) /\ receipt[k] = 0 /\ Admitted(new))
    BY <1>1, <1>2, <1>4, AnsweredFacts, OnlyRequests DEF Retry, rows
<1> QED  BY <1>3, <1>4

LEMMA DispatchStep == ASSUME IInv, NEW c \in Clients, Dispatch(c) PROVE IInv'
<1>1. PICK w : w = request[c].workflow  OBVIOUS
<1>2. request[c] \in RequestType /\ w \in Workflows
    BY <1>1 DEF Dispatch, Asks, IInv, Typed, RequestOK
<1>3. request' \in [Clients -> RequestType] /\ \A d \in Clients : RequestOK(d)'
    <2>1. CASE Answered(c)  BY <2>1, AnsweredFacts
    <2>2. CASE ~ Answered(c)
        <3>1. PICK q : q = [request[c] EXCEPT !.at = "restart"]  OBVIOUS
        <3>2. q \in RequestType /\ q.at = "restart" /\ q.workflow = w
            BY <1>1, <1>2, <3>1 DEF RequestType
        <3>3. request' = [request EXCEPT ![c] = q]
            BY <2>2, <3>1 DEF Dispatch
        <3> QED  BY <1>2, <3>2, <3>3, RequestSet
    <2> QED  BY <2>1, <2>2
<1>4. Move(w, {"begin", instance[w].at})
    <2>1. CASE instance[w].status = "none"
        <3>1. Begun(w, request[c].version) /\ request[c].version \in Nat
            BY <1>1, <1>2, <2>1 DEF Dispatch, RequestType
        <3>2. Move(w, {"begin"})  BY <1>2, <3>1, BegunFacts
        <3> QED  BY <3>2 DEF Move
    <2>2. CASE instance[w].status # "none"
        BY <1>1, <1>2, <2>2 DEF Dispatch, Move, IInv, Typed
    <2> QED  BY <2>1, <2>2
<1>5. UNCHANGED <<rows, inputs, store, keeper, claimed, writing, faults>>
    BY DEF Dispatch, media
<1>6. writing' \subseteq Media /\ faults' \in 0..MaxFaults
    BY <1>5 DEF IInv, Typed
<1>7. \A at \in {"begin", instance[w].at} : at = instance[w].at \/ at \in Before
    BY DEF Before
<1> QED  BY <1>2, <1>3, <1>4, <1>5, <1>6, <1>7, MoveStep

LEMMA RestartStep == ASSUME IInv, NEW c \in Clients, Restart(c) PROVE IInv'
<1>1. PICK w : w = request[c].workflow  OBVIOUS
<1>2. w \in Workflows
    BY <1>1 DEF Restart, Asks, IInv, Typed, RequestOK
<1>3. instance[w].payload \in Nat  BY <1>2 DEF IInv, Typed, InstanceType
<1>4. Move(w, {"begin"})  BY <1>1, <1>2, <1>3, BegunFacts DEF Restart
<1>5. UNCHANGED <<rows, inputs, store, keeper, claimed, writing, faults>>
    BY DEF Restart, media
<1>6. writing' \subseteq Media /\ faults' \in 0..MaxFaults
    BY <1>5 DEF IInv, Typed
<1>7. request' \in [Clients -> RequestType] /\ \A d \in Clients : RequestOK(d)'
    BY AnsweredFacts DEF Restart
<1>8. \A at \in {"begin"} : at \in Before  BY DEF Before
<1> QED  BY <1>2, <1>4, <1>5, <1>6, <1>7, <1>8, MoveStep

LEMMA TerminateStep == ASSUME IInv, NEW c \in Clients, Terminate(c) PROVE IInv'
<1>1. PICK w : w = request[c].workflow  OBVIOUS
<1>2. w \in Workflows
    BY <1>1 DEF Terminate, Asks, IInv, Typed, RequestOK
<1>4. Move(w, {"off", instance[w].at})  BY <1>1, <1>2, StoppedFacts DEF Terminate
<1>5. UNCHANGED <<rows, inputs, store, keeper, claimed, writing, faults>>
    BY DEF Terminate, media
<1>6. writing' \subseteq Media /\ faults' \in 0..MaxFaults
    BY <1>5 DEF IInv, Typed
<1>7. request' \in [Clients -> RequestType] /\ \A d \in Clients : RequestOK(d)'
    BY AnsweredFacts DEF Terminate
<1>8. \A at \in {"off", instance[w].at} : at = instance[w].at \/ at \in Before
    BY DEF Before
<1> QED  BY <1>2, <1>4, <1>5, <1>6, <1>7, <1>8, MoveStep

LEMMA CorrectStep == ASSUME IInv, NEW c \in Clients, Correct(c) PROVE IInv'
<1>1. PICK w : w = analysis.workflow  OBVIOUS
<1>2. w \in Workflows
    BY <1>1, LifecycleAssumption DEF Correct, IInv, Typed, AnalysisType, Workflows
<1>3. PICK r : r = run[w]  OBVIOUS
<1>4. r \in RunType /\ run \in [Workflows -> RunType]  BY <1>2, <1>3 DEF IInv, Typed
<1>5. PICK q : q = [r EXCEPT !.corrections = r.gaps]  OBVIOUS
<1>6. q \in RunType /\ q.status = r.status /\ q.evidence = r.evidence  BY <1>4, <1>5 DEF RunType
<1>7. run' = [run EXCEPT ![w] = q] /\ r.status = "active"
    BY <1>1, <1>2, <1>3, <1>4, <1>5 DEF Correct
<1>8. /\ run' \in [Workflows -> RunType] /\ run'[w] = q
      /\ \A v \in Workflows \ {w} : run'[v] = run[v]
    BY <1>2, <1>4, <1>6, <1>7
<1>9. request' \in [Clients -> RequestType] /\ \A d \in Clients : RequestOK(d)'
    BY <1>1, <1>2, RememberFacts DEF Correct
<1>a. RunsLast  BY <1>3, <1>6, <1>7, <1>8 DEF Correct, RunsLast
<1>b. AnalysisOK'  BY <1>a, AnalysisKept DEF IInv, AnalysisOK, Correct
<1> QED  BY <1>3, <1>6, <1>7, <1>8, <1>9, <1>b, QuietStep DEF Correct, IInv, Typed, Steady, media

LEMMA SignalStep == ASSUME IInv, NEW c \in Clients, Signal(c) PROVE IInv'
<1>1. PICK w : w = request[c].workflow  OBVIOUS
<1>2. w \in Workflows
    BY <1>1 DEF Signal, Asks, IInv, Typed, RequestOK
<1>3. PICK i : i = instance[w]  OBVIOUS
<1>4. i \in InstanceType /\ instance \in [Workflows -> InstanceType]
    BY <1>2, <1>3 DEF IInv, Typed
<1>5. PICK j : j = IF i.status = "running" THEN [i EXCEPT !.event = TRUE] ELSE i
    OBVIOUS
<1>6. j \in InstanceType /\ j.at = i.at  BY <1>4, <1>5 DEF InstanceType
<1>7. instance' = [instance EXCEPT ![w] = j]
    BY <1>1, <1>2, <1>3, <1>4, <1>5 DEF Signal
<1>8. Move(w, {j.at})  BY <1>2, <1>6, <1>7, InstanceSet
<1>9. UNCHANGED <<rows, inputs, store, keeper, claimed, writing, faults>>
    BY DEF Signal, media
<1>a. writing' \subseteq Media /\ faults' \in 0..MaxFaults
    BY <1>9 DEF IInv, Typed
<1>b. request' \in [Clients -> RequestType] /\ \A d \in Clients : RequestOK(d)'
    BY AnsweredFacts DEF Signal
<1> QED  BY <1>2, <1>3, <1>6, <1>8, <1>9, <1>a, <1>b, MoveStep

-----------------------------------------------------------------------------
(* The steps of a workflow.                                                *)

LEMMA FaultTyped == ASSUME IInv, UNCHANGED faults \/ NoFault \/ Fault PROVE faults' \in 0..MaxFaults
BY LifecycleAssumption DEF IInv, Typed, NoFault, Fault

\* A step of the workflow w that changes nothing but where it stands.
LEMMA WalkStep ==
    ASSUME IInv, NEW w \in Workflows, NEW ats, Move(w, ats),
           UNCHANGED <<rows, inputs, media, people>>, faults' \in 0..MaxFaults,
           \A at \in ats : \/ at = instance[w].at \/ at \in Before
                           \/ instance[w].at \notin Early /\ at \notin Delicate
                           \/ May(w, at)
    PROVE  IInv'
<1>1. UNCHANGED <<inputs, store, writing, request, keeper, claimed>>
    BY DEF media, people
<1>2. /\ request' \in [Clients -> RequestType] /\ \A c \in Clients : RequestOK(c)'
      /\ writing' \subseteq Media
    BY <1>1, RequestsKept DEF IInv, Typed
<1> QED  BY <1>1, <1>2, MoveStep

\* The same, when it touches its active run without ending it.
LEMMA RunStep ==
    ASSUME IInv, NEW w \in Workflows, NEW ats, Move(w, ats),
           UNCHANGED <<analysis, intent, prepared, clip, deletion, receipt, inputs, media, people, faults>>,
           run' \in [Workflows -> RunType], \A v \in Workflows \ {w} : run'[v] = run[v],
           run[w].status = "active", run'[w].status = "active",
           \A at \in ats : \/ at = instance[w].at \/ at \in Before
                           \/ instance[w].at \notin Early /\ at \notin Delicate
                           \/ May(w, at)
    PROVE  IInv'
<1>3. UNCHANGED <<store, writing, request, keeper, claimed>>
    BY DEF media, people
<1>4. /\ analysis' \in AnalysisType /\ receipt' \in [Commands -> 0..MaxWorkflows]
      /\ writing' \subseteq Media /\ faults' \in 0..MaxFaults
      /\ instance' \in [Workflows -> InstanceType] /\ request' \in [Clients -> RequestType]
      /\ \A c \in Clients : RequestOK(c)'
    BY <1>3, RequestsKept DEF IInv, Typed, Move
<1>5. AnalysisOK'
    BY <1>3, AnalysisKept DEF IInv, AnalysisOK, RunsLast
<1>6. \A v \in Workflows : Steady(v)  BY MoveSteady
<1> QED  BY <1>3, <1>4, <1>5, <1>6, QuietStep

\* A step that leaves the other workflows what they rely on, when it is shown
\* that w has what it relies on.
LEMMA OneFlow ==
    ASSUME IInv, NEW w \in Workflows, NEW ats, Move(w, ats), FlowOK(w)',
           \A v \in Workflows \ {w} : Kept(v),
           Typed', AnalysisOK', UNCHANGED request
    PROVE  IInv'
<1>1. \A v \in Workflows \ {w} : Steady(v)  BY DEF Move, Steady
<1>2. \A v \in Workflows : FlowOK(v)'  BY <1>1, FlowKept DEF IInv
<1> QED  BY <1>2, RequestsKept DEF IInv

LEMMA TrackingStaleStep == ASSUME IInv, NEW w \in Workflows, TrackingStale(w) PROVE IInv'
<1>1. Move(w, {"fail"})  BY GoesFacts DEF TrackingStale, Ats
<1> QED  BY <1>1, WalkStep, FaultTyped DEF TrackingStale, Before

LEMMA ResumeTrackingStep == ASSUME IInv, NEW w \in Workflows, ResumeTracking(w) PROVE IInv'
<1>1. Move(w, {"publish"})  BY NextFacts DEF ResumeTracking
<1> QED  BY <1>1, WalkStep, FaultTyped DEF ResumeTracking, Runs, Early, Before, Delicate

LEMMA ResumeAtGapStep == ASSUME IInv, NEW w \in Workflows, ResumeAtGap(w) PROVE IInv'
<1>1. Move(w, {"publish"})  BY NextFacts DEF ResumeAtGap
<1> QED  BY <1>1, WalkStep, FaultTyped DEF ResumeAtGap, Runs, Early, Before, Delicate

LEMMA TrackingFailsStep == ASSUME IInv, NEW w \in Workflows, TrackingFails(w) PROVE IInv'
<1>1. Move(w, {"publish"})  BY NextFacts DEF TrackingFails
<1> QED  BY <1>1, WalkStep, FaultTyped DEF TrackingFails, Runs, Early, Before, Delicate

LEMMA AcceptGapStep == ASSUME IInv, NEW w \in Workflows, AcceptGap(w) PROVE IInv'
<1>1. PICK r : r = run[w]  OBVIOUS
<1>2. r \in RunType /\ run \in [Workflows -> RunType]  BY <1>1 DEF IInv, Typed
<1>3. PICK gaps \in 0..MaxGaps : gaps = r.gaps + 1
    BY <1>1, <1>2, LifecycleAssumption DEF RunType, AcceptGap
<1>4. PICK q : q = [r EXCEPT !.gaps = gaps]  OBVIOUS
<1>5. q \in RunType /\ q.status = r.status  BY <1>2, <1>4 DEF RunType
<1>6. run' = [run EXCEPT ![w] = q] /\ r.status = "active"
    BY <1>1, <1>2, <1>3, <1>4 DEF AcceptGap
<1>7. Move(w, {"publish"})  BY NextFacts DEF AcceptGap
<1>8. UNCHANGED <<analysis, intent, prepared, clip, deletion, receipt, inputs, media, people, faults>>
    BY DEF AcceptGap
<1>9. instance[w].at \notin Early /\ "publish" \notin Delicate
    BY DEF AcceptGap, Runs, Early, Before, Delicate
<1>a. \A at \in {"publish"} : \/ at = instance[w].at \/ at \in Before
                              \/ instance[w].at \notin Early /\ at \notin Delicate
                              \/ May(w, at)
    BY <1>9
<1>b. run[w].status = "active" /\ run'[w].status = "active"
    BY <1>1, <1>5, <1>6, <1>2
<1>c. run' \in [Workflows -> RunType] /\ \A v \in Workflows \ {w} : run'[v] = run[v]
    BY <1>2, <1>5, <1>6
<1> QED  BY <1>7, <1>8, <1>a, <1>b, <1>c, RunStep

LEMMA AcceptRaceStep == ASSUME IInv, NEW w \in Workflows, AcceptRace(w) PROVE IInv'
<1>1. PICK r : r = run[w]  OBVIOUS
<1>2. r \in RunType /\ run \in [Workflows -> RunType]  BY <1>1 DEF IInv, Typed
<1>3. PICK e \in {"none", "accepted", "committed"} :
            e = IF r.evidence = "none" THEN "accepted" ELSE r.evidence
    BY <1>2 DEF RunType
<1>4. PICK q : q = [r EXCEPT !.evidence = e]  OBVIOUS
<1>5. q \in RunType /\ q.status = r.status  BY <1>2, <1>4 DEF RunType
<1>6. run' = [run EXCEPT ![w] = q] /\ r.status = "active"
    BY <1>1, <1>2, <1>3, <1>4 DEF AcceptRace
<1>7. Move(w, {"evidence"})  BY GoesFacts DEF AcceptRace, Ats
<1>8. UNCHANGED <<analysis, intent, prepared, clip, deletion, receipt, inputs, media, people, faults>>
    BY DEF AcceptRace
<1>9. instance[w].at \notin Early /\ "evidence" \notin Delicate
    BY DEF AcceptRace, Runs, Early, Before, Delicate
<1>a. \A at \in {"evidence"} : \/ at = instance[w].at \/ at \in Before
                               \/ instance[w].at \notin Early /\ at \notin Delicate
                               \/ May(w, at)
    BY <1>9
<1>b. run[w].status = "active" /\ run'[w].status = "active"
    BY <1>1, <1>5, <1>6, <1>2
<1>c. run' \in [Workflows -> RunType] /\ \A v \in Workflows \ {w} : run'[v] = run[v]
    BY <1>2, <1>5, <1>6
<1> QED  BY <1>7, <1>8, <1>a, <1>b, <1>c, RunStep

LEMMA CommitEvidenceStep == ASSUME IInv, NEW w \in Workflows, CommitEvidence(w) PROVE IInv'
<1>1. PICK r : r = run[w]  OBVIOUS
<1>2. r \in RunType /\ run \in [Workflows -> RunType]  BY <1>1 DEF IInv, Typed
<1>4. PICK q : q = [r EXCEPT !.evidence = "committed"]  OBVIOUS
<1>5. q \in RunType /\ q.status = r.status  BY <1>2, <1>4 DEF RunType
<1>6. run' = [run EXCEPT ![w] = q] /\ r.status = "active"
    BY <1>1, <1>2, <1>4 DEF CommitEvidence
<1>7. Move(w, {"inputs"})  BY GoesFacts DEF CommitEvidence, Ats
<1>8. UNCHANGED <<analysis, intent, prepared, clip, deletion, receipt, inputs, media, people, faults>>
    BY DEF CommitEvidence
<1>9. instance[w].at \notin Early /\ "inputs" \notin Delicate
    BY DEF CommitEvidence, Runs, Early, Before, Delicate
<1>a. \A at \in {"inputs"} : \/ at = instance[w].at \/ at \in Before
                             \/ instance[w].at \notin Early /\ at \notin Delicate
                             \/ May(w, at)
    BY <1>9
<1>b. run[w].status = "active" /\ run'[w].status = "active"
    BY <1>1, <1>5, <1>6, <1>2
<1>c. run' \in [Workflows -> RunType] /\ \A v \in Workflows \ {w} : run'[v] = run[v]
    BY <1>2, <1>5, <1>6
<1> QED  BY <1>7, <1>8, <1>a, <1>b, <1>c, RunStep

LEMMA PinRunInputStep == ASSUME IInv, NEW w \in Workflows, PinRunInput(w) PROVE IInv'
<1>1. CASE run[w].status = "active" /\ (run[w].pinned \/ source)
    <2>1. PICK r : r = run[w]  OBVIOUS
    <2>2. r \in RunType /\ run \in [Workflows -> RunType]  BY <2>1 DEF IInv, Typed
    <2>4. PICK q : q = [r EXCEPT !.pinned = TRUE]  OBVIOUS
    <2>5. q \in RunType /\ q.status = r.status  BY <2>2, <2>4 DEF RunType
    <2>6. run' = [run EXCEPT ![w] = q] /\ r.status = "active"
        BY <1>1, <2>1, <2>2, <2>4 DEF PinRunInput
    <2>7. Move(w, {"context"})  BY <1>1, GoesFacts DEF PinRunInput, Ats
    <2>8. UNCHANGED <<analysis, intent, prepared, clip, deletion, receipt, inputs, media, people, faults>>
        BY DEF PinRunInput
    <2>9. instance[w].at \notin Early /\ "context" \notin Delicate
        BY DEF PinRunInput, Runs, Early, Before, Delicate
    <2>a. \A at \in {"context"} : \/ at = instance[w].at \/ at \in Before
                                  \/ instance[w].at \notin Early /\ at \notin Delicate
                                  \/ May(w, at)
        BY <2>9
    <2>b. run[w].status = "active" /\ run'[w].status = "active"
    BY <2>1, <2>5, <2>6, <2>2
<2>c. run' \in [Workflows -> RunType] /\ \A v \in Workflows \ {w} : run'[v] = run[v]
    BY <2>2, <2>5, <2>6
    <2> QED  BY <2>7, <2>8, <2>a, <2>b, <2>c, RunStep
<1>2. CASE ~ (run[w].status = "active" /\ (run[w].pinned \/ source))
    <2>1. Move(w, {"create", "fail"})  BY <1>2, FailsFacts DEF PinRunInput
    <2>2. UNCHANGED rows  BY <1>2 DEF PinRunInput, rows
    <2> QED  BY <2>1, <2>2, WalkStep, FaultTyped DEF PinRunInput, Before
<1> QED  BY <1>1, <1>2

LEMMA ReadTrackingStateStep ==
    ASSUME IInv, NEW w \in Workflows, ReadTrackingState(w) PROVE IInv'
<1>1. Move(w, {"write", "track", "wait", "fail"})
    <2>1. CASE GoesOn(w)  BY <2>1, GoesOnFacts DEF Move
    <2>2. CASE GoesWith(w, "write", analysis.version)
        <3>1. analysis.version \in Nat /\ "write" \in Ats  BY DEF IInv, Typed, AnalysisType, Ats
        <3>2. Move(w, {"write"})  BY <2>2, <3>1, GoesWithFacts
        <3> QED  BY <3>2 DEF Move
    <2> QED  BY <2>1, <2>2 DEF ReadTrackingState
<1> QED  BY <1>1, WalkStep, FaultTyped DEF ReadTrackingState, Runs, Early, Before, Delicate

LEMMA WakeUpStep == ASSUME IInv, NEW w \in Workflows, WakeUp(w) PROVE IInv'
<1>1. PICK i : i = instance[w]  OBVIOUS
<1>2. i \in InstanceType /\ instance \in [Workflows -> InstanceType]
    BY <1>1 DEF IInv, Typed
<1>3. PICK at \in {"fail", "resume", "wait"} :
            at = IF run[w].status # "active" THEN "fail"
                 ELSE IF run[w].gaps = run[w].corrections THEN "resume" ELSE "wait"
    OBVIOUS
<1>4. PICK j : j = [i EXCEPT !.event = FALSE, !.at = at]  OBVIOUS
<1>5. j \in InstanceType /\ j.at = at  BY <1>2, <1>4 DEF InstanceType, Ats
<1>6. instance' = [instance EXCEPT ![w] = j]
    BY <1>1, <1>2, <1>3, <1>4 DEF WakeUp
<1>7. Move(w, {at})  BY <1>5, <1>6, InstanceSet
<1> QED  BY <1>7, WalkStep, FaultTyped DEF WakeUp, Runs, Early, Before, Delicate

LEMMA ReadClipInputsStep == ASSUME IInv, NEW w \in Workflows, ReadClipInputs(w) PROVE IInv'
<1>1. PICK at \in {"plan", "complete"} : at = IF Renders(w) THEN "plan" ELSE "complete"
    OBVIOUS
<1>2. Move(w, {at})  BY <1>1, GoesFacts DEF ReadClipInputs, Ats
<1> QED  BY <1>2, WalkStep, FaultTyped DEF ReadClipInputs, Runs, Early, Before, Delicate

LEMMA ReadForFailureStep == ASSUME IInv, NEW w \in Workflows, ReadForFailure(w) PROVE IInv'
<1>1. CASE Ends(w, "errored")
    <2>1. Move(w, {"off"})  BY <1>1, EndsFacts
    <2> QED  BY <2>1, WalkStep, FaultTyped DEF ReadForFailure, Before
<1>2. CASE GoesWith(w, "publishFailure", analysis.version)
    <2>1. analysis.version \in Nat /\ "publishFailure" \in Ats  BY DEF IInv, Typed, AnalysisType, Ats
    <2>2. Move(w, {"publishFailure"})  BY <1>2, <2>1, GoesWithFacts
    <2> QED  BY <2>2, WalkStep, FaultTyped DEF ReadForFailure, Before
<1> QED  BY <1>1, <1>2 DEF ReadForFailure

LEMMA StepFailsStep == ASSUME IInv, NEW w \in Workflows, StepFails(w) PROVE IInv'
<1>1. Move(w, {"fail"})  BY GoesFacts DEF StepFails, Ats
<1> QED  BY <1>1, WalkStep, FaultTyped DEF StepFails, Before

LEMMA DieStep == ASSUME IInv, NEW w \in Workflows, Die(w) PROVE IInv'
<1>1. Move(w, {"off"})  BY EndsFacts DEF Die
<1> QED  BY <1>1, WalkStep, FaultTyped DEF Die, Before

\* A lost answer leads back to where nothing is relied on yet.
LEMMA RunAgainStep == ASSUME IInv, NEW w \in Workflows, RunAgain(w) PROVE IInv'
<1>1. PICK from : from = instance[w].at  OBVIOUS
<1>2. from \in Ats  BY <1>1 DEF IInv, Typed, InstanceType
<1>3. PICK to : to = StepOf(from)  OBVIOUS
<1>4. /\ to \in Ats
      /\ \/ to = from \/ to \in Before
         \/ from \notin Early /\ to \notin Delicate
    BY <1>2, <1>3 DEF StepOf, Ats, Before, Early, Delicate
<1>5. Move(w, {to})  BY <1>1, <1>3, <1>4, GoesFacts DEF RunAgain
<1> QED  BY <1>1, <1>4, <1>5, WalkStep, FaultTyped DEF RunAgain

-----------------------------------------------------------------------------
(* The workflow writes the row of its analysis.                            *)

\* The row of an analysis that is under way goes on, with the run it is about.
LEMMA RowStep ==
    ASSUME IInv, NEW w \in Workflows, NEW ats, Move(w, ats),
           \A at \in ats : \/ at = instance[w].at \/ at \in Before
                           \/ instance[w].at \notin Early /\ at \notin Delicate
                           \/ May(w, at),
           UNCHANGED <<intent, prepared, clip, deletion, receipt, inputs, media, people, faults>>,
           analysis.status \in Active, analysis' \in AnalysisType,
           analysis'.status \in Active \cup {"failed"}, analysis'.workflow = analysis.workflow,
           \/ analysis'.stage = analysis.stage
           \/ run[analysis.workflow].status # "none",
           run' \in [Workflows -> RunType],
           \A v \in Workflows : \/ run'[v] = run[v]
                                \/ run[v].status = "active" /\ run'[v].status = "failed"
    PROVE  IInv'
<1>1. UNCHANGED <<store, writing, request, keeper, claimed>>
    BY DEF media, people
<1>2. analysis.workflow \in Workflows /\ deletion = "none"
    BY DEF IInv, Typed, AnalysisOK, Active
<1>3. RunsLast  BY DEF RunsLast
<1>4. \/ analysis'.stage = "preparation"
      \/ run'[analysis'.workflow].status # "none"
    BY <1>2, <1>3 DEF IInv, AnalysisOK, RunsLast
<1>5. AnalysisOK'
    BY <1>1, <1>2, <1>3, <1>4, AnalysisGoesOn DEF IInv
<1>6. \A v \in Workflows : Steady(v)  BY MoveSteady
<1>7. \A v \in Workflows :
          \/ run'[v] = run[v]
          \/ /\ run[v].status # "none" /\ run'[v].status # "none"
             /\ run'[v].status = "active" => run[v].status = "active"
    OBVIOUS
<1>8. /\ receipt' \in [Commands -> 0..MaxWorkflows]
      /\ writing' \subseteq Media /\ faults' \in 0..MaxFaults
      /\ instance' \in [Workflows -> InstanceType] /\ request' \in [Clients -> RequestType]
      /\ \A c \in Clients : RequestOK(c)'
    BY <1>1, RequestsKept DEF IInv, Typed, Move
<1> QED  BY <1>1, <1>2, <1>5, <1>6, <1>7, <1>8, QuietStep

LEMMA RowTyped ==
    ASSUME IInv
    PROVE  /\ analysis \in AnalysisType /\ analysis.version \in Nat /\ analysis.version + 1 \in Nat
           /\ analysis.status \in Statuses /\ run \in [Workflows -> RunType]
BY DEF IInv, Typed, AnalysisType

\* Past the beginning a workflow has a run.
LEMMA HasRun ==
    ASSUME IInv, NEW w \in Workflows, instance[w].at \notin Before
    PROVE  run[w].status # "none"
BY DEF IInv, FlowOK

LEMMA BeginPreparationStep ==
    ASSUME IInv, NEW w \in Workflows, BeginPreparation(w) PROVE IInv'
<1>1. PICK version : version = instance[w].payload  OBVIOUS
<1>2. version \in Nat /\ version + 1 \in Nat  BY <1>1 DEF IInv, Typed, InstanceType
<1>3. CASE Current(w) /\ analysis.status = "queued" /\ analysis.version = version
    <2>1. analysis' = [analysis EXCEPT !.status = "running", !.version = @ + 1]
            /\ GoesWith(w, "create", version + 1)
        BY <1>1, <1>2, <1>3, RowTyped DEF BeginPreparation, Replayed
    <2>2. Move(w, {"create"})  BY <1>2, <2>1, GoesWithFacts DEF Ats
    <2>3. PICK v \in Nat : v = analysis.version + 1  BY RowTyped
    <2>4. analysis' = [analysis EXCEPT !.status = "running", !.version = v]
        BY <2>1, <2>3, RowTyped DEF AnalysisType
    <2>5. "running" \in Statuses  BY DEF Statuses, Active
    <2>6. /\ analysis' \in AnalysisType /\ analysis'.status = "running"
          /\ analysis'.workflow = analysis.workflow /\ analysis'.stage = analysis.stage
        BY <2>4, <2>5, RowTyped DEF AnalysisType
    <2>7. UNCHANGED <<run, intent, prepared, clip, deletion, receipt, inputs, media, people, faults>>
        BY DEF BeginPreparation
    <2> QED  BY <1>3, <2>2, <2>6, <2>7, RowTyped, RowStep DEF Active, Before
<1>4. CASE GoesWith(w, "create", analysis.version) /\ UNCHANGED analysis
    <2>1. Move(w, {"create"})  BY <1>4, RowTyped, GoesWithFacts DEF Ats
    <2>2. UNCHANGED rows  BY <1>4 DEF BeginPreparation, rows
    <2> QED  BY <2>1, <2>2, WalkStep, FaultTyped DEF BeginPreparation, Before
<1>5. CASE Ends(w, "complete") /\ UNCHANGED analysis
    <2>1. Move(w, {"off"})  BY <1>5, EndsFacts
    <2>2. UNCHANGED rows  BY <1>5 DEF BeginPreparation, rows
    <2> QED  BY <2>1, <2>2, WalkStep, FaultTyped DEF BeginPreparation, Before
<1>6. CASE Goes(w, "track") /\ UNCHANGED analysis /\ Current(w) /\ analysis.stage = "tracking"
    <2>1. Move(w, {"track"})  BY <1>6, GoesFacts DEF Ats
    <2>2. UNCHANGED rows  BY <1>6 DEF BeginPreparation, rows
    <2>3. run[w].status # "none" /\ (deletion = "none" \/ run[w].status # "active")
        BY <1>6 DEF IInv, AnalysisOK, FlowOK, Current
    <2>4. May(w, "track")  BY <2>3 DEF May, Delicate
    <2> QED  BY <2>1, <2>2, <2>4, WalkStep, FaultTyped DEF BeginPreparation
<1> QED  BY <1>1, <1>3, <1>4, <1>5, <1>6 DEF BeginPreparation

LEMMA PublishPreparationProgressStep ==
    ASSUME IInv, NEW w \in Workflows, PublishPreparationProgress(w) PROVE IInv'
<1>1. PICK version : version = instance[w].version  OBVIOUS
<1>2. version \in Nat /\ version + 1 \in Nat  BY <1>1 DEF IInv, Typed, InstanceType
<1>a. instance[w].at = "progress"  BY DEF PublishPreparationProgress, Runs
<1>b. instance[w].at \notin Early /\ instance[w].at \notin Before
    BY <1>a DEF Early, Before
<1>3. CASE Current(w) /\ analysis.version = version /\ analysis.status = "running"
             /\ analysis.stage = "preparation"
    <2>1. analysis' = [analysis EXCEPT !.stage = "prepared", !.version = @ + 1]
            /\ GoesWith(w, "start", version + 1)
        BY <1>1, <1>2, <1>3, RowTyped DEF PublishPreparationProgress, Replayed
    <2>2. Move(w, {"start"})  BY <1>2, <2>1, GoesWithFacts DEF Ats
    <2>3. PICK v \in Nat : v = analysis.version + 1  BY RowTyped
    <2>4. analysis' = [analysis EXCEPT !.stage = "prepared", !.version = v]
        BY <2>1, <2>3, RowTyped DEF AnalysisType
    <2>6. /\ analysis' \in AnalysisType /\ analysis'.status = "running"
          /\ analysis'.workflow = analysis.workflow
        BY <1>3, <2>4, RowTyped DEF AnalysisType
    <2>7. UNCHANGED <<run, intent, prepared, clip, deletion, receipt, inputs, media, people, faults>>
        BY DEF PublishPreparationProgress
    <2>8. run[analysis.workflow].status # "none"  BY <1>3, <1>b, HasRun DEF Current
    <2> QED  BY <1>3, <1>b, <2>2, <2>6, <2>7, <2>8, RowTyped, RowStep DEF Active, Delicate
<1>4. CASE GoesWith(w, "start", analysis.version) /\ UNCHANGED analysis
    <2>1. Move(w, {"start"})  BY <1>4, RowTyped, GoesWithFacts DEF Ats
    <2>2. UNCHANGED rows  BY <1>4 DEF PublishPreparationProgress, rows
    <2> QED  BY <1>b, <2>1, <2>2, WalkStep, FaultTyped DEF PublishPreparationProgress, Delicate
<1>5. CASE Ends(w, "complete") /\ UNCHANGED analysis
    <2>1. Move(w, {"off"})  BY <1>5, EndsFacts
    <2>2. UNCHANGED rows  BY <1>5 DEF PublishPreparationProgress, rows
    <2> QED  BY <2>1, <2>2, WalkStep, FaultTyped DEF PublishPreparationProgress, Before
<1> QED  BY <1>1, <1>3, <1>4, <1>5 DEF PublishPreparationProgress

LEMMA PublishTrackingStartStep ==
    ASSUME IInv, NEW w \in Workflows, PublishTrackingStart(w) PROVE IInv'
<1>1. PICK version : version = instance[w].version  OBVIOUS
<1>2. version \in Nat  BY <1>1 DEF IInv, Typed, InstanceType
<1>a. instance[w].at = "start"  BY DEF PublishTrackingStart, Runs
<1>b. instance[w].at \notin Early /\ instance[w].at \notin Before
    BY <1>a DEF Early, Before
<1>3. CASE Current(w) /\ analysis.version = version /\ analysis.status = "running"
             /\ analysis.stage = "prepared"
    <2>1. analysis' = [analysis EXCEPT !.stage = "tracking", !.version = @ + 1]
            /\ Goes(w, "track")
        BY <1>1, <1>2, <1>3, RowTyped DEF PublishTrackingStart, Replayed
    <2>2. Move(w, {"track"})  BY <2>1, GoesFacts DEF Ats
    <2>3. PICK v \in Nat : v = analysis.version + 1  BY RowTyped
    <2>4. analysis' = [analysis EXCEPT !.stage = "tracking", !.version = v]
        BY <2>1, <2>3, RowTyped DEF AnalysisType
    <2>6. /\ analysis' \in AnalysisType /\ analysis'.status = "running"
          /\ analysis'.workflow = analysis.workflow
        BY <1>3, <2>4, RowTyped DEF AnalysisType
    <2>7. UNCHANGED <<run, intent, prepared, clip, deletion, receipt, inputs, media, people, faults>>
        BY DEF PublishTrackingStart
    <2>8. run[analysis.workflow].status # "none"  BY <1>3, <1>b, HasRun DEF Current
    <2> QED  BY <1>3, <1>b, <2>2, <2>6, <2>7, <2>8, RowTyped, RowStep DEF Active, Delicate
<1>4. CASE Goes(w, "track") /\ UNCHANGED analysis
    <2>1. Move(w, {"track"})  BY <1>4, GoesFacts DEF Ats
    <2>2. UNCHANGED rows  BY <1>4 DEF PublishTrackingStart, rows
    <2> QED  BY <1>b, <2>1, <2>2, WalkStep, FaultTyped DEF PublishTrackingStart, Delicate
<1>5. CASE Ends(w, "complete") /\ UNCHANGED analysis
    <2>1. Move(w, {"off"})  BY <1>5, EndsFacts
    <2>2. UNCHANGED rows  BY <1>5 DEF PublishTrackingStart, rows
    <2> QED  BY <2>1, <2>2, WalkStep, FaultTyped DEF PublishTrackingStart, Before
<1> QED  BY <1>1, <1>3, <1>4, <1>5 DEF PublishTrackingStart

\* What the trigger admits for a row that is tracked.
LEMMA AdmittedFacts ==
    ASSUME IInv, NEW new \in AnalysisType, Admitted(new), new.workflow = analysis.workflow,
           new.status \in {"none", "running", "awaiting", "failed"}
    PROVE  analysis.status \in Active /\ new.status # "none"
BY RowTyped DEF Admitted, Statuses, Active

LEMMA PublishTrackingStateStep ==
    ASSUME IInv, NEW w \in Workflows, PublishTrackingState(w) PROVE IInv'
<1>1. PICK target : target = instance[w].target  OBVIOUS
<1>2. target \in {"none", "running", "awaiting", "failed"}
    BY <1>1 DEF IInv, Typed, InstanceType
<1>3. PICK new : new = [analysis EXCEPT !.status = target, !.version = @ + 1]  OBVIOUS
<1>4. /\ new \in AnalysisType /\ new.status = target
      /\ new.workflow = analysis.workflow /\ new.stage = analysis.stage
    <2>1. PICK v \in Nat : v = analysis.version + 1  BY RowTyped
    <2>2. new = [analysis EXCEPT !.status = target, !.version = v]
        BY <1>3, <2>1, RowTyped DEF AnalysisType
    <2>3. target \in Statuses  BY <1>2 DEF Statuses, Active
    <2> QED  BY <2>2, <2>3, RowTyped DEF AnalysisType
<1>5. instance[w].at \notin Early /\ instance[w].at = "write"
    BY DEF PublishTrackingState, Runs, Early, Before
<1>6. CASE UNCHANGED <<analysis, run>>
    <2>1. Move(w, {"track", "wait", "fail"})
        <3>1. CASE GoesOn(w)  BY <3>1, GoesOnFacts
        <3>2. CASE Goes(w, "fail")
            <4>1. Move(w, {"fail"})  BY <3>2, GoesFacts DEF Ats
            <4> QED  BY <4>1 DEF Move
        <3> QED  BY <3>1, <3>2 DEF PublishTrackingState
    <2>2. UNCHANGED rows  BY <1>6 DEF PublishTrackingState, rows
    <2> QED  BY <1>5, <2>1, <2>2, WalkStep, FaultTyped DEF PublishTrackingState, Delicate
<1>7. CASE Witnessed(w) /\ Admitted(new)
    <2>1. /\ analysis' = new /\ GoesOn(w)
          /\ run' = IF target = "failed" THEN Fenced({w}, "failed") ELSE run
        BY <1>1, <1>3, <1>7 DEF PublishTrackingState
    <2>2. Move(w, {"track", "wait", "fail"})  BY <2>1, GoesOnFacts
    <2>3. analysis.status \in Active /\ new.status # "none"
        BY <1>2, <1>4, <1>7, AdmittedFacts
    <2>4. PICK ws \in SUBSET Workflows : ws = {w}  OBVIOUS
    <2>5. /\ run' \in [Workflows -> RunType]
          /\ \A v \in Workflows : \/ run'[v] = run[v]
                                  \/ run[v].status = "active" /\ run'[v].status = "failed"
        <3>1. CASE run' = run  BY <3>1, RowTyped
        <3>2. CASE run' = Fenced(ws, "failed")  BY <3>2, FencedFacts
        <3> QED  BY <2>1, <2>4, <3>1, <3>2
    <2>6. UNCHANGED <<intent, prepared, clip, deletion, receipt, inputs, media, people, faults>>
        BY DEF PublishTrackingState
    <2>7. analysis'.status \in Active \cup {"failed"}
        BY <1>2, <1>4, <2>1, <2>3 DEF Active
    <2>8. \A at \in {"track", "wait", "fail"} :
              \/ at = instance[w].at \/ at \in Before
              \/ instance[w].at \notin Early /\ at \notin Delicate
              \/ May(w, at)
        BY <1>5 DEF Delicate
    <2>9. /\ analysis' \in AnalysisType /\ analysis'.workflow = analysis.workflow
          /\ analysis'.stage = analysis.stage
        BY <1>4, <2>1
    <2> QED  BY <2>2, <2>3, <2>5, <2>6, <2>7, <2>8, <2>9, RowStep
<1> QED  BY <1>1, <1>3, <1>6, <1>7 DEF PublishTrackingState

LEMMA PublishWorkflowFailureStep ==
    ASSUME IInv, NEW w \in Workflows, PublishWorkflowFailure(w) PROVE IInv'
<1>1. PICK ws \in SUBSET Workflows : ws = {w}  OBVIOUS
<1>2. run' = Fenced(ws, "failed")  BY <1>1 DEF PublishWorkflowFailure
<1>3. /\ run' \in [Workflows -> RunType]
      /\ \A v \in Workflows : \/ run'[v] = run[v]
                              \/ run[v].status = "active" /\ run'[v].status = "failed"
    BY <1>2, FencedFacts
<1>4. Move(w, {"off"})  BY EndsFacts DEF PublishWorkflowFailure
<1>5. UNCHANGED <<intent, prepared, clip, deletion, receipt, inputs, media, people, faults>>
    BY DEF PublishWorkflowFailure
<1>6. \A at \in {"off"} : at \in Before  BY DEF Before
<1>7. CASE UNCHANGED analysis
    <2>1. \A v \in Workflows : Steady(v)  BY <1>4, <1>6, MoveSteady
    <2>2. UNCHANGED <<store, writing, request, keeper, claimed>>  BY <1>5 DEF media, people
    <2>3. AnalysisOK'
        BY <1>3, <1>5, <1>7, <2>2, AnalysisKept DEF IInv, AnalysisOK, RunsLast
    <2>4. /\ analysis' \in AnalysisType /\ receipt' \in [Commands -> 0..MaxWorkflows]
          /\ writing' \subseteq Media /\ faults' \in 0..MaxFaults
          /\ instance' \in [Workflows -> InstanceType] /\ request' \in [Clients -> RequestType]
          /\ \A c \in Clients : RequestOK(c)'
        BY <1>4, <1>5, <1>7, <2>2, RequestsKept DEF IInv, Typed, Move
    <2>5. \A v \in Workflows :
              \/ run'[v] = run[v]
              \/ /\ run[v].status # "none" /\ run'[v].status # "none"
                 /\ run'[v].status = "active" => run[v].status = "active"
        BY <1>3
    <2> QED  BY <1>3, <1>5, <1>7, <2>1, <2>2, <2>3, <2>4, <2>5, QuietStep
<1>8. CASE ~ UNCHANGED analysis
    <2>1. analysis' = [analysis EXCEPT !.status = "failed", !.version = @ + 1]
            /\ analysis.status \in {"queued", "running"}
        BY <1>8 DEF PublishWorkflowFailure
    <2>2. PICK v \in Nat : v = analysis.version + 1  BY RowTyped
    <2>3. analysis' = [analysis EXCEPT !.status = "failed", !.version = v]
        BY <2>1, <2>2, RowTyped DEF AnalysisType
    <2>4. "failed" \in Statuses  BY DEF Statuses
    <2>5. /\ analysis' \in AnalysisType /\ analysis'.status = "failed"
          /\ analysis'.workflow = analysis.workflow /\ analysis'.stage = analysis.stage
        BY <2>3, <2>4, RowTyped DEF AnalysisType
    <2>6. analysis.status \in Active  BY <2>1 DEF Active
    <2> QED  BY <1>3, <1>4, <1>5, <1>6, <2>5, <2>6, RowStep
<1> QED  BY <1>7, <1>8

\* An analysis is completed with its run, once what the owner will see is there.
LEMMA CompleteDrivingAnalysisStep ==
    ASSUME IInv, NEW w \in Workflows, CompleteDrivingAnalysis(w) PROVE IInv'
<1>1. PICK new : new = [analysis EXCEPT !.status = "completed", !.stage = "finalization", !.version = @ + 1]
    OBVIOUS
<1>2. CASE Goes(w, "fail") /\ UNCHANGED <<run, analysis>>
    <2>1. Move(w, {"fail"})  BY <1>2, GoesFacts DEF Ats
    <2>2. UNCHANGED rows  BY <1>2 DEF CompleteDrivingAnalysis, rows
    <2> QED  BY <2>1, <2>2, WalkStep, FaultTyped DEF CompleteDrivingAnalysis, Before
<1>3. CASE /\ run[w].status = "active" /\ Reviewable(w)
           /\ analysis.workflow = w /\ analysis.status \in Active
           /\ run' = Fenced({w}, "completed") /\ analysis' = new /\ Ends(w, "complete")
    <2>1. PICK ws \in SUBSET Workflows : ws = {w}  OBVIOUS
    <2>2. run' = Fenced(ws, "completed")  BY <1>3, <2>1
    <2>3. /\ run' \in [Workflows -> RunType]
          /\ \A v \in Workflows :
                \/ run'[v] = run[v]
                \/ /\ run[v].status = "active" /\ run'[v].status = "completed" /\ v \in ws
                   /\ run'[v].evidence = run[v].evidence
          /\ run'[w].status = "completed"
        <3>1. /\ run' \in [Workflows -> RunType]
              /\ \A v \in Workflows :
                    \/ run'[v] = run[v]
                    \/ /\ run[v].status = "active" /\ run'[v].status = "completed" /\ v \in ws
                       /\ run'[v].evidence = run[v].evidence
              /\ \A v \in ws : run[v].status = "active" => run'[v].status = "completed"
            BY <2>2, FencedFacts
        <3>2. w \in ws /\ run[w].status = "active"  BY <1>3, <2>1
        <3> QED  BY <3>1, <3>2
    <2>4. PICK v \in Nat : v = analysis.version + 1  BY RowTyped
    <2>5. new = [analysis EXCEPT !.status = "completed", !.stage = "finalization", !.version = v]
        BY <1>1, <2>4, RowTyped DEF AnalysisType
    <2>6. "completed" \in Statuses  BY DEF Statuses
    <2>7. /\ new \in AnalysisType /\ new.status = "completed" /\ new.workflow = w
        BY <1>3, <2>5, <2>6, RowTyped DEF AnalysisType
    <2>8. deletion = "none"  BY <1>3 DEF IInv, Typed, AnalysisOK, Active
    <2>9. /\ Move(w, {"off"})
          /\ \A v_1 \in Workflows : Steady(v_1)
        BY <1>3, EndsFacts, MoveSteady DEF Before
    <2>a. UNCHANGED <<intent, prepared, clip, deletion, receipt, inputs, store, writing, request,
                      keeper, claimed, faults>>
        BY DEF CompleteDrivingAnalysis, media, people
    <2>b. run'[w].evidence = "committed" /\ clip'[w] = "published"
        BY <1>3, <2>3, <2>a DEF Reviewable
    <2>c. AnalysisOK'
        BY <1>3, <2>3, <2>7, <2>8, <2>a, <2>b DEF IInv, AnalysisOK
    <2>d. /\ receipt' \in [Commands -> 0..MaxWorkflows]
          /\ writing' \subseteq Media /\ faults' \in 0..MaxFaults
          /\ instance' \in [Workflows -> InstanceType] /\ request' \in [Clients -> RequestType]
          /\ \A c \in Clients : RequestOK(c)'
        BY <2>9, <2>a, RequestsKept DEF IInv, Typed, Move
    <2>e. \A u \in Workflows :
              \/ run'[u] = run[u]
              \/ /\ run[u].status # "none" /\ run'[u].status # "none"
                 /\ run'[u].status = "active" => run[u].status = "active"
        BY <2>3
    <2> QED  BY <1>3, <2>3, <2>7, <2>8, <2>9, <2>a, <2>c, <2>d, <2>e, QuietStep
<1> QED  BY <1>1, <1>2, <1>3 DEF CompleteDrivingAnalysis

-----------------------------------------------------------------------------
(* The workflow makes its run, and the Track view and the clips.           *)

\* The run of w is made without a look at the analysis: when that has been
\* deleted, nothing was accepted for the run, and the row is still where it began.
LEMMA CreateRunStep == ASSUME IInv, NEW w \in Workflows, CreateRun(w) PROVE IInv'
<1>1. FlowOK(w) /\ AnalysisOK /\ instance[w].at = "create"
    BY DEF IInv, CreateRun, Runs
<1>2. CASE source /\ run[w].status = "none"
    <2>1. PICK r : r = run[w]  OBVIOUS
    <2>2. r \in RunType /\ run \in [Workflows -> RunType]  BY <2>1 DEF IInv, Typed
    <2>3. PICK q : q = [r EXCEPT !.status = "active"]  OBVIOUS
    <2>4. q \in RunType /\ q.status = "active"  BY <2>2, <2>3 DEF RunType
    <2>5. run' = [run EXCEPT ![w] = q]
        BY <1>2, <2>1, <2>2, <2>3 DEF CreateRun
    <2>6. /\ run' \in [Workflows -> RunType] /\ run'[w].status = "active"
          /\ \A v \in Workflows \ {w} : run'[v] = run[v]
        BY <2>2, <2>4, <2>5
    <2>7. Move(w, {"reread"})  BY <1>2, GoesFacts DEF CreateRun, Ats
    <2>8. UNCHANGED <<analysis, intent, prepared, clip, deletion, receipt, inputs, store, writing,
                      request, keeper, claimed, faults>>
        BY DEF CreateRun, media, people
    <2>9. instance'[w].at = "reread"  BY <2>7 DEF Move
    <2>a. FlowOK(w)'
        BY <1>1, <1>2, <2>6, <2>8, <2>9 DEF FlowOK, AnalysisOK, Stored, Early, Before, Delicate
    <2>b. \A v \in Workflows \ {w} : Kept(v)
        BY <2>6, <2>8 DEF Kept, Stored
    <2>c. Typed'
        BY <2>6, <2>7, <2>8 DEF IInv, Typed, Move
    <2>d. AnalysisOK'
        BY <1>1, <1>2, <2>6, <2>8, AnalysisKept DEF AnalysisOK, RunsLast
    <2> QED  BY <2>7, <2>8, <2>a, <2>b, <2>c, <2>d, OneFlow
<1>3. CASE source /\ run[w].status # "none"
    <2>1. Move(w, {"reread"})  BY <1>3, GoesFacts DEF CreateRun, Ats
    <2>2. UNCHANGED rows  BY <1>3 DEF CreateRun, rows
    <2>3. May(w, "reread")  BY <1>3 DEF May, Delicate
    <2> QED  BY <2>1, <2>2, <2>3, WalkStep, FaultTyped DEF CreateRun
<1>4. CASE ~ source
    <2>1. Move(w, {"create", "fail"})  BY <1>4, FailsFacts DEF CreateRun
    <2>2. UNCHANGED rows  BY <1>4 DEF CreateRun, rows
    <2> QED  BY <2>1, <2>2, WalkStep, FaultTyped DEF CreateRun, Before
<1> QED  BY <1>2, <1>3, <1>4

\* The look at the analysis stops a workflow whose analysis is deleted.
LEMMA RereadAnalysisStep == ASSUME IInv, NEW w \in Workflows, RereadAnalysis(w) PROVE IInv'
<1>1. run[w].status # "none"
    BY HasRun DEF RereadAnalysis, Runs, Before
<1>2. CASE PreparationFails(w)
    <2>1. Move(w, {"create", "fail"})  BY <1>2, FailsFacts
    <2> QED  BY <2>1, WalkStep, FaultTyped DEF RereadAnalysis, Before
<1>3. CASE ~ PreparationFails(w)
    <2>1. PICK at \in {"fence", "pin"} : Goes(w, at) /\ deletion = "none"
        BY <1>3 DEF RereadAnalysis, IInv, Typed, AnalysisOK
    <2>2. Move(w, {at})  BY <2>1, GoesFacts DEF Ats
    <2>3. May(w, at)  BY <1>1, <2>1 DEF May, Delicate
    <2> QED  BY <2>2, <2>3, WalkStep, FaultTyped DEF RereadAnalysis
<1> QED  BY <1>2, <1>3

LEMMA FenceRunStep == ASSUME IInv, NEW w \in Workflows, FenceRun(w) PROVE IInv'
<1>1. PICK ws \in SUBSET Workflows : ws = {w}  OBVIOUS
<1>2. run' = Fenced(ws, "cancelled")  BY <1>1 DEF FenceRun
<1>3. /\ run' \in [Workflows -> RunType]
      /\ \A v \in Workflows : \/ run'[v] = run[v]
                              \/ run[v].status = "active" /\ run'[v].status = "cancelled"
    BY <1>2, FencedFacts
<1>4. Move(w, {"create", "fail"})  BY FailsFacts DEF FenceRun
<1>5. \A v \in Workflows : Steady(v)  BY <1>4, MoveSteady DEF Before
<1>6. UNCHANGED <<analysis, intent, prepared, clip, deletion, receipt, inputs, store, writing,
                  request, keeper, claimed, faults>>
    BY DEF FenceRun, media, people
<1>7. AnalysisOK'
    BY <1>3, <1>6, AnalysisKept DEF IInv, AnalysisOK, RunsLast
<1>8. /\ analysis' \in AnalysisType /\ receipt' \in [Commands -> 0..MaxWorkflows]
      /\ writing' \subseteq Media /\ faults' \in 0..MaxFaults
      /\ instance' \in [Workflows -> InstanceType] /\ request' \in [Clients -> RequestType]
      /\ \A c \in Clients : RequestOK(c)'
    BY <1>4, <1>6, RequestsKept DEF IInv, Typed, Move
<1>9. \A v \in Workflows :
          \/ run'[v] = run[v]
          \/ /\ run[v].status # "none" /\ run'[v].status # "none"
             /\ run'[v].status = "active" => run[v].status = "active"
    BY <1>3
<1> QED  BY <1>3, <1>5, <1>6, <1>7, <1>8, <1>9, QuietStep

\* Steps of the delicate part: whatever moves w, its own media and rows are all
\* that changes.
LEMMA DelicateStep ==
    ASSUME IInv, NEW w \in Workflows, NEW ats, Move(w, ats), FlowOK(w)',
           UNCHANGED <<analysis, run, deletion, receipt, inputs, people>>,
           intent' \in [Workflows -> {"none", "preparing", "deleting"}],
           prepared' \in [Workflows -> {"none", "active", "deleted"}],
           clip' \in [Workflows -> {"none", "planned", "published"}],
           store' \subseteq Media, writing' \subseteq Media, faults' \in 0..MaxFaults,
           clip[w] = "published" => clip'[w] = "published",
           \A v \in Workflows \ {w} :
                /\ prepared'[v] = prepared[v] /\ intent'[v] = intent[v] /\ clip'[v] = clip[v]
                /\ Stored("prepared", v) => Stored("prepared", v)'
                /\ Stored("clip", v) => Stored("clip", v)'
    PROVE  IInv'
<1>1. UNCHANGED <<request, keeper, claimed>>  BY DEF people
<1>2. \A v \in Workflows \ {w} : Kept(v)  BY <1>1 DEF Kept
<1>3. Typed'  BY <1>1 DEF IInv, Typed, Move
<1>4. AnalysisOK'
    BY <1>1, AnalysisKept DEF IInv, AnalysisOK, RunsLast
<1> QED  BY <1>1, <1>2, <1>3, <1>4, OneFlow

LEMMA PreparationContextStep ==
    ASSUME IInv, NEW w \in Workflows, PreparationContext(w) PROVE IInv'
<1>1. FlowOK(w) /\ instance[w].at = "context"
    BY DEF IInv, PreparationContext, Runs
<1>2. CASE PreparationFails(w)
    <2>1. Move(w, {"create", "fail"})  BY <1>2, FailsFacts
    <2> QED  BY <2>1, WalkStep, FaultTyped DEF PreparationContext, Before
<1>3. CASE Goes(w, "progress")
    <2>1. Move(w, {"progress"})  BY <1>3, GoesFacts DEF Ats
    <2> QED  BY <1>1, <2>1, WalkStep, FaultTyped DEF PreparationContext, Early, Before, Delicate
<1>4. CASE Goes(w, "intent") /\ run[w].status = "active" /\ prepared[w] = "none"
    <2>1. Move(w, {"intent"})  BY <1>4, GoesFacts DEF Ats
    <2>2. UNCHANGED <<analysis, run, intent, prepared, clip, deletion, receipt, inputs, store, writing,
                      people, claimed, faults>>
        BY DEF PreparationContext, rows, media, people
    <2>3. instance'[w].at = "intent"  BY <2>1 DEF Move
    <2>4. FlowOK(w)'
        BY <1>1, <1>4, <2>2, <2>3 DEF FlowOK, Stored, Early, Before, Delicate
    <2> QED  BY <2>1, <2>2, <2>4, DelicateStep DEF IInv, Typed, Stored
<1> QED  BY <1>2, <1>3, <1>4 DEF PreparationContext

LEMMA RecordPreparationIntentStep ==
    ASSUME IInv, NEW w \in Workflows, RecordPreparationIntent(w) PROVE IInv'
<1>1. FlowOK(w) /\ instance[w].at = "intent" /\ intent \in [Workflows -> {"none", "preparing", "deleting"}]
    BY DEF IInv, Typed, RecordPreparationIntent, Runs
<1>2. PICK recorded : recorded = IF run[w].status = "active" /\ intent[w] = "none"
                                 THEN "preparing" ELSE intent[w]
    OBVIOUS
<1>3. intent' = [intent EXCEPT ![w] = recorded] /\ recorded \in {"none", "preparing", "deleting"}
    BY <1>1, <1>2 DEF RecordPreparationIntent
<1>4. /\ intent' \in [Workflows -> {"none", "preparing", "deleting"}] /\ intent'[w] = recorded
      /\ \A v \in Workflows \ {w} : intent'[v] = intent[v]
    BY <1>1, <1>3
<1>5. UNCHANGED <<analysis, run, prepared, clip, deletion, receipt, inputs, store, people, claimed, faults>>
    BY DEF RecordPreparationIntent, people
<1>6. Move(w, {"media", "create", "fail"}) /\ writing' \subseteq Media
    <2>1. CASE run[w].status = "active" /\ recorded = "preparing"
        <3>1. writing' = writing \cup {<<"prepared", w>>} /\ Goes(w, "media")
            BY <1>2, <2>1 DEF RecordPreparationIntent
        <3>2. Move(w, {"media"})  BY <3>1, GoesFacts DEF Ats
        <3> QED  BY <3>1, <3>2 DEF Move, IInv, Typed, Media
    <2>2. CASE ~ (run[w].status = "active" /\ recorded = "preparing")
        <3>1. UNCHANGED writing /\ PreparationFails(w)
            BY <1>2, <2>2 DEF RecordPreparationIntent
        <3>2. Move(w, {"create", "fail"})  BY <3>1, FailsFacts
        <3> QED  BY <3>1, <3>2 DEF Move, IInv, Typed
    <2> QED  BY <2>1, <2>2
<1>7. instance'[w].at \in {"media", "create", "fail"}  BY <1>6 DEF Move
<1>8. FlowOK(w)'
    BY <1>1, <1>2, <1>4, <1>5, <1>7 DEF FlowOK, Stored, Early, Before, Delicate
<1> QED  BY <1>4, <1>5, <1>6, <1>8, DelicateStep DEF IInv, Typed, Stored

LEMMA MediaPreparedStep == ASSUME IInv, NEW w \in Workflows, MediaPrepared(w) PROVE IInv'
<1>1. FlowOK(w) /\ instance[w].at = "media" /\ Stored("prepared", w)
    BY DEF IInv, MediaPrepared, Runs
<1>2. Move(w, {"accept"})  BY GoesFacts DEF MediaPrepared, Ats
<1>3. UNCHANGED <<analysis, run, intent, prepared, clip, deletion, receipt, inputs, store, writing,
                  people, claimed, faults>>
    BY DEF MediaPrepared, rows, media, people
<1>4. instance'[w].at = "accept"  BY <1>2 DEF Move
<1>5. FlowOK(w)'
    BY <1>1, <1>3, <1>4 DEF FlowOK, Stored, Early, Before, Delicate
<1> QED  BY <1>2, <1>3, <1>5, DelicateStep DEF IInv, Typed, Stored

\* A view is accepted only while it is there: the cleanup that deletes it has
\* claimed its identity before.
LEMMA AcceptPreparedTrackViewStep ==
    ASSUME IInv, NEW w \in Workflows, AcceptPreparedTrackView(w) PROVE IInv'
<1>1. FlowOK(w) /\ instance[w].at = "accept" /\ prepared \in [Workflows -> {"none", "active", "deleted"}]
    BY DEF IInv, Typed, AcceptPreparedTrackView, Runs
<1>2. UNCHANGED <<analysis, run, intent, clip, deletion, receipt, inputs, store, writing,
                  people, claimed, faults>>
    BY DEF AcceptPreparedTrackView, media, people
<1>3. CASE Acceptable(w)
    <2>1. prepared' = [prepared EXCEPT ![w] = "active"] /\ Goes(w, "progress")
        BY <1>3 DEF AcceptPreparedTrackView
    <2>2. Move(w, {"progress"})  BY <2>1, GoesFacts DEF Ats
    <2>3. instance'[w].at = "progress"  BY <2>2 DEF Move
    <2>4. /\ prepared' \in [Workflows -> {"none", "active", "deleted"}] /\ prepared'[w] = "active"
          /\ \A v \in Workflows \ {w} : prepared'[v] = prepared[v]
        BY <1>1, <2>1
    <2>5. FlowOK(w)'
        BY <1>1, <1>2, <1>3, <2>3, <2>4 DEF FlowOK, Acceptable, Stored, Early, Before, Delicate
    <2> QED  BY <1>2, <2>2, <2>4, <2>5, DelicateStep DEF IInv, Typed, Stored
<1>4. CASE ~ Acceptable(w)
    <2>1. Move(w, {"discard", "create", "fail"})
        <3>1. CASE PreparationFails(w)
            <4>1. Move(w, {"create", "fail"})  BY <3>1, FailsFacts
            <4> QED  BY <4>1 DEF Move
        <3>2. CASE Goes(w, "discard")
            <4>1. Move(w, {"discard"})  BY <3>2, GoesFacts DEF Ats
            <4> QED  BY <4>1 DEF Move
        <3> QED  BY <1>4, <3>1, <3>2 DEF AcceptPreparedTrackView
    <2>2. UNCHANGED prepared  BY <1>4 DEF AcceptPreparedTrackView
    <2>3. instance'[w].at \in {"discard", "create", "fail"}  BY <2>1 DEF Move
    <2>4. FlowOK(w)'
        BY <1>1, <1>2, <2>2, <2>3 DEF FlowOK, Stored, Early, Before, Delicate
    <2> QED  BY <1>2, <2>1, <2>2, <2>4, DelicateStep DEF IInv, Typed, Stored
<1> QED  BY <1>3, <1>4

LEMMA DiscardCandidateStep == ASSUME IInv, NEW w \in Workflows, DiscardCandidate(w) PROVE IInv'
<1>1. FlowOK(w) /\ instance[w].at \in {"media", "discard"} /\ store \subseteq Media
    BY DEF IInv, Typed, DiscardCandidate, Runs
<1>2. Move(w, {"create", "fail"})  BY FailsFacts DEF DiscardCandidate
<1>3. /\ UNCHANGED <<analysis, run, intent, prepared, clip, deletion, receipt, inputs, writing,
                     people, claimed>>
      /\ store' = store \ {<<"prepared", w>>}
    BY DEF DiscardCandidate, rows, people, Deleted
<1>4. faults' \in 0..MaxFaults  BY FaultTyped DEF DiscardCandidate, Answers
<1>5. instance'[w].at \in {"create", "fail"}  BY <1>2 DEF Move
<1>6. Stored("clip", w) => Stored("clip", w)'  BY <1>3 DEF Stored
<1>7. \A v \in Workflows \ {w} : /\ Stored("prepared", v) => Stored("prepared", v)'
                                 /\ Stored("clip", v) => Stored("clip", v)'
    BY <1>3 DEF Stored
<1>8. FlowOK(w)'
    BY <1>1, <1>3, <1>5, <1>6 DEF FlowOK, Early, Before, Delicate
<1>9. store' \subseteq Media  BY <1>1, <1>3
<1> QED  BY <1>2, <1>3, <1>4, <1>7, <1>8, <1>9, DelicateStep DEF IInv, Typed

LEMMA RenderClipStep == ASSUME IInv, NEW w \in Workflows, RenderClip(w) PROVE IInv'
<1>1. FlowOK(w) /\ instance[w].at = "plan" /\ clip \in [Workflows -> {"none", "planned", "published"}]
    BY DEF IInv, Typed, RenderClip, Runs
<1>2. UNCHANGED <<analysis, run, intent, prepared, deletion, receipt, inputs, store, people, claimed, faults>>
    BY DEF RenderClip, people
<1>3. PICK q \in {"planned", "published"} : q = IF clip[w] = "none" THEN "planned" ELSE clip[w]
    BY <1>1
<1>4. /\ clip' \in [Workflows -> {"none", "planned", "published"}] /\ clip'[w] = q
      /\ \A v \in Workflows \ {w} : clip'[v] = clip[v]
    BY <1>1, <1>3 DEF RenderClip
<1>5. Move(w, {"complete", "rendering"}) /\ writing' \subseteq Media
    <2>1. CASE clip[w] = "published"
        <3>1. UNCHANGED writing /\ Goes(w, "complete")  BY <2>1 DEF RenderClip
        <3>2. Move(w, {"complete"})  BY <3>1, GoesFacts DEF Ats
        <3> QED  BY <3>1, <3>2 DEF Move, IInv, Typed
    <2>2. CASE clip[w] # "published"
        <3>1. writing' = writing \cup {<<"clip", w>>} /\ Goes(w, "rendering")  BY <2>2 DEF RenderClip
        <3>2. Move(w, {"rendering"})  BY <3>1, GoesFacts DEF Ats
        <3> QED  BY <3>1, <3>2 DEF Move, IInv, Typed, Media
    <2> QED  BY <2>1, <2>2
<1>6. instance'[w].at \in {"complete", "rendering"}  BY <1>5 DEF Move
<1>7. FlowOK(w)'
    BY <1>1, <1>2, <1>3, <1>4, <1>6 DEF FlowOK, Stored, Early, Before, Delicate
<1> QED  BY <1>2, <1>3, <1>4, <1>5, <1>7, DelicateStep DEF IInv, Typed, Stored

LEMMA ClipRenderedStep == ASSUME IInv, NEW w \in Workflows, ClipRendered(w) PROVE IInv'
<1>1. FlowOK(w) /\ instance[w].at = "rendering"
    BY DEF IInv, ClipRendered, Runs
<1>2. faults' \in 0..MaxFaults  BY FaultTyped DEF ClipRendered, Answers
<1>3. UNCHANGED <<analysis, run, intent, prepared, clip, deletion, receipt, inputs, store, writing,
                  people, claimed>>
    BY DEF ClipRendered, rows, media, people
<1>4. CASE Stored("clip", w) /\ <<"clip", w>> \notin writing
    <2>1. Move(w, {"publishClip"})  BY <1>4, GoesFacts DEF ClipRendered, Ats
    <2>2. instance'[w].at = "publishClip"  BY <2>1 DEF Move
    <2>3. FlowOK(w)'
        BY <1>1, <1>3, <1>4, <2>2 DEF FlowOK, Stored, Early, Before, Delicate
    <2> QED  BY <1>2, <1>3, <2>1, <2>3, DelicateStep DEF IInv, Typed, Stored
<1>5. CASE ~ (Stored("clip", w) /\ <<"clip", w>> \notin writing)
    <2>1. Move(w, {"fail"})  BY <1>5, GoesFacts DEF ClipRendered, Ats
    <2> QED  BY <1>2, <2>1, WalkStep DEF ClipRendered, Before
<1> QED  BY <1>4, <1>5

\* A workflow deletes the clip it may not publish only when the analysis is
\* deleted.
LEMMA PublishClipStep == ASSUME IInv, NEW w \in Workflows, PublishClip(w) PROVE IInv'
<1>1. /\ FlowOK(w) /\ AnalysisOK /\ instance[w].at = "publishClip" /\ store \subseteq Media
      /\ clip \in [Workflows -> {"none", "planned", "published"}]
    BY DEF IInv, Typed, PublishClip, Runs
<1>2. UNCHANGED <<analysis, run, intent, prepared, deletion, receipt, inputs, writing, people, claimed, faults>>
    BY DEF PublishClip, people
<1>3. CASE Renders(w)
    <2>1. clip' = [clip EXCEPT ![w] = "published"] /\ Goes(w, "complete") /\ UNCHANGED store
        BY <1>3 DEF PublishClip
    <2>2. Move(w, {"complete"})  BY <2>1, GoesFacts DEF Ats
    <2>3. instance'[w].at = "complete"  BY <2>2 DEF Move
    <2>4. /\ clip' \in [Workflows -> {"none", "planned", "published"}] /\ clip'[w] = "published"
          /\ \A v \in Workflows \ {w} : clip'[v] = clip[v]
        BY <1>1, <2>1
    <2>5. FlowOK(w)'
        BY <1>1, <1>2, <2>1, <2>3, <2>4 DEF FlowOK, Stored, Early, Before, Delicate
    <2> QED  BY <1>2, <2>1, <2>2, <2>4, <2>5, DelicateStep DEF IInv, Typed, Stored
<1>4. CASE ~ Renders(w)
    <2>1. UNCHANGED clip /\ Goes(w, "fail")  BY <1>4 DEF PublishClip
    <2>2. Move(w, {"fail"})  BY <2>1, GoesFacts DEF Ats
    <2>3. instance'[w].at = "fail"  BY <2>2 DEF Move
    <2>4. /\ store' \subseteq Media
          /\ \/ store' = store
             \/ deletion # "none" /\ store' = store \ {<<"clip", w>>}
        <3>1. CASE UNCHANGED store  BY <1>1, <3>1
        <3>2. CASE analysis.status \in {"deleting", "deleted"} /\ Deleted({<<"clip", w>>})
            BY <1>1, <3>2 DEF AnalysisOK, Deleted
        <3> QED  BY <1>4, <3>1, <3>2 DEF PublishClip
    <2>5. \A v \in Workflows :
              /\ Stored("prepared", v) => Stored("prepared", v)'
              /\ Stored("clip", v) => Stored("clip", v)' \/ (v = w /\ deletion # "none")
        BY <2>4 DEF Stored
    <2>6. FlowOK(w)'
        BY <1>1, <1>2, <2>1, <2>3, <2>5 DEF FlowOK, Early, Before, Delicate
    <2> QED  BY <1>2, <2>1, <2>2, <2>4, <2>5, <2>6, DelicateStep DEF IInv, Typed
<1> QED  BY <1>3, <1>4

-----------------------------------------------------------------------------
(* The container, the recording and the maintenance.                       *)

\* Steps that leave every workflow where it is and change objects or what names
\* them.
LEMMA AsideStep ==
    ASSUME IInv, UNCHANGED <<analysis, run, clip, receipt, instance, request>>,
           intent' \in [Workflows -> {"none", "preparing", "deleting"}],
           prepared' \in [Workflows -> {"none", "active", "deleted"}],
           source' \in BOOLEAN, drive' \in {"current", "withdrawn", "restored"},
           store' \subseteq Media, writing' \subseteq Media,
           keeper' \in KeeperType, claimed' \subseteq Workflows, faults' \in 0..MaxFaults,
           UNCHANGED deletion, keeper'.at = "delete" => deletion # "none",
           \A w \in Workflows : FlowOK(w)'
    PROVE  IInv'
<1>1. Typed'  BY DEF IInv, Typed
<1>2. AnalysisOK'  BY AnalysisKept DEF IInv, AnalysisOK, RunsLast
<1> QED  BY <1>1, <1>2, RequestsKept DEF IInv

LEMMA FinishWriteStep == ASSUME IInv, NEW m \in Media, FinishWrite(m) PROVE IInv'
<1>1. UNCHANGED <<analysis, run, intent, prepared, clip, deletion, receipt, inputs, instance,
                  request, keeper, claimed, faults>>
    BY DEF FinishWrite, rows, people
<1>2. store' \subseteq Media /\ writing' \subseteq Media /\ store \subseteq store'
    BY DEF FinishWrite, IInv, Typed
<1>3. ASSUME NEW w \in Workflows PROVE FlowOK(w)'
    <2>1. FlowOK(w)  BY DEF IInv
    <2>2. /\ Stored("prepared", w) => Stored("prepared", w)'
          /\ Stored("clip", w) => Stored("clip", w)'
        BY <1>2 DEF Stored
    <2> QED  BY <1>1, <2>1, <2>2 DEF FlowOK
<1> QED  BY <1>1, <1>2, <1>3, AsideStep DEF IInv, Typed, AnalysisOK

LEMMA AbortWriteStep == ASSUME IInv, NEW m \in Media, AbortWrite(m) PROVE IInv'
<1>1. UNCHANGED <<analysis, run, intent, prepared, clip, deletion, receipt, inputs, store, instance,
                  request, keeper, claimed, faults>>
    BY DEF AbortWrite, rows, people
<1>2. writing' \subseteq Media
    BY DEF AbortWrite, IInv, Typed
<1>3. ASSUME NEW w \in Workflows PROVE FlowOK(w)'
    BY <1>1 DEF IInv, FlowOK, Stored
<1> QED  BY <1>1, <1>2, <1>3, AsideStep DEF IInv, Typed, AnalysisOK

LEMMA DriveStep == ASSUME IInv, WithdrawDrive \/ RestoreDrive PROVE IInv'
<1>1. UNCHANGED <<analysis, run, intent, prepared, clip, deletion, receipt, source, store, writing,
                  instance, request, keeper, claimed, faults>>
      /\ drive' \in {"current", "withdrawn", "restored"}
    BY DEF WithdrawDrive, RestoreDrive, rows, media, people
<1>2. ASSUME NEW w \in Workflows PROVE FlowOK(w)'
    BY <1>1 DEF IInv, FlowOK, Stored
<1> QED  BY <1>1, <1>2, AsideStep DEF IInv, Typed, AnalysisOK

LEMMA DiscardSourceStep == ASSUME IInv, DiscardSource PROVE IInv'
<1>1. UNCHANGED <<analysis, run, intent, prepared, clip, deletion, receipt, drive, store, writing, instance,
                  request, keeper, claimed, faults>> /\ source' = FALSE
    BY DEF DiscardSource, rows, media, people
<1>3. ASSUME NEW w \in Workflows PROVE FlowOK(w)'
    BY <1>1 DEF IInv, FlowOK, Stored
<1> QED  BY <1>1, <1>3, AsideStep DEF IInv, Typed, AnalysisOK

\* The cleanup is about a deleted analysis, whose active runs have accepted
\* nothing.
LEMMA BeginCleanupStep == ASSUME IInv, BeginCleanup PROVE IInv'
<1>1. /\ UNCHANGED <<analysis, run, intent, prepared, clip, deletion, receipt, inputs, store, writing,
                     request, claimed, faults>>
      /\ deletion # "none" /\ keeper'.at = "delete"
    BY DEF BeginCleanup, rows, media
<1>2. keeper' \in KeeperType
    <2>1. NamedKeys \in SUBSET Media  BY DEF NamedKeys
    <2> QED  BY <2>1 DEF BeginCleanup, KeeperType
<1>3. analysis.workflow \in Workflows
    BY <1>1, RowTyped DEF IInv, AnalysisOK, Statuses
<1>4. PICK w \in Workflows : w = analysis.workflow  BY <1>3
<1>5. Move(w, {"off", instance[w].at})
    <2>1. CASE instance' = Stopped(w)  BY <2>1, StoppedFacts
    <2>2. CASE instance' = instance  BY <2>2 DEF Move, IInv, Typed
    <2> QED  BY <1>4, <2>1, <2>2 DEF BeginCleanup
<1>6. \A v \in Workflows : Steady(v)  BY <1>5, MoveSteady DEF Before
<1>7. \A v \in Workflows : FlowOK(v)'
    BY <1>1, <1>6, FlowKept DEF IInv, Kept, Stored
<1>8. Typed'  BY <1>1, <1>2, <1>5 DEF IInv, Typed, Move
<1>9. AnalysisOK'  BY <1>1, AnalysisKept DEF IInv, RunsLast
<1> QED  BY <1>1, <1>7, <1>8, <1>9, RequestsKept DEF IInv

LEMMA IdleTyped == IdleKeeper \in KeeperType /\ IdleKeeper.at = "idle"
BY DEF IdleKeeper, KeeperType

LEMMA DeleteMediaStep == ASSUME IInv, DeleteMedia PROVE IInv'
<1>1. /\ UNCHANGED <<run, intent, prepared, clip, receipt, inputs, writing, instance, request, claimed, faults>>
      /\ deletion # "none" /\ deletion' = "done" /\ keeper' = IdleKeeper
      /\ store' \subseteq store
    BY DEF DeleteMedia, Deleted, IInv, AnalysisOK
<1>2. /\ analysis' \in AnalysisType /\ analysis'.status \in {"deleting", "deleted"}
      /\ analysis'.workflow = analysis.workflow /\ analysis'.stage = analysis.stage
    <2>1. analysis.status \in {"deleting", "deleted"}  BY <1>1 DEF IInv, AnalysisOK
    <2>2. CASE analysis' = analysis  BY <2>1, <2>2, RowTyped
    <2>3. CASE analysis' # analysis
        <3>1. PICK v \in Nat : v = analysis.version + 1  BY RowTyped
        <3>2. analysis' = [analysis EXCEPT !.status = "deleted", !.version = v]
            BY <2>3, <3>1, RowTyped DEF DeleteMedia, AnalysisType
        <3>3. "deleted" \in Statuses  BY DEF Statuses
        <3> QED  BY <3>2, <3>3, RowTyped DEF AnalysisType
    <2> QED  BY <2>2, <2>3
<1>3. Typed'  BY <1>1, <1>2, IdleTyped DEF IInv, Typed
<1>4. ASSUME NEW w \in Workflows PROVE FlowOK(w)'
    <2>1. FlowOK(w)  BY DEF IInv
    <2>2. Stored("prepared", w)' => Stored("prepared", w)  BY <1>1 DEF Stored
    <2> QED  BY <1>1, <1>2, <2>1, <2>2 DEF FlowOK, Early, Before
<1>5. AnalysisOK'
    BY <1>1, <1>2, IdleTyped DEF IInv, AnalysisOK
<1> QED  BY <1>1, <1>3, <1>4, <1>5, RequestsKept DEF IInv

LEMMA DeleteMediaFailsStep == ASSUME IInv, DeleteMediaFails PROVE IInv'
<1>1. /\ UNCHANGED <<analysis, run, intent, prepared, clip, deletion, receipt, inputs, writing, instance,
                     request, claimed>>
      /\ deletion # "none" /\ keeper' = IdleKeeper /\ store' \subseteq store
    BY DEF DeleteMediaFails, rows, Deleted, IInv, AnalysisOK
<1>2. faults' \in 0..MaxFaults  BY FaultTyped DEF DeleteMediaFails
<1>4. ASSUME NEW w \in Workflows PROVE FlowOK(w)'
    <2>1. FlowOK(w)  BY DEF IInv
    <2> QED  BY <1>1, <2>1 DEF FlowOK, Early, Before
<1> QED  BY <1>1, <1>2, <1>4, IdleTyped, AsideStep DEF IInv, Typed

LEMMA SweepAcceptedStep == ASSUME IInv, NEW w \in Workflows, SweepAccepted(w) PROVE IInv'
<1>1. /\ UNCHANGED <<analysis, run, intent, clip, deletion, receipt, inputs, writing, instance,
                     request, keeper, claimed>>
      /\ prepared[w] = "active" /\ run[w].status # "active" /\ store' = store \ {<<"prepared", w>>}
    BY DEF SweepAccepted, people, Deleted
<1>2. faults' \in 0..MaxFaults  BY FaultTyped DEF SweepAccepted
<1>3. /\ prepared' \in [Workflows -> {"none", "active", "deleted"}]
      /\ prepared'[w] \in {"active", "deleted"}
      /\ \A v \in Workflows \ {w} : prepared'[v] = prepared[v]
    BY <1>1 DEF SweepAccepted, IInv, Typed
<1>4. ASSUME NEW v \in Workflows PROVE FlowOK(v)'
    <2>1. FlowOK(v)  BY DEF IInv
    <2>2. /\ v # w => (Stored("prepared", v) => Stored("prepared", v)')
          /\ Stored("clip", v) => Stored("clip", v)'
        BY <1>1 DEF Stored
    <2>3. CASE v = w  BY <1>1, <1>3, <2>1, <2>2, <2>3 DEF FlowOK
    <2>4. CASE v # w  BY <1>1, <1>3, <2>1, <2>2, <2>4 DEF FlowOK
    <2> QED  BY <2>3, <2>4
<1>5. store' \subseteq Media  BY <1>1 DEF IInv, Typed
<1> QED  BY <1>1, <1>2, <1>3, <1>4, <1>5, AsideStep DEF IInv, Typed, AnalysisOK

\* The claim comes first, so whoever accepts afterwards finds it.
LEMMA ClaimAbandonedStep == ASSUME IInv, NEW w \in Workflows, ClaimAbandoned(w) PROVE IInv'
<1>1. /\ UNCHANGED <<analysis, run, prepared, clip, deletion, receipt, inputs, store, writing, instance,
                     request, keeper, faults>>
      /\ prepared[w] = "none" /\ claimed' = claimed \cup {w}
      /\ intent' = [intent EXCEPT ![w] = "deleting"]
    BY DEF ClaimAbandoned, Abandoned, media
<1>2. /\ intent' \in [Workflows -> {"none", "preparing", "deleting"}] /\ intent'[w] = "deleting"
      /\ \A v \in Workflows \ {w} : intent'[v] = intent[v]
    BY <1>1 DEF IInv, Typed
<1>3. ASSUME NEW v \in Workflows PROVE FlowOK(v)'
    <2>1. FlowOK(v)  BY DEF IInv
    <2>3. CASE v = w  BY <1>1, <1>2, <2>1, <2>3 DEF FlowOK, Stored
    <2>4. CASE v # w  BY <1>1, <1>2, <2>1, <2>4 DEF FlowOK, Stored
    <2> QED  BY <2>3, <2>4
<1>4. claimed' \subseteq Workflows  BY <1>1 DEF IInv, Typed
<1> QED  BY <1>1, <1>2, <1>3, <1>4, AsideStep DEF IInv, Typed, AnalysisOK

LEMMA DeleteAbandonedStep == ASSUME IInv, NEW w \in Workflows, DeleteAbandoned(w) PROVE IInv'
<1>1. /\ UNCHANGED <<analysis, run, intent, prepared, clip, deletion, receipt, inputs, writing, instance,
                     request, keeper, faults>>
      /\ w \in claimed /\ claimed' = claimed \ {w} /\ store' = store \ {<<"prepared", w>>}
    BY DEF DeleteAbandoned, rows, Deleted
<1>2. claimed' \subseteq Workflows /\ store' \subseteq Media  BY <1>1 DEF IInv, Typed
<1>3. ASSUME NEW v \in Workflows PROVE FlowOK(v)'
    <2>1. FlowOK(v)  BY DEF IInv
    <2>2. /\ v # w => (Stored("prepared", v) => Stored("prepared", v)')
          /\ Stored("clip", v) => Stored("clip", v)'
        BY <1>1 DEF Stored
    <2>3. CASE v = w
        <3>1. intent[w] = "deleting" /\ prepared[w] = "none"
            BY <1>1, <2>1, <2>3 DEF FlowOK
        <3> QED  BY <1>1, <2>1, <2>2, <2>3, <3>1 DEF FlowOK
    <2>4. CASE v # w  BY <1>1, <2>1, <2>2, <2>4 DEF FlowOK
    <2> QED  BY <2>3, <2>4
<1> QED  BY <1>1, <1>2, <1>3, AsideStep DEF IInv, Typed, AnalysisOK

-----------------------------------------------------------------------------
(* The invariant.                                                          *)

LEMMA Start == Init => IInv
<1> SUFFICES ASSUME Init PROVE IInv  OBVIOUS
<1>1. NoAnalysis \in AnalysisType /\ NoAnalysis.status = "none" /\ NoAnalysis.stage = "preparation"
    BY LifecycleAssumption DEF NoAnalysis, AnalysisType, Statuses
<1>2. NoRun \in RunType /\ NoRun.status = "none" /\ NoRun.pinned = FALSE
    BY LifecycleAssumption DEF NoRun, RunType
<1>3. NoInstance \in InstanceType /\ NoInstance.at = "off"
    BY NoInstanceTyped DEF NoInstance
<1>4. NoRequest \in RequestType /\ NoRequest.at = "idle"
    BY LifecycleAssumption DEF NoRequest, RequestType, Statuses
<1>5. /\ analysis = NoAnalysis /\ run = [w \in Workflows |-> NoRun]
      /\ instance = [w \in Workflows |-> NoInstance] /\ request = [c \in Clients |-> NoRequest]
      /\ keeper = IdleKeeper
      /\ intent = [w \in Workflows |-> "none"] /\ prepared = [w \in Workflows |-> "none"]
      /\ clip = [w \in Workflows |-> "none"] /\ receipt = [k \in Commands |-> 0]
      /\ deletion = "none" /\ source = TRUE /\ drive = "current" /\ store = {} /\ writing = {}
      /\ claimed = {} /\ faults = 0
    BY DEF Init
<1>6. Typed
    <2>1. 0 \in 0..MaxWorkflows /\ 0 \in 0..MaxFaults  BY LifecycleAssumption
    <2> QED  BY <1>1, <1>2, <1>3, <1>4, <1>5, <2>1, IdleTyped DEF Typed
<1>7. AnalysisOK  BY <1>1, <1>5, IdleTyped DEF AnalysisOK
<1>8. \A w \in Workflows : FlowOK(w)
    BY <1>2, <1>3, <1>5 DEF FlowOK, Before, Early, Delicate
<1>9. \A c \in Clients : RequestOK(c)  BY <1>4, <1>5 DEF RequestOK
<1> QED  BY <1>6, <1>7, <1>8, <1>9 DEF IInv

LEMMA PreparationStep == ASSUME IInv, NEW w \in Workflows, Preparation(w) PROVE IInv'
<1>1. CASE BeginPreparation(w)  BY <1>1, BeginPreparationStep
<1>2. CASE CreateRun(w)  BY <1>2, CreateRunStep
<1>3. CASE RereadAnalysis(w)  BY <1>3, RereadAnalysisStep
<1>4. CASE FenceRun(w)  BY <1>4, FenceRunStep
<1>5. CASE PinRunInput(w)  BY <1>5, PinRunInputStep
<1>6. CASE PreparationContext(w)  BY <1>6, PreparationContextStep
<1>7. CASE RecordPreparationIntent(w)  BY <1>7, RecordPreparationIntentStep
<1>8. CASE MediaPrepared(w)  BY <1>8, MediaPreparedStep
<1>9. CASE AcceptPreparedTrackView(w)  BY <1>9, AcceptPreparedTrackViewStep
<1>10. CASE DiscardCandidate(w)  BY <1>10, DiscardCandidateStep
<1>11. CASE PublishPreparationProgress(w)  BY <1>11, PublishPreparationProgressStep
<1>12. CASE PublishTrackingStart(w)  BY <1>12, PublishTrackingStartStep
<1> QED  BY <1>1, <1>2, <1>3, <1>4, <1>5, <1>6, <1>7, <1>8, <1>9, <1>10, <1>11, <1>12 DEF Preparation

LEMMA TrackingStep == ASSUME IInv, NEW w \in Workflows, Tracking(w) PROVE IInv'
<1>1. CASE TrackingStale(w)  BY <1>1, TrackingStaleStep
<1>2. CASE ResumeTracking(w)  BY <1>2, ResumeTrackingStep
<1>3. CASE AcceptGap(w)  BY <1>3, AcceptGapStep
<1>4. CASE ResumeAtGap(w)  BY <1>4, ResumeAtGapStep
<1>5. CASE AcceptRace(w)  BY <1>5, AcceptRaceStep
<1>6. CASE TrackingFails(w)  BY <1>6, TrackingFailsStep
<1>7. CASE ReadTrackingState(w)  BY <1>7, ReadTrackingStateStep
<1>8. CASE PublishTrackingState(w)  BY <1>8, PublishTrackingStateStep
<1>9. CASE WakeUp(w)  BY <1>9, WakeUpStep
<1>10. CASE CommitEvidence(w)  BY <1>10, CommitEvidenceStep
<1>11. CASE ReadClipInputs(w)  BY <1>11, ReadClipInputsStep
<1>12. CASE RenderClip(w)  BY <1>12, RenderClipStep
<1>13. CASE ClipRendered(w)  BY <1>13, ClipRenderedStep
<1>14. CASE PublishClip(w)  BY <1>14, PublishClipStep
<1>15. CASE CompleteDrivingAnalysis(w)  BY <1>15, CompleteDrivingAnalysisStep
<1>16. CASE ReadForFailure(w)  BY <1>16, ReadForFailureStep
<1>17. CASE PublishWorkflowFailure(w)  BY <1>17, PublishWorkflowFailureStep
<1> QED  BY <1>1, <1>2, <1>3, <1>4, <1>5, <1>6, <1>7, <1>8, <1>9, <1>10, <1>11, <1>12, <1>13,
            <1>14, <1>15, <1>16, <1>17 DEF Tracking

LEMMA OwnerStep == ASSUME IInv, NEW c \in Clients, Begins(c) \/ Requests(c) PROVE IInv'
<1>1. CASE Begins(c)
    BY <1>1, BeginCreateStep, BeginCancelStep, BeginRemoveStep, CorrectStep, BeginRetryStep DEF Begins
<1>2. CASE Requests(c)
    BY <1>2, CreateStep, CancelStep, RemoveStep, RetryStep, DispatchStep, RestartStep, TerminateStep,
       SignalStep DEF Requests
<1> QED  BY <1>1, <1>2

LEMMA SweepsStep == ASSUME IInv, NEW w \in Workflows, Sweeps(w) PROVE IInv'
BY SweepAcceptedStep, ClaimAbandonedStep, DeleteAbandonedStep DEF Sweeps

LEMMA Preserved == IInv /\ [Next]_vars => IInv'
<1> SUFFICES ASSUME IInv, [Next]_vars PROVE IInv'  OBVIOUS
<1>1. CASE \E c \in Clients : Begins(c) \/ Requests(c)  BY <1>1, OwnerStep
<1>2. CASE \E w \in Workflows : Preparation(w)  BY <1>2, PreparationStep
<1>3. CASE \E w \in Workflows : Tracking(w)  BY <1>3, TrackingStep
<1>4. CASE \E w \in Workflows : StepFails(w) \/ RunAgain(w) \/ Die(w)
    BY <1>4, StepFailsStep, RunAgainStep, DieStep
<1>5. CASE \E w \in Workflows : Sweeps(w)  BY <1>5, SweepsStep
<1>6. CASE \E m \in Media : Writes(m)  BY <1>6, FinishWriteStep, AbortWriteStep DEF Writes
<1>7. CASE Cleanup  BY <1>7, BeginCleanupStep, DeleteMediaStep DEF Cleanup
<1>8. CASE DeleteMediaFails  BY <1>8, DeleteMediaFailsStep
<1>9. CASE DiscardSource  BY <1>9, DiscardSourceStep
<1>10. CASE WithdrawDrive \/ RestoreDrive  BY <1>10, DriveStep
<1>11. CASE UNCHANGED vars
    BY <1>11 DEF vars, IInv, Typed, AnalysisOK, FlowOK, RequestOK, Stored
<1> QED  BY <1>1, <1>2, <1>3, <1>4, <1>5, <1>6, <1>7, <1>8, <1>9, <1>10, <1>11 DEF Next

\* The argument holds in every reachable state, for every number of requests,
\* workflows, retries, gaps and faults.
THEOREM Invariant == Spec => []IInv
BY Start, Preserved, PTL DEF Spec

\* The rows, the objects, the instances and the requests have their types.
THEOREM TypeCorrect == Spec => []TypeOK
<1>1. IInv => TypeOK
    BY DEF IInv, Typed, TypeOK, AnalysisType, RunType, InstanceType, RequestType, KeeperType
<1> QED  BY <1>1, Invariant, PTL

\* The accepted Track view of an active run is in the store, and so are the
\* clips of a completed analysis, whatever retries, claims, sweeps, deletions and
\* lost answers have gone before.
THEOREM MediaThere == Spec => []MediaAreThere
<1>1. ASSUME IInv PROVE AcceptedMediaIsKept
    BY <1>1 DEF IInv, FlowOK, AcceptedMediaIsKept
<1>2. ASSUME IInv PROVE CompletedIsWhole
    <2> SUFFICES ASSUME analysis.status = "completed"
                 PROVE  /\ run[analysis.workflow].status = "completed"
                        /\ run[analysis.workflow].evidence = "committed"
                        /\ clip[analysis.workflow] = "published" /\ Stored("clip", analysis.workflow)
        BY DEF CompletedIsWhole
    <2>1. AnalysisOK /\ deletion = "none" /\ analysis.workflow \in Workflows
        BY <1>2 DEF IInv, Typed, AnalysisOK
    <2>2. FlowOK(analysis.workflow)  BY <1>2, <2>1 DEF IInv
    <2> QED  BY <2>1, <2>2 DEF AnalysisOK, FlowOK
<1> QED  BY <1>1, <1>2, Invariant, PTL DEF MediaAreThere

-----------------------------------------------------------------------------
(* The recording in use.                                                   *)

\* A step leaves the recording alone, and starts to use it only when it is ready.
Careful == source' = source /\ (InUse' => InUse \/ source)

LEMMA UseAsBefore ==
    ASSUME UNCHANGED source,
           analysis'.status \in Active => analysis.status \in Active,
           \A w \in Workflows : run'[w].status = "active" /\ run'[w].pinned =>
                                run[w].status = "active" /\ run[w].pinned
    PROVE  Careful
BY DEF Careful, InUse

LEMMA UseUnchanged ==
    ASSUME UNCHANGED <<analysis, run, source>>
    PROVE  Careful
BY DEF Careful, InUse

LEMMA UseByFencing ==
    ASSUME IInv, UNCHANGED source, NEW ws \in SUBSET Workflows,
           NEW status \in {"completed", "failed", "cancelled", "replaced"},
           run' = Fenced(ws, status) \/ run' = run,
           analysis'.status \in Active => analysis.status \in Active
    PROVE  Careful
<1>1. \A w \in Workflows : run'[w].status = "active" => run'[w] = run[w]
    <2>1. CASE run' = run  BY <2>1
    <2>2. CASE run' = Fenced(ws, status)  BY <2>2, FencedFacts
    <2> QED  BY <2>1, <2>2
<1> QED  BY <1>1, UseAsBefore

LEMMA OwnerCareful == ASSUME IInv, NEW c \in Clients, Begins(c) \/ Requests(c) PROVE Careful
<1>1. CASE \/ BeginCreate(c) \/ BeginCancel(c) \/ BeginRemove(c)
           \/ (\E k \in Commands : BeginRetry(c, k))
           \/ Dispatch(c) \/ Restart(c) \/ Terminate(c) \/ Signal(c)
    BY <1>1, UseUnchanged
    DEF BeginCreate, BeginCancel, BeginRemove, BeginRetry, Dispatch, Restart, Terminate, Signal, rows
<1>2. CASE Correct(c)
    <2>1. PICK w : w = analysis.workflow  OBVIOUS
    <2>2. w \in Workflows
        BY <1>2, <2>1, LifecycleAssumption DEF Correct, IInv, Typed, AnalysisType, Workflows
    <2>3. PICK r : r = run[w]  OBVIOUS
    <2>4. r \in RunType /\ run \in [Workflows -> RunType]  BY <2>2, <2>3, RowTyped
    <2>5. PICK q : q = [r EXCEPT !.corrections = r.gaps]  OBVIOUS
    <2>6. q.status = r.status /\ q.pinned = r.pinned  BY <2>4, <2>5 DEF RunType
    <2>7. run' = [run EXCEPT ![w] = q] /\ UNCHANGED <<analysis, source>>
        BY <1>2, <2>1, <2>2, <2>3, <2>4, <2>5 DEF Correct
    <2>8. \A v \in Workflows : run'[v].status = run[v].status /\ run'[v].pinned = run[v].pinned
        BY <2>2, <2>3, <2>4, <2>6, <2>7
    <2> QED  BY <2>7, <2>8, UseAsBefore
<1>3. CASE Create(c)  BY <1>3 DEF Create, Careful, InUse
<1>4. CASE Cancel(c) \/ Remove(c)
    <2>1. analysis' = analysis \/ analysis'.status \in {"cancelled", "deleting"}
        BY <1>4, RowTyped DEF Cancel, Remove, AnalysisType
    <2>2. \/ run' = run
          \/ run' = Fenced({analysis.workflow}, "cancelled")
          \/ run' = Fenced(Workflows, "cancelled")
        BY <1>4 DEF Cancel, Remove
    <2>3. \A w \in Workflows : run'[w].status = "active" => run'[w] = run[w]
        BY <2>2, RowTyped DEF Fenced, RunType
    <2>4. UNCHANGED source  BY <1>4 DEF Cancel, Remove
    <2> QED  BY <2>1, <2>3, <2>4, UseAsBefore DEF Active
<1>5. CASE Retry(c)
    <2>1. CASE Retriable(c)  BY <1>5, <2>1 DEF Retry, Retriable, Careful
    <2>2. CASE ~ Retriable(c)
        <3>1. UNCHANGED <<analysis, run, source>>  BY <1>5, <2>2 DEF Retry
        <3> QED  BY <3>1, UseUnchanged
    <2> QED  BY <2>1, <2>2
<1> QED  BY <1>1, <1>2, <1>3, <1>4, <1>5 DEF Begins, Requests

LEMMA PreparationCareful == ASSUME IInv, NEW w \in Workflows, Preparation(w) PROVE Careful
<1>1. CASE \/ RereadAnalysis(w) \/ PreparationContext(w) \/ RecordPreparationIntent(w)
           \/ MediaPrepared(w) \/ AcceptPreparedTrackView(w) \/ DiscardCandidate(w)
    BY <1>1, UseUnchanged
    DEF RereadAnalysis, PreparationContext, RecordPreparationIntent, MediaPrepared,
        AcceptPreparedTrackView, DiscardCandidate, rows
<1>2. CASE BeginPreparation(w) \/ PublishPreparationProgress(w) \/ PublishTrackingStart(w)
    <2>1. UNCHANGED <<run, source>>
        BY <1>2 DEF BeginPreparation, PublishPreparationProgress, PublishTrackingStart
    <2>2. CASE source  BY <2>1, <2>2 DEF Careful
    <2>3. CASE ~ source
        <3>1. UNCHANGED analysis
            BY <1>2, <2>3 DEF BeginPreparation, PublishPreparationProgress, PublishTrackingStart, Current
        <3> QED  BY <2>1, <3>1, UseUnchanged
    <2> QED  BY <2>2, <2>3
<1>3. CASE CreateRun(w) \/ PinRunInput(w)
    <2>1. UNCHANGED <<analysis, source>>  BY <1>3 DEF CreateRun, PinRunInput
    <2>2. CASE source  BY <2>1, <2>2 DEF Careful
    <2>3. CASE ~ source
        <3>1. CASE run' = run  BY <2>1, <3>1, UseUnchanged
        <3>2. CASE run' # run
            <4>1. /\ run' = [run EXCEPT ![w].pinned = TRUE]
                  /\ run[w].status = "active" /\ run[w].pinned
                BY <1>3, <2>3, <3>2 DEF CreateRun, PinRunInput
            <4> QED  BY <2>1, <4>1 DEF Careful, InUse
        <3> QED  BY <3>1, <3>2
    <2> QED  BY <2>2, <2>3
<1>4. CASE FenceRun(w)
    <2>1. PICK ws \in SUBSET Workflows : ws = {w}  OBVIOUS
    <2>2. run' = Fenced(ws, "cancelled") /\ UNCHANGED <<analysis, source>>
        BY <1>4, <2>1 DEF FenceRun
    <2> QED  BY <2>2, UseByFencing
<1> QED  BY <1>1, <1>2, <1>3, <1>4 DEF Preparation

LEMMA TrackingCareful == ASSUME IInv, NEW w \in Workflows, Tracking(w) PROVE Careful
<1>1. CASE \/ TrackingStale(w) \/ ResumeTracking(w) \/ ResumeAtGap(w) \/ TrackingFails(w)
           \/ ReadTrackingState(w) \/ WakeUp(w) \/ ReadClipInputs(w) \/ RenderClip(w)
           \/ ClipRendered(w) \/ PublishClip(w) \/ ReadForFailure(w)
    BY <1>1, UseUnchanged
    DEF TrackingStale, ResumeTracking, ResumeAtGap, TrackingFails, ReadTrackingState, WakeUp,
        ReadClipInputs, RenderClip, ClipRendered, PublishClip, ReadForFailure, rows
<1>2. CASE AcceptGap(w) \/ AcceptRace(w) \/ CommitEvidence(w)
    <2>1. PICK r : r = run[w]  OBVIOUS
    <2>2. r \in RunType /\ run \in [Workflows -> RunType]  BY <2>1, RowTyped
    <2>3. /\ UNCHANGED <<analysis, source>>
          /\ run'[w].status = r.status /\ run'[w].pinned = r.pinned
          /\ \A v \in Workflows \ {w} : run'[v] = run[v]
        <3>1. CASE AcceptGap(w)
            <4>1. run' = [run EXCEPT ![w] = [r EXCEPT !.gaps = r.gaps + 1]] /\ UNCHANGED <<analysis, source>>
                BY <2>1, <2>2, <3>1 DEF AcceptGap
            <4> QED  BY <2>2, <4>1 DEF RunType
        <3>2. CASE AcceptRace(w)
            <4>1. PICK e : e = IF r.evidence = "none" THEN "accepted" ELSE r.evidence  OBVIOUS
            <4>2. run' = [run EXCEPT ![w] = [r EXCEPT !.evidence = e]] /\ UNCHANGED <<analysis, source>>
                BY <2>1, <2>2, <3>2, <4>1 DEF AcceptRace
            <4> QED  BY <2>2, <4>2 DEF RunType
        <3>3. CASE CommitEvidence(w)
            <4>1. run' = [run EXCEPT ![w] = [r EXCEPT !.evidence = "committed"]] /\ UNCHANGED <<analysis, source>>
                BY <2>1, <2>2, <3>3 DEF CommitEvidence
            <4> QED  BY <2>2, <4>1 DEF RunType
        <3> QED  BY <1>2, <3>1, <3>2, <3>3
    <2>4. \A v \in Workflows : run'[v].status = run[v].status /\ run'[v].pinned = run[v].pinned
        BY <2>1, <2>3
    <2> QED  BY <2>3, <2>4, UseAsBefore
<1>3. CASE PublishTrackingState(w)
    <2>1. CASE UNCHANGED analysis
        <3>1. UNCHANGED run \/ run' = Fenced({w}, "failed")  BY <1>3 DEF PublishTrackingState
        <3>2. PICK ws \in SUBSET Workflows : ws = {w}  OBVIOUS
        <3> QED  BY <1>3, <2>1, <3>1, <3>2, UseByFencing DEF PublishTrackingState
    <2>2. CASE ~ UNCHANGED analysis
        <3>1. PICK target : target = instance[w].target  OBVIOUS
        <3>2. target \in {"none", "running", "awaiting", "failed"}
            BY <3>1 DEF IInv, Typed, InstanceType
        <3>3. PICK v \in Nat : v = analysis.version + 1  BY RowTyped
        <3>4. PICK new : new = [analysis EXCEPT !.status = target, !.version = v]  OBVIOUS
        <3>5. target \in Statuses  BY <3>2 DEF Statuses, Active
        <3>6. new \in AnalysisType /\ new.status = target /\ new.workflow = analysis.workflow
            BY <3>4, <3>5, RowTyped DEF AnalysisType
        <3>7. new = [analysis EXCEPT !.status = instance[w].target, !.version = @ + 1]
            BY <3>1, <3>3, <3>4, RowTyped DEF AnalysisType
        <3>8. Admitted(new)  BY <1>3, <2>2, <3>7 DEF PublishTrackingState
        <3>9. analysis.status \in Active  BY <3>2, <3>6, <3>8, AdmittedFacts
        <3> QED  BY <1>3, <3>9 DEF PublishTrackingState, Careful, InUse
    <2> QED  BY <2>1, <2>2
<1>4. CASE CompleteDrivingAnalysis(w)
    <2>1. PICK ws \in SUBSET Workflows : ws = {w}  OBVIOUS
    <2>2. /\ run' = run \/ run' = Fenced(ws, "completed")
          /\ UNCHANGED source
          /\ analysis' = analysis \/ analysis.status \in Active
        BY <1>4, <2>1 DEF CompleteDrivingAnalysis
    <2> QED  BY <2>2, UseByFencing
<1>5. CASE PublishWorkflowFailure(w)
    <2>1. PICK ws \in SUBSET Workflows : ws = {w}  OBVIOUS
    <2>2. /\ run' = Fenced(ws, "failed") /\ UNCHANGED source
          /\ analysis' = analysis \/ analysis.status \in Active
        BY <1>5, <2>1 DEF PublishWorkflowFailure, Active
    <2> QED  BY <2>2, UseByFencing
<1> QED  BY <1>1, <1>2, <1>3, <1>4, <1>5 DEF Tracking

LEMMA OthersCareful ==
    ASSUME IInv,
           \/ \E w \in Workflows : StepFails(w) \/ RunAgain(w) \/ Die(w) \/ Sweeps(w)
           \/ \E m \in Media : Writes(m)
           \/ Cleanup \/ DeleteMediaFails
    PROVE  Careful
<1>1. CASE DeleteMedia
    <2>1. analysis' = analysis \/ analysis'.status = "deleted"
        BY <1>1, RowTyped DEF DeleteMedia, AnalysisType
    <2> QED  BY <1>1, <2>1, UseAsBefore DEF DeleteMedia, Active
<1>2. CASE ~ DeleteMedia
    BY <1>2, UseUnchanged
    DEF StepFails, RunAgain, Die, Sweeps, SweepAccepted, ClaimAbandoned, DeleteAbandoned, Writes,
        FinishWrite, AbortWrite, Cleanup, BeginCleanup, DeleteMediaFails, rows
<1> QED  BY <1>1, <1>2

LEMMA UseStep == IInv /\ [Next]_vars => [Use!Next]_<<source, InUse>>
<1> SUFFICES ASSUME IInv, [Next]_vars PROVE [Use!Next]_<<source, InUse>>  OBVIOUS
<1>0. source \in BOOLEAN /\ InUse \in BOOLEAN /\ InUse' \in BOOLEAN
    BY DEF IInv, Typed, InUse
<1>1. CASE Careful
    <2>1. CASE InUse'
        <3>1. CASE InUse  BY <1>0, <1>1, <2>1, <3>1 DEF Careful
        <3>2. CASE ~ InUse
            BY <1>0, <1>1, <2>1, <3>2 DEF Careful, Use!Next, Use!Use
        <3> QED  BY <3>1, <3>2
    <2>2. CASE ~ InUse'  BY <1>0, <1>1, <2>2 DEF Careful, Use!Next, Use!Release
    <2> QED  BY <2>1, <2>2
<1>2. CASE DiscardSource
    <2>1. ~ InUse /\ source' = FALSE /\ UNCHANGED <<analysis, run>>
        BY <1>2 DEF DiscardSource, rows
    <2>2. UNCHANGED InUse  BY <2>1 DEF InUse
    <2> QED  BY <2>1, <2>2 DEF Use!Next, Use!Withdraw
<1>3. CASE UNCHANGED vars \/ WithdrawDrive \/ RestoreDrive
    <2>1. UNCHANGED <<analysis, run, source>>  BY <1>3 DEF vars, WithdrawDrive, RestoreDrive, rows
    <2> QED  BY <2>1 DEF InUse
<1> QED  BY <1>1, <1>2, <1>3, OwnerCareful, PreparationCareful, TrackingCareful, OthersCareful DEF Next

\* An analysis takes its recording only while it is ready, and the recording is
\* not discarded until the last run that has it as its input has ended: the
\* analysis implements RecordingUse.
THEOREM SourceInUse == Spec => UsesReadySource
<1>1. Init => Use!Init
    <2> SUFFICES ASSUME Init PROVE Use!Init  OBVIOUS
    <2>1. source \in BOOLEAN /\ ~ InUse
        BY DEF Init, InUse, NoAnalysis, NoRun, Active
    <2>2. InUse = FALSE  BY <2>1 DEF InUse
    <2> QED  BY <2>1, <2>2 DEF Use!Init
<1> QED  BY <1>1, UseStep, Invariant, PTL DEF Spec, UsesReadySource, Use!Spec

\* Who uses the recording has it.
SourceIsThere == InUse => source

\* While an analysis that needs the recording is under way, the recording is
\* there and ready: none of the awaits of its creation, retry or tracking lets it
\* begin with a recording that was withdrawn. It follows from the refinement.
THEOREM SourceInUseIsThere == Spec => []SourceIsThere
<1>1. Use!Init => SourceIsThere
  BY DEF Use!Init, SourceIsThere
<1>2. SourceIsThere /\ [Use!Next]_<<source, InUse>> => SourceIsThere'
  BY DEF SourceIsThere, Use!Next, Use!Offer, Use!Withdraw, Use!Use, Use!Release
<1> QED  BY <1>1, <1>2, SourceInUse, PTL DEF UsesReadySource, Use!Spec
=============================================================================
