---------------------------- MODULE TrackingEvidence ----------------------------
(***************************************************************************)
(* The life of one tracking segment in D1 and R2: execution attempts, the  *)
(* publication of an attempt's artifact, its acceptance as evidence, and   *)
(* the cleanup of what was not accepted (src/driving-analysis/tracking/    *)
(* tracking-authority.ts and tracking-artifact-publication.ts).            *)
(*                                                                         *)
(* An operation reads rows, decides, and writes later in one D1 statement  *)
(* or batch whose conditions repeat, more or less, what was read. Between  *)
(* the two anything may happen. A caller is one execution of a workflow    *)
(* step, of its retry, or of scheduled maintenance; it may die at any      *)
(* point, and a retry may run beside an execution given up for dead.       *)
(*                                                                         *)
(* The identifier of an attempt is a digest of its lease and fence, that   *)
(* of an artifact is its attempt's: the fence names all of them here.      *)
(***************************************************************************)
EXTENDS Integers, FiniteSets

CONSTANTS
    Callers,          \* executions that may be under way at once
    MaxLeases,        \* bound: how many leases the coordinator grants
    MaxVersion,       \* bound: attempt rows are not refreshed beyond this
    MaxRechecks,      \* bound: promotion rows are not reclaimed beyond this
    Expiring          \* bound: attempts that outlive the retention period

ASSUME EvidenceAssumption ==
    /\ MaxLeases \in Nat
    /\ MaxVersion \in Nat
    /\ MaxRechecks \in Nat
    /\ Expiring \subseteq 1..MaxLeases

Attempts == 1..MaxLeases

VARIABLES
    run,              \* D1: the status of the run
    segment,          \* D1: current attempt, accepted artifact, version
    attempts,         \* D1: state and version of each attempt's row
    transfers,        \* D1: the request to upload the attempt's output
    promotions,       \* D1: state and version of each promotion's row
    artifacts,        \* D1: the accepted artifacts' rows
    objects,          \* R2: the objects under accepted-evidence keys
    due,              \* promotions whose deleteAfter has passed
    recheck,          \* promotions not touched for the retention period
    leases,           \* how many leases the coordinator has granted
    work              \* what each caller is about to do

vars == <<run, segment, attempts, transfers, promotions, artifacts,
          objects, due, recheck, leases, work>>

rows == <<run, segment, attempts, transfers, promotions, artifacts>>

-----------------------------------------------------------------------------
(* Values                                                                  *)

Mutable == {"active", "transferring", "processing", "output-ready"}

Final == {"completed", "failed", "cancelled", "expired", "replaced"}

(* ALLOWED_ATTEMPT_TRANSITIONS, and the same state with more progress.     *)
Follows(from) ==
    {from} \cup {"failed", "cancelled", "expired", "replaced"} \cup
        CASE from = "active"       -> {"transferring", "processing"}
          [] from = "transferring" -> {"processing"}
          [] from = "processing"   -> {"output-ready"}
          [] from = "output-ready" -> {}

(* The states that the workflow asks for.                                  *)
Requested == {"transferring", "processing", "output-ready", "failed"}

AttemptStates == {"none", "proposed"} \cup Mutable \cup Final

PromotionStates ==
    {"none", "pending", "promoted", "accepted", "deleting", "deleted"}

Steps == {"idle", "activate", "transition", "retire", "request", "grant",
          "granting", "record", "put", "verify", "mark", "promote", "bind",
          "attempt", "commit", "claim", "delete", "deleted"}

(* version: of the row to be written; other: of the second row, or the     *)
(* expected current attempt; state: read; next: asked for.                 *)
Jobs == [step : Steps, attempt : Attempts \cup {0}, version : Nat, other : Nat,
         state : AttemptStates \cup PromotionStates,
         next : Requested \cup {"none", "expired", "replaced"}]

Job(step, a, version) ==
    [step |-> step, attempt |-> a, version |-> version, other |-> 0,
     state |-> "none", next |-> "none"]

Idle == Job("idle", 0, 0)

Starts(c, job) == work[c] = Idle /\ work' = [work EXCEPT ![c] = job]

Does(c, step) == work[c].step = step

Goes(c, step) == work' = [work EXCEPT ![c].step = step]

Stops(c) == work' = [work EXCEPT ![c] = Idle]

(* Faulty: the run is not looked at.                                       *)
PointsAt(a) == segment.current = a

(* currentAuthorityExists: the condition inside the conditional writes.    *)
Authority(a) == run = "active" /\ segment.current = a

(* requireCurrentAttempt: the check made by reading beforehand.            *)
CurrentAttempt(a) == Authority(a) /\ attempts[a].state \in Mutable

Advance(row, state) == [state |-> state, version |-> row.version + 1]

-----------------------------------------------------------------------------
(* Attempts                                                                *)

(* The workflow acquires the next lease when it has no attempt: at first,  *)
(* and whenever the one it activated was retired.                          *)
AcquireLease ==
    /\ run = "active" /\ segment.accepted = 0 /\ segment.current = 0
    /\ leases # 0 => attempts[leases].state \notin {"none", "proposed"}
    /\ leases < MaxLeases
    /\ leases' = leases + 1
    /\ UNCHANGED <<rows, objects, due, recheck, work>>

(* activateAttempt reads. An attempt that has a row already is answered    *)
(* from it; the authority fence is that of the current attempt, if any.    *)
BeginActivate(c, a) ==
    /\ run = "active" /\ segment.accepted = 0
    /\ attempts[a].state = "none"
    /\ a > segment.current
    /\ Starts(c, [Job("activate", a, segment.version)
                    EXCEPT !.other = segment.current])
    /\ UNCHANGED <<rows, objects, due, recheck, leases>>

Wins(w) ==
    /\ run = "active" /\ segment.accepted = 0
    /\ segment.version = w.version /\ segment.current = w.other

(* ... and writes: the row is proposed in any case, and becomes active     *)
(* together with the segment's pointer to it.                              *)
Activate(c) ==
    LET w == work[c]
        a == w.attempt
        stored == IF attempts[a].state = "none"
                  THEN [state |-> "proposed", version |-> 1] ELSE attempts[a]
        pointer == IF Wins(w)
                   THEN [segment EXCEPT !.current = a, !.version = w.version + 1]
                   ELSE segment
    IN  /\ Does(c, "activate")
        /\ segment' = pointer
        /\ attempts' =
              [attempts EXCEPT ![a] =
                  IF stored.state = "proposed" /\ pointer.current = a
                  THEN [state |-> "active", version |-> 2] ELSE stored]
        /\ Stops(c)
        /\ UNCHANGED <<run, transfers, promotions, artifacts,
                       objects, due, recheck, leases>>

(* transitionAttempt                                                       *)
BeginTransition(c, a, next) ==
    /\ CurrentAttempt(a)
    /\ next \in Follows(attempts[a].state) \cap Requested
    /\ next = attempts[a].state => attempts[a].version < MaxVersion
    /\ Starts(c, [Job("transition", a, attempts[a].version)
                    EXCEPT !.state = attempts[a].state, !.next = next])
    /\ UNCHANGED <<rows, objects, due, recheck, leases>>

Unchanged(w) ==
    attempts[w.attempt] = [state |-> w.state, version |-> w.version]

Transition(c) ==
    LET w == work[c]
    IN  /\ Does(c, "transition")
        /\ attempts' =
              IF Unchanged(w) /\ Authority(w.attempt)
              THEN [attempts EXCEPT ![w.attempt] = Advance(@, w.next)]
              ELSE attempts
        /\ Stops(c)
        /\ UNCHANGED <<run, segment, transfers, promotions, artifacts,
                       objects, due, recheck, leases>>

(* retireAttempt: an attempt already retired is not retired again.         *)
BeginRetire(c, a, next) ==
    /\ Authority(a)
    /\ attempts[a].state \in Mutable \cup {"failed"}
    /\ Starts(c, [Job("retire", a, attempts[a].version)
                    EXCEPT !.state = attempts[a].state, !.next = next])
    /\ UNCHANGED <<rows, objects, due, recheck, leases>>

(* A failed attempt stays failed, as evidence.                             *)
Retired(w) == IF w.state = "failed" THEN "failed" ELSE w.next

(* The two statements have different conditions: the attempt's asks for    *)
(* the version that was read and an active run, the segment's for neither. *)
Retire(c) ==
    LET w == work[c]
    IN  /\ Does(c, "retire")
        /\ attempts' =
              IF Unchanged(w) /\ Authority(w.attempt)
              THEN [attempts EXCEPT ![w.attempt] = Advance(@, Retired(w))]
              ELSE attempts
        /\ segment' =
              IF segment.current = w.attempt /\ segment.accepted = 0
              THEN [segment EXCEPT !.current = 0, !.version = @ + 1]
              ELSE segment
        /\ Stops(c)
        /\ UNCHANGED <<run, transfers, promotions, artifacts,
                       objects, due, recheck, leases>>

-----------------------------------------------------------------------------
(* The request to upload an attempt's output                               *)

(* prepareTransferGrant reads, then records the request unconditionally.   *)
BeginRequest(c, a) ==
    /\ CurrentAttempt(a) /\ attempts[a].state = "output-ready"
    /\ transfers[a] \in {"none", "required"}
    /\ Starts(c, Job("request", a, 0))
    /\ UNCHANGED <<rows, objects, due, recheck, leases>>

RecordRequest(c) ==
    LET a == work[c].attempt
    IN  /\ Does(c, "request")
        /\ transfers' = [transfers EXCEPT ![a] = IF @ = "none" THEN "required" ELSE @]
        /\ Goes(c, "grant")
        /\ UNCHANGED <<run, segment, attempts, promotions, artifacts,
                       objects, due, recheck, leases>>

(* transitionTransferRequest reads, and grants under the authority.        *)
BeginGrant(c) ==
    LET a == work[c].attempt
    IN  /\ Does(c, "grant")
        /\ IF CurrentAttempt(a) /\ transfers[a] = "required"
           THEN Goes(c, "granting") ELSE Stops(c)
        /\ UNCHANGED <<rows, objects, due, recheck, leases>>

Grant(c) ==
    LET a == work[c].attempt
    IN  /\ Does(c, "granting")
        /\ transfers' = [transfers EXCEPT ![a] =
                            IF @ = "required" /\ Authority(a) THEN "granted" ELSE @]
        /\ Stops(c)
        /\ UNCHANGED <<run, segment, attempts, promotions, artifacts,
                       objects, due, recheck, leases>>

-----------------------------------------------------------------------------
(* publish                                                                 *)

(* prepareArtifactPublication, for a segment without accepted evidence.    *)
BeginPublish(c, a) ==
    /\ CurrentAttempt(a) /\ attempts[a].state = "output-ready"
    /\ transfers[a] = "granted"
    /\ Starts(c, Job("record", a, 0))
    /\ UNCHANGED <<rows, objects, due, recheck, leases>>

(* Faulty: a promotion that was cleaned up is begun again.                 *)
Renewed(row) ==
    IF row.state \in {"none", "deleted"}
    THEN [state |-> "pending", version |-> row.version + 1] ELSE row

(* Faulty: the version is left to its default.                             *)
Unversioned(row) ==
    IF row.state = "none" THEN [row EXCEPT !.state = "pending"] ELSE row

Recorded(row) ==
    IF row.state = "none" THEN [state |-> "pending", version |-> 1] ELSE row

(* recordArtifactPromotion: insert, read back, refuse a tombstone.         *)
RecordPromotion(c) ==
    LET a == work[c].attempt
        row == Recorded(promotions[a])
    IN  /\ Does(c, "record")
        /\ promotions' = [promotions EXCEPT ![a] = row]
        /\ IF row.state \in {"deleting", "deleted"} THEN Stops(c)
           ELSE work' = [work EXCEPT ![c].step = "put", ![c].version = row.version]
        /\ UNCHANGED <<run, segment, attempts, transfers, artifacts,
                       objects, due, recheck, leases>>

(* putIfAbsent under the accepted key; the bytes were validated before.    *)
Put(c) ==
    /\ Does(c, "put")
    /\ objects' = objects \cup {work[c].attempt}
    /\ Goes(c, "verify")
    /\ UNCHANGED <<rows, due, recheck, leases>>

(* The promoted object is read back.                                       *)
Verify(c) ==
    /\ Does(c, "verify")
    /\ IF work[c].attempt \in objects THEN Goes(c, "mark") ELSE Stops(c)
    /\ UNCHANGED <<rows, objects, due, recheck, leases>>

(* markArtifactPromotionReady reads ...                                    *)
BeginPromote(c) ==
    LET w == work[c]
        row == promotions[w.attempt]
    IN  /\ Does(c, "mark")
        /\ IF ~CurrentAttempt(w.attempt) THEN Stops(c)
           ELSE IF row.state \in {"promoted", "accepted"} THEN Goes(c, "bind")
           ELSE IF row = [state |-> "pending", version |-> w.version]
                THEN Goes(c, "promote") ELSE Stops(c)
        /\ UNCHANGED <<rows, objects, due, recheck, leases>>

(* ... and writes. The coordinator then grants or refuses a commit hold; a *)
(* caller that is refused gives up like one that dies.                     *)
Promote(c) ==
    LET w == work[c]
        row == promotions[w.attempt]
        ready == /\ row = [state |-> "pending", version |-> w.version]
                 /\ Authority(w.attempt)
    IN  /\ Does(c, "promote")
        /\ promotions' = IF ready
                         THEN [promotions EXCEPT ![w.attempt] = Advance(@, "promoted")]
                         ELSE promotions
        /\ IF ready THEN Goes(c, "bind") ELSE Stops(c)
        /\ UNCHANGED <<run, segment, attempts, transfers, artifacts,
                       objects, due, recheck, leases>>

(* acceptArtifact reads the segment, whose version it will insist on ...   *)
ReadSegment(c) ==
    /\ Does(c, "bind")
    /\ IF segment.accepted # 0 THEN Stops(c)
       ELSE work' = [work EXCEPT ![c].step = "attempt",
                                 ![c].version = segment.version]
    /\ UNCHANGED <<rows, objects, due, recheck, leases>>

(* ... then the run, the segment again and the attempt ...                 *)
ReadAttempt(c) ==
    LET a == work[c].attempt
    IN  /\ Does(c, "attempt")
        /\ IF CurrentAttempt(a) /\ attempts[a].state = "output-ready"
           THEN work' = [work EXCEPT ![c].step = "commit",
                                     ![c].other = attempts[a].version]
           ELSE Stops(c)
        /\ UNCHANGED <<rows, objects, due, recheck, leases>>

(* Faulty: an artifact is good whatever became of its attempt.             *)
AcceptableLate(a) ==
    /\ run = "active" /\ segment.accepted = 0
    /\ promotions[a].state = "promoted" /\ transfers[a] = "granted"

Acceptable(a) ==
    /\ run = "active" /\ segment.accepted = 0 /\ segment.current = a
    /\ attempts[a].state = "output-ready"
    /\ promotions[a].state = "promoted" /\ transfers[a] = "granted"

(* ... and commits five statements in one batch. A segment has one         *)
(* artifact at most: a second insertion is ignored. Only the insertion     *)
(* repeats all conditions, the others look for what it has inserted.       *)
Accept(c) ==
    LET w == work[c]
        a == w.attempt
        inserted == IF Acceptable(a) /\ artifacts = {} THEN {a} ELSE artifacts
        bound == /\ segment.version = w.version /\ segment.current = a
                 /\ segment.accepted = 0 /\ a \in inserted
        accepted == IF bound THEN a ELSE segment.accepted
    IN  /\ Does(c, "commit")
        /\ artifacts' = inserted
        /\ segment' = IF bound THEN [current |-> 0, accepted |-> a,
                                     version |-> w.version + 1] ELSE segment
        /\ attempts' =
              IF /\ attempts[a] = [state |-> "output-ready", version |-> w.other]
                 /\ accepted = a
              THEN [attempts EXCEPT ![a] = Advance(@, "completed")] ELSE attempts
        /\ promotions' =
              IF promotions[a].state = "promoted" /\ a \in inserted
              THEN [promotions EXCEPT ![a] = Advance(@, "accepted")] ELSE promotions
        /\ transfers' =
              [transfers EXCEPT ![a] =
                  IF @ = "granted" /\ a \in inserted THEN "completed" ELSE @]
        /\ Stops(c)
        /\ UNCHANGED <<run, objects, due, recheck, leases>>

-----------------------------------------------------------------------------
(* The end of the run                                                      *)

(* fenceRun, and the owner's commands that end a run in the same way.      *)
FenceRun ==
    /\ run = "active" /\ run' = "fenced"
    /\ UNCHANGED <<segment, attempts, transfers, promotions, artifacts,
                   objects, due, recheck, leases, work>>

(* expireAvailability once the deadline has passed, failUnavailableOutput  *)
(* when output is ready but its lease was lost; for the last segment.      *)
Unavailable == segment.accepted = 0

RecordUnavailable ==
    /\ run = "active" /\ Unavailable
    /\ run' = "failed"
    /\ UNCHANGED <<segment, attempts, transfers, promotions, artifacts,
                   objects, due, recheck, leases, work>>

-----------------------------------------------------------------------------
(* cleanupDue                                                              *)

Unreferenced(a) == a \notin artifacts

(* Faulty: a tombstone is never looked at again.                           *)
EligibleOnce(a) ==
    promotions[a].state \in {"pending", "promoted", "deleting"} /\ a \in due

Eligible(a) ==
    \/ promotions[a].state \in {"pending", "promoted", "deleting"} /\ a \in due
    \/ promotions[a].state = "deleted" /\ a \in recheck

(* cleanupPromotionCandidates reads; what is being deleted already needs   *)
(* no claim. Rows are claimed again only while an object is there to be    *)
(* deleted, or within the bound: a claim that finds nothing changes only   *)
(* the version.                                                            *)
BeginClaim(c, a) ==
    LET row == promotions[a]
    IN  /\ Eligible(a) /\ Unreferenced(a)
        /\ a \in objects \/ row.version < MaxRechecks
        /\ Starts(c, [Job(IF row.state = "deleting" THEN "delete" ELSE "claim",
                          a, row.version) EXCEPT !.state = row.state])
        /\ UNCHANGED <<rows, objects, due, recheck, leases>>

Claimable(w) ==
    /\ promotions[w.attempt] = [state |-> w.state, version |-> w.version]
    /\ Eligible(w.attempt) /\ Unreferenced(w.attempt)

\* Faulty: nobody looks whether the claim was granted.
ClaimUnseen(c) ==
    LET w == work[c]
        a == w.attempt
    IN  /\ Does(c, "claim")
        /\ promotions' = IF Claimable(w) THEN [promotions EXCEPT ![a] = Advance(@, "deleting")]
                         ELSE promotions
        /\ Goes(c, "delete")
        /\ UNCHANGED <<run, segment, attempts, transfers, artifacts,
                       objects, due, recheck, leases>>

Claim(c) ==
    LET w == work[c]
        a == w.attempt
    IN  /\ Does(c, "claim")
        /\ IF Claimable(w)
           THEN /\ promotions' = [promotions EXCEPT ![a] = Advance(@, "deleting")]
                /\ recheck' = recheck \ {a}
                /\ work' = [work EXCEPT ![c].step = "delete",
                                        ![c].version = @ + 1]
           ELSE /\ Stops(c) /\ UNCHANGED <<promotions, recheck>>
        /\ UNCHANGED <<run, segment, attempts, transfers, artifacts,
                       objects, due, leases>>

Delete(c) ==
    /\ Does(c, "delete")
    /\ objects' = objects \ {work[c].attempt}
    /\ Goes(c, "deleted")
    /\ UNCHANGED <<rows, due, recheck, leases>>

(* markArtifactPromotionDeleted                                            *)
MarkDeleted(c) ==
    LET w == work[c]
        a == w.attempt
        marked == /\ promotions[a] = [state |-> "deleting", version |-> w.version]
                  /\ Unreferenced(a)
    IN  /\ Does(c, "deleted")
        /\ promotions' = IF marked
                         THEN [promotions EXCEPT ![a] = Advance(@, "deleted")]
                         ELSE promotions
        /\ recheck' = IF marked THEN recheck \ {a} ELSE recheck
        /\ Stops(c)
        /\ UNCHANGED <<run, segment, attempts, transfers, artifacts,
                       objects, due, leases>>

(* The retention period passes since the promotion was recorded, or since  *)
(* its row was last written.                                               *)
RetentionPasses(a) ==
    /\ a \in Expiring
    /\ promotions[a].state # "none"
    /\ \/ a \notin due /\ due' = due \cup {a} /\ UNCHANGED recheck
       \/ /\ a \in due \ recheck /\ promotions[a].state = "deleted"
          /\ recheck' = recheck \cup {a} /\ UNCHANGED due
    /\ UNCHANGED <<rows, objects, leases, work>>

(* A caller dies, is refused, or finds its staged object gone.             *)
Abandon(c) ==
    /\ work[c] # Idle
    /\ Stops(c)
    /\ UNCHANGED <<rows, objects, due, recheck, leases>>

-----------------------------------------------------------------------------
Init ==
    /\ run = "active"
    /\ segment = [current |-> 0, accepted |-> 0, version |-> 1]
    /\ attempts = [a \in Attempts |-> [state |-> "none", version |-> 0]]
    /\ transfers = [a \in Attempts |-> "none"]
    /\ promotions = [a \in Attempts |-> [state |-> "none", version |-> 0]]
    /\ artifacts = {}
    /\ objects = {}
    /\ due = {}
    /\ recheck = {}
    /\ leases = 0
    /\ work = [c \in Callers |-> Idle]

Begin(c, a) ==
    \/ BeginActivate(c, a)
    \/ \E next \in Requested : BeginTransition(c, a, next)
    \/ \E next \in {"expired", "replaced"} : BeginRetire(c, a, next)
    \/ BeginRequest(c, a)
    \/ BeginPublish(c, a)
    \/ BeginClaim(c, a)

Continue(c) ==
    \/ Activate(c) \/ Transition(c) \/ Retire(c)
    \/ RecordRequest(c) \/ BeginGrant(c) \/ Grant(c)
    \/ RecordPromotion(c) \/ Put(c) \/ Verify(c) \/ BeginPromote(c) \/ Promote(c)
    \/ ReadSegment(c) \/ ReadAttempt(c) \/ Accept(c)
    \/ Claim(c) \/ Delete(c) \/ MarkDeleted(c)

Next ==
    \/ AcquireLease \/ FenceRun \/ RecordUnavailable
    \/ \E a \in Attempts : RetentionPasses(a)
    \/ \E c \in Callers : Continue(c) \/ Abandon(c)
    \/ \E c \in Callers, a \in 1..leases : Begin(c, a)

Spec == Init /\ [][Next]_vars

(* Time passes, an execution goes on or dies, scheduled maintenance runs   *)
(* again and again, and what it tries again and again succeeds in the end. *)
(* No workflow is assumed to begin anything.                               *)
Fairness ==
    /\ \A c \in Callers : WF_vars(Continue(c) \/ Abandon(c))
    /\ \A a \in Attempts :
          /\ WF_vars(RetentionPasses(a))
          /\ SF_vars(\E c \in Callers : BeginClaim(c, a))
          /\ SF_vars(\E c \in Callers : work[c].attempt = a /\ Claim(c))
          /\ SF_vars(\E c \in Callers : work[c].attempt = a /\ Delete(c))

FairSpec == Spec /\ Fairness

-----------------------------------------------------------------------------
(* Type correctness of the rows and of what callers remember. A row's      *)
(* version is positive once the row exists.                                *)
TypeOK ==
    /\ run \in {"active", "fenced", "failed"}
    /\ segment \in [current  : Attempts \cup {0},
                    accepted : Attempts \cup {0},
                    version  : Nat]
    /\ attempts \in [Attempts -> [state : AttemptStates, version : Nat]]
    /\ transfers \in [Attempts -> {"none", "required", "granted", "completed"}]
    /\ promotions \in [Attempts -> [state : PromotionStates, version : Nat]]
    /\ \A a \in Attempts :
          /\ attempts[a].state = "none" <=> attempts[a].version = 0
          /\ promotions[a].state = "none" <=> promotions[a].version = 0
    /\ artifacts \subseteq Attempts
    /\ objects \subseteq Attempts
    /\ due \subseteq Attempts
    /\ recheck \subseteq Attempts
    /\ leases \in 0..MaxLeases
    /\ work \in [Callers -> Jobs]

(* Acceptance is all or nothing: the artifact's row exists exactly when    *)
(* the segment is bound to it, and then its promotion and its transfer are *)
(* settled. A row without the binding could never be undone, for a segment *)
(* has one immutable artifact. Only the attempt's row may lag behind, when *)
(* its progress was reported again after the acceptance had read it.       *)
AcceptedWhole ==
    /\ artifacts = {segment.accepted} \ {0}
    /\ \A a \in Attempts :
          /\ promotions[a].state = "accepted" <=> a = segment.accepted
          /\ transfers[a] = "completed" <=> a = segment.accepted
          /\ attempts[a].state = "completed" => a = segment.accepted
          /\ a = segment.accepted =>
                attempts[a].state \in {"completed", "output-ready"}

(* A run that was declared unavailable has no evidence for its last        *)
(* segment, neither before nor, from an acceptance under way, after.       *)
UnavailableOrAccepted == ~(run = "failed" /\ segment.accepted # 0)

(* A decision about a run is one decision: evidence accepted in all of its *)
(* five parts, or declared missing, never a part of one and never both.    *)
DecisionIsWhole == AcceptedWhole /\ UnavailableOrAccepted

(* A promotion that cleanup has claimed is never published again, whatever *)
(* a late publisher still does.                                            *)
TombstonesStay ==
    [][\A a \in Attempts :
          promotions[a].state \in {"deleting", "deleted"} =>
              promotions'[a].state \in {"deleting", "deleted"}]_vars

(* Once the run has ended, callers that are still under way activate,      *)
(* advance, grant and accept nothing. The most they do is to complete the  *)
(* attempt whose artifact was accepted before.                             *)
EndedRunIsQuiet ==
    [][run # "active" =>
          /\ segment'.accepted = segment.accepted
          /\ segment'.current \in {0, segment.current}
          /\ \A a \in Attempts :
                /\ attempts[a].state # "none" =>
                      \/ attempts'[a] = attempts[a]
                      \/ a = segment.accepted /\ attempts'[a].state = "completed"
                /\ attempts[a].state = "none" =>
                      attempts'[a].state \in {"none", "proposed"}
                /\ transfers'[a] = "granted" => transfers[a] = "granted"]_vars

(* How an attempt ended is never rewritten, by no later write of anybody.  *)
AttemptsEndOnce ==
    [][\A a \in Attempts :
          attempts[a].state \in Final => attempts'[a] = attempts[a]
             \/ (attempts[a].state = "failed" /\ attempts'[a].state = "failed")]_vars

(* The segment never returns to an older lease: an attempt becomes current *)
(* only under a larger fence than every attempt that ever was.             *)
FencesOnlyGrow ==
    [][segment'.current \notin {0, segment.current} =>
          \A a \in Attempts :
             attempts[a].state \notin {"none", "proposed"} => a < segment'.current]_vars

(* Whatever late callers still write, nothing that was settled comes back: *)
(* not a promotion that cleanup claimed, not an attempt that ended, not an *)
(* older lease.                                                            *)
NothingComesBack == TombstonesStay /\ AttemptsEndOnce /\ FencesOnlyGrow

(* The accepted artifact's row and object are both there.                  *)
Readable == segment.accepted \in artifacts \cap objects

Register == INSTANCE EvidenceRegister WITH
    NoEvidence <- 0,
    open       <- run = "active",
    evidence   <- IF Readable THEN segment.accepted ELSE 0

(* Readers see a register: evidence becomes readable once, while the run   *)
(* is active, and cleanup never takes it away, although it deletes by the  *)
(* same key that an acceptance under way is about to bind.                 *)
RegisterSpec == Register!RegisterSpec

(* What was not accepted is deleted in the end, even when its publisher    *)
(* writes the object after it was deleted, and then is never heard of.     *)
GarbageIsCollected ==
    \A a \in Attempts : a \in objects ~> (a \notin objects \/ a = segment.accepted)

=============================================================================
