------------------------- MODULE TrackingEvidenceProofs -------------------------
(***************************************************************************)
(* Proofs about the life of a tracking segment, for any number of callers  *)
(* and leases and every bound. The conditions of a late write are weaker   *)
(* than what was read before it; the invariant says what keeps them        *)
(* sufficient: the segment's version names its pointer, an attempt that    *)
(* has started is never activated again, and a promotion that cleanup      *)
(* claimed is a tombstone.                                                 *)
(***************************************************************************)
EXTENDS TrackingEvidence, TLAPS

Started(a) == attempts[a].state \notin {"none", "proposed"}

Tombstone(a) == promotions[a].state \in {"deleting", "deleted"}

(* The segment points to an attempt that has started, or is decided.       *)
Pointed ==
    /\ segment.accepted # 0 => segment.current = 0
    /\ segment.current # 0 => Started(segment.current)

(* Leases are activated one after the other.                               *)
InTurn ==
    /\ \A a \in Attempts : a < leases => Started(a)
    /\ \A a \in Attempts : a > leases => attempts[a].state = "none"

(* A promotion is ready, or bound, only while its object is there.         *)
Stored ==
    \A a \in Attempts : promotions[a].state \in {"promoted", "accepted"} => a \in objects

Publishing == {"record", "put", "verify", "mark", "promote", "bind", "attempt", "commit"}

(* What a caller asks for.                                                 *)
Asks(w) ==
    /\ w.step # "idle" => w.attempt \in 1..leases
    /\ w.step = "transition" => w.state \in Mutable /\ w.next \in Requested
    /\ w.step = "retire" =>
          w.state \in Mutable \cup {"failed"} /\ w.next \in {"expired", "replaced"}

(* What a caller that activates, or accepts, has read is still so unless   *)
(* the segment's version tells it otherwise.                               *)
Snapshot(w) ==
    /\ w.step = "activate" =>
          /\ w.version <= segment.version
          /\ w.version = segment.version => ~Started(w.attempt)
    /\ w.step \in Publishing => Started(w.attempt)
    /\ w.step \in {"attempt", "commit"} /\ segment.current = w.attempt =>
          segment.version = w.version

(* What a caller that publishes, or deletes, may do to the object.         *)
Handles(w) ==
    /\ w.step \in {"mark", "promote"} => w.attempt \in objects \/ Tombstone(w.attempt)
    /\ w.step \in {"delete", "deleted"} => Tombstone(w.attempt)

Sound == \A c \in Callers : Asks(work[c]) /\ Snapshot(work[c]) /\ Handles(work[c])

IInv == /\ TypeOK /\ AcceptedWhole /\ UnavailableOrAccepted
        /\ Pointed /\ InTurn /\ Stored /\ Sound
-----------------------------------------------------------------------------
(* Types.                                                                  *)

LEMMA JobType ==
    ASSUME NEW step \in Steps, NEW a \in Attempts \cup {0}, NEW version \in Nat
    PROVE  Job(step, a, version) \in Jobs
BY DEF Job, Jobs, AttemptStates

LEMMA IdleType == Idle \in Jobs
BY DEF Idle, Job, Jobs, Steps, AttemptStates

LEMMA StartsType ==
    ASSUME TypeOK, NEW c \in Callers, NEW job \in Jobs, Starts(c, job)
    PROVE  work' \in [Callers -> Jobs]
BY DEF Starts, TypeOK

LEMMA StopsType ==
    ASSUME TypeOK, NEW c \in Callers, Stops(c)
    PROVE  work' \in [Callers -> Jobs]
BY IdleType DEF Stops, TypeOK

LEMMA GoesType ==
    ASSUME TypeOK, NEW c \in Callers, NEW step \in Steps, Goes(c, step)
    PROVE  work' \in [Callers -> Jobs]
<1>1. [work[c] EXCEPT !.step = step] \in Jobs
  BY DEF TypeOK, Jobs
<1> QED BY <1>1 DEF Goes, TypeOK

LEMMA BeginTyped ==
    ASSUME TypeOK, NEW c \in Callers, NEW a \in 1..leases, Begin(c, a)
    PROVE  TypeOK'
<1>1. a \in Attempts
  BY EvidenceAssumption DEF TypeOK, Attempts
<1>2. /\ segment.version \in Nat /\ segment.current \in Nat
      /\ attempts[a].version \in Nat /\ attempts[a].state \in AttemptStates
      /\ promotions[a].version \in Nat /\ promotions[a].state \in PromotionStates
  BY <1>1 DEF TypeOK, Attempts
<1>3. UNCHANGED <<rows, objects, due, recheck, leases>> /\ work' \in [Callers -> Jobs]
      => TypeOK'
  BY DEF TypeOK, rows
<1>4. CASE BeginActivate(c, a)
  <2>1. [Job("activate", a, segment.version) EXCEPT !.other = segment.current] \in Jobs
    BY <1>1, <1>2 DEF Job, Jobs, Steps, AttemptStates
  <2> QED BY <1>3, <1>4, <2>1, StartsType DEF BeginActivate
<1>5. ASSUME NEW next \in Requested, BeginTransition(c, a, next)
      PROVE  TypeOK'
  <2>1. [Job("transition", a, attempts[a].version)
            EXCEPT !.state = attempts[a].state, !.next = next] \in Jobs
    BY <1>1, <1>2, <1>5 DEF Job, Jobs, Steps, AttemptStates
  <2> QED BY <1>3, <1>5, <2>1, StartsType DEF BeginTransition
<1>6. ASSUME NEW next \in {"expired", "replaced"}, BeginRetire(c, a, next)
      PROVE  TypeOK'
  <2>1. [Job("retire", a, attempts[a].version)
            EXCEPT !.state = attempts[a].state, !.next = next] \in Jobs
    BY <1>1, <1>2, <1>6 DEF Job, Jobs, Steps, AttemptStates
  <2> QED BY <1>3, <1>6, <2>1, StartsType DEF BeginRetire
<1>7. CASE BeginRequest(c, a)
  BY <1>1, <1>3, <1>7, JobType, StartsType DEF BeginRequest, Steps
<1>8. CASE BeginPublish(c, a)
  BY <1>1, <1>3, <1>8, JobType, StartsType DEF BeginPublish, Steps
<1>9. CASE BeginClaim(c, a)
  <2>1. ASSUME NEW step \in {"delete", "claim"}
        PROVE  [Job(step, a, promotions[a].version)
                  EXCEPT !.state = promotions[a].state] \in Jobs
    BY <1>1, <1>2 DEF Job, Jobs, Steps, AttemptStates
  <2> QED BY <1>3, <1>9, <2>1, StartsType DEF BeginClaim
<1> QED BY <1>4, <1>5, <1>6, <1>7, <1>8, <1>9 DEF Begin

(* The values of the rows a caller works on.                               *)
LEMMA RowTypes ==
    ASSUME TypeOK, NEW c \in Callers, work[c].attempt # 0
    PROVE  /\ work[c] \in Jobs /\ work[c].attempt \in Attempts
           /\ attempts[work[c].attempt] \in [state : AttemptStates, version : Nat]
           /\ promotions[work[c].attempt] \in [state : PromotionStates, version : Nat]
BY DEF TypeOK, Jobs

LEMMA AttemptRows ==
    ASSUME TypeOK, Sound, NEW c \in Callers,
           Activate(c) \/ Transition(c) \/ Retire(c) \/ Accept(c)
    PROVE  /\ attempts' \in [Attempts -> [state : AttemptStates, version : Nat]]
           /\ \A b \in Attempts :
                 attempts'[b].state = "none" <=> attempts'[b].version = 0
<1> DEFINE w == work[c]
           a == work[c].attempt
<1>1. w.step # "idle" /\ a # 0
  BY EvidenceAssumption DEF Activate, Transition, Retire, Accept, Does, Sound, Asks, TypeOK
<1>2. /\ w \in Jobs /\ a \in Attempts
      /\ attempts[a] \in [state : AttemptStates, version : Nat]
  BY <1>1, RowTypes
<1>3. ASSUME NEW row \in [state : AttemptStates, version : Nat],
             row.state = "none" <=> row.version = 0,
             attempts' = attempts \/ attempts' = [attempts EXCEPT ![a] = row]
      PROVE  /\ attempts' \in [Attempts -> [state : AttemptStates, version : Nat]]
             /\ \A b \in Attempts :
                   attempts'[b].state = "none" <=> attempts'[b].version = 0
  <2>1. CASE attempts' = attempts
    BY <2>1 DEF TypeOK
  <2>2. CASE attempts' = [attempts EXCEPT ![a] = row]
    BY <1>2, <1>3, <2>2 DEF TypeOK
  <2> QED BY <1>3, <2>1, <2>2
<1>4. CASE Activate(c)
  <2> DEFINE active == [state |-> "active", version |-> 2]
             proposed == [state |-> "proposed", version |-> 1]
  <2>1. \/ attempts' = [attempts EXCEPT ![a] = active]
        \/ attempts' = [attempts EXCEPT ![a] = proposed]
        \/ attempts' = [attempts EXCEPT ![a] = attempts[a]]
    BY <1>4 DEF Activate
  <2>2. /\ active \in [state : AttemptStates, version : Nat]
        /\ proposed \in [state : AttemptStates, version : Nat]
    BY DEF AttemptStates, Mutable
  <2>3. attempts[a].state = "none" <=> attempts[a].version = 0
    BY <1>2 DEF TypeOK
  <2> QED BY <1>2, <1>3, <2>1, <2>2, <2>3
<1>5. ASSUME NEW state \in AttemptStates \ {"none"},
             \/ attempts' = attempts
             \/ attempts' = [attempts EXCEPT ![a] = Advance(attempts[a], state)]
      PROVE  /\ attempts' \in [Attempts -> [state : AttemptStates, version : Nat]]
             /\ \A b \in Attempts :
                   attempts'[b].state = "none" <=> attempts'[b].version = 0
  <2> DEFINE row == Advance(attempts[a], state)
  <2>1. /\ row \in [state : AttemptStates, version : Nat]
        /\ row.state # "none" /\ row.version # 0
    BY <1>2, <1>5 DEF Advance
  <2> HIDE DEF row
  <2> QED BY <1>3, <1>5, <2>1 DEF row
<1>6. CASE Transition(c)
  <2>1. w.next \in AttemptStates \ {"none"}
    BY <1>6 DEF Transition, Does, Sound, Asks, Requested, AttemptStates, Mutable, Final
  <2>2. \/ attempts' = attempts
        \/ attempts' = [attempts EXCEPT ![a] = Advance(attempts[a], w.next)]
    BY <1>6 DEF Transition
  <2> QED BY <1>5, <2>1, <2>2
<1>7. CASE Retire(c)
  <2>1. Retired(w) \in AttemptStates \ {"none"}
    BY <1>7 DEF Retire, Does, Sound, Asks, Retired, AttemptStates, Mutable, Final
  <2>2. \/ attempts' = attempts
        \/ attempts' = [attempts EXCEPT ![a] = Advance(attempts[a], Retired(w))]
    BY <1>7 DEF Retire
  <2> QED BY <1>5, <2>1, <2>2
<1>8. CASE Accept(c)
  <2>1. "completed" \in AttemptStates \ {"none"}
    BY DEF AttemptStates, Final
  <2>2. \/ attempts' = attempts
        \/ attempts' = [attempts EXCEPT ![a] = Advance(attempts[a], "completed")]
    BY <1>8 DEF Accept
  <2> QED BY <1>5, <2>1, <2>2
<1> QED BY <1>4, <1>6, <1>7, <1>8

LEMMA PromotionRows ==
    ASSUME TypeOK, Sound, NEW c \in Callers,
           RecordPromotion(c) \/ Promote(c) \/ Accept(c) \/ Claim(c) \/ MarkDeleted(c)
    PROVE  /\ promotions' \in [Attempts -> [state : PromotionStates, version : Nat]]
           /\ \A b \in Attempts :
                 promotions'[b].state = "none" <=> promotions'[b].version = 0
<1> DEFINE w == work[c]
           a == work[c].attempt
<1>1. a # 0
  BY EvidenceAssumption
  DEF RecordPromotion, Promote, Accept, Claim, MarkDeleted, Does, Sound, Asks, TypeOK
<1>2. /\ w \in Jobs /\ a \in Attempts
      /\ promotions[a] \in [state : PromotionStates, version : Nat]
  BY <1>1, RowTypes
<1>3. ASSUME NEW row \in [state : PromotionStates, version : Nat],
             row.state = "none" <=> row.version = 0,
             promotions' = promotions \/ promotions' = [promotions EXCEPT ![a] = row]
      PROVE  /\ promotions' \in [Attempts -> [state : PromotionStates, version : Nat]]
             /\ \A b \in Attempts :
                   promotions'[b].state = "none" <=> promotions'[b].version = 0
  <2>1. CASE promotions' = promotions
    BY <2>1 DEF TypeOK
  <2>2. CASE promotions' = [promotions EXCEPT ![a] = row]
    BY <1>2, <1>3, <2>2 DEF TypeOK
  <2> QED BY <1>3, <2>1, <2>2
<1>4. CASE RecordPromotion(c)
  <2>1. /\ Recorded(promotions[a]) \in [state : PromotionStates, version : Nat]
        /\ Recorded(promotions[a]).state # "none"
        /\ Recorded(promotions[a]).version # 0
    BY <1>2 DEF Recorded, PromotionStates, TypeOK
  <2> QED BY <1>3, <1>4, <2>1 DEF RecordPromotion
<1>5. ASSUME NEW state \in {"promoted", "accepted", "deleting", "deleted"},
             \/ promotions' = promotions
             \/ promotions' = [promotions EXCEPT ![a] = Advance(promotions[a], state)]
      PROVE  /\ promotions' \in [Attempts -> [state : PromotionStates, version : Nat]]
             /\ \A b \in Attempts :
                   promotions'[b].state = "none" <=> promotions'[b].version = 0
  <2> DEFINE row == Advance(promotions[a], state)
  <2>1. /\ row \in [state : PromotionStates, version : Nat]
        /\ row.state # "none" /\ row.version # 0
    BY <1>2, <1>5 DEF Advance, PromotionStates
  <2> HIDE DEF row
  <2> QED BY <1>3, <1>5, <2>1 DEF row
<1>6. CASE Promote(c)
  BY <1>5, <1>6 DEF Promote
<1>7. CASE Accept(c)
  BY <1>5, <1>7 DEF Accept
<1>8. CASE Claim(c)
  BY <1>5, <1>8 DEF Claim
<1>9. CASE MarkDeleted(c)
  BY <1>5, <1>9 DEF MarkDeleted
<1> QED BY <1>4, <1>6, <1>7, <1>8, <1>9

LEMMA ContinueTyped ==
    ASSUME TypeOK, Sound, NEW c \in Callers, Continue(c)
    PROVE  TypeOK'
<1> DEFINE a == work[c].attempt
<1>1. work[c].step # "idle"
  BY DEF Continue, Activate, Transition, Retire, RecordRequest, BeginGrant, Grant,
         RecordPromotion, Put, Verify, BeginPromote, Promote, ReadSegment, ReadAttempt,
         Accept, Claim, Delete, MarkDeleted, Does
<1>2. a # 0
  BY <1>1, EvidenceAssumption DEF Sound, Asks, TypeOK
<1>3. /\ work[c] \in Jobs /\ a \in Attempts
      /\ attempts[a] \in [state : AttemptStates, version : Nat]
      /\ promotions[a] \in [state : PromotionStates, version : Nat]
  BY <1>2, RowTypes
<1>4. CASE Activate(c)
  <2>1. segment' \in [current : Attempts \cup {0}, accepted : Attempts \cup {0},
                      version : Nat]
    <3>1. work[c].version + 1 \in Nat
      BY <1>3 DEF Jobs
    <3> QED BY <1>3, <1>4, <3>1 DEF Activate, TypeOK
  <2> QED BY <1>4, <2>1, AttemptRows, StopsType DEF Activate, TypeOK
<1>5. CASE Transition(c)
  BY <1>5, AttemptRows, StopsType DEF Transition, TypeOK
<1>6. CASE Retire(c)
  <2>1. segment' \in [current : Attempts \cup {0}, accepted : Attempts \cup {0},
                      version : Nat]
    <3>1. segment.version + 1 \in Nat
      BY DEF TypeOK
    <3> QED BY <1>6, <3>1 DEF Retire, TypeOK
  <2> QED BY <1>6, <2>1, AttemptRows, StopsType DEF Retire, TypeOK
<1>7. CASE RecordRequest(c)
  BY <1>7, GoesType DEF RecordRequest, TypeOK, Steps
<1>8. CASE BeginGrant(c)
  BY <1>8, GoesType, StopsType DEF BeginGrant, TypeOK, Steps, rows
<1>9. CASE Grant(c)
  BY <1>9, StopsType DEF Grant, TypeOK
<1>10. CASE RecordPromotion(c)
  <2>1. Recorded(promotions[a]).version \in Nat
    BY <1>3 DEF Recorded
  <2>2. [work[c] EXCEPT !.step = "put", !.version = Recorded(promotions[a]).version] \in Jobs
    BY <1>3, <2>1 DEF Jobs, Steps
  <2>3. work' \in [Callers -> Jobs]
    BY <1>10, <2>2, StopsType DEF RecordPromotion, TypeOK
  <2> QED BY <1>10, <2>3, PromotionRows DEF RecordPromotion, TypeOK
<1>11. CASE Put(c)
  BY <1>3, <1>11, GoesType DEF Put, TypeOK, Steps, rows
<1>12. CASE Verify(c)
  BY <1>12, GoesType, StopsType DEF Verify, TypeOK, Steps, rows
<1>13. CASE BeginPromote(c)
  BY <1>13, GoesType, StopsType DEF BeginPromote, TypeOK, Steps, rows
<1>14. CASE Promote(c)
  BY <1>14, PromotionRows, GoesType, StopsType DEF Promote, TypeOK, Steps
<1>15. CASE ReadSegment(c)
  <2>1. [work[c] EXCEPT !.step = "attempt", !.version = segment.version] \in Jobs
    BY <1>3 DEF Jobs, Steps, TypeOK
  <2>2. work' \in [Callers -> Jobs]
    BY <1>15, <2>1, StopsType DEF ReadSegment, TypeOK
  <2> QED BY <1>15, <2>2 DEF ReadSegment, TypeOK, rows
<1>16. CASE ReadAttempt(c)
  <2>1. [work[c] EXCEPT !.step = "commit", !.other = attempts[a].version] \in Jobs
    BY <1>3 DEF Jobs, Steps
  <2>2. \/ Stops(c)
        \/ work' = [work EXCEPT ![c] = [@ EXCEPT !.step = "commit",
                                                !.other = attempts[a].version]]
    BY <1>16 DEF ReadAttempt
  <2>3. work' \in [Callers -> Jobs]
    BY <2>1, <2>2, StopsType DEF TypeOK
  <2> QED BY <1>16, <2>3 DEF ReadAttempt, TypeOK, rows
<1>17. CASE Accept(c)
  <2>1. segment' \in [current : Attempts \cup {0}, accepted : Attempts \cup {0},
                      version : Nat]
    BY <1>3, <1>17 DEF Accept, TypeOK, Jobs
  <2>2. artifacts' \subseteq Attempts
    BY <1>3, <1>17 DEF Accept, TypeOK
  <2>3. transfers' \in [Attempts -> {"none", "required", "granted", "completed"}]
    BY <1>3, <1>17 DEF Accept, TypeOK
  <2> QED BY <1>17, <2>1, <2>2, <2>3, AttemptRows, PromotionRows, StopsType
          DEF Accept, TypeOK
<1>18. CASE Claim(c)
  <2>1. work[c].version + 1 \in Nat
    BY <1>3 DEF Jobs
  <2>2. [work[c] EXCEPT !.step = "delete", !.version = @ + 1] \in Jobs
    BY <1>3, <2>1 DEF Jobs, Steps
  <2>3. work' \in [Callers -> Jobs]
    BY <1>18, <2>2, StopsType DEF Claim, TypeOK
  <2> QED BY <1>18, <2>3, PromotionRows DEF Claim, TypeOK
<1>19. CASE Delete(c)
  BY <1>19, GoesType DEF Delete, TypeOK, Steps, rows
<1>20. CASE MarkDeleted(c)
  BY <1>20, PromotionRows, StopsType DEF MarkDeleted, TypeOK
<1> QED BY <1>4, <1>5, <1>6, <1>7, <1>8, <1>9, <1>10, <1>11, <1>12, <1>13, <1>14,
           <1>15, <1>16, <1>17, <1>18, <1>19, <1>20 DEF Continue

LEMMA TypeStep ==
    ASSUME IInv, [Next]_vars
    PROVE  TypeOK'
<1> USE DEF IInv
<1>1. CASE AcquireLease
  BY <1>1, EvidenceAssumption DEF AcquireLease, TypeOK, rows
<1>2. CASE FenceRun
  BY <1>2 DEF FenceRun, TypeOK
<1>3. CASE RecordUnavailable
  BY <1>3 DEF RecordUnavailable, TypeOK
<1>4. ASSUME NEW a \in Attempts, RetentionPasses(a)
      PROVE  TypeOK'
  BY <1>4 DEF RetentionPasses, TypeOK, rows
<1>5. ASSUME NEW c \in Callers, Continue(c)
      PROVE  TypeOK'
  BY <1>5, ContinueTyped
<1>6. ASSUME NEW c \in Callers, Abandon(c)
      PROVE  TypeOK'
  BY <1>6, StopsType DEF Abandon, TypeOK, rows
<1>7. ASSUME NEW c \in Callers, NEW a \in 1..leases, Begin(c, a)
      PROVE  TypeOK'
  BY <1>7, BeginTyped
<1>8. CASE UNCHANGED vars
  BY <1>8 DEF vars, TypeOK
<1> QED BY <1>1, <1>2, <1>3, <1>4, <1>5, <1>6, <1>7, <1>8 DEF Next

-----------------------------------------------------------------------------
(* Who writes what.                                                        *)

LEMMA Frames ==
    ASSUME [Next]_vars
    PROVE  /\ \/ UNCHANGED run
              \/ UNCHANGED segment /\ FenceRun
              \/ UNCHANGED segment /\ RecordUnavailable
           /\ \/ UNCHANGED <<segment, attempts>>
              \/ \E c \in Callers : Activate(c) \/ Transition(c) \/ Retire(c) \/ Accept(c)
           /\ \/ UNCHANGED transfers
              \/ \E c \in Callers : RecordRequest(c) \/ Grant(c) \/ Accept(c)
           /\ \/ UNCHANGED promotions
              \/ \E c \in Callers : \/ RecordPromotion(c) \/ Promote(c) \/ Accept(c)
                                    \/ Claim(c) \/ MarkDeleted(c)
           /\ UNCHANGED artifacts \/ \E c \in Callers : Accept(c)
           /\ UNCHANGED objects \/ \E c \in Callers : Put(c) \/ Delete(c)
           /\ UNCHANGED leases \/ AcquireLease
<1>1. CASE AcquireLease
  BY <1>1 DEF AcquireLease, rows
<1>2. CASE FenceRun
  BY <1>2 DEF FenceRun
<1>3. CASE RecordUnavailable
  BY <1>3 DEF RecordUnavailable
<1>4. CASE \E a \in Attempts : RetentionPasses(a)
  BY <1>4 DEF RetentionPasses, rows
<1>5. CASE \E c \in Callers : Continue(c)
  <2>1. PICK c \in Callers : Continue(c)
    BY <1>5
  <2>2. CASE Activate(c)
    BY <2>2 DEF Activate, rows
  <2>3. CASE Transition(c)
    BY <2>3 DEF Transition, rows
  <2>4. CASE Retire(c)
    BY <2>4 DEF Retire, rows
  <2>5. CASE RecordRequest(c)
    BY <2>5 DEF RecordRequest, rows
  <2>6. CASE BeginGrant(c)
    BY <2>6 DEF BeginGrant, rows
  <2>7. CASE Grant(c)
    BY <2>7 DEF Grant, rows
  <2>8. CASE RecordPromotion(c)
    BY <2>8 DEF RecordPromotion, rows
  <2>9. CASE Put(c)
    BY <2>9 DEF Put, rows
  <2>10. CASE Verify(c)
    BY <2>10 DEF Verify, rows
  <2>11. CASE BeginPromote(c)
    BY <2>11 DEF BeginPromote, rows
  <2>12. CASE Promote(c)
    BY <2>12 DEF Promote, rows
  <2>13. CASE ReadSegment(c)
    BY <2>13 DEF ReadSegment, rows
  <2>14. CASE ReadAttempt(c)
    BY <2>14 DEF ReadAttempt, rows
  <2>15. CASE Accept(c)
    BY <2>15 DEF Accept, rows
  <2>16. CASE Claim(c)
    BY <2>16 DEF Claim, rows
  <2>17. CASE Delete(c)
    BY <2>17 DEF Delete, rows
  <2>18. CASE MarkDeleted(c)
    BY <2>18 DEF MarkDeleted, rows
  <2> QED BY <2>1, <2>2, <2>3, <2>4, <2>5, <2>6, <2>7, <2>8, <2>9, <2>10, <2>11,
           <2>12, <2>13, <2>14, <2>15, <2>16, <2>17, <2>18 DEF Continue
<1>6. CASE \E c \in Callers : Abandon(c)
  BY <1>6 DEF Abandon, rows
<1>7. CASE \E c \in Callers, a \in 1..leases : Begin(c, a)
  BY <1>7 DEF Begin, BeginActivate, BeginTransition, BeginRetire, BeginRequest,
     BeginPublish, BeginClaim, rows
<1>8. CASE UNCHANGED vars
  BY <1>8 DEF vars
<1> QED BY <1>1, <1>2, <1>3, <1>4, <1>5, <1>6, <1>7, <1>8 DEF Next

(* A caller under way works on an attempt whose lease was granted.         *)
LEMMA Working ==
    ASSUME IInv, NEW c \in Callers, work[c].step # "idle"
    PROVE  /\ work[c] \in Jobs
           /\ work[c].attempt \in Attempts /\ work[c].attempt \in 1..leases
           /\ work[c].attempt # 0
           /\ Asks(work[c]) /\ Snapshot(work[c]) /\ Handles(work[c])
<1>1. work[c].attempt \in 1..leases
  BY DEF IInv, Sound, Asks
<1> QED BY <1>1, EvidenceAssumption DEF IInv, Sound, TypeOK, Attempts

-----------------------------------------------------------------------------
(* How rows move.                                                          *)

(* An attempt that has started never is as it was before; it starts only   *)
(* together with a change of the segment; and every change of the segment  *)
(* increments its version, and points it nowhere or to a new attempt.      *)
LEMMA SegmentMoves ==
    ASSUME IInv, [Next]_vars
    PROVE  /\ \A b \in Attempts : Started(b) => Started(b)'
           /\ segment' = segment =>
                 \A b \in Attempts : ~Started(b) => ~Started(b)'
           /\ \/ segment' = segment
              \/ /\ segment'.version > segment.version
                 /\ \/ segment'.current = 0
                    \/ segment'.current \in Attempts /\ ~Started(segment'.current)
<1> DEFINE Goal == /\ \A b \in Attempts : Started(b) => Started(b)'
                   /\ segment' = segment =>
                         \A b \in Attempts : ~Started(b) => ~Started(b)'
                   /\ \/ segment' = segment
                      \/ /\ segment'.version > segment.version
                         /\ \/ segment'.current = 0
                            \/ /\ segment'.current \in Attempts
                               /\ ~Started(segment'.current)
<1>1. CASE UNCHANGED <<segment, attempts>>
  BY <1>1 DEF Started
<1>2. ASSUME NEW c \in Callers,
             Activate(c) \/ Transition(c) \/ Retire(c) \/ Accept(c)
      PROVE  Goal
  <2> DEFINE w == work[c]
             a == work[c].attempt
  <2>1. w.step # "idle"
    BY <1>2 DEF Activate, Transition, Retire, Accept, Does
  <2>2. /\ w \in Jobs /\ a \in Attempts /\ a # 0
        /\ Asks(w) /\ Snapshot(w)
    BY <2>1, Working
  <2>3. segment.version \in Nat /\ w.version \in Nat
    BY <2>2 DEF IInv, TypeOK, Jobs
  <2>4. /\ attempts \in [Attempts -> [state : AttemptStates, version : Nat]]
        /\ segment \in [current : Attempts \cup {0}, accepted : Attempts \cup {0},
                        version : Nat]
    BY DEF IInv, TypeOK
  <2>5. segment.current = a => Started(a)
    BY <2>2 DEF IInv, Pointed
  <2>6. CASE Activate(c)
    <3>1. CASE Wins(w)
      <4>1. ~Started(a) /\ segment.version = w.version
        BY <2>2, <2>6, <3>1 DEF Activate, Does, Snapshot, Wins
      <4>2. segment' = [segment EXCEPT !.current = a, !.version = w.version + 1]
        BY <2>6, <3>1 DEF Activate
      <4>3. segment'.version = segment.version + 1 /\ segment'.current = a
        BY <2>4, <4>1, <4>2
      <4>4. \A b \in Attempts \ {a} : attempts'[b] = attempts[b]
        BY <2>6 DEF Activate
      <4> QED BY <2>2, <2>3, <4>1, <4>3, <4>4 DEF Started
    <3>2. CASE ~Wins(w)
      <4>1. segment' = segment
        BY <2>6, <3>2 DEF Activate
      <4>2. \A b \in Attempts \ {a} : attempts'[b] = attempts[b]
        BY <2>6 DEF Activate
      <4>3. Started(a) => attempts'[a] = attempts[a]
        BY <2>2, <2>4, <2>6, <3>2 DEF Activate, Started
      <4>4. ~Started(a) => attempts'[a].state = "proposed"
        BY <2>2, <2>4, <2>5, <2>6, <3>2 DEF Activate, Started
      <4> QED BY <4>1, <4>2, <4>3, <4>4 DEF Started
    <3> QED BY <3>1, <3>2
  <2>7. CASE Transition(c)
    <3>1. w.next \in Requested
      BY <2>2, <2>7 DEF Transition, Does, Asks
    <3>2. CASE Unchanged(w) /\ Authority(a)
      <4>1. Started(a)
        BY <2>5, <3>2 DEF Authority
      <4>2. segment' = segment /\ attempts' = [attempts EXCEPT ![a] = Advance(@, w.next)]
        BY <2>7, <3>2 DEF Transition
      <4>3. \A b \in Attempts \ {a} : attempts'[b] = attempts[b]
        BY <4>2
      <4>4. attempts'[a].state = w.next
        BY <2>2, <2>4, <4>2 DEF Advance
      <4> QED BY <3>1, <4>1, <4>2, <4>3, <4>4 DEF Started, Requested
    <3>3. CASE ~(Unchanged(w) /\ Authority(a))
      BY <2>7, <3>3 DEF Transition, Started
    <3> QED BY <3>2, <3>3
  <2>8. CASE Retire(c)
    <3>1. Retired(w) \in {"failed", "expired", "replaced"}
      BY <2>2, <2>8 DEF Retire, Does, Asks, Retired
    <3>2. \/ segment' = segment
          \/ segment' = [segment EXCEPT !.current = 0, !.version = @ + 1]
      BY <2>8 DEF Retire
    <3>3. \/ segment' = segment
          \/ segment'.version = segment.version + 1 /\ segment'.current = 0
      BY <2>4, <3>2
    <3>4. CASE Unchanged(w) /\ Authority(a)
      <4>1. Started(a)
        BY <2>5, <3>4 DEF Authority
      <4>2. attempts' = [attempts EXCEPT ![a] = Advance(@, Retired(w))]
        BY <2>8, <3>4 DEF Retire
      <4>3. \A b \in Attempts \ {a} : attempts'[b] = attempts[b]
        BY <4>2
      <4>4. attempts'[a].state = Retired(w)
        BY <2>2, <2>4, <4>2 DEF Advance
      <4> QED BY <2>3, <3>1, <3>3, <4>1, <4>3, <4>4 DEF Started
    <3>5. CASE ~(Unchanged(w) /\ Authority(a))
      <4>1. attempts' = attempts
        BY <2>8, <3>5 DEF Retire
      <4> QED BY <2>3, <3>3, <4>1 DEF Started
    <3> QED BY <3>4, <3>5
  <2>9. CASE Accept(c)
    <3>1. \/ segment' = segment
          \/ segment' = [current |-> 0, accepted |-> a, version |-> w.version + 1]
             /\ segment.version = w.version
      BY <2>9 DEF Accept
    <3>2. \/ segment' = segment
          \/ segment'.version = segment.version + 1 /\ segment'.current = 0
      BY <3>1
    <3>3. \/ attempts' = attempts
          \/ /\ attempts[a].state = "output-ready"
             /\ attempts' = [attempts EXCEPT ![a] = Advance(@, "completed")]
      BY <2>9 DEF Accept
    <3>4. CASE attempts' = attempts
      BY <2>3, <3>2, <3>4 DEF Started
    <3>5. CASE /\ attempts[a].state = "output-ready"
               /\ attempts' = [attempts EXCEPT ![a] = Advance(@, "completed")]
      <4>1. \A b \in Attempts \ {a} : attempts'[b] = attempts[b]
        BY <3>5
      <4>2. attempts'[a].state = "completed"
        BY <2>2, <2>4, <3>5 DEF Advance
      <4> QED BY <2>3, <3>2, <3>5, <4>1, <4>2 DEF Started
    <3> QED BY <3>3, <3>4, <3>5
  <2> QED BY <1>2, <2>6, <2>7, <2>8, <2>9
<1> QED BY <1>1, <1>2, Frames

(* Acceptance: either the evidence of an undecided segment is bound, with  *)
(* everything that belongs to it, or nothing changes but, perhaps, the row *)
(* of the attempt whose artifact is bound already.                         *)
LEMMA AcceptEffect ==
    ASSUME IInv, NEW c \in Callers, Accept(c), NEW a, a = work[c].attempt
    PROVE  \/ /\ run = "active" /\ artifacts = {} /\ segment.accepted = 0
              /\ promotions[a].state = "promoted"
              /\ segment' = [current |-> 0, accepted |-> a, version |-> work[c].version + 1]
              /\ artifacts' = {a}
              /\ promotions' = [promotions EXCEPT ![a] = Advance(@, "accepted")]
              /\ transfers' = [transfers EXCEPT ![a] = "completed"]
              /\ attempts[a].state = "output-ready"
              /\ \/ attempts' = attempts
                 \/ attempts' = [attempts EXCEPT ![a] = Advance(@, "completed")]
           \/ /\ UNCHANGED <<segment, artifacts, promotions, transfers>>
              /\ \/ attempts' = attempts
                 \/ /\ a = segment.accepted /\ attempts[a].state = "output-ready"
                    /\ attempts' = [attempts EXCEPT ![a] = Advance(@, "completed")]
<1>1. work[c].step = "commit"
  BY DEF Accept, Does
<1>2. a \in Attempts /\ a # 0 /\ Snapshot(work[c])
  BY <1>1, Working
<1>3. /\ artifacts = {segment.accepted} \ {0}
      /\ promotions[a].state = "accepted" <=> a = segment.accepted
      /\ transfers[a] = "completed" <=> a = segment.accepted
  BY <1>2 DEF IInv, AcceptedWhole
<1>4. CASE Acceptable(a) /\ artifacts = {}
  <2>1. segment.version = work[c].version /\ segment.current = a /\ segment.accepted = 0
    BY <1>1, <1>2, <1>4 DEF Snapshot, Acceptable
  <2>2. /\ artifacts' = {a}
        /\ segment' = [current |-> 0, accepted |-> a, version |-> work[c].version + 1]
    BY <1>4, <2>1 DEF Accept
  <2>3. promotions' = [promotions EXCEPT ![a] = Advance(@, "accepted")]
    BY <1>4 DEF Accept, Acceptable
  <2>4. transfers' = [transfers EXCEPT ![a] = "completed"]
    <3>1. transfers' = [transfers EXCEPT ![a] =
                           IF @ = "granted" THEN "completed" ELSE @]
      BY <1>4 DEF Accept
    <3>2. transfers[a] = "granted"
      BY <1>4 DEF Acceptable
    <3> QED BY <3>1, <3>2
  <2>5. \/ attempts' = attempts
        \/ attempts' = [attempts EXCEPT ![a] = Advance(@, "completed")]
    BY DEF Accept
  <2> QED BY <1>4, <2>1, <2>2, <2>3, <2>4, <2>5 DEF Acceptable
<1>5. CASE ~(Acceptable(a) /\ artifacts = {})
  <2>1. artifacts' = artifacts
    BY <1>5 DEF Accept
  <2>2. segment.accepted = 0 => a \notin artifacts
    BY <1>3
  <2>3. segment' = segment
    BY <1>5, <2>2 DEF Accept
  <2>4. a \in artifacts => promotions[a].state # "promoted" /\ transfers[a] # "granted"
    BY <1>3
  <2>5. promotions' = promotions
    BY <1>5, <2>4 DEF Accept
  <2>6. transfers' = transfers
    <3>1. transfers' = [transfers EXCEPT ![a] =
                           IF @ = "granted" /\ a \in artifacts THEN "completed" ELSE @]
      BY <1>5 DEF Accept
    <3> QED BY <2>4, <3>1 DEF IInv, TypeOK
  <2>7. \/ attempts' = attempts
        \/ /\ a = segment.accepted /\ attempts[a].state = "output-ready"
           /\ attempts' = [attempts EXCEPT ![a] = Advance(@, "completed")]
    BY <1>2, <1>5, <2>2 DEF Accept
  <2> QED BY <2>1, <2>3, <2>5, <2>6, <2>7
<1> QED BY <1>4, <1>5

(* What cleanup has claimed stays claimed; a promotion becomes ready only  *)
(* when its object is there; and only what was claimed is deleted.         *)
LEMMA PromotionMoves ==
    ASSUME IInv, [Next]_vars, NEW b \in Attempts
    PROVE  /\ Tombstone(b) => Tombstone(b)'
           /\ promotions'[b].state \in {"promoted", "accepted"} =>
                 promotions[b].state \in {"promoted", "accepted"} \/ b \in objects
           /\ b \in objects => b \in objects' \/ Tombstone(b)
<1>1. /\ promotions \in [Attempts -> [state : PromotionStates, version : Nat]]
      /\ objects \subseteq Attempts
  BY DEF IInv, TypeOK
<1>2. ASSUME NEW c \in Callers,
             \/ RecordPromotion(c) \/ Promote(c) \/ Accept(c) \/ Claim(c) \/ MarkDeleted(c)
      PROVE  /\ Tombstone(b) => Tombstone(b)'
             /\ promotions'[b].state \in {"promoted", "accepted"} =>
                   promotions[b].state \in {"promoted", "accepted"} \/ b \in objects
  <2> DEFINE a == work[c].attempt
  <2>1. work[c].step # "idle"
    BY <1>2 DEF RecordPromotion, Promote, Accept, Claim, MarkDeleted, Does
  <2>2. a \in Attempts /\ Handles(work[c])
    BY <2>1, Working
  <2>3. CASE RecordPromotion(c)
    <3>1. promotions' = [promotions EXCEPT ![a] = Recorded(promotions[a])]
      BY <2>3 DEF RecordPromotion
    <3>2. CASE a = b
      BY <1>1, <2>2, <3>1, <3>2 DEF Recorded, Tombstone
    <3>3. CASE a # b
      BY <3>1, <3>3 DEF Tombstone
    <3> QED BY <3>2, <3>3
  <2>4. CASE Promote(c)
    <3>1. CASE promotions' = promotions
      BY <3>1 DEF Tombstone
    <3>2. CASE promotions' # promotions
      <4>1. /\ promotions[a].state = "pending"
            /\ promotions' = [promotions EXCEPT ![a] = Advance(@, "promoted")]
        BY <2>4, <3>2 DEF Promote
      <4>2. a \in objects
        BY <2>2, <2>4, <4>1 DEF Promote, Does, Handles, Tombstone
      <4>3. CASE a = b
        BY <2>2, <4>1, <4>2, <4>3 DEF Tombstone
      <4>4. CASE a # b
        BY <4>1, <4>4 DEF Tombstone
      <4> QED BY <4>3, <4>4
    <3> QED BY <3>1, <3>2
  <2>5. CASE Accept(c)
    <3>1. \/ promotions' = promotions
          \/ /\ promotions[a].state = "promoted"
             /\ promotions' = [promotions EXCEPT ![a] = Advance(@, "accepted")]
      BY <2>5 DEF Accept
    <3>2. CASE a = b
      BY <2>2, <3>1, <3>2 DEF Tombstone
    <3>3. CASE a # b
      <4>1. promotions'[b] = promotions[b]
        BY <1>1, <3>1, <3>3
      <4> QED BY <4>1 DEF Tombstone
    <3> QED BY <3>2, <3>3
  <2>6. ASSUME NEW state \in {"deleting", "deleted"},
               \/ promotions' = promotions
               \/ promotions' = [promotions EXCEPT ![a] = Advance(@, state)]
        PROVE  /\ Tombstone(b) => Tombstone(b)'
               /\ promotions'[b].state \in {"promoted", "accepted"} =>
                     promotions[b].state \in {"promoted", "accepted"}
    <3>1. CASE a = b
      BY <1>1, <2>2, <2>6, <3>1 DEF Tombstone, Advance
    <3>2. CASE a # b
      <4>1. promotions'[b] = promotions[b]
        BY <1>1, <2>6, <3>2
      <4> QED BY <4>1 DEF Tombstone
    <3> QED BY <3>1, <3>2
  <2>7. CASE Claim(c)
    BY <2>6, <2>7 DEF Claim
  <2>8. CASE MarkDeleted(c)
    BY <2>6, <2>8 DEF MarkDeleted
  <2> QED BY <1>2, <2>3, <2>4, <2>5, <2>7, <2>8
<1>3. ASSUME UNCHANGED promotions
      PROVE  /\ Tombstone(b) => Tombstone(b)'
             /\ promotions'[b].state \in {"promoted", "accepted"} =>
                   promotions[b].state \in {"promoted", "accepted"}
  BY <1>3 DEF Tombstone
<1>4. ASSUME NEW c \in Callers, Put(c) \/ Delete(c)
      PROVE  b \in objects => b \in objects' \/ Tombstone(b)
  <2>1. CASE Put(c)
    BY <2>1 DEF Put
  <2>2. CASE Delete(c)
    <3>1. Tombstone(work[c].attempt)
      BY <2>2, Working DEF Delete, Does, Handles
    <3> QED BY <2>2, <3>1 DEF Delete
  <2> QED BY <1>4, <2>1, <2>2
<1> QED BY <1>2, <1>3, <1>4, Frames

-----------------------------------------------------------------------------
(* The parts of the invariant that concern the rows.                       *)

LEMMA PointedStep ==
    ASSUME IInv, [Next]_vars
    PROVE  Pointed'
<1>1. /\ segment.current \in Attempts \cup {0}
      /\ segment.current # 0 => Started(segment.current)
      /\ segment.accepted # 0 => segment.current = 0
  BY DEF IInv, TypeOK, Pointed
<1>2. CASE UNCHANGED <<segment, attempts>>
  BY <1>1, <1>2 DEF Pointed, Started
<1>3. ASSUME NEW c \in Callers, Activate(c)
      PROVE  Pointed'
  <2> DEFINE w == work[c]
             a == work[c].attempt
  <2>1. /\ w \in Jobs /\ a \in Attempts /\ a # 0 /\ Snapshot(w)
    BY <1>3, Working DEF Activate, Does
  <2>2. CASE Wins(w)
    <3>1. ~Started(a)
      BY <1>3, <2>1, <2>2 DEF Activate, Does, Snapshot, Wins
    <3>2. segment' = [segment EXCEPT !.current = a, !.version = w.version + 1]
      BY <1>3, <2>2 DEF Activate
    <3>3. segment'.current = a /\ segment'.accepted = segment.accepted
      BY <3>2 DEF IInv, TypeOK
    <3>4. segment.accepted = 0
      BY <2>2 DEF Wins
    <3>5. attempts'[a].state = "active"
      BY <1>3, <2>1, <2>2, <3>1, <3>2, <3>3 DEF Activate, Started, IInv, TypeOK
    <3> QED BY <3>3, <3>4, <3>5 DEF Pointed, Started
  <2>3. CASE ~Wins(w)
    <3>1. segment' = segment
      BY <1>3, <2>3 DEF Activate
    <3> QED BY <1>1, <3>1, SegmentMoves DEF Pointed
  <2> QED BY <2>2, <2>3
<1>4. ASSUME NEW c \in Callers, Transition(c)
      PROVE  Pointed'
  BY <1>1, <1>4, SegmentMoves DEF Transition, Pointed
<1>5. ASSUME NEW c \in Callers, Retire(c)
      PROVE  Pointed'
  <2>1. segment' = segment \/ segment'.current = 0
    BY <1>5 DEF Retire, IInv, TypeOK
  <2> QED BY <1>1, <2>1, SegmentMoves DEF Pointed
<1>6. ASSUME NEW c \in Callers, Accept(c)
      PROVE  Pointed'
  <2>1. segment' = segment \/ segment'.current = 0
    BY <1>6 DEF Accept
  <2> QED BY <1>1, <2>1, SegmentMoves DEF Pointed
<1> QED BY <1>2, <1>3, <1>4, <1>5, <1>6, Frames

LEMMA InTurnStep ==
    ASSUME IInv, [Next]_vars
    PROVE  InTurn'
<1>1. leases \in Nat /\ Attempts \subseteq Nat
  BY DEF IInv, TypeOK, Attempts
<1>2. /\ \A a \in Attempts : a < leases => Started(a)
      /\ \A a \in Attempts : a > leases => attempts[a].state = "none"
  BY DEF IInv, InTurn
<1>3. CASE AcquireLease
  <2>1. leases # 0 => leases \in Attempts /\ Started(leases)
    BY <1>1, <1>3 DEF AcquireLease, Started, Attempts, IInv, TypeOK
  <2>2. leases' = leases + 1 /\ attempts' = attempts
    BY <1>3 DEF AcquireLease, rows
  <2> QED BY <1>1, <1>2, <2>1, <2>2 DEF InTurn, Started, Attempts
<1>4. CASE UNCHANGED leases
  <2>1. CASE UNCHANGED attempts
    BY <1>2, <1>4, <2>1 DEF InTurn, Started
  <2>2. ASSUME NEW c \in Callers,
               Activate(c) \/ Transition(c) \/ Retire(c) \/ Accept(c)
        PROVE  InTurn'
    <3> DEFINE a == work[c].attempt
    <3>1. a \in 1..leases
      BY <2>2, Working DEF Activate, Transition, Retire, Accept, Does
    <3>2. \A b \in Attempts \ {a} : attempts'[b] = attempts[b]
      BY <2>2 DEF Activate, Transition, Retire, Accept, IInv, TypeOK
    <3>3. \A b \in Attempts : b > leases => attempts'[b].state = "none"
      BY <1>1, <1>2, <3>1, <3>2
    <3> QED BY <1>2, <1>4, <3>3, SegmentMoves DEF InTurn
  <2> QED BY <2>1, <2>2, Frames
<1> QED BY <1>3, <1>4, Frames

LEMMA StoredStep ==
    ASSUME IInv, [Next]_vars
    PROVE  Stored'
<1> SUFFICES ASSUME NEW b \in Attempts, promotions'[b].state \in {"promoted", "accepted"}
             PROVE  b \in objects'
  BY DEF Stored
<1>1. b \in objects
  BY PromotionMoves DEF IInv, Stored
<1>2. ~Tombstone(b)
  BY PromotionMoves DEF Tombstone
<1> QED BY <1>1, <1>2, PromotionMoves

-----------------------------------------------------------------------------
(* The part of the invariant that concerns the callers.                    *)

LEMMA JobFrame ==
    ASSUME IInv, [Next]_vars, NEW d \in Callers
    PROVE  \/ work'[d] = work[d] \/ work'[d] = Idle
           \/ \E a \in 1..leases : Begin(d, a)
           \/ Continue(d)
<1>1. work \in [Callers -> Jobs]
  BY DEF IInv, TypeOK
<1>2. CASE AcquireLease \/ FenceRun \/ RecordUnavailable \/ UNCHANGED vars
  BY <1>2 DEF AcquireLease, FenceRun, RecordUnavailable, vars
<1>3. CASE \E a \in Attempts : RetentionPasses(a)
  BY <1>3 DEF RetentionPasses
<1>4. ASSUME NEW c \in Callers, Abandon(c)
      PROVE  work'[d] = work[d] \/ work'[d] = Idle
  BY <1>1, <1>4 DEF Abandon, Stops
<1>5. ASSUME NEW c \in Callers, NEW a \in 1..leases, Begin(c, a), c # d
      PROVE  work'[d] = work[d]
  BY <1>1, <1>5 DEF Begin, BeginActivate, BeginTransition, BeginRetire, BeginRequest,
     BeginPublish, BeginClaim, Starts
<1>6. ASSUME NEW c \in Callers, Continue(c), c # d
      PROVE  work'[d] = work[d]
  <2>1. \E job : work' = [work EXCEPT ![c] = job]
    <3>1. CASE Activate(c) \/ Transition(c) \/ Retire(c) \/ Grant(c) \/ Accept(c)
               \/ MarkDeleted(c)
      BY <3>1 DEF Activate, Transition, Retire, Grant, Accept, MarkDeleted, Stops
    <3>2. CASE RecordRequest(c) \/ BeginGrant(c) \/ Put(c) \/ Verify(c)
      BY <3>2 DEF RecordRequest, BeginGrant, Put, Verify, Goes, Stops
    <3>3. CASE BeginPromote(c) \/ Promote(c) \/ Delete(c)
      BY <3>3 DEF BeginPromote, Promote, Delete, Goes, Stops
    <3>4. CASE RecordPromotion(c)
      BY <3>4 DEF RecordPromotion, Stops
    <3>5. CASE ReadSegment(c) \/ ReadAttempt(c)
      BY <3>5 DEF ReadSegment, ReadAttempt, Stops
    <3>6. CASE Claim(c)
      BY <3>6 DEF Claim, Stops
    <3> QED BY <1>6, <3>1, <3>2, <3>3, <3>4, <3>5, <3>6 DEF Continue
  <2> QED BY <1>1, <1>6, <2>1
<1> QED BY <1>2, <1>3, <1>4, <1>5, <1>6 DEF Next

(* What a caller knows survives what others do.                            *)
LEMMA JobStays ==
    ASSUME IInv, [Next]_vars, NEW w \in Jobs, w.step # "idle" => w.attempt \in Attempts,
           Asks(w), Snapshot(w), Handles(w)
    PROVE  Asks(w)' /\ Snapshot(w)' /\ Handles(w)'
<1>1. Asks(w)'
  <2>1. leases \in Nat /\ (leases' = leases \/ leases' = leases + 1)
    BY Frames DEF AcquireLease, IInv, TypeOK
  <2> QED BY <2>1 DEF Asks
<1>2. Snapshot(w)'
  <2>1. segment.version \in Nat /\ segment'.version \in Nat /\ w.version \in Nat
    BY TypeStep DEF IInv, TypeOK, Jobs
  <2>2. CASE w.step = "activate"
    BY <2>1, <2>2, SegmentMoves DEF Snapshot, Publishing
  <2>3. CASE w.step \in Publishing
    <3>1. Started(w.attempt) /\ Started(w.attempt)'
      BY <2>3, SegmentMoves DEF Snapshot, Publishing
    <3>2. segment' # segment /\ segment'.current = w.attempt => w.attempt = 0
      BY <3>1, SegmentMoves
    <3>3. w.attempt \in Attempts => w.attempt # 0
      BY DEF Attempts
    <3> QED BY <2>3, <3>1, <3>2, <3>3 DEF Snapshot, Publishing
  <2>4. CASE w.step \notin Publishing \cup {"activate"}
    BY <2>4 DEF Snapshot, Publishing
  <2> QED BY <2>2, <2>3, <2>4
<1>3. Handles(w)'
  BY PromotionMoves DEF Handles
<1> QED BY <1>1, <1>2, <1>3

LEMMA BegunSound ==
    ASSUME IInv, NEW d \in Callers, NEW a \in 1..leases, Begin(d, a)
    PROVE  Asks(work[d])' /\ Snapshot(work[d])' /\ Handles(work[d])'
<1>1. a \in Attempts /\ a # 0
  BY EvidenceAssumption DEF IInv, TypeOK, Attempts
<1>2. /\ work \in [Callers -> Jobs] /\ segment.version \in Nat
      /\ UNCHANGED <<segment, attempts, promotions, objects, leases>>
  BY DEF IInv, TypeOK, Begin, BeginActivate, BeginTransition, BeginRetire, BeginRequest,
     BeginPublish, BeginClaim, rows
<1>3. ASSUME NEW job, Starts(d, job)
      PROVE  work'[d] = job
  BY <1>2, <1>3 DEF Starts
<1>4. CASE BeginActivate(d, a)
  <2> DEFINE job == [Job("activate", a, segment.version) EXCEPT !.other = segment.current]
  <2>1. work'[d] = job
    BY <1>3, <1>4 DEF BeginActivate
  <2>2. job.step = "activate" /\ job.attempt = a /\ job.version = segment.version
    BY DEF Job
  <2> HIDE DEF job
  <2>3. ~Started(a)
    BY <1>4 DEF BeginActivate, Started
  <2> QED BY <1>2, <2>1, <2>2, <2>3 DEF Asks, Snapshot, Handles, Publishing, Started
<1>5. ASSUME NEW next \in Requested, BeginTransition(d, a, next)
      PROVE  Asks(work[d])' /\ Snapshot(work[d])' /\ Handles(work[d])'
  <2> DEFINE job == [Job("transition", a, attempts[a].version)
                        EXCEPT !.state = attempts[a].state, !.next = next]
  <2>1. work'[d] = job
    BY <1>3, <1>5 DEF BeginTransition
  <2>2. /\ job.step = "transition" /\ job.attempt = a
        /\ job.state = attempts[a].state /\ job.next = next
    BY DEF Job
  <2> HIDE DEF job
  <2>3. attempts[a].state \in Mutable
    BY <1>5 DEF BeginTransition, CurrentAttempt
  <2> QED BY <1>2, <1>5, <2>1, <2>2, <2>3 DEF Asks, Snapshot, Handles, Publishing
<1>6. ASSUME NEW next \in {"expired", "replaced"}, BeginRetire(d, a, next)
      PROVE  Asks(work[d])' /\ Snapshot(work[d])' /\ Handles(work[d])'
  <2> DEFINE job == [Job("retire", a, attempts[a].version)
                        EXCEPT !.state = attempts[a].state, !.next = next]
  <2>1. work'[d] = job
    BY <1>3, <1>6 DEF BeginRetire
  <2>2. /\ job.step = "retire" /\ job.attempt = a
        /\ job.state = attempts[a].state /\ job.next = next
    BY DEF Job
  <2> HIDE DEF job
  <2>3. attempts[a].state \in Mutable \cup {"failed"}
    BY <1>6 DEF BeginRetire
  <2> QED BY <1>2, <1>6, <2>1, <2>2, <2>3 DEF Asks, Snapshot, Handles, Publishing
<1>7. CASE BeginRequest(d, a)
  <2> DEFINE job == Job("request", a, 0)
  <2>1. work'[d] = job
    BY <1>3, <1>7 DEF BeginRequest
  <2>2. job.step = "request" /\ job.attempt = a
    BY DEF Job
  <2> HIDE DEF job
  <2> QED BY <1>2, <2>1, <2>2 DEF Asks, Snapshot, Handles, Publishing
<1>8. CASE BeginPublish(d, a)
  <2> DEFINE job == Job("record", a, 0)
  <2>1. work'[d] = job
    BY <1>3, <1>8 DEF BeginPublish
  <2>2. job.step = "record" /\ job.attempt = a
    BY DEF Job
  <2> HIDE DEF job
  <2>3. Started(a)
    BY <1>8 DEF BeginPublish, Started
  <2> QED BY <1>2, <2>1, <2>2, <2>3 DEF Asks, Snapshot, Handles, Publishing, Started
<1>9. CASE BeginClaim(d, a)
  <2> DEFINE job == [Job(IF promotions[a].state = "deleting" THEN "delete" ELSE "claim",
                         a, promotions[a].version) EXCEPT !.state = promotions[a].state]
  <2>1. work'[d] = job
    BY <1>3, <1>9 DEF BeginClaim
  <2>2. /\ job.step = IF promotions[a].state = "deleting" THEN "delete" ELSE "claim"
        /\ job.attempt = a
    BY DEF Job
  <2> HIDE DEF job
  <2> QED BY <1>2, <2>1, <2>2 DEF Asks, Snapshot, Handles, Publishing, Tombstone
<1> QED BY <1>4, <1>5, <1>6, <1>7, <1>8, <1>9 DEF Begin

LEMMA ContinuedSound ==
    ASSUME IInv, [Next]_vars, NEW d \in Callers, Continue(d), work'[d] # Idle,
           NEW a, a = work[d].attempt
    PROVE  Asks(work[d])' /\ Snapshot(work[d])' /\ Handles(work[d])'
<1> DEFINE Goal == Asks(work[d])' /\ Snapshot(work[d])' /\ Handles(work[d])'
           w == work[d]
<1>1. w.step # "idle"
  BY DEF Continue, Activate, Transition, Retire, RecordRequest, BeginGrant, Grant,
         RecordPromotion, Put, Verify, BeginPromote, Promote, ReadSegment, ReadAttempt,
         Accept, Claim, Delete, MarkDeleted, Does
<1>2. /\ w \in Jobs /\ a \in Attempts /\ a \in 1..leases
      /\ Asks(w) /\ Snapshot(w) /\ Handles(w)
  BY <1>1, Working
<1>3. leases \in Nat /\ (leases' = leases \/ leases' = leases + 1)
  BY Frames DEF AcquireLease, IInv, TypeOK
<1>4. a \in 1..leases'
  BY <1>2, <1>3
<1>5. work \in [Callers -> Jobs]
  BY DEF IInv, TypeOK
<1>6. Stops(d) => work'[d] = Idle
  BY <1>5 DEF Stops
<1>7. ASSUME NEW step, Goes(d, step)
      PROVE  work'[d].step = step /\ work'[d].attempt = a /\ work'[d].version = w.version
  <2>1. work'[d] = [w EXCEPT !.step = step]
    BY <1>5, <1>7 DEF Goes
  <2> QED BY <1>2, <2>1 DEF Jobs
<1>8. /\ Started(a) => Started(a)'
      /\ Tombstone(a) => Tombstone(a)'
      /\ a \in objects => a \in objects' \/ Tombstone(a)
  <2>1. Started(a) => Started(a)'
    BY <1>2, SegmentMoves
  <2>2. /\ Tombstone(a) => Tombstone(a)'
        /\ a \in objects => a \in objects' \/ Tombstone(a)
    BY <1>2, PromotionMoves
  <2> QED BY <2>1, <2>2
<1>9. CASE RecordRequest(d)
  BY <1>4, <1>7, <1>9 DEF RecordRequest, Asks, Snapshot, Handles, Publishing
<1>10. CASE BeginGrant(d)
  <2>1. work'[d].step = "granting" /\ work'[d].attempt = a
    BY <1>6, <1>7, <1>10 DEF BeginGrant
  <2> QED BY <1>4, <2>1 DEF Asks, Snapshot, Handles, Publishing
<1>11. CASE RecordPromotion(d)
  <2>1. work'[d] = [w EXCEPT !.step = "put", !.version = Recorded(promotions[a]).version]
    BY <1>5, <1>6, <1>11 DEF RecordPromotion
  <2>2. work'[d].step = "put" /\ work'[d].attempt = a
    BY <1>2, <2>1 DEF Jobs
  <2>3. Started(a)'
    BY <1>2, <1>8, <1>11 DEF RecordPromotion, Does, Snapshot, Publishing
  <2> QED BY <1>4, <2>2, <2>3 DEF Asks, Snapshot, Handles, Publishing, Started
<1>12. ASSUME NEW step \in {"verify", "mark", "promote", "bind"}, Goes(d, step),
              w.step \in Publishing,
              step \in {"mark", "promote"} => a \in objects \/ Tombstone(a)
       PROVE  Goal
  <2>1. work'[d].step = step /\ work'[d].attempt = a
    BY <1>7, <1>12
  <2>2. Started(a)'
    BY <1>2, <1>8, <1>12 DEF Snapshot
  <2>3. step \in {"mark", "promote"} => a \in objects' \/ Tombstone(a)'
    BY <1>8, <1>12
  <2> QED BY <1>4, <1>12, <2>1, <2>2, <2>3
          DEF Asks, Snapshot, Handles, Publishing, Started, Tombstone
<1>13. CASE Put(d)
  BY <1>12, <1>13 DEF Put, Does, Publishing
<1>14. CASE Verify(d)
  BY <1>6, <1>12, <1>14 DEF Verify, Does, Publishing
<1>15. CASE BeginPromote(d)
  <2>1. a \in objects \/ Tombstone(a)
    BY <1>2, <1>15 DEF BeginPromote, Does, Handles
  <2> QED BY <1>6, <1>12, <1>15, <2>1 DEF BeginPromote, Does, Publishing
<1>16. CASE Promote(d)
  BY <1>6, <1>12, <1>16 DEF Promote, Does, Publishing
<1>17. CASE ReadSegment(d)
  <2>1. work'[d] = [w EXCEPT !.step = "attempt", !.version = segment.version]
    BY <1>5, <1>6, <1>17 DEF ReadSegment
  <2>2. /\ work'[d].step = "attempt" /\ work'[d].attempt = a
        /\ work'[d].version = segment.version
    BY <1>2, <2>1 DEF Jobs
  <2>3. Started(a)' /\ segment' = segment
    BY <1>2, <1>8, <1>17 DEF ReadSegment, Does, Snapshot, Publishing, rows
  <2> QED BY <1>4, <2>2, <2>3 DEF Asks, Snapshot, Handles, Publishing, Started
<1>18. CASE ReadAttempt(d)
  <2>1. work'[d] = [w EXCEPT !.step = "commit", !.other = attempts[a].version]
    BY <1>5, <1>6, <1>18 DEF ReadAttempt
  <2>2. /\ work'[d].step = "commit" /\ work'[d].attempt = a
        /\ work'[d].version = w.version
    BY <1>2, <2>1 DEF Jobs
  <2>3. Started(a)' /\ segment' = segment
    BY <1>2, <1>8, <1>18 DEF ReadAttempt, Does, Snapshot, Publishing, rows
  <2>4. segment.current = a => segment.version = w.version
    BY <1>2, <1>18 DEF ReadAttempt, Does, Snapshot
  <2> QED BY <1>4, <2>2, <2>3, <2>4 DEF Asks, Snapshot, Handles, Publishing, Started
<1>19. CASE Claim(d)
  <2>1. Claimable(w)
    BY <1>6, <1>19 DEF Claim
  <2>2. work'[d] = [w EXCEPT !.step = "delete", !.version = @ + 1]
    BY <1>5, <1>19, <2>1 DEF Claim
  <2>3. work'[d].step = "delete" /\ work'[d].attempt = a
    BY <1>2, <2>2 DEF Jobs
  <2>4. promotions'[a].state = "deleting"
    BY <1>2, <1>19, <2>1 DEF Claim, Advance, IInv, TypeOK
  <2> QED BY <1>4, <2>3, <2>4 DEF Asks, Snapshot, Handles, Publishing, Tombstone
<1>20. CASE Delete(d)
  <2>1. work'[d].step = "deleted" /\ work'[d].attempt = a
    BY <1>7, <1>20 DEF Delete
  <2>2. Tombstone(a)'
    BY <1>2, <1>8, <1>20 DEF Delete, Does, Handles
  <2> QED BY <1>4, <2>1, <2>2 DEF Asks, Snapshot, Handles, Publishing, Tombstone
<1>21. CASE Activate(d) \/ Transition(d) \/ Retire(d) \/ Grant(d) \/ Accept(d)
            \/ MarkDeleted(d)
  BY <1>6, <1>21 DEF Activate, Transition, Retire, Grant, Accept, MarkDeleted
<1> QED BY <1>9, <1>10, <1>11, <1>13, <1>14, <1>15, <1>16, <1>17, <1>18, <1>19, <1>20,
           <1>21 DEF Continue

LEMMA SoundStep ==
    ASSUME IInv, [Next]_vars
    PROVE  Sound'
<1> SUFFICES ASSUME NEW d \in Callers
             PROVE  Asks(work[d])' /\ Snapshot(work[d])' /\ Handles(work[d])'
  BY DEF Sound
<1>1. CASE work'[d] = work[d]
  <2>1. /\ work[d] \in Jobs /\ (work[d].step # "idle" => work[d].attempt \in Attempts)
        /\ Asks(work[d]) /\ Snapshot(work[d]) /\ Handles(work[d])
    BY Working DEF IInv, TypeOK, Sound
  <2>2. \A w \in Jobs :
           (w.step # "idle" => w.attempt \in Attempts)
              /\ Asks(w) /\ Snapshot(w) /\ Handles(w)
           => Asks(w)' /\ Snapshot(w)' /\ Handles(w)'
    BY JobStays
  <2> QED BY <1>1, <2>1, <2>2
          DEF Asks, Snapshot, Handles, Started, Tombstone
<1>2. CASE work'[d] = Idle
  BY <1>2 DEF Idle, Job, Asks, Snapshot, Handles, Publishing
<1>3. CASE \E a \in 1..leases : Begin(d, a)
  BY <1>3, BegunSound
<1>4. CASE Continue(d) /\ work'[d] # Idle
  BY <1>4, ContinuedSound
<1> QED BY <1>1, <1>2, <1>3, <1>4, JobFrame

-----------------------------------------------------------------------------
(* The promises.                                                           *)

LEMMA AcceptedStep ==
    ASSUME IInv, [Next]_vars
    PROVE  AcceptedWhole'
<1> DEFINE Rows(b) ==
       /\ promotions[b].state = "accepted" <=> b = segment.accepted
       /\ transfers[b] = "completed" <=> b = segment.accepted
       /\ attempts[b].state = "completed" => b = segment.accepted
       /\ b = segment.accepted => attempts[b].state \in {"completed", "output-ready"}
<1>1. /\ artifacts = {segment.accepted} \ {0}
      /\ \A b \in Attempts : Rows(b)
  BY DEF IInv, AcceptedWhole
<1>2. /\ attempts \in [Attempts -> [state : AttemptStates, version : Nat]]
      /\ promotions \in [Attempts -> [state : PromotionStates, version : Nat]]
      /\ transfers \in [Attempts -> {"none", "required", "granted", "completed"}]
      /\ \A b \in Attempts : b # 0
  BY DEF IInv, TypeOK, Attempts
<1>3. ASSUME NEW c \in Callers, Accept(c)
      PROVE  AcceptedWhole'
  <2> DEFINE a == work[c].attempt
  <2>1. a \in Attempts /\ a # 0
    BY <1>3, Working DEF Accept, Does
  <2>2. CASE /\ artifacts = {} /\ segment.accepted = 0
             /\ segment' = [current |-> 0, accepted |-> a, version |-> work[c].version + 1]
             /\ artifacts' = {a}
             /\ promotions' = [promotions EXCEPT ![a] = Advance(@, "accepted")]
             /\ transfers' = [transfers EXCEPT ![a] = "completed"]
             /\ attempts[a].state = "output-ready"
             /\ \/ attempts' = attempts
                \/ attempts' = [attempts EXCEPT ![a] = Advance(@, "completed")]
    <3>1. segment'.accepted = a
      BY <2>2
    <3>2. /\ promotions'[a].state = "accepted" /\ transfers'[a] = "completed"
          /\ attempts'[a].state \in {"completed", "output-ready"}
      BY <1>2, <2>1, <2>2 DEF Advance
    <3>3. ASSUME NEW b \in Attempts, b # a
          PROVE  /\ promotions'[b].state # "accepted" /\ transfers'[b] # "completed"
                 /\ attempts'[b].state # "completed"
      <4>1. /\ promotions'[b] = promotions[b] /\ transfers'[b] = transfers[b]
            /\ attempts'[b] = attempts[b]
        BY <1>2, <2>2, <3>3
      <4> QED BY <1>1, <1>2, <2>2, <4>1
    <3> QED BY <2>1, <2>2, <3>1, <3>2, <3>3 DEF AcceptedWhole
  <2>3. CASE /\ UNCHANGED <<segment, artifacts, promotions, transfers>>
             /\ \/ attempts' = attempts
                \/ /\ a = segment.accepted /\ attempts[a].state = "output-ready"
                   /\ attempts' = [attempts EXCEPT ![a] = Advance(@, "completed")]
    <3>1. CASE attempts' = attempts
      BY <1>1, <2>3, <3>1 DEF AcceptedWhole
    <3>2. CASE /\ a = segment.accepted
               /\ attempts' = [attempts EXCEPT ![a] = Advance(@, "completed")]
      <4>1. attempts'[a].state = "completed"
        BY <1>2, <2>1, <3>2 DEF Advance
      <4>2. \A b \in Attempts : b # a => attempts'[b] = attempts[b]
        BY <1>2, <3>2
      <4> QED BY <1>1, <2>3, <3>2, <4>1, <4>2 DEF AcceptedWhole
    <3> QED BY <2>3, <3>1, <3>2
  <2> QED BY <1>3, <2>2, <2>3, AcceptEffect
<1>4. ASSUME ~\E c \in Callers : Accept(c)
      PROVE  AcceptedWhole'
  <2>1. artifacts' = artifacts
    BY <1>4, Frames
  <2>2. segment'.accepted = segment.accepted
    BY <1>4, Frames DEF Activate, Transition, Retire, IInv, TypeOK
  <2>3. ASSUME NEW b \in Attempts
        PROVE  promotions'[b].state = "accepted" <=> promotions[b].state = "accepted"
    <3>1. ASSUME NEW c \in Callers,
                 RecordPromotion(c) \/ Promote(c) \/ Claim(c) \/ MarkDeleted(c)
          PROVE  promotions'[b].state = "accepted" <=> promotions[b].state = "accepted"
      <4> DEFINE a == work[c].attempt
      <4>1. a \in Attempts
        BY <3>1, Working DEF RecordPromotion, Promote, Claim, MarkDeleted, Does
      <4>2. CASE RecordPromotion(c)
        BY <1>2, <4>1, <4>2 DEF RecordPromotion, Recorded
      <4>3. CASE Promote(c)
        BY <1>2, <4>1, <4>3 DEF Promote, Advance
      <4>4. CASE Claim(c)
        <5>1. CASE Claimable(work[c])
          <6>1. promotions[a].state # "accepted"
            BY <5>1 DEF Claimable, Eligible
          <6> QED BY <1>2, <4>1, <4>4, <5>1, <6>1 DEF Claim, Advance
        <5>2. CASE ~Claimable(work[c])
          BY <4>4, <5>2 DEF Claim
        <5> QED BY <5>1, <5>2
      <4>5. CASE MarkDeleted(c)
        BY <1>2, <4>1, <4>5 DEF MarkDeleted, Advance
      <4> QED BY <3>1, <4>2, <4>3, <4>4, <4>5
    <3> QED BY <1>4, <3>1, Frames
  <2>4. ASSUME NEW b \in Attempts
        PROVE  transfers'[b] = "completed" <=> transfers[b] = "completed"
    <3>1. ASSUME NEW c \in Callers, RecordRequest(c) \/ Grant(c)
          PROVE  transfers'[b] = "completed" <=> transfers[b] = "completed"
      BY <1>2, <3>1 DEF RecordRequest, Grant
    <3> QED BY <1>4, <3>1, Frames
  <2>5. ASSUME NEW b \in Attempts
        PROVE  /\ attempts'[b].state = "completed" => attempts[b].state = "completed"
               /\ b = segment.accepted => attempts'[b].state = attempts[b].state
    <3>1. ASSUME NEW c \in Callers, Activate(c) \/ Transition(c) \/ Retire(c)
          PROVE  /\ attempts'[b].state = "completed" => attempts[b].state = "completed"
                 /\ b = segment.accepted => attempts'[b].state = attempts[b].state
      <4> DEFINE w == work[c]
                 a == work[c].attempt
      <4>1. a \in Attempts /\ a # 0 /\ Asks(w)
        BY <3>1, Working DEF Activate, Transition, Retire, Does
      <4>2. segment.accepted # 0 => segment.current = 0
        BY DEF IInv, Pointed
      <4>3. b = segment.accepted => Started(b)
        BY <1>1 DEF Started
      <4>4. CASE Activate(c)
        <5>1. \/ attempts'[b] = attempts[b]
              \/ /\ attempts'[b].state \in {"proposed", "active"} /\ ~Started(b)
          BY <1>2, <4>1, <4>4 DEF Activate, Started
        <5> QED BY <4>3, <5>1
      <4>5. CASE Transition(c)
        <5>1. w.next # "completed"
          BY <4>1, <4>5 DEF Transition, Does, Asks, Requested
        <5>2. CASE Authority(a)
          BY <1>2, <4>1, <4>2, <4>5, <5>1, <5>2 DEF Transition, Advance, Authority
        <5>3. CASE ~Authority(a)
          BY <4>5, <5>3 DEF Transition
        <5> QED BY <5>2, <5>3
      <4>6. CASE Retire(c)
        <5>1. Retired(w) # "completed"
          BY <4>1, <4>6 DEF Retire, Does, Asks, Retired
        <5>2. CASE Authority(a)
          BY <1>2, <4>1, <4>2, <4>6, <5>1, <5>2 DEF Retire, Advance, Authority
        <5>3. CASE ~Authority(a)
          BY <4>6, <5>3 DEF Retire
        <5> QED BY <5>2, <5>3
      <4> QED BY <3>1, <4>4, <4>5, <4>6
    <3> QED BY <1>4, <3>1, Frames
  <2> QED BY <1>1, <2>1, <2>2, <2>3, <2>4, <2>5 DEF AcceptedWhole
<1> QED BY <1>3, <1>4

LEMMA UnavailableStep ==
    ASSUME IInv, [Next]_vars
    PROVE  UnavailableOrAccepted'
<1>1. run = "failed" => segment.accepted = 0
  BY DEF IInv, UnavailableOrAccepted
<1>2. \/ segment'.accepted = segment.accepted
      \/ run = "active" /\ \E c \in Callers : Accept(c)
  BY Frames, AcceptEffect DEF Activate, Transition, Retire, IInv, TypeOK
<1>3. \/ run' = run
      \/ UNCHANGED segment /\ run' = "fenced"
      \/ UNCHANGED segment /\ segment.accepted = 0
  BY Frames DEF FenceRun, RecordUnavailable, Unavailable
<1>4. (\E c \in Callers : Accept(c)) => run' = run
  BY DEF Accept
<1> QED BY <1>1, <1>2, <1>3, <1>4 DEF UnavailableOrAccepted

LEMMA Initially == Init => IInv
<1> SUFFICES ASSUME Init PROVE IInv
  OBVIOUS
<1>1. TypeOK
  BY IdleType, EvidenceAssumption
  DEF Init, TypeOK, AttemptStates, PromotionStates, Attempts
<1>2. AcceptedWhole /\ UnavailableOrAccepted /\ Pointed /\ Stored
  BY DEF Init, AcceptedWhole, UnavailableOrAccepted, Pointed, Stored, Attempts
<1>3. InTurn
  BY DEF Init, InTurn, Attempts
<1>4. Sound
  BY DEF Init, Sound, Idle, Job, Asks, Snapshot, Handles, Publishing
<1> QED BY <1>1, <1>2, <1>3, <1>4 DEF IInv

LEMMA Inductive ==
    ASSUME IInv, [Next]_vars
    PROVE  IInv'
BY TypeStep, AcceptedStep, UnavailableStep, PointedStep, InTurnStep, StoredStep, SoundStep
DEF IInv

(* The invariant holds in every state that can be reached.                 *)
THEOREM EvidenceInvariant == Spec => []IInv
<1>1. IInv /\ [Next]_vars => IInv'
  BY Inductive
<1> QED BY <1>1, Initially, PTL DEF Spec

(* The rows and what callers remember are well typed, for any number of    *)
(* callers, leases, refreshed rows and repeated claims.                    *)
THEOREM EvidenceTyped == Spec => []TypeOK
BY EvidenceInvariant, PTL DEF IInv

(* Acceptance is all or nothing, although only one of the five statements  *)
(* of its batch repeats the conditions.                                    *)
THEOREM AcceptanceIsWhole == Spec => []AcceptedWhole
BY EvidenceInvariant, PTL DEF IInv

(* A run declared unavailable has no evidence for its last segment.        *)
THEOREM NeverBoth == Spec => []UnavailableOrAccepted
BY EvidenceInvariant, PTL DEF IInv

(* The decision on a segment is whole: the statements of an acceptance     *)
(* take effect together, and never for a run declared unavailable.         *)
THEOREM WholeDecision == Spec => []DecisionIsWhole
BY AcceptanceIsWhole, NeverBoth, PTL DEF DecisionIsWhole

-----------------------------------------------------------------------------
(***************************************************************************)
(* What no step of a tracking segment may do, and what its readers see,    *)
(* from the invariant above.                                               *)
(***************************************************************************)

(* What cleanup has claimed is never published again.                      *)
THEOREM ClaimsAreFinal == Spec => TombstonesStay
<1>1. IInv /\ [Next]_vars =>
         [\A a \in Attempts : promotions[a].state \in {"deleting", "deleted"} =>
             promotions'[a].state \in {"deleting", "deleted"}]_vars
  BY PromotionMoves DEF Tombstone
<1> QED BY <1>1, EvidenceInvariant, PTL DEF TombstonesStay, Spec

-----------------------------------------------------------------------------
LEMMA QuietStep ==
    ASSUME IInv, [Next]_vars, run # "active"
    PROVE  /\ segment'.accepted = segment.accepted
           /\ segment'.current \in {0, segment.current}
           /\ \A a \in Attempts :
                 /\ attempts[a].state # "none" =>
                       \/ attempts'[a] = attempts[a]
                       \/ a = segment.accepted /\ attempts'[a].state = "completed"
                 /\ attempts[a].state = "none" =>
                       attempts'[a].state \in {"none", "proposed"}
                 /\ transfers'[a] = "granted" => transfers[a] = "granted"
<1>1. /\ segment \in [current : Attempts \cup {0}, accepted : Attempts \cup {0},
                      version : Nat]
      /\ attempts \in [Attempts -> [state : AttemptStates, version : Nat]]
      /\ transfers \in [Attempts -> {"none", "required", "granted", "completed"}]
  BY DEF IInv, TypeOK
<1>2. \A a : ~Authority(a)
  BY DEF Authority
<1>3. ASSUME NEW c \in Callers, Accept(c)
      PROVE  /\ UNCHANGED <<segment, transfers>>
             /\ \A a \in Attempts :
                   \/ attempts'[a] = attempts[a]
                   \/ /\ a = segment.accepted /\ attempts[a].state # "none"
                      /\ attempts'[a].state = "completed"
  <2>1. /\ UNCHANGED <<segment, transfers>>
        /\ \/ attempts' = attempts
           \/ /\ work[c].attempt = segment.accepted
              /\ attempts[work[c].attempt].state = "output-ready"
              /\ attempts' = [attempts EXCEPT ![work[c].attempt] = Advance(@, "completed")]
    BY <1>3, AcceptEffect
  <2> QED BY <1>1, <2>1 DEF Advance
<1>4. ASSUME NEW c \in Callers, Activate(c)
      PROVE  /\ UNCHANGED segment
             /\ \A a \in Attempts :
                   \/ attempts'[a] = attempts[a]
                   \/ attempts[a].state = "none" /\ attempts'[a].state = "proposed"
  <2> DEFINE b == work[c].attempt
  <2>1. b \in Attempts /\ b # 0
    BY <1>4, Working DEF Activate, Does
  <2>2. segment' = segment
    BY <1>4 DEF Activate, Wins
  <2>3. segment.current = b => attempts[b].state \notin {"none", "proposed"}
    BY <2>1 DEF IInv, Pointed, Started
  <2>4. \/ attempts'[b] = attempts[b]
        \/ attempts[b].state = "none" /\ attempts'[b].state = "proposed"
    BY <1>1, <1>4, <2>1, <2>2, <2>3 DEF Activate
  <2>5. \A a \in Attempts \ {b} : attempts'[a] = attempts[a]
    BY <1>4 DEF Activate
  <2> QED BY <2>2, <2>4, <2>5
<1>5. ASSUME NEW c \in Callers, Transition(c) \/ Retire(c)
      PROVE  /\ UNCHANGED attempts
             /\ segment'.accepted = segment.accepted
             /\ segment'.current \in {0, segment.current}
  BY <1>1, <1>2, <1>5 DEF Transition, Retire
<1>6. ASSUME NEW c \in Callers, RecordRequest(c) \/ Grant(c), NEW a \in Attempts
      PROVE  transfers'[a] = "granted" => transfers[a] = "granted"
  BY <1>1, <1>2, <1>6 DEF RecordRequest, Grant
<1>7. \A a \in Attempts : transfers'[a] = "granted" => transfers[a] = "granted"
  BY <1>3, <1>6, Frames
<1>8. CASE UNCHANGED <<segment, attempts>>
  BY <1>1, <1>7, <1>8
<1>9. CASE \E c \in Callers : Activate(c)
  BY <1>1, <1>4, <1>7, <1>9
<1>10. CASE \E c \in Callers : Accept(c)
  BY <1>1, <1>3, <1>7, <1>10
<1>11. CASE \E c \in Callers : Transition(c) \/ Retire(c)
  BY <1>1, <1>5, <1>7, <1>11
<1> QED BY <1>8, <1>9, <1>10, <1>11, Frames

(* Callers still under way after the end of the run decide nothing.        *)
THEOREM LateWritersAreQuiet == Spec => EndedRunIsQuiet
<1>1. IInv /\ [Next]_vars =>
         [run # "active" =>
            /\ segment'.accepted = segment.accepted
            /\ segment'.current \in {0, segment.current}
            /\ \A a \in Attempts :
                  /\ attempts[a].state # "none" =>
                        \/ attempts'[a] = attempts[a]
                        \/ a = segment.accepted /\ attempts'[a].state = "completed"
                  /\ attempts[a].state = "none" =>
                        attempts'[a].state \in {"none", "proposed"}
                  /\ transfers'[a] = "granted" => transfers[a] = "granted"]_vars
  BY QuietStep
<1> QED BY <1>1, EvidenceInvariant, PTL DEF EndedRunIsQuiet, Spec

-----------------------------------------------------------------------------
LEMMA FenceStep ==
    ASSUME IInv, [Next]_vars, segment'.current \notin {0, segment.current},
           NEW a \in Attempts, Started(a)
    PROVE  a < segment'.current
<1>0. PICK b : b = segment'.current
  OBVIOUS
<1>1. leases \in Nat /\ Attempts \subseteq Nat
  BY DEF IInv, TypeOK, Attempts
<1>2. b \in Attempts /\ ~Started(b)
  BY <1>0, SegmentMoves
<1>3. PICK c \in Callers : Activate(c) /\ b = work[c].attempt
  <2>1. segment \in [current : Attempts \cup {0}, accepted : Attempts \cup {0},
                     version : Nat]
    BY DEF IInv, TypeOK
  <2>2. ASSUME NEW c \in Callers, Transition(c)
        PROVE  FALSE
    BY <2>2 DEF Transition
  <2>3. ASSUME NEW c \in Callers, Retire(c)
        PROVE  FALSE
    BY <2>1, <2>3 DEF Retire
  <2>4. ASSUME NEW c \in Callers, Accept(c)
        PROVE  FALSE
    BY <2>1, <2>4, AcceptEffect
  <2>5. PICK c \in Callers : Activate(c)
    BY <2>2, <2>3, <2>4, Frames
  <2> QED BY <1>0, <2>1, <2>5 DEF Activate
<1>4. b \in 1..leases
  BY <1>3, Working DEF Activate, Does
<1>5. ~(b < leases)
  BY <1>2 DEF IInv, InTurn
<1>6. a <= leases
  BY <1>1 DEF IInv, InTurn, Started
<1>7. a # b
  BY <1>2
<1> QED BY <1>0, <1>1, <1>2, <1>4, <1>5, <1>6, <1>7

(* A segment never returns to an older lease.                              *)
THEOREM FencesGrow == Spec => FencesOnlyGrow
<1>1. IInv /\ [Next]_vars =>
         [segment'.current \notin {0, segment.current} =>
             \A a \in Attempts :
                attempts[a].state \notin {"none", "proposed"} => a < segment'.current]_vars
  BY FenceStep DEF Started
<1> QED BY <1>1, EvidenceInvariant, PTL DEF FencesOnlyGrow, Spec

-----------------------------------------------------------------------------
LEMMA EndingStep ==
    ASSUME IInv, [Next]_vars, NEW a \in Attempts, attempts[a].state \in Final
    PROVE  \/ attempts'[a] = attempts[a]
           \/ attempts[a].state = "failed" /\ attempts'[a].state = "failed"
<1> DEFINE Goal == \/ attempts'[a] = attempts[a]
                   \/ attempts[a].state = "failed" /\ attempts'[a].state = "failed"
<1>1. /\ attempts \in [Attempts -> [state : AttemptStates, version : Nat]]
      /\ attempts[a].state \notin Mutable \cup {"none", "proposed"}
  BY DEF IInv, TypeOK, Final, Mutable
<1>2. ASSUME NEW c \in Callers, Activate(c)
      PROVE  Goal
  BY <1>1, <1>2 DEF Activate
<1>3. ASSUME NEW c \in Callers, Transition(c)
      PROVE  Goal
  <2>1. Asks(work[c]) /\ work[c].state \in Mutable
    BY <1>3, Working DEF Transition, Does, Asks
  <2>2. CASE work[c].attempt = a
    BY <1>1, <1>3, <2>1, <2>2 DEF Transition, Unchanged
  <2>3. CASE work[c].attempt # a
    BY <1>1, <1>3, <2>3 DEF Transition
  <2> QED BY <2>2, <2>3
<1>4. ASSUME NEW c \in Callers, Retire(c)
      PROVE  Goal
  <2>1. work[c].state \in Mutable \cup {"failed"}
    BY <1>4, Working DEF Retire, Does, Asks
  <2>2. CASE work[c].attempt = a /\ Unchanged(work[c])
    <3>1. work[c].state = "failed" /\ attempts[a].state = "failed"
      BY <1>1, <2>1, <2>2 DEF Unchanged
    <3> QED BY <1>1, <1>4, <2>2, <3>1 DEF Retire, Advance, Retired
  <2>3. CASE ~(work[c].attempt = a /\ Unchanged(work[c]))
    BY <1>1, <1>4, <2>3 DEF Retire
  <2> QED BY <2>2, <2>3
<1>5. ASSUME NEW c \in Callers, Accept(c)
      PROVE  Goal
  <2>1. \/ attempts' = attempts
        \/ /\ attempts[work[c].attempt].state = "output-ready"
           /\ attempts' = [attempts EXCEPT ![work[c].attempt] = Advance(@, "completed")]
    BY <1>5, AcceptEffect
  <2> QED BY <1>1, <2>1 DEF Mutable
<1> QED BY <1>2, <1>3, <1>4, <1>5, Frames

(* No later write rewrites how an attempt ended.                           *)
THEOREM EndsAreFinal == Spec => AttemptsEndOnce
<1>1. IInv /\ [Next]_vars =>
         [\A a \in Attempts :
             attempts[a].state \in Final => attempts'[a] = attempts[a]
                \/ (attempts[a].state = "failed" /\ attempts'[a].state = "failed")]_vars
  BY EndingStep
<1> QED BY <1>1, EvidenceInvariant, PTL DEF AttemptsEndOnce, Spec

-----------------------------------------------------------------------------
(* What a reader can read: the parameter of the register.                  *)
Evidence == IF Readable THEN segment.accepted ELSE 0

(* What is accepted can be read.                                           *)
LEMMA AcceptedIsReadable == IInv => Evidence = segment.accepted
<1> SUFFICES ASSUME IInv PROVE Evidence = segment.accepted
  OBVIOUS
<1>1. CASE segment.accepted = 0
  BY <1>1 DEF Evidence
<1>2. CASE segment.accepted # 0
  <2>1. segment.accepted \in Attempts
    BY <1>2 DEF IInv, TypeOK
  <2>2. segment.accepted \in artifacts
    BY <1>2 DEF IInv, AcceptedWhole
  <2>3. segment.accepted \in objects
    BY <2>1 DEF IInv, AcceptedWhole, Stored
  <2> QED BY <2>2, <2>3 DEF Evidence, Readable
<1> QED BY <1>1, <1>2

LEMMA RegisterStep ==
    ASSUME IInv, IInv', [Next]_vars
    PROVE  [Register!Write \/ Register!Close]_<<run = "active", Evidence>>
<1>1. Evidence = segment.accepted /\ Evidence' = segment'.accepted
  <2>1. (IInv => Evidence = segment.accepted)'
    BY AcceptedIsReadable, PTL
  <2> QED BY <2>1, AcceptedIsReadable
<1>2. ASSUME NEW c \in Callers, Accept(c)
      PROVE  \/ UNCHANGED <<run, Evidence>>
             \/ /\ run = "active" /\ run' = run /\ Evidence = 0 /\ Evidence' \in Attempts
  <2>1. run' = run
    BY <1>2 DEF Accept
  <2>2. work[c].attempt \in Attempts
    BY <1>2, Working DEF Accept, Does
  <2>3. \/ segment' = segment
        \/ /\ run = "active" /\ segment.accepted = 0
           /\ segment'.accepted = work[c].attempt
    BY <1>2, AcceptEffect
  <2> QED BY <1>1, <2>1, <2>2, <2>3
<1>3. ASSUME NEW c \in Callers, Activate(c) \/ Transition(c) \/ Retire(c)
      PROVE  UNCHANGED <<run, Evidence>>
  <2>1. run' = run
    BY <1>3 DEF Activate, Transition, Retire
  <2>2. segment'.accepted = segment.accepted
    BY <1>3 DEF Activate, Transition, Retire, IInv, TypeOK
  <2> QED BY <1>1, <2>1, <2>2
<1>4. CASE UNCHANGED segment
  <2>1. \/ run' = run
        \/ run = "active" /\ run' # "active"
    BY Frames DEF FenceRun, RecordUnavailable
  <2>2. UNCHANGED Evidence
    BY <1>1, <1>4
  <2> QED BY <2>1, <2>2 DEF Register!Close, Evidence
<1>5. CASE \/ UNCHANGED <<run, Evidence>>
           \/ /\ run = "active" /\ run' = run /\ Evidence = 0 /\ Evidence' \in Attempts
  BY <1>5 DEF Register!Write, Evidence
<1> QED BY <1>2, <1>3, <1>4, <1>5, Frames

(* Readers of the evidence see a register that is written once, while the  *)
(* run is active, and is never taken away.                                 *)
THEOREM ReadersSeeARegister == Spec => RegisterSpec
<1>1. Init => Register!RegisterInit
  BY DEF Init, Register!RegisterInit, Readable
<1>2. IInv /\ IInv' /\ [Next]_vars => [Register!Write \/ Register!Close]_<<run = "active", Evidence>>
  BY RegisterStep
<1> QED BY <1>1, <1>2, EvidenceInvariant, PTL
        DEF RegisterSpec, Register!RegisterSpec, Register!registerVars, Spec, Evidence

(* Nothing comes back: neither what cleanup claimed, nor an attempt that   *)
(* ended, nor an older lease of a segment.                                 *)
THEOREM NothingReturns == Spec => NothingComesBack
BY ClaimsAreFinal, EndsAreFinal, FencesGrow DEF NothingComesBack
=============================================================================
