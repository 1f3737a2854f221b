----------------------------- MODULE VoiceUpdates -----------------------------
(* One voice note about the car (src/src/routes/voice): captured, processed    *)
(* into a draft, corrected, and confirmed into a setup snapshot and notes of a *)
(* drive session; together with everything else that writes the car's setups.  *)
EXTENDS SetupHistory

CONSTANTS Note,       \* the note; its setup, session and results are named after it
          MaxCalls    \* calls under way together

VARIABLES voice,      \* the row of the note
          results,    \* the draft that was saved from it, or None
          calls       \* call -> what it has read

voiceVars == <<voice, results, calls>>
vars == <<setupVars, voiceVars>>

(* What a draft would save: a setup and perhaps more, other rows only, or      *)
(* nothing at all, for every list of a draft may be empty.                     *)
Contents == {"setup", "notes", "nothing"}

Draft(i, saves) == [of |-> i, saves |-> saves]

(* The note was captured and processed once before we begin to look.           *)
ReviewedDraft == Draft(0, "setup")

Resting == [kind |-> "none", step |-> "idle"]

IdleCall(k) == calls[k].step = "idle"

Ended(k) == calls' = [calls EXCEPT ![k] = Resting]

Begun(k, call) ==
    /\ IdleCall(k) /\ \A j \in 1..(k - 1) : ~IdleCall(j)
    /\ Begin
    /\ calls' = [calls EXCEPT ![k] = call]
    /\ UNCHANGED <<car, setups, draft, asked, command, receipt, try, effects,
                   voice, results>>

OnlyCalls == UNCHANGED <<setupVars, voice, results>>

Calls == 1..MaxCalls

Closed == {"saved", "discarded"}

ASSUME VoiceAssumption ==
    /\ Note \notin Ids \cup {None} /\ MaxCalls \in Nat
    /\ \A i \in 0..MaxBegun, saves \in Contents : Draft(i, saves) # None

------------------------------------------------------------------------------
(* What a call reads first, and which states of the note it refuses.           *)
Allows(kind) ==
    CASE kind = "process" -> voice.status \notin Closed \cup {"processing"}
      [] kind \in {"correct", "confirm"} -> voice.status = "needs-review"
      [] kind = "edit" -> voice.status \notin Closed
      [] kind = "discard" -> TRUE

(* What of the row the call uses later.                                        *)
Seen(kind) ==
    CASE kind \in {"process", "correct"} -> None
      [] kind \in {"confirm", "edit"} -> voice.draft
      [] kind = "discard" -> voice.status

BeginCall(k) ==
    \E kind \in {"process", "correct", "edit", "confirm", "discard"} :
        /\ Allows(kind)
        /\ Begun(k, [kind |-> kind, step |-> "car", of |-> begun + 1, saw |-> Seen(kind),
                     car |-> None, fields |-> None])

(* The car must be active. A confirmation with setup changes goes on to read   *)
(* the setup it copies (latestSetup): as its batch repeats what it has seen of  *)
(* the selection, with its version, it may as well read both at once.          *)
ReadCarOf(k) ==
    LET copies == calls[k].kind = "confirm" /\ calls[k].saw.saves = "setup"
    IN  /\ calls[k].step = "car"
        /\ \/ car.archived /\ Ended(k)
           \/ /\ ~car.archived
              /\ calls' = [calls EXCEPT ![k].step = "write",
                                        ![k].car = IF copies THEN Selection ELSE None,
                                        ![k].fields = IF copies THEN setups[car.current].fields
                                                      ELSE None]
        /\ OnlyCalls

Writes(k, kind) == calls[k].step = "write" /\ calls[k].kind = kind

NewDrafts(k) == {Draft(calls[k].of, saves) : saves \in Contents}

(* The status is overwritten, whatever it is by now.                           *)
StartProcessing(k) ==
    /\ Writes(k, "process")
    /\ voice' = [voice EXCEPT !.status = "processing"]
    /\ calls' = [calls EXCEPT ![k].step = "listen"]
    /\ UNCHANGED <<setupVars, results>>

FinishProcessing(k) ==
    /\ calls[k].step = "listen"
    /\ \/ voice' = [voice EXCEPT !.status = "failed"]
       \/ \E d \in NewDrafts(k) : voice' = [status |-> "needs-review", draft |-> d]
    /\ Ended(k)
    /\ UNCHANGED <<setupVars, results>>

(* A correction writes the draft and not the status, or fails.                 *)
Correct(k) ==
    /\ Writes(k, "correct")
    /\ \E d \in NewDrafts(k) \cup {voice.draft} : voice' = [voice EXCEPT !.draft = d]
    /\ Ended(k)
    /\ UNCHANGED <<setupVars, results>>

(* An edit without a draft writes back the one it has read.                    *)
Edit(k) ==
    /\ Writes(k, "edit")
    /\ \E d \in NewDrafts(k) \cup {calls[k].saw} : voice' = [voice EXCEPT !.draft = d]
    /\ Ended(k)
    /\ UNCHANGED <<setupVars, results>>

Discard(k) ==
    /\ Writes(k, "discard")
    /\ voice' = [voice EXCEPT !.status = IF calls[k].saw = "saved" THEN "saved"
                                         ELSE "discarded"]
    /\ Ended(k)
    /\ UNCHANGED <<setupVars, results>>

(* Faulty: the names of the results are drawn anew.                            *)
AlwaysNew(d) == TRUE

(* Whatever a draft saves, it is listed in rows named after the note and       *)
(* numbered from 0, which can be inserted once. An empty draft inserts none.   *)
NamesAreFree(d) == d.saves = "nothing" \/ results = None

(* The batch of a confirmation. It inserts the setup under the witness and the *)
(* results, selects the setup, and closes the note only if the selection is    *)
(* the one it just made; otherwise a column that may not be null fails it all. *)
(* For an empty draft only the note is closed.                                 *)
Confirm(k) ==
    LET d == calls[k].saw
        committed == NamesAreFree(d) /\ (d.saves = "setup" => Witness(calls[k].car))
    IN  /\ Writes(k, "confirm")
        /\ \/ /\ committed
              /\ IF d.saves = "setup"
                 THEN Insert(Note, Row(calls[k].fields, None), TRUE, calls[k].car)
                 ELSE UNCHANGED <<setups, car>>
              /\ results' = IF d.saves = "nothing" THEN results ELSE d
              /\ voice' = [voice EXCEPT !.status = "saved"]
           \/ ~committed /\ UNCHANGED <<setups, car, results, voice>>
        /\ Ended(k)
        /\ UNCHANGED <<draft, asked, command, receipt, try, effects, begun>>

VoiceStep(k) ==
    \/ BeginCall(k) \/ ReadCarOf(k)
    \/ StartProcessing(k) \/ FinishProcessing(k) \/ Correct(k) \/ Edit(k)
    \/ Discard(k) \/ Confirm(k)

------------------------------------------------------------------------------
Init ==
    /\ SetupInit
    /\ voice = [status |-> "needs-review", draft |-> ReviewedDraft]
    /\ results = None
    /\ calls = [k \in Calls |-> Resting]

Next ==
    \/ SetupNext /\ UNCHANGED voiceVars
    \/ \E k \in Calls : VoiceStep(k)

Spec == Init /\ [][Next]_vars /\ SetupFairness

------------------------------------------------------------------------------
(* The rows and what the executions have read.                                 *)
TypeOK ==
    /\ SetupTypeOK
    /\ DOMAIN setups \subseteq Ids \cup {Note}
    /\ voice.status \in {"processing", "needs-review", "saved", "failed", "discarded"}

MakesCurrent(i) ==
    IF i \in Requests THEN asked[i].makeCurrent
    ELSE IF i \in Commands THEN command[i].makeCurrent ELSE TRUE

(* What the author of a step saw of the selection, or that it did not look.    *)
SawSelection ==
    \/ \E r \in Requests :
          /\ asked'[r] # asked[r]
          /\ \/ asked[r].car = Selection
             \/ asked[r].kind = "copyOf" /\ ~asked[r].guarded
    \/ \E c \in Commands : receipt'[c] # receipt[c] /\ command[c].base = Selection
    \/ \E k \in Calls : calls'[k] # calls[k] /\ calls[k].car = Selection

SawField(s, f) ==
    \/ \E r \in Requests : /\ asked'[r] # asked[r]
                           /\ asked[r].row.fields[f] = setups[s].fields[f]
    \/ \E c \in Commands : /\ receipt'[c] # receipt[c]
                           /\ command[c].baseValue = setups[s].fields[f]

(* ADR 0005: "one save creates one coherent copied setup snapshot, preserves   *)
(* the prior snapshot, and makes the new snapshot current only after a         *)
(* successful save". A new setup that was to be current is current at once; a  *)
(* guarded copy holds what its source holds now; the selection is replaced by  *)
(* an author who saw it (the copy without guard apart); and no field of an     *)
(* older snapshot changes but by a correction that saw its value.              *)
SavesAreCoherent ==
    [][/\ \A i \in DOMAIN setups' \ DOMAIN setups :
             MakesCurrent(i) => car'.current = i /\ car'.version = car.version + 1
       /\ \A r \in Requests \cap (DOMAIN setups' \ DOMAIN setups) :
             asked[r].guarded => setups'[r].fields = setups[asked[r].setup].fields
       /\ Selection' # Selection => SawSelection
       /\ \A s \in DOMAIN setups : /\ s \in DOMAIN setups'
                                   /\ \A f \in Fields :
                                         setups'[s].fields[f] # setups[s].fields[f]
                                            => SawField(s, f)]_vars

(* The calls that end in this step and may have marked the note as saved: a    *)
(* confirmation whose draft is what is saved of the note, or had nothing to    *)
(* save, and a discard that had read the mark before a late result took it.    *)
MaySave(k) ==
    /\ calls'[k] # calls[k]
    /\ \/ calls[k].kind = "confirm" /\ (calls[k].saw.saves = "nothing" \/ results' = calls[k].saw)
       \/ calls[k].kind = "discard" /\ calls[k].saw = "saved"

(* What a note saves it saves once: its setup and its results come from one    *)
(* confirmation of one draft and are never added to or replaced, whatever      *)
(* processing, corrections and other confirmations are under way, and even     *)
(* after a late one reopened it. And the mark is no promise that nobody kept:  *)
(* a note is marked saved only by a confirmation whose draft is what was saved *)
(* or had nothing to save, or by a discard that puts back the mark it had read.*)
VoiceIsSavedOnce ==
    [][/\ results # None => results' = results
       /\ voice'.status = "saved" /\ voice.status # "saved" => \E k \in Calls : MaySave(k)
       /\ (Note \in DOMAIN setups') <=> (results' # None /\ results'.saves = "setup")]_vars
===============================================================================
