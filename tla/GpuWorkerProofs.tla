---------------------------- MODULE GpuWorkerProofs ----------------------------
(***************************************************************************)
(* Theorems about the job manager of the GPU worker, for any number of     *)
(* jobs and threads, with threads that die of errors, and with both gaps   *)
(* open: nothing is assumed of who comes when.                             *)
(*                                                                         *)
(* Whatever comes into the gaps, the state is well formed and a job that   *)
(* was told to stop is not taken up again (Basics). As long as nobody has  *)
(* come into one, the threads and the journal agree (Ordered).             *)
(***************************************************************************)
EXTENDS GpuWorkerJobs, TLAPS

(* There is a job wherever somebody works on one, and one that offers its  *)
(* output asks for the upload.                                             *)
NamesInv ==
    /\ journal.state = "output-ready" => journal.request = "observation-artifact"
    /\ journal.state # "none" => journal.job \in Jobs
    /\ tasks # {} \/ cleaning # "no" => journal.state # "none"
    /\ cleaning = "copied" => copy.state # "none" /\ copy.job \in Jobs

StoppedStates == {"cancel-requested", "cancelled", "interrupted"}

StopInv ==
    /\ cancelled => journal.state \in StoppedStates
    /\ journal.state = "cancel-requested" => cancelled

Basics == TypeOK /\ NamesInv /\ StopInv

(* A thread at work keeps the GPU and, except in the gap between its last  *)
(* transfer and its execution, the running flag; the state of the job says *)
(* what it does, unless the job was cancelled or interrupted meanwhile.    *)
ThreadInv(t) ==
    /\ t.of = journal.job /\ t.job \in {0, journal.job}
    /\ physical_busy
    /\ t.step # "ended" => worker_running
    /\ IF t.step = "ended" THEN journal.state = "processing"
       ELSE journal.state \in {"cancel-requested", "interrupted",
               IF t.role = "execution" THEN "processing" ELSE "transferring"}
    /\ journal.state = "transferring" => journal.request = t.role
    /\ journal.state = "interrupted" => cancelled
    /\ t.step = "ended" \/ t.role = "execution" => Inputs \subseteq journal.completed

ThreadsInv ==
    /\ \A t, u \in tasks : t = u
    /\ \A t \in tasks : ThreadInv(t)

JournalInv ==
    /\ ~Terminal => physical_busy
    /\ journal.request = "frame-manifest" => "prepared-media" \in journal.completed
    /\ cleaning = "written" => Terminal /\ physical_busy /\ tasks = {}

Ordered == ThreadsInv /\ JournalInv

IInv == Basics /\ (disturbed \/ Ordered)

-----------------------------------------------------------------------------
(* What holds whatever comes into the gaps: Basics, one lemma for each of  *)
(* its three parts.                                                        *)

LEMMA Known ==
    /\ "none" \notin JobStates /\ "cancel-requested" \in JobStates
    /\ "transfer-grant-required" \in JobStates /\ "transferring" \in JobStates
    /\ "processing" \in JobStates /\ "output-ready" \in JobStates
    /\ "completed" \in JobStates /\ "failed" \in JobStates
    /\ "cancelled" \in JobStates /\ "interrupted" \in JobStates
    /\ \A s \in StoppedStates : s \in JobStates /\ s # "none"
    /\ "none" \in Roles \cup {"none"} /\ "prepared-media" \in Roles
    /\ "frame-manifest" \in Roles /\ "observation-artifact" \in Roles
    /\ NoJournal \in Journal /\ NoJournal.state = "none" /\ NoJournal.request = "none"
  BY DEF JobStates, TERMINAL_STATES, StoppedStates, Roles, NoJournal, Journal

(* The three ways in which a completed transfer changes the journal.       *)
LEMMA TransferredIs ==
    ASSUME NEW j \in Journal, NEW role \in Roles, NEW k, k = Transferred(j, role)
    PROVE  /\ k \in Journal /\ k.job = j.job /\ k.completed = j.completed \cup {role}
           /\ role = "prepared-media" =>
                 k.state = "transfer-grant-required" /\ k.request = "frame-manifest"
           /\ role = "frame-manifest" => k.state = "processing" /\ k.request = "none"
           /\ role = "observation-artifact" => k.state = "completed" /\ k.request = "none"
<1>0. j.completed \cup {role} \in SUBSET Roles
  BY DEF Journal
<1>1. CASE role = "prepared-media"
  <2>1. k = [j EXCEPT !.state = "transfer-grant-required", !.request = "frame-manifest",
                      !.completed = @ \cup {role}]
    BY <1>1 DEF Transferred
  <2> QED BY <1>1, <2>1, <1>0, Known DEF Journal
<1>2. CASE role = "frame-manifest"
  <2>1. k = [j EXCEPT !.state = "processing", !.request = "none",
                      !.completed = @ \cup {role}]
    BY <1>2 DEF Transferred
  <2> QED BY <1>2, <2>1, <1>0, Known DEF Journal
<1>3. CASE role = "observation-artifact"
  <2>1. k = [j EXCEPT !.state = "completed", !.request = "none",
                      !.completed = @ \cup {role}]
    BY <1>3 DEF Transferred
  <2> QED BY <1>3, <2>1, <1>0, Known DEF Journal
<1> QED BY <1>1, <1>2, <1>3 DEF Roles

(* What the end of a job without output leaves behind.                     *)
LEMMA Finished ==
    ASSUME TypeOK, Finish
    PROVE  /\ journal' \in Journal /\ journal'.job = journal.job
           /\ journal'.state = IF journal.state = "interrupted" THEN "interrupted"
                               ELSE "cancelled"
           /\ journal'.request = "none" /\ journal'.completed = journal.completed
           /\ worker_running' = FALSE /\ physical_busy' = FALSE
<1> DEFINE s == FinalState(journal.state)
<1>1. s = (IF journal.state = "interrupted" THEN "interrupted" ELSE "cancelled")
      /\ s \in JobStates
  BY DEF FinalState, JobStates, TERMINAL_STATES
<1>2. journal' = [journal EXCEPT !.state = s, !.request = "none"] /\ journal \in Journal
  BY DEF Finish, TypeOK
<1> HIDE DEF s
<1> QED BY <1>1, <1>2, Known DEF Finish, Journal

LEMMA InterruptedIs ==
    ASSUME NEW j \in Journal
    PROVE  /\ Interrupted(j) \in Journal /\ Interrupted(j).job = j.job
           /\ Interrupted(j).state = "interrupted" /\ Interrupted(j).request = "none"
  BY Known DEF Interrupted, Journal

LEMMA InitBasics == Init => Basics
<1> SUFFICES ASSUME Init PROVE Basics
  OBVIOUS
<1>1. TypeOK
  BY Known DEF Init, TypeOK
<1>2. NamesInv /\ StopInv
  BY Known DEF Init, NamesInv, StopInv, StoppedStates
<1> QED BY <1>1, <1>2 DEF Basics

(* A request, the watchdog, or the cleanup.                                *)
LEMMA ControlBasics ==
    ASSUME Basics, submit \/ deliver_grant \/ cancel \/ expire_stale
    PROVE  Basics'
<1> USE DEF Basics
<1>0. journal \in Journal /\ copy \in Journal /\ tasks \subseteq Task /\ UNCHANGED clean
  BY DEF TypeOK, submit, deliver_grant, cancel, expire_stale
<1>1. CASE submit
  <2>1. journal.job + 1 \in Jobs
    BY <1>0, <1>1, WorkerAssumption DEF submit, Journal, Jobs
  <2>2. journal' = Submitted(journal.job + 1)
    BY <1>1 DEF submit
  <2>3. /\ journal' \in Journal /\ journal'.job \in Jobs
        /\ journal'.state = "transfer-grant-required"
    BY <2>1, <2>2 DEF Submitted, Journal, JobStates, Roles
  <2>4. /\ cancelled' = FALSE /\ disturbed' \in BOOLEAN /\ UNCHANGED <<worker_running, tasks>>
        /\ {physical_busy', stale', aged'} \subseteq BOOLEAN
    BY <1>1 DEF submit, TypeOK
  <2>5. TypeOK'
    BY <1>0, <2>3, <2>4 DEF TypeOK, clean
  <2>6. NamesInv' /\ StopInv'
    BY <1>0, <2>3, <2>4 DEF NamesInv, StopInv, clean
  <2> QED BY <2>5, <2>6
<1>2. CASE deliver_grant
  <2>1. journal' = [journal EXCEPT !.state = "transferring"]
    BY <1>2 DEF deliver_grant
  <2>2. /\ journal' \in Journal /\ journal'.job = journal.job
        /\ journal'.state = "transferring"
    BY <1>0, <2>1, Known DEF Journal
  <2>3. /\ journal.job \in Jobs /\ journal.request \in Roles /\ ~cancelled
        /\ worker_running' = TRUE /\ stale' = FALSE
        /\ UNCHANGED <<cancelled, physical_busy, aged, disturbed>>
    BY <1>0, <1>2 DEF deliver_grant, NamesInv, StopInv, StoppedStates, Journal
  <2>4. tasks' \subseteq Task
    <3>1. PICK n \in 1..MaxThreads :
             tasks' = tasks \cup {[id |-> n, of |-> journal.job, job |-> 0,
                                   role |-> journal.request, step |-> "begin"]}
      BY <1>2 DEF deliver_grant
    <3>2. [id |-> n, of |-> journal.job, job |-> 0, role |-> journal.request,
           step |-> "begin"] \in Task
      BY <2>3, <3>1 DEF Task
    <3> QED BY <1>0, <3>1, <3>2
  <2>5. TypeOK'
    BY <1>0, <2>2, <2>3, <2>4 DEF TypeOK, clean
  <2>6. NamesInv' /\ StopInv'
    BY <1>0, <2>2, <2>3 DEF NamesInv, StopInv, clean
  <2> QED BY <2>5, <2>6
<1>3. CASE cancel \/ expire_stale
  <2>1. journal.state # "none" /\ journal.job \in Jobs
    BY <1>3 DEF cancel, expire_stale, NamesInv, Terminal
  <2>2. PICK s \in StoppedStates :
           journal' = [journal EXCEPT !.state = s, !.request = "none"]
    BY <1>3 DEF cancel, expire_stale, Interrupted, StoppedStates
  <2>3. /\ journal' \in Journal /\ journal'.job = journal.job
        /\ journal'.state = s /\ journal'.request = "none"
    BY <1>0, <2>2, Known DEF Journal
  <2>4. /\ cancelled' = TRUE /\ disturbed' \in BOOLEAN /\ UNCHANGED <<worker_running, tasks, aged>>
        /\ {physical_busy', stale'} \subseteq BOOLEAN
    BY <1>3 DEF cancel, expire_stale, StillBusy, TypeOK
  <2>5. TypeOK'
    BY <1>0, <2>3, <2>4 DEF TypeOK, clean
  <2>6. NamesInv' /\ StopInv'
    BY <1>0, <2>1, <2>2, <2>3, <2>4, Known DEF NamesInv, StopInv, StoppedStates, clean
  <2> QED BY <2>5, <2>6
<1> QED BY <1>1, <1>2, <1>3

LEMMA CleanupBasics == ASSUME Basics, cleanup_begins \/ Cleanup PROVE Basics'
<1> USE DEF Basics
<1>0. journal \in Journal /\ copy \in Journal /\ tasks \subseteq Task
  BY DEF TypeOK
<1>1. CASE cleanup_begins
  BY <1>1 DEF cleanup_begins, TypeOK, NamesInv, StopInv
<1>2. CASE cleanup_reads
  BY <1>2 DEF cleanup_reads, TypeOK, NamesInv, StopInv
<1>3. CASE cleanup_interrupts
  <2>1. PICK k \in {journal, Interrupted(copy)} : journal' = k
    BY <1>3 DEF cleanup_interrupts
  <2>2. /\ k \in Journal /\ k.job \in Jobs /\ k.state # "none"
        /\ k = journal \/ (k.state = "interrupted" /\ k.request = "none")
    BY <1>0, <1>3, <2>1, InterruptedIs, Known DEF cleanup_interrupts, NamesInv
  <2>3. /\ copy' = NoJournal /\ cleaning' = "written"
        /\ UNCHANGED <<cancelled, worker_running, physical_busy, tasks, aged>>
        /\ {stale', disturbed'} \subseteq BOOLEAN
    BY <1>3 DEF cleanup_interrupts, TypeOK
  <2>4. TypeOK'
    BY <1>0, <2>1, <2>2, <2>3, Known DEF TypeOK
  <2>5. NamesInv' /\ StopInv'
    BY <2>1, <2>2, <2>3 DEF NamesInv, StopInv, StoppedStates
  <2> QED BY <2>4, <2>5
<1>4. CASE cleanup_frees
  BY <1>4 DEF cleanup_frees, TypeOK, NamesInv, StopInv
<1> QED BY <1>1, <1>2, <1>3, <1>4 DEF Cleanup

LEMMA ClockBasics == ASSUME Basics, touch \/ FallsSilent \/ OutputAges PROVE Basics'
<1>1. /\ UNCHANGED <<journal, cancelled, worker_running, physical_busy, tasks,
                    cleaning, copy, disturbed>>
      /\ {stale', aged'} \subseteq BOOLEAN
  BY DEF touch, FallsSilent, OutputAges, clean, Basics, TypeOK
<1> QED BY <1>1 DEF Basics, TypeOK, NamesInv, StopInv

LEMMA RestartBasics == ASSUME Basics, restart PROVE Basics'
<1> USE DEF Basics
<1>1. /\ tasks' = {} /\ cleaning' = "no" /\ copy' = NoJournal /\ worker_running' = FALSE
      /\ cancelled' = FALSE /\ disturbed' = FALSE /\ UNCHANGED <<stale, aged>>
      /\ physical_busy' \in BOOLEAN
  BY DEF restart
<1>2. PICK k \in {journal, Interrupted(journal)} : journal' = k
  BY DEF restart
<1>3. /\ k \in Journal /\ k.job = journal.job
      /\ k = journal \/ (k.state = "interrupted" /\ k.request = "none")
  BY <1>2, InterruptedIs DEF TypeOK
<1>4. k = journal => journal.state # "cancel-requested"
  <2> SUFFICES ASSUME k = journal, journal.state = "cancel-requested" PROVE FALSE
    OBVIOUS
  <2>1. journal' # Interrupted(journal) /\ ~Terminal
    BY <1>2, InterruptedIs DEF TypeOK, Terminal, TERMINAL_STATES
  <2> QED BY <2>1 DEF restart, Recoverable
<1>5. k # journal => ~Terminal
  BY <1>2 DEF restart
<1>6. TypeOK'
  BY <1>1, <1>2, <1>3, Known DEF TypeOK
<1>7. NamesInv' /\ StopInv'
  BY <1>1, <1>2, <1>3, <1>4, <1>5, Known DEF NamesInv, StopInv, Terminal
<1> QED BY <1>6, <1>7

(* A step of a thread changes the journal in one of these ways, and only   *)
(* to the last one if the job was told to stop.                            *)
LEMMA ThreadJournal ==
    ASSUME Basics, NEW t \in tasks, Thread(t) \/ transfer_dies(t)
    PROVE  /\ journal' \in Journal /\ journal'.job = journal.job /\ journal.state # "none"
           /\ journal'.state # "none"
           /\ journal'.state # "cancel-requested" \/ journal' = journal
           /\ journal'.request # "none" =>
                 journal'.state \in {"transfer-grant-required", "transferring", "output-ready"}
           /\ journal'.state = "output-ready" => journal'.request = "observation-artifact"
           /\ cancelled => journal' = journal \/ Finish
           /\ {worker_running', physical_busy'} \subseteq BOOLEAN
<1> USE DEF Basics
<1>0. journal \in Journal /\ t \in Task /\ journal.state # "none"
  BY DEF TypeOK, NamesInv
<1>1. CASE UNCHANGED <<journal, physical_busy>> /\ worker_running' \in BOOLEAN
  BY <1>0, <1>1 DEF TypeOK, NamesInv
<1>2. CASE Finish
  BY <1>0, <1>2, Finished, Known
<1>3. CASE transfer_ends(t) /\ ~TransferHalted
  <2>1. /\ journal' = Transferred(journal, t.role) /\ t.role \in Roles /\ ~cancelled
        /\ worker_running' = FALSE /\ physical_busy' \in BOOLEAN
    BY <1>3 DEF transfer_ends, TransferHalted
  <2>2. PICK k : k = Transferred(journal, t.role)
    OBVIOUS
  <2>3. /\ journal' \in Journal /\ journal'.job = journal.job
        /\ \/ journal'.state = "transfer-grant-required"
           \/ journal'.state = "processing" /\ journal'.request = "none"
           \/ journal'.state = "completed" /\ journal'.request = "none"
    <3>1. k \in Journal /\ k.job = journal.job
      BY <1>0, <2>1, <2>2, TransferredIs
    <3>2. \/ k.state = "transfer-grant-required"
          \/ k.state = "processing" /\ k.request = "none"
          \/ k.state = "completed" /\ k.request = "none"
      BY <1>0, <2>1, <2>2, TransferredIs DEF Roles
    <3> QED BY <2>1, <2>2, <3>1, <3>2
  <2> QED BY <1>0, <2>1, <2>3
<1>4. CASE transfer_fails(t) /\ ~cancelled
  <2>1. PICK s \in {"output-ready", "transfer-grant-required"} :
           /\ journal' = [journal EXCEPT !.state = s]
           /\ s = "output-ready" => journal.request = "observation-artifact"
    BY <1>4 DEF transfer_fails
  <2>2. worker_running' = FALSE /\ physical_busy' \in BOOLEAN
    BY <1>4 DEF transfer_fails, TypeOK
  <2> QED BY <1>0, <1>4, <2>1, <2>2, Known DEF TypeOK, Journal
<1>5. CASE execution_ends(t) /\ ~Finish
  <2>1. /\ journal' = [journal EXCEPT !.state = "output-ready",
                                      !.request = "observation-artifact",
                                      !.artifact = t.job]
        /\ ~cancelled /\ worker_running' = FALSE /\ physical_busy' \in BOOLEAN
    BY <1>5 DEF execution_ends, TypeOK
  <2>2. t.job \in Jobs \cup {0}
    BY <1>0 DEF Task
  <2>3. /\ journal' \in Journal /\ journal'.job = journal.job
        /\ journal'.state = "output-ready" /\ journal'.request = "observation-artifact"
    BY <1>0, <2>1, <2>2, Known DEF Journal
  <2> QED BY <1>0, <2>1, <2>3
<1>6. CASE execution_fails(t) /\ ~cancelled
  <2>1. /\ journal' = [journal EXCEPT !.state = "failed", !.request = "none"]
        /\ worker_running' = FALSE /\ physical_busy' = FALSE
    BY <1>6 DEF execution_fails
  <2> QED BY <1>0, <1>6, <2>1, Known DEF Journal
<1>7. \/ UNCHANGED <<journal, physical_busy>> /\ worker_running' \in BOOLEAN
      \/ Finish
      \/ transfer_ends(t) /\ ~TransferHalted
      \/ transfer_fails(t) /\ ~cancelled
      \/ execution_ends(t) /\ ~Finish
      \/ execution_fails(t) /\ ~cancelled
  BY DEF Thread, begin, start_execution, transfer_dies, transfer_ends, transfer_fails,
     execution_ends, execution_fails, TypeOK
<1> QED BY <1>1, <1>2, <1>3, <1>4, <1>5, <1>6, <1>7

(* It ends, goes on as another task, or both begin and go on are one.      *)
LEMMA ThreadTasks ==
    ASSUME Basics, NEW t \in tasks, Thread(t) \/ transfer_dies(t)
    PROVE  /\ tasks' \subseteq Task
           /\ UNCHANGED <<cancelled, stale, aged, clean, disturbed>>
<1> USE DEF Basics
<1>1. tasks \subseteq Task /\ t \in Task /\ journal.job \in Jobs \cup {0}
  BY DEF TypeOK, Journal
<1>2. /\ [t EXCEPT !.job = journal.job, !.step = "running"] \in Task
      /\ [t EXCEPT !.step = "ended"] \in Task
      /\ [t EXCEPT !.job = 0, !.role = "execution", !.step = "begin"] \in Task
  BY <1>1 DEF Task
<1>3. \/ tasks' = tasks \ {t}
      \/ tasks' = (tasks \ {t}) \cup {[t EXCEPT !.job = journal.job, !.step = "running"]}
      \/ tasks' = (tasks \ {t}) \cup {[t EXCEPT !.step = "ended"]}
      \/ tasks' = (tasks \ {t}) \cup
                     {[t EXCEPT !.job = 0, !.role = "execution", !.step = "begin"]}
  BY DEF Thread, transfer_dies, begin, transfer_ends, transfer_fails, start_execution,
     execution_ends, execution_fails
<1>4. UNCHANGED <<cancelled, stale, aged, clean, disturbed>>
  BY DEF Thread, transfer_dies, begin, transfer_ends, transfer_fails, start_execution,
     execution_ends, execution_fails
<1> QED BY <1>1, <1>2, <1>3, <1>4

LEMMA ThreadBasics ==
    ASSUME Basics, NEW t \in tasks, Thread(t) \/ transfer_dies(t) PROVE Basics'
<1> USE DEF Basics
<1>1. UNCHANGED <<cancelled, stale, aged, cleaning, copy, disturbed>> /\ tasks' \subseteq Task
  BY ThreadTasks DEF clean
<1>2. TypeOK'
  BY <1>1, ThreadJournal DEF TypeOK
<1>3. NamesInv'
  BY <1>1, ThreadJournal DEF NamesInv
<1>4. cancelled => journal'.state \in StoppedStates
  BY ThreadJournal, Finished DEF StopInv, StoppedStates
<1>5. StopInv'
  BY <1>1, <1>4, ThreadJournal DEF StopInv
<1> QED BY <1>2, <1>3, <1>5

LEMMA NextBasics == ASSUME Basics, [Next]_vars PROVE Basics'
<1>1. CASE UNCHANGED vars
  BY <1>1 DEF vars, Basics, TypeOK, NamesInv, StopInv
<1>2. CASE \E t \in tasks : Thread(t) \/ transfer_dies(t)
  BY <1>2, ThreadBasics
<1>3. CASE Next /\ ~\E t \in tasks : Thread(t) \/ transfer_dies(t)
  BY <1>3, ControlBasics, CleanupBasics, ClockBasics, RestartBasics DEF Next
<1> QED BY <1>1, <1>2, <1>3

-----------------------------------------------------------------------------
(* What holds as long as nobody has come into a gap: Ordered. First the    *)
(* steps in which no thread takes part.                                    *)

LEMMA InitHolds == Init => IInv
<1> SUFFICES ASSUME Init PROVE IInv
  OBVIOUS
<1>1. Ordered
  BY DEF Init, NoJournal, Ordered, ThreadsInv, JournalInv, Terminal
<1> QED BY <1>1, InitBasics DEF IInv

LEMMA NoThreadWhenFree == ASSUME Ordered, ~physical_busy PROVE tasks = {}
  BY DEF Ordered, ThreadsInv, ThreadInv

(* While a transfer can be granted, and after an outcome other than an     *)
(* interruption, nothing is at work.                                       *)
LEMMA NoThreadWhenWaiting ==
    ASSUME Ordered, journal.state \notin {"transferring", "processing",
                                          "cancel-requested", "interrupted"}
    PROVE  tasks = {}
  BY DEF Ordered, ThreadsInv, ThreadInv

LEMMA SubmitOrdered == ASSUME IInv, submit, ~disturbed' PROVE Ordered'
<1>1. /\ tasks = {} /\ tasks' = {} /\ cleaning' = cleaning /\ cleaning # "written"
  <2>1. CASE disturbed
    BY <2>1 DEF submit, clean
  <2>2. CASE ~disturbed
    BY <2>2, NoThreadWhenFree DEF IInv, Ordered, JournalInv, submit, Available, clean
  <2> QED BY <2>1, <2>2
<1>2. /\ journal'.state = "transfer-grant-required" /\ journal'.request = "prepared-media"
      /\ physical_busy' = TRUE
  BY DEF submit, Submitted
<1> QED BY <1>1, <1>2 DEF Ordered, ThreadsInv, JournalInv

LEMMA GrantOrdered == ASSUME Basics, Ordered, deliver_grant PROVE Ordered'
<1>1. tasks = {} /\ ~Terminal /\ cleaning # "written"
  BY NoThreadWhenWaiting DEF deliver_grant, Ordered, JournalInv, Terminal, TERMINAL_STATES
<1>2. PICK n \in 1..MaxThreads :
         tasks' = tasks \cup {[id |-> n, of |-> journal.job, job |-> 0,
                               role |-> journal.request, step |-> "begin"]}
  BY DEF deliver_grant
<1>3. PICK t : t = [id |-> n, of |-> journal.job, job |-> 0,
                    role |-> journal.request, step |-> "begin"]
  OBVIOUS
<1>4. tasks' = {t} /\ t.of = journal.job /\ t.job = 0 /\ t.role = journal.request
      /\ t.step = "begin"
  BY <1>1, <1>2, <1>3
<1>5. /\ journal'.job = journal.job /\ journal'.request = journal.request
      /\ journal'.state = "transferring" /\ journal'.completed = journal.completed
      /\ journal.request \in Roles
  BY DEF deliver_grant, Basics, TypeOK, Journal
<1>6. physical_busy' /\ worker_running' /\ cleaning' = cleaning
  BY <1>1 DEF deliver_grant, Ordered, JournalInv, clean
<1>7. ThreadsInv'
  BY <1>4, <1>5, <1>6 DEF ThreadsInv, ThreadInv, Roles
<1>8. JournalInv'
  BY <1>1, <1>5, <1>6 DEF Ordered, JournalInv
<1> QED BY <1>7, <1>8 DEF Ordered

LEMMA StopOrdered ==
    ASSUME Basics, Ordered, cancel \/ expire_stale, ~disturbed' PROVE Ordered'
<1>1. /\ ~Terminal /\ cleaning # "written" /\ \A t \in tasks : t.step # "ended"
      /\ cancelled' = TRUE /\ physical_busy' = worker_running
      /\ UNCHANGED <<worker_running, tasks, cleaning>>
  BY DEF cancel, expire_stale, StillBusy, Starting, Ordered, JournalInv, clean
<1>2. /\ journal'.job = journal.job /\ journal'.request = "none"
      /\ journal'.state = (IF expire_stale THEN "interrupted"
                           ELSE IF worker_running THEN "cancel-requested" ELSE "cancelled")
      /\ journal'.completed = journal.completed
  <2>1. CASE cancel /\ ~expire_stale
    <3>1. PICK s : s = (IF worker_running THEN "cancel-requested" ELSE "cancelled")
      OBVIOUS
    <3>2. journal' = [journal EXCEPT !.state = s, !.request = "none"]
      BY <2>1, <3>1 DEF cancel
    <3> QED BY <2>1, <3>1, <3>2 DEF Basics, TypeOK, Journal
  <2>2. CASE expire_stale
    BY <2>2 DEF expire_stale, Interrupted, Basics, TypeOK, Journal
  <2> QED BY <2>1, <2>2
<1>3. ~worker_running => tasks = {}
  BY <1>1 DEF Ordered, ThreadsInv, ThreadInv
<1>4. ASSUME NEW t \in tasks PROVE ThreadInv(t)'
  <2>1. ThreadInv(t) /\ worker_running /\ t.step # "ended"
    BY <1>1, <1>3, <1>4 DEF Ordered, ThreadsInv
  <2> QED BY <1>1, <1>2, <2>1 DEF ThreadInv
<1>5. ThreadsInv'
  BY <1>1, <1>4 DEF Ordered, ThreadsInv
<1>6. JournalInv'
  BY <1>1, <1>2 DEF JournalInv, Terminal, TERMINAL_STATES
<1> QED BY <1>5, <1>6 DEF Ordered

LEMMA CleanupOrdered ==
    ASSUME Basics, Ordered, cleanup_begins \/ Cleanup, ~disturbed' PROVE Ordered'
<1>1. CASE cleanup_begins \/ cleanup_reads
  <2>1. /\ UNCHANGED <<journal, cancelled, worker_running, physical_busy, tasks>>
        /\ cleaning' # "written"
    BY <1>1 DEF cleanup_begins, cleanup_reads
  <2> QED BY <2>1 DEF Ordered, ThreadsInv, ThreadInv, JournalInv, Terminal
<1>2. CASE cleanup_interrupts
  <2>1. journal' = Interrupted(journal) /\ journal.state = "output-ready"
    BY <1>2 DEF cleanup_interrupts
  <2>2. journal'.state = "interrupted" /\ journal'.request = "none"
    BY <2>1, InterruptedIs DEF Basics, TypeOK
  <2>3. tasks = {} /\ tasks' = {} /\ physical_busy'
    BY <1>2, <2>1, NoThreadWhenWaiting
       DEF cleanup_interrupts, Ordered, JournalInv, Terminal, TERMINAL_STATES
  <2> QED BY <2>2, <2>3 DEF Ordered, ThreadsInv, JournalInv, Terminal, TERMINAL_STATES
<1>3. CASE cleanup_frees
  <2>1. /\ Terminal /\ tasks = {} /\ cleaning' = "no" /\ UNCHANGED <<journal, tasks>>
    BY <1>3 DEF cleanup_frees, Ordered, JournalInv
  <2> QED BY <2>1 DEF Ordered, ThreadsInv, JournalInv, Terminal
<1> QED BY <1>1, <1>2, <1>3 DEF Cleanup

LEMMA ClockOrdered == ASSUME Ordered, touch \/ FallsSilent \/ OutputAges PROVE Ordered'
<1>1. UNCHANGED <<journal, cancelled, worker_running, physical_busy, tasks, cleaning>>
  BY DEF touch, FallsSilent, OutputAges, clean
<1> QED BY <1>1 DEF Ordered, ThreadsInv, ThreadInv, JournalInv, Terminal

LEMMA RestartOrdered == ASSUME Basics, restart PROVE Ordered'
<1>1. tasks' = {} /\ cleaning' = "no"
  BY DEF restart
<1>2. Terminal' \/ physical_busy'
  BY InterruptedIs DEF restart, Basics, TypeOK, Terminal, TERMINAL_STATES
<1>3. journal'.request # "frame-manifest" \/ "prepared-media" \in journal'.completed
  <2>1. CASE journal' = Interrupted(journal)
    BY <2>1, InterruptedIs DEF Basics, TypeOK
  <2>2. CASE journal' = journal /\ Terminal
    BY <2>2 DEF Basics, TypeOK, Terminal, TERMINAL_STATES
  <2>3. CASE journal' = journal /\ Recoverable(journal)
    BY <2>3 DEF Basics, NamesInv, Recoverable
  <2> QED BY <2>1, <2>2, <2>3 DEF restart
<1> QED BY <1>1, <1>2, <1>3 DEF Ordered, ThreadsInv, JournalInv

-----------------------------------------------------------------------------
(* The steps of a thread, as long as nobody has come into a gap.           *)

LEMMA LastThread == ASSUME Ordered, NEW t \in tasks PROVE tasks \ {t} = {}
  BY DEF Ordered, ThreadsInv

LEMMA BeginOrdered == ASSUME Basics, Ordered, NEW t \in tasks, begin(t) PROVE Ordered'
<1>0. PICK u : u = [t EXCEPT !.job = journal.job, !.step = "running"]
  OBVIOUS
<1>1. tasks' = {u} /\ t \in Task
  BY <1>0, LastThread DEF begin, Basics, TypeOK
<1>2. u.of = t.of /\ u.job = journal.job /\ u.role = t.role /\ u.step = "running"
  BY <1>0, <1>1 DEF Task
<1>3. /\ ThreadInv(t) /\ t.step = "begin" /\ cleaning # "written"
      /\ UNCHANGED <<journal, cancelled, worker_running, physical_busy, cleaning>>
  BY DEF begin, Ordered, ThreadsInv, JournalInv, clean
<1>4. ThreadInv(u)'
  BY <1>2, <1>3 DEF ThreadInv
<1>5. ThreadsInv'
  BY <1>1, <1>4 DEF ThreadsInv
<1>6. JournalInv'
  BY <1>3 DEF Ordered, JournalInv, Terminal
<1> QED BY <1>5, <1>6 DEF Ordered

LEMMA StartOrdered ==
    ASSUME Basics, Ordered, NEW t \in tasks, start_execution(t) PROVE Ordered'
<1>0. PICK u : u = [t EXCEPT !.job = 0, !.role = "execution", !.step = "begin"]
  OBVIOUS
<1>1. tasks' = {u} /\ t \in Task
  BY <1>0, LastThread DEF start_execution, Basics, TypeOK
<1>2. u.of = t.of /\ u.job = 0 /\ u.role = "execution" /\ u.step = "begin"
  BY <1>0, <1>1 DEF Task
<1>3. /\ ThreadInv(t) /\ t.step = "ended" /\ cleaning # "written" /\ worker_running'
      /\ UNCHANGED <<journal, cancelled, physical_busy, cleaning>>
  BY DEF start_execution, Ordered, ThreadsInv, JournalInv, clean
<1>4. ThreadInv(u)'
  BY <1>2, <1>3 DEF ThreadInv
<1>5. ThreadsInv'
  BY <1>1, <1>4 DEF ThreadsInv
<1>6. JournalInv'
  BY <1>3 DEF Ordered, JournalInv, Terminal
<1> QED BY <1>5, <1>6 DEF Ordered

(* A thread that ends and leaves none: what is left to show of Ordered is  *)
(* about the journal.                                                      *)
LEMMA LastEnds ==
    ASSUME Basics, Ordered, NEW t \in tasks, tasks' = tasks \ {t}, UNCHANGED clean,
           \/ Terminal'
           \/ physical_busy'
           \/ physical_busy /\ UNCHANGED physical_busy,
           journal'.request = "frame-manifest" => "prepared-media" \in journal'.completed
    PROVE  Ordered'
<1>1. tasks' = {} /\ cleaning' # "written"
  BY LastThread DEF Ordered, JournalInv, clean
<1>2. Terminal' \/ physical_busy'
  OBVIOUS
<1> QED BY <1>1, <1>2 DEF Ordered, ThreadsInv, JournalInv

LEMMA FinishOrdered ==
    ASSUME Basics, Ordered, NEW t \in tasks, Finish, tasks' = tasks \ {t}, UNCHANGED clean
    PROVE  Ordered'
<1>1. /\ journal'.state \in {"interrupted", "cancelled"} /\ journal'.request = "none"
  BY Finished DEF Basics
<1>2. Terminal'
  BY <1>1 DEF Terminal, TERMINAL_STATES
<1> QED BY <1>1, <1>2, LastEnds

LEMMA TransferEndOrdered ==
    ASSUME Basics, Ordered, NEW t \in tasks, transfer_ends(t) PROVE Ordered'
<1>1. CASE TransferHalted /\ Finish /\ tasks' = tasks \ {t}
  BY <1>1, FinishOrdered DEF transfer_ends
<1>2. CASE /\ ~TransferHalted /\ journal' = Transferred(journal, t.role)
           /\ worker_running' = FALSE
           /\ physical_busy' = (physical_busy /\ t.role \in Inputs)
           /\ tasks' = IF journal'.state = "processing"
                       THEN (tasks \ {t}) \cup {[t EXCEPT !.step = "ended"]}
                       ELSE tasks \ {t}
  <2>1. /\ journal.state = "transferring" /\ journal.request = t.role /\ physical_busy
        /\ ThreadInv(t) /\ ~cancelled /\ cleaning # "written" /\ t.role \in Roles
        /\ t \in Task /\ journal \in Journal /\ UNCHANGED clean
    BY <1>2 DEF transfer_ends, TransferHalted, Ordered, ThreadsInv, ThreadInv, JournalInv,
       Basics, TypeOK
  <2>2. PICK k : k = Transferred(journal, t.role)
    OBVIOUS
  <2>3. journal' = k
    BY <1>2, <2>2
  <2>4. CASE t.role = "frame-manifest"
    <3>1. /\ journal'.state = "processing" /\ journal'.request = "none"
          /\ journal'.job = journal.job
          /\ journal'.completed = journal.completed \cup {"frame-manifest"}
      BY <2>1, <2>2, <2>3, <2>4, TransferredIs
    <3>2. PICK u : u = [t EXCEPT !.step = "ended"]
      OBVIOUS
    <3>3. tasks' = {u}
      BY <1>2, <3>1, <3>2, LastThread
    <3>4. u.of = t.of /\ u.job = t.job /\ u.role = "frame-manifest" /\ u.step = "ended"
      BY <2>1, <2>4, <3>2 DEF Task
    <3>5. Inputs \subseteq journal'.completed
      BY <2>1, <2>4, <3>1 DEF Ordered, JournalInv, Inputs
    <3>6. physical_busy'
      BY <1>2, <2>1, <2>4 DEF Inputs
    <3>7. ThreadInv(u)'
      BY <2>1, <3>1, <3>4, <3>5, <3>6 DEF ThreadInv
    <3>8. ThreadsInv'
      BY <3>3, <3>7 DEF ThreadsInv
    <3>9. JournalInv'
      BY <2>1, <3>1, <3>6 DEF JournalInv, clean
    <3> QED BY <3>8, <3>9 DEF Ordered
  <2>5. CASE t.role = "prepared-media"
    <3>1. /\ journal'.state = "transfer-grant-required"
          /\ "prepared-media" \in journal'.completed
      BY <2>1, <2>2, <2>3, <2>5, TransferredIs
    <3>2. tasks' = tasks \ {t} /\ physical_busy'
      BY <1>2, <2>1, <2>5, <3>1 DEF Inputs
    <3> QED BY <2>1, <3>1, <3>2, LastEnds
  <2>6. CASE t.role = "observation-artifact"
    <3>1. journal'.state = "completed" /\ journal'.request = "none"
      BY <2>1, <2>2, <2>3, <2>6, TransferredIs
    <3>2. tasks' = tasks \ {t} /\ Terminal'
      BY <1>2, <3>1 DEF Terminal, TERMINAL_STATES
    <3> QED BY <2>1, <3>1, <3>2, LastEnds
  <2> QED BY <2>1, <2>4, <2>5, <2>6 DEF Roles
<1> QED BY <1>1, <1>2 DEF transfer_ends

LEMMA TransferFailOrdered ==
    ASSUME Basics, Ordered, NEW t \in tasks, transfer_fails(t) \/ transfer_dies(t)
    PROVE  Ordered'
<1>0. ThreadInv(t) /\ physical_busy /\ journal \in Journal
  BY DEF Ordered, ThreadsInv, ThreadInv, Basics, TypeOK
<1>1. CASE transfer_dies(t)
  BY <1>0, <1>1, LastEnds DEF transfer_dies, Ordered, JournalInv
<1>2. CASE transfer_fails(t) /\ cancelled
  BY <1>2, FinishOrdered DEF transfer_fails
<1>3. CASE transfer_fails(t) /\ ~cancelled
  <2>1. PICK s \in {"output-ready", "transfer-grant-required"} :
           journal' = [journal EXCEPT !.state = s]
    BY <1>3 DEF transfer_fails
  <2>2. /\ journal'.request = journal.request /\ journal'.completed = journal.completed
    BY <1>0, <2>1 DEF Journal
  <2>3. tasks' = tasks \ {t} /\ UNCHANGED <<physical_busy, clean>>
    BY <1>3 DEF transfer_fails
  <2> QED BY <1>0, <2>2, <2>3, LastEnds DEF Ordered, JournalInv
<1> QED BY <1>1, <1>2, <1>3

LEMMA ExecutionOrdered ==
    ASSUME Basics, Ordered, NEW t \in tasks, execution_ends(t) \/ execution_fails(t)
    PROVE  Ordered'
<1>0. /\ physical_busy /\ journal \in Journal /\ tasks' = tasks \ {t} /\ UNCHANGED clean
  BY DEF execution_ends, execution_fails, Ordered, ThreadsInv, ThreadInv, Basics, TypeOK
<1>1. CASE Finish
  BY <1>0, <1>1, FinishOrdered
<1>2. CASE execution_ends(t) /\ ~Finish
  <2>1. /\ journal'.request = "observation-artifact" /\ UNCHANGED physical_busy
    BY <1>0, <1>2 DEF execution_ends, Journal
  <2> QED BY <1>0, <2>1, LastEnds
<1>3. CASE execution_fails(t) /\ ~Finish
  <2>1. journal'.request = "none" /\ Terminal'
    BY <1>0, <1>3 DEF execution_fails, Journal, Terminal, TERMINAL_STATES
  <2> QED BY <1>0, <2>1, LastEnds
<1> QED BY <1>1, <1>2, <1>3

LEMMA ThreadOrdered ==
    ASSUME Basics, Ordered, NEW t \in tasks, Thread(t) \/ transfer_dies(t) PROVE Ordered'
  BY BeginOrdered, StartOrdered, TransferEndOrdered, TransferFailOrdered, ExecutionOrdered
     DEF Thread

-----------------------------------------------------------------------------
LEMMA NextKeeps == ASSUME IInv, [Next]_vars PROVE IInv'
<1>1. Basics'
  BY NextBasics DEF IInv
<1>2. ASSUME ~disturbed' PROVE Ordered'
  <2>0. Basics
    BY DEF IInv
  <2>1. CASE submit
    BY <1>2, <2>1, SubmitOrdered
  <2>2. CASE restart
    BY <2>0, <2>2, RestartOrdered
  <2>3. CASE ~submit /\ ~restart
    <3>1. Ordered
      <4>1. disturbed => disturbed'
        BY <2>3, ThreadTasks, <2>0 DEF Next, vars, touch, deliver_grant, cancel, expire_stale,
           cleanup_begins, Cleanup, cleanup_reads, cleanup_interrupts, cleanup_frees,
           FallsSilent, OutputAges
      <4> QED BY <1>2, <4>1 DEF IInv
    <3>2. CASE UNCHANGED vars
      BY <3>1, <3>2 DEF vars, Ordered, ThreadsInv, ThreadInv, JournalInv, Terminal
    <3>3. CASE \E t \in tasks : Thread(t) \/ transfer_dies(t)
      BY <2>0, <3>1, <3>3, ThreadOrdered
    <3>4. CASE Next /\ ~\E t \in tasks : Thread(t) \/ transfer_dies(t)
      BY <1>2, <2>0, <2>3, <3>1, <3>4, GrantOrdered, StopOrdered, CleanupOrdered, ClockOrdered
         DEF Next
    <3> QED BY <3>2, <3>3, <3>4
  <2> QED BY <2>1, <2>2, <2>3
<1>3. disturbed' \in BOOLEAN
  BY <1>1 DEF Basics, TypeOK
<1> QED BY <1>1, <1>2, <1>3 DEF IInv

LEMMA Invariance == Spec => []IInv
<1>1. IInv /\ [Next]_vars => IInv'
  BY NextKeeps
<1> QED BY InitHolds, <1>1, PTL DEF Spec

-----------------------------------------------------------------------------
(* The state stays well-formed; a job asks for a transfer only while it    *)
(* may be granted one.                                                     *)
THEOREM TypeCorrect == Spec => []TypeOK
<1>1. IInv => TypeOK
  BY DEF IInv, Basics
<1> QED BY Invariance, <1>1, PTL

(* The two gaps are the only ways to a second thread, and to an execution  *)
(* without both inputs of the job it executes.                             *)
THEOREM OrderlyWork == Spec => []WorkIsOrderly
<1>1. IInv => WorkIsOrderly
  <2>1. Ordered => OneThread
    BY DEF Ordered, ThreadsInv, ThreadInv, OneThread
  <2>2. TypeOK /\ Ordered => ExecutionHasInputs
    BY DEF TypeOK, Ordered, ThreadsInv, ThreadInv, ExecutionHasInputs
  <2> QED BY <2>1, <2>2 DEF IInv, Basics, WorkIsOrderly
<1> QED BY Invariance, <1>1, PTL

(* A job that was told to stop ends cancelled or interrupted, whatever     *)
(* comes into the gaps.                                                    *)
THEOREM CancellationsAreKept == Spec => CancelIsKept
<1> DEFINE P == cancelled => \/ journal'.state \in {"cancel-requested", "cancelled", "interrupted"}
                             \/ journal' = Submitted(journal.job + 1)
<1>1. ASSUME IInv, Next, cancelled, ~submit PROVE journal'.state \in StoppedStates
  <2>1. Basics' /\ journal.state \in StoppedStates
    BY <1>1, NextBasics DEF IInv, Basics, StopInv
  <2>2. CASE restart
    BY <1>1, <2>1, <2>2, InterruptedIs DEF restart, IInv, Basics, TypeOK, StoppedStates
  <2>3. CASE ~restart
    <3>1. cancelled'
      BY <1>1, <2>3, ThreadTasks DEF Next, touch, deliver_grant, cancel, expire_stale,
         cleanup_begins, Cleanup, cleanup_reads, cleanup_interrupts, cleanup_frees,
         FallsSilent, OutputAges, IInv
    <3> QED BY <2>1, <3>1 DEF Basics, StopInv
  <2> QED BY <2>2, <2>3
<1>2. ASSUME submit PROVE journal' = Submitted(journal.job + 1)
  BY <1>2 DEF submit
<1>3. IInv /\ [Next]_vars => [P]_vars
  BY <1>1, <1>2 DEF vars, StoppedStates
<1> QED BY Invariance, <1>3, PTL DEF Spec, CancelIsKept

-----------------------------------------------------------------------------
(* The worker implements the slot: every step of it is a step of the slot, *)
(* or leaves it as it is.                                                  *)

SlotStep == Slot!Accept \/ Slot!Work \/ Slot!Interrupt \/ Slot!Stop \/ Slot!Disturb

SlotSame ==
    /\ journal'.job = journal.job
    /\ journal'.state = journal.state \/ (~Terminal /\ ~Terminal')
    /\ tasks' = {} <=> tasks = {}
    /\ UNCHANGED disturbed

LEMMA SlotStutter == ASSUME SlotSame PROVE UNCHANGED Slot!slotVars
  BY DEF SlotSame, Slot!slotVars, Terminal

(* What ends the work of the slot, whatever becomes of the job.            *)
LEMMA SlotStops ==
    ASSUME tasks' = {}, disturbed' = FALSE, journal'.job = journal.job,
           \/ journal'.state = journal.state
           \/ ~Terminal /\ (~Terminal' \/ journal'.state \in TERMINAL_STATES)
    PROVE  Slot!Stop
  BY DEF Slot!Stop, Slot!Stopped, Terminal, TERMINAL_STATES

LEMMA SlotAccepts == ASSUME IInv, submit, ~disturbed' PROVE Slot!Accept
<1>1. tasks = {} /\ tasks' = {}
  BY NoThreadWhenFree DEF submit, Available, IInv
<1>2. disturbed' = FALSE
  BY NextBasics DEF submit, IInv, Basics, TypeOK
<1> QED BY <1>1, <1>2 DEF submit, Available, Submitted, Slot!Accept, Terminal, TERMINAL_STATES

LEMMA SlotRestart == ASSUME IInv, restart PROVE Slot!Stop
<1>1. tasks' = {} /\ disturbed' = FALSE /\ journal' \in {journal, Interrupted(journal)}
  BY DEF restart
<1>2. journal' = journal \/ ~Terminal
  BY DEF restart
<1>3. journal \in Journal
  BY DEF IInv, Basics, TypeOK
<1> QED BY <1>1, <1>2, <1>3, InterruptedIs, SlotStops DEF TERMINAL_STATES

LEMMA SlotControl ==
    ASSUME Basics, Ordered, ~disturbed', UNCHANGED disturbed,
           deliver_grant \/ cancel \/ expire_stale \/ cleanup_interrupts
    PROVE  SlotStep \/ SlotSame
<1>0. journal \in Journal
  BY DEF Basics, TypeOK
<1>2. CASE deliver_grant
  <2>1. tasks = {} /\ tasks' # {}
    BY <1>2, NoThreadWhenWaiting DEF deliver_grant
  <2>2. journal'.job = journal.job /\ journal'.state = "transferring"
    BY <1>0, <1>2 DEF deliver_grant, Journal
  <2>3. Slot!Work
    BY <1>2, <2>1, <2>2 DEF deliver_grant, Slot!Work, Terminal, TERMINAL_STATES
  <2> QED BY <2>3 DEF SlotStep
<1>3. CASE cancel
  <2>0. ~Starting
    BY <1>3 DEF cancel
  <2>1. ~worker_running => tasks = {}
    BY <2>0 DEF Starting, Ordered, ThreadsInv, ThreadInv
  <2>2. PICK s : s = (IF worker_running THEN "cancel-requested" ELSE "cancelled")
    OBVIOUS
  <2>3. journal' = [journal EXCEPT !.state = s, !.request = "none"]
    BY <1>3, <2>2 DEF cancel
  <2>4. journal'.job = journal.job /\ tasks' = tasks /\ journal'.state = s /\ ~Terminal
    BY <1>0, <1>3, <2>3 DEF cancel, Journal
  <2>5. CASE worker_running
    BY <2>2, <2>4, <2>5 DEF Terminal, TERMINAL_STATES, SlotSame
  <2>6. CASE ~worker_running
    <3>1. disturbed' = FALSE
      BY <1>3, <2>0 DEF cancel, Basics, TypeOK
    <3> QED BY <2>1, <2>2, <2>4, <2>6, <3>1, SlotStops DEF SlotStep, TERMINAL_STATES
  <2> QED BY <2>5, <2>6
<1>4. CASE expire_stale \/ cleanup_interrupts
  <2>1. ~Terminal /\ tasks' = tasks /\ journal' = Interrupted(journal)
    BY <1>4 DEF expire_stale, cleanup_interrupts, Terminal, TERMINAL_STATES
  <2>2. journal'.job = journal.job /\ journal'.state = "interrupted"
    BY <1>0, <2>1, InterruptedIs
  <2> QED BY <2>1, <2>2 DEF SlotStep, Slot!Interrupt, Terminal, TERMINAL_STATES
<1> QED BY <1>2, <1>3, <1>4

LEMMA SlotThread ==
    ASSUME Basics, Ordered, ~disturbed', NEW t \in tasks, Thread(t) \/ transfer_dies(t)
    PROVE  SlotStep \/ SlotSame
<1>1. /\ tasks \ {t} = {} /\ tasks # {} /\ ThreadInv(t)
      /\ journal.state # "interrupted" => ~Terminal
      /\ journal \in Journal /\ UNCHANGED disturbed /\ disturbed' = FALSE
  <2>1. /\ tasks \ {t} = {} /\ ThreadInv(t)
    BY LastThread DEF Ordered, ThreadsInv
  <2>2. UNCHANGED disturbed /\ disturbed \in BOOLEAN /\ journal \in Journal
    BY ThreadTasks DEF Basics, TypeOK
  <2> QED BY <2>1, <2>2 DEF ThreadInv, Terminal, TERMINAL_STATES
<1>2. CASE begin(t) \/ start_execution(t)
  BY <1>1, <1>2 DEF begin, start_execution, SlotSame, Terminal
<1>3. CASE transfer_dies(t)
  BY <1>1, <1>3, SlotStops DEF transfer_dies, SlotStep
<1>4. CASE Finish /\ tasks' = tasks \ {t}
  <2>1. /\ journal'.job = journal.job
        /\ journal'.state = IF journal.state = "interrupted" THEN "interrupted"
                            ELSE "cancelled"
    BY <1>4, Finished DEF Basics
  <2> QED BY <1>1, <1>4, <2>1, SlotStops DEF SlotStep, TERMINAL_STATES
<1>5. CASE transfer_ends(t) /\ ~TransferHalted
  <2>1. /\ journal.state = "transferring" /\ t.role \in Roles
        /\ journal' = Transferred(journal, t.role)
    BY <1>5 DEF transfer_ends, TransferHalted
  <2>2. PICK k : k = Transferred(journal, t.role)
    OBVIOUS
  <2>3. /\ k.job = journal.job
        /\ k.state \in {"transfer-grant-required", "processing", "completed"}
    BY <1>1, <2>1, <2>2, TransferredIs DEF Roles
  <2>4. /\ journal'.job = journal.job
        /\ journal'.state \in {"transfer-grant-required", "processing", "completed"}
    BY <2>1, <2>2, <2>3
  <2>5. CASE journal'.state = "processing"
    <3>1. tasks' # {}
      BY <1>5, <2>5 DEF transfer_ends
    <3> QED BY <1>1, <2>1, <2>4, <2>5, <3>1 DEF SlotSame, Terminal, TERMINAL_STATES
  <2>6. CASE journal'.state # "processing"
    <3>1. tasks' = {}
      BY <1>1, <1>5, <2>6 DEF transfer_ends
    <3> QED BY <1>1, <2>1, <2>4, <2>6, <3>1, SlotStops DEF SlotStep, Terminal, TERMINAL_STATES
  <2> QED BY <2>5, <2>6
<1>6. CASE transfer_fails(t) /\ ~cancelled
  <2>1. /\ journal'.job = journal.job /\ tasks' = {}
        /\ journal'.state \in {"output-ready", "transfer-grant-required"}
    BY <1>1, <1>6 DEF transfer_fails, Journal
  <2>2. ~Terminal
    BY <1>1, <1>6 DEF ThreadInv
  <2> QED BY <1>1, <2>1, <2>2, SlotStops DEF SlotStep, Terminal, TERMINAL_STATES
<1>7. CASE execution_ends(t) /\ ~Finish
  <2>1. /\ journal'.job = journal.job /\ tasks' = {} /\ journal.state = "processing"
        /\ journal'.state = "output-ready"
    BY <1>1, <1>7 DEF execution_ends, Journal
  <2> QED BY <1>1, <2>1, SlotStops DEF SlotStep, Terminal, TERMINAL_STATES
<1>8. CASE execution_fails(t) /\ ~cancelled
  <2>1. /\ journal'.job = journal.job /\ tasks' = {} /\ journal'.state = "failed"
    BY <1>1, <1>8 DEF execution_fails, Journal
  <2>2. ~Terminal
    BY <1>1, <1>8 DEF ThreadInv
  <2> QED BY <1>1, <2>1, <2>2, SlotStops DEF SlotStep, TERMINAL_STATES
<1>9. \/ begin(t) \/ start_execution(t) \/ transfer_dies(t)
      \/ Finish /\ tasks' = tasks \ {t}
      \/ transfer_ends(t) /\ ~TransferHalted
      \/ transfer_fails(t) /\ ~cancelled
      \/ execution_ends(t) /\ ~Finish
      \/ execution_fails(t) /\ ~cancelled
  BY DEF Thread, transfer_ends, transfer_fails, execution_ends, execution_fails
<1> QED BY <1>2, <1>3, <1>4, <1>5, <1>6, <1>7, <1>8, <1>9

(* As long as nobody comes into a gap, the worker is a slot: a job is      *)
(* accepted when the last one has an outcome and nothing works, and an     *)
(* outcome is final; the next job that an idle worker accepts, or a        *)
(* restart, makes it one again.                                            *)
THEOREM WorkerIsSlot == Spec => SlotSpec
<1>1. Init => Slot!SlotInit
  BY DEF Init, NoJournal, Slot!SlotInit, Terminal
<1>2. ASSUME IInv, Next PROVE SlotStep \/ SlotSame
  <2>1. disturbed' \in BOOLEAN /\ Basics
    BY <1>2, NextBasics DEF IInv, Basics, TypeOK
  <2>2. CASE disturbed'
    BY <2>1, <2>2 DEF SlotStep, Slot!Disturb
  <2>3. CASE ~disturbed' /\ submit
    BY <1>2, <2>3, SlotAccepts DEF SlotStep
  <2>4. CASE restart
    BY <1>2, <2>4, SlotRestart DEF SlotStep
  <2>5. CASE ~disturbed' /\ ~submit /\ ~restart
    <3>1. disturbed => disturbed'
      BY <1>2, <2>1, <2>5, ThreadTasks DEF Next, touch, deliver_grant, cancel, expire_stale,
         cleanup_begins, Cleanup, cleanup_reads, cleanup_interrupts, cleanup_frees,
         FallsSilent, OutputAges
    <3>2. Ordered /\ UNCHANGED disturbed
      BY <1>2, <2>1, <2>5, <3>1 DEF IInv, Basics, TypeOK
    <3>3. CASE deliver_grant \/ cancel \/ expire_stale \/ cleanup_interrupts
      BY <2>1, <2>5, <3>2, <3>3, SlotControl
    <3>4. CASE touch \/ cleanup_begins \/ cleanup_reads \/ cleanup_frees
                    \/ FallsSilent \/ OutputAges
      BY <3>4 DEF touch, cleanup_begins, cleanup_reads, cleanup_frees, FallsSilent,
         OutputAges, SlotSame, Terminal
    <3>5. CASE \E t \in tasks : Thread(t) \/ transfer_dies(t)
      BY <2>1, <2>5, <3>2, <3>5, SlotThread
    <3> QED BY <1>2, <2>5, <3>3, <3>4, <3>5 DEF Next, Cleanup
  <2> QED BY <2>1, <2>2, <2>3, <2>4, <2>5
<1>3. IInv /\ [Next]_vars => [SlotStep]_Slot!slotVars
  <2>1. ASSUME UNCHANGED vars PROVE UNCHANGED Slot!slotVars
    BY <2>1 DEF vars, Slot!slotVars, Terminal
  <2> QED BY <1>2, <2>1, SlotStutter
<1>4. [SlotStep]_Slot!slotVars =>
         [Slot!Accept \/ Slot!Work \/ Slot!Interrupt \/ Slot!Stop \/ Slot!Disturb]_Slot!slotVars
  BY DEF SlotStep
<1> QED BY <1>1, <1>3, <1>4, Invariance, PTL DEF Spec, SlotSpec, Slot!SlotSpec

=============================================================================
