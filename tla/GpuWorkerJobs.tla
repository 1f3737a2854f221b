----------------------------- MODULE GpuWorkerJobs -----------------------------
(***************************************************************************)
(* The job manager of the GPU worker (src/services/driving-analysis-gpu/   *)
(* src/chassis_notes_gpu_worker/jobs.py): one job in a journal, and the    *)
(* threads that transfer its input, execute it and upload its output.      *)
(*                                                                         *)
(* Requests are handled by threads, so are the watchdog and each transfer  *)
(* and execution. A section under the lock is one action, and between two  *)
(* sections anybody may come. That hurts in two gaps: between the end of   *)
(* the last input transfer and the start of the execution, and inside the  *)
(* cleanup, which takes no lock. The history variable disturbed, which the *)
(* code does not have, tells whether somebody has come into one of them.   *)
(*                                                                         *)
(* The journal is persisted in each section that changes it. A job that is *)
(* submitted again after another one took its place counts as a new job.   *)
(***************************************************************************)
EXTENDS Integers, FiniteSets

CONSTANTS
    MaxJobs,       \* bound: how many jobs are accepted
    MaxThreads     \* bound: how many threads are at work

ASSUME WorkerAssumption == MaxJobs \in Nat /\ MaxThreads \in Nat

Jobs == 1..MaxJobs

VARIABLES
    journal,          \* the job, its state, its transfers and its output
    cancelled,        \* is the newest job's event set?
    worker_running,
    physical_busy,
    tasks,            \* the threads that transfer or execute
    stale,            \* no control request for the watchdog's period
    aged,             \* the output was ready for the retention period
    cleaning,         \* how far the cleanup has come with an aged output
    copy,             \* the journal as the cleanup has read it
    disturbed         \* history: somebody came into a gap

vars == <<journal, cancelled, worker_running, physical_busy, tasks, stale,
          aged, cleaning, copy, disturbed>>

clean == <<cleaning, copy>>

-----------------------------------------------------------------------------
(* Values                                                                  *)

Roles == {"prepared-media", "frame-manifest", "observation-artifact"}

Inputs == {"prepared-media", "frame-manifest"}

TERMINAL_STATES == {"completed", "cancelled", "interrupted", "failed"}

NoJournal ==
    [job |-> 0, state |-> "none", request |-> "none", completed |-> {},
     artifact |-> 0]

JobStates == {"transfer-grant-required", "transferring", "processing",
              "output-ready", "cancel-requested"} \cup TERMINAL_STATES

Journal ==
    [job : Jobs \cup {0}, state : JobStates \cup {"none"},
     request : Roles \cup {"none"}, completed : SUBSET Roles,
     artifact : Jobs \cup {0}]

(* of: the job whose grant started the thread; job: the one it found in    *)
(* the journal; ended: a transfer that is about to start the execution.    *)
Task == [id : 1..MaxThreads, of : Jobs, job : Jobs \cup {0},
         role : Roles \cup {"execution"}, step : {"begin", "running", "ended"}]

Submitted(n) ==
    [job |-> n, state |-> "transfer-grant-required",
     request |-> "prepared-media", completed |-> {}, artifact |-> 0]

Terminal == journal.state \in TERMINAL_STATES \cup {"none"}

(* Faulty: the transfer that was asked for still is.                       *)
InterruptedAsking(j) == [j EXCEPT !.state = "interrupted"]

Interrupted(j) == [j EXCEPT !.state = "interrupted", !.request = "none"]

(* The first gap: the running flag is down, the execution is still to come.*)
Starting == \E t \in tasks : t.step = "ended"

-----------------------------------------------------------------------------
(* Control requests. A refused one changes nothing.                        *)

Available == ~physical_busy /\ Terminal

submit ==
    /\ Available /\ journal.job < MaxJobs
    /\ journal' = Submitted(journal.job + 1)
    /\ physical_busy' = TRUE
    /\ cancelled' = FALSE /\ stale' = FALSE /\ aged' = FALSE
    /\ disturbed' = (disturbed /\ (tasks # {} \/ cleaning # "no"))
    /\ UNCHANGED <<worker_running, tasks, clean>>

(* status, and every repeated command: the watchdog is put off.            *)
touch ==
    /\ ~Terminal /\ stale /\ stale' = FALSE
    /\ UNCHANGED <<journal, cancelled, worker_running, physical_busy, tasks,
                   aged, clean, disturbed>>

deliver_grant ==
    /\ journal.state \in {"transfer-grant-required", "output-ready"}
    /\ journal.request # "none"
    /\ journal' = [journal EXCEPT !.state = "transferring"]
    /\ worker_running' = TRUE
    /\ \E n \in 1..MaxThreads :
          /\ \A t \in tasks : t.id # n
          /\ tasks' = tasks \cup {[id |-> n, of |-> journal.job, job |-> 0,
                                   role |-> journal.request, step |-> "begin"]}
    /\ stale' = FALSE
    /\ UNCHANGED <<cancelled, physical_busy, aged, clean, disturbed>>

cancel ==
    /\ ~Terminal
    /\ cancelled' = TRUE
    /\ physical_busy' = worker_running
    /\ journal' = [journal EXCEPT
                      !.state = IF worker_running THEN "cancel-requested"
                                ELSE "cancelled",
                      !.request = "none"]
    /\ stale' = FALSE
    /\ disturbed' = (disturbed \/ Starting)
    /\ UNCHANGED <<worker_running, tasks, aged, clean>>

-----------------------------------------------------------------------------
(* The watchdog                                                            *)

(* Faulty: the GPU is given up together with the job.                      *)
NothingRuns == FALSE

StillBusy == worker_running

(* The watchdog's thread does it between two cleanups.                     *)
expire_stale ==
    /\ cleaning = "no"
    /\ ~Terminal /\ stale
    /\ cancelled' = TRUE
    /\ journal' = Interrupted(journal)
    /\ physical_busy' = StillBusy
    /\ disturbed' = (disturbed \/ Starting)
    /\ UNCHANGED <<worker_running, tasks, stale, aged, clean>>

(* The second gap. cleanup_expired looks at the job ...                    *)
cleanup_begins ==
    /\ cleaning = "no" /\ cleaning' = "judged"
    /\ journal.state = "output-ready" /\ aged
    /\ UNCHANGED <<journal, cancelled, worker_running, physical_busy, tasks,
                   stale, aged, copy, disturbed>>

(* ... reads the journal again ...                                         *)
cleanup_reads ==
    /\ cleaning = "judged" /\ cleaning' = "copied"
    /\ copy' = journal
    /\ UNCHANGED <<journal, cancelled, worker_running, physical_busy, tasks,
                   stale, aged, disturbed>>

(* ... and writes the changed copy, without the lock: over what others     *)
(* wrote meanwhile, or to be overwritten at once by a request or a thread  *)
(* that had read the journal before, like one that puts off the watchdog.  *)
cleanup_interrupts ==
    /\ cleaning = "copied" /\ cleaning' = "written"
    /\ copy' = NoJournal
    /\ \/ /\ journal' = Interrupted(copy) /\ UNCHANGED stale
          /\ disturbed' = (disturbed \/ journal # copy \/ copy.state # "output-ready")
       \/ /\ UNCHANGED journal /\ stale' \in {stale, FALSE}
          /\ disturbed' = TRUE
    /\ UNCHANGED <<cancelled, worker_running, physical_busy, tasks, aged>>

(* The GPU is free, says its next statement.                               *)
cleanup_frees ==
    /\ cleaning = "written" /\ cleaning' = "no"
    /\ physical_busy' = FALSE
    /\ UNCHANGED <<journal, cancelled, worker_running, tasks, stale, aged, copy,
                   disturbed>>

(* Time passes.                                                            *)
FallsSilent ==
    /\ ~Terminal /\ ~stale /\ stale' = TRUE
    /\ UNCHANGED <<journal, cancelled, worker_running, physical_busy, tasks,
                   aged, clean, disturbed>>

OutputAges ==
    /\ journal.artifact # 0 /\ ~aged /\ aged' = TRUE
    /\ UNCHANGED <<journal, cancelled, worker_running, physical_busy, tasks,
                   stale, clean, disturbed>>

-----------------------------------------------------------------------------
(* Threads. A download, an upload or an execution that is cancelled fails, *)
(* unless it has just looked for the last time: so both outcomes are       *)
(* always possible.                                                        *)

(* Faulty: a job that the watchdog interrupted counts as cancelled.        *)
AlwaysCancelled(state) == "cancelled"

FinalState(state) == IF state = "interrupted" THEN "interrupted" ELSE "cancelled"

(* Faulty: the GPU is not given back.                                      *)
FinishKeepsGpu ==
    /\ journal' = [journal EXCEPT !.state = FinalState(@), !.request = "none"]
    /\ worker_running' = FALSE
    /\ UNCHANGED physical_busy

(* _finish_cancelled_or_interrupted                                        *)
Finish ==
    /\ journal' = [journal EXCEPT !.state = FinalState(@), !.request = "none"]
    /\ worker_running' = FALSE
    /\ physical_busy' = FALSE

(* The thread finds out which job it works for. Without its inputs an      *)
(* execution can only fail, and so can an upload whose file is missing or  *)
(* not the one that was announced.                                         *)
begin(t) ==
    /\ t.step = "begin"
    /\ t.role = "execution" => Inputs \subseteq journal.completed
    /\ t.role = "observation-artifact" => journal.artifact = journal.job
    /\ tasks' = (tasks \ {t}) \cup {[t EXCEPT !.job = journal.job, !.step = "running"]}
    /\ UNCHANGED <<journal, cancelled, worker_running, physical_busy, stale,
                   aged, clean, disturbed>>

Transferred(j, role) ==
    CASE role = "prepared-media" ->
            [j EXCEPT !.state = "transfer-grant-required",
                      !.request = "frame-manifest",
                      !.completed = @ \cup {role}]
      [] role = "frame-manifest" ->
            [j EXCEPT !.state = "processing", !.request = "none",
                      !.completed = @ \cup {role}]
      [] role = "observation-artifact" ->
            [j EXCEPT !.state = "completed", !.request = "none",
                      !.completed = @ \cup {role}]

(* Faulty: a cancellation that came during the transfer is not looked for. *)
TransferAnyway == FALSE

TransferHalted == cancelled \/ journal.state # "transferring"

(* _transfer, when the transfer has ended.                                 *)
transfer_ends(t) ==
    /\ t.step = "running" /\ t.role \in Roles
    /\ \/ TransferHalted /\ Finish /\ tasks' = tasks \ {t}
       \/ /\ ~TransferHalted
          /\ journal' = Transferred(journal, t.role)
          /\ worker_running' = FALSE
          /\ physical_busy' = (physical_busy /\ t.role \in Inputs)
          /\ tasks' = IF journal'.state = "processing"
                      THEN (tasks \ {t}) \cup {[t EXCEPT !.step = "ended"]}
                      ELSE tasks \ {t}
    /\ UNCHANGED <<cancelled, stale, aged, clean, disturbed>>

(* _transfer_failed: the same grant may be asked for again.                *)
transfer_fails(t) ==
    /\ t.step \in {"begin", "running"} /\ t.role \in Roles
    /\ tasks' = tasks \ {t}
    /\ \/ cancelled /\ Finish
       \/ /\ ~cancelled
          /\ journal' = [journal EXCEPT
                            !.state = IF journal.request = "observation-artifact"
                                      THEN "output-ready"
                                      ELSE "transfer-grant-required"]
          /\ worker_running' = FALSE
          /\ UNCHANGED physical_busy
    /\ UNCHANGED <<cancelled, stale, aged, clean, disturbed>>

(* An error that nobody catches, like a full disk, ends the thread.        *)
transfer_dies(t) ==
    /\ t.step \in {"begin", "running"} /\ t.role \in Roles
    /\ tasks' = tasks \ {t}
    /\ UNCHANGED <<journal, cancelled, worker_running, physical_busy, stale,
                   aged, clean, disturbed>>

(* The thread of the last input transfer starts the execution.             *)
start_execution(t) ==
    /\ t.step = "ended"
    /\ worker_running' = TRUE
    /\ tasks' = (tasks \ {t}) \cup
                    {[t EXCEPT !.job = 0, !.role = "execution", !.step = "begin"]}
    /\ UNCHANGED <<journal, cancelled, physical_busy, stale, aged, clean, disturbed>>

(* _execute, when there is output.                                         *)
execution_ends(t) ==
    /\ t.step = "running" /\ t.role = "execution"
    /\ tasks' = tasks \ {t}
    /\ \/ (cancelled \/ journal.state # "processing") /\ Finish
       \/ /\ ~cancelled /\ journal.state = "processing"
          /\ journal' = [journal EXCEPT !.state = "output-ready",
                                        !.request = "observation-artifact",
                                        !.artifact = t.job]
          /\ worker_running' = FALSE
          /\ UNCHANGED physical_busy
    /\ UNCHANGED <<cancelled, stale, aged, clean, disturbed>>

execution_fails(t) ==
    /\ t.step \in {"begin", "running"} /\ t.role = "execution"
    /\ tasks' = tasks \ {t}
    /\ \/ cancelled /\ Finish
       \/ /\ ~cancelled
          /\ journal' = [journal EXCEPT !.state = "failed", !.request = "none"]
          /\ worker_running' = FALSE
          /\ physical_busy' = FALSE
    /\ UNCHANGED <<cancelled, stale, aged, clean, disturbed>>

-----------------------------------------------------------------------------
(* The worker restarts, at any moment: _restore. Output that is not there, *)
(* or not as it was announced, is not recovered.                           *)
Recoverable(j) == j.state = "output-ready" /\ j.artifact = j.job

restart ==
    /\ tasks' = {} /\ cleaning' = "no" /\ copy' = NoJournal
    /\ worker_running' = FALSE /\ cancelled' = FALSE /\ disturbed' = FALSE
    /\ \/ /\ Recoverable(journal)
          /\ physical_busy' = TRUE /\ UNCHANGED journal
       \/ /\ ~Terminal
          /\ physical_busy' = FALSE /\ journal' = Interrupted(journal)
       \/ /\ Terminal
          /\ physical_busy' = FALSE /\ UNCHANGED journal
    /\ UNCHANGED <<stale, aged>>

-----------------------------------------------------------------------------
Init ==
    /\ journal = NoJournal
    /\ cancelled = FALSE
    /\ worker_running = FALSE
    /\ physical_busy = FALSE
    /\ tasks = {}
    /\ stale = FALSE
    /\ aged = FALSE
    /\ cleaning = "no"
    /\ copy = NoJournal
    /\ disturbed = FALSE

Thread(t) ==
    \/ begin(t) \/ transfer_ends(t) \/ transfer_fails(t)
    \/ start_execution(t) \/ execution_ends(t) \/ execution_fails(t)

Cleanup == cleanup_reads \/ cleanup_interrupts \/ cleanup_frees

Next ==
    \/ submit \/ touch \/ deliver_grant \/ cancel
    \/ expire_stale \/ cleanup_begins \/ Cleanup
    \/ FallsSilent \/ OutputAges
    \/ \E t \in tasks : Thread(t) \/ transfer_dies(t)
    \/ restart

Spec == Init /\ [][Next]_vars

(* Time passes, and threads come to an end: transfers time out, and so do  *)
(* executions. The watchdog looks every second, and the worker does not    *)
(* always restart before it does. Nothing is assumed of the control plane. *)
Fairness ==
    /\ WF_vars(FallsSilent) /\ SF_vars(expire_stale)
    /\ WF_vars(Cleanup)
    /\ WF_vars(\E t \in tasks : Thread(t))

FairSpec == Spec /\ Fairness

-----------------------------------------------------------------------------
(* Type correctness. A job asks for a transfer only while it may be        *)
(* granted one.                                                            *)
TypeOK ==
    /\ {journal, copy} \subseteq Journal
    /\ journal.request # "none" =>
          journal.state \in {"transfer-grant-required", "transferring", "output-ready"}
    /\ tasks \subseteq Task
    /\ {cancelled, worker_running, physical_busy, stale, aged, disturbed} \subseteq BOOLEAN
    /\ cleaning \in {"no", "judged", "copied", "written"}

(* At most one thread works, and for the job that is in the journal.       *)
OneThread ==
    /\ \A t, u \in tasks : t = u
    /\ \A t \in tasks : t.of = journal.job /\ t.job \in {0, journal.job}

(* An execution has its inputs, verified, for the job it executes, and     *)
(* nobody asks for another transfer in the meantime.                       *)
ExecutionHasInputs ==
    \A t \in tasks : t.step = "ended" \/ t.role = "execution" =>
        Inputs \subseteq journal.completed /\ journal.request = "none"

(* Whatever is cancelled, interrupted, restarted and submitted again, the  *)
(* two gaps are the only ways to a second thread, or to an execution       *)
(* without its inputs; and neither outlives the threads and the cleanup    *)
(* that were there: the next job that an idle worker accepts is in order.  *)
WorkIsOrderly == disturbed \/ (OneThread /\ ExecutionHasInputs)

(* A job that was told to stop, by an accepted cancellation or by the      *)
(* watchdog, produces nothing: whatever thread ends, whatever the cleanup  *)
(* overwrites, and also when the worker restarts, it is cancelled or       *)
(* interrupted in the end, until the next job is accepted.                 *)
CancelIsKept ==
    [][cancelled => \/ journal'.state \in {"cancel-requested", "cancelled", "interrupted"}
                    \/ journal' = Submitted(journal.job + 1)]_vars

Slot == INSTANCE GpuSlot WITH
    job     <- journal.job,
    outcome <- IF Terminal THEN journal.state ELSE "open",
    working <- tasks # {}

(* As long as nobody comes into a gap, the worker is a slot for one job at *)
(* a time, with final outcomes; afterwards it becomes one again.           *)
SlotSpec == Slot!SlotSpec

(* A thread has died of an error, and left the running flag behind.        *)
Stranded == worker_running /\ tasks = {}

(* If the control plane falls silent for good, the GPU is free in the end, *)
(* whatever the job was doing and whatever came into the gaps; a thread    *)
(* that died is the only exception.                                        *)
CapacityRecovers == []<>~physical_busy \/ []<>~stale \/ []<>Stranded

(* "Enforce one physical GPU execution in the local worker".               *)
OneExecution ==
    \A t, u \in tasks :
        t.role = "execution" /\ u.role = "execution"
            /\ t.step = "running" /\ u.step = "running" => t = u

=============================================================================
