-------------------------------- MODULE GpuSlot --------------------------------
(***************************************************************************)
(* What the GPU worker promises: one slot, which holds one job at a time.  *)
(* The next job is accepted when the last one has an outcome and nothing   *)
(* works any more; an outcome is final. A job can be interrupted while it  *)
(* still works, but every other outcome waits until the work has stopped.  *)
(*                                                                         *)
(* The slot can be disturbed. Nothing is promised then, until it restarts  *)
(* or accepts a job while nothing works.                                   *)
(***************************************************************************)
EXTENDS Naturals

VARIABLES
    job,         \* the newest job that was accepted, or 0
    outcome,     \* "open", or how that job ended ("none" before the first)
    working,     \* is anything at work in the slot?
    disturbed    \* is the promise suspended?

slotVars == <<job, outcome, working, disturbed>>

Stopped == {"completed", "cancelled", "failed"}

SlotInit == job = 0 /\ outcome = "none" /\ working = FALSE /\ disturbed = FALSE

Accept ==
    /\ outcome # "open" /\ ~working
    /\ job' = job + 1 /\ outcome' = "open" /\ disturbed' = FALSE
    /\ UNCHANGED working

Work ==
    /\ outcome = "open" /\ ~working /\ working' = TRUE
    /\ UNCHANGED <<job, outcome, disturbed>>

Interrupt ==
    /\ outcome = "open" /\ outcome' = "interrupted"
    /\ UNCHANGED <<job, working, disturbed>>

Stop ==
    /\ working' = FALSE /\ disturbed' = FALSE
    /\ \/ outcome' = outcome
       \/ outcome = "open" /\ outcome' \in Stopped \cup {"interrupted"}
    /\ UNCHANGED job

Disturb == disturbed' = TRUE

SlotSpec == SlotInit /\ [][Accept \/ Work \/ Interrupt \/ Stop \/ Disturb]_slotVars
=============================================================================
