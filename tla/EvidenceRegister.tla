--------------------------- MODULE EvidenceRegister ---------------------------
(***************************************************************************)
(* What the tracking authority and the publication of artifacts promise to *)
(* whoever reads the evidence of a tracking segment: a register that is    *)
(* written at most once, only while its run is active, and whose content   *)
(* stays readable (until its owner deletes the whole analysis, which is    *)
(* not an operation of these components).                                  *)
(***************************************************************************)
CONSTANTS
    Attempts,     \* the attempts that may produce evidence
    NoEvidence    \* nothing is readable

VARIABLES
    open,         \* is the run active?
    evidence      \* the attempt whose artifact can be read, or NoEvidence

registerVars == <<open, evidence>>

RegisterInit == open = TRUE /\ evidence = NoEvidence

Write ==
    /\ open /\ evidence = NoEvidence
    /\ evidence' \in Attempts
    /\ UNCHANGED open

Close ==
    /\ open /\ open' = FALSE
    /\ UNCHANGED evidence

RegisterSpec == RegisterInit /\ [][Write \/ Close]_registerVars
=============================================================================
