---------------------------- MODULE RecordingUse ----------------------------
(***************************************************************************)
(* What the Race recording and the analyses made from it promise each     *)
(* other: an analysis begins to use a recording only while the recording   *)
(* is ready, and a recording in use is not withdrawn. RaceRecordingUpload  *)
(* implements it for the owner of the media, AnalysisLifecycle for its     *)
(* user.                                                                   *)
(***************************************************************************)
VARIABLES
    ready,  \* the recording is whole and validated, and nobody removes it
    inUse   \* an analysis needs it

Init == ready \in BOOLEAN /\ inUse = FALSE

Offer == ready' = TRUE /\ UNCHANGED inUse

\* A recording is withdrawn only while nobody uses it.
Withdraw == ~inUse /\ ready' = FALSE /\ UNCHANGED inUse

\* What starts to use the recording finds it ready.
Use == ready /\ inUse' = TRUE /\ UNCHANGED ready

Release == inUse' = FALSE /\ UNCHANGED ready

Next == Offer \/ Withdraw \/ Use \/ Release

Spec == Init /\ [][Next]_<<ready, inUse>>
=============================================================================
