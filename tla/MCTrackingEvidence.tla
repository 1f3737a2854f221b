------------------------- MODULE MCTrackingEvidence -------------------------
(* Small instances of the life of a tracking segment for TLC.              *)
EXTENDS TrackingEvidence, TLC

Symmetry == Permutations(Callers)
=============================================================================
