--------------------------- MODULE MCTrackersCache ---------------------------
(* Instances of TrackersCache for TLC: the goroutines are interchangeable. *)
EXTENDS TrackersCache, TLC

Symmetry == Permutations(Proc)
=============================================================================
