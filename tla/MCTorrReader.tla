---------------------------- MODULE MCTorrReader ----------------------------
(* Instances of TorrReader for TLC.                                        *)
EXTENDS TorrReader, TLC

CONSTANTS r1, r2, c1, c2

\* Each client has a reader of its own.
OwnReader == (c1 :> r1) @@ (c2 :> r2)
=============================================================================
