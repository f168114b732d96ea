------------------------- MODULE MCTorrentLifecycle -------------------------
(* TorrentLifecycle on small pools, for TLC.                                *)
EXTENDS TorrentLifecycle, TLC

\* Torrents, handles and goroutines are interchangeable in the safety runs.
Symmetry == Permutations(Tor) \cup Permutations(Handle) \cup Permutations(Proc)
=============================================================================
