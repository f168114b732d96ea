--------------------------- MODULE MCDBReadCache ---------------------------
(* DBReadCache for TLC.                                                     *)
EXTENDS DBReadCache, TLC

Sym == Permutations(Name) \cup Permutations(Value) \cup Permutations(Proc)
=============================================================================
