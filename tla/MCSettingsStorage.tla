------------------------- MODULE MCSettingsStorage -------------------------
(* SettingsStorage for TLC: contents whose JSON lengths differ by one, as   *)
(* the storage flags do ("true", "false").                                  *)
EXTENDS SettingsStorage, TLC

Widths == [v \in Val |-> IF v = Default THEN 1 ELSE 2]
Sym == Permutations(Hash) \cup Permutations(Index)
=============================================================================
