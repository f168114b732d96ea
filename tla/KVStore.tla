------------------------------ MODULE KVStore ------------------------------
(***************************************************************************)
(* What the settings package relies on of a TorrServerDB, for the entries  *)
(* under one path: a map from names to values that every call reads or      *)
(* changes at one instant.                                                  *)
(***************************************************************************)
CONSTANTS Name, Value, Proc, None

VARIABLES
  store,  \* the entries
  reply   \* what the last Get or List of each goroutine returned

kvars == <<store, reply>>

Stored(s) == {n \in Name : s[n] # None}

Init ==
  /\ store \in [Name -> Value \cup {None}]
  /\ reply = [p \in Proc |-> None]

Get(p, n) ==
  /\ reply' = [reply EXCEPT ![p] = <<"get", n, store[n]>>]
  /\ UNCHANGED store

List(p) ==
  /\ reply' = [reply EXCEPT ![p] = <<"list", Stored(store)>>]
  /\ UNCHANGED store

Set(n, v) == store' = [store EXCEPT ![n] = v] /\ UNCHANGED reply
Rem(n)    == store' = [store EXCEPT ![n] = None] /\ UNCHANGED reply
Clear     == store' = [n \in Name |-> None] /\ UNCHANGED reply

Next ==
  \/ \E p \in Proc : List(p) \/ \E n \in Name : Get(p, n)
  \/ \E n \in Name : Rem(n) \/ \E v \in Value : Set(n, v)
  \/ Clear

Spec == Init /\ [][Next]_kvars
=============================================================================
