---------------------------- MODULE DBReadCache ----------------------------
(***************************************************************************)
(* The read cache in front of the databases                                *)
(* (src/server/settings/dbreadcache.go) for the entries under one path.     *)
(* Each of its critical sections and each call of the database behind it is *)
(* one step, so calls of several goroutines interleave between them.  The   *)
(* entries under "Torrents" are only touched with settings.mu held, the     *)
(* ones under "Viewed" by every request as it comes.                        *)
(***************************************************************************)
EXTENDS FiniteSets

CONSTANTS
  Name,      \* names under the path
  Value,     \* their contents
  Proc,      \* goroutines that call
  None,      \* nil
  Uncached   \* no entry in dataCache or listCache

ASSUME NilAssumption ==
  /\ None \notin Value /\ Uncached \notin Value /\ None # Uncached
  /\ None \notin Proc /\ \A S \in SUBSET Name : S # Uncached /\ S # None

VARIABLES
  path,       \* the path of the entries: callers of "Torrents" hold settings.mu
  db,         \* what DBReadCache.db holds
  dataCache,
  listCache,
  mu,         \* settings.mu: its holder, or None
  pc,         \* what each goroutine does next
  name,       \* the name it was called with
  value,      \* the value it was called with, or has read
  reply       \* what its last Get or List returned

\* History, read by no step: what a write has met another call on.
VARIABLES
  raced,      \* names whose last write overlapped another call on them
  listRaced   \* the last write overlapped a List, or the next List it

callVars == <<pc, name, value, reply>>
raceVars == <<raced, listRaced>>
vars == <<path, db, dataCache, listCache, mu, callVars, raceVars>>

PCs == {"idle", "call", "getDb", "getFill", "listDb", "listFill", "setList",
        "setDb", "remList", "remDb", "clearList", "clearData"}

Stored(s) == {n \in Name : s[n] # None}

Replies == ({"get"} \X Name \X (Value \cup {None})) \cup ({"list"} \X SUBSET Name)

TypeOK ==
  /\ db \in [Name -> Value \cup {None}]
  /\ dataCache \in [Name -> Value \cup {None, Uncached}]
  /\ listCache \in {Uncached} \cup SUBSET Name
  /\ mu \in Proc \cup {None}
  /\ pc \in [Proc -> PCs]
  /\ name \in [Proc -> Name \cup {None}]
  /\ value \in [Proc -> {None} \cup Value \cup SUBSET Name]
  /\ \A p \in Proc : reply[p] = None \/ reply[p] \in Replies
  /\ path \in {"Torrents", "Viewed"}
  /\ raced \subseteq Name /\ listRaced \in BOOLEAN

Init ==
  /\ path \in {"Torrents", "Viewed"}
  /\ db \in [Name -> Value \cup {None}]
  /\ dataCache = [n \in Name |-> Uncached]
  /\ listCache = Uncached
  /\ mu = None
  /\ pc = [p \in Proc |-> "idle"]
  /\ name = [p \in Proc |-> None]
  /\ value = [p \in Proc |-> None]
  /\ reply = [p \in Proc |-> None]
  /\ raced = {} /\ listRaced = FALSE

Locked == path = "Torrents"

At(p, from, to) == pc[p] = from /\ pc' = [pc EXCEPT ![p] = to]

\* A call returns.
Returns(p, from) ==
  /\ At(p, from, "call")
  /\ name' = [name EXCEPT ![p] = None] /\ value' = [value EXCEPT ![p] = None]

\* Calls under way.
Getting(p, n) == pc[p] \in {"getDb", "getFill"} /\ name[p] = n
Listing(p) == pc[p] \in {"listDb", "listFill"}
WritingName(p, n) ==
  \/ pc[p] \in {"setList", "setDb", "remList", "remDb"} /\ name[p] = n
  \/ pc[p] \in {"clearList", "clearData"}

\* A write of the names N begins: it meets the calls under way on them ...
WriteBegins(N) ==
  LET met == {n \in N : \E q \in Proc : Getting(q, n) \/ WritingName(q, n)}
  IN  /\ raced' = (raced \ N) \cup met
      /\ listRaced' = \E q \in Proc : Listing(q)

\* ... and a read that begins meets the writes under way.
GetBegins(n) ==
  /\ raced' = raced \cup {m \in {n} : \E q \in Proc : WritingName(q, m)}
  /\ UNCHANGED listRaced

ListBegins ==
  /\ listRaced' = (listRaced \/ \E q \in Proc, n \in Name : WritingName(q, n))
  /\ UNCHANGED raced

\* A goroutine starts and ends a group of calls.
Lock(p) ==
  /\ At(p, "idle", "call")
  /\ IF Locked THEN mu = None /\ mu' = p ELSE UNCHANGED mu
  /\ UNCHANGED <<path, db, dataCache, listCache, name, value, reply, raceVars>>

Unlock(p) ==
  /\ At(p, "call", "idle")
  /\ mu' = IF Locked THEN None ELSE mu
  /\ UNCHANGED <<path, db, dataCache, listCache, name, value, reply, raceVars>>

-----------------------------------------------------------------------------
(* Reading                                                                  *)

\* Get answers from dataCache (which may hold nil) ...
GetHit(p, n) ==
  /\ pc[p] = "call" /\ dataCache[n] # Uncached
  /\ reply' = [reply EXCEPT ![p] = <<"get", n, dataCache[n]>>]
  /\ UNCHANGED <<path, db, dataCache, listCache, mu, pc, name, value, raceVars>>

\* ... or reads the database ...
GetMiss(p, n) ==
  /\ At(p, "call", "getDb") /\ dataCache[n] = Uncached
  /\ name' = [name EXCEPT ![p] = n]
  /\ GetBegins(n)
  /\ UNCHANGED <<path, db, dataCache, listCache, mu, value, reply>>

GetDb(p) ==
  /\ At(p, "getDb", "getFill")
  /\ value' = [value EXCEPT ![p] = db[name[p]]]
  /\ UNCHANGED <<path, db, dataCache, listCache, mu, name, reply, raceVars>>

\* ... and caches what it read.
GetFill(p) ==
  /\ Returns(p, "getFill")
  /\ dataCache' = [dataCache EXCEPT ![name[p]] = value[p]]
  /\ reply' = [reply EXCEPT ![p] = <<"get", name[p], value[p]>>]
  /\ UNCHANGED <<path, db, listCache, mu, raceVars>>

\* List does the same with listCache.
ListHit(p) ==
  /\ pc[p] = "call" /\ listCache # Uncached
  /\ reply' = [reply EXCEPT ![p] = <<"list", listCache>>]
  /\ UNCHANGED <<path, db, dataCache, listCache, mu, pc, name, value, raceVars>>

ListMiss(p) ==
  /\ At(p, "call", "listDb") /\ listCache = Uncached
  /\ ListBegins
  /\ UNCHANGED <<path, db, dataCache, listCache, mu, name, value, reply>>

ListDb(p) ==
  /\ At(p, "listDb", "listFill")
  /\ value' = [value EXCEPT ![p] = Stored(db)]
  /\ UNCHANGED <<path, db, dataCache, listCache, mu, name, reply, raceVars>>

ListFill(p) ==
  /\ Returns(p, "listFill")
  /\ listCache' = value[p]
  /\ reply' = [reply EXCEPT ![p] = <<"list", value[p]>>]
  /\ UNCHANGED <<path, db, dataCache, mu, raceVars>>

-----------------------------------------------------------------------------
(* Writing                                                                  *)

\* Set caches the value, forgets the list and writes the database.
SetData(p, n, v) ==
  /\ At(p, "call", "setList")
  /\ name' = [name EXCEPT ![p] = n]
  /\ value' = [value EXCEPT ![p] = v]
  /\ dataCache' = [dataCache EXCEPT ![n] = v]
  /\ WriteBegins({n})
  /\ UNCHANGED <<path, db, listCache, mu, reply>>

\* Mutant of Forgotten: Set leaves the cached list alone.
ForgottenNot == listCache

\* delete(v.listCache, xPath).
Forgotten == Uncached

SetList(p) ==
  /\ At(p, "setList", "setDb")
  /\ listCache' = Forgotten
  /\ UNCHANGED <<path, db, dataCache, mu, name, value, reply, raceVars>>

SetDb(p) ==
  /\ Returns(p, "setDb")
  /\ db' = [db EXCEPT ![name[p]] = value[p]]
  /\ UNCHANGED <<path, dataCache, listCache, mu, reply, raceVars>>

\* Mutant of RemData: the cached value is kept.
RemDataKept(p, n) ==
  /\ At(p, "call", "remList")
  /\ name' = [name EXCEPT ![p] = n]
  /\ WriteBegins({n})
  /\ UNCHANGED <<path, db, dataCache, listCache, mu, value, reply>>

\* Rem forgets the value and the list and removes the entry.
RemData(p, n) ==
  /\ At(p, "call", "remList")
  /\ name' = [name EXCEPT ![p] = n]
  /\ dataCache' = [dataCache EXCEPT ![n] = Uncached]
  /\ WriteBegins({n})
  /\ UNCHANGED <<path, db, listCache, mu, value, reply>>

RemList(p) ==
  /\ At(p, "remList", "remDb")
  /\ listCache' = Uncached
  /\ UNCHANGED <<path, db, dataCache, mu, name, value, reply, raceVars>>

RemDb(p) ==
  /\ Returns(p, "remDb")
  /\ db' = [db EXCEPT ![name[p]] = None]
  /\ UNCHANGED <<path, dataCache, listCache, mu, reply, raceVars>>

\* Clear empties the database first, then the list and the values.
Clear(p) ==
  /\ At(p, "call", "clearList")
  /\ db' = [n \in Name |-> None]
  /\ WriteBegins(Name)
  /\ UNCHANGED <<path, dataCache, listCache, mu, name, value, reply>>

ClearList(p) ==
  /\ At(p, "clearList", "clearData")
  /\ listCache' = Uncached
  /\ UNCHANGED <<path, db, dataCache, mu, name, value, reply, raceVars>>

ClearData(p) ==
  /\ Returns(p, "clearData")
  /\ dataCache' = [n \in Name |-> Uncached]
  /\ UNCHANGED <<path, db, listCache, mu, reply, raceVars>>

-----------------------------------------------------------------------------
Reading(p) ==
  \/ \E n \in Name : GetHit(p, n) \/ GetMiss(p, n)
  \/ GetDb(p) \/ GetFill(p)
  \/ ListHit(p) \/ ListMiss(p) \/ ListDb(p) \/ ListFill(p)

Writing(p) ==
  \/ \E n \in Name, v \in Value : SetData(p, n, v)
  \/ SetList(p) \/ SetDb(p)
  \/ \E n \in Name : RemData(p, n)
  \/ RemList(p) \/ RemDb(p)
  \/ Clear(p) \/ ClearList(p) \/ ClearData(p)

Next == \E p \in Proc : Lock(p) \/ Unlock(p) \/ Reading(p) \/ Writing(p)

Spec == Init /\ [][Next]_vars

-----------------------------------------------------------------------------
(* Properties                                                               *)

\* For "Torrents", whose callers hold settings.mu, the cache cannot be told from
\* the database: each Get and List returns what a map read at one instant holds,
\* hits, fills and half-done writes included.  It promises nothing of "Viewed".
kvStore == IF Locked THEN db ELSE [n \in Name |-> None]
kvReply == IF Locked THEN reply ELSE [p \in Proc |-> None]
KV == INSTANCE KVStore WITH store <- kvStore, reply <- kvReply
IsKVStore == KV!Spec

\* With no call in progress the next Get of a name returns what was written to it
\* last, unless that write overlapped another call on the name; and the next
\* List the names stored, unless the last write and a List overlapped.  A write
\* that meets no other call repairs what earlier ones left.  Under settings.mu no
\* write meets another call.  (Where they meet, dbreadcache.go does keep a value
\* or a list the database does not hold.)
Coherent ==
  (\A p \in Proc : pc[p] \in {"idle", "call"}) =>
    /\ \A n \in Name \ raced : dataCache[n] \in {Uncached, db[n]}
    /\ ~listRaced => listCache \in {Uncached, Stored(db)}
    /\ Locked => raced = {} /\ ~listRaced
=============================================================================
