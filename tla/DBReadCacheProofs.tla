------------------------- MODULE DBReadCacheProofs -------------------------
(***************************************************************************)
(* Proof that the read cache and the database agree except where a write    *)
(* met another call, for any names, values and goroutines, and that with    *)
(* settings.mu held by every caller it is the abstract store KVStore.       *)
(***************************************************************************)
EXTENDS DBReadCache, TLAPS

Types ==
  /\ path \in {"Torrents", "Viewed"}
  /\ db \in [Name -> Value \cup {None}]
  /\ dataCache \in [Name -> Value \cup {None, Uncached}]
  /\ mu \in Proc \cup {None}
  /\ pc \in [Proc -> PCs]
  /\ name \in [Proc -> Name \cup {None}]
  /\ value \in [Proc -> {None} \cup Value \cup SUBSET Name]
  /\ raced \subseteq Name /\ listRaced \in BOOLEAN

\* Only the holder of settings.mu is inside a group of calls, so nothing is met.
Holder ==
  Locked => /\ \A p \in Proc : pc[p] # "idle" <=> mu = p
            /\ raced = {} /\ ~listRaced

\* Calls that overlap are on record.
Apart ==
  \A p, q \in Proc : p # q =>
    /\ \A n \in Name : WritingName(p, n) /\ (Getting(q, n) \/ WritingName(q, n)) => n \in raced
    /\ (\E n \in Name : WritingName(p, n)) /\ Listing(q) => listRaced

\* A cached value differs from the database only while it is being written.
DataFresh ==
  \A n \in Name \ raced :
    dataCache[n] \in {Uncached, db[n]} \/ \E p \in Proc : WritingName(p, n)

\* A cached list does so only before a write forgets it, and is cached anew only
\* after the database is written.
ListFresh ==
  ~listRaced =>
    \/ listCache = Uncached
    \/ \E p \in Proc : pc[p] \in {"setList", "remList", "clearList"}
    \/ listCache = Stored(db) /\ \A p \in Proc : pc[p] \notin {"setDb", "remDb"}

\* What a goroutine relies on between two steps of a call.
Met(p) == pc[p] \in {"getFill", "setList", "setDb", "remList", "remDb"} /\ name[p] \in raced

OnWay(p) ==
  /\ pc[p] \in {"getDb", "getFill", "setList", "setDb", "remList", "remDb"} => name[p] \in Name
  /\ pc[p] = "getFill" => value[p] \in Value \cup {None} /\ (Met(p) \/ value[p] = db[name[p]])
  /\ pc[p] = "listFill" => listRaced \/ value[p] = Stored(db)
  /\ pc[p] \in {"setList", "setDb"} =>
       value[p] \in Value /\ (Met(p) \/ dataCache[name[p]] = value[p])
  /\ pc[p] \in {"remList", "remDb"} => Met(p) \/ dataCache[name[p]] = Uncached

IInv == Types /\ Holder /\ Apart /\ DataFresh /\ ListFresh /\ \A p \in Proc : OnWay(p)

-----------------------------------------------------------------------------
(* Every step keeps the invariant.                                         *)

LEMMA InitIInv == Init => IInv
<1> SUFFICES ASSUME Init PROVE IInv
  OBVIOUS
<1>1. Types
  BY DEF Init, Types, PCs
<1>2. Holder
  BY NilAssumption DEF Init, Holder
<1>3. \A p \in Proc : OnWay(p)
  BY DEF Init, OnWay
<1>4. Apart
  BY DEF Init, Apart, WritingName
<1> QED
  BY <1>1, <1>2, <1>3, <1>4 DEF Init, IInv, DataFresh, ListFresh

LEMMA StepIInv == IInv /\ [Next]_vars => IInv'
<1> SUFFICES ASSUME IInv, [Next]_vars PROVE IInv'
  OBVIOUS
<1> USE NilAssumption
<1>t. Types /\ Holder /\ Apart /\ DataFresh /\ ListFresh /\ \A q \in Proc : OnWay(q)
  BY DEF IInv
<1>1. ASSUME NEW p \in Proc, Lock(p) PROVE IInv'
  <2>1. Types'
    BY <1>t, <1>1 DEF Lock, At, raceVars, Types, OnWay, Stored, PCs
  <2>2. Holder'
    BY <1>t, <1>1 DEF Lock, At, raceVars, Types, Holder, Getting, WritingName, Listing, Locked
  <2>3. Apart'
    BY <1>t, <1>1 DEF Lock, At, raceVars, Types, Apart, Getting, WritingName, Listing
  <2>4. DataFresh'
    BY <1>t, <1>1 DEF Lock, At, raceVars, Types, OnWay, Met, Apart, DataFresh, Getting, WritingName
  <2>5. ListFresh'
    BY <1>t, <1>1 DEF Lock, At, raceVars, Types, OnWay, Apart, ListFresh, WritingName, Listing, Stored
  <2>6. \A q \in Proc : OnWay(q)'
    BY <1>t, <1>1 DEF Lock, At, raceVars, Types, OnWay, Met, Apart, DataFresh, Getting, WritingName, Listing, Stored
  <2> QED
    BY <2>1, <2>2, <2>3, <2>4, <2>5, <2>6 DEF IInv
<1>2. ASSUME NEW p \in Proc, Unlock(p) PROVE IInv'
  <2>1. Types'
    BY <1>t, <1>2 DEF Unlock, At, raceVars, Types, OnWay, Stored, PCs
  <2>2. Holder'
    BY <1>t, <1>2 DEF Unlock, At, raceVars, Types, Holder, Getting, WritingName, Listing, Locked
  <2>3. Apart'
    BY <1>t, <1>2 DEF Unlock, At, raceVars, Types, Apart, Getting, WritingName, Listing
  <2>4. DataFresh'
    BY <1>t, <1>2 DEF Unlock, At, raceVars, Types, OnWay, Met, Apart, DataFresh, Getting, WritingName
  <2>5. ListFresh'
    BY <1>t, <1>2 DEF Unlock, At, raceVars, Types, OnWay, Apart, ListFresh, WritingName, Listing, Stored
  <2>6. \A q \in Proc : OnWay(q)'
    BY <1>t, <1>2 DEF Unlock, At, raceVars, Types, OnWay, Met, Apart, DataFresh, Getting, WritingName, Listing, Stored
  <2> QED
    BY <2>1, <2>2, <2>3, <2>4, <2>5, <2>6 DEF IInv
<1>3. ASSUME NEW p \in Proc, NEW n \in Name, GetHit(p, n) PROVE IInv'
  BY <1>t, <1>3 DEF GetHit, raceVars, IInv, Types, Holder, Apart, DataFresh, ListFresh, OnWay, Met, WritingName, Getting, Listing, Stored, Locked
<1>4. ASSUME NEW p \in Proc, NEW n \in Name, GetMiss(p, n) PROVE IInv'
  <2>1. Types'
    BY <1>t, <1>4 DEF GetMiss, At, GetBegins, raceVars, Types, OnWay, Stored, PCs
  <2>2. Holder'
    BY <1>t, <1>4 DEF GetMiss, At, GetBegins, raceVars, Types, Holder, Getting, WritingName, Listing, Locked
  <2>3. Apart'
    BY <1>t, <1>4 DEF GetMiss, At, GetBegins, raceVars, Types, Apart, Getting, WritingName, Listing
  <2>4. DataFresh'
    BY <1>t, <1>4 DEF GetMiss, At, GetBegins, raceVars, Types, OnWay, Met, Apart, DataFresh, Getting, WritingName
  <2>5. ListFresh'
    BY <1>t, <1>4 DEF GetMiss, At, GetBegins, raceVars, Types, OnWay, Apart, ListFresh, WritingName, Listing, Stored
  <2>6. \A q \in Proc : OnWay(q)'
    BY <1>t, <1>4 DEF GetMiss, At, GetBegins, raceVars, Types, OnWay, Met, Apart, DataFresh, Getting, WritingName, Listing, Stored
  <2> QED
    BY <2>1, <2>2, <2>3, <2>4, <2>5, <2>6 DEF IInv
<1>5. ASSUME NEW p \in Proc, GetDb(p) PROVE IInv'
  <2>1. Types'
    BY <1>t, <1>5 DEF GetDb, At, raceVars, Types, OnWay, Stored, PCs
  <2>2. Holder'
    BY <1>t, <1>5 DEF GetDb, At, raceVars, Types, Holder, Getting, WritingName, Listing, Locked
  <2>3. Apart'
    BY <1>t, <1>5 DEF GetDb, At, raceVars, Types, Apart, Getting, WritingName, Listing
  <2>4. DataFresh'
    BY <1>t, <1>5 DEF GetDb, At, raceVars, Types, OnWay, Met, Apart, DataFresh, Getting, WritingName
  <2>5. ListFresh'
    BY <1>t, <1>5 DEF GetDb, At, raceVars, Types, OnWay, Apart, ListFresh, WritingName, Listing, Stored
  <2>6. \A q \in Proc : OnWay(q)'
    BY <1>t, <1>5 DEF GetDb, At, raceVars, Types, OnWay, Met, Apart, DataFresh, Getting, WritingName, Listing, Stored
  <2> QED
    BY <2>1, <2>2, <2>3, <2>4, <2>5, <2>6 DEF IInv
<1>6. ASSUME NEW p \in Proc, GetFill(p) PROVE IInv'
  <2>1. Types'
    BY <1>t, <1>6 DEF GetFill, At, Returns, raceVars, Types, OnWay, Stored, PCs
  <2>2. Holder'
    BY <1>t, <1>6 DEF GetFill, At, Returns, raceVars, Types, Holder, Getting, WritingName, Listing, Locked
  <2>3. Apart'
    BY <1>t, <1>6 DEF GetFill, At, Returns, raceVars, Types, Apart, Getting, WritingName, Listing
  <2>4. DataFresh'
    BY <1>t, <1>6 DEF GetFill, At, Returns, raceVars, Types, OnWay, Met, Apart, DataFresh, Getting, WritingName
  <2>5. ListFresh'
    BY <1>t, <1>6 DEF GetFill, At, Returns, raceVars, Types, OnWay, Apart, ListFresh, WritingName, Listing, Stored
  <2>6. \A q \in Proc : OnWay(q)'
    BY <1>t, <1>6 DEF GetFill, At, Returns, raceVars, Types, OnWay, Met, Apart, DataFresh, Getting, WritingName, Listing, Stored
  <2> QED
    BY <2>1, <2>2, <2>3, <2>4, <2>5, <2>6 DEF IInv
<1>7. ASSUME NEW p \in Proc, ListHit(p) PROVE IInv'
  BY <1>t, <1>7 DEF ListHit, raceVars, IInv, Types, Holder, Apart, DataFresh, ListFresh, OnWay, Met, WritingName, Getting, Listing, Stored, Locked
<1>8. ASSUME NEW p \in Proc, ListMiss(p) PROVE IInv'
  <2>1. Types'
    BY <1>t, <1>8 DEF ListMiss, At, ListBegins, raceVars, Types, OnWay, Stored, PCs
  <2>2. Holder'
    BY <1>t, <1>8 DEF ListMiss, At, ListBegins, raceVars, Types, Holder, Getting, WritingName, Listing, Locked
  <2>3. Apart'
    BY <1>t, <1>8 DEF ListMiss, At, ListBegins, raceVars, Types, Apart, Getting, WritingName, Listing
  <2>4. DataFresh'
    BY <1>t, <1>8 DEF ListMiss, At, ListBegins, raceVars, Types, OnWay, Met, Apart, DataFresh, Getting, WritingName
  <2>5. ListFresh'
    BY <1>t, <1>8 DEF ListMiss, At, ListBegins, raceVars, Types, OnWay, Apart, ListFresh, WritingName, Listing, Stored
  <2>6. \A q \in Proc : OnWay(q)'
    BY <1>t, <1>8 DEF ListMiss, At, ListBegins, raceVars, Types, OnWay, Met, Apart, DataFresh, Getting, WritingName, Listing, Stored
  <2> QED
    BY <2>1, <2>2, <2>3, <2>4, <2>5, <2>6 DEF IInv
<1>9. ASSUME NEW p \in Proc, ListDb(p) PROVE IInv'
  <2>1. Types'
    BY <1>t, <1>9 DEF ListDb, At, raceVars, Types, OnWay, Stored, PCs
  <2>2. Holder'
    BY <1>t, <1>9 DEF ListDb, At, raceVars, Types, Holder, Getting, WritingName, Listing, Locked
  <2>3. Apart'
    BY <1>t, <1>9 DEF ListDb, At, raceVars, Types, Apart, Getting, WritingName, Listing
  <2>4. DataFresh'
    BY <1>t, <1>9 DEF ListDb, At, raceVars, Types, OnWay, Met, Apart, DataFresh, Getting, WritingName
  <2>5. ListFresh'
    BY <1>t, <1>9 DEF ListDb, At, raceVars, Types, OnWay, Apart, ListFresh, WritingName, Listing, Stored
  <2>6. \A q \in Proc : OnWay(q)'
    BY <1>t, <1>9 DEF ListDb, At, raceVars, Types, OnWay, Met, Apart, DataFresh, Getting, WritingName, Listing, Stored
  <2> QED
    BY <2>1, <2>2, <2>3, <2>4, <2>5, <2>6 DEF IInv
<1>10. ASSUME NEW p \in Proc, ListFill(p) PROVE IInv'
  <2>1. Types'
    BY <1>t, <1>10 DEF ListFill, At, Returns, raceVars, Types, OnWay, Stored, PCs
  <2>2. Holder'
    BY <1>t, <1>10 DEF ListFill, At, Returns, raceVars, Types, Holder, Getting, WritingName, Listing, Locked
  <2>3. Apart'
    BY <1>t, <1>10 DEF ListFill, At, Returns, raceVars, Types, Apart, Getting, WritingName, Listing
  <2>4. DataFresh'
    BY <1>t, <1>10 DEF ListFill, At, Returns, raceVars, Types, OnWay, Met, Apart, DataFresh, Getting, WritingName
  <2>5. ListFresh'
    BY <1>t, <1>10 DEF ListFill, At, Returns, raceVars, Types, OnWay, Apart, ListFresh, WritingName, Listing, Stored
  <2>6. \A q \in Proc : OnWay(q)'
    BY <1>t, <1>10 DEF ListFill, At, Returns, raceVars, Types, OnWay, Met, Apart, DataFresh, Getting, WritingName, Listing, Stored
  <2> QED
    BY <2>1, <2>2, <2>3, <2>4, <2>5, <2>6 DEF IInv
<1>11. ASSUME NEW p \in Proc, NEW n \in Name, NEW v \in Value, SetData(p, n, v) PROVE IInv'
  <2>1. Types'
    BY <1>t, <1>11 DEF SetData, At, WriteBegins, raceVars, Types, OnWay, Stored, PCs
  <2>2. Holder'
    BY <1>t, <1>11 DEF SetData, At, WriteBegins, raceVars, Types, Holder, Getting, WritingName, Listing, Locked
  <2>3. Apart'
    BY <1>t, <1>11 DEF SetData, At, WriteBegins, raceVars, Types, Apart, Getting, WritingName, Listing
  <2>4. DataFresh'
    BY <1>t, <1>11 DEF SetData, At, WriteBegins, raceVars, Types, OnWay, Met, Apart, DataFresh, Getting, WritingName
  <2>5. ListFresh'
    BY <1>t, <1>11 DEF SetData, At, WriteBegins, raceVars, Types, OnWay, Apart, ListFresh, WritingName, Listing, Stored
  <2>6. \A q \in Proc : OnWay(q)'
    BY <1>t, <1>11 DEF SetData, At, WriteBegins, raceVars, Types, OnWay, Met, Apart, DataFresh, Getting, WritingName, Listing, Stored
  <2> QED
    BY <2>1, <2>2, <2>3, <2>4, <2>5, <2>6 DEF IInv
<1>12. ASSUME NEW p \in Proc, SetList(p) PROVE IInv'
  <2>1. Types'
    BY <1>t, <1>12 DEF SetList, At, Forgotten, raceVars, Types, OnWay, Stored, PCs
  <2>2. Holder'
    BY <1>t, <1>12 DEF SetList, At, Forgotten, raceVars, Types, Holder, Getting, WritingName, Listing, Locked
  <2>3. Apart'
    BY <1>t, <1>12 DEF SetList, At, Forgotten, raceVars, Types, Apart, Getting, WritingName, Listing
  <2>4. DataFresh'
    BY <1>t, <1>12 DEF SetList, At, Forgotten, raceVars, Types, OnWay, Met, Apart, DataFresh, Getting, WritingName
  <2>5. ListFresh'
    BY <1>t, <1>12 DEF SetList, At, Forgotten, raceVars, Types, OnWay, Apart, ListFresh, WritingName, Listing, Stored
  <2>6. \A q \in Proc : OnWay(q)'
    BY <1>t, <1>12 DEF SetList, At, Forgotten, raceVars, Types, OnWay, Met, Apart, DataFresh, Getting, WritingName, Listing, Stored
  <2> QED
    BY <2>1, <2>2, <2>3, <2>4, <2>5, <2>6 DEF IInv
<1>13. ASSUME NEW p \in Proc, SetDb(p) PROVE IInv'
  <2>1. Types'
    BY <1>t, <1>13 DEF SetDb, At, Returns, raceVars, Types, OnWay, Stored, PCs
  <2>2. Holder'
    BY <1>t, <1>13 DEF SetDb, At, Returns, raceVars, Types, Holder, Getting, WritingName, Listing, Locked
  <2>3. Apart'
    BY <1>t, <1>13 DEF SetDb, At, Returns, raceVars, Types, Apart, Getting, WritingName, Listing
  <2>4. DataFresh'
    BY <1>t, <1>13 DEF SetDb, At, Returns, raceVars, Types, OnWay, Met, Apart, DataFresh, Getting, WritingName
  <2>5. ListFresh'
    BY <1>t, <1>13 DEF SetDb, At, Returns, raceVars, Types, OnWay, Apart, ListFresh, WritingName, Listing, Stored
  <2>6. \A q \in Proc : OnWay(q)'
    BY <1>t, <1>13 DEF SetDb, At, Returns, raceVars, Types, OnWay, Met, Apart, DataFresh, Getting, WritingName, Listing, Stored
  <2> QED
    BY <2>1, <2>2, <2>3, <2>4, <2>5, <2>6 DEF IInv
<1>14. ASSUME NEW p \in Proc, NEW n \in Name, RemData(p, n) PROVE IInv'
  <2>1. Types'
    BY <1>t, <1>14 DEF RemData, At, WriteBegins, raceVars, Types, OnWay, Stored, PCs
  <2>2. Holder'
    BY <1>t, <1>14 DEF RemData, At, WriteBegins, raceVars, Types, Holder, Getting, WritingName, Listing, Locked
  <2>3. Apart'
    BY <1>t, <1>14 DEF RemData, At, WriteBegins, raceVars, Types, Apart, Getting, WritingName, Listing
  <2>4. DataFresh'
    BY <1>t, <1>14 DEF RemData, At, WriteBegins, raceVars, Types, OnWay, Met, Apart, DataFresh, Getting, WritingName
  <2>5. ListFresh'
    BY <1>t, <1>14 DEF RemData, At, WriteBegins, raceVars, Types, OnWay, Apart, ListFresh, WritingName, Listing, Stored
  <2>6. \A q \in Proc : OnWay(q)'
    BY <1>t, <1>14 DEF RemData, At, WriteBegins, raceVars, Types, OnWay, Met, Apart, DataFresh, Getting, WritingName, Listing, Stored
  <2> QED
    BY <2>1, <2>2, <2>3, <2>4, <2>5, <2>6 DEF IInv
<1>15. ASSUME NEW p \in Proc, RemList(p) PROVE IInv'
  <2>1. Types'
    BY <1>t, <1>15 DEF RemList, At, raceVars, Types, OnWay, Stored, PCs
  <2>2. Holder'
    BY <1>t, <1>15 DEF RemList, At, raceVars, Types, Holder, Getting, WritingName, Listing, Locked
  <2>3. Apart'
    BY <1>t, <1>15 DEF RemList, At, raceVars, Types, Apart, Getting, WritingName, Listing
  <2>4. DataFresh'
    BY <1>t, <1>15 DEF RemList, At, raceVars, Types, OnWay, Met, Apart, DataFresh, Getting, WritingName
  <2>5. ListFresh'
    BY <1>t, <1>15 DEF RemList, At, raceVars, Types, OnWay, Apart, ListFresh, WritingName, Listing, Stored
  <2>6. \A q \in Proc : OnWay(q)'
    BY <1>t, <1>15 DEF RemList, At, raceVars, Types, OnWay, Met, Apart, DataFresh, Getting, WritingName, Listing, Stored
  <2> QED
    BY <2>1, <2>2, <2>3, <2>4, <2>5, <2>6 DEF IInv
<1>16. ASSUME NEW p \in Proc, RemDb(p) PROVE IInv'
  <2>1. Types'
    BY <1>t, <1>16 DEF RemDb, At, Returns, raceVars, Types, OnWay, Stored, PCs
  <2>2. Holder'
    BY <1>t, <1>16 DEF RemDb, At, Returns, raceVars, Types, Holder, Getting, WritingName, Listing, Locked
  <2>3. Apart'
    BY <1>t, <1>16 DEF RemDb, At, Returns, raceVars, Types, Apart, Getting, WritingName, Listing
  <2>4. DataFresh'
    BY <1>t, <1>16 DEF RemDb, At, Returns, raceVars, Types, OnWay, Met, Apart, DataFresh, Getting, WritingName
  <2>5. ListFresh'
    BY <1>t, <1>16 DEF RemDb, At, Returns, raceVars, Types, OnWay, Apart, ListFresh, WritingName, Listing, Stored
  <2>6. \A q \in Proc : OnWay(q)'
    BY <1>t, <1>16 DEF RemDb, At, Returns, raceVars, Types, OnWay, Met, Apart, DataFresh, Getting, WritingName, Listing, Stored
  <2> QED
    BY <2>1, <2>2, <2>3, <2>4, <2>5, <2>6 DEF IInv
<1>17. ASSUME NEW p \in Proc, Clear(p) PROVE IInv'
  <2>1. Types'
    BY <1>t, <1>17 DEF Clear, At, WriteBegins, raceVars, Types, OnWay, Stored, PCs
  <2>2. Holder'
    BY <1>t, <1>17 DEF Clear, At, WriteBegins, raceVars, Types, Holder, Getting, WritingName, Listing, Locked
  <2>3. Apart'
    BY <1>t, <1>17 DEF Clear, At, WriteBegins, raceVars, Types, Apart, Getting, WritingName, Listing
  <2>4. DataFresh'
    BY <1>t, <1>17 DEF Clear, At, WriteBegins, raceVars, Types, OnWay, Met, Apart, DataFresh, Getting, WritingName
  <2>5. ListFresh'
    BY <1>t, <1>17 DEF Clear, At, WriteBegins, raceVars, Types, OnWay, Apart, ListFresh, WritingName, Listing, Stored
  <2>6. \A q \in Proc : OnWay(q)'
    BY <1>t, <1>17 DEF Clear, At, WriteBegins, raceVars, Types, OnWay, Met, Apart, DataFresh, Getting, WritingName, Listing, Stored
  <2> QED
    BY <2>1, <2>2, <2>3, <2>4, <2>5, <2>6 DEF IInv
<1>18. ASSUME NEW p \in Proc, ClearList(p) PROVE IInv'
  <2>1. Types'
    BY <1>t, <1>18 DEF ClearList, At, raceVars, Types, OnWay, Stored, PCs
  <2>2. Holder'
    BY <1>t, <1>18 DEF ClearList, At, raceVars, Types, Holder, Getting, WritingName, Listing, Locked
  <2>3. Apart'
    BY <1>t, <1>18 DEF ClearList, At, raceVars, Types, Apart, Getting, WritingName, Listing
  <2>4. DataFresh'
    BY <1>t, <1>18 DEF ClearList, At, raceVars, Types, OnWay, Met, Apart, DataFresh, Getting, WritingName
  <2>5. ListFresh'
    BY <1>t, <1>18 DEF ClearList, At, raceVars, Types, OnWay, Apart, ListFresh, WritingName, Listing, Stored
  <2>6. \A q \in Proc : OnWay(q)'
    BY <1>t, <1>18 DEF ClearList, At, raceVars, Types, OnWay, Met, Apart, DataFresh, Getting, WritingName, Listing, Stored
  <2> QED
    BY <2>1, <2>2, <2>3, <2>4, <2>5, <2>6 DEF IInv
<1>19. ASSUME NEW p \in Proc, ClearData(p) PROVE IInv'
  <2>1. Types'
    BY <1>t, <1>19 DEF ClearData, At, Returns, raceVars, Types, OnWay, Stored, PCs
  <2>2. Holder'
    BY <1>t, <1>19 DEF ClearData, At, Returns, raceVars, Types, Holder, Getting, WritingName, Listing, Locked
  <2>3. Apart'
    BY <1>t, <1>19 DEF ClearData, At, Returns, raceVars, Types, Apart, Getting, WritingName, Listing
  <2>4. DataFresh'
    BY <1>t, <1>19 DEF ClearData, At, Returns, raceVars, Types, OnWay, Met, Apart, DataFresh, Getting, WritingName
  <2>5. ListFresh'
    BY <1>t, <1>19 DEF ClearData, At, Returns, raceVars, Types, OnWay, Apart, ListFresh, WritingName, Listing, Stored
  <2>6. \A q \in Proc : OnWay(q)'
    BY <1>t, <1>19 DEF ClearData, At, Returns, raceVars, Types, OnWay, Met, Apart, DataFresh, Getting, WritingName, Listing, Stored
  <2> QED
    BY <2>1, <2>2, <2>3, <2>4, <2>5, <2>6 DEF IInv
<1>20. CASE UNCHANGED vars
  BY <1>t, <1>20 DEF vars, callVars, raceVars, IInv, Types, Holder, Apart, DataFresh, ListFresh, OnWay, Met,
       WritingName, Getting, Listing, Stored, Locked
<1> QED
  BY <1>1, <1>2, <1>3, <1>4, <1>5, <1>6, <1>7, <1>8, <1>9, <1>10, <1>11, <1>12, <1>13, <1>14, <1>15, <1>16, <1>17, <1>18, <1>19, <1>20
     DEF Next, Reading, Writing

LEMMA CacheIInv == Spec => []IInv
BY InitIInv, StepIInv, PTL DEF Spec

-----------------------------------------------------------------------------
(* The refinement.                                                         *)

\* For "Torrents" every step of the cache is a step of the store, or none.
LEMMA StepRefines ==
  ASSUME IInv, [Next]_vars
  PROVE  [KV!Next]_<<kvStore, kvReply>>
<1>t. Types /\ Holder /\ DataFresh /\ ListFresh /\ \A q \in Proc : OnWay(q)
  BY DEF IInv
<1>p. path' = path
  BY DEF Next, Reading, Writing, Lock, Unlock, GetHit, GetMiss, GetDb, GetFill, ListHit, ListMiss, ListDb,
       ListFill, SetData, SetList, SetDb, RemData, RemList, RemDb, Clear, ClearList, ClearData, vars
<1>u. CASE ~Locked
  BY <1>p, <1>u DEF kvStore, kvReply, Locked
<1>l. CASE Locked
  <2>m. kvStore = db /\ kvReply = reply /\ kvStore' = db' /\ kvReply' = reply'
    BY <1>p, <1>l DEF kvStore, kvReply, Locked
  <2>a. ASSUME NEW p \in Proc, pc[p] = "call"
        PROVE  /\ \A n \in Name : dataCache[n] \in {Uncached, db[n]}
               /\ listCache \in {Uncached, Stored(db)}
    <3>1. \A q \in Proc : pc[q] \in {"idle", "call"}
      BY <1>t, <1>l, <2>a DEF Holder
    <3>2. \A q \in Proc, n \in Name : ~WritingName(q, n)
      BY <3>1 DEF WritingName
    <3> QED
      BY <1>t, <1>l, <3>1, <3>2 DEF DataFresh, ListFresh, Holder
  <2>o. raced = {} /\ ~listRaced
    BY <1>t, <1>l DEF Holder
  <2>1. ASSUME NEW p \in Proc, NEW n \in Name, GetHit(p, n) PROVE KV!Next
    BY <2>a, <2>m, <2>1 DEF GetHit, KV!Next, KV!Get
  <2>2. ASSUME NEW p \in Proc, GetFill(p) PROVE KV!Next
    <3>1. name[p] \in Name /\ value[p] = db[name[p]]
      BY <1>t, <2>o, <2>2 DEF GetFill, Returns, At, OnWay, Met
    <3> QED
      BY <2>m, <2>2, <3>1 DEF GetFill, KV!Next, KV!Get
  <2>3. ASSUME NEW p \in Proc, ListHit(p) PROVE KV!Next
    <3>1. listCache = Stored(db)
      BY <2>a, <2>3 DEF ListHit
    <3> QED
      BY <2>m, <2>3, <3>1 DEF ListHit, KV!Next, KV!List, KV!Stored, Stored
  <2>4. ASSUME NEW p \in Proc, ListFill(p) PROVE KV!Next
    <3>1. value[p] = Stored(db)
      BY <1>t, <2>o, <2>4 DEF ListFill, Returns, At, OnWay
    <3> QED
      BY <2>m, <2>4, <3>1 DEF ListFill, KV!Next, KV!List, KV!Stored, Stored
  <2>5. ASSUME NEW p \in Proc, SetDb(p) PROVE KV!Next
    <3>1. name[p] \in Name /\ value[p] \in Value
      BY <1>t, <2>5 DEF SetDb, Returns, At, OnWay
    <3> QED
      BY <2>m, <2>5, <3>1 DEF SetDb, KV!Next, KV!Set
  <2>6. ASSUME NEW p \in Proc, RemDb(p) PROVE KV!Next
    <3>1. name[p] \in Name
      BY <1>t, <2>6 DEF RemDb, Returns, At, OnWay
    <3> QED
      BY <2>m, <2>6, <3>1 DEF RemDb, KV!Next, KV!Rem
  <2>7. ASSUME NEW p \in Proc, Clear(p) PROVE KV!Next
    BY <2>m, <2>7 DEF Clear, KV!Next, KV!Clear
  <2>8. CASE UNCHANGED <<db, reply>>
    BY <2>m, <2>8
  <2> QED
    BY <2>1, <2>2, <2>3, <2>4, <2>5, <2>6, <2>7, <2>8
       DEF Next, Reading, Writing, Lock, Unlock, GetMiss, GetDb, ListMiss, ListDb, SetData, SetList,
           RemData, RemList, ClearList, ClearData, vars, callVars
<1> QED
  BY <1>u, <1>l

\* AddTorrent, ListTorrent and RemTorrent, which hold settings.mu, may treat the
\* cached database as a map: no Get or List ever returns anything else than the
\* entries stored at that instant.
THEOREM TorrentsSeeKVStore == Spec => IsKVStore
<1>1. Init => KV!Init
  BY DEF Init, KV!Init, kvStore, kvReply
<1>2. IInv /\ [Next]_vars => [KV!Next]_<<kvStore, kvReply>>
  BY StepRefines
<1> QED
  BY CacheIInv, <1>1, <1>2, PTL DEF Spec, IsKVStore, KV!Spec, KV!kvars

\* Between two calls the cache agrees with the database on every name and list
\* whose last write met no other call; for the callers that hold settings.mu, on
\* all of them.
THEOREM CacheIsCoherent == Spec => []Coherent
<1>1. IInv => Coherent
  <2> SUFFICES ASSUME IInv, \A p \in Proc : pc[p] \in {"idle", "call"}
               PROVE  /\ \A n \in Name \ raced : dataCache[n] \in {Uncached, db[n]}
                      /\ ~listRaced => listCache \in {Uncached, Stored(db)}
                      /\ Locked => raced = {} /\ ~listRaced
    BY DEF Coherent
  <2>1. \A p \in Proc, n \in Name : ~WritingName(p, n)
    BY DEF WritingName
  <2> QED
    BY <2>1 DEF IInv, DataFresh, ListFresh, Holder
<1> QED
  BY CacheIInv, <1>1, PTL
=============================================================================
