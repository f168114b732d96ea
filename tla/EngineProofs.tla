----------------------------- MODULE EngineProofs ----------------------------
(***************************************************************************)
(* Proofs about the engine: about TorrentLifecycle, for every set of       *)
(* hashes, torrents, handles and goroutines, and, at the end, about        *)
(* TorrReader, the readers of a cache.                                     *)
(***************************************************************************)
EXTENDS TorrentLifecycle, TorrReader, TLAPS

\* What a goroutine's locals hold at each point of its code.
LocalsOK ==
  \A p \in Proc :
    /\ pc[p] \in {"add", "insert", "remove"} => hsh[p] \in Hash
    /\ pc[p] = "insert" => hnd[p] \in Handle
    /\ pc[p] \notin {"idle", "add", "insert", "remove"}
         => tor[p] \in Tor /\ stat[tor[p]] # "Free"

\* Allocated torrents and library torrents have a hash, and the map keeps each
\* torrent under its own.
HashOK ==
  /\ \A t \in Tor : stat[t] # "Free" => hashOf[t] \in Hash
  /\ \A h \in Handle : hst[h] # "free" => hhash[h] \in Hash
  /\ \A x \in Hash : torrents[x] # None
       => stat[torrents[x]] # "Free" /\ hashOf[torrents[x]] = x

LEMMA InitTypes == Init => TypeOK /\ LocalsOK /\ HashOK
  BY NoneAssumption DEF Init, TypeOK, TorTypes, BtTypes, LibTypes, ProcTypes, AdminTypes, FlagTypes, LocalsOK, HashOK, Stats, PCs, AdminPCs

\* Every step keeps the types.
LEMMA TypeStep == TypeOK /\ LocalsOK /\ HashOK /\ [Next]_vars => TypeOK'
<1> DEFINE Goal == TypeOK'
<1> SUFFICES ASSUME TypeOK, LocalsOK, HashOK, [Next]_vars PROVE Goal
  OBVIOUS
<1> USE NoneAssumption, ConfigAssumption
    DEF vars, torVars, btVars, libVars, procVars, locals, adminVars
<1>1. ASSUME NEW h \in Handle, InfoArrives(h) PROVE Goal
  <2>1. TorTypes'
    BY <1>1 DEF InfoArrives, CacheIn, TypeOK, TorTypes, BtTypes, ProcTypes, LocalsOK, HashOK, Stats
  <2>2. BtTypes'
    BY <1>1 DEF InfoArrives, CacheIn, TypeOK, BtTypes, TorTypes, LibTypes, ProcTypes, LocalsOK, HashOK
  <2>3. LibTypes'
    BY <1>1 DEF InfoArrives, CacheIn, TypeOK, LibTypes, BtTypes, ProcTypes, LocalsOK, HashOK
  <2>4. ProcTypes'
    BY <1>1 DEF InfoArrives, CacheIn, TypeOK, ProcTypes, TorTypes, BtTypes, LocalsOK, HashOK, PCs
  <2>5. AdminTypes'
    BY <1>1 DEF InfoArrives, CacheIn, TypeOK, AdminTypes, AdminPCs
  <2>6. FlagTypes'
    <3>1. fresh' \in [Tor -> BOOLEAN]
      BY <1>1 DEF InfoArrives, CacheIn, TypeOK, FlagTypes
    <3>2. mu' \in [Tor -> BOOLEAN]
      BY <1>1 DEF InfoArrives, CacheIn, TypeOK, FlagTypes
    <3>3. client' \in BOOLEAN
      BY <1>1 DEF InfoArrives, CacheIn, TypeOK, FlagTypes
    <3>4. hinfo' \in [Handle -> BOOLEAN]
      BY <1>1 DEF InfoArrives, CacheIn, TypeOK, FlagTypes
    <3>5. open' \in [Handle -> BOOLEAN]
      BY <1>1 DEF InfoArrives, CacheIn, TypeOK, FlagTypes
    <3> QED BY <3>1, <3>2, <3>3, <3>4, <3>5 DEF FlagTypes
  <2> QED BY <2>1, <2>2, <2>3, <2>4, <2>5, <2>6 DEF TypeOK
<1>2. ASSUME NEW h \in Handle, CloseStorage(h) PROVE Goal
  <2>1. TorTypes'
    BY <1>2 DEF CloseStorage, CacheIn, TypeOK, TorTypes, BtTypes, ProcTypes, LocalsOK, HashOK, Stats
  <2>2. BtTypes'
    BY <1>2 DEF CloseStorage, CacheIn, TypeOK, BtTypes, TorTypes, LibTypes, ProcTypes, LocalsOK, HashOK
  <2>3. LibTypes'
    BY <1>2 DEF CloseStorage, CacheIn, TypeOK, LibTypes, BtTypes, ProcTypes, LocalsOK, HashOK
  <2>4. ProcTypes'
    BY <1>2 DEF CloseStorage, CacheIn, TypeOK, ProcTypes, TorTypes, BtTypes, LocalsOK, HashOK, PCs
  <2>5. AdminTypes'
    BY <1>2 DEF CloseStorage, CacheIn, TypeOK, AdminTypes, AdminPCs
  <2>6. FlagTypes'
    <3>1. fresh' \in [Tor -> BOOLEAN]
      BY <1>2 DEF CloseStorage, CacheIn, TypeOK, FlagTypes
    <3>2. mu' \in [Tor -> BOOLEAN]
      BY <1>2 DEF CloseStorage, CacheIn, TypeOK, FlagTypes
    <3>3. client' \in BOOLEAN
      BY <1>2 DEF CloseStorage, CacheIn, TypeOK, FlagTypes
    <3>4. hinfo' \in [Handle -> BOOLEAN]
      BY <1>2 DEF CloseStorage, CacheIn, TypeOK, FlagTypes
    <3>5. open' \in [Handle -> BOOLEAN]
      BY <1>2 DEF CloseStorage, CacheIn, TypeOK, FlagTypes
    <3> QED BY <3>1, <3>2, <3>3, <3>4, <3>5 DEF FlagTypes
  <2> QED BY <2>1, <2>2, <2>3, <2>4, <2>5, <2>6 DEF TypeOK
<1>3. ASSUME NEW t \in Tor, ExpireTime(t) PROVE Goal
  BY <1>3 DEF ExpireTime, TypeOK, TorTypes, BtTypes, LibTypes, ProcTypes, AdminTypes, FlagTypes, LocalsOK, HashOK, Stats, PCs, AdminPCs
<1>4. ASSUME NEW p \in Proc, NEW x \in Hash, GetTorrent(p, x) PROVE Goal
  <2>1. TorTypes'
    BY <1>4 DEF GetTorrent, Goto, TypeOK, TorTypes, BtTypes, ProcTypes, LocalsOK, HashOK, Stats
  <2>2. BtTypes'
    BY <1>4 DEF GetTorrent, Goto, TypeOK, BtTypes, TorTypes, LibTypes, ProcTypes, LocalsOK, HashOK
  <2>3. LibTypes'
    BY <1>4 DEF GetTorrent, Goto, TypeOK, LibTypes, BtTypes, ProcTypes, LocalsOK, HashOK
  <2>4. ProcTypes'
    BY <1>4 DEF GetTorrent, Goto, TypeOK, ProcTypes, TorTypes, BtTypes, LocalsOK, HashOK, PCs
  <2>5. AdminTypes'
    BY <1>4 DEF GetTorrent, Goto, TypeOK, AdminTypes, AdminPCs
  <2>6. FlagTypes'
    <3>1. fresh' \in [Tor -> BOOLEAN]
      BY <1>4 DEF GetTorrent, Goto, TypeOK, FlagTypes
    <3>2. mu' \in [Tor -> BOOLEAN]
      BY <1>4 DEF GetTorrent, Goto, TypeOK, FlagTypes
    <3>3. client' \in BOOLEAN
      BY <1>4 DEF GetTorrent, Goto, TypeOK, FlagTypes
    <3>4. hinfo' \in [Handle -> BOOLEAN]
      BY <1>4 DEF GetTorrent, Goto, TypeOK, FlagTypes
    <3>5. open' \in [Handle -> BOOLEAN]
      BY <1>4 DEF GetTorrent, Goto, TypeOK, FlagTypes
    <3> QED BY <3>1, <3>2, <3>3, <3>4, <3>5 DEF FlagTypes
  <2> QED BY <2>1, <2>2, <2>3, <2>4, <2>5, <2>6 DEF TypeOK
<1>5. ASSUME NEW p \in Proc, NEW x \in Hash, AddTorrent(p, x) PROVE Goal
  BY <1>5 DEF AddTorrent, Goto, TypeOK, TorTypes, BtTypes, LibTypes, ProcTypes, AdminTypes, FlagTypes, LocalsOK, HashOK, Stats, PCs, AdminPCs
<1>6. ASSUME NEW p \in Proc, NEW x \in Hash, DropTorrent(p, x) PROVE Goal
  BY <1>6 DEF DropTorrent, Goto, TypeOK, TorTypes, BtTypes, LibTypes, ProcTypes, AdminTypes, FlagTypes, LocalsOK, HashOK, Stats, PCs, AdminPCs
<1>7. ASSUME NEW p \in Proc, NEW t \in Tor, ProgressEvent(p, t) PROVE Goal
  BY <1>7 DEF ProgressEvent, Goto, TypeOK, TorTypes, BtTypes, LibTypes, ProcTypes, AdminTypes, FlagTypes, LocalsOK, HashOK, Stats, PCs, AdminPCs
<1>8. ASSUME NEW p \in Proc, NewTorrentAdd(p) PROVE Goal
  <2>1. TorTypes'
    BY <1>8 DEF NewTorrentAdd, Goto, Return, Connected, LibTorrent, TypeOK, TorTypes, BtTypes, ProcTypes, LocalsOK, HashOK, Stats
  <2>2. BtTypes'
    BY <1>8 DEF NewTorrentAdd, Goto, Return, Connected, LibTorrent, TypeOK, BtTypes, TorTypes, LibTypes, ProcTypes, LocalsOK, HashOK
  <2>3. LibTypes'
    BY <1>8 DEF NewTorrentAdd, Goto, Return, Connected, LibTorrent, TypeOK, LibTypes, BtTypes, ProcTypes, LocalsOK, HashOK
  <2>4. ProcTypes'
    BY <1>8 DEF NewTorrentAdd, Goto, Return, Connected, LibTorrent, TypeOK, ProcTypes, TorTypes, BtTypes, LibTypes, LocalsOK, HashOK, PCs
  <2>5. AdminTypes'
    BY <1>8 DEF NewTorrentAdd, Goto, Return, Connected, LibTorrent, TypeOK, AdminTypes, AdminPCs
  <2>6. FlagTypes'
    BY <1>8 DEF NewTorrentAdd, Goto, Return, Connected, LibTorrent, TypeOK, FlagTypes
  <2> QED BY <2>1, <2>2, <2>3, <2>4, <2>5, <2>6 DEF TypeOK
<1>9. ASSUME NEW p \in Proc, NewTorrentInsert(p) PROVE Goal
  <2>1. TorTypes'
    BY <1>9 DEF NewTorrentInsert, Goto, AfterNew, InMap, TypeOK, TorTypes, BtTypes, ProcTypes, LocalsOK, HashOK, Stats
  <2>2. BtTypes'
    BY <1>9 DEF NewTorrentInsert, Goto, AfterNew, InMap, TypeOK, BtTypes, TorTypes, LibTypes, ProcTypes, LocalsOK, HashOK
  <2>3. LibTypes'
    BY <1>9 DEF NewTorrentInsert, Goto, AfterNew, InMap, TypeOK, LibTypes, BtTypes, ProcTypes, LocalsOK, HashOK
  <2>4. ProcTypes'
    BY <1>9 DEF NewTorrentInsert, Goto, AfterNew, InMap, TypeOK, ProcTypes, TorTypes, BtTypes, LocalsOK, HashOK, PCs
  <2>5. AdminTypes'
    BY <1>9 DEF NewTorrentInsert, Goto, AfterNew, InMap, TypeOK, AdminTypes, AdminPCs
  <2>6. FlagTypes'
    <3>1. fresh' \in [Tor -> BOOLEAN]
      BY <1>9 DEF NewTorrentInsert, Goto, AfterNew, InMap, TypeOK, FlagTypes
    <3>2. mu' \in [Tor -> BOOLEAN]
      BY <1>9 DEF NewTorrentInsert, Goto, AfterNew, InMap, TypeOK, FlagTypes
    <3>3. client' \in BOOLEAN
      BY <1>9 DEF NewTorrentInsert, Goto, AfterNew, InMap, TypeOK, FlagTypes
    <3>4. hinfo' \in [Handle -> BOOLEAN]
      BY <1>9 DEF NewTorrentInsert, Goto, AfterNew, InMap, TypeOK, FlagTypes
    <3>5. open' \in [Handle -> BOOLEAN]
      BY <1>9 DEF NewTorrentInsert, Goto, AfterNew, InMap, TypeOK, FlagTypes
    <3> QED BY <3>1, <3>2, <3>3, <3>4, <3>5 DEF FlagTypes
  <2> QED BY <2>1, <2>2, <2>3, <2>4, <2>5, <2>6 DEF TypeOK
<1>10. ASSUME NEW p \in Proc, GotInfo(p) PROVE Goal
  <2>1. TorTypes'
    BY <1>10 DEF GotInfo, Goto, Return, HasInfo, TypeOK, TorTypes, BtTypes, ProcTypes, LocalsOK, HashOK, Stats
  <2>2. BtTypes'
    BY <1>10 DEF GotInfo, Goto, Return, HasInfo, TypeOK, BtTypes, TorTypes, LibTypes, ProcTypes, LocalsOK, HashOK
  <2>3. LibTypes'
    BY <1>10 DEF GotInfo, Goto, Return, HasInfo, TypeOK, LibTypes, BtTypes, ProcTypes, LocalsOK, HashOK
  <2>4. ProcTypes'
    BY <1>10 DEF GotInfo, Goto, Return, HasInfo, TypeOK, ProcTypes, TorTypes, BtTypes, LocalsOK, HashOK, PCs
  <2>5. AdminTypes'
    BY <1>10 DEF GotInfo, Goto, Return, HasInfo, TypeOK, AdminTypes, AdminPCs
  <2>6. FlagTypes'
    <3>1. fresh' \in [Tor -> BOOLEAN]
      BY <1>10 DEF GotInfo, Goto, Return, HasInfo, TypeOK, FlagTypes
    <3>2. mu' \in [Tor -> BOOLEAN]
      BY <1>10 DEF GotInfo, Goto, Return, HasInfo, TypeOK, FlagTypes
    <3>3. client' \in BOOLEAN
      BY <1>10 DEF GotInfo, Goto, Return, HasInfo, TypeOK, FlagTypes
    <3>4. hinfo' \in [Handle -> BOOLEAN]
      BY <1>10 DEF GotInfo, Goto, Return, HasInfo, TypeOK, FlagTypes
    <3>5. open' \in [Handle -> BOOLEAN]
      BY <1>10 DEF GotInfo, Goto, Return, HasInfo, TypeOK, FlagTypes
    <3> QED BY <3>1, <3>2, <3>3, <3>4, <3>5 DEF FlagTypes
  <2> QED BY <2>1, <2>2, <2>3, <2>4, <2>5, <2>6 DEF TypeOK
<1>11. ASSUME NEW p \in Proc, WaitInfo(p) PROVE Goal
  <2>1. TorTypes'
    BY <1>11 DEF WaitInfo, Goto, Return, WaitFailed, TypeOK, TorTypes, BtTypes, ProcTypes, LocalsOK, HashOK, Stats
  <2>2. BtTypes'
    BY <1>11 DEF WaitInfo, Goto, Return, WaitFailed, TypeOK, BtTypes, TorTypes, LibTypes, ProcTypes, LocalsOK, HashOK
  <2>3. LibTypes'
    BY <1>11 DEF WaitInfo, Goto, Return, WaitFailed, TypeOK, LibTypes, BtTypes, ProcTypes, LocalsOK, HashOK
  <2>4. ProcTypes'
    BY <1>11 DEF WaitInfo, Goto, Return, WaitFailed, TypeOK, ProcTypes, TorTypes, BtTypes, LocalsOK, HashOK, PCs
  <2>5. AdminTypes'
    BY <1>11 DEF WaitInfo, Goto, Return, WaitFailed, TypeOK, AdminTypes, AdminPCs
  <2>6. FlagTypes'
    BY <1>11 DEF WaitInfo, Goto, Return, WaitFailed, TypeOK, FlagTypes
  <2> QED BY <2>1, <2>2, <2>3, <2>4, <2>5, <2>6 DEF TypeOK
<1>12. ASSUME NEW p \in Proc, WaitInfoGot(p) PROVE Goal
  <2>1. TorTypes'
    BY <1>12 DEF WaitInfoGot, CacheIn, Goto, Return, WaitFailed, WaitSucceeded, TypeOK, TorTypes, BtTypes, ProcTypes, LocalsOK, HashOK, Stats
  <2>2. BtTypes'
    BY <1>12 DEF WaitInfoGot, CacheIn, Goto, Return, WaitFailed, WaitSucceeded, TypeOK, BtTypes, TorTypes, LibTypes, ProcTypes, LocalsOK, HashOK
  <2>3. LibTypes'
    BY <1>12 DEF WaitInfoGot, CacheIn, Goto, Return, WaitFailed, WaitSucceeded, TypeOK, LibTypes, BtTypes, ProcTypes, LocalsOK, HashOK
  <2>4. ProcTypes'
    BY <1>12 DEF WaitInfoGot, CacheIn, Goto, Return, WaitFailed, WaitSucceeded, TypeOK, ProcTypes, TorTypes, BtTypes, LocalsOK, HashOK, PCs
  <2>5. AdminTypes'
    BY <1>12 DEF WaitInfoGot, CacheIn, Goto, Return, WaitFailed, WaitSucceeded, TypeOK, AdminTypes, AdminPCs
  <2>6. FlagTypes'
    <3>1. fresh' \in [Tor -> BOOLEAN]
      BY <1>12 DEF WaitInfoGot, CacheIn, Goto, Return, WaitFailed, WaitSucceeded, TypeOK, FlagTypes
    <3>2. mu' \in [Tor -> BOOLEAN]
      BY <1>12 DEF WaitInfoGot, CacheIn, Goto, Return, WaitFailed, WaitSucceeded, TypeOK, FlagTypes
    <3>3. client' \in BOOLEAN
      BY <1>12 DEF WaitInfoGot, CacheIn, Goto, Return, WaitFailed, WaitSucceeded, TypeOK, FlagTypes
    <3>4. hinfo' \in [Handle -> BOOLEAN]
      BY <1>12 DEF WaitInfoGot, CacheIn, Goto, Return, WaitFailed, WaitSucceeded, TypeOK, FlagTypes
    <3>5. open' \in [Handle -> BOOLEAN]
      BY <1>12 DEF WaitInfoGot, CacheIn, Goto, Return, WaitFailed, WaitSucceeded, TypeOK, FlagTypes
    <3> QED BY <3>1, <3>2, <3>3, <3>4, <3>5 DEF FlagTypes
  <2> QED BY <2>1, <2>2, <2>3, <2>4, <2>5, <2>6 DEF TypeOK
<1>13. ASSUME NEW p \in Proc, WaitInfoFailed(p) PROVE Goal
  <2>1. TorTypes'
    BY <1>13 DEF WaitInfoFailed, Goto, Return, WaitFailed, TypeOK, TorTypes, BtTypes, ProcTypes, LocalsOK, HashOK, Stats
  <2>2. BtTypes'
    BY <1>13 DEF WaitInfoFailed, Goto, Return, WaitFailed, TypeOK, BtTypes, TorTypes, LibTypes, ProcTypes, LocalsOK, HashOK
  <2>3. LibTypes'
    BY <1>13 DEF WaitInfoFailed, Goto, Return, WaitFailed, TypeOK, LibTypes, BtTypes, ProcTypes, LocalsOK, HashOK
  <2>4. ProcTypes'
    BY <1>13 DEF WaitInfoFailed, Goto, Return, WaitFailed, TypeOK, ProcTypes, TorTypes, BtTypes, LocalsOK, HashOK, PCs
  <2>5. AdminTypes'
    BY <1>13 DEF WaitInfoFailed, Goto, Return, WaitFailed, TypeOK, AdminTypes, AdminPCs
  <2>6. FlagTypes'
    BY <1>13 DEF WaitInfoFailed, Goto, Return, WaitFailed, TypeOK, FlagTypes
  <2> QED BY <2>1, <2>2, <2>3, <2>4, <2>5, <2>6 DEF TypeOK
<1>14. ASSUME NEW p \in Proc, GotInfoDone(p) PROVE Goal
  <2>1. TorTypes'
    BY <1>14 DEF GotInfoDone, Goto, Return, StatAfterInfo, TypeOK, TorTypes, BtTypes, ProcTypes, LocalsOK, HashOK, Stats
  <2>2. BtTypes'
    BY <1>14 DEF GotInfoDone, Goto, Return, StatAfterInfo, TypeOK, BtTypes, TorTypes, LibTypes, ProcTypes, LocalsOK, HashOK
  <2>3. LibTypes'
    BY <1>14 DEF GotInfoDone, Goto, Return, StatAfterInfo, TypeOK, LibTypes, BtTypes, ProcTypes, LocalsOK, HashOK
  <2>4. ProcTypes'
    BY <1>14 DEF GotInfoDone, Goto, Return, StatAfterInfo, TypeOK, ProcTypes, TorTypes, BtTypes, LocalsOK, HashOK, PCs
  <2>5. AdminTypes'
    BY <1>14 DEF GotInfoDone, Goto, Return, StatAfterInfo, TypeOK, AdminTypes, AdminPCs
  <2>6. FlagTypes'
    <3>1. fresh' \in [Tor -> BOOLEAN]
      BY <1>14 DEF GotInfoDone, Goto, Return, StatAfterInfo, TypeOK, FlagTypes
    <3>2. mu' \in [Tor -> BOOLEAN]
      BY <1>14 DEF GotInfoDone, Goto, Return, StatAfterInfo, TypeOK, FlagTypes
    <3>3. client' \in BOOLEAN
      BY <1>14 DEF GotInfoDone, Goto, Return, StatAfterInfo, TypeOK, FlagTypes
    <3>4. hinfo' \in [Handle -> BOOLEAN]
      BY <1>14 DEF GotInfoDone, Goto, Return, StatAfterInfo, TypeOK, FlagTypes
    <3>5. open' \in [Handle -> BOOLEAN]
      BY <1>14 DEF GotInfoDone, Goto, Return, StatAfterInfo, TypeOK, FlagTypes
    <3> QED BY <3>1, <3>2, <3>3, <3>4, <3>5 DEF FlagTypes
  <2> QED BY <2>1, <2>2, <2>3, <2>4, <2>5, <2>6 DEF TypeOK
<1>15. ASSUME NEW p \in Proc, Use(p) PROVE Goal
  <2>1. TorTypes'
    BY <1>15 DEF Use, Goto, Return, TypeOK, TorTypes, BtTypes, ProcTypes, LocalsOK, HashOK, Stats
  <2>2. BtTypes'
    BY <1>15 DEF Use, Goto, Return, TypeOK, BtTypes, TorTypes, LibTypes, ProcTypes, LocalsOK, HashOK
  <2>3. LibTypes'
    BY <1>15 DEF Use, Goto, Return, TypeOK, LibTypes, BtTypes, ProcTypes, LocalsOK, HashOK
  <2>4. ProcTypes'
    BY <1>15 DEF Use, Goto, Return, TypeOK, ProcTypes, TorTypes, BtTypes, LocalsOK, HashOK, PCs
  <2>5. AdminTypes'
    BY <1>15 DEF Use, Goto, Return, TypeOK, AdminTypes, AdminPCs
  <2>6. FlagTypes'
    <3>1. fresh' \in [Tor -> BOOLEAN]
      BY <1>15 DEF Use, Goto, Return, TypeOK, FlagTypes
    <3>2. mu' \in [Tor -> BOOLEAN]
      BY <1>15 DEF Use, Goto, Return, TypeOK, FlagTypes
    <3>3. client' \in BOOLEAN
      BY <1>15 DEF Use, Goto, Return, TypeOK, FlagTypes
    <3>4. hinfo' \in [Handle -> BOOLEAN]
      BY <1>15 DEF Use, Goto, Return, TypeOK, FlagTypes
    <3>5. open' \in [Handle -> BOOLEAN]
      BY <1>15 DEF Use, Goto, Return, TypeOK, FlagTypes
    <3> QED BY <3>1, <3>2, <3>3, <3>4, <3>5 DEF FlagTypes
  <2> QED BY <2>1, <2>2, <2>3, <2>4, <2>5, <2>6 DEF TypeOK
<1>16. ASSUME NEW p \in Proc, NewReaderCheck(p) PROVE Goal
  <2>1. TorTypes'
    BY <1>16 DEF NewReaderCheck, Return, TypeOK, TorTypes, BtTypes, ProcTypes, LocalsOK, HashOK, Stats
  <2>2. BtTypes'
    BY <1>16 DEF NewReaderCheck, Return, TypeOK, BtTypes, TorTypes, LibTypes, ProcTypes, LocalsOK, HashOK
  <2>3. LibTypes'
    BY <1>16 DEF NewReaderCheck, Return, TypeOK, LibTypes, BtTypes, ProcTypes, LocalsOK, HashOK
  <2>4. ProcTypes'
    BY <1>16 DEF NewReaderCheck, Return, TypeOK, ProcTypes, TorTypes, BtTypes, LocalsOK, HashOK, PCs
  <2>5. AdminTypes'
    BY <1>16 DEF NewReaderCheck, Return, TypeOK, AdminTypes, AdminPCs
  <2>6. FlagTypes'
    BY <1>16 DEF NewReaderCheck, Return, TypeOK, FlagTypes
  <2> QED BY <2>1, <2>2, <2>3, <2>4, <2>5, <2>6 DEF TypeOK
<1>17. ASSUME NEW p \in Proc, NewReaderRegister(p) PROVE Goal
  <2>1. TorTypes'
    BY <1>17 DEF NewReaderRegister, Goto, Return, TypeOK, TorTypes, BtTypes, ProcTypes, LocalsOK, HashOK, Stats
  <2>2. BtTypes'
    BY <1>17 DEF NewReaderRegister, Goto, Return, TypeOK, BtTypes, TorTypes, LibTypes, ProcTypes, LocalsOK, HashOK
  <2>3. LibTypes'
    BY <1>17 DEF NewReaderRegister, Goto, Return, TypeOK, LibTypes, BtTypes, ProcTypes, LocalsOK, HashOK
  <2>4. ProcTypes'
    <3>1. CASE open[rdr[p]]
      BY <1>17, <3>1 DEF NewReaderRegister, Goto, Return, TypeOK, ProcTypes, TorTypes, BtTypes, LocalsOK, HashOK, PCs
    <3>2. CASE ~open[rdr[p]]
      BY <1>17, <3>2 DEF NewReaderRegister, Goto, Return, TypeOK, ProcTypes, TorTypes, BtTypes, LocalsOK, HashOK, PCs
    <3> QED BY <3>1, <3>2
  <2>5. AdminTypes'
    BY <1>17 DEF NewReaderRegister, Goto, Return, TypeOK, AdminTypes, AdminPCs
  <2>6. FlagTypes'
    BY <1>17 DEF NewReaderRegister, Goto, Return, TypeOK, FlagTypes
  <2> QED BY <2>1, <2>2, <2>3, <2>4, <2>5, <2>6 DEF TypeOK
<1>18. ASSUME NEW p \in Proc, CloseReader(p) PROVE Goal
  BY <1>18 DEF CloseReader, Return, TypeOK, TorTypes, BtTypes, LibTypes, ProcTypes, AdminTypes, FlagTypes, LocalsOK, HashOK, Stats, PCs, AdminPCs
<1>19. ASSUME NEW p \in Proc, PreloadStart(p) PROVE Goal
  <2>1. TorTypes'
    BY <1>19 DEF PreloadStart, Goto, Return, TypeOK, TorTypes, BtTypes, ProcTypes, LocalsOK, HashOK, Stats
  <2>2. BtTypes'
    BY <1>19 DEF PreloadStart, Goto, Return, TypeOK, BtTypes, TorTypes, LibTypes, ProcTypes, LocalsOK, HashOK
  <2>3. LibTypes'
    BY <1>19 DEF PreloadStart, Goto, Return, TypeOK, LibTypes, BtTypes, ProcTypes, LocalsOK, HashOK
  <2>4. ProcTypes'
    BY <1>19 DEF PreloadStart, Goto, Return, TypeOK, ProcTypes, TorTypes, BtTypes, LocalsOK, HashOK, PCs
  <2>5. AdminTypes'
    BY <1>19 DEF PreloadStart, Goto, Return, TypeOK, AdminTypes, AdminPCs
  <2>6. FlagTypes'
    BY <1>19 DEF PreloadStart, Goto, Return, TypeOK, FlagTypes
  <2> QED BY <2>1, <2>2, <2>3, <2>4, <2>5, <2>6 DEF TypeOK
<1>20. ASSUME NEW p \in Proc, PreloadEnd(p) PROVE Goal
  BY <1>20 DEF PreloadEnd, Return, TypeOK, TorTypes, BtTypes, LibTypes, ProcTypes, AdminTypes, FlagTypes, LocalsOK, HashOK, Stats, PCs, AdminPCs
<1>21. ASSUME NEW p \in Proc, RemoveTorrent(p) PROVE Goal
  <2>1. TorTypes'
    BY <1>21 DEF RemoveTorrent, Goto, Return, TypeOK, TorTypes, BtTypes, ProcTypes, LocalsOK, HashOK, Stats
  <2>2. BtTypes'
    BY <1>21 DEF RemoveTorrent, Goto, Return, TypeOK, BtTypes, TorTypes, LibTypes, ProcTypes, LocalsOK, HashOK
  <2>3. LibTypes'
    BY <1>21 DEF RemoveTorrent, Goto, Return, TypeOK, LibTypes, BtTypes, ProcTypes, LocalsOK, HashOK
  <2>4. ProcTypes'
    BY <1>21 DEF RemoveTorrent, Goto, Return, TypeOK, ProcTypes, TorTypes, BtTypes, LocalsOK, HashOK, PCs
  <2>5. AdminTypes'
    BY <1>21 DEF RemoveTorrent, Goto, Return, TypeOK, AdminTypes, AdminPCs
  <2>6. FlagTypes'
    BY <1>21 DEF RemoveTorrent, Goto, Return, TypeOK, FlagTypes
  <2> QED BY <2>1, <2>2, <2>3, <2>4, <2>5, <2>6 DEF TypeOK
<1>22. ASSUME NEW p \in Proc, CloseMark(p) PROVE Goal
  <2>1. TorTypes'
    BY <1>22 DEF CloseMark, Goto, Return, TypeOK, TorTypes, BtTypes, ProcTypes, LocalsOK, HashOK, Stats
  <2>2. BtTypes'
    BY <1>22 DEF CloseMark, Goto, Return, TypeOK, BtTypes, TorTypes, LibTypes, ProcTypes, LocalsOK, HashOK
  <2>3. LibTypes'
    BY <1>22 DEF CloseMark, Goto, Return, TypeOK, LibTypes, BtTypes, ProcTypes, LocalsOK, HashOK
  <2>4. ProcTypes'
    BY <1>22 DEF CloseMark, Goto, Return, TypeOK, ProcTypes, TorTypes, BtTypes, LibTypes, LocalsOK, HashOK, PCs
  <2>5. AdminTypes'
    BY <1>22 DEF CloseMark, Goto, Return, TypeOK, AdminTypes, AdminPCs
  <2>6. FlagTypes'
    BY <1>22 DEF CloseMark, Goto, Return, TypeOK, FlagTypes
  <2> QED BY <2>1, <2>2, <2>3, <2>4, <2>5, <2>6 DEF TypeOK
<1>23. ASSUME NEW p \in Proc, CloseDelete(p) PROVE Goal
  BY <1>23 DEF CloseDelete, Goto, TypeOK, TorTypes, BtTypes, LibTypes, ProcTypes, AdminTypes, FlagTypes, LocalsOK, HashOK, Stats, PCs, AdminPCs
<1>24. ASSUME NEW p \in Proc, CloseDrop(p) PROVE Goal
  <2>1. TorTypes'
    BY <1>24 DEF CloseDrop, Goto, Return, DropFirst, DropLast, TypeOK, TorTypes, BtTypes, ProcTypes, LocalsOK, HashOK, Stats
  <2>2. BtTypes'
    BY <1>24 DEF CloseDrop, Goto, Return, DropFirst, DropLast, TypeOK, BtTypes, TorTypes, LibTypes, ProcTypes, LocalsOK, HashOK
  <2>3. LibTypes'
    BY <1>24 DEF CloseDrop, Goto, Return, DropFirst, DropLast, TypeOK, LibTypes, BtTypes, ProcTypes, LocalsOK, HashOK
  <2>4. ProcTypes'
    BY <1>24 DEF CloseDrop, Goto, Return, DropFirst, DropLast, TypeOK, ProcTypes, TorTypes, BtTypes, LocalsOK, HashOK, PCs
  <2>5. AdminTypes'
    BY <1>24 DEF CloseDrop, Goto, Return, DropFirst, DropLast, TypeOK, AdminTypes, AdminPCs
  <2>6. FlagTypes'
    <3>1. fresh' \in [Tor -> BOOLEAN]
      BY <1>24 DEF CloseDrop, Goto, Return, DropFirst, DropLast, TypeOK, FlagTypes
    <3>2. mu' \in [Tor -> BOOLEAN]
      BY <1>24 DEF CloseDrop, Goto, Return, DropFirst, DropLast, TypeOK, FlagTypes
    <3>3. client' \in BOOLEAN
      BY <1>24 DEF CloseDrop, Goto, Return, DropFirst, DropLast, TypeOK, FlagTypes
    <3>4. hinfo' \in [Handle -> BOOLEAN]
      BY <1>24 DEF CloseDrop, Goto, Return, DropFirst, DropLast, TypeOK, FlagTypes
    <3>5. open' \in [Handle -> BOOLEAN]
      BY <1>24 DEF CloseDrop, Goto, Return, DropFirst, DropLast, TypeOK, FlagTypes
    <3> QED BY <3>1, <3>2, <3>3, <3>4, <3>5 DEF FlagTypes
  <2> QED BY <2>1, <2>2, <2>3, <2>4, <2>5, <2>6 DEF TypeOK
<1>25. ASSUME NEW a \in Saver, SetSettings(a) PROVE Goal
  BY <1>25 DEF SetSettings, TypeOK, TorTypes, BtTypes, LibTypes, ProcTypes, AdminTypes, FlagTypes, LocalsOK, HashOK, Stats, PCs, AdminPCs
<1>26. ASSUME NEW a \in Saver, DropAll(a) PROVE Goal
  <2>1. TorTypes'
    BY <1>26 DEF DropAll, DropFirst, DropLast, TypeOK, TorTypes, BtTypes, ProcTypes, LocalsOK, HashOK, Stats
  <2>2. BtTypes'
    BY <1>26 DEF DropAll, DropFirst, DropLast, TypeOK, BtTypes, TorTypes, LibTypes, ProcTypes, LocalsOK, HashOK
  <2>3. LibTypes'
    BY <1>26 DEF DropAll, DropFirst, DropLast, TypeOK, LibTypes, BtTypes, ProcTypes, LocalsOK, HashOK
  <2>4. ProcTypes'
    BY <1>26 DEF DropAll, DropFirst, DropLast, TypeOK, ProcTypes, TorTypes, BtTypes, LocalsOK, HashOK, PCs
  <2>5. AdminTypes'
    BY <1>26 DEF DropAll, DropFirst, DropLast, TypeOK, AdminTypes, AdminPCs
  <2>6. FlagTypes'
    <3>1. fresh' \in [Tor -> BOOLEAN]
      BY <1>26 DEF DropAll, DropFirst, DropLast, TypeOK, FlagTypes
    <3>2. mu' \in [Tor -> BOOLEAN]
      BY <1>26 DEF DropAll, DropFirst, DropLast, TypeOK, FlagTypes
    <3>3. client' \in BOOLEAN
      BY <1>26 DEF DropAll, DropFirst, DropLast, TypeOK, FlagTypes
    <3>4. hinfo' \in [Handle -> BOOLEAN]
      BY <1>26 DEF DropAll, DropFirst, DropLast, TypeOK, FlagTypes
    <3>5. open' \in [Handle -> BOOLEAN]
      BY <1>26 DEF DropAll, DropFirst, DropLast, TypeOK, FlagTypes
    <3> QED BY <3>1, <3>2, <3>3, <3>4, <3>5 DEF FlagTypes
  <2> QED BY <2>1, <2>2, <2>3, <2>4, <2>5, <2>6 DEF TypeOK
<1>27. ASSUME NEW a \in Saver, Disconnect(a) PROVE Goal
  BY <1>27 DEF Disconnect, CacheIn, TypeOK, TorTypes, BtTypes, LibTypes, ProcTypes, AdminTypes, FlagTypes, LocalsOK, HashOK, Stats, PCs, AdminPCs
<1>28. ASSUME NEW a \in Saver, Connect(a) PROVE Goal
  <2>1. TorTypes'
    BY <1>28 DEF Connect, TypeOK, TorTypes, BtTypes, ProcTypes, LocalsOK, HashOK, Stats
  <2>2. BtTypes'
    BY <1>28 DEF Connect, TypeOK, BtTypes, TorTypes, LibTypes, ProcTypes, LocalsOK, HashOK
  <2>3. LibTypes'
    BY <1>28 DEF Connect, TypeOK, LibTypes, BtTypes, ProcTypes, LocalsOK, HashOK
  <2>4. ProcTypes'
    BY <1>28 DEF Connect, TypeOK, ProcTypes, TorTypes, BtTypes, LocalsOK, HashOK, PCs
  <2>5. AdminTypes'
    BY <1>28 DEF Connect, TypeOK, AdminTypes, AdminPCs
  <2>6. FlagTypes'
    <3>1. fresh' \in [Tor -> BOOLEAN]
      BY <1>28 DEF Connect, TypeOK, FlagTypes
    <3>2. mu' \in [Tor -> BOOLEAN]
      BY <1>28 DEF Connect, TypeOK, FlagTypes
    <3>3. client' \in BOOLEAN
      BY <1>28 DEF Connect, TypeOK, FlagTypes
    <3>4. hinfo' \in [Handle -> BOOLEAN]
      BY <1>28 DEF Connect, TypeOK, FlagTypes
    <3>5. open' \in [Handle -> BOOLEAN]
      BY <1>28 DEF Connect, TypeOK, FlagTypes
    <3> QED BY <3>1, <3>2, <3>3, <3>4, <3>5 DEF FlagTypes
  <2> QED BY <2>1, <2>2, <2>3, <2>4, <2>5, <2>6 DEF TypeOK
<1>29. ASSUME UNCHANGED vars PROVE Goal
  BY <1>29 DEF TypeOK, TorTypes, BtTypes, LibTypes, ProcTypes, AdminTypes, FlagTypes, LocalsOK, HashOK, Stats, PCs, AdminPCs
<1> QED
  BY <1>1, <1>2, <1>3, <1>4, <1>5, <1>6, <1>7, <1>8, <1>9, <1>10, <1>11, <1>12, <1>13, <1>14, <1>15, <1>16, <1>17, <1>18, <1>19, <1>20, <1>21, <1>22, <1>23, <1>24, <1>25, <1>26, <1>27, <1>28, <1>29
  DEF Next, Steady, Saving, Library, Request, Step

\* Every step keeps the locals meaningful.
LEMMA LocalsStep == TypeOK /\ LocalsOK /\ HashOK /\ [Next]_vars => LocalsOK'
<1> DEFINE Goal == LocalsOK'
<1> SUFFICES ASSUME TypeOK, LocalsOK, HashOK, [Next]_vars PROVE Goal
  OBVIOUS
<1> USE NoneAssumption
    DEF vars, torVars, btVars, libVars, procVars, locals, adminVars
<1>1. ASSUME NEW h \in Handle, InfoArrives(h) PROVE Goal
  BY <1>1 DEF InfoArrives, CacheIn, TypeOK, TorTypes, BtTypes, LibTypes, ProcTypes, AdminTypes, FlagTypes, LocalsOK, HashOK, Stats
<1>2. ASSUME NEW h \in Handle, CloseStorage(h) PROVE Goal
  BY <1>2 DEF CloseStorage, CacheIn, TypeOK, TorTypes, BtTypes, LibTypes, ProcTypes, AdminTypes, FlagTypes, LocalsOK, HashOK, Stats
<1>3. ASSUME NEW t \in Tor, ExpireTime(t) PROVE Goal
  BY <1>3 DEF ExpireTime, TypeOK, TorTypes, BtTypes, LibTypes, ProcTypes, AdminTypes, FlagTypes, LocalsOK, HashOK, Stats
<1>4. ASSUME NEW p \in Proc, NEW x \in Hash, GetTorrent(p, x) PROVE Goal
  BY <1>4 DEF GetTorrent, Goto, TypeOK, TorTypes, BtTypes, LibTypes, ProcTypes, AdminTypes, FlagTypes, LocalsOK, HashOK, Stats
<1>5. ASSUME NEW p \in Proc, NEW x \in Hash, AddTorrent(p, x) PROVE Goal
  BY <1>5 DEF AddTorrent, Goto, TypeOK, TorTypes, BtTypes, LibTypes, ProcTypes, AdminTypes, FlagTypes, LocalsOK, HashOK, Stats
<1>6. ASSUME NEW p \in Proc, NEW x \in Hash, DropTorrent(p, x) PROVE Goal
  BY <1>6 DEF DropTorrent, Goto, TypeOK, TorTypes, BtTypes, LibTypes, ProcTypes, AdminTypes, FlagTypes, LocalsOK, HashOK, Stats
<1>7. ASSUME NEW p \in Proc, NEW t \in Tor, ProgressEvent(p, t) PROVE Goal
  BY <1>7 DEF ProgressEvent, Goto, TypeOK, TorTypes, BtTypes, LibTypes, ProcTypes, AdminTypes, FlagTypes, LocalsOK, HashOK, Stats
<1>8. ASSUME NEW p \in Proc, NewTorrentAdd(p) PROVE Goal
  BY <1>8 DEF NewTorrentAdd, Goto, Return, Connected, LibTorrent, TypeOK, TorTypes, BtTypes, LibTypes, ProcTypes, AdminTypes, FlagTypes, LocalsOK, HashOK, Stats
<1>9. ASSUME NEW p \in Proc, NewTorrentInsert(p) PROVE Goal
  BY <1>9 DEF NewTorrentInsert, Goto, AfterNew, InMap, TypeOK, TorTypes, BtTypes, LibTypes, ProcTypes, AdminTypes, FlagTypes, LocalsOK, HashOK, Stats
<1>10. ASSUME NEW p \in Proc, GotInfo(p) PROVE Goal
  BY <1>10 DEF GotInfo, Goto, Return, HasInfo, TypeOK, TorTypes, BtTypes, LibTypes, ProcTypes, AdminTypes, FlagTypes, LocalsOK, HashOK, Stats
<1>11. ASSUME NEW p \in Proc, WaitInfo(p) PROVE Goal
  BY <1>11 DEF WaitInfo, Goto, Return, WaitFailed, TypeOK, TorTypes, BtTypes, LibTypes, ProcTypes, AdminTypes, FlagTypes, LocalsOK, HashOK, Stats
<1>12. ASSUME NEW p \in Proc, WaitInfoGot(p) PROVE Goal
  BY <1>12 DEF WaitInfoGot, CacheIn, Goto, Return, WaitFailed, WaitSucceeded, TypeOK, TorTypes, BtTypes, LibTypes, ProcTypes, AdminTypes, FlagTypes, LocalsOK, HashOK, Stats
<1>13. ASSUME NEW p \in Proc, WaitInfoFailed(p) PROVE Goal
  BY <1>13 DEF WaitInfoFailed, Goto, Return, WaitFailed, TypeOK, TorTypes, BtTypes, LibTypes, ProcTypes, AdminTypes, FlagTypes, LocalsOK, HashOK, Stats
<1>14. ASSUME NEW p \in Proc, GotInfoDone(p) PROVE Goal
  BY <1>14 DEF GotInfoDone, Goto, Return, StatAfterInfo, TypeOK, TorTypes, BtTypes, LibTypes, ProcTypes, AdminTypes, FlagTypes, LocalsOK, HashOK, Stats
<1>15. ASSUME NEW p \in Proc, Use(p) PROVE Goal
  BY <1>15 DEF Use, Goto, Return, TypeOK, TorTypes, BtTypes, LibTypes, ProcTypes, AdminTypes, FlagTypes, LocalsOK, HashOK, Stats
<1>16. ASSUME NEW p \in Proc, NewReaderCheck(p) PROVE Goal
  BY <1>16 DEF NewReaderCheck, Return, TypeOK, TorTypes, BtTypes, LibTypes, ProcTypes, AdminTypes, FlagTypes, LocalsOK, HashOK, Stats
<1>17. ASSUME NEW p \in Proc, NewReaderRegister(p) PROVE Goal
  BY <1>17 DEF NewReaderRegister, Goto, Return, TypeOK, TorTypes, BtTypes, LibTypes, ProcTypes, AdminTypes, FlagTypes, LocalsOK, HashOK, Stats
<1>18. ASSUME NEW p \in Proc, CloseReader(p) PROVE Goal
  BY <1>18 DEF CloseReader, Return, TypeOK, TorTypes, BtTypes, LibTypes, ProcTypes, AdminTypes, FlagTypes, LocalsOK, HashOK, Stats
<1>19. ASSUME NEW p \in Proc, PreloadStart(p) PROVE Goal
  BY <1>19 DEF PreloadStart, Goto, Return, TypeOK, TorTypes, BtTypes, LibTypes, ProcTypes, AdminTypes, FlagTypes, LocalsOK, HashOK, Stats
<1>20. ASSUME NEW p \in Proc, PreloadEnd(p) PROVE Goal
  BY <1>20 DEF PreloadEnd, Return, TypeOK, TorTypes, BtTypes, LibTypes, ProcTypes, AdminTypes, FlagTypes, LocalsOK, HashOK, Stats
<1>21. ASSUME NEW p \in Proc, RemoveTorrent(p) PROVE Goal
  BY <1>21 DEF RemoveTorrent, Goto, Return, TypeOK, TorTypes, BtTypes, LibTypes, ProcTypes, AdminTypes, FlagTypes, LocalsOK, HashOK, Stats
<1>22. ASSUME NEW p \in Proc, CloseMark(p) PROVE Goal
  BY <1>22 DEF CloseMark, Goto, Return, TypeOK, TorTypes, BtTypes, LibTypes, ProcTypes, AdminTypes, FlagTypes, LocalsOK, HashOK, Stats
<1>23. ASSUME NEW p \in Proc, CloseDelete(p) PROVE Goal
  BY <1>23 DEF CloseDelete, Goto, TypeOK, TorTypes, BtTypes, LibTypes, ProcTypes, AdminTypes, FlagTypes, LocalsOK, HashOK, Stats
<1>24. ASSUME NEW p \in Proc, CloseDrop(p) PROVE Goal
  BY <1>24 DEF CloseDrop, Goto, Return, DropFirst, DropLast, TypeOK, TorTypes, BtTypes, LibTypes, ProcTypes, AdminTypes, FlagTypes, LocalsOK, HashOK, Stats
<1>25. ASSUME NEW a \in Saver, SetSettings(a) PROVE Goal
  BY <1>25 DEF SetSettings, TypeOK, TorTypes, BtTypes, LibTypes, ProcTypes, AdminTypes, FlagTypes, LocalsOK, HashOK, Stats
<1>26. ASSUME NEW a \in Saver, DropAll(a) PROVE Goal
  BY <1>26 DEF DropAll, DropFirst, DropLast, TypeOK, TorTypes, BtTypes, LibTypes, ProcTypes, AdminTypes, FlagTypes, LocalsOK, HashOK, Stats
<1>27. ASSUME NEW a \in Saver, Disconnect(a) PROVE Goal
  BY <1>27 DEF Disconnect, CacheIn, TypeOK, TorTypes, BtTypes, LibTypes, ProcTypes, AdminTypes, FlagTypes, LocalsOK, HashOK, Stats
<1>28. ASSUME NEW a \in Saver, Connect(a) PROVE Goal
  BY <1>28 DEF Connect, TypeOK, TorTypes, BtTypes, LibTypes, ProcTypes, AdminTypes, FlagTypes, LocalsOK, HashOK, Stats
<1>29. ASSUME UNCHANGED vars PROVE Goal
  BY <1>29 DEF TypeOK, TorTypes, BtTypes, LibTypes, ProcTypes, AdminTypes, FlagTypes, LocalsOK, HashOK, Stats
<1> QED
  BY <1>1, <1>2, <1>3, <1>4, <1>5, <1>6, <1>7, <1>8, <1>9, <1>10, <1>11, <1>12, <1>13, <1>14, <1>15, <1>16, <1>17, <1>18, <1>19, <1>20, <1>21, <1>22, <1>23, <1>24, <1>25, <1>26, <1>27, <1>28, <1>29
  DEF Next, Steady, Saving, Library, Request, Step

\* Every step keeps hashes and the map consistent.
LEMMA HashStep == TypeOK /\ LocalsOK /\ HashOK /\ [Next]_vars => HashOK'
<1> DEFINE Goal == HashOK'
<1> SUFFICES ASSUME TypeOK, LocalsOK, HashOK, [Next]_vars PROVE Goal
  OBVIOUS
<1> USE NoneAssumption
    DEF vars, torVars, btVars, libVars, procVars, locals, adminVars
<1>1. ASSUME NEW h \in Handle, InfoArrives(h) PROVE Goal
  BY <1>1 DEF InfoArrives, CacheIn, TypeOK, TorTypes, BtTypes, LibTypes, ProcTypes, AdminTypes, FlagTypes, LocalsOK, HashOK
<1>2. ASSUME NEW h \in Handle, CloseStorage(h) PROVE Goal
  BY <1>2 DEF CloseStorage, CacheIn, TypeOK, TorTypes, BtTypes, LibTypes, ProcTypes, AdminTypes, FlagTypes, LocalsOK, HashOK
<1>3. ASSUME NEW t \in Tor, ExpireTime(t) PROVE Goal
  BY <1>3 DEF ExpireTime, TypeOK, TorTypes, BtTypes, LibTypes, ProcTypes, AdminTypes, FlagTypes, LocalsOK, HashOK
<1>4. ASSUME NEW p \in Proc, NEW x \in Hash, GetTorrent(p, x) PROVE Goal
  BY <1>4 DEF GetTorrent, Goto, TypeOK, TorTypes, BtTypes, LibTypes, ProcTypes, AdminTypes, FlagTypes, LocalsOK, HashOK
<1>5. ASSUME NEW p \in Proc, NEW x \in Hash, AddTorrent(p, x) PROVE Goal
  BY <1>5 DEF AddTorrent, Goto, TypeOK, TorTypes, BtTypes, LibTypes, ProcTypes, AdminTypes, FlagTypes, LocalsOK, HashOK
<1>6. ASSUME NEW p \in Proc, NEW x \in Hash, DropTorrent(p, x) PROVE Goal
  BY <1>6 DEF DropTorrent, Goto, TypeOK, TorTypes, BtTypes, LibTypes, ProcTypes, AdminTypes, FlagTypes, LocalsOK, HashOK
<1>7. ASSUME NEW p \in Proc, NEW t \in Tor, ProgressEvent(p, t) PROVE Goal
  BY <1>7 DEF ProgressEvent, Goto, TypeOK, TorTypes, BtTypes, LibTypes, ProcTypes, AdminTypes, FlagTypes, LocalsOK, HashOK
<1>8. ASSUME NEW p \in Proc, NewTorrentAdd(p) PROVE Goal
  BY <1>8 DEF NewTorrentAdd, Goto, Return, Connected, LibTorrent, TypeOK, TorTypes, BtTypes, LibTypes, ProcTypes, AdminTypes, FlagTypes, LocalsOK, HashOK
<1>9. ASSUME NEW p \in Proc, NewTorrentInsert(p) PROVE Goal
  BY <1>9 DEF NewTorrentInsert, Goto, AfterNew, InMap, TypeOK, TorTypes, BtTypes, LibTypes, ProcTypes, AdminTypes, FlagTypes, LocalsOK, HashOK
<1>10. ASSUME NEW p \in Proc, GotInfo(p) PROVE Goal
  BY <1>10 DEF GotInfo, Goto, Return, HasInfo, TypeOK, TorTypes, BtTypes, LibTypes, ProcTypes, AdminTypes, FlagTypes, LocalsOK, HashOK
<1>11. ASSUME NEW p \in Proc, WaitInfo(p) PROVE Goal
  BY <1>11 DEF WaitInfo, Goto, Return, WaitFailed, TypeOK, TorTypes, BtTypes, LibTypes, ProcTypes, AdminTypes, FlagTypes, LocalsOK, HashOK
<1>12. ASSUME NEW p \in Proc, WaitInfoGot(p) PROVE Goal
  BY <1>12 DEF WaitInfoGot, CacheIn, Goto, Return, WaitFailed, WaitSucceeded, TypeOK, TorTypes, BtTypes, LibTypes, ProcTypes, AdminTypes, FlagTypes, LocalsOK, HashOK
<1>13. ASSUME NEW p \in Proc, WaitInfoFailed(p) PROVE Goal
  BY <1>13 DEF WaitInfoFailed, Goto, Return, WaitFailed, TypeOK, TorTypes, BtTypes, LibTypes, ProcTypes, AdminTypes, FlagTypes, LocalsOK, HashOK
<1>14. ASSUME NEW p \in Proc, GotInfoDone(p) PROVE Goal
  BY <1>14 DEF GotInfoDone, Goto, Return, StatAfterInfo, TypeOK, TorTypes, BtTypes, LibTypes, ProcTypes, AdminTypes, FlagTypes, LocalsOK, HashOK
<1>15. ASSUME NEW p \in Proc, Use(p) PROVE Goal
  BY <1>15 DEF Use, Goto, Return, TypeOK, TorTypes, BtTypes, LibTypes, ProcTypes, AdminTypes, FlagTypes, LocalsOK, HashOK
<1>16. ASSUME NEW p \in Proc, NewReaderCheck(p) PROVE Goal
  BY <1>16 DEF NewReaderCheck, Return, TypeOK, TorTypes, BtTypes, LibTypes, ProcTypes, AdminTypes, FlagTypes, LocalsOK, HashOK
<1>17. ASSUME NEW p \in Proc, NewReaderRegister(p) PROVE Goal
  BY <1>17 DEF NewReaderRegister, Goto, Return, TypeOK, TorTypes, BtTypes, LibTypes, ProcTypes, AdminTypes, FlagTypes, LocalsOK, HashOK
<1>18. ASSUME NEW p \in Proc, CloseReader(p) PROVE Goal
  BY <1>18 DEF CloseReader, Return, TypeOK, TorTypes, BtTypes, LibTypes, ProcTypes, AdminTypes, FlagTypes, LocalsOK, HashOK
<1>19. ASSUME NEW p \in Proc, PreloadStart(p) PROVE Goal
  BY <1>19 DEF PreloadStart, Goto, Return, TypeOK, TorTypes, BtTypes, LibTypes, ProcTypes, AdminTypes, FlagTypes, LocalsOK, HashOK
<1>20. ASSUME NEW p \in Proc, PreloadEnd(p) PROVE Goal
  BY <1>20 DEF PreloadEnd, Return, TypeOK, TorTypes, BtTypes, LibTypes, ProcTypes, AdminTypes, FlagTypes, LocalsOK, HashOK
<1>21. ASSUME NEW p \in Proc, RemoveTorrent(p) PROVE Goal
  BY <1>21 DEF RemoveTorrent, Goto, Return, TypeOK, TorTypes, BtTypes, LibTypes, ProcTypes, AdminTypes, FlagTypes, LocalsOK, HashOK
<1>22. ASSUME NEW p \in Proc, CloseMark(p) PROVE Goal
  BY <1>22 DEF CloseMark, Goto, Return, TypeOK, TorTypes, BtTypes, LibTypes, ProcTypes, AdminTypes, FlagTypes, LocalsOK, HashOK
<1>23. ASSUME NEW p \in Proc, CloseDelete(p) PROVE Goal
  BY <1>23 DEF CloseDelete, Goto, TypeOK, TorTypes, BtTypes, LibTypes, ProcTypes, AdminTypes, FlagTypes, LocalsOK, HashOK
<1>24. ASSUME NEW p \in Proc, CloseDrop(p) PROVE Goal
  BY <1>24 DEF CloseDrop, Goto, Return, DropFirst, DropLast, TypeOK, TorTypes, BtTypes, LibTypes, ProcTypes, AdminTypes, FlagTypes, LocalsOK, HashOK
<1>25. ASSUME NEW a \in Saver, SetSettings(a) PROVE Goal
  BY <1>25 DEF SetSettings, TypeOK, TorTypes, BtTypes, LibTypes, ProcTypes, AdminTypes, FlagTypes, LocalsOK, HashOK
<1>26. ASSUME NEW a \in Saver, DropAll(a) PROVE Goal
  BY <1>26 DEF DropAll, DropFirst, DropLast, TypeOK, TorTypes, BtTypes, LibTypes, ProcTypes, AdminTypes, FlagTypes, LocalsOK, HashOK
<1>27. ASSUME NEW a \in Saver, Disconnect(a) PROVE Goal
  BY <1>27 DEF Disconnect, CacheIn, TypeOK, TorTypes, BtTypes, LibTypes, ProcTypes, AdminTypes, FlagTypes, LocalsOK, HashOK
<1>28. ASSUME NEW a \in Saver, Connect(a) PROVE Goal
  BY <1>28 DEF Connect, TypeOK, TorTypes, BtTypes, LibTypes, ProcTypes, AdminTypes, FlagTypes, LocalsOK, HashOK
<1>29. ASSUME UNCHANGED vars PROVE Goal
  BY <1>29 DEF TypeOK, TorTypes, BtTypes, LibTypes, ProcTypes, AdminTypes, FlagTypes, LocalsOK, HashOK
<1> QED
  BY <1>1, <1>2, <1>3, <1>4, <1>5, <1>6, <1>7, <1>8, <1>9, <1>10, <1>11, <1>12, <1>13, <1>14, <1>15, <1>16, <1>17, <1>18, <1>19, <1>20, <1>21, <1>22, <1>23, <1>24, <1>25, <1>26, <1>27, <1>28, <1>29
  DEF Next, Steady, Saving, Library, Request, Step

\* The part of the invariant every theorem below rests on.
Inv == TypeOK /\ LocalsOK /\ HashOK

\* Types, locals and hashes are right in every reachable state.
THEOREM TypeCorrect == Spec => [](TypeOK /\ LocalsOK /\ HashOK)
<1>1. Init => Inv
  BY InitTypes DEF Inv
<1>2. Inv /\ [Next]_vars => Inv'
  BY TypeStep, LocalsStep, HashStep DEF Inv
<1> QED BY <1>1, <1>2, PTL DEF Spec, Inv

\* A step of the engine keeps ClosedInMapHasCloser: only the goroutine at
\* "delete" takes the entry out, and only a new torrent is put in.
LEMMA CloserStep ==
  Inv /\ ClosedInMapHasCloser /\ [Next]_vars => ClosedInMapHasCloser'
<1> DEFINE Goal == ClosedInMapHasCloser'
<1> SUFFICES ASSUME Inv, ClosedInMapHasCloser, [Next]_vars PROVE Goal
  OBVIOUS
<1> USE NoneAssumption
    DEF vars, torVars, btVars, libVars, procVars, locals, adminVars
<1>1. ASSUME NEW h \in Handle, InfoArrives(h) PROVE Goal
  BY <1>1 DEF InfoArrives, CacheIn, Inv, TypeOK, TorTypes, BtTypes, ProcTypes, LocalsOK, HashOK, ClosedInMapHasCloser
<1>2. ASSUME NEW h \in Handle, CloseStorage(h) PROVE Goal
  BY <1>2 DEF CloseStorage, CacheIn, Inv, TypeOK, TorTypes, BtTypes, ProcTypes, LocalsOK, HashOK, ClosedInMapHasCloser
<1>3. ASSUME NEW t \in Tor, ExpireTime(t) PROVE Goal
  BY <1>3 DEF ExpireTime, Inv, TypeOK, TorTypes, BtTypes, ProcTypes, LocalsOK, HashOK, ClosedInMapHasCloser
<1>4. ASSUME NEW p \in Proc, NEW x \in Hash, GetTorrent(p, x) PROVE Goal
  BY <1>4 DEF GetTorrent, Goto, Inv, TypeOK, TorTypes, BtTypes, ProcTypes, LocalsOK, HashOK, ClosedInMapHasCloser
<1>5. ASSUME NEW p \in Proc, NEW x \in Hash, AddTorrent(p, x) PROVE Goal
  BY <1>5 DEF AddTorrent, Goto, Inv, TypeOK, TorTypes, BtTypes, ProcTypes, LocalsOK, HashOK, ClosedInMapHasCloser
<1>6. ASSUME NEW p \in Proc, NEW x \in Hash, DropTorrent(p, x) PROVE Goal
  BY <1>6 DEF DropTorrent, Goto, Inv, TypeOK, TorTypes, BtTypes, ProcTypes, LocalsOK, HashOK, ClosedInMapHasCloser
<1>7. ASSUME NEW p \in Proc, NEW t \in Tor, ProgressEvent(p, t) PROVE Goal
  BY <1>7 DEF ProgressEvent, Goto, Inv, TypeOK, TorTypes, BtTypes, ProcTypes, LocalsOK, HashOK, ClosedInMapHasCloser
<1>8. ASSUME NEW p \in Proc, NewTorrentAdd(p) PROVE Goal
  BY <1>8 DEF NewTorrentAdd, Goto, Return, Inv, TypeOK, TorTypes, BtTypes, ProcTypes, LocalsOK, HashOK, ClosedInMapHasCloser
<1>9. ASSUME NEW p \in Proc, NewTorrentInsert(p) PROVE Goal
  BY <1>9 DEF NewTorrentInsert, Goto, AfterNew, InMap, Inv, TypeOK, TorTypes, BtTypes, ProcTypes, LocalsOK, HashOK, ClosedInMapHasCloser
<1>10. ASSUME NEW p \in Proc, GotInfo(p) PROVE Goal
  BY <1>10 DEF GotInfo, Goto, Return, HasInfo, Inv, TypeOK, TorTypes, BtTypes, ProcTypes, LocalsOK, HashOK, ClosedInMapHasCloser
<1>11. ASSUME NEW p \in Proc, WaitInfo(p) PROVE Goal
  BY <1>11 DEF WaitInfo, Goto, Return, WaitFailed, Inv, TypeOK, TorTypes, BtTypes, ProcTypes, LocalsOK, HashOK, ClosedInMapHasCloser
<1>12. ASSUME NEW p \in Proc, WaitInfoGot(p) PROVE Goal
  BY <1>12 DEF WaitInfoGot, CacheIn, Goto, Return, WaitFailed, WaitSucceeded, Inv, TypeOK, TorTypes, BtTypes, ProcTypes, LocalsOK, HashOK, ClosedInMapHasCloser
<1>13. ASSUME NEW p \in Proc, WaitInfoFailed(p) PROVE Goal
  BY <1>13 DEF WaitInfoFailed, Goto, Return, WaitFailed, Inv, TypeOK, TorTypes, BtTypes, ProcTypes, LocalsOK, HashOK, ClosedInMapHasCloser
<1>14. ASSUME NEW p \in Proc, GotInfoDone(p) PROVE Goal
  BY <1>14 DEF GotInfoDone, Goto, Return, StatAfterInfo, Inv, TypeOK, TorTypes, BtTypes, ProcTypes, LocalsOK, HashOK, ClosedInMapHasCloser
<1>15. ASSUME NEW p \in Proc, Use(p) PROVE Goal
  BY <1>15 DEF Use, Goto, Return, Inv, TypeOK, TorTypes, BtTypes, ProcTypes, LocalsOK, HashOK, ClosedInMapHasCloser
<1>16. ASSUME NEW p \in Proc, NewReaderCheck(p) PROVE Goal
  BY <1>16 DEF NewReaderCheck, Return, Inv, TypeOK, TorTypes, BtTypes, ProcTypes, LocalsOK, HashOK, ClosedInMapHasCloser
<1>17. ASSUME NEW p \in Proc, NewReaderRegister(p) PROVE Goal
  BY <1>17 DEF NewReaderRegister, Goto, Return, Inv, TypeOK, TorTypes, BtTypes, ProcTypes, LocalsOK, HashOK, ClosedInMapHasCloser
<1>18. ASSUME NEW p \in Proc, CloseReader(p) PROVE Goal
  BY <1>18 DEF CloseReader, Return, Inv, TypeOK, TorTypes, BtTypes, ProcTypes, LocalsOK, HashOK, ClosedInMapHasCloser
<1>19. ASSUME NEW p \in Proc, PreloadStart(p) PROVE Goal
  BY <1>19 DEF PreloadStart, Goto, Return, Inv, TypeOK, TorTypes, BtTypes, ProcTypes, LocalsOK, HashOK, ClosedInMapHasCloser
<1>20. ASSUME NEW p \in Proc, PreloadEnd(p) PROVE Goal
  BY <1>20 DEF PreloadEnd, Return, Inv, TypeOK, TorTypes, BtTypes, ProcTypes, LocalsOK, HashOK, ClosedInMapHasCloser
<1>21. ASSUME NEW p \in Proc, RemoveTorrent(p) PROVE Goal
  BY <1>21 DEF RemoveTorrent, Goto, Return, Inv, TypeOK, TorTypes, BtTypes, ProcTypes, LocalsOK, HashOK, ClosedInMapHasCloser
<1>22. ASSUME NEW p \in Proc, CloseMark(p) PROVE Goal
  BY <1>22 DEF CloseMark, Goto, Return, Inv, TypeOK, TorTypes, BtTypes, ProcTypes, LocalsOK, HashOK, ClosedInMapHasCloser
<1>23. ASSUME NEW p \in Proc, CloseDelete(p) PROVE Goal
  BY <1>23 DEF CloseDelete, Goto, Inv, TypeOK, TorTypes, BtTypes, ProcTypes, LocalsOK, HashOK, ClosedInMapHasCloser
<1>24. ASSUME NEW p \in Proc, CloseDrop(p) PROVE Goal
  BY <1>24 DEF CloseDrop, Goto, Return, DropFirst, DropLast, Inv, TypeOK, TorTypes, BtTypes, ProcTypes, LocalsOK, HashOK, ClosedInMapHasCloser
<1>25. ASSUME NEW a \in Saver, SetSettings(a) PROVE Goal
  BY <1>25 DEF SetSettings, Inv, TypeOK, TorTypes, BtTypes, ProcTypes, LocalsOK, HashOK, ClosedInMapHasCloser
<1>26. ASSUME NEW a \in Saver, DropAll(a) PROVE Goal
  BY <1>26 DEF DropAll, DropFirst, DropLast, Inv, TypeOK, TorTypes, BtTypes, ProcTypes, LocalsOK, HashOK, ClosedInMapHasCloser
<1>27. ASSUME NEW a \in Saver, Disconnect(a) PROVE Goal
  BY <1>27 DEF Disconnect, CacheIn, Inv, TypeOK, TorTypes, BtTypes, ProcTypes, LocalsOK, HashOK, ClosedInMapHasCloser
<1>28. ASSUME NEW a \in Saver, Connect(a) PROVE Goal
  BY <1>28 DEF Connect, Inv, TypeOK, TorTypes, BtTypes, ProcTypes, LocalsOK, HashOK, ClosedInMapHasCloser
<1>29. ASSUME UNCHANGED vars PROVE Goal
  BY <1>29 DEF Inv, TypeOK, TorTypes, BtTypes, ProcTypes, LocalsOK, HashOK, ClosedInMapHasCloser
<1> QED
  BY <1>1, <1>2, <1>3, <1>4, <1>5, <1>6, <1>7, <1>8, <1>9, <1>10, <1>11, <1>12, <1>13, <1>14, <1>15, <1>16, <1>17, <1>18, <1>19, <1>20, <1>21, <1>22, <1>23, <1>24, <1>25, <1>26, <1>27, <1>28, <1>29
  DEF Next, Steady, Saving, Library, Request, Step

\* In every reachable state, a closed torrent still in bt.torrents has a
\* goroutine about to delete it.
THEOREM ClosedIsDeleted == Spec => []ClosedInMapHasCloser
<1>1. Init => ClosedInMapHasCloser
  BY NoneAssumption DEF Init, ClosedInMapHasCloser
<1>2. Spec => []Inv
  BY TypeCorrect, PTL DEF Inv
<1> QED BY <1>1, <1>2, CloserStep, PTL DEF Spec

\* No step takes a torrent out of the closed status.
LEMMA ClosedStep ==
  Inv /\ [Next]_vars => \A u \in Tor : stat[u] = "Closed" => stat'[u] = "Closed"
<1> DEFINE Goal == \A u \in Tor : stat[u] = "Closed" => stat'[u] = "Closed"
<1> SUFFICES ASSUME Inv, [Next]_vars PROVE Goal
  OBVIOUS
<1> USE NoneAssumption
    DEF vars, torVars, btVars, libVars, procVars, locals, adminVars
<1>1. ASSUME NEW h \in Handle, InfoArrives(h) PROVE Goal
  BY <1>1 DEF InfoArrives, CacheIn, Inv, TypeOK, TorTypes
<1>2. ASSUME NEW h \in Handle, CloseStorage(h) PROVE Goal
  BY <1>2 DEF CloseStorage, CacheIn, Inv, TypeOK, TorTypes
<1>3. ASSUME NEW t \in Tor, ExpireTime(t) PROVE Goal
  BY <1>3 DEF ExpireTime, Inv, TypeOK, TorTypes
<1>4. ASSUME NEW p \in Proc, NEW x \in Hash, GetTorrent(p, x) PROVE Goal
  BY <1>4 DEF GetTorrent, Goto, Inv, TypeOK, TorTypes
<1>5. ASSUME NEW p \in Proc, NEW x \in Hash, AddTorrent(p, x) PROVE Goal
  BY <1>5 DEF AddTorrent, Goto, Inv, TypeOK, TorTypes
<1>6. ASSUME NEW p \in Proc, NEW x \in Hash, DropTorrent(p, x) PROVE Goal
  BY <1>6 DEF DropTorrent, Goto, Inv, TypeOK, TorTypes
<1>7. ASSUME NEW p \in Proc, NEW t \in Tor, ProgressEvent(p, t) PROVE Goal
  BY <1>7 DEF ProgressEvent, Goto, Inv, TypeOK, TorTypes
<1>8. ASSUME NEW p \in Proc, NewTorrentAdd(p) PROVE Goal
  BY <1>8 DEF NewTorrentAdd, Goto, Return, Inv, TypeOK, TorTypes
<1>9. ASSUME NEW p \in Proc, NewTorrentInsert(p) PROVE Goal
  BY <1>9 DEF NewTorrentInsert, Goto, AfterNew, InMap, Inv, TypeOK, TorTypes
<1>10. ASSUME NEW p \in Proc, GotInfo(p) PROVE Goal
  BY <1>10 DEF GotInfo, Goto, Return, HasInfo, Inv, TypeOK, TorTypes
<1>11. ASSUME NEW p \in Proc, WaitInfo(p) PROVE Goal
  BY <1>11 DEF WaitInfo, Goto, Return, WaitFailed, Inv, TypeOK, TorTypes
<1>12. ASSUME NEW p \in Proc, WaitInfoGot(p) PROVE Goal
  BY <1>12 DEF WaitInfoGot, CacheIn, Goto, Return, WaitFailed, WaitSucceeded, Inv, TypeOK, TorTypes
<1>13. ASSUME NEW p \in Proc, WaitInfoFailed(p) PROVE Goal
  BY <1>13 DEF WaitInfoFailed, Goto, Return, WaitFailed, Inv, TypeOK, TorTypes
<1>14. ASSUME NEW p \in Proc, GotInfoDone(p) PROVE Goal
  BY <1>14 DEF GotInfoDone, Goto, Return, StatAfterInfo, Inv, TypeOK, TorTypes
<1>15. ASSUME NEW p \in Proc, Use(p) PROVE Goal
  BY <1>15 DEF Use, Goto, Return, Inv, TypeOK, TorTypes
<1>16. ASSUME NEW p \in Proc, NewReaderCheck(p) PROVE Goal
  BY <1>16 DEF NewReaderCheck, Return, Inv, TypeOK, TorTypes
<1>17. ASSUME NEW p \in Proc, NewReaderRegister(p) PROVE Goal
  BY <1>17 DEF NewReaderRegister, Goto, Return, Inv, TypeOK, TorTypes
<1>18. ASSUME NEW p \in Proc, CloseReader(p) PROVE Goal
  BY <1>18 DEF CloseReader, Return, Inv, TypeOK, TorTypes
<1>19. ASSUME NEW p \in Proc, PreloadStart(p) PROVE Goal
  BY <1>19 DEF PreloadStart, Goto, Return, Inv, TypeOK, TorTypes
<1>20. ASSUME NEW p \in Proc, PreloadEnd(p) PROVE Goal
  BY <1>20 DEF PreloadEnd, Return, Inv, TypeOK, TorTypes
<1>21. ASSUME NEW p \in Proc, RemoveTorrent(p) PROVE Goal
  BY <1>21 DEF RemoveTorrent, Goto, Return, Inv, TypeOK, TorTypes
<1>22. ASSUME NEW p \in Proc, CloseMark(p) PROVE Goal
  BY <1>22 DEF CloseMark, Goto, Return, Inv, TypeOK, TorTypes
<1>23. ASSUME NEW p \in Proc, CloseDelete(p) PROVE Goal
  BY <1>23 DEF CloseDelete, Goto, Inv, TypeOK, TorTypes
<1>24. ASSUME NEW p \in Proc, CloseDrop(p) PROVE Goal
  BY <1>24 DEF CloseDrop, Goto, Return, DropFirst, DropLast, Inv, TypeOK, TorTypes
<1>25. ASSUME NEW a \in Saver, SetSettings(a) PROVE Goal
  BY <1>25 DEF SetSettings, Inv, TypeOK, TorTypes
<1>26. ASSUME NEW a \in Saver, DropAll(a) PROVE Goal
  BY <1>26 DEF DropAll, DropFirst, DropLast, Inv, TypeOK, TorTypes
<1>27. ASSUME NEW a \in Saver, Disconnect(a) PROVE Goal
  BY <1>27 DEF Disconnect, CacheIn, Inv, TypeOK, TorTypes
<1>28. ASSUME NEW a \in Saver, Connect(a) PROVE Goal
  BY <1>28 DEF Connect, Inv, TypeOK, TorTypes
<1>29. ASSUME UNCHANGED vars PROVE Goal
  BY <1>29 DEF Inv, TypeOK, TorTypes
<1> QED
  BY <1>1, <1>2, <1>3, <1>4, <1>5, <1>6, <1>7, <1>8, <1>9, <1>10, <1>11, <1>12, <1>13, <1>14, <1>15, <1>16, <1>17, <1>18, <1>19, <1>20, <1>21, <1>22, <1>23, <1>24, <1>25, <1>26, <1>27, <1>28, <1>29
  DEF Next, Steady, Saving, Library, Request, Step

\* A closed torrent is never turned back into a working one.
THEOREM ClosedForGood == Spec => ClosedIsFinal
<1>1. Inv /\ [Next]_vars => [\A t \in Tor : stat[t] = "Closed" => stat'[t] = "Closed"]_vars
  BY ClosedStep
<1>2. Spec => []Inv
  BY TypeCorrect, PTL DEF Inv
<1> QED BY <1>1, <1>2, PTL DEF Spec, ClosedIsFinal

\* Between settings changes the goroutine at "delete" is the only one closing
\* its torrent, and the map still has that torrent under its hash.
DeleteOK ==
  /\ \A p \in Proc : pc[p] = "delete"
       => stat[tor[p]] = "Closed" /\ torrents[hashOf[tor[p]]] = tor[p]
  /\ \A p, q \in Proc : pc[p] = "delete" /\ pc[q] = "delete" /\ p # q
       => tor[p] # tor[q]

\* A step between settings changes keeps every open torrent in the map.
LEMMA MappedStep ==
  Inv /\ OpenIsMapped /\ DeleteOK /\ [Steady]_vars => OpenIsMapped'
<1> DEFINE Goal == OpenIsMapped'
<1> SUFFICES ASSUME Inv, OpenIsMapped, DeleteOK, [Steady]_vars PROVE Goal
  OBVIOUS
<1> USE NoneAssumption
    DEF vars, torVars, btVars, libVars, procVars, locals, adminVars
<1>1. ASSUME NEW h \in Handle, InfoArrives(h) PROVE Goal
  BY <1>1 DEF InfoArrives, CacheIn, Inv, TypeOK, TorTypes, BtTypes, ProcTypes, LocalsOK, HashOK, OpenIsMapped, DeleteOK, Stats
<1>2. ASSUME NEW h \in Handle, CloseStorage(h) PROVE Goal
  BY <1>2 DEF CloseStorage, CacheIn, Inv, TypeOK, TorTypes, BtTypes, ProcTypes, LocalsOK, HashOK, OpenIsMapped, DeleteOK, Stats
<1>3. ASSUME NEW t \in Tor, ExpireTime(t) PROVE Goal
  BY <1>3 DEF ExpireTime, Inv, TypeOK, TorTypes, BtTypes, ProcTypes, LocalsOK, HashOK, OpenIsMapped, DeleteOK, Stats
<1>4. ASSUME NEW p \in Proc, NEW x \in Hash, GetTorrent(p, x) PROVE Goal
  BY <1>4 DEF GetTorrent, Goto, Inv, TypeOK, TorTypes, BtTypes, ProcTypes, LocalsOK, HashOK, OpenIsMapped, DeleteOK, Stats
<1>5. ASSUME NEW p \in Proc, NEW x \in Hash, AddTorrent(p, x) PROVE Goal
  BY <1>5 DEF AddTorrent, Goto, Inv, TypeOK, TorTypes, BtTypes, ProcTypes, LocalsOK, HashOK, OpenIsMapped, DeleteOK, Stats
<1>6. ASSUME NEW p \in Proc, NEW x \in Hash, DropTorrent(p, x) PROVE Goal
  BY <1>6 DEF DropTorrent, Goto, Inv, TypeOK, TorTypes, BtTypes, ProcTypes, LocalsOK, HashOK, OpenIsMapped, DeleteOK, Stats
<1>7. ASSUME NEW p \in Proc, NEW t \in Tor, ProgressEvent(p, t) PROVE Goal
  BY <1>7 DEF ProgressEvent, Goto, Inv, TypeOK, TorTypes, BtTypes, ProcTypes, LocalsOK, HashOK, OpenIsMapped, DeleteOK, Stats
<1>8. ASSUME NEW p \in Proc, NewTorrentAdd(p) PROVE Goal
  BY <1>8 DEF NewTorrentAdd, Goto, Return, Inv, TypeOK, TorTypes, BtTypes, ProcTypes, LocalsOK, HashOK, OpenIsMapped, DeleteOK, Stats
<1>9. ASSUME NEW p \in Proc, NewTorrentInsert(p) PROVE Goal
  BY <1>9 DEF NewTorrentInsert, Goto, AfterNew, InMap, Inv, TypeOK, TorTypes, BtTypes, ProcTypes, LocalsOK, HashOK, OpenIsMapped, DeleteOK, Stats
<1>10. ASSUME NEW p \in Proc, GotInfo(p) PROVE Goal
  BY <1>10 DEF GotInfo, Goto, Return, HasInfo, Inv, TypeOK, TorTypes, BtTypes, ProcTypes, LocalsOK, HashOK, OpenIsMapped, DeleteOK, Stats
<1>11. ASSUME NEW p \in Proc, WaitInfo(p) PROVE Goal
  BY <1>11 DEF WaitInfo, Goto, Return, WaitFailed, Inv, TypeOK, TorTypes, BtTypes, ProcTypes, LocalsOK, HashOK, OpenIsMapped, DeleteOK, Stats
<1>12. ASSUME NEW p \in Proc, WaitInfoGot(p) PROVE Goal
  BY <1>12 DEF WaitInfoGot, CacheIn, Goto, Return, WaitFailed, WaitSucceeded, Inv, TypeOK, TorTypes, BtTypes, ProcTypes, LocalsOK, HashOK, OpenIsMapped, DeleteOK, Stats
<1>13. ASSUME NEW p \in Proc, WaitInfoFailed(p) PROVE Goal
  BY <1>13 DEF WaitInfoFailed, Goto, Return, WaitFailed, Inv, TypeOK, TorTypes, BtTypes, ProcTypes, LocalsOK, HashOK, OpenIsMapped, DeleteOK, Stats
<1>14. ASSUME NEW p \in Proc, GotInfoDone(p) PROVE Goal
  BY <1>14 DEF GotInfoDone, Goto, Return, StatAfterInfo, Inv, TypeOK, TorTypes, BtTypes, ProcTypes, LocalsOK, HashOK, OpenIsMapped, DeleteOK, Stats
<1>15. ASSUME NEW p \in Proc, Use(p) PROVE Goal
  BY <1>15 DEF Use, Goto, Return, Inv, TypeOK, TorTypes, BtTypes, ProcTypes, LocalsOK, HashOK, OpenIsMapped, DeleteOK, Stats
<1>16. ASSUME NEW p \in Proc, NewReaderCheck(p) PROVE Goal
  BY <1>16 DEF NewReaderCheck, Return, Inv, TypeOK, TorTypes, BtTypes, ProcTypes, LocalsOK, HashOK, OpenIsMapped, DeleteOK, Stats
<1>17. ASSUME NEW p \in Proc, NewReaderRegister(p) PROVE Goal
  BY <1>17 DEF NewReaderRegister, Goto, Return, Inv, TypeOK, TorTypes, BtTypes, ProcTypes, LocalsOK, HashOK, OpenIsMapped, DeleteOK, Stats
<1>18. ASSUME NEW p \in Proc, CloseReader(p) PROVE Goal
  BY <1>18 DEF CloseReader, Return, Inv, TypeOK, TorTypes, BtTypes, ProcTypes, LocalsOK, HashOK, OpenIsMapped, DeleteOK, Stats
<1>19. ASSUME NEW p \in Proc, PreloadStart(p) PROVE Goal
  BY <1>19 DEF PreloadStart, Goto, Return, Inv, TypeOK, TorTypes, BtTypes, ProcTypes, LocalsOK, HashOK, OpenIsMapped, DeleteOK, Stats
<1>20. ASSUME NEW p \in Proc, PreloadEnd(p) PROVE Goal
  BY <1>20 DEF PreloadEnd, Return, Inv, TypeOK, TorTypes, BtTypes, ProcTypes, LocalsOK, HashOK, OpenIsMapped, DeleteOK, Stats
<1>21. ASSUME NEW p \in Proc, RemoveTorrent(p) PROVE Goal
  BY <1>21 DEF RemoveTorrent, Goto, Return, Inv, TypeOK, TorTypes, BtTypes, ProcTypes, LocalsOK, HashOK, OpenIsMapped, DeleteOK, Stats
<1>22. ASSUME NEW p \in Proc, CloseMark(p) PROVE Goal
  BY <1>22 DEF CloseMark, Goto, Return, Inv, TypeOK, TorTypes, BtTypes, ProcTypes, LocalsOK, HashOK, OpenIsMapped, DeleteOK, Stats
<1>23. ASSUME NEW p \in Proc, CloseDelete(p) PROVE Goal
  BY <1>23 DEF CloseDelete, Goto, Inv, TypeOK, TorTypes, BtTypes, ProcTypes, LocalsOK, HashOK, OpenIsMapped, DeleteOK, Stats
<1>24. ASSUME NEW p \in Proc, CloseDrop(p) PROVE Goal
  BY <1>24 DEF CloseDrop, Goto, Return, DropFirst, DropLast, Inv, TypeOK, TorTypes, BtTypes, ProcTypes, LocalsOK, HashOK, OpenIsMapped, DeleteOK, Stats
<1>25. ASSUME UNCHANGED vars PROVE Goal
  BY <1>25 DEF Inv, TypeOK, TorTypes, BtTypes, ProcTypes, LocalsOK, HashOK, OpenIsMapped, DeleteOK, Stats
<1> QED
  BY <1>1, <1>2, <1>3, <1>4, <1>5, <1>6, <1>7, <1>8, <1>9, <1>10, <1>11, <1>12, <1>13, <1>14, <1>15, <1>16, <1>17, <1>18, <1>19, <1>20, <1>21, <1>22, <1>23, <1>24, <1>25
  DEF Steady, Library, Request, Step

\* ... and the deleters apart.
LEMMA DeleteStep ==
  Inv /\ OpenIsMapped /\ DeleteOK /\ [Steady]_vars => DeleteOK'
<1> DEFINE Goal == DeleteOK'
<1> SUFFICES ASSUME Inv, OpenIsMapped, DeleteOK, [Steady]_vars PROVE Goal
  OBVIOUS
<1> USE NoneAssumption
    DEF vars, torVars, btVars, libVars, procVars, locals, adminVars
<1>1. ASSUME NEW h \in Handle, InfoArrives(h) PROVE Goal
  BY <1>1 DEF InfoArrives, CacheIn, Inv, TypeOK, TorTypes, BtTypes, ProcTypes, LocalsOK, HashOK, OpenIsMapped, DeleteOK, Stats
<1>2. ASSUME NEW h \in Handle, CloseStorage(h) PROVE Goal
  BY <1>2 DEF CloseStorage, CacheIn, Inv, TypeOK, TorTypes, BtTypes, ProcTypes, LocalsOK, HashOK, OpenIsMapped, DeleteOK, Stats
<1>3. ASSUME NEW t \in Tor, ExpireTime(t) PROVE Goal
  BY <1>3 DEF ExpireTime, Inv, TypeOK, TorTypes, BtTypes, ProcTypes, LocalsOK, HashOK, OpenIsMapped, DeleteOK, Stats
<1>4. ASSUME NEW p \in Proc, NEW x \in Hash, GetTorrent(p, x) PROVE Goal
  BY <1>4 DEF GetTorrent, Goto, Inv, TypeOK, TorTypes, BtTypes, ProcTypes, LocalsOK, HashOK, OpenIsMapped, DeleteOK, Stats
<1>5. ASSUME NEW p \in Proc, NEW x \in Hash, AddTorrent(p, x) PROVE Goal
  BY <1>5 DEF AddTorrent, Goto, Inv, TypeOK, TorTypes, BtTypes, ProcTypes, LocalsOK, HashOK, OpenIsMapped, DeleteOK, Stats
<1>6. ASSUME NEW p \in Proc, NEW x \in Hash, DropTorrent(p, x) PROVE Goal
  BY <1>6 DEF DropTorrent, Goto, Inv, TypeOK, TorTypes, BtTypes, ProcTypes, LocalsOK, HashOK, OpenIsMapped, DeleteOK, Stats
<1>7. ASSUME NEW p \in Proc, NEW t \in Tor, ProgressEvent(p, t) PROVE Goal
  BY <1>7 DEF ProgressEvent, Goto, Inv, TypeOK, TorTypes, BtTypes, ProcTypes, LocalsOK, HashOK, OpenIsMapped, DeleteOK, Stats
<1>8. ASSUME NEW p \in Proc, NewTorrentAdd(p) PROVE Goal
  BY <1>8 DEF NewTorrentAdd, Goto, Return, Inv, TypeOK, TorTypes, BtTypes, ProcTypes, LocalsOK, HashOK, OpenIsMapped, DeleteOK, Stats
<1>9. ASSUME NEW p \in Proc, NewTorrentInsert(p) PROVE Goal
  BY <1>9 DEF NewTorrentInsert, Goto, AfterNew, InMap, Inv, TypeOK, TorTypes, BtTypes, ProcTypes, LocalsOK, HashOK, OpenIsMapped, DeleteOK, Stats
<1>10. ASSUME NEW p \in Proc, GotInfo(p) PROVE Goal
  BY <1>10 DEF GotInfo, Goto, Return, HasInfo, Inv, TypeOK, TorTypes, BtTypes, ProcTypes, LocalsOK, HashOK, OpenIsMapped, DeleteOK, Stats
<1>11. ASSUME NEW p \in Proc, WaitInfo(p) PROVE Goal
  BY <1>11 DEF WaitInfo, Goto, Return, WaitFailed, Inv, TypeOK, TorTypes, BtTypes, ProcTypes, LocalsOK, HashOK, OpenIsMapped, DeleteOK, Stats
<1>12. ASSUME NEW p \in Proc, WaitInfoGot(p) PROVE Goal
  BY <1>12 DEF WaitInfoGot, CacheIn, Goto, Return, WaitFailed, WaitSucceeded, Inv, TypeOK, TorTypes, BtTypes, ProcTypes, LocalsOK, HashOK, OpenIsMapped, DeleteOK, Stats
<1>13. ASSUME NEW p \in Proc, WaitInfoFailed(p) PROVE Goal
  BY <1>13 DEF WaitInfoFailed, Goto, Return, WaitFailed, Inv, TypeOK, TorTypes, BtTypes, ProcTypes, LocalsOK, HashOK, OpenIsMapped, DeleteOK, Stats
<1>14. ASSUME NEW p \in Proc, GotInfoDone(p) PROVE Goal
  BY <1>14, SMTT(60) DEF GotInfoDone, Goto, Return, StatAfterInfo, Inv, TypeOK, TorTypes, BtTypes, ProcTypes, LocalsOK, HashOK, OpenIsMapped, DeleteOK, Stats
<1>15. ASSUME NEW p \in Proc, Use(p) PROVE Goal
  BY <1>15 DEF Use, Goto, Return, Inv, TypeOK, TorTypes, BtTypes, ProcTypes, LocalsOK, HashOK, OpenIsMapped, DeleteOK, Stats
<1>16. ASSUME NEW p \in Proc, NewReaderCheck(p) PROVE Goal
  BY <1>16 DEF NewReaderCheck, Return, Inv, TypeOK, TorTypes, BtTypes, ProcTypes, LocalsOK, HashOK, OpenIsMapped, DeleteOK, Stats
<1>17. ASSUME NEW p \in Proc, NewReaderRegister(p) PROVE Goal
  BY <1>17 DEF NewReaderRegister, Goto, Return, Inv, TypeOK, TorTypes, BtTypes, ProcTypes, LocalsOK, HashOK, OpenIsMapped, DeleteOK, Stats
<1>18. ASSUME NEW p \in Proc, CloseReader(p) PROVE Goal
  BY <1>18 DEF CloseReader, Return, Inv, TypeOK, TorTypes, BtTypes, ProcTypes, LocalsOK, HashOK, OpenIsMapped, DeleteOK, Stats
<1>19. ASSUME NEW p \in Proc, PreloadStart(p) PROVE Goal
  BY <1>19 DEF PreloadStart, Goto, Return, Inv, TypeOK, TorTypes, BtTypes, ProcTypes, LocalsOK, HashOK, OpenIsMapped, DeleteOK, Stats
<1>20. ASSUME NEW p \in Proc, PreloadEnd(p) PROVE Goal
  BY <1>20 DEF PreloadEnd, Return, Inv, TypeOK, TorTypes, BtTypes, ProcTypes, LocalsOK, HashOK, OpenIsMapped, DeleteOK, Stats
<1>21. ASSUME NEW p \in Proc, RemoveTorrent(p) PROVE Goal
  BY <1>21 DEF RemoveTorrent, Goto, Return, Inv, TypeOK, TorTypes, BtTypes, ProcTypes, LocalsOK, HashOK, OpenIsMapped, DeleteOK, Stats
<1>22. ASSUME NEW p \in Proc, CloseMark(p) PROVE Goal
  BY <1>22 DEF CloseMark, Goto, Return, Inv, TypeOK, TorTypes, BtTypes, ProcTypes, LocalsOK, HashOK, OpenIsMapped, DeleteOK, Stats
<1>23. ASSUME NEW p \in Proc, CloseDelete(p) PROVE Goal
  BY <1>23 DEF CloseDelete, Goto, Inv, TypeOK, TorTypes, BtTypes, ProcTypes, LocalsOK, HashOK, OpenIsMapped, DeleteOK, Stats
<1>24. ASSUME NEW p \in Proc, CloseDrop(p) PROVE Goal
  BY <1>24 DEF CloseDrop, Goto, Return, DropFirst, DropLast, Inv, TypeOK, TorTypes, BtTypes, ProcTypes, LocalsOK, HashOK, OpenIsMapped, DeleteOK, Stats
<1>25. ASSUME UNCHANGED vars PROVE Goal
  BY <1>25 DEF Inv, TypeOK, TorTypes, BtTypes, ProcTypes, LocalsOK, HashOK, OpenIsMapped, DeleteOK, Stats
<1> QED
  BY <1>1, <1>2, <1>3, <1>4, <1>5, <1>6, <1>7, <1>8, <1>9, <1>10, <1>11, <1>12, <1>13, <1>14, <1>15, <1>16, <1>17, <1>18, <1>19, <1>20, <1>21, <1>22, <1>23, <1>24, <1>25
  DEF Steady, Library, Request, Step

\* Between settings changes every torrent that is not closed is in bt.torrents
\* under its own hash.
THEOREM SteadyOpenIsMapped == SteadySpec => []OpenIsMapped
<1> DEFINE I == Inv /\ OpenIsMapped /\ DeleteOK
<1>1. Init => I
  BY InitTypes DEF Init, Inv, OpenIsMapped, DeleteOK
<1>2. I /\ [Steady]_vars => I'
  <2>1. [Steady]_vars => [Next]_vars
    BY DEF Next
  <2> QED
    BY <2>1, MappedStep, DeleteStep, TypeStep, LocalsStep, HashStep DEF Inv
<1>3. I => OpenIsMapped
  OBVIOUS
<1> QED BY <1>1, <1>2, <1>3, PTL DEF SteadySpec

-----------------------------------------------------------------------------
(* Dropping.                                                                *)

\* Inside Close, past the point that marks the torrent closed.
Closing == {"delete", "drop", "dropping"}

\* A step that neither allocates, closes nor drops a torrent, and tells no channel.
DropsNothing ==
  /\ UNCHANGED <<handle, closedCh, mu, hst>>
  /\ \A t \in Tor : stat'[t] # stat[t] => {stat[t], stat'[t]} \cap {"Free", "Closed"} = {}
  /\ \A p \in Proc :
       /\ pc'[p] \in Closing <=> pc[p] \in Closing
       /\ pc'[p] = "dropping" <=> pc[p] = "dropping"
       /\ pc[p] \in Closing => tor'[p] = tor[p]
  /\ \A a \in Saver :
       /\ apc'[a] = "dropping" <=> apc[a] = "dropping"
       /\ apc[a] = "dropping" => ator'[a] = ator[a]

\* The steps that do.
Drops ==
  \/ \E p \in Proc : NewTorrentAdd(p) \/ NewTorrentInsert(p) \/ CloseMark(p) \/ CloseDrop(p)
  \/ \E h \in Handle : CloseStorage(h)
  \/ \E a \in Saver : DropAll(a) \/ Disconnect(a)

\* There are no others.
LEMMA OthersDropNothing == Inv /\ [Next]_vars => Drops \/ DropsNothing
<1> SUFFICES ASSUME Inv, [Next]_vars, ~Drops PROVE DropsNothing
  OBVIOUS
<1> USE NoneAssumption
    DEF vars, torVars, btVars, libVars, procVars, locals, adminVars, Inv, TypeOK, TorTypes, ProcTypes, AdminTypes, Closing, DropsNothing
<1>1. ASSUME NEW h \in Handle, InfoArrives(h) PROVE DropsNothing
  BY <1>1 DEF InfoArrives, CacheIn
<1>2. ASSUME NEW t \in Tor, ExpireTime(t) PROVE DropsNothing
  BY <1>2 DEF ExpireTime
<1>3. ASSUME NEW p \in Proc, NEW x \in Hash, GetTorrent(p, x) PROVE DropsNothing
  BY <1>3 DEF GetTorrent, Goto
<1>4. ASSUME NEW p \in Proc, NEW x \in Hash, AddTorrent(p, x) PROVE DropsNothing
  BY <1>4 DEF AddTorrent, Goto
<1>5. ASSUME NEW p \in Proc, NEW x \in Hash, DropTorrent(p, x) PROVE DropsNothing
  BY <1>5 DEF DropTorrent, Goto
<1>6. ASSUME NEW p \in Proc, NEW t \in Tor, ProgressEvent(p, t) PROVE DropsNothing
  BY <1>6 DEF ProgressEvent, Goto
<1>7. ASSUME NEW p \in Proc, GotInfo(p) PROVE DropsNothing
  BY <1>7 DEF GotInfo, Goto, Return
<1>8. ASSUME NEW p \in Proc, WaitInfo(p) PROVE DropsNothing
  BY <1>8 DEF WaitInfo, Goto, Return, WaitFailed
<1>9. ASSUME NEW p \in Proc, WaitInfoGot(p) PROVE DropsNothing
  BY <1>9 DEF WaitInfoGot, CacheIn, Goto, Return, WaitFailed, WaitSucceeded
<1>10. ASSUME NEW p \in Proc, WaitInfoFailed(p) PROVE DropsNothing
  BY <1>10 DEF WaitInfoFailed, Goto, Return, WaitFailed
<1>11. ASSUME NEW p \in Proc, GotInfoDone(p) PROVE DropsNothing
  BY <1>11 DEF GotInfoDone, Goto, Return, StatAfterInfo
<1>12. ASSUME NEW p \in Proc, Use(p) PROVE DropsNothing
  BY <1>12 DEF Use, Goto, Return
<1>13. ASSUME NEW p \in Proc, NewReaderCheck(p) PROVE DropsNothing
  BY <1>13 DEF NewReaderCheck, Return
<1>14. ASSUME NEW p \in Proc, NewReaderRegister(p) PROVE DropsNothing
  BY <1>14 DEF NewReaderRegister, Goto, Return
<1>15. ASSUME NEW p \in Proc, CloseReader(p) PROVE DropsNothing
  BY <1>15 DEF CloseReader, Return
<1>16. ASSUME NEW p \in Proc, PreloadStart(p) PROVE DropsNothing
  BY <1>16 DEF PreloadStart, Goto, Return
<1>17. ASSUME NEW p \in Proc, PreloadEnd(p) PROVE DropsNothing
  BY <1>17 DEF PreloadEnd, Return
<1>18. ASSUME NEW p \in Proc, RemoveTorrent(p) PROVE DropsNothing
  BY <1>18 DEF RemoveTorrent, Goto, Return
<1>19. ASSUME NEW p \in Proc, CloseDelete(p) PROVE DropsNothing
  BY <1>19 DEF CloseDelete, Goto
<1>20. ASSUME NEW a \in Saver, SetSettings(a) PROVE DropsNothing
  BY <1>20 DEF SetSettings
<1>21. ASSUME NEW a \in Saver, Connect(a) PROVE DropsNothing
  BY <1>21 DEF Connect
<1>22. ASSUME UNCHANGED vars PROVE DropsNothing
  BY <1>22
<1> QED
  BY <1>1, <1>2, <1>3, <1>4, <1>5, <1>6, <1>7, <1>8, <1>9, <1>10, <1>11, <1>12, <1>13, <1>14, <1>15, <1>16, <1>17, <1>18, <1>19, <1>20, <1>21, <1>22
  DEF Drops, Next, Steady, Saving, Library, Request, Step

\* A torrent has the handle it was created with until that has been dropped.
HandlesOK ==
  \A t \in Tor : stat[t] # "Free" =>
    /\ closedCh[t] \in Handle /\ handle[t] \in {closedCh[t], None}
    /\ handle[t] = None => Fired(closedCh[t])

\* drop() is a critical section: whoever is between its two parts holds the lock, alone, and
\* finds the handle.
DropperOK == \A p \in Proc : pc[p] = "dropping" => mu[tor[p]] /\ handle[tor[p]] # None

AdminOK ==
  \A a \in Saver : apc[a] = "dropping"
                     => ator[a] \in Tor /\ mu[ator[a]] /\ handle[ator[a]] # None

DroppersApart ==
  /\ \A p, q \in Proc : pc[p] = "dropping" /\ pc[q] = "dropping" /\ p # q => tor[p] # tor[q]
  /\ \A p \in Proc, a \in Saver :
       pc[p] = "dropping" /\ apc[a] = "dropping" => tor[p] # ator[a]
  /\ \A a, b \in Saver :
       apc[a] = "dropping" /\ apc[b] = "dropping" /\ a # b => ator[a] # ator[b]

DropOK == HandlesOK /\ DropperOK /\ AdminOK /\ DroppersApart

\* A channel that fired stays closed.
LEMMA FiredStep ==
  Inv /\ [Next]_vars => \A h \in Handle : Fired(h) => hst'[h] \in {"closing", "closed"}
<1> SUFFICES ASSUME Inv, [Next]_vars, NEW g \in Handle, Fired(g)
             PROVE  hst'[g] \in {"closing", "closed"}
  OBVIOUS
<1> USE NoneAssumption DEF Inv, TypeOK, LibTypes, Fired
<1>1. CASE DropsNothing
  BY <1>1 DEF DropsNothing
<1>2. ASSUME NEW p \in Proc, NewTorrentAdd(p) PROVE hst'[g] \in {"closing", "closed"}
  BY <1>2 DEF NewTorrentAdd, libVars
<1>3. ASSUME NEW p \in Proc, NewTorrentInsert(p) \/ CloseMark(p) PROVE hst'[g] \in {"closing", "closed"}
  BY <1>3 DEF NewTorrentInsert, CloseMark, libVars
<1>4. ASSUME NEW p \in Proc, CloseDrop(p) PROVE hst'[g] \in {"closing", "closed"}
  BY <1>4 DEF CloseDrop, DropFirst
<1>5. ASSUME NEW h \in Handle, CloseStorage(h) PROVE hst'[g] \in {"closing", "closed"}
  BY <1>5 DEF CloseStorage, CacheIn
<1>6. ASSUME NEW a \in Saver, DropAll(a) PROVE hst'[g] \in {"closing", "closed"}
  BY <1>6 DEF DropAll, DropFirst
<1>7. ASSUME NEW a \in Saver, Disconnect(a) PROVE hst'[g] \in {"closing", "closed"}
  BY <1>7 DEF Disconnect, CacheIn
<1> QED
  BY <1>1, <1>2, <1>3, <1>4, <1>5, <1>6, <1>7, OthersDropNothing DEF Drops, Inv

LEMMA DropStep == Inv /\ DropOK /\ [Next]_vars => DropOK'
<1> SUFFICES ASSUME Inv, DropOK, [Next]_vars PROVE DropOK'
  OBVIOUS
<1>f. \A h \in Handle : hst[h] \in {"closing", "closed"} => hst'[h] \in {"closing", "closed"}
  BY FiredStep, NoneAssumption DEF Fired
<1> USE NoneAssumption DEF torVars, libVars, locals, procVars, adminVars, Inv, TypeOK, TorTypes, ProcTypes, AdminTypes, FlagTypes, LocalsOK, DropOK
<1>1. CASE DropsNothing
  <2>1. HandlesOK'
    <3>1. \A t \in Tor : stat'[t] # "Free" => stat[t] # "Free"
      BY <1>1 DEF DropsNothing
    <3>2. UNCHANGED <<handle, closedCh, hst>>
      BY <1>1 DEF DropsNothing
    <3>3. HandlesOK
      OBVIOUS
    <3> QED
      BY ONLY <3>1, <3>2, <3>3 DEF HandlesOK, Fired
  <2>2. DropperOK'
    BY <1>1 DEF HandlesOK, DropperOK, DroppersApart, DropsNothing, Closing
  <2>3. AdminOK'
    BY <1>1 DEF HandlesOK, AdminOK, DroppersApart, DropsNothing, Closing
  <2>4. DroppersApart'
    BY <1>1 DEF DropperOK, AdminOK, DroppersApart, DropsNothing, Closing
  <2> QED BY <2>1, <2>2, <2>3, <2>4
<1>2. ASSUME NEW p \in Proc, NewTorrentAdd(p) PROVE DropOK'
  <2>1. HandlesOK'
    BY <1>2, <1>f DEF HandlesOK, DropperOK, AdminOK, LibTypes, Fired, NewTorrentAdd, Goto, Return
  <2>2. DropperOK'
    BY <1>2 DEF HandlesOK, DropperOK, DroppersApart, NewTorrentAdd, Goto, Return
  <2>3. AdminOK'
    BY <1>2 DEF HandlesOK, AdminOK, DroppersApart, NewTorrentAdd, Goto, Return
  <2>4. DroppersApart'
    <3>1. UNCHANGED <<apc, ator>>
      BY <1>2 DEF NewTorrentAdd
    <3>2. \A q \in Proc : pc'[q] = "dropping" => pc[q] = "dropping" /\ tor'[q] = tor[q]
      BY <1>2 DEF NewTorrentAdd, Goto, Return
    <3> QED BY <3>1, <3>2 DEF DroppersApart
  <2> QED BY <2>1, <2>2, <2>3, <2>4
<1>3. ASSUME NEW p \in Proc, NewTorrentInsert(p) PROVE DropOK'
  <2>1. HandlesOK'
    BY <1>3, <1>f DEF HandlesOK, DropperOK, AdminOK, LibTypes, Fired, NewTorrentInsert, Goto, AfterNew
  <2>2. DropperOK'
    <3>1. UNCHANGED mu /\ \A q \in Proc : pc'[q] = "dropping" => pc[q] = "dropping" /\ tor'[q] = tor[q]
      BY <1>3 DEF NewTorrentInsert, Goto, AfterNew
    <3>2. \A t \in Tor : handle[t] # None /\ stat[t] # "Free" => handle'[t] # None
      BY <1>3 DEF NewTorrentInsert
    <3> QED BY <3>1, <3>2 DEF DropperOK
  <2>3. AdminOK'
    BY <1>3 DEF HandlesOK, AdminOK, DroppersApart, NewTorrentInsert, Goto, AfterNew
  <2>4. DroppersApart'
    <3>1. UNCHANGED <<apc, ator>>
      BY <1>3 DEF NewTorrentInsert
    <3>2. \A q \in Proc : pc'[q] = "dropping" => pc[q] = "dropping" /\ tor'[q] = tor[q]
      BY <1>3 DEF NewTorrentInsert, Goto, AfterNew
    <3> QED BY <3>1, <3>2 DEF DroppersApart
  <2> QED BY <2>1, <2>2, <2>3, <2>4
<1>4. ASSUME NEW p \in Proc, CloseMark(p) PROVE DropOK'
  <2>1. HandlesOK'
    BY <1>4, <1>f DEF HandlesOK, DropperOK, AdminOK, LibTypes, Fired, CloseMark, Goto, Return
  <2>2. DropperOK'
    BY <1>4 DEF HandlesOK, DropperOK, DroppersApart, CloseMark, Goto, Return
  <2>3. AdminOK'
    BY <1>4 DEF HandlesOK, AdminOK, DroppersApart, CloseMark, Goto, Return
  <2>4. DroppersApart'
    <3>1. UNCHANGED <<apc, ator>>
      BY <1>4 DEF CloseMark
    <3>2. \A q \in Proc : pc'[q] = "dropping" => pc[q] = "dropping" /\ tor'[q] = tor[q]
      BY <1>4 DEF CloseMark, Goto, Return
    <3> QED BY <3>1, <3>2 DEF DroppersApart
  <2> QED BY <2>1, <2>2, <2>3, <2>4
<1>5. ASSUME NEW p \in Proc, CloseDrop(p) PROVE DropOK'
  <2>1. HandlesOK'
    BY <1>5, <1>f DEF HandlesOK, DropperOK, AdminOK, LibTypes, Fired, CloseDrop, DropFirst, DropLast, Goto, Return
  <2>2. DropperOK'
    BY <1>5 DEF HandlesOK, DropperOK, DroppersApart, CloseDrop, DropFirst, DropLast, Goto, Return
  <2>3. AdminOK'
    BY <1>5 DEF HandlesOK, AdminOK, DroppersApart, CloseDrop, DropFirst, DropLast, Goto, Return
  <2>4. DroppersApart'
    <3>1. UNCHANGED <<apc, ator>> /\ \A q \in Proc \ {p} : pc'[q] = pc[q] /\ tor'[q] = tor[q]
      BY <1>5 DEF CloseDrop, Goto, Return
    <3>2. pc'[p] = "dropping" => tor'[p] = tor[p] /\ ~mu[tor[p]]
      BY <1>5 DEF CloseDrop, DropFirst, Goto, Return
    <3> QED BY <3>1, <3>2 DEF DropperOK, AdminOK, DroppersApart
  <2> QED BY <2>1, <2>2, <2>3, <2>4
<1>6. ASSUME NEW h \in Handle, CloseStorage(h) PROVE DropOK'
  <2>1. HandlesOK'
    BY <1>6, <1>f DEF HandlesOK, DropperOK, AdminOK, LibTypes, Fired, CloseStorage
  <2>2. DropperOK'
    BY <1>6 DEF HandlesOK, DropperOK, DroppersApart, CloseStorage
  <2>3. AdminOK'
    BY <1>6 DEF HandlesOK, AdminOK, DroppersApart, CloseStorage
  <2>4. DroppersApart'
    BY <1>6 DEF DropperOK, AdminOK, DroppersApart, CloseStorage
  <2> QED BY <2>1, <2>2, <2>3, <2>4
<1>7. ASSUME NEW a \in Saver, DropAll(a) PROVE DropOK'
  <2>1. HandlesOK'
    BY <1>7, <1>f DEF HandlesOK, DropperOK, AdminOK, LibTypes, Fired, DropAll, DropFirst, DropLast
  <2>2. DropperOK'
    <3>1. UNCHANGED <<pc, tor>>
      BY <1>7 DEF DropAll
    <3>2. \A t \in Tor : mu[t] /\ handle[t] # None /\ ~(apc[a] = "dropping" /\ t = ator[a])
                           => mu'[t] /\ handle'[t] # None
      BY <1>7 DEF DropAll, DropFirst, DropLast
    <3> QED BY <3>1, <3>2 DEF DropperOK, DroppersApart
  <2>3. AdminOK'
    <3>1. \A b \in Saver \ {a} : apc'[b] = apc[b] /\ ator'[b] = ator[b]
      BY <1>7 DEF DropAll
    <3>2. \A t \in Tor : mu[t] /\ handle[t] # None /\ ~(apc[a] = "dropping" /\ t = ator[a])
                           => mu'[t] /\ handle'[t] # None
      BY <1>7 DEF DropAll, DropFirst, DropLast
    <3>3. apc'[a] = "dropping" => ator'[a] \in Tor /\ mu'[ator'[a]] /\ handle'[ator'[a]] # None
      BY <1>7 DEF DropAll, DropFirst, DropLast
    <3> QED BY <3>1, <3>2, <3>3 DEF AdminOK, DroppersApart
  <2>4. DroppersApart'
    <3>1. UNCHANGED <<pc, tor>> /\ \A b \in Saver \ {a} : apc'[b] = apc[b] /\ ator'[b] = ator[b]
      BY <1>7 DEF DropAll
    <3>2. apc'[a] = "dropping" => ator'[a] \in Tor /\ ~mu[ator'[a]]
      BY <1>7 DEF DropAll, DropFirst
    <3> QED BY <3>1, <3>2 DEF DropperOK, AdminOK, DroppersApart
  <2> QED BY <2>1, <2>2, <2>3, <2>4
<1>8. ASSUME NEW a \in Saver, Disconnect(a) PROVE DropOK'
  <2>1. HandlesOK'
    BY <1>8, <1>f DEF HandlesOK, DropperOK, AdminOK, LibTypes, Fired, Disconnect
  <2>2. DropperOK'
    BY <1>8 DEF HandlesOK, DropperOK, DroppersApart, Disconnect
  <2>3. AdminOK'
    BY <1>8 DEF HandlesOK, AdminOK, DroppersApart, Disconnect
  <2>4. DroppersApart'
    BY <1>8 DEF DropperOK, AdminOK, DroppersApart, Disconnect
  <2> QED BY <2>1, <2>2, <2>3, <2>4
<1> QED
  BY <1>1, <1>2, <1>3, <1>4, <1>5, <1>6, <1>7, <1>8, OthersDropNothing DEF Drops

\* The goroutine that leaves Close has dropped the torrent, or found it dropped.
LEMMA ReleasedStep ==
  Inv /\ DropOK /\ ClosedIsReleased /\ [Next]_vars => ClosedIsReleased'
<1> SUFFICES ASSUME Inv, DropOK, DropOK', ClosedIsReleased, [Next]_vars PROVE ClosedIsReleased'
  BY DropStep
<1>f. \A t \in Tor : stat'[t] = "Closed" /\ handle'[t] = None => Fired(closedCh[t])'
  BY DEF DropOK, HandlesOK
<1> SUFFICES ASSUME NEW t \in Tor, stat'[t] = "Closed", Closers(t)' = {} PROVE handle'[t] = None
  BY <1>f DEF ClosedIsReleased
<1>s. stat[t] = "Closed" /\ Closers(t) = {} => handle[t] = None
  BY DEF ClosedIsReleased
<1> USE NoneAssumption DEF torVars, libVars, locals, Inv, TypeOK, TorTypes, ProcTypes, AdminTypes, LocalsOK, Closers
<1>1. CASE DropsNothing
  <2>1. stat[t] = "Closed" /\ handle'[t] = handle[t]
    BY <1>1 DEF DropsNothing
  <2>2. Closers(t) = {}
    BY <1>1 DEF DropsNothing, Closing
  <2> QED BY <2>1, <2>2, <1>s
<1>2. ASSUME NEW p \in Proc, NewTorrentAdd(p) PROVE handle'[t] = None
  BY <1>2, <1>s DEF NewTorrentAdd, Goto, Return
<1>3. ASSUME NEW p \in Proc, NewTorrentInsert(p) PROVE handle'[t] = None
  BY <1>3, <1>s DEF NewTorrentInsert, Goto, AfterNew
<1>4. ASSUME NEW p \in Proc, CloseMark(p) PROVE handle'[t] = None
  BY <1>4, <1>s DEF CloseMark, Goto, Return
<1>5. ASSUME NEW p \in Proc, CloseDrop(p) PROVE handle'[t] = None
  BY <1>5, <1>s DEF CloseDrop, DropFirst, DropLast, Goto, Return
<1>6. ASSUME NEW h \in Handle, CloseStorage(h) PROVE handle'[t] = None
  BY <1>6, <1>s DEF CloseStorage, CacheIn, procVars
<1>7. ASSUME NEW a \in Saver, DropAll(a) PROVE handle'[t] = None
  BY <1>7, <1>s DEF DropAll, DropFirst, DropLast, procVars
<1>8. ASSUME NEW a \in Saver, Disconnect(a) PROVE handle'[t] = None
  BY <1>8, <1>s DEF Disconnect, CacheIn, procVars
<1> QED
  BY <1>1, <1>2, <1>3, <1>4, <1>5, <1>6, <1>7, <1>8, OthersDropNothing DEF Drops

\* A closed torrent whose closer is gone keeps no library torrent, whatever else was dropping it,
\* settings changes included.
THEOREM ClosedHoldsNothing == Spec => []ClosedIsReleased
<1> DEFINE I == DropOK /\ ClosedIsReleased
<1>1. Init => I
  BY NoneAssumption DEF Init, DropOK, HandlesOK, DropperOK, AdminOK, DroppersApart, ClosedIsReleased
<1>2. Inv /\ I /\ [Next]_vars => I'
  BY DropStep, ReleasedStep
<1>3. Spec => []Inv
  BY TypeCorrect, PTL DEF Inv
<1>4. I => ClosedIsReleased
  OBVIOUS
<1> QED BY <1>1, <1>2, <1>3, <1>4, PTL DEF Spec

-----------------------------------------------------------------------------
(* Clients.                                                                 *)

LEMMA LiveStep == Inv /\ LiveHasClient /\ [Next]_vars => LiveHasClient'
<1> SUFFICES ASSUME Inv, LiveHasClient, [Next]_vars PROVE LiveHasClient'
  OBVIOUS
<1> USE NoneAssumption DEF torVars, btVars, libVars, locals, procVars, adminVars, Inv, TypeOK, LibTypes, LiveHasClient
<1>1. ASSUME NEW p \in Proc, NewTorrentAdd(p) PROVE LiveHasClient'
  BY <1>1 DEF NewTorrentAdd, Connected
<1>2. ASSUME NEW p \in Proc, CloseDrop(p) PROVE LiveHasClient'
  BY <1>2 DEF CloseDrop, DropFirst
<1>3. ASSUME NEW h \in Handle, CloseStorage(h) PROVE LiveHasClient'
  BY <1>3 DEF CloseStorage
<1>4. ASSUME NEW a \in Saver, DropAll(a) PROVE LiveHasClient'
  BY <1>4 DEF DropAll, DropFirst
<1>5. ASSUME NEW a \in Saver, Disconnect(a) PROVE LiveHasClient'
  BY <1>5 DEF Disconnect
<1>6. ASSUME NEW a \in Saver, Connect(a) PROVE LiveHasClient'
  BY <1>6 DEF Connect
<1>7. ASSUME NEW a \in Saver, SetSettings(a) PROVE LiveHasClient'
  BY <1>7 DEF SetSettings
<1> DEFINE same == UNCHANGED <<client, epoch, orphaned, hst, hepoch>>
<1>8. CASE same
  BY <1>8
<1>9. ASSUME NEW p \in Proc, Step(p), ~NewTorrentAdd(p), ~CloseDrop(p) PROVE same
  BY <1>9 DEF Step, NewTorrentInsert, GotInfo, WaitInfo, WaitInfoGot, WaitInfoFailed, GotInfoDone, Use, NewReaderCheck,
     NewReaderRegister, CloseReader, PreloadStart, PreloadEnd, RemoveTorrent, CloseMark, CloseDelete
<1>10. ASSUME NEW p \in Proc, Request(p) PROVE same
  BY <1>10 DEF Request, GetTorrent, AddTorrent, DropTorrent, ProgressEvent
<1>11. ASSUME NEW h \in Handle, InfoArrives(h) PROVE same
  BY <1>11 DEF InfoArrives
<1>12. ASSUME NEW t \in Tor, ExpireTime(t) PROVE same
  BY <1>12 DEF ExpireTime
<1>13. UNCHANGED vars => same
  BY DEF vars
<1> QED
  BY <1>1, <1>2, <1>3, <1>4, <1>5, <1>6, <1>7, <1>8, <1>9, <1>10, <1>11, <1>12, <1>13
  DEF Next, Steady, Saving, Library

\* However requests and overlapping saves interleave, a library torrent runs in the connected
\* client, or in one that an overlapping save replaced without closing it.
THEOREM LiveTorrentsHaveClient == Spec => []LiveHasClient
<1>1. Init => LiveHasClient
  BY DEF Init, LiveHasClient
<1>2. Spec => []Inv
  BY TypeCorrect, PTL DEF Inv
<1> QED BY <1>1, <1>2, LiveStep, PTL DEF Spec

-----------------------------------------------------------------------------
(* The metadata of a torrent, between settings changes.                     *)

\* Only Close forgets a handle, after the torrent was marked closed.
OpenHasHandle ==
  /\ \A t \in Tor : stat[t] \notin {"Free", "Closed"} => handle[t] = closedCh[t]
  /\ \A p \in Proc : pc[p] \in Closing => stat[tor[p]] = "Closed"

\* WaitInfo waits for the metadata of the torrent it was called for, which the torrent then has
\* for good.
WorkingHasInfo ==
  /\ \A t \in Tor : stat[t] \in {"Working", "Preload"} => hinfo[closedCh[t]]
  /\ \A p \in Proc : pc[p] = "waiting" => hnd[p] = closedCh[tor[p]]
  /\ \A p \in Proc : pc[p] = "gotdone" => hinfo[closedCh[tor[p]]]

InfoOK == OpenHasHandle /\ WorkingHasInfo

LEMMA InfoStep == Inv /\ DropOK /\ InfoOK /\ [Steady]_vars => InfoOK'
<1> SUFFICES ASSUME Inv, HandlesOK, InfoOK, [Steady]_vars PROVE InfoOK'
  BY DEF DropOK
<1> USE NoneAssumption DEF vars, torVars, libVars, procVars, locals, Inv, TypeOK, TorTypes, ProcTypes, LocalsOK, HandlesOK, InfoOK, Closing
<1>1. ASSUME NEW h \in Handle, InfoArrives(h) PROVE InfoOK'
  <2>1. OpenHasHandle'
    BY <1>1 DEF OpenHasHandle, InfoArrives
  <2>2. WorkingHasInfo'
    BY <1>1 DEF FlagTypes, OpenHasHandle, WorkingHasInfo, InfoArrives
  <2> QED BY <2>1, <2>2
<1>2. ASSUME NEW h \in Handle, CloseStorage(h) PROVE InfoOK'
  <2>1. OpenHasHandle'
    BY <1>2 DEF OpenHasHandle, CloseStorage
  <2>2. WorkingHasInfo'
    BY <1>2 DEF FlagTypes, OpenHasHandle, WorkingHasInfo, CloseStorage
  <2> QED BY <2>1, <2>2
<1>3. ASSUME NEW t \in Tor, ExpireTime(t) PROVE InfoOK'
  <2>1. OpenHasHandle'
    BY <1>3 DEF OpenHasHandle, ExpireTime
  <2>2. WorkingHasInfo'
    BY <1>3 DEF FlagTypes, OpenHasHandle, WorkingHasInfo, ExpireTime
  <2> QED BY <2>1, <2>2
<1>4. ASSUME NEW p \in Proc, NEW x \in Hash, GetTorrent(p, x) PROVE InfoOK'
  <2>1. OpenHasHandle'
    BY <1>4 DEF OpenHasHandle, GetTorrent, Goto
  <2>2. WorkingHasInfo'
    BY <1>4 DEF FlagTypes, OpenHasHandle, WorkingHasInfo, GetTorrent, Goto
  <2> QED BY <2>1, <2>2
<1>5. ASSUME NEW p \in Proc, NEW x \in Hash, AddTorrent(p, x) PROVE InfoOK'
  <2>1. OpenHasHandle'
    BY <1>5 DEF OpenHasHandle, AddTorrent, Goto
  <2>2. WorkingHasInfo'
    BY <1>5 DEF FlagTypes, OpenHasHandle, WorkingHasInfo, AddTorrent, Goto
  <2> QED BY <2>1, <2>2
<1>6. ASSUME NEW p \in Proc, NEW x \in Hash, DropTorrent(p, x) PROVE InfoOK'
  <2>1. OpenHasHandle'
    BY <1>6 DEF OpenHasHandle, DropTorrent, Goto
  <2>2. WorkingHasInfo'
    BY <1>6 DEF FlagTypes, OpenHasHandle, WorkingHasInfo, DropTorrent, Goto
  <2> QED BY <2>1, <2>2
<1>7. ASSUME NEW p \in Proc, NEW t \in Tor, ProgressEvent(p, t) PROVE InfoOK'
  <2>1. OpenHasHandle'
    BY <1>7 DEF OpenHasHandle, ProgressEvent, Goto
  <2>2. WorkingHasInfo'
    BY <1>7 DEF FlagTypes, OpenHasHandle, WorkingHasInfo, ProgressEvent, Goto
  <2> QED BY <2>1, <2>2
<1>8. ASSUME NEW p \in Proc, NewTorrentAdd(p) PROVE InfoOK'
  <2>1. OpenHasHandle'
    BY <1>8 DEF OpenHasHandle, NewTorrentAdd, Goto, Return
  <2>2. WorkingHasInfo'
    BY <1>8 DEF FlagTypes, OpenHasHandle, WorkingHasInfo, NewTorrentAdd, Goto, Return
  <2> QED BY <2>1, <2>2
<1>9. ASSUME NEW p \in Proc, NewTorrentInsert(p) PROVE InfoOK'
  <2>1. OpenHasHandle'
    BY <1>9 DEF OpenHasHandle, NewTorrentInsert, Goto, AfterNew
  <2>2. WorkingHasInfo'
    BY <1>9 DEF FlagTypes, OpenHasHandle, WorkingHasInfo, NewTorrentInsert, Goto, AfterNew
  <2> QED BY <2>1, <2>2
<1>10. ASSUME NEW p \in Proc, GotInfo(p) PROVE InfoOK'
  <2>1. OpenHasHandle'
    BY <1>10 DEF OpenHasHandle, GotInfo, Goto, Return
  <2>2. WorkingHasInfo'
    BY <1>10 DEF FlagTypes, OpenHasHandle, WorkingHasInfo, GotInfo, Goto, Return
  <2> QED BY <2>1, <2>2
<1>11. ASSUME NEW p \in Proc, WaitInfo(p) PROVE InfoOK'
  <2>1. OpenHasHandle'
    BY <1>11 DEF OpenHasHandle, WaitInfo, Goto, Return, WaitFailed
  <2>2. WorkingHasInfo'
    BY <1>11 DEF FlagTypes, OpenHasHandle, WorkingHasInfo, WaitInfo, Goto, Return, WaitFailed
  <2> QED BY <2>1, <2>2
<1>12. ASSUME NEW p \in Proc, WaitInfoGot(p) PROVE InfoOK'
  <2>1. OpenHasHandle'
    BY <1>12 DEF OpenHasHandle, WaitInfoGot, Goto, Return, WaitFailed, WaitSucceeded
  <2>2. WorkingHasInfo'
    BY <1>12 DEF FlagTypes, OpenHasHandle, WorkingHasInfo, WaitInfoGot, Goto, Return, WaitFailed, WaitSucceeded
  <2> QED BY <2>1, <2>2
<1>13. ASSUME NEW p \in Proc, WaitInfoFailed(p) PROVE InfoOK'
  <2>1. OpenHasHandle'
    BY <1>13 DEF OpenHasHandle, WaitInfoFailed, Goto, Return, WaitFailed
  <2>2. WorkingHasInfo'
    BY <1>13 DEF FlagTypes, OpenHasHandle, WorkingHasInfo, WaitInfoFailed, Goto, Return, WaitFailed
  <2> QED BY <2>1, <2>2
<1>14. ASSUME NEW p \in Proc, GotInfoDone(p) PROVE InfoOK'
  <2>1. OpenHasHandle'
    BY <1>14 DEF OpenHasHandle, GotInfoDone, Goto, Return, StatAfterInfo
  <2>2. WorkingHasInfo'
    BY <1>14 DEF FlagTypes, OpenHasHandle, WorkingHasInfo, GotInfoDone, Goto, Return, StatAfterInfo
  <2> QED BY <2>1, <2>2
<1>15. ASSUME NEW p \in Proc, Use(p) PROVE InfoOK'
  <2>1. OpenHasHandle'
    BY <1>15 DEF OpenHasHandle, Use, Goto, Return
  <2>2. WorkingHasInfo'
    BY <1>15 DEF FlagTypes, OpenHasHandle, WorkingHasInfo, Use, Goto, Return
  <2> QED BY <2>1, <2>2
<1>16. ASSUME NEW p \in Proc, NewReaderCheck(p) PROVE InfoOK'
  <2>1. OpenHasHandle'
    BY <1>16 DEF OpenHasHandle, NewReaderCheck, Return
  <2>2. WorkingHasInfo'
    BY <1>16 DEF FlagTypes, OpenHasHandle, WorkingHasInfo, NewReaderCheck, Return
  <2> QED BY <2>1, <2>2
<1>17. ASSUME NEW p \in Proc, NewReaderRegister(p) PROVE InfoOK'
  <2>1. OpenHasHandle'
    BY <1>17 DEF OpenHasHandle, NewReaderRegister, Goto, Return
  <2>2. WorkingHasInfo'
    BY <1>17 DEF FlagTypes, OpenHasHandle, WorkingHasInfo, NewReaderRegister, Goto, Return
  <2> QED BY <2>1, <2>2
<1>18. ASSUME NEW p \in Proc, CloseReader(p) PROVE InfoOK'
  <2>1. OpenHasHandle'
    BY <1>18 DEF OpenHasHandle, CloseReader, Return
  <2>2. WorkingHasInfo'
    BY <1>18 DEF FlagTypes, OpenHasHandle, WorkingHasInfo, CloseReader, Return
  <2> QED BY <2>1, <2>2
<1>19. ASSUME NEW p \in Proc, PreloadStart(p) PROVE InfoOK'
  <2>1. OpenHasHandle'
    BY <1>19 DEF OpenHasHandle, PreloadStart, Goto, Return
  <2>2. WorkingHasInfo'
    BY <1>19 DEF FlagTypes, OpenHasHandle, WorkingHasInfo, PreloadStart, Goto, Return
  <2> QED BY <2>1, <2>2
<1>20. ASSUME NEW p \in Proc, PreloadEnd(p) PROVE InfoOK'
  <2>1. OpenHasHandle'
    BY <1>20 DEF OpenHasHandle, PreloadEnd, Return
  <2>2. WorkingHasInfo'
    BY <1>20 DEF FlagTypes, OpenHasHandle, WorkingHasInfo, PreloadEnd, Return
  <2> QED BY <2>1, <2>2
<1>21. ASSUME NEW p \in Proc, RemoveTorrent(p) PROVE InfoOK'
  <2>1. OpenHasHandle'
    BY <1>21 DEF OpenHasHandle, RemoveTorrent, Goto, Return
  <2>2. WorkingHasInfo'
    BY <1>21 DEF FlagTypes, OpenHasHandle, WorkingHasInfo, RemoveTorrent, Goto, Return
  <2> QED BY <2>1, <2>2
<1>22. ASSUME NEW p \in Proc, CloseMark(p) PROVE InfoOK'
  <2>1. OpenHasHandle'
    BY <1>22 DEF OpenHasHandle, CloseMark, Goto, Return
  <2>2. WorkingHasInfo'
    BY <1>22 DEF FlagTypes, OpenHasHandle, WorkingHasInfo, CloseMark, Goto, Return
  <2> QED BY <2>1, <2>2
<1>23. ASSUME NEW p \in Proc, CloseDelete(p) PROVE InfoOK'
  <2>1. OpenHasHandle'
    BY <1>23 DEF OpenHasHandle, CloseDelete, Goto
  <2>2. WorkingHasInfo'
    BY <1>23 DEF FlagTypes, OpenHasHandle, WorkingHasInfo, CloseDelete, Goto
  <2> QED BY <2>1, <2>2
<1>24. ASSUME NEW p \in Proc, CloseDrop(p) PROVE InfoOK'
  <2>1. OpenHasHandle'
    BY <1>24 DEF OpenHasHandle, CloseDrop, DropFirst, DropLast, Goto, Return
  <2>2. WorkingHasInfo'
    BY <1>24 DEF FlagTypes, OpenHasHandle, WorkingHasInfo, CloseDrop, DropFirst, DropLast, Goto, Return
  <2> QED BY <2>1, <2>2
<1>25. CASE UNCHANGED vars
  BY <1>25 DEF OpenHasHandle, WorkingHasInfo
<1> QED
  BY <1>1, <1>2, <1>3, <1>4, <1>5, <1>6, <1>7, <1>8, <1>9, <1>10, <1>11, <1>12, <1>13, <1>14, <1>15, <1>16, <1>17, <1>18, <1>19, <1>20, <1>21, <1>22, <1>23, <1>24, <1>25
  DEF Steady, Library, Request, Step

\* GotInfo never waits again for a torrent that has its metadata.
THEOREM InfoIsGotOnce == SteadySpec => NoGettingInfoAgain
<1> DEFINE I == Inv /\ DropOK /\ InfoOK
           A == \A t \in Tor : stat[t] = "Working" => stat'[t] # "GettingInfo"
<1>1. Init => I
  <2> SUFFICES ASSUME Init PROVE I
    OBVIOUS
  <2>1. Inv
    BY InitTypes DEF Inv
  <2>2. DropOK
    BY NoneAssumption DEF Init, DropOK, HandlesOK, DropperOK, AdminOK, DroppersApart
  <2>3. InfoOK
    BY DEF Init, InfoOK, OpenHasHandle, WorkingHasInfo, Closing
  <2> QED BY <2>1, <2>2, <2>3
<1>2. I /\ [Steady]_vars => I'
  <2>1. [Steady]_vars => [Next]_vars
    BY DEF Next
  <2> QED BY <2>1, TypeStep, LocalsStep, HashStep, DropStep, InfoStep DEF Inv
<1>3. I /\ [Steady]_vars => [A]_vars
  <2> SUFFICES ASSUME I, Steady, NEW u \in Tor, stat[u] = "Working" PROVE stat'[u] # "GettingInfo"
    OBVIOUS
  <2>1. HasInfo(u)
    BY NoneAssumption DEF HasInfo, InfoOK, OpenHasHandle, WorkingHasInfo, DropOK, HandlesOK
  <2>2. CASE UNCHANGED stat
    BY <2>2
  <2>3. ASSUME NEW p \in Proc, GotInfo(p) PROVE stat'[u] # "GettingInfo"
    BY <2>1, <2>3 DEF GotInfo, HasInfo, Inv, TypeOK, TorTypes
  <2>4. ASSUME NEW p \in Proc, NewTorrentInsert(p) \/ GotInfoDone(p) \/ PreloadStart(p) \/ PreloadEnd(p) \/ CloseMark(p)
        PROVE stat'[u] # "GettingInfo"
    BY <2>4 DEF NewTorrentInsert, GotInfoDone, StatAfterInfo, PreloadStart, PreloadEnd, CloseMark, torVars, Inv, TypeOK, TorTypes
  <2>5. ASSUME NEW p \in Proc, Step(p), ~GotInfo(p), ~NewTorrentInsert(p), ~GotInfoDone(p), ~PreloadStart(p), ~PreloadEnd(p), ~CloseMark(p)
        PROVE UNCHANGED stat
    BY <2>5 DEF Step, NewTorrentAdd, WaitInfo, WaitInfoGot, WaitInfoFailed, Use, NewReaderCheck, NewReaderRegister, CloseReader,
       RemoveTorrent, CloseDelete, CloseDrop, DropFirst, DropLast, torVars
  <2>6. ASSUME NEW p \in Proc, Request(p) PROVE UNCHANGED stat
    BY <2>6 DEF Request, GetTorrent, AddTorrent, DropTorrent, ProgressEvent, torVars
  <2>7. Library \/ (\E t \in Tor : ExpireTime(t)) => UNCHANGED stat
    BY DEF Library, InfoArrives, CloseStorage, ExpireTime, torVars
  <2> QED BY <2>2, <2>3, <2>4, <2>5, <2>6, <2>7 DEF Steady
<1> QED BY <1>1, <1>2, <1>3, PTL DEF SteadySpec, NoGettingInfoAgain

-----------------------------------------------------------------------------
(* The readers of a cache.  With one goroutine for each reader and absolute *)
(* seeks, as in every HTTP stream, parking never shifts what the goroutine  *)
(* reads, for any number of readers, sweeps and adjustments and for a file  *)
(* of any length.                                                           *)

\* No two goroutines share a reader.
Exclusive == \A c, d \in Client : ReaderOf[c] = ReaderOf[d] => c = d

\* Clients seek from the start or the end, never from the current position.
Absolute == "current" \notin Whence

\* When a client is inside an I/O its reader is claimed and not parked.
Claimed(c) ==
  LET r == ReaderOf[c] IN
  /\ doing[c] \in {"idle", "seek", "sought"} => inFlight[r] = 0
  /\ doing[c] \in {"moving", "moved", "begun", "reading", "read"} =>
       inFlight[r] = 1 /\ isUse[r]

\* What the position of the client, of its reader and of the library's reader have
\* to do with each other at each point of a call.
Agrees(c) ==
  LET r == ReaderOf[c] IN
  /\ want[c] >= 0
  /\ life[r] = "new" => doing[c] = "idle" /\ want[c] = 0
  /\ doing[c] \in {"idle", "sought"} =>
       /\ offset[r] = want[c]
       /\ pos[r] = IF isUse[r] THEN want[c] ELSE 0
  /\ doing[c] = "seek" => offset[r] = want[c]
  /\ doing[c] \in {"seek", "moving"} =>
       /\ call[c].whence \in {"start", "end"}
       /\ Target(0, call[c].whence, call[c].n) = want[c]
  /\ doing[c] = "moved" => call[c].n = want[c] /\ pos[r] = want[c]
  /\ doing[c] \in {"begun", "reading"} => offset[r] = want[c] /\ pos[r] = want[c]
  /\ doing[c] = "reading" => call[c].n = want[c]
  /\ doing[c] = "read" => pos[r] = want[c] /\ offset[r] + call[c].n = want[c]

ReaderInv == ReaderTypeOK /\ \A c \in Client : Claimed(c) /\ Agrees(c)

-----------------------------------------------------------------------------
(* Every step keeps the invariant.                                         *)

LEMMA InitReaderInv == ReaderInit => ReaderInv
<1> SUFFICES ASSUME ReaderInit PROVE ReaderInv
  OBVIOUS
<1> USE ReaderAssumption
<1>1. ReaderTypeOK
  BY DEF ReaderInit, ReaderTypeOK, Idle
<1>2. ASSUME NEW c \in Client PROVE Claimed(c) /\ Agrees(c)
  BY DEF ReaderInit, Claimed, Agrees
<1> QED
  BY <1>1, <1>2 DEF ReaderInv

LEMMA StepReaderInv ==
  ASSUME Exclusive, Absolute
  PROVE  ReaderInv /\ [ReaderNext]_cacheVars => ReaderInv'
<1> SUFFICES ASSUME ReaderInv, [ReaderNext]_cacheVars PROVE ReaderInv'
  OBVIOUS
<1> USE ReaderAssumption
<1>t. ReaderTypeOK
  BY DEF ReaderInv
<1>i. \A d \in Client : Claimed(d) /\ Agrees(d)
  BY DEF ReaderInv
<1>1. ASSUME NEW r \in Reader, NewReader(r) PROVE ReaderInv'
  <2>1. ReaderTypeOK'
    BY <1>t, <1>1 DEF ReaderTypeOK, Idle, NewReader, readerVars, clientVars
  <2>2. ASSUME NEW d \in Client PROVE Claimed(d)' /\ Agrees(d)'
    BY <1>t, <1>i, <1>1, Exclusive, Absolute
       DEF ReaderTypeOK, Claimed, Agrees, Exclusive, Absolute, NewReader, readerVars, clientVars
  <2> QED
    BY <2>1, <2>2 DEF ReaderInv
<1>2. ASSUME NEW r \in Reader, CacheCloseReader(r) PROVE ReaderInv'
  <2>1. ReaderTypeOK'
    BY <1>t, <1>2 DEF ReaderTypeOK, Idle, CacheCloseReader, readerVars, clientVars
  <2>2. ASSUME NEW d \in Client PROVE Claimed(d)' /\ Agrees(d)'
    BY <1>t, <1>i, <1>2, Exclusive, Absolute
       DEF ReaderTypeOK, Claimed, Agrees, Exclusive, Absolute, CacheCloseReader, readerVars, clientVars
  <2> QED
    BY <2>1, <2>2 DEF ReaderInv
<1>3. ASSUME NEW s \in Sweeper, ReaderOn(s) PROVE ReaderInv'
  <2>1. ReaderTypeOK'
    BY <1>t, <1>3 DEF ReaderTypeOK, Idle, ReaderOn, Resume, readerVars, clientVars
  <2>2. ASSUME NEW d \in Client PROVE Claimed(d)' /\ Agrees(d)'
    BY <1>t, <1>i, <1>3, Exclusive, Absolute
       DEF ReaderTypeOK, Claimed, Agrees, Exclusive, Absolute, ReaderOn, Resume, readerVars, clientVars
  <2> QED
    BY <2>1, <2>2 DEF ReaderInv
<1>4. ASSUME NEW s \in Sweeper, ReaderOff(s) PROVE ReaderInv'
  <2> DEFINE r == sweep[s].reader
  <2>r. r \in Reader /\ sweep[s] \in [reader : Reader \cup {NoReader}, on : BOOLEAN]
    BY <1>t, <1>4 DEF ReaderTypeOK, ReaderOff
  <2>u. UNCHANGED <<life, offset, inFlight, doing, call, want, adjust>>
    BY <1>4 DEF ReaderOff, clientVars
  <2>a. CASE inFlight[r] = 0 /\ isUse[r]
    <3>1. /\ isUse' = [isUse EXCEPT ![r] = FALSE]
          /\ ahead' = [ahead EXCEPT ![r] = FALSE]
          /\ pos' = [pos EXCEPT ![r] = IF offset[r] > 0 THEN 0 ELSE pos[r]]
          /\ sweep' = [sweep EXCEPT ![s] = Idle]
      BY <1>4, <2>a DEF ReaderOff, Park
    <3> HIDE DEF r
    <3>2. ReaderTypeOK'
      BY <1>t, <2>r, <2>u, <3>1 DEF ReaderTypeOK, Idle
    <3>3. ASSUME NEW d \in Client PROVE Claimed(d)' /\ Agrees(d)'
      BY <1>t, <1>i, <2>r, <2>u, <2>a, <3>1 DEF ReaderTypeOK, Claimed, Agrees, Target
    <3> QED
      BY <3>2, <3>3 DEF ReaderInv
  <2>b. CASE ~(inFlight[r] = 0 /\ isUse[r])
    <3>1. UNCHANGED <<isUse, ahead, pos>> /\ sweep' = [sweep EXCEPT ![s] = Idle]
      BY <1>4, <2>b DEF ReaderOff, Park
    <3>2. ReaderTypeOK'
      BY <1>t, <2>u, <3>1 DEF ReaderTypeOK, Idle
    <3>3. ASSUME NEW d \in Client PROVE Claimed(d)' /\ Agrees(d)'
      BY <1>i, <2>u, <3>1 DEF Claimed, Agrees
    <3> QED
      BY <3>2, <3>3 DEF ReaderInv
  <2> QED
    BY <2>a, <2>b
<1>5. ASSUME NEW s \in Sweeper, NEW r \in Reader, CheckReader(s, r) PROVE ReaderInv'
  <2>1. ReaderTypeOK'
    BY <1>t, <1>5 DEF ReaderTypeOK, Idle, CheckReader, readerVars, clientVars
  <2>2. ASSUME NEW d \in Client PROVE Claimed(d)' /\ Agrees(d)'
    BY <1>t, <1>i, <1>5, Exclusive, Absolute
       DEF ReaderTypeOK, Claimed, Agrees, Exclusive, Absolute, CheckReader, readerVars, clientVars
  <2> QED
    BY <2>1, <2>2 DEF ReaderInv
<1>6. ASSUME NEW a \in Adjuster, AdjustSet(a) PROVE ReaderInv'
  <2>1. ReaderTypeOK'
    BY <1>t, <1>6 DEF ReaderTypeOK, Idle, AdjustSet, AheadSet, readerVars, clientVars
  <2>2. ASSUME NEW d \in Client PROVE Claimed(d)' /\ Agrees(d)'
    BY <1>t, <1>i, <1>6, Exclusive, Absolute
       DEF ReaderTypeOK, Claimed, Agrees, Exclusive, Absolute, AdjustSet, AheadSet, readerVars, clientVars
  <2> QED
    BY <2>1, <2>2 DEF ReaderInv
<1>7. ASSUME NEW a \in Adjuster, NEW r \in Reader, AdjustRead(a, r) PROVE ReaderInv'
  <2>1. ReaderTypeOK'
    BY <1>t, <1>7 DEF ReaderTypeOK, Idle, AdjustRead, readerVars, clientVars
  <2>2. ASSUME NEW d \in Client PROVE Claimed(d)' /\ Agrees(d)'
    BY <1>t, <1>i, <1>7, Exclusive, Absolute
       DEF ReaderTypeOK, Claimed, Agrees, Exclusive, Absolute, AdjustRead, readerVars, clientVars
  <2> QED
    BY <2>1, <2>2 DEF ReaderInv
<1>8. ASSUME NEW c \in Client, Seek(c) PROVE ReaderInv'
  <2>1. ReaderTypeOK'
    BY <1>t, <1>8 DEF ReaderTypeOK, Idle, Seek, Target, Argument, Positions, Proceed, readerVars, clientVars
  <2>2. ASSUME NEW d \in Client PROVE Claimed(d)' /\ Agrees(d)'
    BY <1>t, <1>i, <1>8, Exclusive, Absolute
       DEF ReaderTypeOK, Claimed, Agrees, Exclusive, Absolute, Seek, Target, Argument, Positions, Proceed, readerVars, clientVars
  <2> QED
    BY <2>1, <2>2 DEF ReaderInv
<1>9. ASSUME NEW c \in Client, SeekBegin(c) PROVE ReaderInv'
  <2>1. ReaderTypeOK'
    BY <1>t, <1>9 DEF ReaderTypeOK, Idle, SeekBegin, BeginIO, Resume, Proceed, Target, readerVars, clientVars
  <2>2. ASSUME NEW d \in Client PROVE Claimed(d)' /\ Agrees(d)'
    BY <1>t, <1>i, <1>9, Exclusive, Absolute
       DEF ReaderTypeOK, Claimed, Agrees, Exclusive, Absolute, SeekBegin, BeginIO, Resume, Proceed, Target, readerVars, clientVars
  <2> QED
    BY <2>1, <2>2 DEF ReaderInv
<1>10. ASSUME NEW c \in Client, SeekMove(c) PROVE ReaderInv'
  <2>1. ReaderTypeOK'
    BY <1>t, <1>10 DEF ReaderTypeOK, Idle, SeekMove, Target, Proceed, readerVars, clientVars
  <2>2. ASSUME NEW d \in Client PROVE Claimed(d)' /\ Agrees(d)'
    BY <1>t, <1>i, <1>10, Exclusive, Absolute
       DEF ReaderTypeOK, Claimed, Agrees, Exclusive, Absolute, SeekMove, Target, Proceed, readerVars, clientVars
  <2> QED
    BY <2>1, <2>2 DEF ReaderInv
<1>11. ASSUME NEW c \in Client, SeekEnd(c) PROVE ReaderInv'
  <2>1. ReaderTypeOK'
    BY <1>t, <1>11, <1>i DEF ReaderTypeOK, Claimed, Idle, SeekEnd, EndIO, Proceed, readerVars, clientVars
  <2>2. ASSUME NEW d \in Client PROVE Claimed(d)' /\ Agrees(d)'
    BY <1>t, <1>i, <1>11, Exclusive, Absolute
       DEF ReaderTypeOK, Claimed, Agrees, Exclusive, Absolute, SeekEnd, EndIO, Proceed, readerVars, clientVars
  <2> QED
    BY <2>1, <2>2 DEF ReaderInv
<1>12. ASSUME NEW c \in Client, Read(c) PROVE ReaderInv'
  <2>1. ReaderTypeOK'
    BY <1>t, <1>12 DEF ReaderTypeOK, Idle, Read, BeginIO, Resume, Proceed, readerVars, clientVars
  <2>2. ASSUME NEW d \in Client PROVE Claimed(d)' /\ Agrees(d)'
    BY <1>t, <1>i, <1>12, Exclusive, Absolute
       DEF ReaderTypeOK, Claimed, Agrees, Exclusive, Absolute, Read, BeginIO, Resume, Proceed, readerVars, clientVars
  <2> QED
    BY <2>1, <2>2 DEF ReaderInv
<1>13. ASSUME NEW c \in Client, ReadClosed(c) PROVE ReaderInv'
  <2>1. ReaderTypeOK'
    BY <1>t, <1>13 DEF ReaderTypeOK, Idle, ReadClosed, Proceed, readerVars, clientVars
  <2>2. ASSUME NEW d \in Client PROVE Claimed(d)' /\ Agrees(d)'
    BY <1>t, <1>i, <1>13, Exclusive, Absolute
       DEF ReaderTypeOK, Claimed, Agrees, Exclusive, Absolute, ReadClosed, Proceed, readerVars, clientVars
  <2> QED
    BY <2>1, <2>2 DEF ReaderInv
<1>14. ASSUME NEW c \in Client, ReadStart(c) PROVE ReaderInv'
  <2>1. ReaderTypeOK'
    BY <1>t, <1>14 DEF ReaderTypeOK, Idle, ReadStart, Proceed, readerVars, clientVars
  <2>2. ASSUME NEW d \in Client PROVE Claimed(d)' /\ Agrees(d)'
    BY <1>t, <1>i, <1>14, Exclusive, Absolute
       DEF ReaderTypeOK, Claimed, Agrees, Exclusive, Absolute, ReadStart, Proceed, readerVars, clientVars
  <2> QED
    BY <2>1, <2>2 DEF ReaderInv
<1>15. ASSUME NEW c \in Client, ReadReturn(c) PROVE ReaderInv'
  <2>1. ReaderTypeOK'
    BY <1>t, <1>15 DEF ReaderTypeOK, Idle, ReadReturn, Proceed, readerVars, clientVars
  <2>2. ASSUME NEW d \in Client PROVE Claimed(d)' /\ Agrees(d)'
    BY <1>t, <1>i, <1>15, Exclusive, Absolute
       DEF ReaderTypeOK, Claimed, Agrees, Exclusive, Absolute, ReadReturn, Proceed, readerVars, clientVars
  <2> QED
    BY <2>1, <2>2 DEF ReaderInv
<1>16. ASSUME NEW c \in Client, ReadEnd(c) PROVE ReaderInv'
  <2>1. ReaderTypeOK'
    BY <1>t, <1>16, <1>i DEF ReaderTypeOK, Claimed, Idle, ReadEnd, Advanced, EndIO, Proceed, readerVars, clientVars
  <2>2. ASSUME NEW d \in Client PROVE Claimed(d)' /\ Agrees(d)'
    BY <1>t, <1>i, <1>16, Exclusive, Absolute
       DEF ReaderTypeOK, Claimed, Agrees, Exclusive, Absolute, ReadEnd, Advanced, EndIO, Proceed, readerVars, clientVars
  <2> QED
    BY <2>1, <2>2 DEF ReaderInv
<1>17. CASE UNCHANGED cacheVars
  BY <1>17, <1>t, <1>i DEF ReaderInv, ReaderTypeOK, Claimed, Agrees, cacheVars, readerVars, clientVars
<1> QED
  BY <1>1, <1>2, <1>3, <1>4, <1>5, <1>6, <1>7, <1>8, <1>9, <1>10, <1>11, <1>12, <1>13, <1>14, <1>15, <1>16, <1>17 DEF ReaderNext

-----------------------------------------------------------------------------
(* What it gives.                                                          *)

LEMMA AlwaysReaderInv ==
  ASSUME Exclusive, Absolute
  PROVE  ReaderSpec => []ReaderInv
BY InitReaderInv, StepReaderInv, PTL DEF ReaderSpec

LEMMA ReaderInvImplies ==
  ReaderInv => ReadsWhereAsked /\ ReadIsNotMoved /\ ParkedRemembers
BY DEF ReaderInv, Agrees, ReadsWhereAsked, ReadIsNotMoved, ParkedRemembers

\* Every read starts where the client's own seeks and reads put it, whatever
\* the sweeps of the cache do (Reader.Read, readerOff, resume).
THEOREM StreamsAreNotShifted ==
  ASSUME Exclusive, Absolute
  PROVE  ReaderSpec => []ReadsWhereAsked
BY AlwaysReaderInv, ReaderInvImplies, PTL

\* No seek reaches the library's reader while it serves a read (beginIO, readerOff).
THEOREM ReadsAreNotMoved ==
  ASSUME Exclusive, Absolute
  PROVE  ReaderSpec => []ReadIsNotMoved
BY AlwaysReaderInv, ReaderInvImplies, PTL

\* A parked reader keeps the position of its stream.
THEOREM ParkingRemembers ==
  ASSUME Exclusive, Absolute
  PROVE  ReaderSpec => []ParkedRemembers
BY AlwaysReaderInv, ReaderInvImplies, PTL
=============================================================================
