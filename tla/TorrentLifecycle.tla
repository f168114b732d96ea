-------------------------- MODULE TorrentLifecycle --------------------------
(***************************************************************************)
(* The life of a torrent inside the engine (src/server/torr): the map      *)
(* bt.torrents, the Torrent objects with their Stat, the library handle    *)
(* each one wraps, and the goroutines that add, wait for, stream, preload, *)
(* expire, drop and reconfigure them.  Every step between two lock         *)
(* releases is one action, so all interleavings of the handlers are here.  *)
(***************************************************************************)
EXTENDS Integers, FiniteSets

CONSTANTS
  Hash,        \* info hashes
  Tor,         \* pool of Torrent objects (new(Torrent) never reuses one)
  Handle,      \* pool of library torrents (client.AddTorrentSpec)
  Proc,        \* goroutines serving requests and watcher ticks
  Saver,       \* goroutines serving POST /settings; they share no lock
  None,        \* nil
  ReadOnly,    \* settings.ReadOnly
  Requests,    \* the kinds of request clients make
  Crews,       \* bound: which goroutines there are in one behaviour
  MaxEpoch     \* bound: how many times Connect may be called

ASSUME NoneAssumption == None \notin Tor \cup Handle \cup Hash
ASSUME ConfigAssumption ==
  /\ ReadOnly \in BOOLEAN /\ MaxEpoch \in Nat
  /\ Requests \subseteq {"GotInfo", "LoadTorrent", "AddTorrent", "Preload",
                          "Stream", "DropTorrent"}
  /\ Crews \subseteq SUBSET (Proc \cup Saver)

Stats == {"Free", "Added", "GettingInfo", "Preload", "Working", "Closed"}
PCs == {"idle", "add", "insert", "gotinfo", "waitinfo", "waiting", "gotdone",
        "use", "newreader", "reading", "preload", "preloading",
        "remove", "close", "delete", "drop", "dropping"}
AdminPCs == {"idle", "drop", "dropping", "waitclosed", "disconnect", "connect"}

VARIABLES
  \* Torrent objects
  stat,        \* Torrent.Stat ("Free": not allocated yet)
  hashOf,      \* TorrentSpec.InfoHash
  handle,      \* Torrent.Torrent, nil after drop()
  closedCh,    \* the handle whose Closed() channel Torrent.closed is
  cacheOf,     \* Torrent.cache: a cache is named by the handle that opened it
  fresh,       \* expiredTime is still in the future
  mu,          \* muTorrent is held by a drop() in progress
  \* BTServer
  torrents,    \* bt.torrents
  client,      \* bt.client # nil
  caches,      \* the caches registered in the storage of their client
  \* the torrent library, external
  hst,         \* "free", "live", "closing" (closed fired), "closed"
  hinfo,       \* metadata received
  hhash,       \* info hash of the library torrent
  hcache,      \* the cache its OpenTorrent returned
  hepoch,      \* client it was added to: a client is named by its epoch
  open,        \* the cache opened by this handle is not closed
  epoch,       \* how often Connect was called: names bt.client, bt.storage
  orphaned,    \* history: clients a Connect replaced without closing them
  \* goroutines
  pc, tor, hnd, hsh, caller, rdr,
  \* the goroutines in SetSettings
  apc, todo, ator,
  crew         \* the goroutines of this behaviour

torVars   == <<stat, hashOf, handle, closedCh, cacheOf, fresh, mu>>
btVars    == <<torrents, client, caches, epoch, orphaned>>
libVars   == <<hst, hinfo, hhash, hcache, hepoch, open>>
locals    == <<tor, hnd, hsh, caller, rdr>>
procVars  == <<pc, locals>>
adminVars == <<apc, todo, ator, crew>>
vars == <<torVars, btVars, libVars, procVars, adminVars>>

TorTypes ==
  /\ stat \in [Tor -> Stats]
  /\ hashOf \in [Tor -> Hash \cup {None}]
  /\ handle \in [Tor -> Handle \cup {None}]
  /\ closedCh \in [Tor -> Handle \cup {None}]
  /\ cacheOf \in [Tor -> Handle \cup {None}]

BtTypes ==
  /\ torrents \in [Hash -> Tor \cup {None}]
  /\ caches \in SUBSET Handle
  /\ epoch \in Nat
  /\ orphaned \in SUBSET Nat

LibTypes ==
  /\ hst \in [Handle -> {"free", "live", "closing", "closed"}]
  /\ hhash \in [Handle -> Hash \cup {None}]
  /\ hcache \in [Handle -> Handle \cup {None}]
  /\ hepoch \in [Handle -> Nat]

ProcTypes ==
  /\ pc \in [Proc -> PCs]
  /\ tor \in [Proc -> Tor \cup {None}]
  /\ hnd \in [Proc -> Handle \cup {None}]
  /\ hsh \in [Proc -> Hash \cup {None}]
  /\ caller \in [Proc -> {"none", "GotInfo", "LoadTorrent", "Preload"}]
  /\ rdr \in [Proc -> Handle \cup {None}]

AdminTypes ==
  /\ apc \in [Saver -> AdminPCs]
  /\ todo \in [Saver -> SUBSET Tor]
  /\ ator \in [Saver -> Tor \cup {None}]
  /\ crew \in Crews

FlagTypes ==
  /\ fresh \in [Tor -> BOOLEAN]
  /\ mu \in [Tor -> BOOLEAN]
  /\ client \in BOOLEAN
  /\ hinfo \in [Handle -> BOOLEAN]
  /\ open \in [Handle -> BOOLEAN]

TypeOK ==
  TorTypes /\ BtTypes /\ LibTypes /\ ProcTypes /\ AdminTypes /\ FlagTypes

Init ==
  /\ stat = [t \in Tor |-> "Free"]
  /\ hashOf = [t \in Tor |-> None]
  /\ handle = [t \in Tor |-> None]
  /\ closedCh = [t \in Tor |-> None]
  /\ cacheOf = [t \in Tor |-> None]
  /\ fresh = [t \in Tor |-> FALSE]
  /\ mu = [t \in Tor |-> FALSE]
  /\ torrents = [x \in Hash |-> None]
  /\ client = TRUE
  /\ caches = {}
  /\ epoch = 0
  /\ orphaned = {}
  /\ hst = [h \in Handle |-> "free"]
  /\ hinfo = [h \in Handle |-> FALSE]
  /\ hhash = [h \in Handle |-> None]
  /\ hcache = [h \in Handle |-> None]
  /\ hepoch = [h \in Handle |-> 0]
  /\ open = [h \in Handle |-> FALSE]
  /\ pc = [p \in Proc |-> "idle"]
  /\ tor = [p \in Proc |-> None]
  /\ hnd = [p \in Proc |-> None]
  /\ hsh = [p \in Proc |-> None]
  /\ caller = [p \in Proc |-> "none"]
  /\ rdr = [p \in Proc |-> None]
  /\ apc = [a \in Saver |-> "idle"]
  /\ todo = [a \in Saver |-> {}]
  /\ ator = [a \in Saver |-> None]
  /\ crew \in Crews

-----------------------------------------------------------------------------
(* Helpers                                                                  *)

\* The goroutine ends: all its locals die.
Return(p) ==
  /\ pc' = [pc EXCEPT ![p] = "idle"]
  /\ tor' = [tor EXCEPT ![p] = None]
  /\ hnd' = [hnd EXCEPT ![p] = None]
  /\ hsh' = [hsh EXCEPT ![p] = None]
  /\ caller' = [caller EXCEPT ![p] = "none"]
  /\ rdr' = [rdr EXCEPT ![p] = None]

Goto(p, l) == pc' = [pc EXCEPT ![p] = l]

\* The library torrent's closed channel has fired.
Fired(h) == h # None /\ hst[h] \in {"closing", "closed"}

\* c.readers of a cache; Close sets it to nil.
Readers(c) == {p \in Proc : rdr[p] = c /\ open[c]}

\* The library torrent registered for a hash in the current client.
LibTorrent(x) ==
  {h \in Handle : hst[h] = "live" /\ hhash[h] = x /\ hepoch[h] = epoch}

\* The cache registered for a hash in the storage of client e.
CacheIn(e, x) == {c \in caches : hepoch[c] = e /\ hhash[c] = x}

\* Bound: a request that may allocate starts only while both pools cover it.
PoolsLeft ==
  LET adding == {p \in Proc : pc[p] \in {"add", "insert"}} IN
  /\ Cardinality({h \in Handle : hst[h] = "free"}) > Cardinality(adding)
  /\ Cardinality({t \in Tor : stat[t] = "Free"}) > Cardinality(adding)

-----------------------------------------------------------------------------
(* The torrent library and time                                             *)

\* Metadata arrives: the library opens the storage of the torrent before it
\* fires GotInfo; OpenTorrent returns the cache already registered for the
\* hash, or creates and registers a new one.
InfoArrives(h) ==
  /\ hst[h] = "live" /\ ~hinfo[h]
  /\ hinfo' = [hinfo EXCEPT ![h] = TRUE]
  /\ LET found == CacheIn(hepoch[h], hhash[h]) IN
       IF found # {}
         THEN /\ \E c \in found : hcache' = [hcache EXCEPT ![h] = c]
              /\ UNCHANGED <<caches, open>>
         ELSE /\ hcache' = [hcache EXCEPT ![h] = h]
              /\ caches' = caches \cup {h}
              /\ open' = [open EXCEPT ![h] = TRUE]
  /\ UNCHANGED <<torVars, torrents, client, epoch, orphaned, hst, hhash, hepoch,
                 procVars, adminVars>>

\* The library closes the storage of a dropped torrent from its own
\* goroutine, after the closed channel fired: Cache.Close marks the cache
\* closed, forgets its readers and removes the storage's entry by hash,
\* whichever cache that entry holds by then.
CloseStorage(h) ==
  /\ hst[h] = "closing"
  /\ hst' = [hst EXCEPT ![h] = "closed"]
  /\ IF hcache[h] = None
       THEN UNCHANGED <<open, caches>>
       ELSE /\ open' = [open EXCEPT ![hcache[h]] = FALSE]
            /\ caches' = caches \ CacheIn(hepoch[h], hhash[h])
  /\ UNCHANGED <<torVars, torrents, client, epoch, orphaned, hinfo, hhash, hcache,
                 hepoch, procVars, adminVars>>

\* TorrentDisconnectTimeout passes without anything renewing it.
ExpireTime(t) ==
  /\ fresh[t]
  /\ fresh' = [fresh EXCEPT ![t] = FALSE]
  /\ UNCHANGED <<stat, hashOf, handle, closedCh, cacheOf, mu, btVars, libVars,
                 procVars, adminVars>>

-----------------------------------------------------------------------------
(* Adding a torrent                                                         *)

\* A request looks the hash up; it works on the torrent it finds, or adds it.
GetTorrent(p, x) ==
  /\ pc[p] = "idle" /\ p \in crew
  /\ hsh' = [hsh EXCEPT ![p] = x]
  /\ IF torrents[x] # None
       THEN /\ ~mu[torrents[x]]
            /\ tor' = [tor EXCEPT ![p] = torrents[x]]
            /\ fresh' = [fresh EXCEPT ![torrents[x]] = TRUE]
            /\ \/ Goto(p, "gotinfo")
               \/ "Preload" \in Requests /\ Goto(p, "preload")
            /\ caller' = [caller EXCEPT ![p] = "GotInfo"]
       ELSE /\ PoolsLeft
            /\ \E c \in {"GotInfo", "LoadTorrent"} \cap Requests :
                 caller' = [caller EXCEPT ![p] = c]
            /\ Goto(p, "add")
            /\ UNCHANGED <<tor, fresh>>
  /\ UNCHANGED <<stat, hashOf, handle, closedCh, cacheOf, mu, btVars, libVars,
                 hnd, rdr, adminVars>>

\* POST /torrents add calls NewTorrent without looking the hash up first.
AddTorrent(p, x) ==
  /\ pc[p] = "idle" /\ p \in crew /\ PoolsLeft /\ "AddTorrent" \in Requests
  /\ hsh' = [hsh EXCEPT ![p] = x]
  /\ caller' = [caller EXCEPT ![p] = "GotInfo"]
  /\ Goto(p, "add")
  /\ UNCHANGED <<torVars, btVars, libVars, tor, hnd, rdr, adminVars>>

\* Mutant of Connected: the client is not tested under the lock.
ConnectedUnchecked == TRUE

\* bt.client # nil.
Connected == client

\* NewTorrent, first critical section (bt.mu read lock): a nil client is an
\* error; AddTorrentSpec returns the registered library torrent or a new one.
NewTorrentAdd(p) ==
  /\ pc[p] = "add"
  /\ \/ /\ ~Connected
        /\ Return(p)
        /\ UNCHANGED libVars
     \/ /\ Connected
        /\ \E h \in LibTorrent(hsh[p]) : hnd' = [hnd EXCEPT ![p] = h]
        /\ Goto(p, "insert")
        /\ UNCHANGED <<libVars, tor, hsh, caller, rdr>>
     \/ /\ Connected
        /\ LibTorrent(hsh[p]) = {}
        /\ \E h \in Handle :
             /\ hst[h] = "free"
             /\ hst' = [hst EXCEPT ![h] = "live"]
             /\ hhash' = [hhash EXCEPT ![h] = hsh[p]]
             /\ hepoch' = [hepoch EXCEPT ![h] = epoch]
             /\ hnd' = [hnd EXCEPT ![p] = h]
        /\ Goto(p, "insert")
        /\ UNCHANGED <<hinfo, hcache, open, tor, hsh, caller, rdr>>
  /\ UNCHANGED <<torVars, btVars, adminVars>>

\* Where NewTorrent's caller goes on with the torrent it got.
AfterNew(c) == IF c = "LoadTorrent" THEN "waitinfo" ELSE "gotinfo"

\* Mutant of InMap: the map is not looked at again under the write lock.
InMapUnchecked(x) == FALSE

\* bt.torrents has a torrent under the hash.
InMap(x) == torrents[x] # None

\* NewTorrent, second critical section (bt.mu write lock): the torrent in the
\* map wins; otherwise a new one wraps the handle taken before.
NewTorrentInsert(p) ==
  /\ pc[p] = "insert"
  /\ \/ /\ InMap(hsh[p])
        /\ tor' = [tor EXCEPT ![p] = torrents[hsh[p]]]
        /\ UNCHANGED <<torVars, torrents>>
     \/ /\ ~InMap(hsh[p])
        /\ \E t \in Tor :
             /\ stat[t] = "Free"
             /\ stat' = [stat EXCEPT ![t] = "Added"]
             /\ hashOf' = [hashOf EXCEPT ![t] = hsh[p]]
             /\ handle' = [handle EXCEPT ![t] = hnd[p]]
             /\ closedCh' = [closedCh EXCEPT ![t] = hnd[p]]
             /\ fresh' = [fresh EXCEPT ![t] = TRUE]
             /\ torrents' = [torrents EXCEPT ![hsh[p]] = t]
             /\ tor' = [tor EXCEPT ![p] = t]
             /\ UNCHANGED <<cacheOf, mu>>
  /\ Goto(p, AfterNew(caller[p]))
  /\ UNCHANGED <<client, caches, epoch, orphaned, libVars, hnd, hsh, caller, rdr,
                 adminVars>>

-----------------------------------------------------------------------------
(* Waiting for the metadata                                                 *)

\* Mutant of HasInfo: the working case is never taken.
HasInfoNever(t) == FALSE

\* Torrent.Info() # nil on a handle that is still there.
HasInfo(t) == handle[t] # None /\ hinfo[handle[t]]

\* GotInfo up to WaitInfo: the four cases of the switch.
GotInfo(p) ==
  LET t == tor[p] IN
  /\ pc[p] = "gotinfo" /\ ~mu[t]
  /\ \/ /\ stat[t] = "Closed"
        /\ Return(p)
        /\ UNCHANGED <<stat, fresh>>
     \/ /\ stat[t] = "Preload"
        /\ Goto(p, "use")
        /\ UNCHANGED <<stat, fresh, locals>>
     \/ /\ stat[t] = "Working" /\ HasInfo(t)
        /\ fresh' = [fresh EXCEPT ![t] = TRUE]
        /\ Goto(p, "use")
        /\ UNCHANGED <<stat, locals>>
     \/ /\ stat[t] \notin {"Closed", "Preload"}
        /\ ~(stat[t] = "Working" /\ HasInfo(t))
        /\ stat' = [stat EXCEPT ![t] = "GettingInfo"]
        /\ Goto(p, "waitinfo")
        /\ UNCHANGED <<fresh, locals>>
  /\ UNCHANGED <<hashOf, handle, closedCh, cacheOf, mu, btVars, libVars, adminVars>>

\* What a failed WaitInfo leads to: GotInfo closes the torrent, LoadTorrent
\* and Preload only return.
WaitFailed(p) ==
  IF caller[p] = "GotInfo"
    THEN Goto(p, "close") /\ UNCHANGED locals
    ELSE Return(p)

WaitSucceeded(p) ==
  \/ caller[p] = "GotInfo" /\ Goto(p, "gotdone") /\ UNCHANGED locals
  \/ caller[p] = "Preload" /\ Goto(p, "preload") /\ UNCHANGED locals
  \/ caller[p] \notin {"GotInfo", "Preload"} /\ Return(p)

\* WaitInfo takes the handle once, under muTorrent.
WaitInfo(p) ==
  /\ pc[p] = "waitinfo" /\ ~mu[tor[p]]
  /\ IF handle[tor[p]] = None
       THEN WaitFailed(p)
       ELSE /\ hnd' = [hnd EXCEPT ![p] = handle[tor[p]]]
            /\ Goto(p, "waiting")
            /\ UNCHANGED <<tor, hsh, caller, rdr>>
  /\ UNCHANGED <<torVars, btVars, libVars, adminVars>>

\* The info branch of the select: the torrent takes the cache bt.storage, which
\* Connect replaces, has under its hash; no cache is taken for "the torrent was
\* dropped".
WaitInfoGot(p) ==
  /\ pc[p] = "waiting" /\ hinfo[hnd[p]]
  /\ LET found == CacheIn(epoch, hashOf[tor[p]]) IN
       IF found = {}
         THEN WaitFailed(p) /\ UNCHANGED cacheOf
         ELSE /\ \E c \in found : cacheOf' = [cacheOf EXCEPT ![tor[p]] = c]
              /\ WaitSucceeded(p)
  /\ UNCHANGED <<stat, hashOf, handle, closedCh, fresh, mu, btVars, libVars,
                 adminVars>>

\* Mutant of WaitInfoFailed: the select has no timer.
WaitInfoNoTimer(p) ==
  /\ pc[p] = "waiting" /\ Fired(closedCh[tor[p]])
  /\ WaitFailed(p)
  /\ UNCHANGED <<torVars, btVars, libVars, adminVars>>

\* The closed and the timer branches of the select.
WaitInfoFailed(p) ==
  /\ pc[p] = "waiting"
  /\ Fired(closedCh[tor[p]]) \/ ~hinfo[hnd[p]]
  /\ WaitFailed(p)
  /\ UNCHANGED <<torVars, btVars, libVars, adminVars>>

\* Mutant of StatAfterInfo: the status is not looked at.
StatAfterInfoBlind(s) == "Working"

\* GotInfo's new status after a successful WaitInfo.
StatAfterInfo(s) == IF s = "GettingInfo" THEN "Working" ELSE s

\* GotInfo after a successful WaitInfo.
GotInfoDone(p) ==
  LET t == tor[p] IN
  /\ pc[p] = "gotdone" /\ ~mu[t]
  /\ stat' = [stat EXCEPT ![t] = StatAfterInfo(@)]
  /\ IF stat'[t] = "Closed"
       THEN Return(p) /\ UNCHANGED fresh
       ELSE /\ fresh' = [fresh EXCEPT ![t] = TRUE]
            /\ Goto(p, "use")
            /\ UNCHANGED locals
  /\ UNCHANGED <<hashOf, handle, closedCh, cacheOf, mu, btVars, libVars,
                 adminVars>>

-----------------------------------------------------------------------------
(* Using a torrent                                                          *)

\* After GotInfo a request streams, preloads, or only wanted the metadata.
Use(p) ==
  /\ pc[p] = "use"
  /\ \/ "Stream" \in Requests /\ Goto(p, "newreader") /\ UNCHANGED locals
     \/ "Preload" \in Requests /\ Goto(p, "preload") /\ UNCHANGED locals
     \/ Return(p)
  /\ UNCHANGED <<torVars, btVars, libVars, adminVars>>

\* Torrent.NewReader, the test: Stat is read without muTorrent.
NewReaderCheck(p) ==
  /\ pc[p] = "newreader" /\ rdr[p] = None
  /\ IF stat[tor[p]] = "Closed"
       THEN Return(p)
       ELSE /\ rdr' = [rdr EXCEPT ![p] = cacheOf[tor[p]]]
            /\ UNCHANGED <<pc, tor, hnd, hsh, caller>>
  /\ UNCHANGED <<torVars, btVars, libVars, adminVars>>

\* Torrent.NewReader, the creation: the reader registers itself in the cache.
\* A closed cache has a nil readers map: the write panics and the handler's
\* recovery ends the request.
NewReaderRegister(p) ==
  /\ pc[p] = "newreader" /\ rdr[p] # None
  /\ IF open[rdr[p]]
       THEN Goto(p, "reading") /\ UNCHANGED locals
       ELSE Return(p)
  /\ UNCHANGED <<torVars, btVars, libVars, adminVars>>

\* Stream ends: CloseReader unregisters the reader and renews the timeout.
CloseReader(p) ==
  /\ pc[p] = "reading" /\ ~mu[tor[p]]
  /\ fresh' = [fresh EXCEPT ![tor[p]] = TRUE]
  /\ Return(p)
  /\ UNCHANGED <<stat, hashOf, handle, closedCh, cacheOf, mu, btVars, libVars,
                 adminVars>>

\* Preload up to the status change; Stat = GettingInfo sends it through
\* WaitInfo first, and only a working torrent with a handle is preloaded.
PreloadStart(p) ==
  LET t == tor[p] IN
  /\ pc[p] = "preload" /\ ~mu[t]
  /\ \/ /\ stat[t] = "GettingInfo" /\ caller[p] # "Preload"
        /\ caller' = [caller EXCEPT ![p] = "Preload"]
        /\ Goto(p, "waitinfo")
        /\ UNCHANGED <<stat, tor, hnd, hsh, rdr>>
     \/ /\ stat[t] # "GettingInfo" \/ caller[p] = "Preload"
        /\ stat[t] # "Working" \/ handle[t] = None
        /\ Return(p)
        /\ UNCHANGED stat
     \/ /\ stat[t] = "Working" /\ handle[t] # None
        /\ stat' = [stat EXCEPT ![t] = "Preload"]
        /\ Goto(p, "preloading")
        /\ UNCHANGED locals
  /\ UNCHANGED <<hashOf, handle, closedCh, cacheOf, fresh, mu, btVars, libVars,
                 adminVars>>

\* Preload's deferred function; its loops end at any time, or because Stat
\* left Preload.
PreloadEnd(p) ==
  LET t == tor[p] IN
  /\ pc[p] = "preloading" /\ ~mu[t]
  /\ stat' = [stat EXCEPT ![t] = IF @ = "Preload" THEN "Working" ELSE @]
  /\ Return(p)
  /\ UNCHANGED <<hashOf, handle, closedCh, cacheOf, fresh, mu, btVars, libVars,
                 adminVars>>

-----------------------------------------------------------------------------
(* Removing a torrent                                                       *)

\* A request drops a hash.
DropTorrent(p, x) ==
  /\ pc[p] = "idle" /\ p \in crew /\ "DropTorrent" \in Requests
  /\ hsh' = [hsh EXCEPT ![p] = x]
  /\ Goto(p, "remove")
  /\ UNCHANGED <<torVars, btVars, libVars, tor, hnd, caller, rdr, adminVars>>

\* Torrent.expired.
Expired(t) ==
  /\ cacheOf[t] # None /\ Readers(cacheOf[t]) = {}
  /\ ~fresh[t]
  /\ stat[t] \in {"Working", "Closed"}

\* Mutant of ProgressEvent: only a torrent that failed to start is expired.
ProgressEventAdded(p, t) ==
  /\ pc[p] = "idle" /\ p \in crew
  /\ stat[t] = "Added" /\ Expired(t)
  /\ hsh' = [hsh EXCEPT ![p] = hashOf[t]]
  /\ Goto(p, "remove")
  /\ UNCHANGED <<torVars, btVars, libVars, tor, hnd, caller, rdr, adminVars>>

\* A tick of the torrent's watcher spawns progressEvent, which finds the
\* torrent expired and removes its hash.  The watcher stops with the handle
\* it was started for.
ProgressEvent(p, t) ==
  /\ pc[p] = "idle" /\ p \in crew
  /\ stat[t] # "Free" /\ ~Fired(closedCh[t]) /\ ~mu[t]
  /\ Expired(t)
  /\ hsh' = [hsh EXCEPT ![p] = hashOf[t]]
  /\ Goto(p, "remove")
  /\ UNCHANGED <<torVars, btVars, libVars, tor, hnd, caller, rdr, adminVars>>

\* BTServer.RemoveTorrent looks the hash up and closes what it finds.
RemoveTorrent(p) ==
  /\ pc[p] = "remove"
  /\ IF torrents[hsh[p]] = None
       THEN Return(p)
       ELSE /\ tor' = [tor EXCEPT ![p] = torrents[hsh[p]]]
            /\ Goto(p, "close")
            /\ UNCHANGED <<hnd, hsh, caller, rdr>>
  /\ UNCHANGED <<torVars, btVars, libVars, adminVars>>

\* Close: a closed torrent needs nothing, a read-only server keeps a torrent
\* in use, any other is marked closed.  GetUseReaders does not count parked
\* readers, so a read-only server may also close a torrent that has readers.
CloseMark(p) ==
  LET t == tor[p] IN
  /\ pc[p] = "close" /\ ~mu[t]
  /\ \/ /\ stat[t] = "Closed"
        /\ Return(p)
        /\ UNCHANGED stat
     \/ /\ stat[t] # "Closed"
        /\ ReadOnly /\ cacheOf[t] # None /\ Readers(cacheOf[t]) # {}
        /\ Return(p)
        /\ UNCHANGED stat
     \/ /\ stat[t] # "Closed"
        /\ stat' = [stat EXCEPT ![t] = "Closed"]
        /\ Goto(p, "delete")
        /\ UNCHANGED locals
  /\ UNCHANGED <<hashOf, handle, closedCh, cacheOf, fresh, mu, btVars, libVars,
                 adminVars>>

\* Mutant of CloseDelete: the entry stays.
CloseDeleteKeeps(p) ==
  /\ pc[p] = "delete"
  /\ Goto(p, "drop")
  /\ UNCHANGED <<torVars, btVars, libVars, locals, adminVars>>

\* Close: the map entry under the torrent's hash goes, whatever it holds.
CloseDelete(p) ==
  /\ pc[p] = "delete"
  /\ torrents' = [torrents EXCEPT ![hashOf[tor[p]]] = None]
  /\ Goto(p, "drop")
  /\ UNCHANGED <<torVars, client, caches, epoch, orphaned, libVars, locals,
                 adminVars>>

\* drop() locks muTorrent; Drop of the library torrent fires its closed
\* channel and then waits for the storage to close.
DropFirst(t) ==
  /\ ~mu[t] /\ handle[t] # None
  /\ mu' = [mu EXCEPT ![t] = TRUE]
  /\ hst' = [hst EXCEPT ![handle[t]] = IF @ = "live" THEN "closing" ELSE @]
  /\ UNCHANGED <<stat, hashOf, handle, closedCh, cacheOf, fresh>>

\* Mutant of DropLast: the handle is not forgotten.
DropLastKeeps(t) ==
  /\ hst[handle[t]] = "closed"
  /\ mu' = [mu EXCEPT ![t] = FALSE]
  /\ UNCHANGED <<stat, hashOf, handle, closedCh, cacheOf, fresh>>

\* Mutant of DropLast: the lock is kept.
DropLastLocked(t) ==
  /\ hst[handle[t]] = "closed"
  /\ handle' = [handle EXCEPT ![t] = None]
  /\ UNCHANGED <<stat, hashOf, closedCh, cacheOf, fresh, mu>>

\* drop() forgets the handle and unlocks.  (A second Drop of one handle is
\* made to wait like the first.)
DropLast(t) ==
  /\ hst[handle[t]] = "closed"
  /\ handle' = [handle EXCEPT ![t] = None]
  /\ mu' = [mu EXCEPT ![t] = FALSE]
  /\ UNCHANGED <<stat, hashOf, closedCh, cacheOf, fresh>>

CloseDrop(p) ==
  LET t == tor[p] IN
  /\ \/ /\ pc[p] = "drop" /\ ~mu[t] /\ handle[t] = None
        /\ Return(p)
        /\ UNCHANGED <<torVars, hst>>
     \/ /\ pc[p] = "drop"
        /\ DropFirst(t)
        /\ Goto(p, "dropping")
        /\ UNCHANGED locals
     \/ /\ pc[p] = "dropping"
        /\ DropLast(t)
        /\ Return(p)
        /\ UNCHANGED hst
  /\ UNCHANGED <<btVars, hinfo, hhash, hcache, hepoch, open, adminVars>>

-----------------------------------------------------------------------------
(* Changing the settings: drop all torrents, disconnect, connect            *)

\* The goroutines inside SetSettings.
Busy == {a \in Saver : apc[a] # "idle"}

\* SetSettings and SetDefSettings snapshot the map and drop every torrent in
\* it.  Nothing keeps two of them from overlapping.
SetSettings(a) ==
  /\ apc[a] = "idle" /\ a \in crew /\ ~ReadOnly
  /\ epoch + Cardinality(Busy) < MaxEpoch
  /\ todo' = [todo EXCEPT ![a] = {t \in Tor : \E x \in Hash : torrents[x] = t}]
  /\ apc' = [apc EXCEPT ![a] = "drop"]
  /\ UNCHANGED <<torVars, btVars, libVars, procVars, ator, crew>>

\* dropAllTorrent: drop() leaves Stat and the map entry as they are, and the
\* loop waits for the closed channel of each torrent.
DropAll(a) ==
  /\ \/ /\ apc[a] = "drop" /\ todo[a] = {}
        /\ apc' = [apc EXCEPT ![a] = "disconnect"]
        /\ UNCHANGED <<torVars, hst, todo, ator>>
     \/ /\ apc[a] = "drop"
        /\ \E t \in todo[a] :
             /\ todo' = [todo EXCEPT ![a] = @ \ {t}]
             /\ ator' = [ator EXCEPT ![a] = t]
             /\ \/ /\ DropFirst(t)
                   /\ apc' = [apc EXCEPT ![a] = "dropping"]
                \/ /\ ~mu[t] /\ handle[t] = None
                   /\ apc' = [apc EXCEPT ![a] = "waitclosed"]
                   /\ UNCHANGED <<torVars, hst>>
     \/ /\ apc[a] = "dropping"
        /\ DropLast(ator[a])
        /\ apc' = [apc EXCEPT ![a] = "waitclosed"]
        /\ UNCHANGED <<hst, todo, ator>>
     \/ /\ apc[a] = "waitclosed" /\ Fired(closedCh[ator[a]])
        /\ apc' = [apc EXCEPT ![a] = "drop"]
        /\ ator' = [ator EXCEPT ![a] = None]
        /\ UNCHANGED <<torVars, hst, todo>>
  /\ UNCHANGED <<btVars, hinfo, hhash, hcache, hepoch, open, procVars, crew>>

\* Disconnect: closing the client drops every library torrent it has and
\* closes their caches; a nil client needs nothing.
Disconnect(a) ==
  /\ apc[a] = "disconnect"
  /\ client' = FALSE
  /\ LET live == {h \in Handle : client /\ hst[h] = "live" /\ hepoch[h] = epoch} IN
       /\ hst' = [h \in Handle |-> IF h \in live THEN "closed" ELSE hst[h]]
       /\ open' = [c \in Handle |-> open[c] /\ \A h \in live : hcache[h] # c]
       /\ caches' = {c \in caches : \A h \in live :
                       hcache[h] = None \/ c \notin CacheIn(epoch, hhash[h])}
  /\ apc' = [apc EXCEPT ![a] = "connect"]
  /\ UNCHANGED <<torVars, torrents, epoch, orphaned, hinfo, hhash, hcache, hepoch,
                 procVars, todo, ator, crew>>

\* One Connect of reconnect: a new storage, a new map and, unless the port is
\* still busy, a new client.  A failed one is retried, 30 times at most.  The
\* client it replaces, if another SetSettings connected one since the
\* Disconnect, is not closed.
Connect(a) ==
  /\ apc[a] = "connect"
  /\ torrents' = [x \in Hash |-> None]
  /\ epoch' = epoch + 1
  /\ orphaned' = IF client THEN orphaned \cup {epoch} ELSE orphaned
  /\ \/ client' = TRUE /\ apc' = [apc EXCEPT ![a] = "idle"]
     \/ /\ client' = FALSE
        /\ epoch + Cardinality(Busy) < MaxEpoch /\ UNCHANGED apc
     \/ client' = FALSE /\ apc' = [apc EXCEPT ![a] = "idle"]
  /\ UNCHANGED <<torVars, caches, libVars, procVars, todo, ator, crew>>

-----------------------------------------------------------------------------

Library == \E h \in Handle : InfoArrives(h) \/ CloseStorage(h)

Request(p) ==
  \/ \E x \in Hash : GetTorrent(p, x) \/ AddTorrent(p, x) \/ DropTorrent(p, x)
  \/ \E t \in Tor : ProgressEvent(p, t)

Step(p) ==
  \/ NewTorrentAdd(p) \/ NewTorrentInsert(p)
  \/ GotInfo(p) \/ WaitInfo(p) \/ WaitInfoGot(p) \/ WaitInfoFailed(p)
  \/ GotInfoDone(p)
  \/ Use(p) \/ NewReaderCheck(p) \/ NewReaderRegister(p) \/ CloseReader(p)
  \/ PreloadStart(p) \/ PreloadEnd(p)
  \/ RemoveTorrent(p) \/ CloseMark(p) \/ CloseDelete(p) \/ CloseDrop(p)

Saving(a) == DropAll(a) \/ Disconnect(a) \/ Connect(a)

\* The engine between two changes of the settings.
Steady ==
  \/ Library
  \/ \E t \in Tor : ExpireTime(t)
  \/ \E p \in Proc : Request(p) \/ Step(p)

Next == Steady \/ \E a \in Saver : SetSettings(a) \/ Saving(a)

Spec == Init /\ [][Next]_vars
SteadySpec == Init /\ [][Steady]_vars

\* Goroutines that can run do run, the library closes what was dropped, and
\* SetSettings goes on once called.  Nothing obliges a request to be made.
Fairness ==
  /\ \A p \in Proc : WF_vars(Step(p))
  /\ \A h \in Handle : WF_vars(CloseStorage(h))
  /\ \A a \in Saver : WF_vars(Saving(a))

\* The one-second ticker of each watcher keeps firing; its goroutine is one of
\* Proc, hence strong fairness.
WatcherFairness == \A t \in Tor : SF_vars(\E p \in Proc : ProgressEvent(p, t))

FairSpec == Spec /\ Fairness /\ WatcherFairness

-----------------------------------------------------------------------------
(* Properties                                                               *)

\* The goroutines inside Close of t, past the point that marked it closed.
Closers(t) == {p \in Proc : tor[p] = t /\ pc[p] \in {"delete", "drop", "dropping"}}

\* No interleaving of GotInfo, Preload, the watcher and Close turns a closed
\* torrent back into a working one (the race GotInfo's switch was written for).
ClosedIsFinal == [][\A t \in Tor : stat[t] = "Closed" => stat'[t] = "Closed"]_vars

\* A closed torrent is found in bt.torrents only while the one goroutine that
\* closed it is about to delete it: lookups never return a dead torrent for good.
ClosedInMapHasCloser ==
  \A x \in Hash, t \in Tor :
    torrents[x] = t /\ stat[t] = "Closed"
      => \E p \in Proc : tor[p] = t /\ pc[p] = "delete"

\* Once its closer is gone, a closed torrent holds no library torrent and the
\* one it was created with has been dropped: closing leaks no download.
ClosedIsReleased ==
  \A t \in Tor : stat[t] = "Closed" /\ Closers(t) = {}
                   => handle[t] = None /\ Fired(closedCh[t])

\* A library torrent that runs belongs to the connected client: NewTorrent's
\* test of bt.client under the lock keeps AddTorrentSpec off a closed client,
\* and Disconnect leaves none behind.  What overlapping saves do to this is
\* named exactly: the torrents of a client that a Connect replaced without
\* closing it run on.
LiveHasClient ==
  \A h \in Handle :
    hst[h] = "live" => (client /\ hepoch[h] = epoch) \/ hepoch[h] \in orphaned

\* Between two settings changes every torrent that is not closed is the one
\* bt.torrents has under its hash, so it can be found, dropped and expired.
OpenIsMapped ==
  \A t \in Tor : stat[t] \notin {"Free", "Closed"} => torrents[hashOf[t]] = t

\* Once the info is in, GotInfo does not take a torrent through GettingInfo
\* again (other requests read Stat meanwhile).
NoGettingInfoAgain ==
  [][\A t \in Tor : stat[t] = "Working" => stat'[t] # "GettingInfo"]_vars

\* SetSettings always comes to its end, also when two of them overlap: no drop
\* it waits for is missed.
SettingsFinish == \A a \in Saver : apc[a] # "idle" ~> apc[a] = "idle"

\* A request gets past adding and waiting and either streams, preloads or ends.
RequestsProceed ==
  \A p \in Proc : pc[p] \notin {"idle", "reading", "preloading"}
                   ~> pc[p] \in {"idle", "reading", "preloading"}

\* The watcher closes an idle torrent: until the settings are changed, none
\* whose watcher runs stays expired.
ExpiredIsClosed ==
  LET idle(t) == /\ stat[t] = "Working" /\ ~Fired(closedCh[t]) /\ Expired(t)
                 /\ epoch = 0 /\ Busy = {}
  IN \A t \in Tor : idle(t) ~> ~idle(t)

\* The watcher closes an idle torrent: RemoveTorrent, called with the hash of
\* an expired torrent, looks up that torrent.
ExpiredIsMapped ==
  \A t \in Tor : stat[t] = "Working" /\ ~Fired(closedCh[t]) /\ Expired(t)
                   => torrents[hashOf[t]] = t
=============================================================================
