----------------------------- MODULE TorrReader -----------------------------
(***************************************************************************)
(* The readers of a torrent's cache (torr/storage/torrstor/reader.go).     *)
(*                                                                         *)
(* A Reader wraps a reader of the BitTorrent library and keeps a position  *)
(* of its own, r.offset.  The sweep of the cache parks a reader that looks *)
(* idle: it moves the library's reader to byte 0, so that nothing is       *)
(* downloaded for it, and the next read or seek moves it back to r.offset. *)
(* The sweep, the periodic AdjustRA and the goroutine that reads run       *)
(* concurrently; r.mu protects isUse, inFlight and the parking, while      *)
(* Seek writes r.offset and SetReadahead reads isUse without it.           *)
(*                                                                         *)
(* Positions are counted in units of a file of FileLen units.              *)
(***************************************************************************)
EXTENDS Integers, FiniteSets

CONSTANTS
  Reader,    \* Reader objects; each is created and closed at most once
  Client,    \* goroutines that seek and read
  ReaderOf,  \* the reader each client uses
  Pread,     \* the clients that only read at an offset (tfsHandle.Read)
  Sweeper,   \* goroutines inside checkReader (cleanup, watchdog, closing)
  Adjuster,  \* goroutines inside AdjustRA
  FileLen,   \* r.file.Length()
  Whence,    \* the origins the clients seek from
  NoReader   \* no reader

ASSUME ReaderAssumption ==
  /\ ReaderOf \in [Client -> Reader]
  /\ Pread \subseteq Client
  /\ FileLen \in Nat
  /\ Whence \subseteq {"start", "current", "end"}
  /\ NoReader \notin Reader

VARIABLES
  life,      \* "new" before newReader, then "open" until CloseReader
  offset,    \* r.offset
  isUse,     \* r.isUse: FALSE while parked
  inFlight,  \* r.inFlight
  pos,       \* position of the library's reader
  ahead,     \* is the library's reader downloading ahead (readahead # 0)?
  doing,     \* what each client is doing
  call,      \* the arguments or the result of its call
  want,      \* the position its calls so far amount to (history)
  sweep,     \* the reader a sweeper has decided on, and what to do with it
  adjust     \* the reader an adjuster is working on, and the isUse it read

readerVars == <<life, offset, isUse, inFlight, pos, ahead>>
clientVars == <<doing, call, want>>
cacheVars == <<readerVars, clientVars, sweep, adjust>>

Positions == 0 .. FileLen
Idle == [reader |-> NoReader, on |-> TRUE]
Registered == {r \in Reader : life[r] = "open"}

ReaderTypeOK ==
  /\ life \in [Reader -> {"new", "open", "closed"}]
  /\ offset \in [Reader -> Int]
  /\ isUse \in [Reader -> BOOLEAN]
  /\ inFlight \in [Reader -> Nat]
  /\ pos \in [Reader -> Int]
  /\ ahead \in [Reader -> BOOLEAN]
  /\ doing \in [Client -> {"idle", "seek", "moving", "moved", "sought",
                        "begun", "reading", "read"}]
  /\ call \in [Client -> [whence : {"start", "current", "end"}, n : Int]]
  /\ want \in [Client -> Int]
  /\ sweep \in [Sweeper -> [reader : Reader \cup {NoReader}, on : BOOLEAN]]
  /\ adjust \in [Adjuster -> [reader : Reader \cup {NoReader}, on : BOOLEAN]]

ReaderInit ==
  /\ life = [r \in Reader |-> "new"]
  /\ offset = [r \in Reader |-> 0]
  /\ isUse = [r \in Reader |-> FALSE]
  /\ inFlight = [r \in Reader |-> 0]
  /\ pos = [r \in Reader |-> 0]
  /\ ahead = [r \in Reader |-> FALSE]
  /\ doing = [c \in Client |-> "idle"]
  /\ call = [c \in Client |-> [whence |-> "start", n |-> 0]]
  /\ want = [c \in Client |-> 0]
  /\ sweep = [s \in Sweeper |-> Idle]
  /\ adjust = [a \in Adjuster |-> Idle]

-----------------------------------------------------------------------------
(* Opening and closing.                                                    *)

\* newReader: at byte 0, in use, registered in the cache.  Its SetReadahead(0)
\* finds isUse still false: the library's own default readahead applies.
NewReader(r) ==
  /\ life[r] = "new"
  /\ life' = [life EXCEPT ![r] = "open"]
  /\ isUse' = [isUse EXCEPT ![r] = TRUE]
  /\ ahead' = [ahead EXCEPT ![r] = TRUE]
  /\ UNCHANGED <<offset, inFlight, pos, clientVars, sweep, adjust>>

\* Cache.CloseReader: unregister the reader and mark it closed.  ReadFile closes
\* a reader another goroutine may still be reading from, so this may happen
\* at any time.
CacheCloseReader(r) ==
  /\ life[r] = "open"
  /\ life' = [life EXCEPT ![r] = "closed"]
  /\ UNCHANGED <<offset, isUse, inFlight, pos, ahead, clientVars, sweep, adjust>>

-----------------------------------------------------------------------------
(* Parking.                                                                *)

\* Mutant of Resume: the library's reader is left where the sweep put it.
ResumeForgets(r) == isUse' = [isUse EXCEPT ![r] = TRUE] /\ UNCHANGED pos

\* resume, with r.mu held.  Its SetReadahead finds isUse still false and so
\* does not reach the library's reader.
Resume(r) ==
  /\ isUse' = [isUse EXCEPT ![r] = TRUE]
  /\ pos' = [pos EXCEPT ![r] =
               IF ~isUse[r] /\ pos[r] = 0 THEN offset[r] ELSE pos[r]]

BeginIO(r) ==
  /\ inFlight' = [inFlight EXCEPT ![r] = @ + 1]
  /\ Resume(r)

EndIO(r) == inFlight' = [inFlight EXCEPT ![r] = @ - 1]

\* checkReader, the decision, taken without r.mu: a reader may be parked when
\* it looks idle (60 s without a completed read) and is not the only one.  The
\* sweep works from a snapshot, so the reader may have been closed since.
CheckReader(s, r) ==
  /\ sweep[s] = Idle /\ life[r] # "new"
  /\ \E on \in BOOLEAN :
       /\ on \/ Cardinality(Registered) > 1
       /\ sweep' = [sweep EXCEPT ![s] = [reader |-> r, on |-> on]]
  /\ UNCHANGED <<readerVars, clientVars, adjust>>

ReaderOn(s) ==
  LET r == sweep[s].reader IN
  /\ r # NoReader /\ sweep[s].on
  /\ Resume(r)
  /\ sweep' = [sweep EXCEPT ![s] = Idle]
  /\ UNCHANGED <<life, offset, inFlight, ahead, clientVars, adjust>>

\* Mutant of Park: a read in flight does not keep the reader from being parked.
ParkAnyway(r) ==
  /\ isUse' = [isUse EXCEPT ![r] = FALSE]
  /\ ahead' = [ahead EXCEPT ![r] = FALSE]
  /\ pos' = [pos EXCEPT ![r] = IF offset[r] > 0 THEN 0 ELSE pos[r]]

\* Park the reader unless an I/O is in flight or it is parked already.
Park(r) ==
  IF inFlight[r] = 0 /\ isUse[r]
    THEN /\ isUse' = [isUse EXCEPT ![r] = FALSE]
         /\ ahead' = [ahead EXCEPT ![r] = FALSE]
         /\ pos' = [pos EXCEPT ![r] = IF offset[r] > 0 THEN 0 ELSE pos[r]]
    ELSE UNCHANGED <<isUse, ahead, pos>>

ReaderOff(s) ==
  LET r == sweep[s].reader IN
  /\ r # NoReader /\ ~sweep[s].on
  /\ Park(r)
  /\ sweep' = [sweep EXCEPT ![s] = Idle]
  /\ UNCHANGED <<life, offset, inFlight, clientVars, adjust>>

\* AdjustRA calls SetReadahead on every reader, once a second, without r.mu:
\* isUse is read first and the library's reader is told after.
AdjustRead(a, r) ==
  /\ adjust[a] = Idle /\ life[r] = "open"
  /\ adjust' = [adjust EXCEPT ![a] = [reader |-> r, on |-> isUse[r]]]
  /\ UNCHANGED <<readerVars, clientVars, sweep>>

\* Mutant of AheadSet: only r.readahead is written.
AheadSetForgotten(a) == ahead

\* SetReadahead: the library's reader is told if the reader was in use.
AheadSet(a) ==
  LET r == adjust[a].reader IN [ahead EXCEPT ![r] = @ \/ adjust[a].on]

AdjustSet(a) ==
  /\ adjust[a].reader # NoReader
  /\ ahead' = AheadSet(a)
  /\ adjust' = [adjust EXCEPT ![a] = Idle]
  /\ UNCHANGED <<life, offset, isUse, inFlight, pos, clientVars, sweep>>

-----------------------------------------------------------------------------
(* Seeking.                                                                *)

Proceed(c, l) == doing' = [doing EXCEPT ![c] = l]

\* Where a seek by n from whence arrives, starting at p.
Target(p, whence, n) ==
  CASE whence = "start" -> n
    [] whence = "current" -> p + n
    [] whence = "end" -> FileLen + n

\* The argument that takes a client at p to position t.
Argument(p, whence, t) ==
  CASE whence = "start" -> t
    [] whence = "current" -> t - p
    [] whence = "end" -> t - FileLen

\* Seek moves r.offset before it claims the reader.  A Pread client
\* is inside one call: it seeks, then reads.
Seek(c) ==
  LET r == ReaderOf[c] IN
  /\ doing[c] = "idle" /\ life[r] = "open"
  /\ \E whence \in Whence, t \in Positions :
       LET n == Argument(want[c], whence, t) IN
       /\ offset' = [offset EXCEPT ![r] = Target(@, whence, n)]
       /\ call' = [call EXCEPT ![c] = [whence |-> whence, n |-> n]]
       /\ want' = [want EXCEPT ![c] = t]
  /\ Proceed(c, "seek")
  /\ UNCHANGED <<life, isUse, inFlight, pos, ahead, sweep, adjust>>

SeekBegin(c) ==
  /\ doing[c] = "seek"
  /\ BeginIO(ReaderOf[c])
  /\ Proceed(c, "moving")
  /\ UNCHANGED <<life, offset, ahead, call, want, sweep, adjust>>

\* The library's Seek.
SeekMove(c) ==
  LET r == ReaderOf[c] IN
  /\ doing[c] = "moving"
  /\ pos' = [pos EXCEPT ![r] = Target(@, call[c].whence, call[c].n)]
  /\ call' = [call EXCEPT ![c].n = pos'[r]]
  /\ Proceed(c, "moved")
  /\ UNCHANGED <<life, offset, isUse, inFlight, ahead, want, sweep, adjust>>

SeekEnd(c) ==
  LET r == ReaderOf[c] IN
  /\ doing[c] = "moved"
  /\ offset' = [offset EXCEPT ![r] = call[c].n]
  /\ EndIO(r)
  /\ Proceed(c, IF c \in Pread THEN "sought" ELSE "idle")
  /\ UNCHANGED <<life, isUse, pos, ahead, call, want, sweep, adjust>>

-----------------------------------------------------------------------------
(* Reading.                                                                *)

Read(c) ==
  LET r == ReaderOf[c] IN
  /\ doing[c] = (IF c \in Pread THEN "sought" ELSE "idle") /\ life[r] = "open"
  /\ BeginIO(r)
  /\ Proceed(c, "begun")
  /\ UNCHANGED <<life, offset, ahead, call, want, sweep, adjust>>

\* A read of a closed reader returns at once.
ReadClosed(c) ==
  /\ doing[c] = "sought" /\ life[ReaderOf[c]] = "closed"
  /\ Proceed(c, "idle")
  /\ UNCHANGED <<readerVars, call, want, sweep, adjust>>

\* The library's reader takes its position and waits for the data there.
ReadStart(c) ==
  /\ doing[c] = "begun"
  /\ call' = [call EXCEPT ![c].n = pos[ReaderOf[c]]]
  /\ Proceed(c, "reading")
  /\ UNCHANGED <<readerVars, want, sweep, adjust>>

\* It returns some bytes, none at the end of the file or of a closed reader,
\* and advances its position, wherever that is by then.
ReadReturn(c) ==
  LET r == ReaderOf[c] IN
  /\ doing[c] = "reading"
  /\ \E n \in 0 .. FileLen :
       /\ n > 0 => call[c].n + n <= FileLen
       /\ pos' = [pos EXCEPT ![r] = @ + n]
       /\ call' = [call EXCEPT ![c].n = n]
       /\ want' = [want EXCEPT ![c] = @ + n]
  /\ Proceed(c, "read")
  /\ UNCHANGED <<life, offset, isUse, inFlight, ahead, sweep, adjust>>

\* Mutant of Advanced: the position is not kept up to date.
AdvancedNot(c) == offset

\* r.offset += n.
Advanced(c) == [offset EXCEPT ![ReaderOf[c]] = @ + call[c].n]

ReadEnd(c) ==
  /\ doing[c] = "read"
  /\ offset' = Advanced(c)
  /\ EndIO(ReaderOf[c])
  /\ Proceed(c, "idle")
  /\ UNCHANGED <<life, isUse, pos, ahead, call, want, sweep, adjust>>

-----------------------------------------------------------------------------
ReaderNext ==
  \/ \E r \in Reader : NewReader(r) \/ CacheCloseReader(r)
  \/ \E s \in Sweeper : ReaderOn(s) \/ ReaderOff(s)
  \/ \E s \in Sweeper, r \in Reader : CheckReader(s, r)
  \/ \E a \in Adjuster : AdjustSet(a)
  \/ \E a \in Adjuster, r \in Reader : AdjustRead(a, r)
  \/ \E c \in Client :
       \/ Seek(c) \/ SeekBegin(c) \/ SeekMove(c) \/ SeekEnd(c)
       \/ Read(c) \/ ReadClosed(c) \/ ReadStart(c) \/ ReadReturn(c) \/ ReadEnd(c)

ReaderSpec == ReaderInit /\ [][ReaderNext]_cacheVars

\* AdjustRA runs every second on every reader; the lists a sweep or an
\* AdjustRA walks are finite, so a goroutine inside one goes on.
ReaderFairSpec ==
  /\ ReaderSpec
  /\ \A a \in Adjuster : WF_cacheVars(AdjustSet(a))
  /\ \A a \in Adjuster, r \in Reader : SF_cacheVars(AdjustRead(a, r))

-----------------------------------------------------------------------------
(* Properties.                                                             *)

\* Whatever the sweeps do in between, the data a client reads is the data at the
\* position its own seeks and reads amount to: parking, resuming at r.offset
\* and the unlocked write of r.offset never shift a stream.
ReadsWhereAsked ==
  \A c \in Client : doing[c] = "reading" => call[c].n = want[c]

\* Nothing moves the library's reader while it serves a read: it adds
\* the bytes it returns to the position it has by then, so the stream would go on
\* from somewhere else.  TestReaderOffDoesNotParkAReaderWithIOInFlight
\* is about the sweep doing this.
ReadIsNotMoved ==
  \A c \in Client : doing[c] = "reading" => pos[ReaderOf[c]] = call[c].n

\* A parked reader remembers where its stream was, across the sweeps that
\* find it parked already or close to it: the position it will resume from is the
\* one its client has reached.
ParkedRemembers ==
  \A c \in Client :
    doing[c] = "idle" /\ ~isUse[ReaderOf[c]] => offset[ReaderOf[c]] = want[c]

\* resume does not give the library's reader its readahead back, so a
\* resumed reader downloads only what it is reading; the next AdjustRA repairs it:
\* a reader that stays in use does get to read ahead.
ReadaheadRestored ==
  \A r \in Reader :
    <>[](life[r] = "open" /\ isUse[r]) => []<>(ahead[r])
=============================================================================
