--------------------------- MODULE TrackersCache ---------------------------
(***************************************************************************)
(* The cached list of default trackers (torr/utils/torrent.go).            *)
(*                                                                         *)
(* The list is fetched in the background from URLs and merged with the     *)
(* trackers of the settings.  A change of the settings invalidates it:     *)
(* InvalidateTrackersCache forgets the list, opens a new generation and    *)
(* starts a fetch for it; a fetch stores its result only if its generation *)
(* is still current.  A loop refreshes the list now and then.  trackersMu  *)
(* guards the list, prefetchMu the generation a fetch was last started     *)
(* for; the generation itself is an atomic counter under no lock.          *)
(*                                                                         *)
(* The settings are abstracted to a version number.  A list is known by    *)
(* the version its URLs and its local part were read from.  The chain of   *)
(* URLs is never empty outside the tests.                                  *)
(***************************************************************************)
EXTENDS Integers

CONSTANTS
  Proc,        \* goroutines
  None,        \* nil
  MaxVersion   \* bound: how often the settings change

\* A fetch, and the list it yields: the generation it belongs to, the version of
\* the settings when that generation was opened (history), and the versions
\* its URLs and its local trackers were read from, and whether the refresh loop
\* does it (history).
Fetch == [gen : Nat, since : Nat, urls : Nat, local : Nat, refreshed : BOOLEAN]
NoFetch == [gen |-> 0, since |-> 0, urls |-> 0, local |-> 0, refreshed |-> FALSE]

ASSUME TrackersAssumption ==
  /\ MaxVersion \in Nat
  /\ None \notin Nat \cup Proc \cup Fetch

VARIABLES
  version,     \* version of settings.BTsets
  loaded,      \* loadedTrackers
  gen,         \* trackersFetchGen
  opened,      \* the version of the settings when gen was opened (history)
  started,     \* prefetchStartedGen, None before the first prefetch
  mu,          \* the goroutine that holds trackersMu to write, or None
  pc,          \* where each goroutine is
  job,         \* the fetch it is preparing or doing
  looping      \* is it the refresh loop, inside refreshTrackers?

procVars == <<pc, job, looping>>
vars == <<version, loaded, gen, opened, started, mu, procVars>>

PCs == {"idle", "clear", "bump", "load", "dedupe", "local", "urls", "fetch",
        "store", "write", "rgen", "rlocal"}

TypeOK ==
  /\ version \in Nat
  /\ loaded \in Fetch \cup {None}
  /\ gen \in Nat /\ opened \in Nat
  /\ started \in Nat \cup {None}
  /\ mu \in Proc \cup {None}
  /\ pc \in [Proc -> PCs]
  /\ job \in [Proc -> Fetch]
  /\ looping \in [Proc -> BOOLEAN]

Init ==
  /\ version = 0 /\ loaded = None /\ gen = 0 /\ opened = 0
  /\ started = None /\ mu = None
  /\ pc = [p \in Proc |-> "idle"]
  /\ job = [p \in Proc |-> NoFetch]
  /\ looping = [p \in Proc |-> FALSE]

Goto(p, l) == pc' = [pc EXCEPT ![p] = l]
Finish(p) ==
  /\ Goto(p, "idle")
  /\ job' = [job EXCEPT ![p] = NoFetch]
  /\ looping' = [looping EXCEPT ![p] = FALSE]

-----------------------------------------------------------------------------
(* Changing the settings.                                                  *)

\* SetSettings, SetDefSettings, SetDefTrackers: new settings, then
\* InvalidateTrackersCache.
ChangeSettings(p) ==
  /\ pc[p] = "idle" /\ version < MaxVersion
  /\ version' = version + 1
  /\ Goto(p, "clear")
  /\ UNCHANGED <<loaded, gen, opened, started, mu, job, looping>>

\* InvalidateTrackersCache, under trackersMu.
Clear(p) ==
  /\ pc[p] = "clear" /\ mu = None
  /\ loaded' = None
  /\ Goto(p, "bump")
  /\ UNCHANGED <<version, gen, opened, started, mu, job, looping>>

\* trackersFetchGen.Add(1).
NextGen == gen + 1

\* The atomic counter, under no lock.
Bump(p) ==
  /\ pc[p] = "bump"
  /\ gen' = NextGen
  /\ opened' = version
  /\ Goto(p, "load")
  /\ UNCHANGED <<version, loaded, started, mu, job, looping>>

-----------------------------------------------------------------------------
(* Starting a fetch.                                                       *)

\* PrefetchTrackers, at each Connect.
Prefetch(p) ==
  /\ pc[p] = "idle"
  /\ Goto(p, "load")
  /\ UNCHANGED <<version, loaded, gen, opened, started, mu, job, looping>>

Load(p) ==
  /\ pc[p] = "load"
  /\ job' = [job EXCEPT ![p] = [NoFetch EXCEPT !.gen = gen, !.since = opened]]
  /\ Goto(p, "dedupe")
  /\ UNCHANGED <<version, loaded, gen, opened, started, mu, looping>>

\* Mutant of AlreadyStarted: one prefetch is taken to serve all generations.
AlreadyStartedOnce(p) == started # None

AlreadyStarted(p) == started = job[p].gen

\* Under prefetchMu: a fetch was already started for this generation.
Deduplicated(p) ==
  /\ pc[p] = "dedupe" /\ AlreadyStarted(p)
  /\ Finish(p)
  /\ UNCHANGED <<version, loaded, gen, opened, started, mu>>

StartFetch(p) ==
  /\ pc[p] = "dedupe" /\ ~AlreadyStarted(p)
  /\ started' = job[p].gen
  /\ Goto(p, "local")
  /\ UNCHANGED <<version, loaded, gen, opened, mu, job, looping>>

\* configuredDefaultTrackers, then configuredTrackersListURLs.
ReadLocal(p) ==
  /\ pc[p] = "local"
  /\ job' = [job EXCEPT ![p].local = version]
  /\ Goto(p, "urls")
  /\ UNCHANGED <<version, loaded, gen, opened, started, mu, looping>>

\* The goroutine that fetches goes on as p; the one that started it is done.
ReadURLs(p) ==
  /\ pc[p] = "urls" /\ ~looping[p]
  /\ job' = [job EXCEPT ![p].urls = version]
  /\ Goto(p, "fetch")
  /\ UNCHANGED <<version, loaded, gen, opened, started, mu, looping>>

-----------------------------------------------------------------------------
(* The refresh loop: URLs, generation, local trackers, in this order.      *)

Refresh(p) ==
  /\ pc[p] = "idle" /\ \A q \in Proc : ~looping[q]
  /\ looping' = [looping EXCEPT ![p] = TRUE]
  /\ Goto(p, "urls")
  /\ UNCHANGED <<version, loaded, gen, opened, started, mu, job>>

RefreshURLs(p) ==
  /\ pc[p] = "urls" /\ looping[p]
  /\ job' = [job EXCEPT ![p] = [NoFetch EXCEPT !.urls = version, !.refreshed = TRUE]]
  /\ Goto(p, "rgen")
  /\ UNCHANGED <<version, loaded, gen, opened, started, mu, looping>>

RefreshGen(p) ==
  /\ pc[p] = "rgen"
  /\ job' = [job EXCEPT ![p].gen = gen, ![p].since = opened]
  /\ Goto(p, "rlocal")
  /\ UNCHANGED <<version, loaded, gen, opened, started, mu, looping>>

\* Mutant of RefreshLocal: the local trackers were read along with the URLs.
RefreshLocalEarly(p) ==
  /\ pc[p] = "rlocal"
  /\ job' = [job EXCEPT ![p].local = job[p].urls]
  /\ Goto(p, "fetch")
  /\ UNCHANGED <<version, loaded, gen, opened, started, mu, looping>>

RefreshLocal(p) ==
  /\ pc[p] = "rlocal"
  /\ job' = [job EXCEPT ![p].local = version]
  /\ Goto(p, "fetch")
  /\ UNCHANGED <<version, loaded, gen, opened, started, mu, looping>>

-----------------------------------------------------------------------------
(* The answer of the network.                                              *)

\* Mutant of Fetched: the generation is read once more with the answer at hand.
FetchedRereads(p) ==
  /\ pc[p] = "fetch"
  /\ job' = [job EXCEPT ![p].gen = gen, ![p].since = opened]
  /\ Goto(p, "store")
  /\ UNCHANGED <<version, loaded, gen, opened, started, mu, looping>>

\* Some URL answers; or all fail and a prefetch falls back on the local trackers
\* alone, which no later version of the URLs can make stale.
Fetched(p) ==
  /\ pc[p] = "fetch"
  /\ Goto(p, "store")
  /\ UNCHANGED <<version, loaded, gen, opened, started, mu, job, looping>>

\* All URLs fail: the refresh loop keeps the list.
RefreshFailed(p) ==
  /\ pc[p] = "fetch" /\ looping[p]
  /\ Finish(p)
  /\ UNCHANGED <<version, loaded, gen, opened, started, mu>>

\* Mutant of IsCurrent: the generation is not compared.
IsCurrentAlways(p) == TRUE

IsCurrent(p) == gen = job[p].gen

\* setLoadedTrackers, updateLoadedTrackersIfCurrent: the generation has passed.
Outdated(p) ==
  /\ pc[p] = "store" /\ ~IsCurrent(p)
  /\ Finish(p)
  /\ UNCHANGED <<version, loaded, gen, opened, started, mu>>

\* The generation is compared once more under trackersMu ...
StoreLock(p) ==
  /\ pc[p] = "store" /\ mu = None /\ IsCurrent(p)
  /\ mu' = p
  /\ Goto(p, "write")
  /\ UNCHANGED <<version, loaded, gen, opened, started, job, looping>>

\* ... and the list is stored, the generation may have passed since.
StoreWrite(p) ==
  /\ pc[p] = "write"
  /\ loaded' = job[p]
  /\ mu' = None
  /\ Finish(p)
  /\ UNCHANGED <<version, gen, opened, started>>

-----------------------------------------------------------------------------
Step(p) ==
  \/ Clear(p) \/ Bump(p)
  \/ Load(p) \/ Deduplicated(p) \/ StartFetch(p) \/ ReadLocal(p) \/ ReadURLs(p)
  \/ RefreshURLs(p) \/ RefreshGen(p) \/ RefreshLocal(p)
  \/ Fetched(p) \/ RefreshFailed(p)
  \/ Outdated(p) \/ StoreLock(p) \/ StoreWrite(p)

Next == \E p \in Proc :
  ChangeSettings(p) \/ Prefetch(p) \/ Refresh(p) \/ Step(p)

Spec == Init /\ [][Next]_vars

\* A goroutine goes on to the end of what it has begun: no lock is held across
\* the network, a request to it ends after five seconds at the latest, and
\* sync.RWMutex lets no writer starve (hence strong fairness).
FairSpec == Spec /\ \A p \in Proc : SF_vars(Step(p))

-----------------------------------------------------------------------------
(* Properties.                                                             *)

\* The local trackers in a cached list are never older than the settings its
\* generation was opened with, whether a prefetch or the refresh loop stored it.
LocalIsCurrent == loaded # None => loaded.local >= loaded.since

\* Nor are the URLs of its remote part, if a prefetch stored it.
RemoteIsCurrent == loaded # None /\ ~loaded.refreshed => loaded.urls >= loaded.since

\* A fetch that was overtaken never replaces the list of a later generation,
\* although the generation may pass between its last comparison and the write.
NeverGoesBack ==
  [][loaded # None /\ loaded' # None => loaded'.gen >= loaded.gen]_vars

\* Once the settings have changed for the last time, a list is cached in the end and stays
\* whose local part is that of these settings, and whose URLs are unless the refresh loop
\* stored it (startPrefetch drops no fetch but for one of the same generation).
EventuallyCurrent ==
  \A v \in 1 .. MaxVersion :
    <>[](version = v) =>
      <>[](loaded # None /\ loaded.local = v /\ (loaded.refreshed \/ loaded.urls = v))
=============================================================================
