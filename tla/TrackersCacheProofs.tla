------------------------- MODULE TrackersCacheProofs -------------------------
(***************************************************************************)
(* Proofs about the cached trackers, for any number of goroutines and any  *)
(* number of changes of the settings.                                      *)
(***************************************************************************)
EXTENDS TrackersCache, TLAPS

\* The generation a goroutine has captured is not ahead of the counter, nor is the
\* version it was opened with ahead of the settings.
Captured(p) == job[p].gen <= gen /\ job[p].since <= opened

\* What a fetch has read when it reaches the network: its local trackers after its
\* generation, and, outside the refresh loop, its URLs as well.
InOrder(p) ==
  /\ pc[p] \in {"fetch", "store", "write"} => job[p].local >= job[p].since
  /\ pc[p] = "urls" /\ ~looping[p] => job[p].local >= job[p].since
  /\ looping[p] /\ pc[p] \in {"rgen", "rlocal", "fetch", "store", "write"} => job[p].refreshed
  /\ pc[p] \in {"fetch", "store", "write"} /\ ~looping[p] =>
       job[p].urls >= job[p].since
  /\ pc[p] \in {"rgen", "rlocal"} => looping[p]

\* trackersMu is held by the goroutine that writes, whose generation was
\* current when it took it.
Locked(p) ==
  /\ pc[p] = "write" <=> mu = p
  /\ pc[p] = "write" /\ loaded # None => loaded.gen <= job[p].gen

Stored ==
  /\ opened <= version
  /\ loaded # None => loaded.gen <= gen /\ loaded.local >= loaded.since
  /\ loaded # None /\ ~loaded.refreshed => loaded.urls >= loaded.since

IInv == TypeOK /\ Stored /\ \A p \in Proc : Captured(p) /\ InOrder(p) /\ Locked(p)

-----------------------------------------------------------------------------
(* Every step keeps the invariant.                                         *)

LEMMA InitIInv == Init => IInv
<1> SUFFICES ASSUME Init PROVE IInv
  OBVIOUS
<1> USE TrackersAssumption
<1>1. TypeOK /\ Stored
  BY DEF Init, TypeOK, Stored, NoFetch, Fetch, PCs
<1>2. ASSUME NEW p \in Proc PROVE Captured(p) /\ InOrder(p) /\ Locked(p)
  BY DEF Init, Captured, InOrder, Locked, NoFetch
<1> QED
  BY <1>1, <1>2 DEF IInv

LEMMA StepIInv == IInv /\ [Next]_vars => IInv'
<1> SUFFICES ASSUME IInv, [Next]_vars PROVE IInv'
  OBVIOUS
<1> USE TrackersAssumption
<1>t. TypeOK /\ Stored
  BY DEF IInv
<1>i. \A q \in Proc : Captured(q) /\ InOrder(q) /\ Locked(q)
  BY DEF IInv
<1>1. ASSUME NEW p \in Proc, ChangeSettings(p) PROVE IInv'
  <2>1. TypeOK'
    BY <1>t, <1>1 DEF TypeOK, Fetch, PCs, ChangeSettings, Goto
  <2>2. Stored'
    BY <1>t, <1>i, <1>1 DEF TypeOK, Stored, Captured, InOrder, Locked, Fetch, ChangeSettings, Goto
  <2>3. ASSUME NEW q \in Proc PROVE Captured(q)'
    BY <1>t, <1>i, <1>1 DEF TypeOK, Stored, Captured, Fetch, ChangeSettings, Goto
  <2>4. ASSUME NEW q \in Proc PROVE InOrder(q)'
    BY <1>t, <1>i, <1>1 DEF TypeOK, Stored, Captured, InOrder, Fetch, ChangeSettings, Goto
  <2>5. ASSUME NEW q \in Proc PROVE Locked(q)'
    BY <1>t, <1>i, <1>1 DEF TypeOK, Stored, Locked, Fetch, ChangeSettings, Goto
  <2> QED
    BY <2>1, <2>2, <2>3, <2>4, <2>5 DEF IInv
<1>2. ASSUME NEW p \in Proc, Prefetch(p) PROVE IInv'
  <2>1. TypeOK'
    BY <1>t, <1>2 DEF TypeOK, Fetch, PCs, Prefetch, Goto
  <2>2. Stored'
    BY <1>t, <1>i, <1>2 DEF TypeOK, Stored, Captured, InOrder, Locked, Fetch, Prefetch, Goto
  <2>3. ASSUME NEW q \in Proc PROVE Captured(q)'
    BY <1>t, <1>i, <1>2 DEF TypeOK, Stored, Captured, Fetch, Prefetch, Goto
  <2>4. ASSUME NEW q \in Proc PROVE InOrder(q)'
    BY <1>t, <1>i, <1>2 DEF TypeOK, Stored, Captured, InOrder, Fetch, Prefetch, Goto
  <2>5. ASSUME NEW q \in Proc PROVE Locked(q)'
    BY <1>t, <1>i, <1>2 DEF TypeOK, Stored, Locked, Fetch, Prefetch, Goto
  <2> QED
    BY <2>1, <2>2, <2>3, <2>4, <2>5 DEF IInv
<1>3. ASSUME NEW p \in Proc, Refresh(p) PROVE IInv'
  <2>1. TypeOK'
    BY <1>t, <1>3 DEF TypeOK, Fetch, PCs, Refresh, Goto
  <2>2. Stored'
    BY <1>t, <1>i, <1>3 DEF TypeOK, Stored, Captured, InOrder, Locked, Fetch, Refresh, Goto
  <2>3. ASSUME NEW q \in Proc PROVE Captured(q)'
    BY <1>t, <1>i, <1>3 DEF TypeOK, Stored, Captured, Fetch, Refresh, Goto
  <2>4. ASSUME NEW q \in Proc PROVE InOrder(q)'
    BY <1>t, <1>i, <1>3 DEF TypeOK, Stored, Captured, InOrder, Fetch, Refresh, Goto
  <2>5. ASSUME NEW q \in Proc PROVE Locked(q)'
    BY <1>t, <1>i, <1>3 DEF TypeOK, Stored, Locked, Fetch, Refresh, Goto
  <2> QED
    BY <2>1, <2>2, <2>3, <2>4, <2>5 DEF IInv
<1>4. ASSUME NEW p \in Proc, Clear(p) PROVE IInv'
  <2>1. TypeOK'
    BY <1>t, <1>4 DEF TypeOK, Fetch, PCs, Clear, Goto
  <2>2. Stored'
    BY <1>t, <1>i, <1>4 DEF TypeOK, Stored, Captured, InOrder, Locked, Fetch, Clear, Goto
  <2>3. ASSUME NEW q \in Proc PROVE Captured(q)'
    BY <1>t, <1>i, <1>4 DEF TypeOK, Stored, Captured, Fetch, Clear, Goto
  <2>4. ASSUME NEW q \in Proc PROVE InOrder(q)'
    BY <1>t, <1>i, <1>4 DEF TypeOK, Stored, Captured, InOrder, Fetch, Clear, Goto
  <2>5. ASSUME NEW q \in Proc PROVE Locked(q)'
    BY <1>t, <1>i, <1>4 DEF TypeOK, Stored, Locked, Fetch, Clear, Goto
  <2> QED
    BY <2>1, <2>2, <2>3, <2>4, <2>5 DEF IInv
<1>5. ASSUME NEW p \in Proc, Bump(p) PROVE IInv'
  <2>1. TypeOK'
    BY <1>t, <1>5 DEF TypeOK, Fetch, PCs, Bump, NextGen, Goto
  <2>2. Stored'
    BY <1>t, <1>i, <1>5 DEF TypeOK, Stored, Captured, InOrder, Locked, Fetch, Bump, NextGen, Goto
  <2>3. ASSUME NEW q \in Proc PROVE Captured(q)'
    BY <1>t, <1>i, <1>5 DEF TypeOK, Stored, Captured, Fetch, Bump, NextGen, Goto
  <2>4. ASSUME NEW q \in Proc PROVE InOrder(q)'
    BY <1>t, <1>i, <1>5 DEF TypeOK, Stored, Captured, InOrder, Fetch, Bump, NextGen, Goto
  <2>5. ASSUME NEW q \in Proc PROVE Locked(q)'
    BY <1>t, <1>i, <1>5 DEF TypeOK, Stored, Locked, Fetch, Bump, NextGen, Goto
  <2> QED
    BY <2>1, <2>2, <2>3, <2>4, <2>5 DEF IInv
<1>6. ASSUME NEW p \in Proc, Load(p) PROVE IInv'
  <2>1. TypeOK'
    BY <1>t, <1>6 DEF TypeOK, Fetch, PCs, Load, NoFetch, Goto
  <2>2. Stored'
    BY <1>t, <1>i, <1>6 DEF TypeOK, Stored, Captured, InOrder, Locked, Fetch, Load, NoFetch, Goto
  <2>3. ASSUME NEW q \in Proc PROVE Captured(q)'
    BY <1>t, <1>i, <1>6 DEF TypeOK, Stored, Captured, Fetch, Load, NoFetch, Goto
  <2>4. ASSUME NEW q \in Proc PROVE InOrder(q)'
    BY <1>t, <1>i, <1>6 DEF TypeOK, Stored, Captured, InOrder, Fetch, Load, NoFetch, Goto
  <2>5. ASSUME NEW q \in Proc PROVE Locked(q)'
    BY <1>t, <1>i, <1>6 DEF TypeOK, Stored, Locked, Fetch, Load, NoFetch, Goto
  <2> QED
    BY <2>1, <2>2, <2>3, <2>4, <2>5 DEF IInv
<1>7. ASSUME NEW p \in Proc, Deduplicated(p) PROVE IInv'
  <2>1. TypeOK'
    BY <1>t, <1>7 DEF TypeOK, Fetch, PCs, Deduplicated, Finish, NoFetch, Goto
  <2>2. Stored'
    BY <1>t, <1>i, <1>7 DEF TypeOK, Stored, Captured, InOrder, Locked, Fetch, Deduplicated, Finish, NoFetch, Goto
  <2>3. ASSUME NEW q \in Proc PROVE Captured(q)'
    BY <1>t, <1>i, <1>7 DEF TypeOK, Stored, Captured, Fetch, Deduplicated, Finish, NoFetch, Goto
  <2>4. ASSUME NEW q \in Proc PROVE InOrder(q)'
    BY <1>t, <1>i, <1>7 DEF TypeOK, Stored, Captured, InOrder, Fetch, Deduplicated, Finish, NoFetch, Goto
  <2>5. ASSUME NEW q \in Proc PROVE Locked(q)'
    BY <1>t, <1>i, <1>7 DEF TypeOK, Stored, Locked, Fetch, Deduplicated, Finish, NoFetch, Goto
  <2> QED
    BY <2>1, <2>2, <2>3, <2>4, <2>5 DEF IInv
<1>8. ASSUME NEW p \in Proc, StartFetch(p) PROVE IInv'
  <2>1. TypeOK'
    BY <1>t, <1>8 DEF TypeOK, Fetch, PCs, StartFetch, Goto
  <2>2. Stored'
    BY <1>t, <1>i, <1>8 DEF TypeOK, Stored, Captured, InOrder, Locked, Fetch, StartFetch, Goto
  <2>3. ASSUME NEW q \in Proc PROVE Captured(q)'
    BY <1>t, <1>i, <1>8 DEF TypeOK, Stored, Captured, Fetch, StartFetch, Goto
  <2>4. ASSUME NEW q \in Proc PROVE InOrder(q)'
    BY <1>t, <1>i, <1>8 DEF TypeOK, Stored, Captured, InOrder, Fetch, StartFetch, Goto
  <2>5. ASSUME NEW q \in Proc PROVE Locked(q)'
    BY <1>t, <1>i, <1>8 DEF TypeOK, Stored, Locked, Fetch, StartFetch, Goto
  <2> QED
    BY <2>1, <2>2, <2>3, <2>4, <2>5 DEF IInv
<1>9. ASSUME NEW p \in Proc, ReadLocal(p) PROVE IInv'
  <2>1. TypeOK'
    BY <1>t, <1>9 DEF TypeOK, Fetch, PCs, ReadLocal, Goto
  <2>2. Stored'
    BY <1>t, <1>i, <1>9 DEF TypeOK, Stored, Captured, InOrder, Locked, Fetch, ReadLocal, Goto
  <2>3. ASSUME NEW q \in Proc PROVE Captured(q)'
    BY <1>t, <1>i, <1>9 DEF TypeOK, Stored, Captured, Fetch, ReadLocal, Goto
  <2>4. ASSUME NEW q \in Proc PROVE InOrder(q)'
    BY <1>t, <1>i, <1>9 DEF TypeOK, Stored, Captured, InOrder, Fetch, ReadLocal, Goto
  <2>5. ASSUME NEW q \in Proc PROVE Locked(q)'
    BY <1>t, <1>i, <1>9 DEF TypeOK, Stored, Locked, Fetch, ReadLocal, Goto
  <2> QED
    BY <2>1, <2>2, <2>3, <2>4, <2>5 DEF IInv
<1>10. ASSUME NEW p \in Proc, ReadURLs(p) PROVE IInv'
  <2>1. TypeOK'
    BY <1>t, <1>10 DEF TypeOK, Fetch, PCs, ReadURLs, Goto
  <2>2. Stored'
    BY <1>t, <1>i, <1>10 DEF TypeOK, Stored, Captured, InOrder, Locked, Fetch, ReadURLs, Goto
  <2>3. ASSUME NEW q \in Proc PROVE Captured(q)'
    BY <1>t, <1>i, <1>10 DEF TypeOK, Stored, Captured, Fetch, ReadURLs, Goto
  <2>4. ASSUME NEW q \in Proc PROVE InOrder(q)'
    BY <1>t, <1>i, <1>10 DEF TypeOK, Stored, Captured, InOrder, Fetch, ReadURLs, Goto
  <2>5. ASSUME NEW q \in Proc PROVE Locked(q)'
    BY <1>t, <1>i, <1>10 DEF TypeOK, Stored, Locked, Fetch, ReadURLs, Goto
  <2> QED
    BY <2>1, <2>2, <2>3, <2>4, <2>5 DEF IInv
<1>11. ASSUME NEW p \in Proc, RefreshURLs(p) PROVE IInv'
  <2>1. TypeOK'
    BY <1>t, <1>11 DEF TypeOK, Fetch, PCs, RefreshURLs, NoFetch, Goto
  <2>2. Stored'
    BY <1>t, <1>i, <1>11 DEF TypeOK, Stored, Captured, InOrder, Locked, Fetch, RefreshURLs, NoFetch, Goto
  <2>3. ASSUME NEW q \in Proc PROVE Captured(q)'
    BY <1>t, <1>i, <1>11 DEF TypeOK, Stored, Captured, Fetch, RefreshURLs, NoFetch, Goto
  <2>4. ASSUME NEW q \in Proc PROVE InOrder(q)'
    BY <1>t, <1>i, <1>11 DEF TypeOK, Stored, Captured, InOrder, Fetch, RefreshURLs, NoFetch, Goto
  <2>5. ASSUME NEW q \in Proc PROVE Locked(q)'
    BY <1>t, <1>i, <1>11 DEF TypeOK, Stored, Locked, Fetch, RefreshURLs, NoFetch, Goto
  <2> QED
    BY <2>1, <2>2, <2>3, <2>4, <2>5 DEF IInv
<1>12. ASSUME NEW p \in Proc, RefreshGen(p) PROVE IInv'
  <2>1. TypeOK'
    BY <1>t, <1>12 DEF TypeOK, Fetch, PCs, RefreshGen, Goto
  <2>2. Stored'
    BY <1>t, <1>i, <1>12 DEF TypeOK, Stored, Captured, InOrder, Locked, Fetch, RefreshGen, Goto
  <2>3. ASSUME NEW q \in Proc PROVE Captured(q)'
    BY <1>t, <1>i, <1>12 DEF TypeOK, Stored, Captured, Fetch, RefreshGen, Goto
  <2>4. ASSUME NEW q \in Proc PROVE InOrder(q)'
    BY <1>t, <1>i, <1>12 DEF TypeOK, Stored, Captured, InOrder, Fetch, RefreshGen, Goto
  <2>5. ASSUME NEW q \in Proc PROVE Locked(q)'
    BY <1>t, <1>i, <1>12 DEF TypeOK, Stored, Locked, Fetch, RefreshGen, Goto
  <2> QED
    BY <2>1, <2>2, <2>3, <2>4, <2>5 DEF IInv
<1>13. ASSUME NEW p \in Proc, RefreshLocal(p) PROVE IInv'
  <2>1. TypeOK'
    BY <1>t, <1>13 DEF TypeOK, Fetch, PCs, RefreshLocal, Goto
  <2>2. Stored'
    BY <1>t, <1>i, <1>13 DEF TypeOK, Stored, Captured, InOrder, Locked, Fetch, RefreshLocal, Goto
  <2>3. ASSUME NEW q \in Proc PROVE Captured(q)'
    BY <1>t, <1>i, <1>13 DEF TypeOK, Stored, Captured, Fetch, RefreshLocal, Goto
  <2>4. ASSUME NEW q \in Proc PROVE InOrder(q)'
    BY <1>t, <1>i, <1>13 DEF TypeOK, Stored, Captured, InOrder, Fetch, RefreshLocal, Goto
  <2>5. ASSUME NEW q \in Proc PROVE Locked(q)'
    BY <1>t, <1>i, <1>13 DEF TypeOK, Stored, Locked, Fetch, RefreshLocal, Goto
  <2> QED
    BY <2>1, <2>2, <2>3, <2>4, <2>5 DEF IInv
<1>14. ASSUME NEW p \in Proc, Fetched(p) PROVE IInv'
  <2>1. TypeOK'
    BY <1>t, <1>14 DEF TypeOK, Fetch, PCs, Fetched, Goto
  <2>2. Stored'
    BY <1>t, <1>i, <1>14 DEF TypeOK, Stored, Captured, InOrder, Locked, Fetch, Fetched, Goto
  <2>3. ASSUME NEW q \in Proc PROVE Captured(q)'
    BY <1>t, <1>i, <1>14 DEF TypeOK, Stored, Captured, Fetch, Fetched, Goto
  <2>4. ASSUME NEW q \in Proc PROVE InOrder(q)'
    BY <1>t, <1>i, <1>14 DEF TypeOK, Stored, Captured, InOrder, Fetch, Fetched, Goto
  <2>5. ASSUME NEW q \in Proc PROVE Locked(q)'
    BY <1>t, <1>i, <1>14 DEF TypeOK, Stored, Locked, Fetch, Fetched, Goto
  <2> QED
    BY <2>1, <2>2, <2>3, <2>4, <2>5 DEF IInv
<1>15. ASSUME NEW p \in Proc, RefreshFailed(p) PROVE IInv'
  <2>1. TypeOK'
    BY <1>t, <1>15 DEF TypeOK, Fetch, PCs, RefreshFailed, Finish, NoFetch, Goto
  <2>2. Stored'
    BY <1>t, <1>i, <1>15 DEF TypeOK, Stored, Captured, InOrder, Locked, Fetch, RefreshFailed, Finish, NoFetch, Goto
  <2>3. ASSUME NEW q \in Proc PROVE Captured(q)'
    BY <1>t, <1>i, <1>15 DEF TypeOK, Stored, Captured, Fetch, RefreshFailed, Finish, NoFetch, Goto
  <2>4. ASSUME NEW q \in Proc PROVE InOrder(q)'
    BY <1>t, <1>i, <1>15 DEF TypeOK, Stored, Captured, InOrder, Fetch, RefreshFailed, Finish, NoFetch, Goto
  <2>5. ASSUME NEW q \in Proc PROVE Locked(q)'
    BY <1>t, <1>i, <1>15 DEF TypeOK, Stored, Locked, Fetch, RefreshFailed, Finish, NoFetch, Goto
  <2> QED
    BY <2>1, <2>2, <2>3, <2>4, <2>5 DEF IInv
<1>16. ASSUME NEW p \in Proc, Outdated(p) PROVE IInv'
  <2>1. TypeOK'
    BY <1>t, <1>16 DEF TypeOK, Fetch, PCs, Outdated, Finish, NoFetch, Goto
  <2>2. Stored'
    BY <1>t, <1>i, <1>16 DEF TypeOK, Stored, Captured, InOrder, Locked, Fetch, Outdated, Finish, NoFetch, Goto
  <2>3. ASSUME NEW q \in Proc PROVE Captured(q)'
    BY <1>t, <1>i, <1>16 DEF TypeOK, Stored, Captured, Fetch, Outdated, Finish, NoFetch, Goto
  <2>4. ASSUME NEW q \in Proc PROVE InOrder(q)'
    BY <1>t, <1>i, <1>16 DEF TypeOK, Stored, Captured, InOrder, Fetch, Outdated, Finish, NoFetch, Goto
  <2>5. ASSUME NEW q \in Proc PROVE Locked(q)'
    BY <1>t, <1>i, <1>16 DEF TypeOK, Stored, Locked, Fetch, Outdated, Finish, NoFetch, Goto
  <2> QED
    BY <2>1, <2>2, <2>3, <2>4, <2>5 DEF IInv
<1>17. ASSUME NEW p \in Proc, StoreLock(p) PROVE IInv'
  <2>1. TypeOK'
    BY <1>t, <1>17 DEF TypeOK, Fetch, PCs, StoreLock, IsCurrent, Goto
  <2>2. Stored'
    BY <1>t, <1>i, <1>17 DEF TypeOK, Stored, Captured, InOrder, Locked, Fetch, StoreLock, IsCurrent, Goto
  <2>3. ASSUME NEW q \in Proc PROVE Captured(q)'
    BY <1>t, <1>i, <1>17 DEF TypeOK, Stored, Captured, Fetch, StoreLock, IsCurrent, Goto
  <2>4. ASSUME NEW q \in Proc PROVE InOrder(q)'
    BY <1>t, <1>i, <1>17 DEF TypeOK, Stored, Captured, InOrder, Fetch, StoreLock, IsCurrent, Goto
  <2>5. ASSUME NEW q \in Proc PROVE Locked(q)'
    BY <1>t, <1>i, <1>17 DEF TypeOK, Stored, Locked, Fetch, StoreLock, IsCurrent, Goto
  <2> QED
    BY <2>1, <2>2, <2>3, <2>4, <2>5 DEF IInv
<1>18. ASSUME NEW p \in Proc, StoreWrite(p) PROVE IInv'
  <2>1. TypeOK'
    BY <1>t, <1>18 DEF TypeOK, Fetch, PCs, StoreWrite, Finish, NoFetch, Goto
  <2>2. Stored'
    BY <1>t, <1>i, <1>18 DEF TypeOK, Stored, Captured, InOrder, Locked, Fetch, StoreWrite, Finish, NoFetch, Goto
  <2>3. ASSUME NEW q \in Proc PROVE Captured(q)'
    BY <1>t, <1>i, <1>18 DEF TypeOK, Stored, Captured, Fetch, StoreWrite, Finish, NoFetch, Goto
  <2>4. ASSUME NEW q \in Proc PROVE InOrder(q)'
    BY <1>t, <1>i, <1>18 DEF TypeOK, Stored, Captured, InOrder, Fetch, StoreWrite, Finish, NoFetch, Goto
  <2>5. ASSUME NEW q \in Proc PROVE Locked(q)'
    BY <1>t, <1>i, <1>18 DEF TypeOK, Stored, Locked, Fetch, StoreWrite, Finish, NoFetch, Goto
  <2> QED
    BY <2>1, <2>2, <2>3, <2>4, <2>5 DEF IInv
<1>19. CASE UNCHANGED vars
  BY <1>19, <1>t, <1>i
     DEF IInv, TypeOK, Stored, Captured, InOrder, Locked, vars, procVars
<1> QED
  BY <1>1, <1>2, <1>3, <1>4, <1>5, <1>6, <1>7, <1>8, <1>9, <1>10, <1>11, <1>12, <1>13, <1>14, <1>15, <1>16, <1>17, <1>18, <1>19 DEF Next, Step

LEMMA CacheIInv == Spec => []IInv
BY InitIInv, StepIInv, PTL DEF Spec

-----------------------------------------------------------------------------
(* What it gives.                                                          *)

\* Whoever stored it, the local part of a cached list is at least as new as the
\* settings its generation was opened with (startPrefetch, refreshTrackers).
THEOREM LocalTrackersAreCurrent == Spec => []LocalIsCurrent
<1>1. IInv => LocalIsCurrent
  BY DEF IInv, Stored, LocalIsCurrent
<1> QED
  BY CacheIInv, <1>1, PTL

\* The same is true of its remote part, unless the refresh loop stored it.
THEOREM RemoteTrackersAreCurrent == Spec => []RemoteIsCurrent
<1>1. IInv => RemoteIsCurrent
  BY DEF IInv, Stored, RemoteIsCurrent
<1> QED
  BY CacheIInv, <1>1, PTL

\* A fetch that was overtaken never replaces the list of a later generation
\* (setLoadedTrackers, updateLoadedTrackersIfCurrent).
THEOREM ListNeverGoesBack == Spec => NeverGoesBack
<1>1. IInv /\ [Next]_vars => [loaded # None /\ loaded' # None => loaded'.gen >= loaded.gen]_vars
  <2> SUFFICES ASSUME IInv, Next, loaded # None, loaded' # None
               PROVE  loaded'.gen >= loaded.gen
    OBVIOUS
  <2> USE TrackersAssumption
  <2>1. CASE UNCHANGED loaded
    BY <2>1 DEF IInv, TypeOK, Fetch
  <2>2. ASSUME NEW p \in Proc, StoreWrite(p) PROVE loaded'.gen >= loaded.gen
    BY <2>2 DEF IInv, TypeOK, Fetch, Locked, StoreWrite
  <2>3. ASSUME NEW p \in Proc, Clear(p) PROVE FALSE
    BY <2>3 DEF Clear
  <2> QED
    BY <2>1, <2>2, <2>3 DEF Next, Step, ChangeSettings, Prefetch, Refresh, Bump, Load, Deduplicated, StartFetch, ReadLocal, ReadURLs, RefreshURLs, RefreshGen, RefreshLocal, Fetched, RefreshFailed, Outdated, StoreLock
<1> QED
  BY CacheIInv, <1>1, PTL DEF Spec, NeverGoesBack
=============================================================================
