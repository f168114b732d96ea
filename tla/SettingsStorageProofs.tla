------------------------ MODULE SettingsStorageProofs ------------------------
(***************************************************************************)
(* Proofs about the migrations, for any torrents, files and settings, any   *)
(* number of switches, restarts, crashes and failed writes.                 *)
(***************************************************************************)
EXTENDS SettingsStorage, FiniteSetTheorems, TLAPS

\* The copy safeMigrate is about to rely on is there.
Copied == pc = "bootRem" => conf[route.sets] # None

\* Names MigrateAll has passed and the target has.
Passed == (Names(Other(target)) \cap Names(target)) \ names

\* migratedCount counts no name that is missing in the target.
Counted == pc \in {"bootRem", "bootViewed"} => migrated <= Cardinality(Passed)

IInv == TypeOK /\ Copied /\ Counted /\ SettingsStored

LEMMA OtherDB == \A d \in DB : Other(d) \in DB /\ Other(d) # d /\ Other(Other(d)) = d
BY DEF DB, Other

LEMMA PassedFinite == IsFiniteSet(Passed) /\ Cardinality(Passed) \in Nat
<1>1. Passed \subseteq Hash
  BY DEF Passed, Names
<1> QED
  BY <1>1, FS_Subset, FS_CardinalityType, FiniteAssumption

\* Copying a name adds it to those passed.
LEMMA PassedGrows ==
  ASSUME NEW h \in names, names \subseteq Hash, names' = names \ {h}, target' = target,
         target \in DB,
         \/ seen' = seen
         \/ /\ seen[target][h] = None
            /\ seen[Other(target)][h] # None
            /\ seen \in [DB -> [Hash -> {None} \cup Viewed]]
            /\ seen' = [seen EXCEPT ![target][h] = seen[Other(target)][h]]
  PROVE  /\ Cardinality(Passed') >= Cardinality(Passed)
         /\ seen' # seen => Cardinality(Passed') >= Cardinality(Passed) + 1
<1> USE OtherDB
<1>0. Passed \subseteq Passed' /\ Passed' \subseteq Hash /\ h \notin Passed
  BY DEF Passed, Names
<1>f. IsFiniteSet(Passed') /\ IsFiniteSet(Passed)
  BY <1>0, FS_Subset, FiniteAssumption
<1>1. CASE seen' = seen
  BY <1>0, <1>1, <1>f, FS_Subset, FS_CardinalityType
<1>2. CASE /\ seen[target][h] = None
           /\ seen[Other(target)][h] # None
           /\ seen \in [DB -> [Hash -> {None} \cup Viewed]]
           /\ seen' = [seen EXCEPT ![target][h] = seen[Other(target)][h]]
  <2>1. seen'[target][h] # None /\ seen'[Other(target)] = seen[Other(target)]
    BY <1>2
  <2>2. h \in Passed'
    BY <1>2, <2>1 DEF Passed, Names
  <2>3. Passed \cup {h} \in SUBSET Passed'
    BY <1>0, <2>2
  <2>4. Cardinality(Passed \cup {h}) = Cardinality(Passed) + 1
    BY <1>0, <1>f, FS_AddElement
  <2> QED
    BY <2>3, <2>4, <1>f, FS_Subset, FS_CardinalityType, FS_AddElement
<1> QED
  BY <1>1, <1>2

-----------------------------------------------------------------------------
(* Every step keeps the invariant.                                          *)

LEMMA InitIInv == Init => IInv
<1> SUFFICES ASSUME Init PROVE IInv
  OBVIOUS
<1>1. DefaultConfig \in BTSets
  BY ValAssumption DEF DefaultConfig, BTSets, DB
<1>2. route \in [sets : DB, seen : DB] /\ target \in DB /\ pc \in PCs
  BY DEF Init, DB, PCs
<1>3. TypeOK
  BY <1>1, <1>2 DEF Init, TypeOK
<1> QED
  BY <1>3 DEF Init, IInv, Copied, Counted, SettingsStored

\* What SetBTSets does to the settings.
LEMMA SetBTSetsTyped ==
  ASSUME TypeOK, NEW s \in BTSets, SetBTSets(s)
  PROVE  /\ conf' \in [DB -> {None} \cup BTSets] /\ BTsets' \in BTSets
         /\ \E d \in DB : conf'[d] # None
<1>1. route.sets \in DB
  BY DEF TypeOK
<1>2. conf' = [conf EXCEPT ![route.sets] = s] /\ s # None
  BY NoneAssumption DEF SetBTSets
<1>3. conf'[route.sets] # None
  BY <1>1, <1>2 DEF TypeOK
<1> QED
  BY <1>1, <1>2, <1>3 DEF TypeOK, SetBTSets

\* What MigrateSingle does to the settings.
LEMMA MigrateSingleTyped ==
  ASSUME TypeOK, NEW d \in DB, NEW yes, NEW no, MigrateSingle(d, yes, no)
  PROVE  /\ conf' \in [DB -> {None} \cup BTSets]
         /\ pc' \in {yes, no}
         /\ \A e \in DB : conf[e] # None => conf'[e] # None
         /\ pc' # no => conf'[d] # None
         /\ leftover' \in BOOLEAN /\ forked' \in BOOLEAN
BY OtherDB DEF TypeOK, MigrateSingle, Migrates, Writes, Verified

LEMMA StepIInv == IInv /\ [Next]_vars => IInv'
<1> SUFFICES ASSUME IInv, [Next]_vars PROVE IInv'
  OBVIOUS
<1> USE OtherDB
<1>t. TypeOK /\ Copied /\ Counted /\ SettingsStored
  BY DEF IInv
<1>1. ASSUME Boot PROVE IInv'
  <2>1. TypeOK'
    <3>1. route' \in [sets : DB, seen : DB]
      BY <1>t, <1>1 DEF Boot, TypeOK, BTSets
    <3> QED
      BY <1>t, <1>1, <3>1 DEF Boot, TypeOK, PCs, stores, ghosts
  <2> QED
    BY <1>t, <1>1, <2>1 DEF Boot, IInv, Copied, Counted, SettingsStored, stores, ghosts
<1>2. ASSUME BootSettings PROVE IInv'
  <2>0. route.sets \in DB /\ route.seen \in DB
    BY <1>t DEF TypeOK
  <2>1. /\ conf' \in [DB -> {None} \cup BTSets]
        /\ pc' \in {"bootRem", "bootViewed"}
        /\ \A e \in DB : conf[e] # None => conf'[e] # None
        /\ pc' # "bootViewed" => conf'[route.sets] # None
        /\ leftover' \in BOOLEAN /\ forked' \in BOOLEAN
    BY <1>t, <1>2, <2>0, MigrateSingleTyped DEF BootSettings
  <2>2. target' = route.seen /\ names' \subseteq Hash /\ migrated' = 0 /\ failed' = FALSE
    BY <1>2 DEF BootSettings, StartAll, Names
  <2>3. TypeOK'
    BY <1>t, <1>2, <2>0, <2>1, <2>2 DEF BootSettings, TypeOK, PCs, memory, ghosts
  <2>4. Cardinality(Passed') \in Nat
    <3>1. Passed' \subseteq Hash
      BY DEF Passed, Names
    <3> QED
      BY <3>1, FS_Subset, FS_CardinalityType, FiniteAssumption
  <2>5. Counted'
    BY <2>2, <2>4 DEF Counted
  <2>6. Copied' /\ SettingsStored'
    BY <1>t, <1>2, <2>1 DEF BootSettings, Copied, SettingsStored, memory, ghosts
  <2> QED
    BY <2>3, <2>5, <2>6 DEF IInv
<1>3. ASSUME BootRem PROVE IInv'
  <2>0. route.sets \in DB
    BY <1>t DEF TypeOK
  <2>1. TypeOK'
    BY <1>t, <1>3, <2>0 DEF BootRem, Removed, TypeOK, PCs, memory, ghosts
  <2>2. conf'[route.sets] # None
    BY <1>t, <1>3, <2>0 DEF BootRem, Removed, Copied, TypeOK
  <2>3. Counted'
    BY <1>t, <1>3 DEF BootRem, Counted, Passed, Names
  <2> QED
    BY <1>3, <2>0, <2>1, <2>2, <2>3 DEF BootRem, IInv, Copied, SettingsStored
<1>4. ASSUME MigrateNext PROVE IInv'
  <2>1. PICK h \in names :
          /\ names' = names \ {h}
          /\ \/ /\ seen[Other(target)][h] = None \/ seen[target][h] # None
                /\ UNCHANGED <<seen, migrated, failed>>
             \/ /\ seen[Other(target)][h] # None /\ seen[target][h] = None
                /\ \E ok \in Writes :
                     /\ seen' = IF ok THEN [seen EXCEPT ![target][h] = seen[Other(target)][h]]
                                      ELSE seen
                     /\ IF Verified(ok) THEN migrated' = migrated + 1 /\ UNCHANGED failed
                                        ELSE failed' = TRUE /\ UNCHANGED migrated
    BY <1>4 DEF MigrateNext
  <2>u. UNCHANGED <<conf, route, cached, BTsets, pc, target, ghosts>>
    BY <1>4 DEF MigrateNext, memory, ghosts
  <2>2. target \in DB /\ Other(target) \in DB /\ h \in Hash /\ names \subseteq Hash
    BY <1>t DEF TypeOK
  <2>3. seen' \in [DB -> [Hash -> {None} \cup Viewed]]
    <3>1. seen \in [DB -> [Hash -> {None} \cup Viewed]]
      BY <1>t DEF TypeOK
    <3>2. [seen EXCEPT ![target][h] = seen[Other(target)][h]] \in [DB -> [Hash -> {None} \cup Viewed]]
      BY <2>2, <3>1
    <3> QED
      BY <2>1, <3>1, <3>2
  <2>4. migrated' \in Nat /\ failed' \in BOOLEAN
    <3>1. migrated \in Nat /\ failed \in BOOLEAN /\ migrated + 1 \in Nat
      BY <1>t DEF TypeOK
    <3>2. migrated' \in {migrated, migrated + 1} /\ (failed' = failed \/ failed' = TRUE)
      BY <2>1 DEF Verified
    <3> QED
      BY <3>1, <3>2
  <2>5. TypeOK'
    BY <1>t, <2>1, <2>u, <2>3, <2>4 DEF TypeOK, ghosts
  <2>6. /\ Cardinality(Passed') >= Cardinality(Passed)
        /\ seen' # seen => Cardinality(Passed') >= Cardinality(Passed) + 1
    <3>1. seen \in [DB -> [Hash -> {None} \cup Viewed]]
      BY <1>t DEF TypeOK
    <3> QED
      BY <2>1, <2>2, <2>u, <3>1, PassedGrows
  <2>7. migrated' # migrated => migrated' = migrated + 1 /\ seen' # seen
    <3>1. seen \in [DB -> [Hash -> {None} \cup Viewed]]
      BY <1>t DEF TypeOK
    <3>2. ASSUME seen[Other(target)][h] # None, seen[target][h] = None,
                 seen' = [seen EXCEPT ![target][h] = seen[Other(target)][h]]
          PROVE  seen' # seen
      <4>1. seen'[target][h] = seen[Other(target)][h]
        BY <2>2, <3>1, <3>2
      <4> QED
        BY <3>2, <4>1
    <3> QED
      BY <1>t, <2>1, <3>2 DEF Verified, TypeOK
  <2>8. Cardinality(Passed) \in Nat /\ Cardinality(Passed') \in Nat
    <3>1. Passed \subseteq Hash /\ Passed' \subseteq Hash
      BY DEF Passed, Names
    <3> QED
      BY <3>1, FS_Subset, FS_CardinalityType, FiniteAssumption
  <2>9. Counted'
    <3> SUFFICES ASSUME pc \in {"bootRem", "bootViewed"} PROVE migrated' <= Cardinality(Passed')
      BY <2>u DEF Counted
    <3>1. migrated <= Cardinality(Passed) /\ migrated \in Nat
      BY <1>t DEF Counted, TypeOK
    <3>2. CASE migrated' = migrated
      BY <3>1, <3>2, <2>6, <2>8
    <3>3. CASE migrated' # migrated
      BY <3>1, <3>3, <2>6, <2>7, <2>8
    <3> QED
      BY <3>2, <3>3
  <2> QED
    BY <1>t, <2>u, <2>5, <2>9 DEF IInv, Copied, SettingsStored, ghosts
<1>5. ASSUME BootViewedDone PROVE IInv'
  <2>1. TypeOK'
    BY <1>t, <1>5 DEF BootViewedDone, TypeOK, PCs, Clear, memory, ghosts, DB, Other
  <2> QED
    BY <1>t, <1>5, <2>1 DEF BootViewedDone, IInv, Copied, Counted, SettingsStored, ghosts
<1>6. ASSUME BootLoad PROVE IInv'
  <2>0. route.sets \in DB /\ Loaded(route.sets) \in BTSets
    BY <1>t, ValAssumption DEF TypeOK, Loaded, DefaultConfig, BTSets, DB
  <2>1. TypeOK'
    BY <1>t, <1>6, <2>0 DEF BootLoad, TypeOK, PCs, ghosts
  <2>2. conf'[route.sets] # None
    BY <1>t, <1>6, <2>0, NoneAssumption DEF BootLoad, TypeOK
  <2> QED
    BY <1>6, <2>0, <2>1, <2>2 DEF BootLoad, IInv, Copied, Counted, SettingsStored, ghosts
<1>7. ASSUME BootPrefs PROVE IInv'
  <2>0. [BTsets EXCEPT !.sets = route.sets, !.seen = route.seen] \in BTSets
    BY <1>t DEF TypeOK, BTSets
  <2>1. /\ conf' \in [DB -> {None} \cup BTSets] /\ BTsets' \in BTSets
        /\ (\E d \in DB : conf[d] # None) => (\E d \in DB : conf'[d] # None)
    <3>1. CASE UNCHANGED <<BTsets, conf>>
      BY <1>t, <3>1 DEF TypeOK
    <3>2. CASE SetBTSets([BTsets EXCEPT !.sets = route.sets, !.seen = route.seen])
      BY <1>t, <2>0, <3>2, SetBTSetsTyped
    <3> QED
      BY <1>7, <3>1, <3>2 DEF BootPrefs
  <2>2. TypeOK'
    BY <1>t, <1>7, <2>1 DEF BootPrefs, TypeOK, PCs, ghosts
  <2> QED
    BY <1>t, <1>7, <2>1, <2>2 DEF BootPrefs, IInv, Copied, Counted, SettingsStored, ghosts
<1>8. ASSUME Stop PROVE IInv'
  BY <1>t, <1>8 DEF Stop, IInv, TypeOK, PCs, Copied, Counted, SettingsStored, stores, memory, ghosts
<1>9. ASSUME SaveSettings PROVE IInv'
  <2>1. PICK s \in BTSets : SetBTSets(s) /\ saved' = s.val
    BY <1>9 DEF SaveSettings
  <2>2. /\ conf' \in [DB -> {None} \cup BTSets] /\ BTsets' \in BTSets
        /\ \E d \in DB : conf'[d] # None
    BY <1>t, <2>1, SetBTSetsTyped
  <2>3. TypeOK'
    BY <1>t, <1>9, <2>1, <2>2 DEF SaveSettings, TypeOK, worker, BTSets
  <2> QED
    BY <1>t, <1>9, <2>2, <2>3 DEF SaveSettings, IInv, Copied, Counted, SettingsStored, worker, Serving
<1>10. ASSUME Viewing PROVE IInv'
  <2>0. route.seen \in DB
    BY <1>t DEF TypeOK
  <2>g. \A h \in Hash : Get(h) \in {None} \cup Viewed /\ ReadIndexes(h) \in Viewed
    BY <1>t, <2>0, NoneAssumption DEF Get, ReadIndexes, TypeOK, Viewed
  <2>s. ASSUME NEW h \in Hash, NEW m \in Viewed, SetEntry(h, m)
        PROVE  /\ seen' \in [DB -> [Hash -> {None} \cup Viewed]]
               /\ cached' \in [Hash -> {None, Uncached} \cup Viewed]
    BY <1>t, <2>0, <2>s DEF SetEntry, TypeOK
  <2>1. ASSUME NEW h \in Hash, ListViewed(h) PROVE IInv'
    BY <1>t, <2>g, <2>1 DEF ListViewed, IInv, TypeOK, Copied, Counted, SettingsStored,
                            Passed, Names, stores, worker, ghosts
  <2>2. ASSUME NEW h \in Hash, NEW i \in Index, SetViewed(h, i) PROVE IInv'
    <3>1. ReadIndexes(h) \cup {i} \in Viewed
      BY <2>g DEF Viewed
    <3>2. TypeOK'
      BY <1>t, <2>2, <2>s, <3>1 DEF SetViewed, TypeOK, worker
    <3> QED
      BY <1>t, <2>2, <3>2 DEF SetViewed, IInv, Copied, Counted, SettingsStored, worker, Serving
  <2>3. ASSUME NEW h \in Hash, NEW i \in Index, RemViewed(h, i) PROVE IInv'
    <3>1. ReadIndexes(h) \ {i} \in Viewed
      BY <2>g DEF Viewed
    <3>2. TypeOK'
      BY <1>t, <2>3, <2>s, <3>1 DEF RemViewed, TypeOK, worker
    <3> QED
      BY <1>t, <2>3, <3>2 DEF RemViewed, IInv, Copied, Counted, SettingsStored, worker, Serving
  <2>4. ASSUME NEW h \in Hash, RemAllViewed(h) PROVE IInv'
    <3>1. TypeOK'
      BY <1>t, <2>0, <2>4 DEF RemAllViewed, TypeOK, worker
    <3> QED
      BY <1>t, <2>4, <3>1 DEF RemAllViewed, IInv, Copied, Counted, SettingsStored, worker, Serving
  <2> QED
    BY <1>10, <2>1, <2>2, <2>3, <2>4 DEF Viewing
<1>11. ASSUME SwitchSettings PROVE IInv'
  <2>0. [BTsets EXCEPT !.sets = Other(BTsets.sets)] \in BTSets /\ Other(BTsets.sets) \in DB
    BY <1>t DEF TypeOK, BTSets
  <2>1. /\ conf' \in [DB -> {None} \cup BTSets] /\ BTsets' \in BTSets
        /\ \E d \in DB : conf'[d] # None
    BY <1>t, <1>11, <2>0, SetBTSetsTyped DEF SwitchSettings
  <2>2. TypeOK'
    BY <1>t, <1>11, <2>0, <2>1 DEF SwitchSettings, TypeOK, PCs, ghosts
  <2> QED
    BY <1>11, <2>1, <2>2 DEF SwitchSettings, IInv, Copied, Counted, SettingsStored
<1>12. ASSUME SwitchSettingsCopy PROVE IInv'
  <2>1. /\ conf' \in [DB -> {None} \cup BTSets] /\ pc' = "ready"
        /\ \A e \in DB : conf[e] # None => conf'[e] # None
        /\ leftover' \in BOOLEAN /\ forked' \in BOOLEAN
    BY <1>t, <1>12, MigrateSingleTyped DEF SwitchSettingsCopy, TypeOK
  <2>2. TypeOK'
    BY <1>t, <1>12, <2>1 DEF SwitchSettingsCopy, TypeOK, PCs, memory, ghosts
  <2> QED
    BY <1>t, <1>12, <2>1, <2>2 DEF SwitchSettingsCopy, IInv, Copied, Counted, SettingsStored, ghosts
<1>13. ASSUME SwitchViewed PROVE IInv'
  <2>1. TypeOK'
    BY <1>t, <1>13 DEF SwitchViewed, StartAll, Names, TypeOK, PCs, BTSets, stores, memory, ghosts
  <2> QED
    BY <1>t, <1>13, <2>1 DEF SwitchViewed, IInv, Copied, Counted, SettingsStored, stores, ghosts
<1>14. ASSUME SwitchViewedClear PROVE IInv'
  <2>1. TypeOK'
    BY <1>t, <1>14 DEF SwitchViewedClear, Clear, TypeOK, PCs, memory, ghosts, DB, Other
  <2> QED
    BY <1>t, <1>14, <2>1 DEF SwitchViewedClear, IInv, Copied, Counted, SettingsStored, ghosts
<1>15. ASSUME SwitchViewedPref PROVE IInv'
  <2>0. Preferring(target) \in BTSets
    BY <1>t DEF Preferring, TypeOK, BTSets
  <2>1. /\ conf' \in [DB -> {None} \cup BTSets] /\ BTsets' \in BTSets
        /\ \E d \in DB : conf'[d] # None
    BY <1>t, <1>15, <2>0, SetBTSetsTyped DEF SwitchViewedPref
  <2>2. TypeOK'
    BY <1>t, <1>15, <2>1 DEF SwitchViewedPref, TypeOK, PCs, ghosts
  <2> QED
    BY <1>15, <2>1, <2>2 DEF SwitchViewedPref, IInv, Copied, Counted, SettingsStored
<1>16. CASE UNCHANGED vars
  BY <1>t, <1>16 DEF vars, stores, memory, worker, ghosts, IInv, TypeOK, Copied, Counted,
                     SettingsStored, Passed, Names
<1> QED
  BY <1>1, <1>2, <1>3, <1>4, <1>5, <1>6, <1>7, <1>8, <1>9, <1>10, <1>11, <1>12, <1>13, <1>14,
     <1>15, <1>16 DEF Next

LEMMA StorageIInv == Spec => []IInv
BY InitIInv, StepIInv, PTL DEF Spec

-----------------------------------------------------------------------------
(* No torrent with marks is dropped by a migration.                         *)

\* SwitchViewedStorage has copied every name it has passed, or seen an error.
CopiedAll ==
  pc = "swViewed" /\ ~failed =>
    \A h \in Hash \ names : seen[Other(target)][h] # None => seen[target][h] # None

\* What a step that sets or copies entries may not do.
Keeps == \A d \in DB, h \in Hash : seen[d][h] # None => seen'[d][h] # None

LEMMA KeepsHashes ==
  ASSUME TypeOK, HashIsKept, Keeps, marks' = marks
  PROVE  HashIsKept'
BY DEF TypeOK, HashIsKept, Keeps

\* Clearing a database whose every name is in the other one.
LEMMA ClearKeepsHashes ==
  ASSUME TypeOK, HashIsKept, marks' = marks, seen' = Clear(Other(target)),
         \A h \in Hash : seen[Other(target)][h] # None => seen[target][h] # None
  PROVE  HashIsKept'
<1> SUFFICES ASSUME NEW m \in marks PROVE \E d \in DB : seen'[d][m[1]] # None
  BY DEF HashIsKept
<1>1. m[1] \in Hash /\ target \in DB /\ Other(target) \in DB /\ Other(target) # target
  BY OtherDB DEF TypeOK
<1>2. PICK d \in DB : seen[d][m[1]] # None
  BY DEF HashIsKept
<1>3. seen[target][m[1]] # None
  BY <1>1, <1>2 DEF DB, Other
<1>4. seen'[target] = seen[target]
  BY <1>1 DEF Clear, TypeOK
<1> QED
  BY <1>1, <1>3, <1>4

\* safeMigrateAll counts as many names as it found only when all are copied.
LEMMA AllMigrated ==
  ASSUME TypeOK, Counted, pc = "bootViewed", names = {},
         migrated >= Cardinality(Names(Other(target)))
  PROVE  \A h \in Hash : seen[Other(target)][h] # None => seen[target][h] # None
<1>1. Passed \subseteq Names(Other(target)) /\ Names(Other(target)) \subseteq Hash
  BY DEF Passed, Names
<1>2. IsFiniteSet(Names(Other(target)))
  BY <1>1, FS_Subset, FiniteAssumption
<1>3. /\ Cardinality(Passed) \in Nat
      /\ Cardinality(Names(Other(target))) \in Nat
      /\ Cardinality(Passed) <= Cardinality(Names(Other(target)))
      /\ Cardinality(Names(Other(target))) = Cardinality(Passed) => Names(Other(target)) = Passed
  BY <1>1, <1>2, FS_Subset, FS_CardinalityType
<1>4. migrated <= Cardinality(Passed) /\ migrated \in Nat
  BY DEF Counted, TypeOK
<1>5. Names(Other(target)) = Passed
  BY <1>3, <1>4
<1> QED
  BY <1>5 DEF Passed, Names

LEMMA StepKeeps ==
  ASSUME Exclusive, IInv, HashIsKept, CopiedAll, [Next]_vars
  PROVE  HashIsKept' /\ CopiedAll'
<1> USE OtherDB
<1>t. TypeOK /\ Counted
  BY DEF IInv
<1>1. CASE UNCHANGED <<seen, marks>> /\ pc' # "swViewed"
  BY <1>1 DEF HashIsKept, CopiedAll
<1>2. ASSUME MigrateNext PROVE HashIsKept' /\ CopiedAll'
  <2>1. PICK h \in names :
          /\ names' = names \ {h}
          /\ \/ /\ seen[Other(target)][h] = None \/ seen[target][h] # None
                /\ UNCHANGED <<seen, migrated, failed>>
             \/ /\ seen[Other(target)][h] # None /\ seen[target][h] = None
                /\ \E ok \in Writes :
                     /\ seen' = IF ok THEN [seen EXCEPT ![target][h] = seen[Other(target)][h]]
                                      ELSE seen
                     /\ IF Verified(ok) THEN migrated' = migrated + 1 /\ UNCHANGED failed
                                        ELSE failed' = TRUE /\ UNCHANGED migrated
    BY <1>2 DEF MigrateNext
  <2>u. UNCHANGED <<pc, target, marks>>
    BY <1>2 DEF MigrateNext, ghosts
  <2>2. /\ target \in DB /\ h \in Hash /\ names \subseteq Hash
        /\ seen \in [DB -> [Hash -> {None} \cup Viewed]]
    BY <1>t DEF TypeOK
  <2>3. CASE UNCHANGED seen
    <3>1. HashIsKept'
      BY <2>u, <2>3 DEF HashIsKept
    <3>2. ~failed' => ~failed /\ (seen[Other(target)][h] = None \/ seen[target][h] # None)
      <4>1. CASE seen[Other(target)][h] = None \/ seen[target][h] # None
        BY <2>1, <4>1
      <4>2. CASE seen[Other(target)][h] # None /\ seen[target][h] = None
        <5>1. PICK ok \in Writes :
                /\ seen' = IF ok THEN [seen EXCEPT ![target][h] = seen[Other(target)][h]]
                                 ELSE seen
                /\ IF Verified(ok) THEN migrated' = migrated + 1 /\ UNCHANGED failed
                                   ELSE failed' = TRUE /\ UNCHANGED migrated
          BY <2>1, <4>2
        <5>2. CASE ok = TRUE
          <6>1. seen'[target][h] = seen[Other(target)][h]
            BY <2>2, <5>1, <5>2
          <6> QED
            BY <2>3, <4>2, <6>1
        <5>3. CASE ok # TRUE
          BY <5>1, <5>3 DEF Verified, Writes
        <5> QED
          BY <5>2, <5>3
      <4> QED
        BY <4>1, <4>2
    <3>3. CopiedAll'
      BY <2>1, <2>u, <2>3, <3>2 DEF CopiedAll
    <3> QED
      BY <3>1, <3>3
  <2>4. CASE /\ seen[Other(target)][h] # None
             /\ seen' = [seen EXCEPT ![target][h] = seen[Other(target)][h]]
             /\ failed' = TRUE \/ failed' = failed
    <3>1. /\ seen'[target][h] # None
          /\ \A d \in DB, x \in Hash : <<d, x>> # <<target, h>> => seen'[d][x] = seen[d][x]
      BY <2>2, <2>4
    <3>2. Keeps
      BY <3>1 DEF Keeps
    <3>3. HashIsKept'
      BY <1>t, <2>u, <3>2, KeepsHashes
    <3>4. CopiedAll'
      BY <2>1, <2>2, <2>u, <2>4, <3>1 DEF CopiedAll
    <3> QED
      BY <3>3, <3>4
  <2> QED
    BY <2>1, <2>3, <2>4
<1>3. ASSUME BootViewedDone PROVE HashIsKept' /\ CopiedAll'
  <2>0. marks' = marks /\ pc' = "bootLoad"
    BY <1>3 DEF BootViewedDone, ghosts
  <2>1. CASE seen' = seen
    BY <2>0, <2>1 DEF HashIsKept, CopiedAll
  <2>2. CASE seen' = Clear(Other(target)) /\ migrated >= Cardinality(Names(Other(target)))
    <3>1. \A h \in Hash : seen[Other(target)][h] # None => seen[target][h] # None
      BY <1>t, <1>3, <2>2, AllMigrated DEF BootViewedDone
    <3> QED
      BY <1>t, <2>0, <2>2, <3>1, ClearKeepsHashes DEF CopiedAll
  <2> QED
    BY <1>3, <2>1, <2>2 DEF BootViewedDone
<1>4. ASSUME SwitchViewedClear PROVE HashIsKept' /\ CopiedAll'
  <2>0. marks' = marks /\ pc' # "swViewed"
    BY <1>4 DEF SwitchViewedClear, ghosts
  <2>1. CASE failed
    BY <1>4, <2>0, <2>1 DEF SwitchViewedClear, CopyFailed, HashIsKept, CopiedAll
  <2>2. CASE ~failed
    <3>1. \A h \in Hash : seen[Other(target)][h] # None => seen[target][h] # None
      BY <1>4, <2>2 DEF SwitchViewedClear, CopiedAll
    <3>2. seen' = Clear(Other(target))
      BY <1>4, <2>2 DEF SwitchViewedClear, CopyFailed
    <3> QED
      BY <1>t, <2>0, <3>1, <3>2, ClearKeepsHashes DEF CopiedAll
  <2> QED
    BY <2>1, <2>2
<1>5. ASSUME SwitchViewed PROVE HashIsKept' /\ CopiedAll'
  BY <1>t, <1>5 DEF SwitchViewed, StartAll, Names, stores, ghosts, HashIsKept, CopiedAll
<1>6. ASSUME Viewing PROVE HashIsKept' /\ CopiedAll'
  <2>0. route.seen \in DB /\ seen \in [DB -> [Hash -> {None} \cup Viewed]]
    BY <1>t DEF TypeOK
  <2>1. pc' # "swViewed"
    BY <1>6 DEF Viewing, ListViewed, SetViewed, RemViewed, RemAllViewed, Serving, worker
  <2>2. ASSUME NEW h \in Hash, ListViewed(h) PROVE HashIsKept'
    BY <2>2 DEF ListViewed, stores, ghosts, HashIsKept
  <2>g. \A h \in Hash : ReadIndexes(h) \subseteq Index
    BY <1>t, <2>0, NoneAssumption DEF Get, ReadIndexes, TypeOK, Viewed
  <2>e. ASSUME NEW h \in Hash, NEW m \in Viewed, SetEntry(h, m)
        PROVE  Keeps /\ seen'[route.seen][h] # None
    BY <2>0, <2>e, NoneAssumption DEF SetEntry, Keeps
  <2>3. ASSUME NEW h \in Hash, NEW i \in Index, SetViewed(h, i) PROVE HashIsKept'
    <3>1. Keeps /\ seen'[route.seen][h] # None
      BY <2>3, <2>e, <2>g DEF SetViewed, Viewed
    <3>2. marks' = marks \cup {<<h, i>>}
      BY <2>3 DEF SetViewed
    <3> QED
      BY <1>t, <2>0, <3>1, <3>2 DEF HashIsKept, Keeps, TypeOK
  <2>4. ASSUME NEW h \in Hash, NEW i \in Index, RemViewed(h, i) PROVE HashIsKept'
    <3>1. Keeps
      BY <2>4, <2>e, <2>g DEF RemViewed, Viewed
    <3>2. marks' \subseteq marks
      BY <2>4 DEF RemViewed
    <3> QED
      BY <1>t, <3>1, <3>2 DEF HashIsKept, Keeps, TypeOK
  <2>5. ASSUME NEW h \in Hash, RemAllViewed(h) PROVE HashIsKept'
    <3>1. \A d \in DB, x \in Hash : x # h => seen'[d][x] = seen[d][x]
      BY <2>0, <2>5 DEF RemAllViewed
    <3>2. marks' = marks \ ({h} \X Index) /\ marks \subseteq Hash \X Index
      BY <1>t, <2>5 DEF RemAllViewed, TypeOK
    <3>3. \A m \in marks' : m \in marks /\ m[1] \in Hash /\ m[1] # h
      BY <3>2
    <3> QED
      BY <3>1, <3>3 DEF HashIsKept
  <2> QED
    BY <1>6, <2>1, <2>2, <2>3, <2>4, <2>5 DEF Viewing, CopiedAll
<1>7. CASE UNCHANGED vars
  BY <1>7 DEF vars, stores, memory, worker, ghosts, HashIsKept, CopiedAll
<1> QED
  BY <1>1, <1>2, <1>3, <1>4, <1>5, <1>6, <1>7
     DEF Next, Boot, BootSettings, BootRem, BootLoad, BootPrefs, Stop, SaveSettings,
         SwitchSettings, SwitchSettingsCopy, SwitchViewedPref, MigrateSingle, Serving,
         stores, memory, worker, ghosts

-----------------------------------------------------------------------------
(* What it gives.                                                           *)

\* Settings that were saved are never missing from both databases, whatever
\* stops or fails during safeMigrate and SwitchSettingsStorage.
THEOREM SettingsAreStored == Spec => []SettingsStored
<1>1. IInv => SettingsStored
  BY DEF IInv
<1> QED
  BY StorageIInv, <1>1, PTL

\* When no request is served during a switch, a torrent with a mark is always in
\* one of the databases: the clears come after the copies, and an entry that
\* could not be copied keeps its source (MigrateAll, safeMigrateAll,
\* SwitchViewedStorage).
THEOREM MarkedHashesAreKept ==
  ASSUME Exclusive
  PROVE  Spec => []HashIsKept
<1>1. Init => HashIsKept /\ CopiedAll
  BY DEF Init, HashIsKept, CopiedAll
<1>2. HashIsKept /\ CopiedAll /\ IInv /\ [Next]_vars => HashIsKept' /\ CopiedAll'
  BY StepKeeps
<1> QED
  BY StorageIInv, <1>1, <1>2, PTL DEF Spec

-----------------------------------------------------------------------------
(* The settings saved last are loaded.                                      *)

\* The content saved last, or the one the first start saves.
Latest == IF saved = None THEN Default ELSE saved

\* Without a leftover one database alone has settings; safeMigrate is about to
\* remove the other's in "bootRem".
AloneOK ==
  ~leftover =>
    /\ pc # "swSettings"
    /\ pc \in {"down", "bootSettings"} => \E d \in DB : conf[d] = None
    /\ pc \notin {"down", "bootSettings", "bootRem"} => conf[Other(route.sets)] = None

\* Every copy of the settings has the content saved last ...
SameOK == ~forked => \A d \in DB : conf[d] # None => conf[d].val = Latest

\* ... there is one where loadBTSets looks for it ...
FoundOK ==
  ~forked /\ pc \in {"bootViewed", "bootLoad"} /\ saved # None => conf[route.sets] # None

\* ... and it is in memory from then on.
LoadedOK ==
  ~forked /\ pc \in {"bootPrefs", "ready", "swSettings", "swViewed", "swPref"} =>
    BTsets.val = Latest

KeptOK == AloneOK /\ SameOK /\ FoundOK /\ LoadedOK

\* Writing settings with the content saved last where they are routed.
LEMMA SavingKeeps ==
  ASSUME TypeOK, NEW s \in BTSets, SetBTSets(s), UNCHANGED route,
         leftover' \/ (pc' # "swSettings" /\ conf[Other(route.sets)] = None),
         forked' \/ (s.val = Latest' /\ \A d \in DB : d = route.sets \/ conf[d] = None \/ conf[d].val = Latest'),
         pc' \in {"bootPrefs", "ready", "swSettings", "swViewed", "swPref"}
  PROVE  KeptOK'
<1>1. route.sets \in DB /\ s # None
  BY NoneAssumption DEF TypeOK
<1>2. conf' = [conf EXCEPT ![route.sets] = s] /\ BTsets' = s
  BY DEF SetBTSets
<1>3. conf'[route.sets] = s /\ \A d \in DB : d # route.sets => conf'[d] = conf[d]
  BY <1>1, <1>2 DEF TypeOK
<1>4. AloneOK'
  BY <1>1, <1>3, OtherDB DEF AloneOK
<1>5. SameOK'
  BY <1>1, <1>3 DEF SameOK
<1> QED
  BY <1>2, <1>4, <1>5 DEF KeptOK, FoundOK, LoadedOK

\* The same, when the content is the one in memory.
LEMMA SavingAgainKeeps ==
  ASSUME TypeOK, KeptOK, NEW s \in BTSets, SetBTSets(s), UNCHANGED <<route, saved, forked>>,
         s.val = BTsets.val, leftover' \/ (leftover' = leftover /\ pc' # "swSettings"),
         pc \in {"bootPrefs", "ready", "swSettings", "swViewed", "swPref"},
         pc' \in {"bootPrefs", "ready", "swSettings", "swViewed", "swPref"}
  PROVE  KeptOK'
<1>1. Latest' = Latest
  BY DEF Latest
<1>2. leftover' \/ (pc' # "swSettings" /\ conf[Other(route.sets)] = None)
  BY DEF KeptOK, AloneOK
<1>3. forked' \/ (s.val = Latest' /\ \A d \in DB : d = route.sets \/ conf[d] = None \/ conf[d].val = Latest')
  BY <1>1 DEF KeptOK, SameOK, LoadedOK
<1> QED
  BY <1>2, <1>3, SavingKeeps

\* MigrateSingle into the database d.
LEMMA CopyingKeeps ==
  ASSUME TypeOK, KeptOK, NEW d \in DB, NEW yes, NEW no, MigrateSingle(d, yes, no),
         UNCHANGED saved
  PROVE  /\ SameOK'
         /\ Migrates(d) /\ pc' = no /\ yes # no => leftover' /\ forked'
         /\ ~Migrates(d) => pc' = no /\ UNCHANGED <<conf, leftover, forked>>
         /\ leftover => leftover'
         /\ forked => forked'
<1> USE OtherDB
<1>1. Latest' = Latest
  BY DEF Latest
<1>2. CASE ~Migrates(d)
  BY <1>1, <1>2 DEF MigrateSingle, KeptOK, SameOK
<1>3. CASE Migrates(d)
  <2>1. PICK ok \in Writes :
          /\ conf' = IF ok THEN [conf EXCEPT ![d] = conf[Other(d)]] ELSE conf
          /\ pc' = IF Verified(ok) THEN yes ELSE no
          /\ leftover' = (leftover \/ ~ok)
          /\ forked' = (forked \/ ~ok)
    BY <1>3 DEF MigrateSingle
  <2>2. conf[Other(d)] # None /\ ok \in BOOLEAN
    BY <1>3 DEF Migrates, Writes
  <2>3. \A e \in DB : conf'[e] \in {conf[e], conf[Other(d)]}
    BY <2>1, <2>2 DEF TypeOK
  <2>4. SameOK'
    BY <1>1, <2>1, <2>3 DEF KeptOK, SameOK
  <2> QED
    BY <1>3, <2>1, <2>2, <2>4 DEF Verified
<1> QED
  BY <1>2, <1>3

LEMMA StepLastSaved == IInv /\ KeptOK /\ [Next]_vars => KeptOK'
<1> SUFFICES ASSUME IInv, KeptOK, [Next]_vars PROVE KeptOK'
  OBVIOUS
<1> USE OtherDB
<1>t. TypeOK /\ Copied /\ SettingsStored
  BY DEF IInv
<1>k. AloneOK /\ SameOK /\ FoundOK /\ LoadedOK
  BY DEF KeptOK
<1>r. route.sets \in DB /\ route.seen \in DB /\ BTsets \in BTSets
  BY <1>t DEF TypeOK
<1>d. DB = {route.sets, Other(route.sets)}
  BY <1>r DEF DB, Other
<1>1. ASSUME Boot PROVE KeptOK'
  BY <1>k, <1>1 DEF Boot, KeptOK, AloneOK, SameOK, FoundOK, LoadedOK, Latest, stores, ghosts
<1>2. ASSUME BootSettings PROVE KeptOK'
  <2>u. pc = "bootSettings" /\ UNCHANGED <<route, saved>> /\ MigrateSingle(route.sets, "bootRem", "bootViewed")
    BY <1>2 DEF BootSettings, memory
  <2>1. /\ SameOK'
        /\ Migrates(route.sets) /\ pc' = "bootViewed" => leftover' /\ forked'
        /\ ~Migrates(route.sets) => pc' = "bootViewed" /\ UNCHANGED <<conf, leftover, forked>>
        /\ pc' \in {"bootRem", "bootViewed"}
    BY <1>t, <1>r, <2>u, CopyingKeeps, MigrateSingleTyped
  <2>2. CASE Migrates(route.sets)
    BY <2>1, <2>2 DEF KeptOK, AloneOK, FoundOK, LoadedOK
  <2>3. CASE ~Migrates(route.sets)
    <3>1. conf[Other(route.sets)] # None => conf[route.sets] # None
      BY <2>3 DEF Migrates
    <3>2. AloneOK'
      BY <1>k, <1>d, <2>1, <2>3, <2>u, <3>1 DEF AloneOK
    <3>3. FoundOK'
      BY <1>t, <1>d, <2>1, <2>3, <2>u, <3>1 DEF FoundOK, SettingsStored
    <3> QED
      BY <2>1, <2>3, <3>2, <3>3 DEF KeptOK, LoadedOK
  <2> QED
    BY <2>2, <2>3
<1>3. ASSUME BootRem PROVE KeptOK'
  <2>1. conf'[Other(route.sets)] = None /\ conf'[route.sets] = conf[route.sets] /\ conf[route.sets] # None
    BY <1>t, <1>r, <1>3 DEF BootRem, Removed, TypeOK, Copied
  <2>2. pc' = "bootViewed" /\ UNCHANGED <<route, saved, forked>> /\ Latest' = Latest
    BY <1>3 DEF BootRem, memory, Latest
  <2>3. SameOK'
    BY <1>k, <1>d, <2>1, <2>2 DEF SameOK
  <2> QED
    BY <2>1, <2>2, <2>3 DEF KeptOK, AloneOK, FoundOK, LoadedOK
<1>4. ASSUME MigrateNext PROVE KeptOK'
  BY <1>k, <1>4 DEF MigrateNext, KeptOK, AloneOK, SameOK, FoundOK, LoadedOK, Latest, memory, ghosts
<1>5. ASSUME BootViewedDone PROVE KeptOK'
  BY <1>k, <1>5 DEF BootViewedDone, KeptOK, AloneOK, SameOK, FoundOK, LoadedOK, Latest, memory, ghosts
<1>6. ASSUME BootLoad PROVE KeptOK'
  <2>u. pc = "bootLoad" /\ pc' = "bootPrefs" /\ UNCHANGED <<route, saved, leftover, forked>> /\ Latest' = Latest
    BY <1>6 DEF BootLoad, ghosts, Latest
  <2>1. Loaded(route.sets) \in BTSets
    BY <1>t, <1>r, ValAssumption DEF Loaded, DefaultConfig, TypeOK, BTSets, DB
  <2>2. ~forked => Loaded(route.sets).val = Latest
    <3>1. CASE conf[route.sets] = None
      BY <1>k, <2>u, <3>1 DEF Loaded, DefaultConfig, FoundOK, Latest
    <3>2. CASE conf[route.sets] # None
      BY <1>k, <1>r, <3>2 DEF Loaded, SameOK
    <3> QED
      BY <3>1, <3>2
  <2>3. SetBTSets(Loaded(route.sets))
    BY <1>6 DEF BootLoad, SetBTSets
  <2>4. leftover' \/ (pc' # "swSettings" /\ conf[Other(route.sets)] = None)
    BY <1>k, <2>u DEF AloneOK
  <2>5. forked' \/ \A d \in DB : d = route.sets \/ conf[d] = None \/ conf[d].val = Latest'
    BY <1>k, <2>u DEF SameOK
  <2> QED
    BY <1>t, <2>u, <2>1, <2>2, <2>3, <2>4, <2>5, SavingKeeps
<1>7. ASSUME BootPrefs PROVE KeptOK'
  <2>1. pc = "bootPrefs" /\ pc' = "ready" /\ UNCHANGED <<route, saved, leftover, forked>>
    BY <1>7 DEF BootPrefs, ghosts
  <2>2. CASE UNCHANGED <<BTsets, conf>>
    BY <1>k, <2>1, <2>2 DEF KeptOK, AloneOK, SameOK, FoundOK, LoadedOK, Latest
  <2>3. CASE SetBTSets([BTsets EXCEPT !.sets = route.sets, !.seen = route.seen])
    <3> DEFINE s == [BTsets EXCEPT !.sets = route.sets, !.seen = route.seen]
    <3>1. s \in BTSets /\ s.val = BTsets.val
      BY <1>r DEF BTSets
    <3> HIDE DEF s
    <3>2. SetBTSets(s)
      BY <2>3 DEF s
    <3> QED
      BY <1>t, <2>1, <3>1, <3>2, SavingAgainKeeps
  <2> QED
    BY <1>7, <2>2, <2>3 DEF BootPrefs
<1>8. ASSUME Stop PROVE KeptOK'
  <2>1. pc' = "down" /\ UNCHANGED <<conf, saved, forked>> /\ leftover' = (leftover \/ pc = "bootRem")
    BY <1>8 DEF Stop, stores
  <2>2. AloneOK'
    BY <1>k, <1>r, <2>1 DEF AloneOK
  <2> QED
    BY <1>k, <2>1, <2>2 DEF KeptOK, SameOK, FoundOK, LoadedOK, Latest
<1>9. ASSUME SaveSettings PROVE KeptOK'
  <2>1. PICK s \in BTSets : SetBTSets(s) /\ saved' = s.val /\ forked' = leftover
    BY <1>9 DEF SaveSettings
  <2>2. pc \in {"ready", "swSettings", "swViewed", "swPref"} /\ UNCHANGED <<pc, route, leftover>>
    BY <1>9 DEF SaveSettings, Serving, worker
  <2>3. Latest' = s.val
    BY <2>1, NoneAssumption DEF Latest, BTSets
  <2>4. leftover' \/ (pc' # "swSettings" /\ conf[Other(route.sets)] = None)
    BY <1>k, <2>2 DEF AloneOK
  <2> QED
    BY <1>t, <1>d, <2>1, <2>2, <2>3, <2>4, SavingKeeps
<1>10. ASSUME Viewing PROVE KeptOK'
  <2>1. UNCHANGED <<conf, route, BTsets, pc, saved, leftover, forked>>
    BY <1>10 DEF Viewing, ListViewed, SetViewed, RemViewed, RemAllViewed, stores, worker, ghosts
  <2> QED
    BY <1>k, <2>1 DEF KeptOK, AloneOK, SameOK, FoundOK, LoadedOK, Latest
<1>11. ASSUME SwitchSettings PROVE KeptOK'
  <2>1. pc = "ready" /\ pc' = "swSettings" /\ leftover' = TRUE /\ UNCHANGED <<route, saved, forked>>
    BY <1>11 DEF SwitchSettings
  <2> DEFINE s == [BTsets EXCEPT !.sets = Other(BTsets.sets)]
  <2>2. s \in BTSets /\ s.val = BTsets.val
    BY <1>r DEF BTSets
  <2> HIDE DEF s
  <2>3. SetBTSets(s)
    BY <1>11 DEF SwitchSettings, s
  <2> QED
    BY <1>t, <2>1, <2>2, <2>3, SavingAgainKeeps
<1>12. ASSUME SwitchSettingsCopy PROVE KeptOK'
  <2>u. /\ pc = "swSettings" /\ pc' = "ready" /\ UNCHANGED <<route, saved, BTsets>>
        /\ target \in DB /\ MigrateSingle(target, "ready", "ready")
    BY <1>t, <1>12, MigrateSingleTyped DEF SwitchSettingsCopy, memory, TypeOK
  <2>1. SameOK' /\ (leftover => leftover') /\ (forked => forked')
        /\ (~Migrates(target) => UNCHANGED <<conf, leftover, forked>>)
    BY <1>t, <2>u, CopyingKeeps
  <2>2. leftover
    BY <1>k, <2>u DEF AloneOK
  <2> QED
    BY <1>k, <2>u, <2>1, <2>2 DEF KeptOK, AloneOK, FoundOK, LoadedOK, Latest
<1>13. ASSUME SwitchViewed PROVE KeptOK'
  BY <1>k, <1>13 DEF SwitchViewed, KeptOK, AloneOK, SameOK, FoundOK, LoadedOK, Latest, stores, memory, ghosts
<1>14. ASSUME SwitchViewedClear PROVE KeptOK'
  BY <1>k, <1>14 DEF SwitchViewedClear, KeptOK, AloneOK, SameOK, FoundOK, LoadedOK, Latest, memory, ghosts
<1>15. ASSUME SwitchViewedPref PROVE KeptOK'
  <2>1. pc = "swPref" /\ pc' = "ready" /\ UNCHANGED <<route, saved, leftover, forked>>
    BY <1>15 DEF SwitchViewedPref, ghosts
  <2>2. Preferring(target) \in BTSets /\ Preferring(target).val = BTsets.val
    BY <1>t DEF Preferring, TypeOK, BTSets
  <2>3. SetBTSets(Preferring(target))
    BY <1>15 DEF SwitchViewedPref
  <2> QED
    BY <1>t, <2>1, <2>2, <2>3, SavingAgainKeeps
<1>16. CASE UNCHANGED vars
  BY <1>k, <1>16 DEF vars, stores, memory, worker, ghosts, KeptOK, AloneOK, SameOK, FoundOK, LoadedOK, Latest
<1> QED
  BY <1>1, <1>2, <1>3, <1>4, <1>5, <1>6, <1>7, <1>8, <1>9, <1>10, <1>11, <1>12, <1>13, <1>14,
     <1>15, <1>16 DEF Next

\* Whatever crashes, failed writes, switches of either storage, saved flags and
\* requests come between: unless they were saved over a leftover copy, or a copy
\* of them failed, the content of the settings in effect is the one saved last
\* (safeMigrate, SwitchSettingsStorage, loadBTSets, SetBTSets).
THEOREM LastSettingsAreLoaded == Spec => []LastSavedIsLoaded
<1>1. Init => KeptOK
  BY OtherDB DEF Init, KeptOK, AloneOK, SameOK, FoundOK, LoadedOK, Latest, DB
<1>2. KeptOK => LastSavedIsLoaded
  BY DEF KeptOK, LoadedOK, LastSavedIsLoaded, Latest
<1> QED
  BY StorageIInv, StepLastSaved, <1>1, <1>2, PTL DEF Spec

-----------------------------------------------------------------------------
(* Clients are shown the marks they set.                                    *)

\* Entry e of torrent h holds exactly the marks M has of it.
Shows(M, h, e) == \A i \in Index : i \in (IF e = None THEN {} ELSE e) <=> <<h, i>> \in M
Exact(h, e) == Shows(marks, h, e)

\* Database d alone has entries, and they are exact.
AllAt(d) == \A h \in Hash : seen[Other(d)][h] = None /\ Exact(h, seen[d][h])

\* The names MigrateAll has passed are copied to d and counted; the others are
\* still only in the source, which is exact.
HalfAt(d) ==
  /\ names \subseteq Names(Other(d))
  /\ migrated = Cardinality(Names(Other(d)) \ names)
  /\ \A h \in Hash :
       /\ Exact(h, seen[Other(d)][h])
       /\ seen[d][h] = IF h \in names THEN None ELSE seen[Other(d)][h]

\* MigrateAll found nothing to copy, or has copied some names.
Copying == ~failed /\ ((names = {} /\ AllAt(target)) \/ HalfAt(target))

\* Where the marks are at each step.
MarksOK ==
  /\ pc \in {"down", "bootSettings"} => \E d \in DB : AllAt(d)
  /\ pc \in {"bootRem", "bootViewed"} => target = route.seen
  /\ pc \in {"bootRem", "bootViewed", "swViewed"} => Copying
  /\ pc \in {"bootLoad", "bootPrefs"} => AllAt(route.seen)
  /\ pc = "swPref" => AllAt(target)
  /\ pc \in {"ready", "swSettings"} =>
       (\E d \in DB : AllAt(d)) /\ (BTsets.seen = route.seen => AllAt(route.seen))

\* What is cached is what is stored.
CachedOK == \A h \in Hash : cached[h] # Uncached => Exact(h, cached[h])

\* The part of the invariant that speaks of entries depends on these alone.
LEMMA MarksUnchanged ==
  ASSUME UNCHANGED <<seen, marks>>
  PROVE  /\ \A d \in DB : AllAt(d) => AllAt(d)'
         /\ UNCHANGED <<names, migrated, failed, target>> => Copying' = Copying
BY DEF AllAt, HalfAt, Copying, Exact, Shows, Names

\* MigrateAll starts from marks that are in one of the databases.
LEMMA StartCopies ==
  ASSUME TypeOK, NEW d \in DB, StartAll(d), UNCHANGED <<seen, marks>>,
         \E e \in DB : AllAt(e)
  PROVE  Copying'
<1> USE OtherDB
<1>0. /\ target' = d /\ names' = Names(Other(d)) /\ migrated' = 0 /\ failed' = FALSE
  BY DEF StartAll
<1>1. CASE AllAt(d)
  <2>1. Names(Other(d)) = {}
    BY <1>1 DEF AllAt, Names
  <2> QED
    BY <1>0, <1>1, <2>1 DEF Copying, AllAt, Exact, Shows
<1>2. CASE AllAt(Other(d))
  <2>1. names' \ names' = {} /\ Cardinality(names' \ names') = 0
    BY FS_EmptySet
  <2>2. Names(Other(d))' = names'
    BY <1>0 DEF Names
  <2>3. ASSUME NEW h \in Hash
        PROVE  /\ Exact(h, seen[Other(d)][h])'
               /\ seen'[d][h] = IF h \in names' THEN None ELSE seen'[Other(d)][h]
    BY <1>0, <1>2, <2>3 DEF AllAt, Exact, Shows, Names
  <2>4. HalfAt(d)'
    BY <1>0, <2>1, <2>2, <2>3 DEF HalfAt, Names
  <2>5. HalfAt(target)' = HalfAt(d)'
    BY <1>0 DEF HalfAt, Exact, Shows, Names
  <2> QED
    BY <1>0, <2>4, <2>5 DEF Copying
<1> QED
  BY <1>1, <1>2 DEF DB, Other

\* Clearing the source of a copy that is complete.
LEMMA ClearedAt ==
  ASSUME TypeOK, HalfAt(target), names = {}, seen' = Clear(Other(target)), UNCHANGED <<target, marks>>
  PROVE  AllAt(target)'
<1>1. target \in DB /\ Other(target) \in DB /\ Other(target) # target
  BY OtherDB DEF TypeOK
<1>2. seen'[target] = seen[target] /\ \A h \in Hash : seen'[Other(target)][h] = None
  BY <1>1 DEF Clear, TypeOK
<1> QED
  BY <1>2 DEF HalfAt, AllAt, Exact, Shows

\* MigrateAll copies a name that is in the source and not yet in the target.
LEMMA CopyNext ==
  ASSUME ~Failures, TypeOK, Copying, MigrateNext
  PROVE  Copying'
<1> USE OtherDB
<1>1. PICK h \in names :
        /\ names' = names \ {h}
        /\ \/ /\ seen[Other(target)][h] = None \/ seen[target][h] # None
              /\ UNCHANGED <<seen, migrated, failed>>
           \/ /\ seen[Other(target)][h] # None /\ seen[target][h] = None
              /\ \E ok \in Writes :
                   /\ seen' = IF ok THEN [seen EXCEPT ![target][h] = seen[Other(target)][h]]
                                    ELSE seen
                   /\ IF Verified(ok) THEN migrated' = migrated + 1 /\ UNCHANGED failed
                                      ELSE failed' = TRUE /\ UNCHANGED migrated
  BY DEF MigrateNext
<1>u. target' = target /\ marks' = marks
  BY DEF MigrateNext, ghosts
<1>2. HalfAt(target) /\ ~failed
  BY <1>1 DEF Copying
<1>t. /\ target \in DB /\ Other(target) \in DB /\ Other(target) # target
      /\ h \in Hash /\ names \subseteq Hash
      /\ seen \in [DB -> [Hash -> {None} \cup Viewed]]
  BY <1>1 DEF TypeOK
<1>3. h \in Names(Other(target)) /\ seen[Other(target)][h] # None /\ seen[target][h] = None
  BY <1>1, <1>2, <1>t DEF HalfAt, Names
<1>4. /\ seen' = [seen EXCEPT ![target][h] = seen[Other(target)][h]]
      /\ migrated' = migrated + 1 /\ failed' = failed
  BY <1>1, <1>3 DEF Writes, Verified
<1>5. /\ seen'[Other(target)] = seen[Other(target)]
      /\ seen'[target][h] = seen[Other(target)][h]
      /\ \A x \in Hash : x # h => seen'[target][x] = seen[target][x]
  BY <1>t, <1>4
<1>6. Names(Other(target))' = Names(Other(target))
  BY <1>u, <1>5 DEF Names
<1>7. migrated' = Cardinality(Names(Other(target)) \ names')
  <2> DEFINE done == Names(Other(target)) \ names
  <2>1. done \subseteq Hash /\ h \notin done /\ Names(Other(target)) \ names' = done \cup {h}
    BY <1>1, <1>3 DEF Names
  <2>2. IsFiniteSet(done)
    BY <2>1, FS_Subset, FiniteAssumption
  <2>3. Cardinality(done \cup {h}) = Cardinality(done) + 1
    BY <2>1, <2>2, FS_AddElement
  <2>4. migrated = Cardinality(done)
    BY <1>2 DEF HalfAt
  <2> QED
    BY <1>4, <2>1, <2>3, <2>4
<1>8. ASSUME NEW x \in Hash
      PROVE  /\ Exact(x, seen[Other(target)][x])'
             /\ seen'[target][x] = IF x \in names' THEN None ELSE seen'[Other(target)][x]
  BY <1>1, <1>2, <1>u, <1>5 DEF HalfAt, Exact, Shows
<1>9. HalfAt(target)'
  BY <1>1, <1>2, <1>u, <1>6, <1>7, <1>8 DEF HalfAt
<1> QED
  BY <1>2, <1>4, <1>9 DEF Copying

\* What clients see, and the marks they set and remove, when the entries are
\* where the requests read and write them.
LEMMA ViewingIsExact ==
  ASSUME TypeOK, CachedOK, AllAt(route.seen), Viewing
  PROVE  CachedOK' /\ AllAt(route.seen)'
<1> USE OtherDB
<1>t. /\ route.seen \in DB /\ Other(route.seen) \in DB /\ Other(route.seen) # route.seen
      /\ seen \in [DB -> [Hash -> {None} \cup Viewed]]
      /\ cached \in [Hash -> {None, Uncached} \cup Viewed]
      /\ marks \subseteq Hash \X Index
  BY DEF TypeOK
<1>u. route' = route
  BY DEF Viewing, ListViewed, SetViewed, RemViewed, RemAllViewed
<1>g. ASSUME NEW h \in Hash
      PROVE  /\ Get(h) \in {None} \cup Viewed /\ Exact(h, Get(h))
             /\ ReadIndexes(h) \in Viewed
             /\ \A i \in Index : i \in ReadIndexes(h) <=> <<h, i>> \in marks
  <2>1. Get(h) \in {None} \cup Viewed /\ Exact(h, Get(h))
    BY <1>t DEF Get, CachedOK, AllAt
  <2> QED
    BY <2>1 DEF ReadIndexes, Exact, Shows, Viewed
\* Replacing the entry of one torrent by one that is exact for the new marks.
<1>e. ASSUME NEW h \in Hash, NEW m \in {None} \cup Viewed, NEW c \in {Uncached, m},
             seen' = [seen EXCEPT ![route.seen][h] = m],
             cached' = [cached EXCEPT ![h] = c],
             Shows(marks', h, m),
             \A x \in Hash, i \in Index : x # h => (<<x, i>> \in marks' <=> <<x, i>> \in marks)
      PROVE  CachedOK' /\ AllAt(route.seen)'
  <2>1. ASSUME NEW x \in Hash
        PROVE  /\ cached'[x] # Uncached => Shows(marks', x, cached'[x])
               /\ seen'[Other(route.seen)][x] = None
               /\ Shows(marks', x, seen'[route.seen][x])
    <3>1. seen'[Other(route.seen)][x] = None
      BY <1>t, <1>e DEF AllAt
    <3>2. CASE x = h
      <4>1. cached'[x] = c /\ seen'[route.seen][x] = m
        BY <1>t, <1>e, <3>2
      <4> QED
        BY <1>e, <3>1, <3>2, <4>1
    <3>3. CASE x # h
      <4>1. cached'[x] = cached[x] /\ seen'[route.seen][x] = seen[route.seen][x]
        BY <1>t, <1>e, <3>3
      <4> QED
        BY <1>e, <3>1, <3>3, <4>1 DEF CachedOK, AllAt, Exact, Shows
    <3> QED
      BY <3>2, <3>3
  <2> QED
    BY <1>u, <2>1 DEF CachedOK, AllAt, Exact, Shows
<1>1. ASSUME NEW h \in Hash, ListViewed(h) PROVE CachedOK' /\ AllAt(route.seen)'
  <2>1. UNCHANGED <<seen, marks>> /\ cached' = [cached EXCEPT ![h] = Get(h)]
    BY <1>1 DEF ListViewed, stores, ghosts
  <2>2. CachedOK'
    BY <1>t, <1>g, <2>1 DEF CachedOK, Exact, Shows
  <2> QED
    BY <1>u, <2>1, <2>2 DEF AllAt, Exact, Shows
<1>2. ASSUME NEW h \in Hash, NEW i \in Index, SetViewed(h, i) PROVE CachedOK' /\ AllAt(route.seen)'
  <2>0. PICK m \in Viewed : m = ReadIndexes(h) \cup {i}
    BY <1>g DEF Viewed
  <2>1. /\ m # None
        /\ seen' = [seen EXCEPT ![route.seen][h] = m]
        /\ cached' = [cached EXCEPT ![h] = m]
        /\ marks' = marks \cup {<<h, i>>}
    BY <1>2, <2>0, NoneAssumption DEF SetViewed, SetEntry
  <2>2. Shows(marks', h, m)
    BY <1>g, <2>0, <2>1 DEF Shows
  <2>3. \A x \in Hash, j \in Index : x # h => (<<x, j>> \in marks' <=> <<x, j>> \in marks)
    BY <2>1
  <2> QED
    BY <1>e, <2>1, <2>2, <2>3
<1>3. ASSUME NEW h \in Hash, NEW i \in Index, RemViewed(h, i) PROVE CachedOK' /\ AllAt(route.seen)'
  <2>0. PICK m \in Viewed : m = ReadIndexes(h) \ {i}
    BY <1>g DEF Viewed
  <2>1. /\ m # None
        /\ seen' = [seen EXCEPT ![route.seen][h] = m]
        /\ cached' = [cached EXCEPT ![h] = m]
        /\ marks' = marks \ {<<h, i>>}
    BY <1>3, <2>0, NoneAssumption DEF RemViewed, SetEntry
  <2>2. Shows(marks', h, m)
    BY <1>g, <2>0, <2>1 DEF Shows
  <2>3. \A x \in Hash, j \in Index : x # h => (<<x, j>> \in marks' <=> <<x, j>> \in marks)
    BY <2>1
  <2> QED
    BY <1>e, <2>1, <2>2, <2>3
<1>4. ASSUME NEW h \in Hash, RemAllViewed(h) PROVE CachedOK' /\ AllAt(route.seen)'
  <2>1. /\ seen' = [seen EXCEPT ![route.seen][h] = None]
        /\ cached' = [cached EXCEPT ![h] = Uncached]
        /\ marks' = marks \ ({h} \X Index)
    BY <1>4 DEF RemAllViewed
  <2>2. Shows(marks', h, None)
    BY <2>1 DEF Shows
  <2>3. \A x \in Hash, j \in Index : x # h => (<<x, j>> \in marks' <=> <<x, j>> \in marks)
    BY <2>1
  <2> QED
    BY <1>e, <2>1, <2>2, <2>3
<1> QED
  BY <1>1, <1>2, <1>3, <1>4 DEF Viewing

\* A step that leaves the entries, the marks and what is cached alone.
LEMMA CachedUnchanged == UNCHANGED <<cached, marks>> => CachedOK' = CachedOK
BY DEF CachedOK, Exact, Shows

LEMMA StepMarks ==
  ASSUME Exclusive, Patient, ~Crashes, ~Failures,
         TypeOK, MarksOK, CachedOK, [Next]_vars
  PROVE  MarksOK' /\ CachedOK'
<1> USE OtherDB
<1>r. route.seen \in DB /\ target \in DB /\ BTsets.seen \in DB
  BY DEF TypeOK, BTSets
<1>1. ASSUME Boot PROVE MarksOK' /\ CachedOK'
  <2>1. pc = "down" /\ pc' = "bootSettings" /\ cached' = [h \in Hash |-> Uncached]
        /\ UNCHANGED <<seen, marks>>
    BY <1>1 DEF Boot, stores, ghosts
  <2>2. PICK d \in DB : AllAt(d)
    BY <2>1 DEF MarksOK
  <2>3. AllAt(d)'
    BY <2>1, <2>2, MarksUnchanged
  <2> QED
    BY <2>1, <2>3 DEF MarksOK, CachedOK, AllAt, Exact, Shows
<1>2. ASSUME BootSettings PROVE MarksOK' /\ CachedOK'
  <2>1. /\ pc = "bootSettings" /\ pc' \in {"bootRem", "bootViewed"}
        /\ StartAll(route.seen) /\ UNCHANGED <<seen, marks, route, cached>>
    BY <1>2 DEF BootSettings, MigrateSingle, memory, ghosts
  <2>2. Copying' /\ target' = route'.seen
    BY <1>r, <2>1, StartCopies DEF MarksOK, StartAll
  <2> QED
    BY <2>1, <2>2, CachedUnchanged DEF MarksOK
<1>3. ASSUME BootRem PROVE MarksOK' /\ CachedOK'
  <2>1. /\ pc = "bootRem" /\ pc' = "bootViewed"
        /\ UNCHANGED <<seen, marks, route, cached, target, names, migrated, failed>>
    BY <1>3 DEF BootRem, memory, ghosts
  <2> QED
    BY <2>1, MarksUnchanged, CachedUnchanged DEF MarksOK
<1>4. ASSUME MigrateNext PROVE MarksOK' /\ CachedOK'
  <2>1. /\ pc \in {"bootViewed", "swViewed"} /\ pc' = pc
        /\ UNCHANGED <<marks, route, cached, target>>
    BY <1>4 DEF MigrateNext, memory, ghosts
  <2>2. Copying'
    BY <1>4, <2>1, CopyNext DEF MarksOK
  <2> QED
    BY <2>1, <2>2, CachedUnchanged DEF MarksOK
<1>5. ASSUME BootViewedDone PROVE MarksOK' /\ CachedOK'
  <2>1. /\ pc = "bootViewed" /\ pc' = "bootLoad" /\ names = {}
        /\ seen' = IF migrated > 0 /\ migrated >= Cardinality(Names(Other(target)))
                     THEN Clear(Other(target)) ELSE seen
        /\ UNCHANGED <<marks, route, cached, target>>
    BY <1>5 DEF BootViewedDone, memory, ghosts
  <2>2. Copying /\ target = route.seen
    BY <2>1 DEF MarksOK
  <2>3. ASSUME AllAt(target) PROVE AllAt(target)'
    <3>1. seen' = seen \/ seen' = Clear(Other(target))
      BY <2>1
    <3>2. seen'[target] = seen[target] /\ \A h \in Hash : seen'[Other(target)][h] = None
      BY <1>r, <2>3, <3>1 DEF Clear, TypeOK, AllAt
    <3> QED
      BY <2>1, <2>3, <3>2 DEF AllAt, Exact, Shows
  <2>4. ASSUME HalfAt(target) PROVE AllAt(target)'
    <3>1. migrated = Cardinality(Names(Other(target)))
      BY <2>1, <2>4 DEF HalfAt
    <3>2. CASE migrated > 0
      <4>1. seen' = Clear(Other(target))
        BY <2>1, <3>1, <3>2 DEF TypeOK
      <4> QED
        BY <2>1, <2>4, <4>1, ClearedAt
    <3>3. CASE ~(migrated > 0)
      <4>1. seen' = seen /\ migrated = 0
        BY <2>1, <3>3 DEF TypeOK
      <4>2. IsFiniteSet(Names(Other(target)))
        BY FS_Subset, FiniteAssumption DEF Names
      <4>3. Names(Other(target)) = {}
        BY <3>1, <4>1, <4>2, FS_EmptySet
      <4> QED
        BY <2>1, <2>4, <4>1, <4>3 DEF HalfAt, AllAt, Names, Exact, Shows
    <3> QED
      BY <3>2, <3>3
  <2>5. AllAt(target)'
    BY <2>2, <2>3, <2>4 DEF Copying
  <2>6. AllAt(route.seen)'
    BY <2>1, <2>2, <2>5
  <2> QED
    BY <2>1, <2>6, CachedUnchanged DEF MarksOK
<1>6. ASSUME BootLoad PROVE MarksOK' /\ CachedOK'
  <2>1. pc = "bootLoad" /\ pc' = "bootPrefs" /\ UNCHANGED <<seen, marks, route, cached>>
    BY <1>6 DEF BootLoad, ghosts
  <2>2. AllAt(route.seen)'
    BY <2>1 DEF MarksOK, AllAt, Exact, Shows
  <2> QED
    BY <2>1, <2>2, CachedUnchanged DEF MarksOK
<1>7. ASSUME BootPrefs PROVE MarksOK' /\ CachedOK'
  <2>1. pc = "bootPrefs" /\ pc' = "ready" /\ UNCHANGED <<seen, marks, route, cached>>
    BY <1>7 DEF BootPrefs, ghosts
  <2>2. AllAt(route.seen)'
    BY <2>1 DEF MarksOK, AllAt, Exact, Shows
  <2>3. \E d \in DB : AllAt(d)'
    BY <1>r, <2>1, <2>2 DEF AllAt
  <2> QED
    BY <2>1, <2>2, <2>3, CachedUnchanged DEF MarksOK
<1>8. ASSUME Stop PROVE MarksOK' /\ CachedOK'
  <2>1. pc = "ready" /\ pc' = "down" /\ UNCHANGED <<seen, marks, cached>>
    BY <1>8 DEF Stop, stores, memory, ghosts
  <2>2. \E d \in DB : AllAt(d)'
    BY <2>1, MarksUnchanged DEF MarksOK
  <2> QED
    BY <2>1, <2>2, CachedUnchanged DEF MarksOK
<1>9. ASSUME SaveSettings PROVE MarksOK' /\ CachedOK'
  <2>1. /\ pc = "ready" /\ pc' = "ready" /\ UNCHANGED <<seen, marks, route, cached>>
        /\ BTsets'.seen = BTsets.seen \/ BTsets.seen = route.seen
    BY <1>9 DEF SaveSettings, SetBTSets, Serving, Unhurried, Settled, worker
  <2>2. \E d \in DB : AllAt(d)'
    BY <2>1, MarksUnchanged DEF MarksOK
  <2>3. BTsets'.seen = route'.seen => AllAt(route.seen)'
    BY <2>1 DEF MarksOK, AllAt, Exact, Shows
  <2> QED
    BY <2>1, <2>2, <2>3, CachedUnchanged DEF MarksOK
<1>10. ASSUME Viewing PROVE MarksOK' /\ CachedOK'
  <2>1. /\ pc = "ready" /\ BTsets.seen = route.seen
        /\ UNCHANGED <<pc, route, BTsets>>
    <3>1. Serving /\ Unhurried /\ UNCHANGED <<worker, route, BTsets>>
      BY <1>10 DEF Viewing, ListViewed, SetViewed, RemViewed, RemAllViewed
    <3> QED
      BY <3>1 DEF Serving, Unhurried, Settled, worker
  <2>2. CachedOK' /\ AllAt(route.seen)'
    BY <1>10, <2>1, ViewingIsExact DEF MarksOK
  <2>3. \E d \in DB : AllAt(d)'
    BY <1>r, <2>1, <2>2 DEF AllAt
  <2> QED
    BY <2>1, <2>2, <2>3 DEF MarksOK
<1>11. ASSUME SwitchSettings PROVE MarksOK' /\ CachedOK'
  <2>1. /\ pc = "ready" /\ pc' = "swSettings" /\ BTsets'.seen = BTsets.seen
        /\ UNCHANGED <<seen, marks, route, cached>>
    BY <1>11 DEF SwitchSettings, SetBTSets, ghosts, TypeOK, BTSets
  <2>2. \E d \in DB : AllAt(d)'
    BY <2>1, MarksUnchanged DEF MarksOK
  <2>3. BTsets'.seen = route'.seen => AllAt(route.seen)'
    BY <2>1 DEF MarksOK, AllAt, Exact, Shows
  <2> QED
    BY <2>1, <2>2, <2>3, CachedUnchanged DEF MarksOK
<1>12. ASSUME SwitchSettingsCopy PROVE MarksOK' /\ CachedOK'
  <2>1. /\ pc = "swSettings" /\ pc' = "ready" /\ BTsets' = BTsets
        /\ UNCHANGED <<seen, marks, route, cached>>
    BY <1>12 DEF SwitchSettingsCopy, MigrateSingle, memory, ghosts
  <2>2. \E d \in DB : AllAt(d)'
    BY <2>1, MarksUnchanged DEF MarksOK
  <2>3. BTsets'.seen = route'.seen => AllAt(route.seen)'
    BY <2>1 DEF MarksOK, AllAt, Exact, Shows
  <2> QED
    BY <2>1, <2>2, <2>3, CachedUnchanged DEF MarksOK
<1>13. ASSUME SwitchViewed PROVE MarksOK' /\ CachedOK'
  <2>1. /\ pc = "ready" /\ pc' = "swViewed" /\ StartAll(Other(BTsets.seen))
        /\ UNCHANGED <<seen, marks, cached>>
    BY <1>13 DEF SwitchViewed, stores, memory, ghosts
  <2>2. Copying'
    BY <1>r, <2>1, StartCopies DEF MarksOK
  <2> QED
    BY <2>1, <2>2, CachedUnchanged DEF MarksOK
<1>14. ASSUME SwitchViewedClear PROVE MarksOK' /\ CachedOK'
  <2>1. pc = "swViewed" /\ names = {} /\ Copying /\ UNCHANGED <<marks, cached, target>>
    BY <1>14 DEF SwitchViewedClear, MarksOK, memory, ghosts
  <2>2. pc' = "swPref" /\ seen' = Clear(Other(target))
    BY <1>14, <2>1 DEF SwitchViewedClear, CopyFailed, Copying
  <2>3. CASE AllAt(target)
    <3>1. seen'[target] = seen[target] /\ \A h \in Hash : seen'[Other(target)][h] = None
      BY <1>r, <2>2 DEF Clear, TypeOK
    <3> QED
      BY <2>1, <2>2, <2>3, <3>1, CachedUnchanged DEF MarksOK, AllAt, Exact, Shows
  <2>4. CASE HalfAt(target)
    <3>1. AllAt(target)'
      BY <2>1, <2>2, <2>4, ClearedAt
    <3> QED
      BY <2>1, <2>2, <3>1, CachedUnchanged DEF MarksOK
  <2> QED
    BY <2>1, <2>3, <2>4 DEF Copying
<1>15. ASSUME SwitchViewedPref PROVE MarksOK' /\ CachedOK'
  <2>1. /\ pc = "swPref" /\ pc' = "ready" /\ BTsets'.seen = target
        /\ UNCHANGED <<seen, marks, route, cached, target>>
    BY <1>15 DEF SwitchViewedPref, SetBTSets, Preferring, ghosts, TypeOK, BTSets
  <2>2. AllAt(target)
    BY <2>1 DEF MarksOK
  <2>3. AllAt(target)'
    BY <1>r, <2>1, <2>2 DEF AllAt, Exact, Shows
  <2>4. \E d \in DB : AllAt(d)'
    BY <1>r, <2>1, <2>3 DEF AllAt
  <2>5. BTsets'.seen = route'.seen => AllAt(route.seen)'
    BY <2>1, <2>3
  <2> QED
    BY <2>1, <2>4, <2>5, CachedUnchanged DEF MarksOK
<1>16. CASE UNCHANGED vars
  <2>1. UNCHANGED <<seen, marks, route, cached, BTsets, pc, target, names, migrated, failed>>
    BY <1>16 DEF vars, stores, memory, worker, ghosts
  <2> QED
    BY <2>1, CachedUnchanged DEF MarksOK, AllAt, HalfAt, Copying, Exact, Shows, Names
<1> QED
  BY <1>1, <1>2, <1>3, <1>4, <1>5, <1>6, <1>7, <1>8, <1>9, <1>10, <1>11, <1>12, <1>13, <1>14,
     <1>15, <1>16 DEF Next

\* When no request is served during a switch, no mark read or changed and no
\* storage flag saved between it and the restart it asks for, the server stops
\* only between requests and no write of a migration fails, clients are shown exactly the marks they set and did not
\* remove, after any number of switches of either storage, of saved flags and of
\* restarts (SwitchViewedStorage, safeMigrateAll, DBReadCache).
THEOREM MarksAreShown ==
  ASSUME Exclusive, Patient, ~Crashes, ~Failures
  PROVE  Spec => []MarksAreExact
<1>1. Init => MarksOK /\ CachedOK
  BY OtherDB DEF Init, MarksOK, CachedOK, AllAt, Exact, Shows, DB
<1>2. IInv /\ MarksOK /\ CachedOK /\ [Next]_vars => MarksOK' /\ CachedOK'
  BY StepMarks DEF IInv
<1>3. TypeOK /\ MarksOK /\ CachedOK => MarksAreExact
  <2> SUFFICES ASSUME TypeOK, MarksOK, CachedOK, pc = "ready", Settled,
                      NEW h \in Hash, NEW i \in Index
               PROVE  i \in ReadIndexes(h) <=> <<h, i>> \in marks
    BY DEF MarksAreExact
  <2>1. AllAt(route.seen)
    BY DEF MarksOK, Settled
  <2>2. Exact(h, Get(h))
    BY <2>1 DEF AllAt, CachedOK, Get
  <2> QED
    BY <2>2 DEF ReadIndexes, Exact, Shows
<1>4. IInv => TypeOK
  BY DEF IInv
<1> QED
  BY StorageIInv, <1>1, <1>2, <1>3, <1>4, PTL DEF Spec
=============================================================================
