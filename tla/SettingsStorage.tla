--------------------------- MODULE SettingsStorage ---------------------------
(***************************************************************************)
(* Where the settings and the watch marks are stored                        *)
(* (src/server/settings): the two databases, the migrations between them    *)
(* when the server starts (InitSets) and when a client changes the storage  *)
(* (SwitchSettingsStorage, SwitchViewedStorage), and the requests that save *)
(* settings and marks meanwhile.  The server may stop between any two       *)
(* writes.  One write of a database is one step.                            *)
(***************************************************************************)
EXTENDS Integers, FiniteSets

CONSTANTS
  Hash,       \* torrents with watch marks: the names under "Viewed"
  Index,      \* files of a torrent
  Val,        \* the contents of BTSets, the two storage flags apart
  Default,    \* the one SetDefaultConfig makes
  Width,      \* length of each content as JSON
  None,       \* nil: no entry
  Uncached,   \* no entry in DBReadCache.dataCache
  Exclusive,  \* no request is served while the storage is switched
  Patient,    \* between a switch and the restart it asks for no mark is read or
              \* changed and no storage flag saved
  Crashes,    \* the server may stop between two steps, not only when idle
  Failures,   \* a write of a migration may fail (it is only logged)
  Switches,   \* which storages clients switch
  Toggles     \* saved settings may carry other storage flags

ASSUME FiniteAssumption == IsFiniteSet(Hash)
ASSUME ValAssumption == Default \in Val /\ Width \in [Val -> Nat]

DB == {"bbolt", "json"}
Other(d) == IF d = "json" THEN "bbolt" ELSE "json"

ASSUME OptionAssumption ==
  /\ {Exclusive, Patient, Crashes, Failures, Toggles} \subseteq BOOLEAN
  /\ Switches \subseteq {"Settings", "Viewed"}

\* BTSets: StoreSettingsInJson, StoreViewedInJson and the rest.
BTSets == [val : Val, sets : DB, seen : DB]
\* An entry of "Viewed": the files marked.
Viewed == SUBSET Index

ASSUME NoneAssumption ==
  /\ \A m \in Viewed : m # None /\ m # Uncached
  /\ \A s \in BTSets : s # None
  /\ None \notin Val
  /\ None # Uncached

PCs == {"down", "bootSettings", "bootRem", "bootViewed", "bootLoad",
        "bootPrefs", "ready", "swSettings", "swViewed", "swPref"}

VARIABLES
  conf,     \* "Settings"/"BitTorr" in each database
  seen,     \* "Viewed" in each database
  route,    \* the database each is routed to
  cached,   \* dataCache for "Viewed"
  BTsets,   \* the settings in memory
  pc,       \* what the goroutine of InitSets or of a switch does next
  target,   \* the database it migrates to
  names,    \* names MigrateAll has not reached
  migrated, \* its migratedCount
  failed,   \* firstError # nil
  marks,    \* history: files marked and not unmarked
  saved,    \* history: the content a client saved last
  leftover, \* history: a switch, a failed copy or a stop left both databases
            \* with settings, and none was removed since
  forked    \* history: the content saved last was saved over such a leftover,
            \* or a copy of it failed

stores == <<conf, seen>>
memory == <<route, cached, BTsets>>
worker == <<pc, target, names, migrated, failed>>
ghosts == <<marks, saved, leftover, forked>>
vars == <<stores, memory, worker, ghosts>>

TypeOK ==
  /\ conf \in [DB -> {None} \cup BTSets]
  /\ seen \in [DB -> [Hash -> {None} \cup Viewed]]
  /\ route \in [sets : DB, seen : DB]
  /\ cached \in [Hash -> {None, Uncached} \cup Viewed]
  /\ BTsets \in BTSets
  /\ pc \in PCs /\ target \in DB
  /\ names \subseteq Hash /\ migrated \in Nat /\ failed \in BOOLEAN
  /\ marks \subseteq Hash \X Index /\ saved \in Val \cup {None}
  /\ leftover \in BOOLEAN /\ forked \in BOOLEAN

\* SetDefaultConfig.
DefaultConfig == [val |-> Default, sets |-> "json", seen |-> "bbolt"]

Init ==
  /\ conf = [d \in DB |-> None]
  /\ seen = [d \in DB |-> [h \in Hash |-> None]]
  /\ route = [sets |-> "json", seen |-> "bbolt"]
  /\ cached = [h \in Hash |-> Uncached]
  /\ BTsets = DefaultConfig
  /\ pc = "down" /\ target = "json"
  /\ names = {} /\ migrated = 0 /\ failed = FALSE
  /\ marks = {} /\ saved = None
  /\ leftover = FALSE /\ forked = FALSE

-----------------------------------------------------------------------------
(* Migrating                                                                *)

\* Length of an entry as JSON: "true" is shorter than "false".
Length(s) == Width[s.val] + (IF s.sets = "json" THEN 4 ELSE 5)
                          + (IF s.seen = "json" THEN 4 ELSE 5)

\* isByteArraysEqualJson: the loop over the bytes leaves the comparison at
\* the first difference, and what follows it returns true all the same.
IsEqualJson(s, t) == Length(s) = Length(t)

\* MigrateSingle has something to copy into d.
Migrates(d) ==
  /\ conf[Other(d)] # None
  /\ conf[d] # None => ~IsEqualJson(conf[Other(d)], conf[d])

\* Mutant of Verified: the copy is not read back.
VerifiedBlindly(ok) == TRUE

\* verifyMigration, of an entry whose write may have failed.
Verified(ok) == ok

\* Outcomes of a write during a migration.
Writes == IF Failures THEN BOOLEAN ELSE {TRUE}

\* MigrateSingle of the settings into d; pcOf says what follows.
MigrateSingle(d, done, skipped) ==
  \/ /\ ~Migrates(d)
     /\ pc' = skipped
     /\ UNCHANGED <<conf, leftover, forked>>
  \/ /\ Migrates(d)
     /\ \E ok \in Writes :
          /\ conf' = IF ok THEN [conf EXCEPT ![d] = conf[Other(d)]] ELSE conf
          /\ pc' = IF Verified(ok) THEN done ELSE skipped
          /\ leftover' = (leftover \/ ~ok)
          /\ forked' = (forked \/ ~ok)

\* MigrateAll lists the names under "Viewed" of the other database.
Names(d) == {h \in Hash : seen[d][h] # None}
StartAll(d) ==
  /\ target' = d
  /\ names' = Names(Other(d))
  /\ migrated' = 0
  /\ failed' = FALSE

\* MigrateAll copies the next name, unless the target has it already.
MigrateNext ==
  /\ pc \in {"bootViewed", "swViewed"}
  /\ \E h \in names :
       /\ names' = names \ {h}
       /\ \/ /\ seen[Other(target)][h] = None \/ seen[target][h] # None
             /\ UNCHANGED <<seen, migrated, failed>>
          \/ /\ seen[Other(target)][h] # None /\ seen[target][h] = None
             /\ \E ok \in Writes :
                  /\ seen' = IF ok THEN [seen EXCEPT ![target][h] = seen[Other(target)][h]]
                                   ELSE seen
                  /\ IF Verified(ok) THEN migrated' = migrated + 1 /\ UNCHANGED failed
                                     ELSE failed' = TRUE /\ UNCHANGED migrated
  /\ UNCHANGED <<conf, memory, pc, target, ghosts>>

\* Clear("Viewed").
Clear(d) == [seen EXCEPT ![d] = [h \in Hash |-> None]]

-----------------------------------------------------------------------------
(* InitSets                                                                 *)

\* determineStoragePreferences: the settings found first, JSON before BBolt,
\* say where both are stored; the environment may when there are none.
Boot ==
  /\ pc = "down"
  /\ \/ \E d \in DB :
          /\ conf[d] # None
          /\ d = "bbolt" => conf["json"] = None
          /\ route' = [sets |-> conf[d].sets, seen |-> conf[d].seen]
     \/ /\ \A d \in DB : conf[d] = None
        /\ route' \in [sets : DB, seen : DB]
  /\ pc' = "bootSettings"
  /\ cached' = [h \in Hash |-> Uncached]
  /\ UNCHANGED <<stores, BTsets, target, names, migrated, failed, ghosts>>

\* safeMigrate of the settings, then safeMigrateAll of the marks.
BootSettings ==
  /\ pc = "bootSettings"
  /\ MigrateSingle(route.sets, "bootRem", "bootViewed")
  /\ StartAll(route.seen)
  /\ UNCHANGED <<seen, memory, marks, saved>>

\* Mutant of Removed: safeMigrate leaves the source as it is.
RemovedNot(d) == conf

\* The entry of d is removed.
Removed(d) == [conf EXCEPT ![d] = None]

\* safeMigrate clears the source.
BootRem ==
  /\ pc = "bootRem"
  /\ conf' = Removed(Other(route.sets))
  /\ pc' = "bootViewed"
  /\ leftover' = FALSE
  /\ UNCHANGED <<seen, memory, target, names, migrated, failed, marks, saved, forked>>

\* safeMigrateAll clears the source once every name of it was migrated.
BootViewedDone ==
  /\ pc = "bootViewed" /\ names = {}
  /\ seen' = IF migrated > 0 /\ migrated >= Cardinality(Names(Other(target)))
               THEN Clear(Other(target)) ELSE seen
  /\ pc' = "bootLoad"
  /\ UNCHANGED <<conf, memory, target, names, migrated, failed, ghosts>>

\* loadBTSets.
Loaded(d) == IF conf[d] = None THEN DefaultConfig ELSE conf[d]

\* setupDatabaseRouting, loadBTSets: the defaults are saved when there are none.
BootLoad ==
  /\ pc = "bootLoad"
  /\ BTsets' = Loaded(route.sets)
  /\ conf' = [conf EXCEPT ![route.sets] = Loaded(route.sets)]
  /\ pc' = "bootPrefs"
  /\ UNCHANGED <<seen, route, cached, target, names, migrated, failed, ghosts>>

\* SetBTSets keeps the settings and writes them where they are routed.
SetBTSets(s) ==
  /\ BTsets' = s
  /\ conf' = [conf EXCEPT ![route.sets] = s]

\* "Update preferences if they changed."
BootPrefs ==
  /\ pc = "bootPrefs"
  /\ IF [sets |-> BTsets.sets, seen |-> BTsets.seen] # route
       THEN SetBTSets([BTsets EXCEPT !.sets = route.sets, !.seen = route.seen])
       ELSE UNCHANGED <<BTsets, conf>>
  /\ pc' = "ready"
  /\ UNCHANGED <<seen, route, cached, target, names, migrated, failed, ghosts>>

\* The server stops or is killed; what it wrote stays.
Stop ==
  /\ pc # "down" /\ (Crashes \/ pc = "ready")
  /\ pc' = "down"
  /\ leftover' = (leftover \/ pc = "bootRem")
  /\ UNCHANGED <<stores, memory, target, names, migrated, failed, marks, saved, forked>>

-----------------------------------------------------------------------------
(* Requests                                                                 *)

\* The storage is the one the settings ask for.
Settled == route = [sets |-> BTsets.sets, seen |-> BTsets.seen]

\* When requests are served.
Serving ==
  /\ pc \in {"ready", "swSettings", "swViewed", "swPref"}
  /\ Exclusive => pc = "ready"
Unhurried == Patient => Settled

\* POST /settings, and SetDefSettings: the client may have toggled the flags.
SaveSettings ==
  /\ Serving
  /\ \E s \in BTSets :
       /\ (Toggles /\ Unhurried) \/ (s.sets = BTsets.sets /\ s.seen = BTsets.seen)
       /\ SetBTSets(s)
       /\ saved' = s.val
       /\ forked' = leftover
  /\ UNCHANGED <<seen, route, cached, worker, marks, leftover>>

\* DBReadCache.Get of an entry of "Viewed".
Get(h) == IF cached[h] = Uncached THEN seen[route.seen][h] ELSE cached[h]
\* readIndexes.
ReadIndexes(h) == IF Get(h) = None THEN {} ELSE Get(h)

\* ListViewed reads an entry, which is cached from then on.
ListViewed(h) ==
  /\ Serving /\ Unhurried
  /\ cached' = [cached EXCEPT ![h] = Get(h)]
  /\ UNCHANGED <<stores, route, BTsets, worker, ghosts>>

\* DBReadCache.Set of an entry of "Viewed".
SetEntry(h, m) ==
  /\ cached' = [cached EXCEPT ![h] = m]
  /\ seen' = [seen EXCEPT ![route.seen][h] = m]

\* SetViewed marks a file.
SetViewed(h, i) ==
  /\ Serving /\ Unhurried
  /\ SetEntry(h, ReadIndexes(h) \cup {i})
  /\ marks' = marks \cup {<<h, i>>}
  /\ UNCHANGED <<conf, route, BTsets, worker, saved, leftover, forked>>

\* RemViewed of one file.
RemViewed(h, i) ==
  /\ Serving /\ Unhurried
  /\ SetEntry(h, ReadIndexes(h) \ {i})
  /\ marks' = marks \ {<<h, i>>}
  /\ UNCHANGED <<conf, route, BTsets, worker, saved, leftover, forked>>

\* RemViewed of a torrent (FileIndex -1).
RemAllViewed(h) ==
  /\ Serving /\ Unhurried
  /\ cached' = [cached EXCEPT ![h] = Uncached]
  /\ seen' = [seen EXCEPT ![route.seen][h] = None]
  /\ marks' = marks \ ({h} \X Index)
  /\ UNCHANGED <<conf, route, BTsets, worker, saved, leftover, forked>>

-----------------------------------------------------------------------------
(* POST /storage/settings, under dbMigrationLock                            *)

\* SwitchSettingsStorage saves the flag where the settings are now ...
SwitchSettings ==
  /\ pc = "ready" /\ "Settings" \in Switches
  /\ target' = Other(BTsets.sets)
  /\ SetBTSets([BTsets EXCEPT !.sets = Other(BTsets.sets)])
  /\ pc' = "swSettings"
  /\ leftover' = TRUE
  /\ UNCHANGED <<seen, route, cached, names, migrated, failed, marks, saved, forked>>

\* ... and copies the entry; the source keeps its own.
SwitchSettingsCopy ==
  /\ pc = "swSettings"
  /\ MigrateSingle(target, "ready", "ready")
  /\ UNCHANGED <<seen, memory, target, names, migrated, failed, marks, saved>>

\* SwitchViewedStorage lists the names to copy (MigrateNext) ...
SwitchViewed ==
  /\ pc = "ready" /\ "Viewed" \in Switches
  /\ StartAll(Other(BTsets.seen))
  /\ pc' = "swViewed"
  /\ UNCHANGED <<stores, memory, ghosts>>

\* Mutant of CopyFailed: the error of MigrateAll is dropped.
CopyFailedIgnored == FALSE

\* err # nil.
CopyFailed == failed

\* ... clears the source unless one failed ...
SwitchViewedClear ==
  /\ pc = "swViewed" /\ names = {}
  /\ IF CopyFailed
       THEN pc' = "ready" /\ UNCHANGED seen
       ELSE pc' = "swPref" /\ seen' = Clear(Other(target))
  /\ UNCHANGED <<conf, memory, target, names, migrated, failed, ghosts>>

\* Mutant of Preferring: the settings keep naming the source.
PreferringOld(d) == BTsets

\* The settings with StoreViewedInJson updated.
Preferring(d) == [BTsets EXCEPT !.seen = d]

\* ... and updates the preference.
SwitchViewedPref ==
  /\ pc = "swPref"
  /\ SetBTSets(Preferring(target))
  /\ pc' = "ready"
  /\ UNCHANGED <<seen, route, cached, target, names, migrated, failed, ghosts>>

-----------------------------------------------------------------------------
Viewing ==
  \E h \in Hash :
    \/ ListViewed(h)
    \/ \E i \in Index : SetViewed(h, i) \/ RemViewed(h, i)
    \/ RemAllViewed(h)

Next ==
  \/ Boot \/ BootSettings \/ BootRem \/ MigrateNext \/ BootViewedDone
  \/ BootLoad \/ BootPrefs \/ Stop
  \/ SaveSettings \/ Viewing
  \/ SwitchSettings \/ SwitchSettingsCopy
  \/ SwitchViewed \/ SwitchViewedClear \/ SwitchViewedPref

Spec == Init /\ [][Next]_vars

-----------------------------------------------------------------------------
(* Properties                                                               *)

\* A torrent with a mark is in one of the databases, also after a crash or a
\* failed write in the middle of a migration: the clears of safeMigrateAll and
\* SwitchViewedStorage come after every name was copied.
HashIsKept == \A m \in marks : \E d \in DB : seen[d][m[1]] # None

\* Once settings were saved, one of the databases has some: a migration that
\* stops or fails half-way never leaves the next start with the defaults only.
SettingsStored == saved # None => \E d \in DB : conf[d] # None

\* After any number of switches and restarts clients are shown exactly the
\* marks they set and did not remove, provided (StorageQuiet.cfg) none is set or
\* removed while a switch copies nor between it and the restart, no migration is
\* cut short and none of its writes fails: marks do get lost in those cases.
MarksAreExact ==
  pc = "ready" /\ Settled =>
    \A h \in Hash, i \in Index : i \in ReadIndexes(h) <=> <<h, i>> \in marks

\* The settings in effect are the ones saved last, through switches of either
\* storage, restarts and stops in the middle of a migration, unless they were
\* saved over a leftover or a copy of them failed.  (SwitchSettingsStorage leaves
\* the source its copy, as does a stop before safeMigrate clears it.  A later
\* start prefers that copy, copies it over the settings saved since or takes it
\* for equal; and after a failed copy it loads the defaults.)
LastSavedIsLoaded == pc = "ready" /\ saved # None /\ ~forked => BTsets.val = saved
=============================================================================
