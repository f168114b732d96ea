# TorrServer: TLA+ models, model checking and proofs

TorrServer streams torrents over HTTP. A request names a torrent and a file; the server adds the
torrent to a BitTorrent client, waits for its metadata, opens a reader over a bounded cache of
pieces, and drops the torrent again when nobody uses it. Around that engine are the settings (two
databases, switchable at run time), the list of default trackers fetched from the network, a
GStreamer transcoder, a Telegram bot, search databases and several front ends, the largest of which
is a browser interface written with React.

This directory holds TLA+ models of the concurrent and persistent core and of the browser
interface, the TLC configurations that check them, and TLAPS proofs. Paths below are relative to the root of the repository;
`server/...` is short for `src/server/...`, and `components/...` for `src/web/src/components/...`. `PROJECT.json` maps every definition to the lines it
models, lists the runs, the mutants that show each property can fail, the findings, the hazards
and the theorems.

    tlc -workers 2 -config Reader.cfg MCTorrReader      model-check one configuration
    tlapm EngineProofs.tla                              check one module of proofs

## 1. Inventory

### Components, their state and how they interact

| Component | State | Operations | Talks to |
|---|---|---|---|
| Torrent engine (`server/torr`) | `bt.torrents`, `bt.client`, `Torrent.Stat`, `expiredTime`, the library handle | AddTorrent, GetTorrent, LoadTorrent, GotInfo, WaitInfo, Preload, Stream, progressEvent (watcher), Close, drop, SetSettings, Connect, Disconnect | the library (calls and channels), the piece cache, the torrent database, the retrackers |
| Readers (`torr/storage/torrstor/reader.go`) | `offset`, `isUse`, `inFlight`, `readahead`, the position of the library's reader | newReader, Seek, Read, Close, checkReader, SetReadahead | the piece cache's sweep and AdjustRA; HTTP streams, FUSE, WebDAV |
| Piece cache (`torr/storage/torrstor`) | pieces with size, completeness and access time, the set of readers, `filled`, the map of caches | OpenTorrent, CloseHash, WriteAt, ReadAt, cleanPieces, getRemPieces, setLoadPriority, clearPriority, priorityWatchdog | the library (piece priorities and completion), readers |
| Retrackers cache (`torr/utils/torrent.go`) | `loadedTrackers`, `trackersFetchGen`, `prefetchStartedGen` | PrefetchTrackers, InvalidateTrackersCache, refresh loop | the network; SetSettings and Connect |
| Settings stores (`server/settings`) | two databases (bbolt, JSON files), the routes, `BTsets` | InitSets, SetBTSets, SwitchSettingsStorage, SwitchViewedStorage, MigrateSingle, MigrateAll | every component reads `BTsets` |
| Read cache of the database (`settings/dbreadcache.go`) | `dataCache`, `listCache` | Get, Set, List, Rem, Clear | the databases; torrent list, marks, settings |
| Torrent database and marks (`settings/torrent.go`, `viewed.go`) | the entries "Torrents" and "Viewed" | AddTorrent, ListTorrent, RemTorrent, SetViewed, RemViewed, ListViewed | the read cache |
| GStreamer service and tasks (`server/gstreamer`) | the map of tasks, probe cache, per-task runner, segment position, frozen and disposed flags | GetOrAdd, Get, WithSegment, FreezeIfInactive, cleanupInactive, Dispose | the engine, over its own HTTP port; a native pipeline |
| Telegram upload manager (`tgbot/upload`) | queue, working set, cancel flags | AddRange, Cancel, work | the engine, Telegram |
| Web server (`server/web`) | listeners, the wait channel, renewal loop | Start, Wait, Stop, splitTLS | everything |
| Firewall and certificates (`web/waf`, `web/sslcerts`) | a snapshot of the lists, the pair of files | Update, Reload, RenewLoop | the JSON settings file |
| Rutor search (`server/rutor`) | the list and its index, `isStop` | Start, Stop, updateDB, Search | the network, `BTsets` |
| Browser: add dialog (`components/Add`) | source, hash, title, poster and what the user did to them, debounced searches, the rows of dropped files | type, pick, clear, save, drop files, remove a row, add all | posts to the engine, polls the list, searches posters |
| Browser: settings dialog (`components/Settings`) | a copy of the settings, sliders, Pro mode, the tab; the panel of the certificate; players in localStorage; the cached TMDB settings | open, change, reset, save, run a certificate request | SetSettings, certificates, the poster search |
| Browser: forms with a save of their own (same directory) | the access lists, the GStreamer settings, the storage; the shared query of the GStreamer runtime | load, edit, save, reset, leave | firewall, GStreamer service, settings stores |
| Browser: card, details, player (`components/TorrentCard`, `DialogTorrentDetailsContent`, `VideoPlayer.jsx`) | resolved files, audio tracks, unsupported players, the open dialog, up to one player per place; what the buttons show, Hls.js, the heartbeat | resolve, choose, open, close, control; details and back | the engine and the GStreamer service by HTTP |
| Front ends (`web/api`, `mcp`, `dlna`, `torrfs`, `msx`, `tgbot`) | none of their own, or caches with a time limit | decode, call, format | the engine and the settings |

`PROJECT.json` lists 31 components with their source files and says of each that is not modelled
why.

### What is hard

* **Interleavings.** A request runs through half a dozen critical sections of `bt.mu` and
  `muTorrent`, waits on two channels in between, and competes with other requests for the same
  hash, the one-second watcher of each torrent, and SetSettings, which drops everything and
  replaces client, map and storage. Locks protect single fields, not sequences.
* **Stale decisions.** The sweep decides to park a reader before it takes the reader's lock; a
  fetch of trackers stores what it read before the settings changed; the read cache fills itself
  with what the database held a moment ago; a cleanup evicts pieces chosen from old positions.
* **Crashes and partial failure.** A migration between databases is a sequence of writes that a
  kill or a failing write may cut anywhere; the next start has to find every entry.
* **Retries and timeouts.** WaitInfo gives up while metadata, a drop or a reconfiguration
  arrives; Connect is retried while the port is busy, and two saves of the settings may each be
  in the middle of it.
* **Callbacks.** In the browser every answer, timer and poll runs a closure that remembers the
  state of an earlier render, finds the component changed, reused for something else or gone, and
  changes state that triggers further effects.
* **Liveness.** Idle torrents must be closed, SetSettings must end, a parked reader must get its
  readahead back, a list of trackers must catch up with the settings.

### What makes each component correct

* Engine: a closed torrent stays closed, leaves the map and releases its download; an open one
  can be found, dropped and expired; a torrent runs only in a client that is connected; requests
  and reconfigurations end.
* Readers: whatever the sweep does, a stream reads on from where its own calls left it.
* Piece cache: pieces in the window of a reader are not evicted, the cache shrinks back to its
  capacity, a reader that waits always has a piece with a priority.
* Retrackers: a cached list is not older than the settings it is cached for, and catches up.
* Settings stores: nothing is lost in a crash, nothing comes back from the dead, what was saved
  last is what is in effect after a restart.
* Read cache: nobody can tell it from the database.
* Add dialog: what is saved belongs together (title, poster, file), whatever answers come late;
  the dialog closes once its torrent is there.
* Settings dialog and forms: a save sends what the user chose and nothing else, a form shows what
  the server has, edits are not lost without a question, nothing stays locked.
* Card and player: one film plays at a time, everything a player holds is released with it, its
  buttons tell the truth, a card that is gone is silent.

## 2. Modules

| Module | Models | Proofs |
|---|---|---|
| `TorrentLifecycle` | the engine: `torrent.go`, `btserver.go`, `apihelper.go`, `preload.go`, `stream.go` | `EngineProofs` |
| `TorrReader` | `reader.go`, and the sweep and AdjustRA as far as they touch a reader | `EngineProofs` |
| `TrackersCache` | the cache of default trackers in `torr/utils/torrent.go` | `TrackersCacheProofs` |
| `SettingsStorage` | `settings.go`, `migrate.go`, `xpathdbrouter.go`, `viewed.go` as far as storage is concerned | `SettingsStorageProofs` |
| `DBReadCache` | `dbreadcache.go` | `DBReadCacheProofs` |
| `KVStore` | the abstract map that `DBReadCache` implements | |
| `WebMultiAddDialog` | `components/Add/MultiAddDialog.jsx` | |
| `WebAddDialog` | `components/Add/AddDialog.jsx` with its two sides and `helpers.js`; extends the former: both are one dialog | `WebAddDialogProofs` |
| `SettingsShell` | the frame of the settings dialog: tabs, Pro mode, the question before edits are discarded | |
| `WebSettings` | the settings dialog, its panels and the poster search beside it; extends `SettingsShell` | `WebSettingsProofs` |
| `WebForms` | `WAFSettings.jsx`, `GStreamerSettings.jsx`, `SecondarySettingsComponent.jsx`; extends `SettingsShell` | `WebFormsProofs` |
| `WebVideoPlayer` | `VideoPlayer.jsx` | `WebTorrentCardProofs` |
| `WebTorrentCard` | `TorrentCard/index.jsx` and the details dialog; extends `WebVideoPlayer`, one player per place | `WebTorrentCardProofs` |

`MC<Module>` instantiates a module for TLC: model values, symmetry sets and the functions a
configuration cannot write.

### TorrentLifecycle

`Tor` and `Handle` are pools of Torrent objects and library torrents; `Proc` are goroutines, each
idle or inside one request or one tick of a watcher; `Saver` are goroutines that save settings. `stat` is `Torrent.Stat`, `handle` the field
`Torrent.Torrent`, `closedCh` the handle whose `Closed()` channel the torrent keeps, `torrents`
the map `bt.torrents`, `caches` the map of the storage, `hst` and the other `h...` variables the
torrent library, which is external. A cache is named by the handle that opened it, a client and its
storage by the `epoch` of their Connect. `crew` says which of the goroutines a behaviour has. Between two
releases of a lock there is one action:

* NewTorrent is `NewTorrentAdd` (the library torrent, under the read lock) and
  `NewTorrentInsert` (the map, under the write lock, looked up again);
* GotInfo is `GotInfo` (the switch on Stat), `WaitInfo`, `WaitInfoGot`, `WaitInfoFailed`,
  `GotInfoDone`; WaitInfo ends with the metadata, the closed channel or its timeout, and its
  callers react differently;
* Close is `CloseMark` (Stat, with the refusal of a read-only server), `CloseDelete` (the map
  entry of the hash, whatever it holds) and `CloseDrop` (two steps: `drop` fires the closed
  channel and then waits, holding `muTorrent`, for the library to close the storage);
* SetSettings is `SetSettings` (the snapshot), `DropAll`, `Disconnect`, `Connect` (which may
  fail and is retried). Neither it nor the handler of the request takes a lock around these steps,
  so each saver has a place (`apc`), a snapshot (`todo`) and a torrent being dropped (`ator`) of its
  own, and saves overlap. `orphaned` is a history: the clients that a Connect of one save replaced
  without closing them, because another save had connected them.

The time of expiry is one bit, `fresh`, that every use sets and `ExpireTime` clears at any moment.

### TorrReader

`offset`, `isUse` and `inFlight` are the fields of Reader, `pos` is the position of the
library's reader, `ahead` whether the library reads ahead. A seek is four steps: `Seek` writes
`r.offset` without the lock, `SeekBegin` claims and resumes, `SeekMove` is the library's Seek,
`SeekEnd` writes the result and releases; a read likewise. `CheckReader` is the decision of the
sweep, taken without the lock, `ReaderOn` and `ReaderOff` what follows from it under the lock.
AdjustRA reads `isUse` in one step and tells the library in the next. `want` is a history
variable: the position that a client's own calls amount to. A client of `Pread` seeks and reads
in one call (a FUSE or WebDAV read), the others as an HTTP stream does. `ReaderOf` says who uses
which reader; a file handle of FUSE that is read twice at a time would map two clients to one.

### TrackersCache

Settings are a version number; a list of trackers is known by the versions its URLs and its local
part were read from, its generation, and the version for which that generation was opened (a
history). The counter of generations is under no lock, so `Clear` (of the list) and `Bump` are two
steps, and so are the comparison of the generation under `trackersMu` and the write. The network
answers, or fails, at any time.

### SettingsStorage

`conf` and `seen` are what each database holds under "Settings" and "Viewed"; `route` is where
requests go, `cached` the read cache, `pc` the step of the one goroutine that boots the server or
switches a storage. `Stop` ends the server between any two steps when `Crashes`, and a write of
a migration may fail when `Failures`. `IsEqualJson` does what `isByteArraysEqualJson` does: it
compares lengths. `marks` and `saved` are histories of what clients asked for, `leftover` and `forked` of where
it went: a switch, a failed copy or a stop left settings in both databases; and the settings saved last were
saved over such a leftover, or a copy of them failed.
Options say what clients do: `Exclusive` (no request while a switch runs), `Patient` (between a switch
and the restart that it asks for no mark is read or changed and no storage flag saved; other
settings are), `Switches` (which storages they switch), `Toggles` (settings saved with other
storage flags).

Assumptions: one write of a database is one step, so a kill in the middle of `os.WriteFile` is not
in this model; the server is not read-only; `TS_MIGRATION_MODE` is not set; the entry of the
settings is not cached (it is read at the start only).

### DBReadCache and KVStore

One step per critical section of the cache and per call of the database, so that the fill after
a miss, the three steps of Set and Rem and those of Clear interleave. `path` is the path of the
entries: "Torrents", whose callers hold `settings.mu`, or "Viewed", whose callers hold nothing. `raced`
and `listRaced` are histories: the names, and the list, whose last write overlapped another call
on them. `KVStore` is the promise: a map that every call reads or changes at one instant.
`DBReadCache` refines it with `store <- db` under "Torrents"; under "Viewed" it does not, and the
abstract variables are held constant.

### The browser interface

JavaScript runs one thing at a time, so a step is an event handler, the callback of a promise or of
a timer, or the answer of a query, together with all the renders and effects it triggers: React
runs these before the next event. Outside of an event handler (React 17) every set renders on its
own, and where the effects of one set matter for the next the operators follow that order
(`TitleFromSource`). What a closure remembers is part of the request it belongs to (`chosen` and
`refresh` of a search, `at` and `listed` of a row). The state of a component is forgotten when it is
unmounted, its requests go on unless the code cancels them. The server handles a request and the
page gets its answer in two steps; requests fail, and in `WebForms` get lost on either way.

* *WebAddDialog.* `d` holds the hooks, the fetches and the debounced searches of the dialog; the
  steps of the network are `HashFound`, `NameFound`, `PostersFound`, those of the timers
  `DebounceEnds`, the poll is `getTorrents`. `posts` outlive the dialog. A poster is named by the title it was found for,
  so that `PosterIsOfTitle` can compare. `revoked` is a history: the user took the choice of a poster
  back while searches were on their way.
* *WebMultiAddDialog.* A row asks (`asks`) for its hash, its name and a poster, by its place
  (`at`); `of` is the file it was mounted for. `mixed` is a history: a row was removed while one at
  or behind its place was asking, the case in which the code does confuse rows.
* *WebSettings.* The controls are listed tab by tab with the type of their input
  (`MainControls`, `SearchControls`, `AdditionalControls`), which decides what the handler does with them.
  `asked` in a save is a history of what the user chose, setting by setting. The panel's requests and
  the lookups of the TMDB settings are numbered, as in `WebForms`; an answer may get lost after the
  server has handled the request. `fetched` and `untold` are histories: how the TMDB settings in the
  cache were fetched ("early" if the answer was given before a save that was clicked already, or
  was clicked before the answer came), and that the server changed the certificate and its answer got lost.
* *WebForms.* Any number of requests are on their way at once and overtake each other. Histories:
  `chosen`, the fields the user changed, or reset, since the form was filled; `told`, that the mounted form
  was filled with what the server has and nothing has changed that behind it; `missed`, that the page
  was not told of a change of the GStreamer settings, or only while it fetched what was there before;
  in a save, what was `chosen` and whether it is `behind`. Requests are numbered: an answer
  takes one away and leaves the numbers of the others.
* *WebTorrentCard and WebVideoPlayer.* A player has what its buttons show and, while its dialog is
  in the page, the `<video>` element with its own state and the events on their way. The places
  of a card are the trigger in place of the button, the player that was selected, and a row of the
  table of the details for each film. The short table of narrow pages, hidden on others by style
  sheets, is left out. `opened` and `crossed` are histories of a player: how often it was opened, and that its
  slider was moved up over a muted video, or a video unmuted with the slider at 0. `hasty` is a history: the user opened a player, or asked for one, while the
  card was resolving another, or chose an audio track in a menu that came back beside a player.

## 3. Runs

| Run | Instance | Shows |
|---|---|---|
| `lifecycle_steady` | 1 hash, 2 torrents, 2 handles, 3 goroutines that serve requests, no save, read-only server | an open torrent is the one in the map; a closed one has released its download; nothing goes through GettingInfo twice |
| `lifecycle_live` | 1 hash, 1 torrent, two requests and one save, or one request and two saves; two calls of Connect | closed is final; a closed torrent is in the map only while its closer is about to delete it; a torrent runs only in a connected client, or in one that was replaced unclosed; requests proceed; SetSettings ends, also with a failing Connect; idle torrents are closed until the settings change |
| `lifecycle_orphan` | 1 hash, 2 torrents, 2 requests, a change of the settings | **violated**: an idle torrent can always be found by its watcher |
| `reader` | 2 readers, a stream and a Pread client, a sweep, an AdjustRA | reads are where they were asked; nothing moves a read; parking remembers; readahead comes back |
| `trackers` | 3 goroutines, a change of the settings, the refresh loop | the local part is current, and the remote part but in a list of the refresh loop; no list is replaced by an older generation; a list of the last settings is cached in the end and stays |
| `storage_crash` | 2 hashes, both switches, toggles, crashes, failing writes | a torrent with marks is never in neither database; nor are saved settings |
| `storage_quiet` | 2 hashes, 2 files, 2 contents, both switches, toggles | after a switch and a restart exactly the marks set are shown, and the settings saved last are in effect unless they were saved over a leftover copy |
| `cache` | 2 names, 1 value, 2 goroutines, both paths | the cache agrees with the database between calls, but for what an overlapping write left; under the lock it implements `KVStore` |
| `web_add` | a magnet, a bare hash, a link and a typo; two dropped files; a title | posters belong to the title, rows keep their own, saves and uploads close the dialog |
| `web_settings` | one control of every kind, a key, a Torznab host, two players | a save sends what was asked, keeps the certificate, and posters are then looked up with the stored key, or with the built-in one exactly if the fetch failed; answers get lost; the panel of the certificate unlocks |
| `web_forms` | one access list, a number and a switch of GStreamer, both stores, requests that overtake each other, get lost or are refused | unsaved edits are known, forms show and change what they should, the runtime is fetched again, no form stays busy |
| `web_card` | a film the browser plays, one GStreamer plays too, and two of them | one player, everything released, the controls tell (sound included), a gone card is silent, no button stays disabled |

Every property of a passing run has a mutant in `PROJECT.json`: a plausible bug in one
definition (a dropped comparison, a lock kept, a reset forgotten), under which TLC finds the
property violated. The type invariants are not among the properties of the runs: those of the
server's modules are part of the invariants proved in section 4; those of the browser's modules
(`TypeOK` in each) document the state and hold in the configurations above when added to them.

### Why these bounds are enough

* One hash is enough for the engine: the only state that two hashes share is `bt.client`, and
  different hashes never meet in the map, the storage or the library. Two torrents and two
  handles are the old and the new one of every race here; three goroutines are a request, a
  watcher and a closer at once. The pools are not reused: `PoolsLeft` lets a request start
  only while objects are left for it, so a behaviour has at most two generations of a torrent.
  `MaxEpoch` bounds the calls of Connect: in `lifecycle_live` one change whose first Connect
  fails, or two changes, one after the other or overlapping. `Crews` bounds who is there at a time: two
  requests and a save are the races of requests with a change, a request and two saves those of the
  changes. Requests to AddTorrent are left out there: a torrent is added by `NewTorrent` alone,
  which LoadTorrent and the others reach too, and what AddTorrent does beyond that reaches no other state.
* Liveness is checked with one torrent, without symmetry.
* Two readers are needed for the sweep to park one at all. A file of one or two units has a
  beginning, an end and a seek between them; positions are only compared.
* A cached list, an overtaken fetch and the fetch of the current generation are three goroutines;
  one change of the settings (`MaxVersion`) makes the older generation. Several invalidations
  may follow it.
* Two names let MigrateAll stop half-way. `storage_crash` needs no second content (no property of
  it reads one), `storage_quiet` has two of different lengths and both switches, so that
  a switch and back, a stop in between and a save over what is left are all reached.
* The read cache works name by name except for List and Clear; two names show both. An overlap is
  one of two calls; a third could only overlap one of them.
* The browser's components have no parameters but what is shown in them, so bounds concern values
  and the length of what a user does. `MaxEdits` and `MaxActions` are five or four: enough to open
  a dialog, change two things, save, and leave or open it again while requests are on their way,
  which is what every confusion here takes. `MaxInList` leaves four of five for the list of
  dropped files (drop, remove, type, add), `Drops` is two files, one for each hash. Answers and
  timers are not bounded but by the requests made. `InOrder` lets answers come in the order of the requests: out of
  order the last poster wins whatever it is for (section 5).
* `Visited` are the tabs that hold a panel of the module, `ProModes` the Pro mode, in which every
  tab exists and which the user may leave; `GstBuilds` empty leaves the question of the GStreamer tab out where no panel depends on it.
  `Positions` and `Typed` are one new value of a slider and an empty or other number in its field;
  `Fields` has one switch shown upside down, two that depend on each other, a number and a
  text. `Patient` users do not save, reset or change settings, nor open the dialog, while a change of the
  certificate runs, nor open it while a save does, nor reset before the settings have arrived; the
  network is not patient: requests fail and answers get lost, also with such a user.
* `Flags`, `Positive`, `Numbers`, `Versions` are a switch, a field where 0 means the default, two
  numbers and an empty or higher version. `MaxFetches` is one query of the runtime besides those that
  a save causes, so that one can be running when it is invalidated. `Unavailable` is what the page keeps
  after an answer with an error status. Five actions are a form that is edited, saved, left, mounted
  again and saved again while the first save is on its way.
* `Torrents` and `Runtimes` make every button of a card: one film with and without GStreamer, and a
  menu. `MaxAttempts` is two of the sixty attempts: one that waits, one that is the last.
  `MaxChanges` (three) lets the list and the runtime arrive, or the cache come, go and come back, which
  is what it takes to bring a menu back beside a player; `MaxEvents` two
  events of an element, a play and a pause; `Speeds` two.
* One run of the add dialog is too short for the case that `revoked` excludes: it takes seven actions
  of the user and was found by the proof, which covers any number of them.

### Fairness

* A goroutine that can take its next step does (weak fairness of `Step`): nothing here
  spins, and mutexes in Go are not held across an unbounded wait except in `drop`, which is
  modelled.
* The library closes what was dropped (`CloseStorage`).
* The ticker of a watcher fires again and again; its goroutine is one of the pool, which may be
  busy in between, hence strong fairness.
* The steps of a tracker goroutine are strongly fair: `sync.RWMutex` lets no writer starve and
  each request to the network ends after five seconds at the latest.
* AdjustRA walks every reader once a second (strong fairness of its first step, as a reader may
  be closed and the goroutine busy).
* No request, metadata, sweep or expiry is ever assumed to happen.
* In the browser requests are handled and answered, or fail, timers fire and the list is polled
  (weak fairness): axios and fetch settle when the connection does. In `WebForms` the fairness is
  of all of them together, not of each request: as long as there are requests some are handled or
  answered. No user is assumed to do anything.

## 4. Proofs

TLAPS proves, for every number of hashes, torrents, handles, goroutines, readers, names, values
and versions:

| Theorem | States | Assumes |
|---|---|---|
| `TypeCorrect`, `ClosedIsDeleted`, `ClosedForGood` | the type invariant, `ClosedInMapHasCloser` and `ClosedIsFinal` of the engine, settings changes included | |
| `SteadyOpenIsMapped` | `OpenIsMapped` between two settings changes | |
| `StreamsAreNotShifted`, `ReadsAreNotMoved`, `ParkingRemembers` | `ReadsWhereAsked`, `ReadIsNotMoved`, `ParkedRemembers` | one client for each reader; no relative seeks |
| `LocalTrackersAreCurrent`, `ListNeverGoesBack` | `LocalIsCurrent`, `NeverGoesBack` | |
| `RemoteTrackersAreCurrent` | `RemoteIsCurrent`, which leaves out the lists that the refresh loop stored | |
| `ClosedHoldsNothing` | `ClosedIsReleased` of the engine, settings changes included | |
| `LiveTorrentsHaveClient` | `LiveHasClient` of the engine, for any number of saves that overlap | the property leaves out clients that are `orphaned` |
| `InfoIsGotOnce` | `NoGettingInfoAgain` between two settings changes | |
| `SettingsAreStored` | `SettingsStored`, crashes and failing writes included | |
| `MarkedHashesAreKept` | `HashIsKept`, crashes and failing writes included | no request is served while a switch runs |
| `LastSettingsAreLoaded` | `LastSavedIsLoaded`, both switches, crashes, failing writes and concurrent requests included | the property leaves out settings that are `forked` |
| `MarksAreShown` | `MarksAreExact` | no crash, no failing write, no request during a switch, no mark read or changed nor storage flag saved between it and the restart |
| `RowsKeepTheirs` | `RowsAreTheirs` of the add dialog, for any sources, files and number of edits | `RowsAreTheirs` itself leaves out rows removed while one at or behind their place asks |
| `PostersAreOfTitles` | `PosterIsOfTitle` of the add dialog, for any number of edits | answers come in the order of the requests; the property leaves out dialogs with `revoked` |
| `EditsAreKnown` | `DirtyIsKnown` of the forms | |
| `FormsShowTheServer`, `PageKnowsTheServer`, `SavesOnlyWhatWasChosen` | `ShownIsStored`, `RuntimeIsFresh`, `NothingUnchosen` of the forms, for any lists, fields and numbers and any requests on their way | the properties leave out forms not `told`, a page that `missed` a change, and saves that are `behind` |
| `KeyIsFresh` | `TmdbIsFresh` of the settings dialog, for any user | the property leaves out keys fetched "early" |
| `SaveIsWhatWasAsked`, `CertSurvivesSaves` | `SavesWhatWasAsked`, `CertIsKept` of the settings dialog, for any fields, values and number of edits | the user is `Patient`; None is not a record; the second property leaves out what follows an answer that got lost (`untold`) |
| `OneFilmPlays` | `OnePlayer` of a card and its details | the property leaves out behaviours that are `hasty` |
| `NothingIsLeftRunning`, `ButtonsTell`, `GoneIsQuiet` | `PlayersAreReleased`, `ControlsTell`, `GoneAsksNothing` | `ControlsTell` speaks of players opened once on one source, and of their sound unless `crossed` |
| `TorrentsSeeKVStore` | under "Torrents" `DBReadCache` implements `KVStore` | callers hold `settings.mu`, as the code's do |
| `CacheIsCoherent` | `Coherent`, under either path | the property leaves out names that were `raced`, and the list if it was |

The last column names the cases in which the model, and the code, does otherwise; section 5 lists what happens
then. Nothing else is assumed besides
what modules and theorems name of the constants (nil is no value nor a record, they have their types).

The arguments:

* *Engine.* `TypeOK` is inductive only with `LocalsOK` (a goroutine past its lookup has a
  torrent that is allocated) and `HashOK` (an allocated torrent and a library torrent know their
  hash, and the map holds a torrent under its own hash). `ClosedIsDeleted` adds that the one
  goroutine between marking and deleting knows which entry it will delete; `SteadyOpenIsMapped`
  that, as long as the map is not replaced, that entry can only be the torrent being closed.
  `ClosedHoldsNothing` rests on `HandlesOK` (a torrent keeps the handle it was made with until that has
  been dropped) and on drop being a critical section: whoever is between its two parts, a request
  (`DropperOK`) or SetSettings (`AdminOK`), holds the lock, alone, and finds the handle.
  `LiveTorrentsHaveClient` follows the client of each torrent: only the client of the last Connect
  takes torrents, Disconnect closes the torrents of that one, and a Connect that finds a client
  puts it among the orphaned ones. It is inductive beside the type invariant. `InfoIsGotOnce` needs
  `OpenHasHandle` (only Close forgets a handle, of a torrent that is marked) and `WorkingHasInfo`: what
  left GettingInfo has its metadata for good, and so has what WaitInfo found it for.
* *Readers.* `Claimed` says that a reader inside an I/O is counted and not parked; `Agrees` says,
  for each point of a call, how `want`, `offset` and the library's position are related: equal
  while in use, the library at 0 while parked, `offset` ahead of the library between the unlocked
  write and the seek. The sweep can act only where `inFlight` is 0, and there parking and resuming
  take one form of the relation to the other.
* *Trackers.* A fetch has read its parts no earlier than its generation was opened, a write is
  preceded by a comparison under the lock, and an overtaken writer can be followed by, but never
  follow, a later one, because clearing takes the lock too.
* *Settings.* Before a source is cleared each of its names was passed by MigrateAll and either was
  copied and verified or has set the error; at the start the count of copies has to reach the
  number of names, and a lemma about cardinalities shows that only all of them can.
  `LastSettingsAreLoaded` rests on `KeptOK`: unless forked, every database that has settings has those saved
  last (`SameOK`), one of them has where the start looks (`FoundOK`), and they are in memory from then on
  (`LoadedOK`); without a leftover only one database has any (`AloneOK`), which is what a save needs
  in order not to fork. `MarksAreShown` does so for
  the marks: at each step one database alone has them (`AllAt`), or those that MigrateAll has passed are
  copied and counted and the rest are still only in the source (`HalfAt`), and what is cached is
  what is stored.
* *Read cache.* `DataFresh`, `ListFresh` and `OnWay` say what cache and database have in common at each
  step of a call, for the names whose last write met no other call; `Apart` says that calls which overlap
  are on record. With the lock only one goroutine is inside a call and nothing is raced (`Holder`); then only the step that reads or writes the
  database, or answers, is a step of `KVStore`, the others stutter.

* *Rows.* `RowsAreTheirs` is not inductive: an answer comes for a place. `AsksAreTheirs` adds
  that, until rows were mixed up, the file at the place asked for is the one asked about, and that a
  row found in the list has its torrent on the server, which the list of a poll is always behind
  (`PollIsBehind`). Removing a row leaves those in front of it alone, and asks again for the others;
  every other step either leaves list and requests, forgets them, or updates one row.
* *Posters.* `PosterIsOfTitle` speaks of a dialog at rest, `Settled` of what will bring it there: the
  debounced search that is still to start, or else the last one on its way, or else the poster itself
  is for what the title fields say. `Tidy`: while no poster is chosen, and none was given up with
  searches under way, no search is left that was made during a choice.
* *Settings dialog.* The dialog and the server change the settings and the certificate in turn, and
  `IInv` says whose turn it is. While a save is on its way the dialog has no settings, at most waits for
  them, and nothing else is on its way that alters or reads them (`PostsOK`). While a change of the certificate is on
  its way it is the only one, and the settings are still those of the click, over which the answer is spread
  (`RunsOK`); otherwise they have the server's certificate or none, unless an answer got lost (`CertOK`). `AskedOK` ties what
  the controls show to what was asked. `KeyIsFresh` has an invariant of its own, `KeyInv`, without any
  condition on the user: what is cached, or was answered for the cache and knows of every save, is the
  server's key. Sending and answering requests rests on lemmas about numbers (`NumberIsFree`, `SentIs`).
* *Forms.* Requests overtake each other, so the invariant speaks of each request alone
  (`RequestsKeep`): an answer that nothing has put behind is what the server has (`AnswerOK`), and
  a save that nothing has put behind differs from that at most in what was chosen (`SaveOK`).
  A form that was told differs from the server only in what was chosen, and sends what it shows (`FilledOK`);
  what the server has is what it would make of it (`ServerOK`). A page that is neither stale, nor about to be
  told, nor has missed a change knows what the server has, and so does its fetch (`KnownOK`), of which there is
  one at most (`OneFetch`). A change moves all of these at once; `Moved` says what it leaves.
  Requests are a function of numbers, so that an answer leaves the others alone.
* *Card.* `PlayerOK` says of each place how far its buttons are behind the element: one
  toggle for each event on its way; the sound has no events. For `OneFilmPlays`, `CardInv` adds `AsksOK` (an answer that may still
  select a player is the only one, and nothing plays meanwhile) and `MenuOK` (the menu of a torrent
  with several films is open only if none of them plays in the table, whatever happens to its button).

Only model-checked: all liveness (`RequestsProceed`, `SettingsFinish`, `ExpiredIsClosed`,
`ReadaheadRestored`, `EventuallyCurrent`, `SavedCloses`, `SslUnlocks`, `BusyEnds`,
`ResolvingEnds`), as neither fairness nor ENABLED is supported by the
prover. Every safety invariant and action property of the passing runs is stated by a theorem.

Two proofs failed for a reason, and TLC confirmed it beyond the bounds of the runs: `OnePlayer` and
`PosterIsOfTitle` did not hold as they were first stated. The two histories `hasty` and `revoked` name the cases.

## 5. Findings and limits

One run shows the code doing what its tests say it does not:

* `lifecycle_orphan`: Close deletes `bt.torrents[hash]` whatever it holds
  (`server/torr/torrent.go:374`). A request that kept a Torrent across a settings change closes
  the old object and removes the new one from the map, which then downloads on and is never closed.

Other behaviour that the models contain, and that the properties therefore exclude by an
assumption, leave out by a history, or do not promise:

* LoadTorrent leaves the torrent Added when WaitInfo times out: it is then expired by no
  watcher until a GotInfo. After a settings change GotInfo of an old torrent starts again.
* Seek from the current position adds the distance to `r.offset` before it resumes a parked reader
  there, and the library adds it again (`server/torr/storage/torrstor/reader.go:55`): reads after
  a relative seek are not where they were asked. `Whence` allows it; the run and the theorems leave
  it out.
* `isByteArraysEqualJson` takes any two entries of one length for identical
  (`server/settings/migrate.go:288`), so a switch does not copy such settings.
* Two FUSE reads of one handle share a reader, and their seeks interleave.
* The refresh loop reads the URLs before the generation it stores under, so its list may come from
  old URLs; two overlapping invalidations may start a fetch each for the same settings.
* SetSettings takes no lock (`server/torr/apihelper.go:247-302`, `server/web/api/settings.go:48-55`). Of two
  saves that overlap one may call Connect while the client of the other is connected: the old client is
  replaced without being closed and its torrents run on, out of reach, or, if that Connect fails, bt.client is
  nil while they run (`orphaned`).
* SwitchSettingsStorage leaves the source entry, and a stop between the steps of a start leaves both. Settings
  saved over such a leftover copy may be lost at a later start (switch, restart, save, restart brings the
  old ones back); a copy that fails at the start makes the server load and save the defaults (`forked`).
  A mark set while SwitchViewedStorage copies may be cleared with the source. Between a switch and the restart
  requests for marks still go to the database that was cleared.
* The marks are read and written without `settings.mu`. Then `DBReadCache` is not coherent: a fill may overwrite what a Set has just cached, a Set what another wrote later
  (`raced`, `listRaced`). `server/mcp/README.md:113` counts on a mark being seen
  by the next request.
* The certificate: an answer that gets lost after the server made the certificate leaves the dialog's copy
  of the settings without it, and Save brings the old one back
  (`components/Settings/HTTPSSettings.jsx:56-63`). So does a save clicked while a change of the certificate runs,
  and the change brings back settings that were edited after its click. A dialog opened while a save runs
  copies the settings from before it, and a reset before they have arrived is undone by their arrival.
* The TMDB settings: a lookup that was answered before a save, and arrives after it, keeps the old key. A
  failed fetch is kept like an answer, with the built-in key, until the next save clears it
  (`components/Add/helpers.js:56`).
* The forms of the settings: a form saved before its fetch has ended, or after that failed, overwrites the server
  with built-in values (`components/Settings/GStreamerSettings.jsx:138`). So does, with what was there before, a form
  that was filled by an answer from before another change, or whose fetch is answered while it saves. A form that was
  left while its save was on its way changes the server behind the one that is mounted next.
* The runtime query of GStreamer: invalidated while a fetch runs that was answered with the old configuration, it keeps that one
  as fresh. If the answer to a change gets lost, or the refetch of a reset fails, the page is not
  told. An error status is cached as "not built in" for a minute (`src/web/src/utils/GStreamer.js:11`), and a reset whose refetch
  ends with one reports success (`GStreamerSettings.jsx:195-206`).
* The add dialog: removing a row while another asks hands its poster to the next file. The dialog for a
  `torrs://` source never closes by itself, and answers of the network that overtake each other set the
  hash or the poster of an earlier text (`InOrder` is FALSE). A choice of a poster that is taken back while
  searches are on their way can leave the poster of an earlier title: the answer of a search that was made
  before the choice is shown, that of the last title, made during it, is not
  (`components/Add/AddDialog.jsx:141`, `:174`).
* The player: one that is opened again, or that gets another source, shows its buttons as they were left. A slider moved up
  over a muted video sets the button to "unmuted" and leaves `video.muted`; a video unmuted with the slider at
  0 stays silent under a button that says it is heard (`components/VideoPlayer.jsx:377-386`).
* The card: a player opened, or asked for, while the card resolves another may play beside it
  (`hasty`). The menu of audio tracks stays open while its button is gone, and comes back with it, over a player
  that was opened meanwhile: choosing a track then plays two films
  (`components/TorrentCard/index.jsx:415`). The card forgets that a base player is
  unsupported when an audio track of it was (`:345`).

## 6. Not modelled

Transfer rates and statistics, titles and posters, HTTP headers and ranges, the byte loops of
Preload, the parsing of links and torrent files, the wire protocol and the piece picker of the
library (external), MP4 and subtitle formats, the native GStreamer pipeline, chat messages, the
page shell, lists, search and about dialogs of the browser interface, packaging. Of the browser's
modules: layout, captions, categories, subtitles, the seek bar, and fields and switches
that are handled like one that is modelled. Front ends without state of their own appear as the requests they
make. The reasons are in `PROJECT.json` under "components".

Hazards of the parts that are not modelled, for the plan below: a FUSE read is a seek and a read of a
shared reader (`server/torrfs/fuse/fuse.go:317`); `os.WriteFile` truncates first, so a kill leaves an
unreadable file (`server/settings/jsondb.go:181`); CloseDB clears caches without their locks
(`dbreadcache.go:28`); AddTorrent, SetViewed and RemViewed write back what they read before
(`torrent.go:33`, `viewed.go:35`); cleanPieces releases pieces chosen from old positions, priorities
are set by piece traffic only, a piece is marked complete while it is released, newReader writes
into a map that Close set to nil, CloseHash deletes an entry twice (`torrstor/cache.go:254`, `:98`,
`:335`, `piece.go:55`, `reader.go:42`, `storage.go:57`); GetOrAdd shares and inserts tasks built
without the lock (`gstreamer/service.go:104`, `:146`); AddRange waits with queueLock
(`tgbot/upload/manager.go:64`); Stop of Rutor overtakes Start (`rutor/rutor.go:52`); Stop sends on a
channel that is received from once (`web/server.go:265`).

## 7. Plan

In order of importance; each module comes with an MC module, a type invariant, the properties
named, a mutant for each and, where it says so, a theorem. A configuration answers one question, and
the set is kept small: as components are added, questions about one component share a run where
their instances allow it.

1. `TorrCache`, composed with `TorrReader` by INSTANCE: pieces (size, complete, accessed),
   `cleanPieces` from a list of candidates, priorities, the watchdog, `removeCache`. Properties:
   a piece in the window of a reader in use is evicted only if the reader has moved there since;
   an empty piece is not complete; a reader in use always gets a priority again (liveness); a
   cache opened later is not removed by the close of an earlier one. Theorem: eviction respects
   windows that do not move. Pure operators `mergeRange`, `inRanges` and `isIdInFileBE` checked
   against their set definitions over bounded ranges.
2. `TorrentDB` and `Viewed` over `KVStore`: the read-modify-write of AddTorrent, SetViewed,
   RemViewed and the mark that Stream sets. Properties: no mark and no torrent is lost, none
   comes back. Theorem under `settings.mu` around the whole sequence, a run without it.
3. `GstService` and `GstTask`: creation outside the lock, singleflight, replacement, eviction,
   freezing, disposal. Properties: at most MaxTasks, no runner without an owner after Dispose,
   no segment from a disposed runner, GetOrAdd ends. Theorem: no runner leaks.
4. `WebServer`: listeners, the wait channel, Stop. Properties: Stop ends, no connection is
   accepted after it.
5. `UploadManager`: queue, working set, cancellation. Properties: a cancelled upload does not
   start; a slow AddRange does not stop the others.
6. `RutorDB`: Start, Stop and updates. Property: disabled means empty.
7. `SettingsFile`: torn writes of the JSON file that settings and firewall share. Property: an
   update of one keeps the other, also across a kill.
8. Browser: `SearchDialog` and the list of torrents.
9. Proofs: the safety properties of the modules above, with their modules.
