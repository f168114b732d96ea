--------------------------- MODULE WebTorrentCard ---------------------------
(***************************************************************************)
(* The card of a torrent in the browser interface                          *)
(* (components/TorrentCard/index.jsx): how its "Play" button gets to a     *)
(* player.                                                                 *)
(*                                                                         *)
(* The files of a torrent are known from the list that the page polls,     *)
(* from the data kept with it, or by asking the server until it has them.  *)
(* A torrent with one film offers it at once, with a choice of audio       *)
(* tracks if GStreamer plays it; one with several offers a menu.  The card *)
(* holds up to two players: the one with a trigger of its own in place of  *)
(* the button, and the one that was selected.                              *)
(*                                                                         *)
(* Its dialogs cover it.  The one with the details polls the cache of the  *)
(* torrent and has a table with a player for each film (components/        *)
(* DialogTorrentDetailsContent).                                           *)
(*                                                                         *)
(* The short table, which style sheets show instead on narrow pages, has   *)
(* the players of HLS streams only, and is left out.                       *)
(*                                                                         *)
(* Titles, seasons, captions and links are left out, and the requests that *)
(* drop or delete the torrent: what they lead to may happen at any time.   *)
(* The dialog that edits is WebAddDialog.                                  *)
(***************************************************************************)
EXTENDS WebVideoPlayer, Sequences

CONSTANTS
  Files,        \* files that can be played
  Torrents,     \* bound: which of them a torrent has
  Tracks,       \* the indices of the audio tracks of each, as the server probes them
  Runtimes,     \* bound: what the page may learn of GStreamer
  Unavailable,  \* what it takes for granted before
  MaxAttempts,  \* requestTorrentFiles: 60 attempts
  MaxChanges,   \* bound on changes of what the page tells the card
  MaxActions    \* bound on what the user does

Runtime == [builtIn : BOOLEAN, plays : SUBSET Files]

ASSUME CardAssumption ==
  /\ Place = {"trigger", "selected"} \cup Files /\ {"trigger", "selected"} \cap Files = {} /\ IsFiniteSet(Files)
  /\ Torrents \subseteq SUBSET Files /\ {} \notin Torrents /\ Tracks \in [Files -> Seq(Nat)]
  /\ Unavailable = [builtIn |-> FALSE, plays |-> {}] /\ Runtimes \subseteq Runtime
  /\ MaxAttempts \in Nat \ {0} /\ {MaxChanges, MaxActions} \subseteq Nat

VARIABLES
  films,       \* the playable files of the torrent
  card,        \* the state of the component
  known,       \* where its files are known from: "list", "data"
  gstRuntime,  \* what the page knows of GStreamer
  asks,        \* requests of the card that are not answered, and pauses between them
  hasty,       \* history: the user opened a player, or asked for one, while the card was resolving another,
               \* or chose an audio track while another player was open
  changes, actions

vars == <<playerVars, films, card, known, gstRuntime, asks, hasty, changes, actions>>

-----------------------------------------------------------------------------
(* What a card offers.                                                      *)

\* createPlayer: "gst" or "stream".
createPlayer(f, rt) == [file |-> f, hls |-> rt.builtIn /\ f \in rt.plays, audio |-> None]

playerWithAudio(src, audio) == [src EXCEPT !.audio = audio]

fileList(c, from) == IF from = {} /\ ~c.resolved THEN {} ELSE films

players(c, from, rt) == {createPlayer(f, rt) : f \in fileList(c, from)}

available(c, from, rt) == players(c, from, rt) \ c.unsupported

\* The four things that may be in place of the button.
Button(c, from, rt) ==
  LET all == players(c, from, rt)
      single == Cardinality(all) = 1 /\ all \subseteq available(c, from, rt)
  IN  CASE single /\ \E src \in all : src.hls -> "audio"
        [] single /\ \E src \in all : ~src.hls -> "trigger"
        [] Cardinality(all) > 1 /\ available(c, from, rt) # {} -> "episodes"
        [] rt.builtIn /\ ~c.playerResolveFailed /\ all = {} -> "resolve"
        [] OTHER -> "playlist"

Shows(b) == card.mounted /\ Button(card, known, gstRuntime) = b

\* markPlayerUnsupported.
markPlayerUnsupported(c, key) ==
  [c EXCEPT !.unsupported = @ \cup {key}, !.selected = IF @ = key THEN None ELSE @]

\* The players of a render.  One that cannot play what it is given says so when it is mounted.
Marked(c, from, rt) ==
  LET one == IF c.selected # None /\ ~canPlay(c.selected) THEN markPlayerUnsupported(c, c.selected) ELSE c
      all == players(one, from, rt)
  IN  IF Button(one, from, rt) = "trigger" /\ \E src \in all : ~canPlay(src)
      THEN markPlayerUnsupported(one, CHOOSE src \in all : TRUE) ELSE one

Kept(p, src, initiallyOpen) ==
  IF player[p] # None /\ player[p].src = src THEN player[p] ELSE Player(src, initiallyOpen)

\* A player of the table is known by its row: given another source, an open one starts again,
\* and its effect makes another Hls object.
Given(p, src) ==
  IF player[p] = None THEN Player(src, FALSE)
  ELSE IF player[p].src = src THEN player[p]
  ELSE [player[p] EXCEPT !.src = src, !.video = IF @ = None THEN None ELSE Element,
                         !.opened = IF player[p].open THEN 2 ELSE @,
                         !.loading = @ \/ (player[p].open /\ src.hls), !.parsed = FALSE]

\* The dialog shows a spinner instead of everything while it knows nothing of the cache.
Loading(c, from) ==
  [c EXCEPT !.isLoading = IF ~c.cache THEN TRUE ELSE @ /\ "list" \notin from]

\* The players of the table.
Table(c, from, rt) ==
  IF c.dialog = "details" /\ ~c.isLoading /\ ~c.isDetailedCacheView /\ "list" \in from
  THEN {f \in films : canPlay(createPlayer(f, rt))} ELSE {}

Rendered(d, from, rt) ==
  LET b == Button(d, from, rt)
      all == players(d, from, rt)
      table == Table(d, from, rt)
  IN  [p \in Place |->
        CASE p = "trigger" /\ d.mounted /\ b = "trigger" -> Kept(p, CHOOSE src \in all : TRUE, FALSE)
          [] p = "selected" /\ d.mounted /\ d.selected # None -> Kept(p, d.selected, TRUE)
          [] p \in table /\ d.mounted -> Given(p, createPlayer(p, rt))
          [] OTHER -> None]

Render(c, from, rt) ==
  /\ card' = Loading(Marked(c, from, rt), from) /\ known' = from /\ gstRuntime' = rt /\ UNCHANGED films
  /\ Mounted(Rendered(card', known', gstRuntime'))

Shown(c) == Render(c, known, gstRuntime)

\* setOpenEpisodeMenuAfterResolve: an effect opens the menu if there is a button for it.
OpenedAfter(c, from, rt) ==
  IF c.openAfter /\ Button(c, from, rt) = "episodes"
  THEN [c EXCEPT !.episodeMenu = TRUE, !.openAfter = FALSE] ELSE c

-----------------------------------------------------------------------------
(* The page.                                                                *)

Quiet == changes < MaxChanges /\ changes' = changes + 1

\* The list is polled: the server has the files of a torrent while it is open.
ListArrives ==
  /\ Quiet /\ card.mounted
  /\ LET from == IF "list" \in known THEN known \ {"list"} ELSE known \cup {"list"}
         same == fileList(card, known) = fileList(card, from)
     IN  Render(IF same THEN card ELSE OpenedAfter(card, from, gstRuntime), from, gstRuntime)
  /\ UNCHANGED <<asks, hasty, actions>>

RuntimeArrives ==
  /\ Quiet /\ card.mounted
  /\ \E rt \in Runtimes \ {gstRuntime} : Render(card, known, rt)
  /\ UNCHANGED <<asks, hasty, actions>>

\* useUpdateCache: every 100 ms; a request that fails leaves an empty cache.
CacheArrives ==
  /\ Quiet /\ card.mounted /\ card.dialog = "details"
  /\ Shown([card EXCEPT !.cache = ~@])
  /\ UNCHANGED <<asks, hasty, actions>>

\* The torrent is removed, or the page shows others.
Unmount ==
  /\ card.mounted
  /\ Render([card EXCEPT !.mounted = FALSE], known, gstRuntime)
  /\ UNCHANGED <<asks, hasty, changes, actions>>

-----------------------------------------------------------------------------
(* Audio tracks.                                                            *)

\* Without tracks the player is selected at once, else the menu opens on its button.
showAudioTracks(c, src, tracks, anchored) ==
  IF tracks = <<>> THEN [c EXCEPT !.selected = playerWithAudio(src, 0)]
  ELSE [c EXCEPT !.audioMenuPlayer = src, !.audioMenu = anchored \/ Button(c, known, gstRuntime) = "audio"]

Probe(src, anchored, inner) ==
  [kind |-> "probe", src |-> src, anchored |-> anchored, inner |-> inner]

\* resolveAudioTracks up to its request, with the tracks known to the render it was called in.
resolveAudioTracks(c, src, anchored, inner, cached) ==
  IF cached[src.file] # None
  THEN [card |-> showAudioTracks(c, src, cached[src.file], anchored), asks |-> {}]
  ELSE [card |-> [c EXCEPT !.isResolvingAudio = TRUE], asks |-> {Probe(src, anchored, inner)}]

\* finally, of resolveAudioTracks and of resolvePlayers, which waits for it.
Resolved(c, inner) ==
  [c EXCEPT !.isResolvingAudio = FALSE, !.isResolvingPlayers = @ /\ ~inner]

\* Mutant of ProbeFailed: the error is not caught.
ProbeFailedUncaught(c, a) == c

\* The first track is taken.
ProbeFailed(c, a) == Resolved([c EXCEPT !.selected = playerWithAudio(a.src, 0)], a.inner)

ProbeArrives(a) ==
  /\ a.kind = "probe" /\ asks' = asks \ {a}
  /\ IF ~card.mounted THEN UNCHANGED <<playerVars, films, card, known, gstRuntime>>
     ELSE \/ Shown(ProbeFailed(card, a))
          \/ LET t == Tracks[a.src.file]
                 c == [card EXCEPT !.audioTracksByFile[a.src.file] = t]
             IN  Shown(Resolved(showAudioTracks(c, a.src, t, a.anchored), a.inner))
  /\ UNCHANGED <<hasty, changes, actions>>

-----------------------------------------------------------------------------
(* Files.                                                                   *)

\* A render keeps what it knew until its promises are done: rt and cached.
Get(left, rt, cached) == [kind |-> "get", left |-> left, rt |-> rt, cached |-> cached]

Wait(a) == [a EXCEPT !.kind = "wait"]

\* Mutant of Started: the button stays as it is.
StartedIdle(c) == [c EXCEPT !.playerResolveFailed = FALSE]

Started(c) == [c EXCEPT !.isResolvingPlayers = TRUE, !.playerResolveFailed = FALSE]

\* loadedPlayers: one is played, several are offered, none is a failure.
Loaded(c, a) ==
  LET loaded == {createPlayer(f, a.rt) : f \in films}
      src == CHOOSE s \in loaded : TRUE
      d == [c EXCEPT !.resolved = TRUE]
      done == [d EXCEPT !.isResolvingPlayers = FALSE]
  IN  CASE Cardinality(loaded) > 1 -> [card |-> OpenedAfter([done EXCEPT !.openAfter = TRUE], known, gstRuntime), asks |-> {}]
        [] Cardinality(loaded) = 1 /\ ~src.hls -> [card |-> [done EXCEPT !.selected = src], asks |-> {}]
        [] OTHER -> LET r == resolveAudioTracks(d, src, FALSE, TRUE, a.cached)
                    IN  IF r.asks = {} THEN [r EXCEPT !.card = Resolved(@, TRUE)] ELSE r

FilesFailed(c) == [c EXCEPT !.playerResolveFailed = TRUE, !.isResolvingPlayers = FALSE]

\* requestTorrentFiles: once a second until there are any, or nobody waits any more.
FilesArrive(a) ==
  /\ a.kind = "get"
  /\ IF ~card.mounted THEN asks' = asks \ {a} /\ UNCHANGED <<playerVars, films, card, known, gstRuntime>>
     ELSE \/ a.left > 1 /\ asks' = (asks \ {a}) \cup {Wait(a)} /\ UNCHANGED <<playerVars, films, card, known, gstRuntime>>
          \/ a.left <= 1 /\ asks' = asks \ {a} /\ Shown(FilesFailed(card))
          \/ asks' = asks \ {a} /\ Shown(FilesFailed(card))
          \/ LET r == Loaded(card, a) IN asks' = (asks \ {a}) \cup r.asks /\ Shown(r.card)
  /\ UNCHANGED <<hasty, changes, actions>>

\* Mutant of isActive: nobody asks whether the card is still there.
isActiveAlways(c) == TRUE

isActive(c) == c.mounted

WaitEnds(a) ==
  /\ a.kind = "wait"
  /\ asks' = (asks \ {a}) \cup
       IF isActive(card) THEN {[a EXCEPT !.kind = "get", !.left = @ - 1]} ELSE {}
  /\ UNCHANGED <<playerVars, films, card, known, gstRuntime, hasty, changes, actions>>

-----------------------------------------------------------------------------
(* The user.  What is open covers the card.                                 *)

OnTop ==
  \/ \E p \in Place : player[p] # None /\ player[p].video # None
  \/ card.episodeMenu /\ Shows("episodes")
  \/ card.audioMenu /\ Shows("audio")

Covered == OnTop \/ card.dialog # None

Acts == card.mounted /\ actions < MaxActions /\ actions' = actions + 1 /\ UNCHANGED changes

Busy == card.isResolvingPlayers \/ card.isResolvingAudio

Click == Acts /\ ~Covered

PlayAudio ==
  /\ Click /\ Shows("audio") /\ ~Busy
  /\ LET src == CHOOSE s \in players(card, known, gstRuntime) : TRUE
         r == resolveAudioTracks(card, src, TRUE, FALSE, card.audioTracksByFile)
     IN  Shown(r.card) /\ asks' = asks \cup r.asks
  /\ UNCHANGED hasty

selectAudioTrack(i) ==
  /\ Acts /\ card.audioMenu /\ Shows("audio") /\ i \in DOMAIN card.audioTracksByFile[card.audioMenuPlayer.file]
  /\ Shown([card EXCEPT !.audioMenu = FALSE,
              !.selected = playerWithAudio(card.audioMenuPlayer, card.audioTracksByFile[card.audioMenuPlayer.file][i])])
  /\ hasty' = (hasty \/ \E p \in Place \ {"selected"} : Here(p)) /\ UNCHANGED asks

OpenEpisodes ==
  /\ Click /\ Shows("episodes")
  /\ Shown([card EXCEPT !.episodeMenu = TRUE])
  /\ UNCHANGED <<asks, hasty>>

PickEpisode(src) ==
  /\ Acts /\ card.episodeMenu /\ Shows("episodes") /\ src \in available(card, known, gstRuntime)
  /\ Shown([card EXCEPT !.episodeMenu = FALSE, !.selected = src])
  /\ hasty' = (hasty \/ Busy) /\ UNCHANGED asks

CloseMenu ==
  /\ card.episodeMenu \/ card.audioMenu
  /\ Acts /\ Shown([card EXCEPT !.episodeMenu = FALSE, !.audioMenu = FALSE])
  /\ UNCHANGED <<asks, hasty>>

resolvePlayers ==
  /\ Click /\ Shows("resolve") /\ ~card.isResolvingPlayers
  /\ Shown(Started(card))
  /\ asks' = asks \cup {Get(MaxAttempts, gstRuntime, card.audioTracksByFile)}
  /\ hasty' = (hasty \/ Busy)

Open(p) ==
  /\ Acts /\ p # "selected" /\ ~OnTop /\ (p = "trigger" => ~Covered)
  /\ openPlayer(p)
  /\ hasty' = (hasty \/ Busy)
  /\ UNCHANGED <<films, card, known, gstRuntime, asks>>

OpenDialog(dialog) ==
  /\ Click
  /\ Shown([card EXCEPT !.dialog = dialog, !.cache = FALSE, !.isLoading = TRUE, !.isDetailedCacheView = FALSE])
  /\ UNCHANGED <<asks, hasty>>

CloseDialog ==
  /\ Acts /\ ~OnTop /\ card.dialog # None
  /\ Shown([card EXCEPT !.dialog = None])
  /\ UNCHANGED <<asks, hasty>>

\* Another view of the details, and back.
setIsDetailedCacheView ==
  /\ Acts /\ ~OnTop /\ card.dialog = "details" /\ (card.isLoading => card.isDetailedCacheView)
  /\ Shown([card EXCEPT !.isDetailedCacheView = ~@])
  /\ UNCHANGED <<asks, hasty>>

\* closePlayer: onClose unselects the player, the other one stays where it is.
closePlayer(p) ==
  /\ Acts /\ Here(p)
  /\ IF p = "selected" THEN Shown([card EXCEPT !.selected = None])
                       ELSE Update(p, Closed(player[p])) /\ UNCHANGED <<films, card, known, gstRuntime>>
  /\ UNCHANGED <<asks, hasty>>

Use ==
  /\ Acts /\ (handleKey \/ \E p \in Place : Controls(p))
  /\ UNCHANGED <<films, card, known, gstRuntime, asks, hasty>>

-----------------------------------------------------------------------------
Init ==
  /\ player = [p \in Place |-> None] /\ hls = [p \in Place |-> 0] /\ beats = [p \in Place |-> 0]
  /\ card = [mounted |-> TRUE, resolved |-> FALSE, unsupported |-> {}, selected |-> None,
             episodeMenu |-> FALSE, openAfter |-> FALSE, audioMenu |-> FALSE, audioMenuPlayer |-> None,
             isResolvingPlayers |-> FALSE, playerResolveFailed |-> FALSE, isResolvingAudio |-> FALSE,
             audioTracksByFile |-> [f \in Files |-> None],
             dialog |-> None, cache |-> FALSE, isLoading |-> TRUE, isDetailedCacheView |-> FALSE]
  /\ films \in Torrents
  /\ known \in SUBSET {"list", "data"} /\ gstRuntime \in Runtimes \cup {Unavailable}
  /\ asks = {} /\ hasty = FALSE
  /\ changes = 0 /\ actions = 0

Page == ListArrives \/ RuntimeArrives \/ CacheArrives \/ Unmount

User ==
  \/ PlayAudio \/ OpenEpisodes \/ CloseMenu \/ resolvePlayers \/ Use
  \/ \E dialog \in {"details", "delete", "edit"} : OpenDialog(dialog)
  \/ CloseDialog \/ setIsDetailedCacheView
  \/ \E f \in Files : \E i \in DOMAIN Tracks[f] : selectAudioTrack(i)
  \/ \E src \in players(card, known, gstRuntime) : PickEpisode(src)
  \/ \E p \in Place : Open(p) \/ closePlayer(p)

Answers == \E a \in asks : FilesArrive(a) \/ WaitEnds(a) \/ ProbeArrives(a)

Playing == (\E p \in Place : Plays(p)) /\ UNCHANGED <<films, card, known, gstRuntime, asks, hasty, changes, actions>>

Next == Page \/ User \/ Answers \/ Playing

Spec == Init /\ [][Next]_vars

\* Requests are answered or fail, timers fire.
FairSpec == Spec /\ WF_vars(Answers)
-----------------------------------------------------------------------------
(* Properties.                                                              *)

TypeOK ==
  /\ PlayerTypeOK
  /\ card.selected # None => card.selected.file \in films /\ card.selected \notin card.unsupported
  /\ known \subseteq {"list", "data"} /\ gstRuntime \in Runtimes \cup {Unavailable}
  /\ \A f \in Files : card.audioTracksByFile[f] \in {None, Tracks[f]}
  /\ \A a \in asks : a.kind \in {"get", "wait"} => a.left \in 1 .. MaxAttempts

\* No two films play at once, whatever arrives when, unless the user opened one, or asked for
\* one again, while the card was still resolving the other: the list may bring a trigger of its
\* own in the meantime, the details have their table.  Nor if the user chose a track over an
\* open player: the menu stays open while its button is gone, and comes back with it
\* (isResolvingPlayers, isResolvingAudio, selectedPlayer and audioMenuAnchor of TorrentCard).
OnePlayer == ~hasty => \A p, q \in Place : Here(p) /\ Here(q) => p = q

\* A card that is gone asks for nothing any more, within a second (isMounted, isActive).
GoneAsksNothing == [][~card.mounted => asks' \subseteq asks]_vars

\* The button does not stay disabled (finally in resolvePlayers and resolveAudioTracks).
ResolvingEnds == (card.mounted /\ Busy) ~> ~(card.mounted /\ Busy)
=============================================================================
