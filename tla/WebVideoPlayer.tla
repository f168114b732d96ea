--------------------------- MODULE WebVideoPlayer ---------------------------
(***************************************************************************)
(* The player of the browser interface (components/VideoPlayer.jsx): a     *)
(* dialog around a <video> element, which plays a file or an HLS stream.   *)
(*                                                                         *)
(* A player keeps what its buttons show; the element keeps what is so.     *)
(* The element is a new one each time the dialog opens, the component is   *)
(* not.  Events of the element come after what they tell of.               *)
(*                                                                         *)
(* The page that mounts players is a module that extends this one.  Left   *)
(* out: where the film is, the full screen, the subtitles, and the menu of *)
(* speeds, of which only the choice is kept.                               *)
(***************************************************************************)
EXTENDS Integers, FiniteSets

CONSTANTS
  Place,      \* the places of the page that may hold a player
  HlsJs,      \* Hls.isSupported()
  NativeHls,  \* canPlayNativeHls
  Playable,   \* the files that the browser can play as they are
  Speeds,     \* bound: the speeds that are chosen
  MaxEvents,  \* bound on events of one element that are not dispatched yet
  None

ASSUME PlayerAssumption ==
  /\ {HlsJs, NativeHls} \subseteq BOOLEAN
  /\ MaxEvents \in Nat /\ 1 \in Speeds

VARIABLES
  player,  \* in each place, a player or None
  hls,     \* in each place, the Hls objects that were made and not destroyed
  beats    \* in each place, the heartbeat intervals that run

playerVars == <<player, hls, beats>>

\* canPlayType(getMimeType(src)), for a file.
canPlay(src) == IF src.hls THEN HlsJs \/ NativeHls ELSE src.file \in Playable

\* paused, muted, volume > 0, playbackRate, and the play and pause events on their way.
Element == [paused |-> TRUE, muted |-> FALSE, loud |-> TRUE, rate |-> 1, events |-> 0]

\* The component when it is mounted; with initiallyOpen its dialog is open; "parsed" is of the
\* Hls object.  Histories, of which no step depends: "opened" counts how often it was opened
\* (2 for more than once), and "crossed" tells that of the two controls of the sound the user
\* has just turned on the one while the other is off.
Player(src, initiallyOpen) ==
  [src |-> src, open |-> initiallyOpen, opened |-> IF initiallyOpen THEN 1 ELSE 0,
   video |-> IF initiallyOpen THEN Element ELSE None,
   loading |-> TRUE, playing |-> FALSE, muted |-> FALSE, speed |-> 1,
   parsed |-> FALSE, crossed |-> FALSE]

-----------------------------------------------------------------------------
(* Effects: what an open player of an HLS stream holds besides its state.   *)

Streams(c) == c # None /\ c.open /\ c.src.hls

\* The effect depends on hls, open, the element and the source.
SameEffect(old, new) == Streams(old) /\ Streams(new) /\ old.src = new.src

\* Mutant of destroyed: the cleanup forgets the Hls object.
destroyNothing(n) == n

destroyed(n) == n - 1

\* Cleanup, then the effect again.
Effects(p, new) ==
  LET old == player[p]
      ends == Streams(old) /\ ~SameEffect(old, new)
      starts == Streams(new) /\ ~SameEffect(old, new)
      left == IF ends /\ HlsJs THEN destroyed(hls[p]) ELSE hls[p]
  IN  [hls |-> IF starts /\ HlsJs THEN left + 1 ELSE left,
       beats |-> IF ends /\ ~starts THEN beats[p] - 1 ELSE IF starts /\ ~ends THEN beats[p] + 1 ELSE beats[p]]

\* The players of a render of the page.
Mounted(new) ==
  /\ player' = new
  /\ hls' = [p \in Place |-> Effects(p, player'[p]).hls]
  /\ beats' = [p \in Place |-> Effects(p, player'[p]).beats]

Update(p, c) == Mounted([player EXCEPT ![p] = c])

-----------------------------------------------------------------------------
(* The element.                                                             *)

Here(p) == player[p] # None /\ player[p].open /\ player[p].video # None

\* The element starts or stops, and will tell.
Switched(c, paused) == [c EXCEPT !.video.paused = paused, !.video.events = @ + 1]

CanSwitch(c) == c.video.events < MaxEvents

\* MANIFEST_PARSED, once for a source: the film is to start, if the browser lets it.
ManifestParsed(p) ==
  LET c == [player[p] EXCEPT !.parsed = TRUE]
  IN  /\ Here(p) /\ hls[p] > 0 /\ player[p].loading /\ ~player[p].parsed
      /\ \/ Update(p, c)
         \/ c.video.paused /\ CanSwitch(c) /\ Update(p, Switched(c, FALSE))

\* loadedmetadata, and autoPlay.
handleLoaded(p) ==
  LET c == [player[p] EXCEPT !.loading = FALSE]
  IN  /\ Here(p) /\ player[p].loading
      /\ \/ Update(p, c)
         \/ c.video.paused /\ CanSwitch(c) /\ Update(p, Switched(c, FALSE))

\* ERROR that is fatal, and neither of the network nor of the media: those are retried.
HlsFailed(p) ==
  /\ Here(p) /\ hls[p] > 0 /\ player[p].loading
  /\ Update(p, [player[p] EXCEPT !.loading = FALSE])

\* The film ends, or the browser pauses it.
Ends(p) ==
  /\ Here(p) /\ ~player[p].video.paused /\ CanSwitch(player[p])
  /\ Update(p, Switched(player[p], TRUE))

\* Mutant of togglePlay: only the play events are listened to.
onPlayOnly(playing) == TRUE

\* play and pause alike.
togglePlay(playing) == ~playing

EventArrives(p) ==
  /\ Here(p) /\ player[p].video.events > 0
  /\ Update(p, [player[p] EXCEPT !.video.events = @ - 1, !.playing = togglePlay(@)])

-----------------------------------------------------------------------------
(* The buttons.                                                             *)

Toggled(c) == Switched(c, ~c.video.paused)

handlePlayPause(p) == Here(p) /\ CanSwitch(player[p]) /\ Update(p, Toggled(player[p]))

\* Every player listens to the keys of the document.
handleKey ==
  /\ \E p \in Place : Here(p)
  /\ \A p \in Place : Here(p) => CanSwitch(player[p])
  /\ Mounted([p \in Place |-> IF Here(p) THEN Toggled(player[p]) ELSE player[p]])

\* The slider says "muted" at 0, and at any other volume that there is sound; the button mutes.
handleVolume(p, loud) ==
  /\ Here(p)
  /\ Update(p, [player[p] EXCEPT !.video.loud = loud, !.muted = ~loud,
                                 !.crossed = loud /\ player[p].video.muted])

toggleMute(p) ==
  /\ Here(p)
  /\ Update(p, [player[p] EXCEPT !.video.muted = ~player[p].muted, !.muted = ~@,
                                 !.crossed = player[p].muted /\ ~player[p].video.loud])

changeSpeed(p, r) ==
  /\ Here(p) /\ r # player[p].speed
  /\ Update(p, [player[p] EXCEPT !.video.rate = r, !.speed = r])

\* The trigger.  The dialog that closes covers it until its element is gone.
openPlayer(p) ==
  /\ player[p] # None /\ player[p].video = None
  /\ Update(p, [player[p] EXCEPT !.open = TRUE, !.opened = IF @ = 0 THEN 1 ELSE 2, !.loading = TRUE, !.video = Element])

\* setOpen(false), and the cleanup of the effect.
Closed(c) == [c EXCEPT !.open = FALSE, !.parsed = FALSE]

\* The transition ends.  Nobody hears the pause event of an element that is gone.
Exited(p) ==
  /\ player[p] # None /\ ~player[p].open /\ player[p].video # None
  /\ Update(p, [player[p] EXCEPT !.video = None])

Plays(p) == ManifestParsed(p) \/ handleLoaded(p) \/ HlsFailed(p) \/ Ends(p) \/ EventArrives(p) \/ Exited(p)

Controls(p) ==
  \/ handlePlayPause(p) \/ toggleMute(p)
  \/ \E loud \in BOOLEAN : handleVolume(p, loud)
  \/ \E r \in Speeds : changeSpeed(p, r)

-----------------------------------------------------------------------------
(* Properties.                                                              *)

PlayerTypeOK ==
  /\ \A p \in Place : player[p] # None =>
       /\ {player[p].open, player[p].loading, player[p].playing, player[p].muted,
           player[p].parsed, player[p].crossed} \subseteq BOOLEAN
       /\ player[p].open => player[p].video # None
       /\ player[p].speed \in Speeds
  /\ hls \in [Place -> Nat] /\ beats \in [Place -> Nat]

\* Every Hls object and every heartbeat, which keeps the transcoder of the server alive, is
\* that of a dialog that is open: however a player goes, it takes them along, and it never
\* makes a second one (effects of VideoPlayer.jsx).
PlayersAreReleased ==
  \A p \in Place :
    /\ hls[p] = (IF Streams(player[p]) /\ HlsJs THEN 1 ELSE 0)
    /\ beats[p] = (IF Streams(player[p]) THEN 1 ELSE 0)

\* The buttons tell what the element does, once its events have arrived: whether it plays, how
\* fast, and whether it can be heard (togglePlay, changeSpeed, handleVolume, toggleMute).  Left
\* out is a sound that is "crossed": of a video that the button has muted the user moves the
\* slider, or unmutes one whose slider is at 0; the button then says that there is sound, and
\* there is none, until the next click or move.  And left out are players that are opened again
\* or given another source while they are open: they start with a new element and the old
\* buttons, which may say the opposite of it from then on.
ControlsTell ==
  \A p \in Place : Here(p) /\ player[p].opened = 1 /\ player[p].video.events = 0 =>
    LET c == player[p]
        silent == c.video.muted \/ ~c.video.loud
    IN  /\ c.playing <=> ~c.video.paused
        /\ c.muted => silent
        /\ silent /\ ~c.crossed => c.muted
        /\ c.speed = c.video.rate
=============================================================================
