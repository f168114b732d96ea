------------------------ MODULE WebTorrentCardProofs -------------------------
(***************************************************************************)
(* What the players of a torrent card hold and show, for any torrents,     *)
(* audio tracks and streams, and any number of steps, and that one film    *)
(* plays at a time: proofs about WebVideoPlayer as WebTorrentCard mounts,  *)
(* updates and unmounts it.                                                *)
(***************************************************************************)
EXTENDS WebTorrentCard, FiniteSetTheorems, TLAPS

\* What the element tells: paused, muted, volume, playbackRate, and the events to come.
Video == [paused : BOOLEAN, muted : BOOLEAN, loud : BOOLEAN, rate : Speeds, events : Nat]

\* Each event to come is one toggle that the button has not seen yet.
ButtonsLag(c) ==
  /\ (c.playing <=> ~c.video.paused) <=> c.video.events % 2 = 0
  /\ c.muted => c.video.muted \/ ~c.video.loud
  /\ (c.video.muted \/ ~c.video.loud) /\ ~c.crossed => c.muted
  /\ c.speed = c.video.rate

\* The state of the component.
Fields == {"src", "open", "opened", "video", "loading", "playing", "muted", "speed",
           "parsed", "crossed"}
Component(c) == c = [x \in Fields |-> c[x]]

PlayerOK(c) ==
  /\ Component(c)
  /\ c.video # None => c.video \in Video
  /\ c.open \in BOOLEAN /\ c.playing \in BOOLEAN /\ c.muted \in BOOLEAN
  /\ c.opened \in 0 .. 2
  /\ c.opened = 0 => c.video = None /\ ~c.open /\ ~c.playing /\ ~c.muted /\ c.speed = 1
  /\ c.open /\ c.opened = 1 /\ c.video # None => ButtonsLag(c)

PlayersOK ==
  /\ player = [p \in Place |-> player[p]]
  /\ \A p \in Place : player[p] # None => PlayerOK(player[p])

\* The effects of whatever was rendered have run.
EffectsRun ==
  /\ hls' = [p \in Place |-> Effects(p, player'[p]).hls]
  /\ beats' = [p \in Place |-> Effects(p, player'[p]).beats]

-----------------------------------------------------------------------------
(* Effects.                                                                 *)

\* The cleanup of an effect undoes the one before, whatever the next render shows.
LEMMA EffectsRelease ==
  ASSUME PlayersAreReleased, EffectsRun
  PROVE  PlayersAreReleased'
<1> SUFFICES ASSUME NEW p \in Place
             PROVE  /\ hls'[p] = (IF Streams(player'[p]) /\ HlsJs THEN 1 ELSE 0)
                    /\ beats'[p] = (IF Streams(player'[p]) THEN 1 ELSE 0)
  BY DEF PlayersAreReleased, Streams
<1>1. /\ hls[p] = (IF Streams(player[p]) /\ HlsJs THEN 1 ELSE 0)
      /\ beats[p] = (IF Streams(player[p]) THEN 1 ELSE 0)
  BY DEF PlayersAreReleased
<1>2. hls'[p] = Effects(p, player'[p]).hls /\ beats'[p] = Effects(p, player'[p]).beats
  BY DEF EffectsRun
<1> QED
  BY <1>1, <1>2 DEF Effects, SameEffect, destroyed

-----------------------------------------------------------------------------
(* The players of a card.                                                   *)

LEMMA Parity ==
  ASSUME NEW n \in Nat
  PROVE  (n + 1) % 2 = 0 <=> n % 2 # 0
OBVIOUS

\* A new element is paused and audible, as the buttons of a new player are.
LEMMA NewElement == Element \in Video /\ 0 % 2 = 0
BY PlayerAssumption DEF Element, Video

LEMMA NewPlayer ==
  ASSUME NEW src, NEW b \in BOOLEAN
  PROVE  PlayerOK(Player(src, b))
<1> DEFINE c == Player(src, b)
<1>1. /\ c.playing = FALSE /\ c.muted = FALSE /\ c.speed = 1 /\ c.open = b
      /\ c.opened = (IF b THEN 1 ELSE 0) /\ c.video = (IF b THEN Element ELSE None)
  BY DEF Player
<1>2. Component(c)
  BY DEF Player, Component, Fields
<1>3. /\ Element.paused = TRUE /\ Element.events = 0 /\ Element.rate = 1
      /\ Element.muted = FALSE /\ Element.loud = TRUE
  BY DEF Element
<1> HIDE DEF c
<1>4. c.open /\ c.video # None => ButtonsLag(c)
  BY <1>1, <1>3, NewElement DEF ButtonsLag
<1>5. PlayerOK(c)
  <2>1. c.open \in BOOLEAN /\ c.opened \in 0 .. 2 /\ (c.video # None => c.video \in Video)
    BY <1>1, NewElement
  <2>2. c.opened = 0 => c.video = None /\ ~c.open
    BY <1>1
  <2>3. c.playing \in BOOLEAN /\ c.muted \in BOOLEAN /\ ~c.playing /\ ~c.muted
    BY <1>1
  <2> QED
    BY <1>1, <1>2, <1>4, <2>1, <2>2, <2>3 DEF PlayerOK
<1> QED
  BY <1>5 DEF c

\* A player that is given another source is as good as it was, or opened again.
LEMMA RenderedPlayer ==
  ASSUME PlayersOK, NEW p \in Place, NEW src, NEW b \in BOOLEAN
  PROVE  PlayerOK(Kept(p, src, b)) /\ PlayerOK(Given(p, src))
<1>1. (player[p] # None => PlayerOK(player[p])) /\ PlayerOK(Player(src, b)) /\ PlayerOK(Player(src, FALSE))
  BY NewPlayer DEF PlayersOK
<1>2. PlayerOK(Kept(p, src, b))
  BY <1>1 DEF Kept
<1>3. ASSUME player[p] # None, player[p].src # src
      PROVE  PlayerOK([player[p] EXCEPT !.src = src,
                         !.video = IF @ = None THEN None ELSE Element,
                         !.opened = IF player[p].open THEN 2 ELSE @,
                         !.loading = @ \/ (player[p].open /\ src.hls), !.parsed = FALSE])
  <2>1. Component(player[p])
    BY <1>1, <1>3 DEF PlayerOK
  <2> DEFINE c == [player[p] EXCEPT !.src = src,
                     !.video = IF @ = None THEN None ELSE Element,
                     !.opened = IF player[p].open THEN 2 ELSE @,
                     !.loading = @ \/ (player[p].open /\ src.hls), !.parsed = FALSE]
  <2>2. /\ Component(c)
        /\ c.open = player[p].open /\ c.playing = player[p].playing /\ c.muted = player[p].muted
        /\ c.speed = player[p].speed
        /\ c.opened = (IF player[p].open THEN 2 ELSE player[p].opened)
        /\ c.video = (IF player[p].video = None THEN None ELSE Element)
    BY <2>1 DEF Component, Fields
  <2> HIDE DEF c
  <2>3. PlayerOK(c)
    BY <1>1, <1>3, <2>2, NewElement DEF PlayerOK
  <2> QED
    BY <2>3 DEF c
<1> QED
  BY <1>1, <1>2, <1>3 DEF Given

LEMMA MountedPlayers ==
  ASSUME PlayersOK, NEW new, Mounted(new), new = [p \in Place |-> new[p]],
         \A p \in Place : new[p] # None => PlayerOK(new[p])
  PROVE  PlayersOK' /\ EffectsRun
BY DEF Mounted, PlayersOK, EffectsRun

LEMMA UpdatedPlayer ==
  ASSUME PlayersOK, NEW p \in Place, NEW c, Update(p, c), PlayerOK(c)
  PROVE  PlayersOK' /\ EffectsRun
BY DEF Mounted, Update, PlayersOK, EffectsRun

\* The element starts or stops: what it tells is one event further ahead of the button.
LEMMA SwitchedPlayer ==
  ASSUME NEW c, PlayerOK(c), c.video # None,
         NEW paused \in BOOLEAN, paused # c.video.paused
  PROVE  PlayerOK(Switched(c, paused))
<1> DEFINE d == Switched(c, paused)
<1>1. Component(c) /\ c.video \in Video
  BY DEF PlayerOK
<1>2. c.video.events \in Nat /\ ((c.video.events + 1) % 2 = 0 <=> c.video.events % 2 # 0)
  BY <1>1, Parity DEF Video
<1>3. /\ Component(d)
      /\ d.open = c.open /\ d.opened = c.opened /\ d.playing = c.playing /\ d.muted = c.muted
      /\ d.speed = c.speed /\ d.crossed = c.crossed
      /\ d.video = [c.video EXCEPT !.paused = paused, !.events = @ + 1]
  BY <1>1 DEF Switched, Component, Fields, Video
<1>4. /\ d.video \in Video
      /\ d.video.paused = paused /\ d.video.events = c.video.events + 1
      /\ d.video.muted = c.video.muted /\ d.video.loud = c.video.loud
      /\ d.video.rate = c.video.rate
  <2> DEFINE v == c.video
  <2>1. v \in Video /\ v.events + 1 \in Nat
    BY <1>1, <1>2
  <2> HIDE DEF v
  <2>2. /\ [v EXCEPT !.paused = paused, !.events = @ + 1] \in Video
        /\ [v EXCEPT !.paused = paused, !.events = @ + 1].paused = paused
        /\ [v EXCEPT !.paused = paused, !.events = @ + 1].events = v.events + 1
        /\ [v EXCEPT !.paused = paused, !.events = @ + 1].muted = v.muted
        /\ [v EXCEPT !.paused = paused, !.events = @ + 1].loud = v.loud
        /\ [v EXCEPT !.paused = paused, !.events = @ + 1].rate = v.rate
    BY <2>1 DEF Video
  <2> QED
    BY <1>3, <2>2 DEF v
<1> HIDE DEF d
<1>5. ButtonsLag(c) => ButtonsLag(d)
  BY <1>1, <1>2, <1>3, <1>4 DEF ButtonsLag, Video
<1>6. c.opened # 0
  BY DEF PlayerOK
<1>7. PlayerOK(d)
  BY <1>3, <1>4, <1>5, <1>6 DEF PlayerOK
<1> QED
  BY <1>7 DEF d

\* What the buttons and the element have in common.
LEMMA SamePlayer ==
  ASSUME NEW c, PlayerOK(c), NEW d, Component(d),
         d.open = c.open, d.opened = c.opened, d.video = c.video,
         d.playing = c.playing, d.muted = c.muted, d.speed = c.speed, d.crossed = c.crossed
  PROVE  PlayerOK(d)
BY DEF PlayerOK, ButtonsLag

-----------------------------------------------------------------------------
(* Every step keeps the players as they should be.                          *)

LEMMA PlaysKeep ==
  ASSUME PlayersOK, NEW p \in Place, Plays(p)
  PROVE  PlayersOK' /\ EffectsRun
<1> DEFINE c == player[p]
<1>0. c # None /\ PlayerOK(c) /\ Component(c)
  <2>1. c # None
    BY DEF Plays, ManifestParsed, handleLoaded, HlsFailed, Ends, EventArrives, Exited, Here
  <2> QED
    BY <2>1 DEF PlayersOK, PlayerOK
<1>1. ASSUME ManifestParsed(p) PROVE PlayersOK' /\ EffectsRun
  <2> DEFINE d == [c EXCEPT !.parsed = TRUE]
  <2>1. /\ Component(d) /\ d.open = c.open /\ d.opened = c.opened /\ d.video = c.video
        /\ d.playing = c.playing /\ d.muted = c.muted /\ d.speed = c.speed /\ d.crossed = c.crossed
    BY <1>0 DEF Component, Fields
  <2>2. /\ c.video # None
        /\ \/ Update(p, d)
           \/ d.video.paused /\ Update(p, Switched(d, FALSE))
    BY <1>1 DEF ManifestParsed, Here
  <2> HIDE DEF c, d
  <2>3. PlayerOK(d)
    BY <1>0, <2>1, SamePlayer
  <2>4. d.video.paused => PlayerOK(Switched(d, FALSE))
    BY <2>1, <2>2, <2>3, SwitchedPlayer
  <2> QED
    BY <2>2, <2>3, <2>4, UpdatedPlayer
<1>2. ASSUME handleLoaded(p) PROVE PlayersOK' /\ EffectsRun
  <2> DEFINE d == [c EXCEPT !.loading = FALSE]
  <2>1. /\ Component(d) /\ d.open = c.open /\ d.opened = c.opened /\ d.video = c.video
        /\ d.playing = c.playing /\ d.muted = c.muted /\ d.speed = c.speed /\ d.crossed = c.crossed
    BY <1>0 DEF Component, Fields
  <2>2. /\ c.video # None
        /\ \/ Update(p, d)
           \/ d.video.paused /\ Update(p, Switched(d, FALSE))
    BY <1>2 DEF handleLoaded, Here
  <2> HIDE DEF c, d
  <2>3. PlayerOK(d)
    BY <1>0, <2>1, SamePlayer
  <2>4. d.video.paused => PlayerOK(Switched(d, FALSE))
    BY <2>1, <2>2, <2>3, SwitchedPlayer
  <2> QED
    BY <2>2, <2>3, <2>4, UpdatedPlayer
<1>3. ASSUME HlsFailed(p) PROVE PlayersOK' /\ EffectsRun
  <2> DEFINE d == [c EXCEPT !.loading = FALSE]
  <2>1. /\ Component(d) /\ d.open = c.open /\ d.opened = c.opened /\ d.video = c.video
        /\ d.playing = c.playing /\ d.muted = c.muted /\ d.speed = c.speed /\ d.crossed = c.crossed
    BY <1>0 DEF Component, Fields
  <2>2. Update(p, d)
    BY <1>3 DEF HlsFailed
  <2> HIDE DEF c, d
  <2> QED
    BY <1>0, <2>1, <2>2, SamePlayer, UpdatedPlayer
<1>4. ASSUME Ends(p) PROVE PlayersOK' /\ EffectsRun
  <2>1. c.video # None /\ ~c.video.paused /\ Update(p, Switched(c, TRUE))
    BY <1>4 DEF Ends, Here
  <2> HIDE DEF c
  <2> QED
    BY <1>0, <2>1, SwitchedPlayer, UpdatedPlayer
<1>5. ASSUME EventArrives(p) PROVE PlayersOK' /\ EffectsRun
  <2> DEFINE v == c.video
             d == [c EXCEPT !.video.events = @ - 1, !.playing = togglePlay(@)]
             w == [v EXCEPT !.events = @ - 1]
  <2>1. c.open /\ v # None /\ v.events > 0 /\ Update(p, d)
    BY <1>5 DEF EventArrives, Here
  <2>2. /\ Component(d) /\ d.open = c.open /\ d.opened = c.opened /\ d.video = w
        /\ d.playing = ~c.playing /\ d.muted = c.muted /\ d.speed = c.speed /\ d.crossed = c.crossed
    BY <1>0 DEF Component, Fields, togglePlay
  <2>3. v \in Video
    BY <1>0, <2>1 DEF PlayerOK
  <2> HIDE DEF c, d, v
  <2>4. v.events \in Nat /\ v.events - 1 \in Nat
    BY <2>1, <2>3 DEF Video
  <2>5. v.events % 2 = 0 <=> (v.events - 1) % 2 # 0
    BY <2>4
  <2>6. /\ w \in Video /\ w.events = v.events - 1 /\ w.paused = v.paused
        /\ w.muted = v.muted /\ w.loud = v.loud /\ w.rate = v.rate
    BY <2>3, <2>4 DEF Video
  <2> HIDE DEF w
  <2>7. c.opened # 0
    BY <1>0, <2>1 DEF PlayerOK
  <2>8. d.open /\ d.opened = 1 => ButtonsLag(d)
    <3>1. d.open /\ d.opened = 1 => ButtonsLag(c)
      BY <1>0, <2>1, <2>2 DEF PlayerOK, v
    <3> QED
      BY <1>0, <2>2, <2>3, <2>5, <2>6, <3>1 DEF ButtonsLag, PlayerOK, Video, v
  <2>9. PlayerOK(d)
    BY <1>0, <2>2, <2>6, <2>7, <2>8 DEF PlayerOK
  <2> QED
    BY <2>1, <2>9, UpdatedPlayer
<1>6. ASSUME Exited(p) PROVE PlayersOK' /\ EffectsRun
  <2> DEFINE d == [c EXCEPT !.video = None]
  <2>1. /\ Component(d) /\ d.open = c.open /\ d.opened = c.opened /\ d.video = None
        /\ d.playing = c.playing /\ d.muted = c.muted /\ d.speed = c.speed /\ d.crossed = c.crossed
    BY <1>0 DEF Component, Fields
  <2>2. Update(p, d) /\ ~c.open
    BY <1>6 DEF Exited
  <2> HIDE DEF c, d
  <2>3. PlayerOK(d)
    BY <1>0, <2>1, <2>2 DEF PlayerOK
  <2> QED
    BY <2>2, <2>3, UpdatedPlayer
<1> QED
  BY <1>1, <1>2, <1>3, <1>4, <1>5, <1>6 DEF Plays

LEMMA Negated == \A b \in BOOLEAN : (~b) \in BOOLEAN /\ (~b) # b
OBVIOUS

\* A button changes the element and itself together.
LEMMA ControlsKeep ==
  ASSUME PlayersOK, NEW p \in Place, Controls(p)
  PROVE  PlayersOK' /\ EffectsRun
<1> DEFINE c == player[p]
           v == c.video
<1>0. c.open /\ v # None
  BY DEF Controls, handlePlayPause, toggleMute, handleVolume, changeSpeed, Here
<1>1. PlayerOK(c) /\ Component(c) /\ v \in Video
  <2>1. c # None
    BY DEF Controls, handlePlayPause, toggleMute, handleVolume, changeSpeed, Here
  <2> QED
    BY <1>0, <2>1 DEF PlayersOK, PlayerOK
<1>2. ASSUME handlePlayPause(p) PROVE PlayersOK' /\ EffectsRun
  <2>1. Update(p, Switched(c, ~v.paused))
    BY <1>2 DEF handlePlayPause, Toggled
  <2>2. v.paused \in BOOLEAN
    BY <1>1 DEF Video
  <2>3. PlayerOK(Switched(c, ~v.paused))
    BY <1>0, <1>1, <2>2, Negated, SwitchedPlayer
  <2> QED
    BY <2>1, <2>3, UpdatedPlayer
<1>3. ASSUME toggleMute(p) PROVE PlayersOK' /\ EffectsRun
  <2> DEFINE d == [c EXCEPT !.video.muted = ~c.muted, !.muted = ~@,
                            !.crossed = c.muted /\ ~c.video.loud]
             w == [v EXCEPT !.muted = ~c.muted]
  <2>1. /\ Component(d) /\ d.open = c.open /\ d.opened = c.opened /\ d.video = w
        /\ d.playing = c.playing /\ d.muted = ~c.muted /\ d.speed = c.speed
        /\ d.crossed = (c.muted /\ ~v.loud)
    BY <1>1 DEF Component, Fields
  <2>2. Update(p, d)
    BY <1>3 DEF toggleMute
  <2> HIDE DEF d
  <2>3. w \in Video /\ w.muted = ~c.muted /\ w.paused = v.paused /\ w.events = v.events
        /\ w.loud = v.loud /\ w.rate = v.rate
    BY <1>1 DEF Video, PlayerOK
  <2> HIDE DEF c, v, w
  <2>4. PlayerOK(d)
    <3>1. c.video = v
      BY DEF v
    <3> QED
      BY <1>0, <1>1, <2>1, <2>3, <3>1 DEF PlayerOK, ButtonsLag, Video
  <2> QED
    BY <2>2, <2>4, UpdatedPlayer
<1>4. ASSUME NEW loud \in BOOLEAN, handleVolume(p, loud) PROVE PlayersOK' /\ EffectsRun
  <2> DEFINE d == [c EXCEPT !.video.loud = loud, !.muted = ~loud,
                            !.crossed = loud /\ c.video.muted]
             w == [v EXCEPT !.loud = loud]
  <2>1. /\ Component(d) /\ d.open = c.open /\ d.opened = c.opened /\ d.video = w
        /\ d.playing = c.playing /\ d.muted = ~loud /\ d.speed = c.speed
        /\ d.crossed = (loud /\ v.muted)
    BY <1>1 DEF Component, Fields
  <2>2. Update(p, d)
    BY <1>4 DEF handleVolume
  <2> HIDE DEF d
  <2>3. w \in Video /\ w.muted = v.muted /\ w.paused = v.paused /\ w.events = v.events
        /\ w.loud = loud /\ w.rate = v.rate
    BY <1>1 DEF Video
  <2> HIDE DEF c, v, w
  <2>4. PlayerOK(d)
    <3>1. c.video = v
      BY DEF v
    <3> QED
      BY <1>0, <1>1, <2>1, <2>3, <3>1 DEF PlayerOK, ButtonsLag, Video
  <2> QED
    BY <2>2, <2>4, UpdatedPlayer
<1>5. ASSUME NEW r \in Speeds, changeSpeed(p, r) PROVE PlayersOK' /\ EffectsRun
  <2> DEFINE d == [c EXCEPT !.video.rate = r, !.speed = r]
             w == [v EXCEPT !.rate = r]
  <2>1. /\ Component(d) /\ d.open = c.open /\ d.opened = c.opened /\ d.video = w
        /\ d.playing = c.playing /\ d.muted = c.muted /\ d.speed = r /\ d.crossed = c.crossed
    BY <1>1 DEF Component, Fields
  <2>2. Update(p, d)
    BY <1>5 DEF changeSpeed
  <2> HIDE DEF d
  <2>3. w \in Video /\ w.muted = v.muted /\ w.paused = v.paused /\ w.events = v.events
        /\ w.loud = v.loud /\ w.rate = r
    BY <1>1 DEF Video
  <2> HIDE DEF c, v, w
  <2>4. PlayerOK(d)
    <3>1. c.video = v
      BY DEF v
    <3> QED
      BY <1>0, <1>1, <2>1, <2>3, <3>1 DEF PlayerOK, ButtonsLag, Video
  <2> QED
    BY <2>2, <2>4, UpdatedPlayer
<1> QED
  BY <1>2, <1>3, <1>4, <1>5 DEF Controls

\* A key toggles every player that is open.
LEMMA KeyKeeps ==
  ASSUME PlayersOK, handleKey
  PROVE  PlayersOK' /\ EffectsRun
<1> DEFINE new == [p \in Place |-> IF Here(p) THEN Toggled(player[p]) ELSE player[p]]
<1>1. Mounted(new)
  BY DEF handleKey
<1>2. ASSUME NEW p \in Place, new[p] # None PROVE PlayerOK(new[p])
  <2>1. CASE Here(p)
    <3>1. player[p] # None /\ player[p].video # None /\ PlayerOK(player[p])
      BY <2>1 DEF Here, PlayersOK
    <3>2. player[p].video.paused \in BOOLEAN
      BY <3>1 DEF PlayerOK, Video
    <3> QED
      BY <2>1, <3>1, <3>2, Negated, SwitchedPlayer DEF Toggled
  <2>2. CASE ~Here(p)
    BY <1>2, <2>2 DEF PlayersOK
  <2> QED
    BY <2>1, <2>2
<1>3. new = [p \in Place |-> new[p]]
  OBVIOUS
<1> HIDE DEF new
<1> QED
  BY <1>1, <1>2, <1>3, MountedPlayers

LEMMA OpenKeeps ==
  ASSUME PlayersOK, NEW p \in Place, openPlayer(p)
  PROVE  PlayersOK' /\ EffectsRun
<1> DEFINE c == player[p]
           d == [c EXCEPT !.open = TRUE, !.opened = IF @ = 0 THEN 1 ELSE 2, !.loading = TRUE,
                          !.video = Element]
<1>1. c # None /\ PlayerOK(c) /\ Component(c) /\ Update(p, d)
  BY DEF openPlayer, PlayersOK, PlayerOK
<1>2. /\ Component(d) /\ d.open = TRUE /\ d.opened = (IF c.opened = 0 THEN 1 ELSE 2)
      /\ d.video = Element
      /\ d.playing = c.playing /\ d.muted = c.muted /\ d.speed = c.speed /\ d.crossed = c.crossed
  BY <1>1 DEF Component, Fields
<1>3. /\ Element.paused = TRUE /\ Element.events = 0 /\ Element.rate = 1
      /\ Element.muted = FALSE /\ Element.loud = TRUE
  BY DEF Element
<1> HIDE DEF c, d
<1>4. d.opened = 1 => ButtonsLag(d)
  <2>1. d.opened = 1 => ~c.playing /\ ~c.muted /\ c.speed = 1
    BY <1>1, <1>2 DEF PlayerOK
  <2> QED
    BY <1>2, <1>3, <2>1, NewElement DEF ButtonsLag
<1>5. c.opened \in 0 .. 2 /\ c.playing \in BOOLEAN /\ c.muted \in BOOLEAN
  BY <1>1 DEF PlayerOK
<1>6. (d.opened = 1 \/ d.opened = 2) /\ d.open = TRUE
  BY <1>2
<1>7. PlayerOK(d)
  <2>1. d.opened \in 0 .. 2 /\ d.opened # 0
    BY <1>6
  <2>3. d.open \in BOOLEAN
    BY <1>6
  <2>2. d.playing \in BOOLEAN /\ d.muted \in BOOLEAN /\ Component(d) /\ d.video \in Video
    BY <1>2, <1>5, NewElement
  <2> QED
    BY <1>4, <2>1, <2>2, <2>3 DEF PlayerOK
<1> QED
  BY <1>1, <1>7, UpdatedPlayer

LEMMA CloseKeeps ==
  ASSUME PlayersOK, NEW p \in Place, Here(p), Update(p, Closed(player[p]))
  PROVE  PlayersOK' /\ EffectsRun
<1> DEFINE c == player[p]
           d == Closed(c)
<1>1. c # None /\ c.open /\ PlayerOK(c) /\ Component(c)
  BY DEF Here, PlayersOK, PlayerOK
<1>2. /\ Component(d) /\ d.open = FALSE /\ d.opened = c.opened /\ d.video = c.video
      /\ d.playing = c.playing /\ d.muted = c.muted /\ d.speed = c.speed /\ d.crossed = c.crossed
  BY <1>1 DEF Component, Fields, Closed
<1> HIDE DEF d
<1>3. PlayerOK(d)
  BY <1>1, <1>2 DEF PlayerOK
<1> QED
  BY <1>3, UpdatedPlayer DEF d

\* The players of any render of the card.
LEMMA RenderKeeps ==
  ASSUME PlayersOK, NEW c, NEW from, NEW rt, Render(c, from, rt)
  PROVE  PlayersOK' /\ EffectsRun
<1> DEFINE new == Rendered(card', known', gstRuntime')
<1>1. Mounted(new)
  BY DEF Render
<1>2. new = [p \in Place |-> new[p]]
  BY DEF Rendered
<1>3. ASSUME NEW p \in Place, new[p] # None PROVE PlayerOK(new[p])
  <2>1. \A src : PlayerOK(Kept(p, src, TRUE)) /\ PlayerOK(Kept(p, src, FALSE)) /\ PlayerOK(Given(p, src))
    BY RenderedPlayer
  <2> QED
    BY <1>3, <2>1 DEF Rendered
<1> HIDE DEF new
<1> QED
  BY <1>1, <1>2, <1>3, MountedPlayers

\* Every step runs the effects of what it renders, or renders nothing.
LEMMA StepKeepsPlayers ==
  ASSUME PlayersOK, [Next]_vars
  PROVE  PlayersOK' /\ (EffectsRun \/ UNCHANGED playerVars)
<1>0. ASSUME UNCHANGED playerVars PROVE PlayersOK'
  BY <1>0 DEF playerVars, PlayersOK
<1>1. ASSUME NEW c, Shown(c) PROVE PlayersOK' /\ EffectsRun
  BY <1>1, RenderKeeps DEF Shown
<1>2. ASSUME Page PROVE PlayersOK' /\ EffectsRun
  <2>1. ASSUME ListArrives PROVE PlayersOK' /\ EffectsRun
    BY <2>1, RenderKeeps DEF ListArrives
  <2>2. ASSUME RuntimeArrives PROVE PlayersOK' /\ EffectsRun
    BY <2>2, RenderKeeps DEF RuntimeArrives
  <2>3. ASSUME CacheArrives PROVE PlayersOK' /\ EffectsRun
    BY <1>1, <2>3 DEF CacheArrives
  <2>4. ASSUME Unmount PROVE PlayersOK' /\ EffectsRun
    BY <2>4, RenderKeeps DEF Unmount
  <2> QED
    BY <1>2, <2>1, <2>2, <2>3, <2>4 DEF Page
<1>3. ASSUME User PROVE PlayersOK' /\ EffectsRun
  <2>1. ASSUME PlayAudio PROVE PlayersOK' /\ EffectsRun
    BY <1>1, <2>1 DEF PlayAudio
  <2>2. ASSUME OpenEpisodes \/ CloseMenu \/ CloseDialog \/ setIsDetailedCacheView
        PROVE  PlayersOK' /\ EffectsRun
    BY <1>1, <2>2 DEF OpenEpisodes, CloseMenu, CloseDialog, setIsDetailedCacheView
  <2>3. ASSUME resolvePlayers PROVE PlayersOK' /\ EffectsRun
    BY <1>1, <2>3 DEF resolvePlayers
  <2>4. ASSUME Use PROVE PlayersOK' /\ EffectsRun
    BY <2>4, KeyKeeps, ControlsKeep DEF Use
  <2>5. ASSUME NEW dialog, OpenDialog(dialog) PROVE PlayersOK' /\ EffectsRun
    BY <1>1, <2>5 DEF OpenDialog
  <2>6. ASSUME NEW i, selectAudioTrack(i) PROVE PlayersOK' /\ EffectsRun
    BY <1>1, <2>6 DEF selectAudioTrack
  <2>7. ASSUME NEW src, PickEpisode(src) PROVE PlayersOK' /\ EffectsRun
    BY <1>1, <2>7 DEF PickEpisode
  <2>8. ASSUME NEW p \in Place, Open(p) PROVE PlayersOK' /\ EffectsRun
    BY <2>8, OpenKeeps DEF Open
  <2>9. ASSUME NEW p \in Place, closePlayer(p) PROVE PlayersOK' /\ EffectsRun
    BY <1>1, <2>9, CloseKeeps DEF closePlayer
  <2> QED
    BY <1>3, <2>1, <2>2, <2>3, <2>4, <2>5, <2>6, <2>7, <2>8, <2>9 DEF User
<1>4. ASSUME Answers PROVE PlayersOK' /\ (EffectsRun \/ UNCHANGED playerVars)
  <2>1. PICK a \in asks : FilesArrive(a) \/ WaitEnds(a) \/ ProbeArrives(a)
    BY <1>4 DEF Answers
  <2>2. CASE FilesArrive(a)
    BY <1>0, <1>1, <2>2 DEF FilesArrive
  <2>3. CASE WaitEnds(a)
    BY <1>0, <2>3 DEF WaitEnds
  <2>4. CASE ProbeArrives(a)
    BY <1>0, <1>1, <2>4 DEF ProbeArrives
  <2> QED
    BY <2>1, <2>2, <2>3, <2>4
<1>5. ASSUME Playing PROVE PlayersOK' /\ EffectsRun
  BY <1>5, PlaysKeep DEF Playing
<1>6. CASE UNCHANGED vars
  BY <1>0, <1>6 DEF vars
<1> QED
  BY <1>2, <1>3, <1>4, <1>5, <1>6 DEF Next

LEMMA InitPlayers == Init => PlayersOK /\ PlayersAreReleased
BY DEF Init, PlayersOK, PlayersAreReleased, Streams

-----------------------------------------------------------------------------
(* What the card offers.                                                    *)

State == {"mounted", "resolved", "unsupported", "selected", "episodeMenu", "openAfter", "audioMenu",
          "audioMenuPlayer", "isResolvingPlayers", "playerResolveFailed", "isResolvingAudio",
          "audioTracksByFile", "dialog", "cache", "isLoading", "isDetailedCacheView"}
IsCard(c) == c = [x \in State |-> c[x]]

\* Only players that the browser cannot play are marked.
OnlyUnsupported(c) == \A src \in c.unsupported : ~canPlay(src)

FilmsOK == films \in Torrents

LEMMA FilmsAreFinite ==
  ASSUME FilmsOK
  PROVE  IsFiniteSet(films) /\ films \subseteq Files /\ Cardinality(films) \in Nat
<1>1. films \subseteq Files /\ IsFiniteSet(Files)
  BY CardAssumption DEF FilmsOK
<1>2. IsFiniteSet(films)
  BY <1>1, FS_Subset
<1> QED
  BY <1>1, <1>2, FS_CardinalityType

\* There is one player for each film.
LEMMA OnePlayerEach ==
  ASSUME FilmsOK, NEW rt
  PROVE  LET all == {createPlayer(f, rt) : f \in films}
         IN  IsFiniteSet(all) /\ Cardinality(all) = Cardinality(films)
<1> DEFINE all == {createPlayer(f, rt) : f \in films}
           map == [f \in films |-> createPlayer(f, rt)]
<1>1. \A f, g \in films : createPlayer(f, rt) = createPlayer(g, rt) => f = g
  BY DEF createPlayer
<1>2. map \in Surjection(films, all)
  BY DEF Surjection
<1>3. map \in Injection(films, all)
  <2>1. map \in [films -> all] /\ \A f, g \in films : map[f] = map[g] => f = g
    BY <1>1
  <2> HIDE DEF map, all
  <2> QED
    BY <2>1 DEF Injection, IsInjective
<1>4. IsFiniteSet(films)
  BY FilmsAreFinite
<1> HIDE DEF all, map
<1>5. IsFiniteSet(all) /\ Cardinality(all) = Cardinality(films)
  BY <1>2, <1>3, <1>4, FS_Surjection
<1> QED
  BY <1>5 DEF all

LEMMA PlayersOfCard ==
  ASSUME FilmsOK, NEW c, NEW from, NEW rt
  PROVE  /\ players(c, from, rt) = {} \/ players(c, from, rt) = {createPlayer(f, rt) : f \in films}
         /\ fileList(c, from) = films => players(c, from, rt) = {createPlayer(f, rt) : f \in films}
         /\ IsFiniteSet(players(c, from, rt)) /\ Cardinality(players(c, from, rt)) \in Nat
         /\ Cardinality(players(c, from, rt)) > 1 => Cardinality(films) > 1
<1> DEFINE all == players(c, from, rt)
           full == {createPlayer(f, rt) : f \in films}
<1>1. fileList(c, from) = {} \/ fileList(c, from) = films
  BY DEF fileList
<1>2. (all = {} \/ all = full) /\ (fileList(c, from) = films => all = full)
  BY <1>1 DEF players
<1>3. IsFiniteSet(full) /\ Cardinality(full) = Cardinality(films)
  BY OnePlayerEach
<1>4. IsFiniteSet({}) /\ Cardinality({}) = 0 /\ Cardinality(films) \in Nat
  BY FS_EmptySet, FilmsAreFinite
<1> HIDE DEF all, full
<1>5. IsFiniteSet(all) /\ Cardinality(all) \in Nat /\ (Cardinality(all) > 1 => Cardinality(films) > 1)
  BY <1>2, <1>3, <1>4
<1> QED
  BY <1>2, <1>5 DEF all, full

\* A button for episodes is one for several films, and a trigger one for a film that is all there is.
LEMMA ButtonIs ==
  ASSUME FilmsOK, NEW c, NEW from, NEW rt
  PROVE  /\ Button(c, from, rt) = "trigger" => \E src : players(c, from, rt) = {src}
         /\ Button(c, from, rt) = "episodes" => Cardinality(films) > 1
         /\ Cardinality(players(c, from, rt)) > 1 /\ available(c, from, rt) # {} =>
              Button(c, from, rt) = "episodes"
<1> DEFINE all == players(c, from, rt)
           single == Cardinality(all) = 1 /\ all \subseteq available(c, from, rt)
<1>1. /\ IsFiniteSet(all) /\ Cardinality(all) \in Nat
      /\ Cardinality(all) > 1 => Cardinality(films) > 1
  BY PlayersOfCard
<1>2. Cardinality(all) = 1 => \E src : all = {src}
  BY <1>1, FS_Singleton
<1>3. Cardinality(all) > 1 => Cardinality(all) # 1 /\ all # {}
  BY <1>1, FS_EmptySet
<1>4. Button(c, from, rt) =
        CASE single /\ \E src \in all : src.hls -> "audio"
          [] single /\ \E src \in all : ~src.hls -> "trigger"
          [] Cardinality(all) > 1 /\ available(c, from, rt) # {} -> "episodes"
          [] rt.builtIn /\ ~c.playerResolveFailed /\ all = {} -> "resolve"
          [] OTHER -> "playlist"
  BY DEF Button
<1>5. single => Cardinality(all) = 1
  OBVIOUS
<1> HIDE DEF all, single
<1>6. Button(c, from, rt) = "trigger" => Cardinality(all) = 1
  BY <1>1, <1>2, <1>3, <1>4, <1>5
<1>7. Button(c, from, rt) = "episodes" => Cardinality(all) > 1
  BY <1>1, <1>2, <1>3, <1>4, <1>5
<1>8. Cardinality(all) > 1 /\ available(c, from, rt) # {} => Button(c, from, rt) = "episodes"
  BY <1>1, <1>2, <1>3, <1>4, <1>5
<1>9. /\ Button(c, from, rt) = "trigger" => \E src : all = {src}
      /\ Button(c, from, rt) = "episodes" => Cardinality(films) > 1
  BY <1>1, <1>2, <1>6, <1>7
<1> QED
  BY <1>8, <1>9 DEF all

\* The film of a player of the table is among those the menu offers.
LEMMA TableIsOffered ==
  ASSUME FilmsOK, Cardinality(films) > 1, NEW c, OnlyUnsupported(c), NEW from, NEW rt,
         NEW f \in Table(c, from, rt)
  PROVE  Button(c, from, rt) = "episodes"
<1>1. "list" \in from /\ f \in films /\ canPlay(createPlayer(f, rt))
  BY DEF Table
<1>2. fileList(c, from) = films
  BY <1>1 DEF fileList
<1>3. players(c, from, rt) = {createPlayer(g, rt) : g \in films}
  BY <1>2, PlayersOfCard
<1>4. createPlayer(f, rt) \in players(c, from, rt) \ c.unsupported
  BY <1>1, <1>3 DEF OnlyUnsupported
<1>5. Cardinality(players(c, from, rt)) > 1
  BY <1>3, OnePlayerEach
<1> QED
  BY <1>4, <1>5, ButtonIs DEF available

-----------------------------------------------------------------------------
(* Renders of the card.                                                     *)

\* The card as it is rendered: players that cannot play are marked, and not selected.
LEMMA RenderedCard ==
  ASSUME FilmsOK, NEW c, IsCard(c), OnlyUnsupported(c), NEW from, NEW rt, Render(c, from, rt)
  PROVE  /\ IsCard(card') /\ OnlyUnsupported(card') /\ FilmsOK'
         /\ card'.selected \in {c.selected, None}
         /\ card'.mounted = c.mounted /\ card'.resolved = c.resolved /\ card'.openAfter = c.openAfter
         /\ card'.episodeMenu = c.episodeMenu
         /\ card'.isResolvingPlayers = c.isResolvingPlayers /\ card'.isResolvingAudio = c.isResolvingAudio
<1> DEFINE one == IF c.selected # None /\ ~canPlay(c.selected) THEN markPlayerUnsupported(c, c.selected) ELSE c
           all == players(one, from, rt)
           key == CHOOSE src \in all : TRUE
           two == Marked(c, from, rt)
           Same(x) == /\ x.mounted = c.mounted /\ x.resolved = c.resolved /\ x.openAfter = c.openAfter
                      /\ x.episodeMenu = c.episodeMenu
                      /\ x.isResolvingPlayers = c.isResolvingPlayers
                      /\ x.isResolvingAudio = c.isResolvingAudio
<1>1. ASSUME NEW x, NEW k, IsCard(x)
      PROVE  LET y == markPlayerUnsupported(x, k)
             IN  /\ IsCard(y) /\ y.unsupported = x.unsupported \cup {k} /\ y.selected \in {x.selected, None}
                 /\ Same(x) => Same(y)
  <2> DEFINE y == markPlayerUnsupported(x, k)
  <2>1. y = [z \in State |-> IF z = "unsupported" THEN x.unsupported \cup {k}
                            ELSE IF z = "selected" THEN (IF x.selected = k THEN None ELSE x.selected) ELSE x[z]]
    BY <1>1 DEF markPlayerUnsupported, IsCard, State
  <2> HIDE DEF y
  <2>2. IsCard(y) /\ y.unsupported = x.unsupported \cup {k} /\ y.selected \in {x.selected, None}
    BY <2>1 DEF IsCard, State
  <2>3. Same(x) => Same(y)
    BY <2>1 DEF State
  <2> QED
    BY <2>2, <2>3 DEF y
<1>2. IsCard(one) /\ OnlyUnsupported(one) /\ one.selected \in {c.selected, None} /\ Same(one)
  <2>1. CASE c.selected # None /\ ~canPlay(c.selected)
    <3>1. one = markPlayerUnsupported(c, c.selected)
      BY <2>1
    <3> HIDE DEF one
    <3>2. IsCard(one) /\ one.unsupported = c.unsupported \cup {c.selected} /\ one.selected \in {c.selected, None}
          /\ Same(one)
      BY <1>1, <3>1
    <3> QED
      BY <2>1, <3>2 DEF OnlyUnsupported
  <2>2. CASE ~(c.selected # None /\ ~canPlay(c.selected))
    BY <2>2
  <2> QED
    BY <2>1, <2>2
<1>3. two = IF Button(one, from, rt) = "trigger" /\ \E src \in all : ~canPlay(src)
            THEN markPlayerUnsupported(one, key) ELSE one
  BY DEF Marked
<1>4. Button(one, from, rt) = "trigger" => \E src : all = {src}
  BY ButtonIs
<1> HIDE DEF one, all, two
<1>5. IsCard(two) /\ OnlyUnsupported(two) /\ two.selected \in {c.selected, None} /\ Same(two)
  <2>1. CASE Button(one, from, rt) = "trigger" /\ \E src \in all : ~canPlay(src)
    <3>1. two = markPlayerUnsupported(one, key)
      BY <1>3, <2>1
    <3>2. ~canPlay(key)
      BY <1>4, <2>1
    <3> HIDE DEF key
    <3>3. IsCard(two) /\ two.unsupported = one.unsupported \cup {key} /\ two.selected \in {one.selected, None}
          /\ Same(two)
      BY <1>1, <1>2, <3>1
    <3> QED
      BY <1>2, <3>2, <3>3 DEF OnlyUnsupported
  <2>2. CASE ~(Button(one, from, rt) = "trigger" /\ \E src \in all : ~canPlay(src))
    BY <1>2, <1>3, <2>2
  <2> QED
    BY <2>1, <2>2
<1>6. card' = Loading(two, from) /\ films' = films
  BY DEF Render, two
<1>7. IsCard(card') /\ card'.unsupported = two.unsupported /\ card'.selected = two.selected /\ Same(card')
  BY <1>5, <1>6 DEF Loading, IsCard, State
<1> QED
  BY <1>5, <1>6, <1>7 DEF OnlyUnsupported, FilmsOK

\* None is neither a player nor an element.
NoneIsNoFunction == \A f : f = [x \in DOMAIN f |-> f[x]] => f # None

\* Where a film may play besides the player that was selected.
Others == Place \ {"selected"}
HasElement(p) == player[p] # None /\ player[p].video # None
Silent == \A p \in Others : ~HasElement(p)

\* The player that was selected is open as long as it is there.
SelectedOK ==
  /\ player["selected"] # None => player["selected"].open /\ player["selected"].video # None
  /\ card.mounted /\ card.selected # None => player["selected"] # None

\* The others are where the card and its dialog have a place for them.
ShownOK ==
  /\ player["trigger"] # None => Button(card, known, gstRuntime) = "trigger"
  /\ \A f \in Files : player[f] # None => f \in Table(card, known, gstRuntime)

LEMMA Places ==
  /\ "selected" \in Place /\ "trigger" \in Place /\ Files \subseteq Place /\ Place = {"trigger", "selected"} \cup Files
  /\ "trigger" \notin Files /\ "selected" \notin Files
BY CardAssumption

\* What each place shows of a card d.
LEMMA RenderedIs ==
  ASSUME FilmsOK, NEW d, NEW from, NEW rt, NEW p \in Place
  PROVE  Rendered(d, from, rt)[p] =
           IF p = "trigger"
           THEN IF d.mounted /\ Button(d, from, rt) = "trigger"
                THEN Kept(p, CHOOSE src \in players(d, from, rt) : TRUE, FALSE) ELSE None
           ELSE IF p = "selected"
           THEN IF d.mounted /\ d.selected # None THEN Kept(p, d.selected, TRUE) ELSE None
           ELSE IF p \in Table(d, from, rt) /\ d.mounted THEN Given(p, createPlayer(p, rt)) ELSE None
<1>1. Table(d, from, rt) \subseteq Files
  BY FilmsAreFinite DEF Table
<1>2. Rendered(d, from, rt)[p] =
        CASE p = "trigger" /\ d.mounted /\ Button(d, from, rt) = "trigger" ->
               Kept(p, CHOOSE src \in players(d, from, rt) : TRUE, FALSE)
          [] p = "selected" /\ d.mounted /\ d.selected # None -> Kept(p, d.selected, TRUE)
          [] p \in Table(d, from, rt) /\ d.mounted -> Given(p, createPlayer(p, rt))
          [] OTHER -> None
  BY DEF Rendered
<1>3. CASE p = "trigger"
  BY <1>1, <1>2, <1>3, Places
<1>4. CASE p = "selected"
  BY <1>1, <1>2, <1>4, Places
<1>5. CASE p \in Files
  BY <1>1, <1>2, <1>5, Places
<1> QED
  BY <1>3, <1>4, <1>5, Places

LEMMA TriggerIs ==
  FilmsOK => \A d, from, rt :
    \/ Rendered(d, from, rt)["trigger"] = None
    \/ /\ Button(d, from, rt) = "trigger"
       /\ \E src : Rendered(d, from, rt)["trigger"] = Kept("trigger", src, FALSE)
BY RenderedIs, Places

LEMMA SelectedIs ==
  FilmsOK => \A d, from, rt :
    Rendered(d, from, rt)["selected"] =
      IF d.mounted /\ d.selected # None THEN Kept("selected", d.selected, TRUE) ELSE None
BY RenderedIs, Places

LEMMA TableIs ==
  FilmsOK => \A d, from, rt, f :
    f \in Files =>
      \/ Rendered(d, from, rt)[f] = None
      \/ f \in Table(d, from, rt) /\ \E src : Rendered(d, from, rt)[f] = Given(f, src)
BY RenderedIs, Places

\* No render starts a film, except the one that mounts the player that was just selected.
LEMMA RenderStartsNothing ==
  ASSUME NoneIsNoFunction, FilmsOK, PlayersOK, SelectedOK, NEW c, NEW from, NEW rt, Render(c, from, rt)
  PROVE  /\ \A p \in Others : (HasElement(p)' => HasElement(p)) /\ (Here(p)' => Here(p))
         /\ SelectedOK' /\ ShownOK'
         /\ card.mounted /\ card'.selected \in {card.selected, None} => (Here("selected")' => Here("selected"))
<1> DEFINE d == card'
           from2 == known'
           rt2 == gstRuntime'
           new == Rendered(d, from2, rt2)
<1>1. player' = new /\ FilmsOK
  BY DEF Render, Mounted
<1>0. Button(card, known, gstRuntime)' = Button(d, from2, rt2) /\ Table(card, known, gstRuntime)' = Table(d, from2, rt2)
  BY DEF Render, Button, Table, available, players, fileList, createPlayer
<1> HIDE DEF d, from2, rt2
<1>2. /\ \/ new["trigger"] = None
         \/ Button(d, from2, rt2) = "trigger" /\ \E src : new["trigger"] = Kept("trigger", src, FALSE)
      /\ new["selected"] = IF d.mounted /\ d.selected # None THEN Kept("selected", d.selected, TRUE) ELSE None
      /\ \A f \in Files :
           \/ new[f] = None
           \/ f \in Table(d, from2, rt2) /\ \E src : new[f] = Given(f, src)
  <2>1. \/ new["trigger"] = None
        \/ Button(d, from2, rt2) = "trigger" /\ \E src : new["trigger"] = Kept("trigger", src, FALSE)
    BY TriggerIs
  <2>2. new["selected"] = IF d.mounted /\ d.selected # None THEN Kept("selected", d.selected, TRUE) ELSE None
    BY SelectedIs
  <2>3. \A f \in Files : new[f] = None
                         \/ (f \in Table(d, from2, rt2) /\ \E src : new[f] = Given(f, src))
    BY TableIs
  <2> QED
    BY <2>1, <2>2, <2>3
<1> HIDE DEF new
<1>3. \A src : /\ Player(src, FALSE).video = None
               /\ Player(src, TRUE).open /\ Player(src, TRUE).video = Element
               /\ Player(src, TRUE) # None /\ Element # None
  BY DEF Player, Element, NoneIsNoFunction
<1>4. ASSUME NEW p \in Others
      PROVE  (HasElement(p)' => HasElement(p)) /\ (Here(p)' => Here(p))
  <2>1. player[p] # None => Component(player[p])
    BY DEF PlayersOK, PlayerOK, Others
  <2>2. ASSUME NEW src, player'[p] = Kept(p, src, FALSE)
        PROVE  (HasElement(p)' => HasElement(p)) /\ (Here(p)' => Here(p))
    BY <1>3, <2>2 DEF Kept, HasElement, Here
  <2>3. ASSUME NEW src, player'[p] = Given(p, src)
        PROVE  (HasElement(p)' => HasElement(p)) /\ (Here(p)' => Here(p))
    <3>1. CASE player[p] = None
      <4>1. player'[p] = Player(src, FALSE)
        BY <2>3, <3>1 DEF Given
      <4> QED
        BY <1>3, <4>1 DEF HasElement, Here
    <3>2. CASE player[p] # None /\ player[p].src = src
      BY <2>3, <3>2 DEF Given, HasElement, Here
    <3>3. CASE player[p] # None /\ player[p].src # src
      <4>1. player'[p].open = player[p].open
            /\ player'[p].video = (IF player[p].video = None THEN None ELSE Element)
        BY <2>1, <2>3, <3>3 DEF Given, Component, Fields
      <4> QED
        BY <3>3, <4>1 DEF HasElement, Here
    <3> QED
      BY <3>1, <3>2, <3>3
  <2>4. p = "trigger" \/ p \in Files
    BY Places DEF Others
  <2>5. CASE player'[p] = None
    BY <2>5 DEF HasElement, Here
  <2> QED
    BY <1>1, <1>2, <2>2, <2>3, <2>4, <2>5
<1>5. ShownOK'
  BY <1>0, <1>1, <1>2 DEF ShownOK
<1>6. SelectedOK'
  <2> USE DEF d
  <2>1. CASE d.mounted /\ d.selected # None
    <3>1. player'["selected"] = Kept("selected", d.selected, TRUE)
      BY <1>1, <1>2, <2>1
    <3>2. CASE player[("selected")] # None /\ player["selected"].src = d.selected
      BY <3>1, <3>2 DEF Kept, SelectedOK
    <3>3. CASE ~(player["selected"] # None /\ player["selected"].src = d.selected)
      <4>1. player'["selected"] = Player(d.selected, TRUE)
        BY <3>1, <3>3 DEF Kept
      <4> QED
        BY <1>3, <4>1 DEF SelectedOK
    <3> QED
      BY <3>2, <3>3
  <2>2. CASE ~(d.mounted /\ d.selected # None)
    BY <1>1, <1>2, <2>2 DEF SelectedOK
  <2> QED
    BY <2>1, <2>2
<1>7. ASSUME card.mounted, card'.selected \in {card.selected, None}, Here("selected")'
      PROVE  Here("selected")
  <2> USE DEF d
  <2>1. player'["selected"] # None
    BY <1>7 DEF Here
  <2>2. d.selected # None /\ player'["selected"] = Kept("selected", d.selected, TRUE)
    BY <1>1, <1>2, <2>1
  <2>3. d.selected = card.selected
    BY <1>7, <2>2
  <2>4. player["selected"] # None
    BY <1>7, <2>1, <2>2, <2>3 DEF SelectedOK, Kept
  <2> QED
    BY <2>4 DEF SelectedOK, Here
<1> QED
  BY <1>4, <1>5, <1>6, <1>7

-----------------------------------------------------------------------------
(* Steps of the players alone.                                              *)

\* No film starts, and the player that was selected stays.
NothingStarts ==
  /\ \A p \in Place : /\ (player[p] = None => player'[p] = None)
                      /\ (HasElement(p)' => HasElement(p)) /\ (Here(p)' => Here(p))
  /\ player["selected"] # None =>
       player'["selected"] # None /\ player'["selected"].open /\ player'["selected"].video # None

\* What a button, the element or its film does to a player.
Plain(p, c) == Component(c) /\ c.open = player[p].open /\ c.video # None

LEMMA PlainUpdate ==
  ASSUME NoneIsNoFunction, PlayersOK, SelectedOK, NEW p \in Place, Here(p), NEW c, Plain(p, c), Update(p, c)
  PROVE  NothingStarts
<1>1. \A q \in Place : player'[q] = IF q = p THEN c ELSE player[q]
  BY DEF Update, Mounted, PlayersOK
<1>2. c # None
  BY DEF Plain, Component, NoneIsNoFunction
<1> QED
  BY <1>1, <1>2, Places DEF NothingStarts, Plain, Here, HasElement, SelectedOK

LEMMA SwitchedIsPlain ==
  ASSUME NoneIsNoFunction, NEW p, NEW c, Plain(p, c), NEW paused
  PROVE  Plain(p, Switched(c, paused))
<1> DEFINE d == Switched(c, paused)
<1>1. Component(d) /\ d.open = c.open /\ d.video = [c.video EXCEPT !.paused = paused, !.events = @ + 1]
  BY DEF Plain, Switched, Component, Fields
<1>2. [c.video EXCEPT !.paused = paused, !.events = @ + 1] # None
  BY DEF NoneIsNoFunction
<1> QED
  BY <1>1, <1>2 DEF Plain

LEMMA PlaysStartNothing ==
  ASSUME NoneIsNoFunction, PlayersOK, SelectedOK, NEW p \in Place, Plays(p)
  PROVE  NothingStarts
<1> DEFINE c == player[p]
<1>1. ASSUME Here(p) PROVE Component(c) /\ c.video # None
  BY <1>1 DEF Here, PlayersOK, PlayerOK
<1>2. ASSUME ManifestParsed(p) PROVE NothingStarts
  <2> DEFINE d == [c EXCEPT !.parsed = TRUE]
  <2>1. Here(p) /\ (Update(p, d) \/ Update(p, Switched(d, FALSE)))
    BY <1>2 DEF ManifestParsed
  <2>2. Plain(p, d)
    BY <1>1, <2>1 DEF Plain, Component, Fields
  <2> HIDE DEF d
  <2>3. Plain(p, Switched(d, FALSE))
    BY <2>2, SwitchedIsPlain
  <2> QED
    BY <2>1, <2>2, <2>3, PlainUpdate
<1>3. ASSUME handleLoaded(p) PROVE NothingStarts
  <2> DEFINE d == [c EXCEPT !.loading = FALSE]
  <2>1. Here(p) /\ (Update(p, d) \/ Update(p, Switched(d, FALSE)))
    BY <1>3 DEF handleLoaded
  <2>2. Plain(p, d)
    BY <1>1, <2>1 DEF Plain, Component, Fields
  <2> HIDE DEF d
  <2>3. Plain(p, Switched(d, FALSE))
    BY <2>2, SwitchedIsPlain
  <2> QED
    BY <2>1, <2>2, <2>3, PlainUpdate
<1>4. ASSUME HlsFailed(p) PROVE NothingStarts
  <2> DEFINE d == [c EXCEPT !.loading = FALSE]
  <2>1. Here(p) /\ Update(p, d)
    BY <1>4 DEF HlsFailed
  <2>2. Plain(p, d)
    BY <1>1, <2>1 DEF Plain, Component, Fields
  <2> HIDE DEF d
  <2> QED
    BY <2>1, <2>2, PlainUpdate
<1>5. ASSUME Ends(p) PROVE NothingStarts
  <2>1. Here(p) /\ Update(p, Switched(c, TRUE))
    BY <1>5 DEF Ends
  <2>2. Plain(p, c)
    BY <1>1, <2>1 DEF Plain
  <2> QED
    BY <2>1, <2>2, SwitchedIsPlain, PlainUpdate
<1>6. ASSUME EventArrives(p) PROVE NothingStarts
  <2> DEFINE d == [c EXCEPT !.video.events = @ - 1, !.playing = togglePlay(@)]
  <2>1. Here(p) /\ Update(p, d)
    BY <1>6 DEF EventArrives
  <2>2. Component(d) /\ d.open = c.open /\ d.video = [c.video EXCEPT !.events = @ - 1]
    BY <1>1, <2>1 DEF Component, Fields
  <2>3. [c.video EXCEPT !.events = @ - 1] # None
    BY DEF NoneIsNoFunction
  <2> HIDE DEF d
  <2>4. Plain(p, d)
    BY <2>2, <2>3 DEF Plain
  <2> QED
    BY <2>1, <2>4, PlainUpdate
<1>7. ASSUME Exited(p) PROVE NothingStarts
  <2> DEFINE d == [c EXCEPT !.video = None]
  <2>1. c # None /\ ~c.open /\ Update(p, d)
    BY <1>7 DEF Exited
  <2>2. Component(c)
    BY <2>1 DEF PlayersOK, PlayerOK
  <2>3. Component(d) /\ d.open = c.open /\ d.video = None
    BY <2>2 DEF Component, Fields
  <2>4. \A q \in Place : player'[q] = IF q = p THEN d ELSE player[q]
    BY <2>1 DEF Update, Mounted, PlayersOK
  <2> HIDE DEF d
  <2>5. p # "selected"
    BY <2>1 DEF SelectedOK
  <2> QED
    BY <2>1, <2>3, <2>4, <2>5, Places DEF NothingStarts, Here, HasElement, SelectedOK
<1> QED
  BY <1>2, <1>3, <1>4, <1>5, <1>6, <1>7 DEF Plays

LEMMA ControlsStartNothing ==
  ASSUME NoneIsNoFunction, PlayersOK, SelectedOK, NEW p \in Place, Controls(p)
  PROVE  NothingStarts
<1> DEFINE c == player[p]
<1>0. Here(p)
  BY DEF Controls, handlePlayPause, toggleMute, handleVolume, changeSpeed
<1>1. Component(c) /\ c.video # None
  BY <1>0 DEF Here, PlayersOK, PlayerOK
<1>2. \A x : /\ [c.video EXCEPT !.muted = x] # None /\ [c.video EXCEPT !.loud = x] # None
             /\ [c.video EXCEPT !.rate = x] # None
  BY DEF NoneIsNoFunction
<1>3. ASSUME handlePlayPause(p) PROVE NothingStarts
  <2>1. Update(p, Switched(c, ~c.video.paused))
    BY <1>3 DEF handlePlayPause, Toggled
  <2>2. Plain(p, c)
    BY <1>1 DEF Plain
  <2> QED
    BY <1>0, <2>1, <2>2, SwitchedIsPlain, PlainUpdate
<1>4. ASSUME toggleMute(p) PROVE NothingStarts
  <2> DEFINE d == [c EXCEPT !.video.muted = ~c.muted, !.muted = ~@,
                            !.crossed = c.muted /\ ~c.video.loud]
  <2>1. Update(p, d)
    BY <1>4 DEF toggleMute
  <2>2. Component(d) /\ d.open = c.open /\ d.video = [c.video EXCEPT !.muted = ~c.muted]
    BY <1>1 DEF Component, Fields
  <2> HIDE DEF d
  <2> QED
    BY <1>0, <1>2, <2>1, <2>2, PlainUpdate DEF Plain
<1>5. ASSUME NEW loud, handleVolume(p, loud) PROVE NothingStarts
  <2> DEFINE d == [c EXCEPT !.video.loud = loud, !.muted = ~loud,
                            !.crossed = loud /\ c.video.muted]
  <2>1. Update(p, d)
    BY <1>5 DEF handleVolume
  <2>2. Component(d) /\ d.open = c.open /\ d.video = [c.video EXCEPT !.loud = loud]
    BY <1>1 DEF Component, Fields
  <2> HIDE DEF d
  <2> QED
    BY <1>0, <1>2, <2>1, <2>2, PlainUpdate DEF Plain
<1>6. ASSUME NEW r, changeSpeed(p, r) PROVE NothingStarts
  <2> DEFINE d == [c EXCEPT !.video.rate = r, !.speed = r]
  <2>1. Update(p, d)
    BY <1>6 DEF changeSpeed
  <2>2. Component(d) /\ d.open = c.open /\ d.video = [c.video EXCEPT !.rate = r]
    BY <1>1 DEF Component, Fields
  <2> HIDE DEF d
  <2> QED
    BY <1>0, <1>2, <2>1, <2>2, PlainUpdate DEF Plain
<1> QED
  BY <1>3, <1>4, <1>5, <1>6 DEF Controls

LEMMA KeyStartsNothing ==
  ASSUME NoneIsNoFunction, PlayersOK, SelectedOK, handleKey
  PROVE  NothingStarts
<1>1. \A p \in Place : player'[p] = IF Here(p) THEN Toggled(player[p]) ELSE player[p]
  BY DEF handleKey, Mounted
<1>2. ASSUME NEW p \in Place, Here(p) PROVE Plain(p, player'[p]) /\ player'[p] # None
  <2>1. Plain(p, player[p])
    BY <1>2 DEF Here, PlayersOK, PlayerOK, Plain
  <2>2. Plain(p, player'[p])
    BY <1>1, <1>2, <2>1, SwitchedIsPlain DEF Toggled
  <2> QED
    BY <2>2 DEF Plain, Component, NoneIsNoFunction
<1> QED
  BY <1>1, <1>2, Places DEF NothingStarts, Plain, Here, HasElement, SelectedOK

LEMMA CloseStartsNothing ==
  ASSUME NoneIsNoFunction, PlayersOK, SelectedOK, NEW p \in Others, Here(p), Update(p, Closed(player[p]))
  PROVE  NothingStarts
<1> DEFINE c == player[p]
           d == Closed(c)
<1>1. p \in Place /\ c # None /\ Component(c)
  BY DEF Here, PlayersOK, PlayerOK, Others
<1>2. Component(d) /\ d.open = FALSE /\ d.video = c.video
  BY <1>1 DEF Component, Fields, Closed
<1>3. \A q \in Place : player'[q] = IF q = p THEN d ELSE player[q]
  BY DEF Update, Mounted, PlayersOK
<1> HIDE DEF d
<1> QED
  BY <1>1, <1>2, <1>3, Places DEF NothingStarts, Here, HasElement, SelectedOK, Others

-----------------------------------------------------------------------------
(* One film at a time.                                                      *)

\* An answer that may still select a player is the only one, and the film it selects will play alone.
AsksOK ==
  ~hasty /\ card.mounted /\ asks # {} => Busy /\ Silent /\ \E a : asks = {a}

\* The menu of a torrent with several films is open only if none of them plays in the table,
\* whatever happens to its button.
MenuOK ==
  /\ card.openAfter => card.resolved
  /\ ~hasty /\ card.episodeMenu /\ Cardinality(films) > 1 => \A f \in Files : ~Here(f)

CardInv ==
  /\ FilmsOK /\ IsCard(card) /\ OnlyUnsupported(card) /\ PlayersOK
  /\ SelectedOK /\ ShownOK /\ AsksOK /\ MenuOK /\ OnePlayer

LEMMA NothingStartsKeeps ==
  ASSUME CardInv, NothingStarts, PlayersOK',
         UNCHANGED <<films, card, known, gstRuntime, asks, hasty>>
  PROVE  CardInv'
<1>1. /\ \A p \in Place : /\ (player[p] = None => player'[p] = None)
                          /\ (HasElement(p)' => HasElement(p)) /\ (Here(p)' => Here(p))
      /\ player["selected"] # None =>
           player'["selected"] # None /\ player'["selected"].open /\ player'["selected"].video # None
  BY DEF NothingStarts
<1>2. FilmsOK' /\ IsCard(card)' /\ OnlyUnsupported(card)'
  BY DEF CardInv, FilmsOK, IsCard, OnlyUnsupported, canPlay
<1>3. SelectedOK'
  BY <1>1, Places DEF CardInv, SelectedOK
<1>4. ShownOK'
  <2>1. /\ Button(card, known, gstRuntime)' = Button(card, known, gstRuntime)
        /\ Table(card, known, gstRuntime)' = Table(card, known, gstRuntime)
    BY DEF Button, Table, available, players, fileList, createPlayer
  <2>2. ShownOK
    BY DEF CardInv
  <2> QED
    BY <1>1, <2>1, <2>2, Places DEF ShownOK
<1>5. AsksOK'
  <2>1. Silent => Silent'
    BY <1>1 DEF Silent, Others
  <2>2. Busy' = Busy
    BY DEF Busy
  <2> QED
    BY <2>1, <2>2 DEF CardInv, AsksOK
<1>6. MenuOK'
  BY <1>1, Places DEF CardInv, MenuOK
<1>7. OnePlayer'
  BY <1>1 DEF CardInv, OnePlayer
<1> QED
  BY <1>2, <1>3, <1>4, <1>5, <1>6, <1>7 DEF CardInv

\* What every render keeps.
LEMMA Rendering ==
  ASSUME NoneIsNoFunction, CardInv, card.mounted, NEW c, IsCard(c), OnlyUnsupported(c), NEW from, NEW rt,
         Render(c, from, rt)
  PROVE  /\ FilmsOK' /\ IsCard(card') /\ OnlyUnsupported(card)' /\ PlayersOK' /\ SelectedOK' /\ ShownOK'
         /\ films' = films /\ (Silent => Silent')
         /\ \A p \in Others : Here(p)' => Here(p)
         /\ c.selected \in {card.selected, None} => (Here("selected")' => Here("selected"))
         /\ card'.mounted = c.mounted /\ card'.resolved = c.resolved /\ card'.openAfter = c.openAfter
         /\ card'.episodeMenu = c.episodeMenu
         /\ card'.isResolvingPlayers = c.isResolvingPlayers /\ card'.isResolvingAudio = c.isResolvingAudio
<1>1. FilmsOK /\ PlayersOK /\ SelectedOK
  BY DEF CardInv
<1>2. /\ IsCard(card') /\ OnlyUnsupported(card') /\ FilmsOK'
      /\ card'.selected \in {c.selected, None}
      /\ card'.mounted = c.mounted /\ card'.resolved = c.resolved /\ card'.openAfter = c.openAfter
      /\ card'.episodeMenu = c.episodeMenu
      /\ card'.isResolvingPlayers = c.isResolvingPlayers /\ card'.isResolvingAudio = c.isResolvingAudio
  BY <1>1, RenderedCard
<1>3. /\ \A p \in Others : (HasElement(p)' => HasElement(p)) /\ (Here(p)' => Here(p))
      /\ SelectedOK' /\ ShownOK'
      /\ card'.selected \in {card.selected, None} => (Here("selected")' => Here("selected"))
  BY <1>1, RenderStartsNothing
<1>4. PlayersOK'
  BY <1>1, RenderKeeps
<1>5. films' = films
  BY DEF Render
<1>6. Silent => Silent'
  BY <1>3 DEF Silent
<1>7. OnlyUnsupported(card)'
  BY <1>2 DEF OnlyUnsupported, canPlay
<1> QED
  BY <1>2, <1>3, <1>4, <1>5, <1>6, <1>7

\* A render that selects nothing new.
LEMMA SteadyKeeps ==
  ASSUME NoneIsNoFunction, CardInv, card.mounted, NEW c, IsCard(c), NEW from, NEW rt, Render(c, from, rt),
         c.unsupported = card.unsupported, c.selected \in {card.selected, None},
         c.resolved = card.resolved, c.openAfter = card.openAfter, c.episodeMenu => card.episodeMenu,
         c.isResolvingPlayers = card.isResolvingPlayers, c.isResolvingAudio = card.isResolvingAudio,
         UNCHANGED <<asks, hasty>>
  PROVE  CardInv'
<1>1. OnlyUnsupported(c)
  BY DEF CardInv, OnlyUnsupported
<1>2. /\ FilmsOK' /\ IsCard(card') /\ OnlyUnsupported(card)' /\ PlayersOK' /\ SelectedOK' /\ ShownOK'
      /\ films' = films /\ (Silent => Silent')
      /\ \A p \in Others : Here(p)' => Here(p)
      /\ Here("selected")' => Here("selected")
      /\ card'.resolved = card.resolved /\ card'.openAfter = card.openAfter
      /\ card'.episodeMenu => card.episodeMenu
      /\ card'.isResolvingPlayers = card.isResolvingPlayers /\ card'.isResolvingAudio = card.isResolvingAudio
  BY <1>1, Rendering
<1>3. \A p \in Place : Here(p)' => Here(p)
  BY <1>2 DEF Others
<1>4. AsksOK'
  BY <1>2 DEF CardInv, AsksOK, Busy
<1>5. MenuOK'
  BY <1>2, <1>3, Places DEF CardInv, MenuOK
<1>6. OnePlayer'
  BY <1>3 DEF CardInv, OnePlayer
<1>7. IsCard(card)'
  BY <1>2 DEF IsCard
<1> QED
  BY <1>2, <1>4, <1>5, <1>6, <1>7 DEF CardInv

\* A render while nothing plays beside the player that was selected, unless the user was hasty.
LEMMA AloneKeeps ==
  ASSUME NoneIsNoFunction, CardInv, card.mounted, NEW c, IsCard(c), Shown(c),
         c.unsupported = card.unsupported, c.openAfter => c.resolved,
         hasty => hasty',
         ~hasty' => \A p \in Others : ~Here(p),
         ~hasty' /\ asks' # {} =>
           (c.isResolvingPlayers \/ c.isResolvingAudio) /\ Silent /\ \E a : asks' = {a}
  PROVE  CardInv'
<1>1. OnlyUnsupported(c) /\ Render(c, known, gstRuntime)
  BY DEF CardInv, OnlyUnsupported, Shown
<1>2. /\ FilmsOK' /\ IsCard(card') /\ OnlyUnsupported(card)' /\ PlayersOK' /\ SelectedOK' /\ ShownOK'
      /\ films' = films /\ (Silent => Silent')
      /\ \A p \in Others : Here(p)' => Here(p)
      /\ card'.resolved = c.resolved /\ card'.openAfter = c.openAfter
      /\ card'.isResolvingPlayers = c.isResolvingPlayers /\ card'.isResolvingAudio = c.isResolvingAudio
  BY <1>1, Rendering
<1>3. ~hasty' => \A p \in Others : ~Here(p)'
  BY <1>2
<1>4. AsksOK'
  BY <1>2 DEF AsksOK, Busy
<1>5. MenuOK'
  BY <1>2, <1>3, Places DEF MenuOK, Others
<1>6. OnePlayer'
  BY <1>3 DEF OnePlayer, Others
<1>7. IsCard(card)'
  BY <1>2 DEF IsCard
<1> QED
  BY <1>2, <1>4, <1>5, <1>6, <1>7 DEF CardInv


\* What is known of the files and of the browser is the same.
Alike(c, d) ==
  IsCard(d) /\ d.unsupported = c.unsupported /\ d.resolved = c.resolved /\ d.openAfter = c.openAfter

\* Nothing is asked, or one thing while the button says so.
AsksOnce(r) == r.asks = {} \/ ((r.card.isResolvingPlayers \/ r.card.isResolvingAudio) /\ \E a : r.asks = {a})

LEMMA ShownTracks ==
  ASSUME NEW c, IsCard(c), NEW src, NEW tracks, NEW anchored
  PROVE  Alike(c, showAudioTracks(c, src, tracks, anchored))
BY DEF Alike, showAudioTracks, IsCard, State

LEMMA AskedTracks ==
  ASSUME NEW c, IsCard(c), NEW src, NEW anchored, NEW inner, NEW cached
  PROVE  LET r == resolveAudioTracks(c, src, anchored, inner, cached)
         IN  Alike(c, r.card) /\ AsksOnce(r) /\ r = [card |-> r.card, asks |-> r.asks]
<1> DEFINE r == resolveAudioTracks(c, src, anchored, inner, cached)
<1>1. CASE cached[src.file] # None
  <2>1. r = [card |-> showAudioTracks(c, src, cached[src.file], anchored), asks |-> {}]
    BY <1>1 DEF resolveAudioTracks
  <2> HIDE DEF r
  <2>2. Alike(c, r.card) /\ AsksOnce(r) /\ r = [card |-> r.card, asks |-> r.asks]
    BY <2>1, ShownTracks DEF AsksOnce
  <2> QED
    BY <2>2 DEF r
<1>2. CASE cached[src.file] = None
  <2> DEFINE d == [c EXCEPT !.isResolvingAudio = TRUE]
  <2>1. r = [card |-> d, asks |-> {Probe(src, anchored, inner)}]
    BY <1>2 DEF resolveAudioTracks
  <2>2. Alike(c, d) /\ d.isResolvingAudio
    BY DEF Alike, IsCard, State
  <2> HIDE DEF r, d
  <2>3. Alike(c, r.card) /\ AsksOnce(r) /\ r = [card |-> r.card, asks |-> r.asks]
    BY <2>1, <2>2 DEF AsksOnce
  <2> QED
    BY <2>3 DEF r
<1> QED
  BY <1>1, <1>2

\* The end of a request leaves what is known, too.
LEMMA ResolvedIsAlike ==
  ASSUME NEW c, NEW d, Alike(c, d), NEW inner
  PROVE  Alike(c, Resolved(d, inner))
BY DEF Alike, Resolved, IsCard, State

LEMMA LoadedIs ==
  ASSUME FilmsOK, NEW c, IsCard(c), NEW a
  PROVE  LET r == Loaded(c, a)
         IN  /\ IsCard(r.card) /\ r.card.unsupported = c.unsupported /\ r.card.resolved
             /\ AsksOnce(r)
<1> DEFINE loaded == {createPlayer(f, a.rt) : f \in films}
           src == CHOOSE s \in loaded : TRUE
           d == [c EXCEPT !.resolved = TRUE]
           done == [d EXCEPT !.isResolvingPlayers = FALSE]
           r == resolveAudioTracks(d, src, FALSE, TRUE, a.cached)
           Good(x) == /\ IsCard(x.card) /\ x.card.unsupported = c.unsupported /\ x.card.resolved
                      /\ AsksOnce(x)
<1>1. Cardinality(loaded) \in Nat
  BY OnePlayerEach, FilmsAreFinite
<1>2. IsCard(d) /\ d.unsupported = c.unsupported /\ d.resolved
      /\ IsCard(done) /\ done.unsupported = c.unsupported /\ done.resolved
  BY DEF IsCard, State
<1>3. Good([card |-> OpenedAfter([done EXCEPT !.openAfter = TRUE], known, gstRuntime), asks |-> {}])
  <2> DEFINE e == [done EXCEPT !.openAfter = TRUE]
  <2>1. IsCard(e) /\ e.unsupported = c.unsupported /\ e.resolved
    BY <1>2 DEF IsCard, State
  <2> HIDE DEF e
  <2>2. LET g == OpenedAfter(e, known, gstRuntime)
        IN  IsCard(g) /\ g.unsupported = c.unsupported /\ g.resolved
    BY <2>1 DEF OpenedAfter, IsCard, State
  <2> QED
    BY <2>2 DEF AsksOnce, e
<1>4. Good([card |-> [done EXCEPT !.selected = src], asks |-> {}])
  <2> HIDE DEF src
  <2> DEFINE e == [done EXCEPT !.selected = src]
  <2>1. IsCard(e) /\ e.unsupported = c.unsupported /\ e.resolved
    BY <1>2 DEF IsCard, State
  <2> HIDE DEF e
  <2> QED
    BY <2>1 DEF AsksOnce, e
<1>5. Good(IF r.asks = {} THEN [r EXCEPT !.card = Resolved(@, TRUE)] ELSE r)
  <2>1. Alike(d, r.card) /\ AsksOnce(r) /\ r = [card |-> r.card, asks |-> r.asks]
    BY <1>2, AskedTracks
  <2> HIDE DEF d, r
  <2>2. CASE r.asks = {}
    <3>1. Alike(d, Resolved(r.card, TRUE))
      BY <2>1, ResolvedIsAlike
    <3> DEFINE x == [r EXCEPT !.card = Resolved(@, TRUE)]
    <3>2. x.card = Resolved(r.card, TRUE) /\ x.asks = {}
      BY <2>1, <2>2
    <3> HIDE DEF x
    <3>3. Good(x)
      BY <1>2, <3>1, <3>2 DEF Alike, AsksOnce
    <3> QED
      BY <2>2, <3>3 DEF x
  <2>3. CASE r.asks # {}
    BY <1>2, <2>1, <2>3 DEF Alike
  <2> QED
    BY <2>2, <2>3
<1>6. Loaded(c, a) =
        CASE Cardinality(loaded) > 1 ->
               [card |-> OpenedAfter([done EXCEPT !.openAfter = TRUE], known, gstRuntime), asks |-> {}]
          [] Cardinality(loaded) = 1 /\ ~src.hls -> [card |-> [done EXCEPT !.selected = src], asks |-> {}]
          [] OTHER -> IF r.asks = {} THEN [r EXCEPT !.card = Resolved(@, TRUE)] ELSE r
  BY DEF Loaded
<1> HIDE DEF loaded, src, d, done, r, Good
<1>7. Good(Loaded(c, a))
  BY <1>1, <1>3, <1>4, <1>5, <1>6
<1> QED
  BY <1>7 DEF Good

-----------------------------------------------------------------------------
(* Every step keeps it.                                                     *)

LEMMA PageKeepsOne ==
  ASSUME NoneIsNoFunction, CardInv, Page
  PROVE  CardInv'
<1>0. IsCard(card) /\ card.selected \in {card.selected, None}
  BY DEF CardInv
<1>1. ASSUME ListArrives PROVE CardInv'
  <2>1. PICK from : /\ card.mounted /\ UNCHANGED <<asks, hasty>>
                    /\ Render(IF fileList(card, known) = fileList(card, from) THEN card
                              ELSE OpenedAfter(card, from, gstRuntime), from, gstRuntime)
    BY <1>1 DEF ListArrives
  <2>2. fileList(card, known) # fileList(card, from) => ~card.openAfter
    BY DEF fileList, CardInv, MenuOK
  <2>3. Render(card, from, gstRuntime)
    BY <2>1, <2>2 DEF OpenedAfter
  <2> QED
    BY <1>0, <2>1, <2>3, SteadyKeeps
<1>2. ASSUME RuntimeArrives PROVE CardInv'
  <2>1. PICK rt : card.mounted /\ UNCHANGED <<asks, hasty>> /\ Render(card, known, rt)
    BY <1>2 DEF RuntimeArrives
  <2> QED
    BY <1>0, <2>1, SteadyKeeps
<1>3. ASSUME CacheArrives PROVE CardInv'
  <2> DEFINE c == [card EXCEPT !.cache = ~@]
  <2>1. card.mounted /\ UNCHANGED <<asks, hasty>> /\ Render(c, known, gstRuntime)
    BY <1>3 DEF CacheArrives, Shown
  <2>2. /\ IsCard(c) /\ c.unsupported = card.unsupported /\ c.selected = card.selected
        /\ c.resolved = card.resolved /\ c.openAfter = card.openAfter /\ c.episodeMenu = card.episodeMenu
        /\ c.isResolvingPlayers = card.isResolvingPlayers /\ c.isResolvingAudio = card.isResolvingAudio
    BY <1>0 DEF IsCard, State
  <2> HIDE DEF c
  <2> QED
    BY <2>1, <2>2, SteadyKeeps
<1>4. ASSUME Unmount PROVE CardInv'
  <2> DEFINE c == [card EXCEPT !.mounted = FALSE]
  <2>1. card.mounted /\ UNCHANGED <<asks, hasty>> /\ Render(c, known, gstRuntime)
    BY <1>4 DEF Unmount
  <2>2. /\ IsCard(c) /\ c.unsupported = card.unsupported /\ c.selected = card.selected
        /\ c.resolved = card.resolved /\ c.openAfter = card.openAfter /\ c.episodeMenu = card.episodeMenu
        /\ c.isResolvingPlayers = card.isResolvingPlayers /\ c.isResolvingAudio = card.isResolvingAudio
    BY <1>0 DEF IsCard, State
  <2> HIDE DEF c
  <2> QED
    BY <2>1, <2>2, SteadyKeeps
<1> QED
  BY <1>1, <1>2, <1>3, <1>4 DEF Page

LEMMA AnswersKeepOne ==
  ASSUME NoneIsNoFunction, CardInv, Answers
  PROVE  CardInv'
<1>0. /\ IsCard(card) /\ FilmsOK /\ (card.openAfter => card.resolved)
      /\ ~hasty /\ card.mounted /\ asks # {} => Busy /\ Silent /\ \E a : asks = {a}
  BY DEF CardInv, MenuOK, AsksOK
<1>1. PICK a \in asks : FilesArrive(a) \/ WaitEnds(a) \/ ProbeArrives(a)
  BY DEF Answers
<1>2. hasty' = hasty
  BY <1>1 DEF FilesArrive, WaitEnds, ProbeArrives
<1>3. ~hasty /\ card.mounted => asks = {a} /\ Silent /\ \A p \in Others : ~Here(p)
  BY <1>0 DEF Silent, HasElement, Here
\* Nothing is rendered: the card is gone, or goes on waiting.
<1>4. ASSUME UNCHANGED <<playerVars, films, card, known, gstRuntime>>,
             ~hasty /\ card.mounted => asks' = {} \/ \E b : asks' = {b}
      PROVE  CardInv'
  <2>1. AsksOK'
    <3>1. (Silent => Silent') /\ Busy' = Busy
      BY <1>4 DEF playerVars, Silent, HasElement, Busy
    <3> QED
      BY <1>0, <1>2, <1>4, <3>1 DEF AsksOK
  <2>2. /\ PlayersOK' /\ FilmsOK' /\ IsCard(card)' /\ OnlyUnsupported(card)' /\ SelectedOK'
        /\ MenuOK' /\ OnePlayer'
    BY <1>2, <1>4 DEF CardInv, playerVars, PlayersOK, FilmsOK, IsCard, OnlyUnsupported, canPlay,
         SelectedOK, MenuOK, OnePlayer, Here
  <2>3. ShownOK'
    BY <1>4 DEF CardInv, ShownOK, playerVars, Button, Table, available, players, fileList, createPlayer
  <2> QED
    BY <2>1, <2>2, <2>3 DEF CardInv
<1>5. ASSUME NEW c, Shown(c), card.mounted, IsCard(c), c.unsupported = card.unsupported,
             c.openAfter => c.resolved,
             ~hasty /\ asks' # {} => (c.isResolvingPlayers \/ c.isResolvingAudio) /\ \E b : asks' = {b}
      PROVE  CardInv'
  BY <1>2, <1>3, <1>5, AloneKeeps
<1>6. ASSUME WaitEnds(a) PROVE CardInv'
  <2>1. /\ UNCHANGED <<playerVars, films, card, known, gstRuntime>>
        /\ \/ asks' = (asks \ {a}) \cup {[a EXCEPT !.kind = "get", !.left = @ - 1]}
           \/ asks' = (asks \ {a}) \cup {}
    BY <1>6 DEF WaitEnds
  <2> QED
    BY <1>3, <1>4, <2>1
<1>7. ASSUME FilesArrive(a) PROVE CardInv'
  <2>1. CASE ~card.mounted
    BY <1>4, <1>7, <2>1 DEF FilesArrive
  <2>2. CASE card.mounted
    <3>1. ASSUME asks' = (asks \ {a}) \cup {Wait(a)}, UNCHANGED <<playerVars, films, card, known, gstRuntime>>
          PROVE  CardInv'
      BY <1>3, <1>4, <3>1
    <3>2. ASSUME asks' = asks \ {a}, Shown(FilesFailed(card)) PROVE CardInv'
      <4> DEFINE c == FilesFailed(card)
      <4>1. IsCard(c) /\ c.unsupported = card.unsupported /\ c.openAfter = card.openAfter /\ c.resolved = card.resolved
        BY <1>0 DEF FilesFailed, IsCard, State
      <4> HIDE DEF c
      <4>2. Shown(c)
        BY <3>2 DEF c
      <4> QED
        BY <1>0, <1>3, <1>5, <2>2, <3>2, <4>1, <4>2
    <3>3. ASSUME asks' = (asks \ {a}) \cup Loaded(card, a).asks, Shown(Loaded(card, a).card) PROVE CardInv'
      <4> DEFINE r == Loaded(card, a)
      <4>1. IsCard(r.card) /\ r.card.unsupported = card.unsupported /\ r.card.resolved /\ AsksOnce(r)
        BY <1>0, LoadedIs
      <4>2. asks' = (asks \ {a}) \cup r.asks /\ Shown(r.card)
        BY <3>3
      <4> HIDE DEF r
      <4>3. ~hasty /\ asks' # {} =>
              (r.card.isResolvingPlayers \/ r.card.isResolvingAudio) /\ \E b : asks' = {b}
        BY <1>3, <2>2, <4>1, <4>2 DEF AsksOnce
      <4> QED
        BY <1>5, <2>2, <4>1, <4>2, <4>3
    <3> QED
      BY <1>7, <2>2, <3>1, <3>2, <3>3 DEF FilesArrive
  <2> QED
    BY <2>1, <2>2
<1>8. ASSUME ProbeArrives(a) PROVE CardInv'
  <2>1. CASE ~card.mounted
    BY <1>4, <1>8, <2>1 DEF ProbeArrives
  <2>2. CASE card.mounted
    <3>1. ASSUME asks' = asks \ {a}, NEW c, Alike(card, c), Shown(c) PROVE CardInv'
      BY <1>0, <1>3, <1>5, <2>2, <3>1 DEF Alike
    <3>2. Alike(card, ProbeFailed(card, a))
      BY <1>0 DEF ProbeFailed, Resolved, Alike, IsCard, State
    <3>3. \A t : LET c == [card EXCEPT !.audioTracksByFile[a.src.file] = t]
                 IN  Alike(card, Resolved(showAudioTracks(c, a.src, t, a.anchored), a.inner))
      <4> SUFFICES ASSUME NEW t
                   PROVE  LET c == [card EXCEPT !.audioTracksByFile[a.src.file] = t]
                          IN  Alike(card, Resolved(showAudioTracks(c, a.src, t, a.anchored), a.inner))
        OBVIOUS
      <4> DEFINE c == [card EXCEPT !.audioTracksByFile[a.src.file] = t]
      <4>1. Alike(card, c)
        BY <1>0 DEF Alike, IsCard, State
      <4> HIDE DEF c
      <4>2. Alike(c, showAudioTracks(c, a.src, t, a.anchored))
        BY <4>1, ShownTracks DEF Alike
      <4>3. Alike(card, showAudioTracks(c, a.src, t, a.anchored))
        BY <4>1, <4>2 DEF Alike
      <4>4. Alike(card, Resolved(showAudioTracks(c, a.src, t, a.anchored), a.inner))
        BY <4>3, ResolvedIsAlike
      <4> QED
        BY <4>4 DEF c
    <3> QED
      BY <1>8, <2>2, <3>1, <3>2, <3>3 DEF ProbeArrives
  <2> QED
    BY <2>1, <2>2
<1> QED
  BY <1>1, <1>6, <1>7, <1>8


LEMMA UserKeepsOne ==
  ASSUME NoneIsNoFunction, CardInv, PlayersOK', User
  PROVE  CardInv'
<1>0. /\ IsCard(card) /\ FilmsOK /\ PlayersOK /\ SelectedOK /\ ShownOK
      /\ card.openAfter => card.resolved
      /\ ~hasty /\ card.mounted /\ asks # {} => Busy
      /\ ~hasty /\ card.episodeMenu /\ Cardinality(films) > 1 => \A f \in Files : ~Here(f)
  BY DEF CardInv, MenuOK, AsksOK
\* What is open covers the card.
<1>1. ~OnTop => (\A p \in Place : ~HasElement(p)) /\ Silent /\ \A p \in Others : ~Here(p)
  BY DEF OnTop, HasElement, Silent, Others, Here
\* The card is rendered again with something changed that no request depends on.
<1>2. ASSUME NEW c, Shown(c), card.mounted, IsCard(c), c.unsupported = card.unsupported,
             c.selected \in {card.selected, None},
             c.resolved = card.resolved, c.openAfter = card.openAfter, c.episodeMenu => card.episodeMenu,
             c.isResolvingPlayers = card.isResolvingPlayers, c.isResolvingAudio = card.isResolvingAudio,
             UNCHANGED <<asks, hasty>>
      PROVE  CardInv'
  BY <1>2, SteadyKeeps DEF Shown
<1>3. ASSUME PlayAudio PROVE CardInv'
  <2>1. PICK src : LET r == resolveAudioTracks(card, src, TRUE, FALSE, card.audioTracksByFile)
                   IN  Shown(r.card) /\ asks' = asks \cup r.asks
    BY <1>3 DEF PlayAudio
  <2> DEFINE r == resolveAudioTracks(card, src, TRUE, FALSE, card.audioTracksByFile)
  <2>2. Alike(card, r.card) /\ AsksOnce(r)
    BY <1>0, AskedTracks
  <2>3. card.mounted /\ ~OnTop /\ ~Busy /\ hasty' = hasty
    BY <1>3 DEF PlayAudio, Click, Acts, Covered
  <2>4. Shown(r.card) /\ asks' = asks \cup r.asks
    BY <2>1
  <2> HIDE DEF r
  <2>5. ~hasty' => asks' = r.asks
    BY <1>0, <2>3, <2>4
  <2> QED
    BY <1>0, <1>1, <2>2, <2>3, <2>4, <2>5, AloneKeeps DEF Alike, AsksOnce
<1>4. ASSUME NEW i, selectAudioTrack(i) PROVE CardInv'
  <2>1. PICK src : Shown([card EXCEPT !.audioMenu = FALSE, !.selected = src])
    BY <1>4 DEF selectAudioTrack
  <2> DEFINE c == [card EXCEPT !.audioMenu = FALSE, !.selected = src]
  <2>2. /\ IsCard(c) /\ c.unsupported = card.unsupported
        /\ c.resolved = card.resolved /\ c.openAfter = card.openAfter
        /\ c.isResolvingPlayers = card.isResolvingPlayers /\ c.isResolvingAudio = card.isResolvingAudio
    BY <1>0 DEF IsCard, State
  <2>3. card.mounted /\ asks' = asks /\ hasty' = (hasty \/ \E p \in Others : Here(p))
    BY <1>4 DEF selectAudioTrack, Acts, Others
  <2>4. Shown(c)
    BY <2>1
  <2> HIDE DEF c
  <2>5. ~hasty /\ asks # {} => (c.isResolvingPlayers \/ c.isResolvingAudio) /\ Silent /\ \E a : asks = {a}
    BY <2>2, <2>3 DEF CardInv, AsksOK, Busy
  <2> QED
    BY <1>0, <2>2, <2>3, <2>4, <2>5, AloneKeeps
<1>5. ASSUME OpenEpisodes PROVE CardInv'
  <2> DEFINE c == [card EXCEPT !.episodeMenu = TRUE]
  <2>1. card.mounted /\ ~OnTop /\ UNCHANGED <<asks, hasty>> /\ Shown(c)
    BY <1>5 DEF OpenEpisodes, Click, Acts, Covered
  <2>2. /\ IsCard(c) /\ c.unsupported = card.unsupported
        /\ c.resolved = card.resolved /\ c.openAfter = card.openAfter
        /\ c.isResolvingPlayers = card.isResolvingPlayers /\ c.isResolvingAudio = card.isResolvingAudio
    BY <1>0 DEF IsCard, State
  <2> HIDE DEF c
  <2>3. ~hasty /\ asks # {} => (c.isResolvingPlayers \/ c.isResolvingAudio) /\ Silent /\ \E a : asks = {a}
    BY <2>1, <2>2 DEF CardInv, AsksOK, Busy
  <2> QED
    BY <1>0, <1>1, <2>1, <2>2, <2>3, AloneKeeps
\* The menu offers several films, so that none has a trigger, and none plays in the table.
<1>6. ASSUME NEW src, PickEpisode(src) PROVE CardInv'
  <2> DEFINE c == [card EXCEPT !.episodeMenu = FALSE, !.selected = src]
  <2>1. /\ card.mounted /\ card.episodeMenu /\ Button(card, known, gstRuntime) = "episodes"
        /\ Shown(c) /\ asks' = asks /\ hasty' = (hasty \/ Busy)
    BY <1>6 DEF PickEpisode, Acts, Shows
  <2>2. /\ IsCard(c) /\ c.unsupported = card.unsupported
        /\ c.resolved = card.resolved /\ c.openAfter = card.openAfter
    BY <1>0 DEF IsCard, State
  <2> HIDE DEF c
  <2>3. Cardinality(films) > 1
    BY <1>0, <2>1, ButtonIs
  <2>4. player["trigger"] = None
    BY <1>0, <2>1 DEF ShownOK
  <2>5. ~hasty' => \A p \in Others : ~Here(p)
    BY <1>0, <2>1, <2>3, <2>4, Places DEF Here, Others
  <2>6. ~hasty' => asks' = {}
    BY <1>0, <2>1
  <2> QED
    BY <1>0, <2>1, <2>2, <2>5, <2>6, AloneKeeps
<1>7. ASSUME CloseMenu PROVE CardInv'
  <2> DEFINE c == [card EXCEPT !.episodeMenu = FALSE, !.audioMenu = FALSE]
  <2>1. card.mounted /\ UNCHANGED <<asks, hasty>> /\ Shown(c)
    BY <1>7 DEF CloseMenu, Acts
  <2>2. /\ IsCard(c) /\ c.unsupported = card.unsupported /\ c.selected = card.selected
        /\ c.resolved = card.resolved /\ c.openAfter = card.openAfter /\ ~c.episodeMenu
        /\ c.isResolvingPlayers = card.isResolvingPlayers /\ c.isResolvingAudio = card.isResolvingAudio
    BY <1>0 DEF IsCard, State
  <2> HIDE DEF c
  <2> QED
    BY <1>2, <2>1, <2>2
<1>8. ASSUME resolvePlayers PROVE CardInv'
  <2> DEFINE c == Started(card)
  <2>1. PICK a : /\ card.mounted /\ ~OnTop /\ Shown(c) /\ asks' = asks \cup {a}
                 /\ hasty' = (hasty \/ Busy)
    BY <1>8 DEF resolvePlayers, Click, Acts, Covered
  <2>2. /\ IsCard(c) /\ c.unsupported = card.unsupported /\ c.isResolvingPlayers
        /\ c.resolved = card.resolved /\ c.openAfter = card.openAfter
    BY <1>0 DEF Started, IsCard, State
  <2> HIDE DEF c
  <2>3. ~hasty' => asks' = {a}
    BY <1>0, <2>1
  <2> QED
    BY <1>0, <1>1, <2>1, <2>2, <2>3, AloneKeeps
<1>9. ASSUME Use PROVE CardInv'
  <2>1. NothingStarts
    BY <1>0, <1>9, KeyStartsNothing, ControlsStartNothing DEF Use
  <2> QED
    BY <1>9, <2>1, NothingStartsKeeps DEF Use
<1>10. ASSUME NEW dialog, OpenDialog(dialog) PROVE CardInv'
  <2> DEFINE c == [card EXCEPT !.dialog = dialog, !.cache = FALSE, !.isLoading = TRUE,
                               !.isDetailedCacheView = FALSE]
  <2>1. card.mounted /\ UNCHANGED <<asks, hasty>> /\ Shown(c)
    BY <1>10 DEF OpenDialog, Click, Acts
  <2>2. /\ IsCard(c) /\ c.unsupported = card.unsupported /\ c.selected = card.selected
        /\ c.resolved = card.resolved /\ c.openAfter = card.openAfter /\ c.episodeMenu = card.episodeMenu
        /\ c.isResolvingPlayers = card.isResolvingPlayers /\ c.isResolvingAudio = card.isResolvingAudio
    BY <1>0 DEF IsCard, State
  <2> HIDE DEF c
  <2> QED
    BY <1>2, <2>1, <2>2
<1>11. ASSUME CloseDialog PROVE CardInv'
  <2> DEFINE c == [card EXCEPT !.dialog = None]
  <2>1. card.mounted /\ UNCHANGED <<asks, hasty>> /\ Shown(c)
    BY <1>11 DEF CloseDialog, Acts
  <2>2. /\ IsCard(c) /\ c.unsupported = card.unsupported /\ c.selected = card.selected
        /\ c.resolved = card.resolved /\ c.openAfter = card.openAfter /\ c.episodeMenu = card.episodeMenu
        /\ c.isResolvingPlayers = card.isResolvingPlayers /\ c.isResolvingAudio = card.isResolvingAudio
    BY <1>0 DEF IsCard, State
  <2> HIDE DEF c
  <2> QED
    BY <1>2, <2>1, <2>2
<1>12. ASSUME setIsDetailedCacheView PROVE CardInv'
  <2> DEFINE c == [card EXCEPT !.isDetailedCacheView = ~@]
  <2>1. card.mounted /\ UNCHANGED <<asks, hasty>> /\ Shown(c)
    BY <1>12 DEF setIsDetailedCacheView, Acts
  <2>2. /\ IsCard(c) /\ c.unsupported = card.unsupported /\ c.selected = card.selected
        /\ c.resolved = card.resolved /\ c.openAfter = card.openAfter /\ c.episodeMenu = card.episodeMenu
        /\ c.isResolvingPlayers = card.isResolvingPlayers /\ c.isResolvingAudio = card.isResolvingAudio
    BY <1>0 DEF IsCard, State
  <2> HIDE DEF c
  <2> QED
    BY <1>2, <2>1, <2>2
\* The first film to play: nothing was open, and no menu is left behind that offers another.
<1>13. ASSUME NEW p \in Place, Open(p) PROVE CardInv'
  <2> DEFINE d == [player[p] EXCEPT !.open = TRUE, !.opened = IF @ = 0 THEN 1 ELSE 2, !.loading = TRUE,
                                    !.video = Element]
  <2>1. /\ card.mounted /\ p \in Others /\ ~OnTop /\ player[p] # None /\ Update(p, d)
        /\ hasty' = (hasty \/ Busy) /\ UNCHANGED <<films, card, known, gstRuntime, asks>>
    BY <1>13 DEF Open, Acts, openPlayer, Others
  <2>2. \A q \in Place : player'[q] = IF q = p THEN d ELSE player[q]
    BY <1>0, <2>1 DEF Update, Mounted, PlayersOK
  <2> HIDE DEF d
  <2>3. \A q \in Place : (Here(q)' => q = p) /\ (player'[q] # None => player[q] # None)
    BY <1>1, <2>1, <2>2 DEF Here, HasElement
  <2>4. FilmsOK' /\ IsCard(card)' /\ OnlyUnsupported(card)'
    BY <2>1 DEF CardInv, FilmsOK, IsCard, OnlyUnsupported, canPlay
  <2>5. SelectedOK'
    BY <1>0, <2>1, <2>2, Places DEF SelectedOK, Others
  <2>6. ShownOK'
    <3>1. /\ Button(card, known, gstRuntime)' = Button(card, known, gstRuntime)
          /\ Table(card, known, gstRuntime)' = Table(card, known, gstRuntime)
      BY <2>1 DEF Button, Table, available, players, fileList, createPlayer
    <3> QED
      BY <1>0, <2>3, <3>1, Places DEF ShownOK
  <2>7. AsksOK'
    BY <1>0, <2>1 DEF AsksOK
  <2>8. MenuOK'
    <3>1. ASSUME p \in Files, Cardinality(films) > 1 PROVE ~card.episodeMenu
      <4>1. p \in Table(card, known, gstRuntime)
        BY <1>0, <2>1, <3>1 DEF ShownOK
      <4>2. Button(card, known, gstRuntime) = "episodes"
        BY <1>0, <3>1, <4>1, TableIsOffered DEF CardInv
      <4> QED
        BY <2>1, <4>2 DEF OnTop, Shows
    <3> QED
      BY <1>0, <2>1, <2>3, <3>1, Places DEF MenuOK
  <2>9. OnePlayer'
    BY <2>3 DEF OnePlayer
  <2> QED
    BY <2>4, <2>5, <2>6, <2>7, <2>8, <2>9 DEF CardInv
<1>14. ASSUME NEW p \in Place, closePlayer(p) PROVE CardInv'
  <2>1. CASE p = "selected"
    <3> DEFINE c == [card EXCEPT !.selected = None]
    <3>1. card.mounted /\ UNCHANGED <<asks, hasty>> /\ Shown(c)
      BY <1>14, <2>1 DEF closePlayer, Acts
    <3>2. /\ IsCard(c) /\ c.unsupported = card.unsupported /\ c.selected = None
          /\ c.resolved = card.resolved /\ c.openAfter = card.openAfter /\ c.episodeMenu = card.episodeMenu
          /\ c.isResolvingPlayers = card.isResolvingPlayers /\ c.isResolvingAudio = card.isResolvingAudio
      BY <1>0 DEF IsCard, State
    <3> HIDE DEF c
    <3> QED
      BY <1>2, <3>1, <3>2
  <2>2. CASE p # "selected"
    <3>1. NothingStarts
      BY <1>0, <1>14, <2>2, CloseStartsNothing DEF closePlayer, Others
    <3> QED
      BY <1>14, <2>2, <3>1, NothingStartsKeeps DEF closePlayer
  <2> QED
    BY <2>1, <2>2
<1> QED
  BY <1>3, <1>4, <1>5, <1>6, <1>7, <1>8, <1>9, <1>10, <1>11, <1>12, <1>13, <1>14 DEF User

LEMMA StepKeepsOne ==
  ASSUME NoneIsNoFunction, CardInv, [Next]_vars
  PROVE  CardInv'
<1>0. PlayersOK'
  BY StepKeepsPlayers DEF CardInv
<1>1. CASE Playing
  <2>1. NothingStarts
    BY <1>1, PlaysStartNothing DEF Playing, CardInv
  <2> QED
    BY <1>0, <1>1, <2>1, NothingStartsKeeps DEF Playing
<1>2. CASE UNCHANGED vars
  <2>1. NothingStarts
    BY <1>2 DEF vars, playerVars, NothingStarts, HasElement, Here, CardInv, SelectedOK
  <2> QED
    BY <1>0, <1>2, <2>1, NothingStartsKeeps DEF vars
<1> QED
  BY <1>0, <1>1, <1>2, PageKeepsOne, AnswersKeepOne, UserKeepsOne DEF Next

LEMMA InitOne == Init => CardInv
<1> SUFFICES ASSUME Init PROVE CardInv
  OBVIOUS
<1>1. /\ FilmsOK /\ \A p \in Place : player[p] = None
      /\ IsCard(card) /\ card.unsupported = {} /\ card.selected = None
      /\ ~card.openAfter /\ ~card.episodeMenu /\ asks = {}
  BY DEF Init, FilmsOK, IsCard, State
<1> QED
  BY <1>1, InitPlayers, Places DEF CardInv, OnlyUnsupported, SelectedOK, ShownOK, AsksOK, MenuOK, OnePlayer, Here

-----------------------------------------------------------------------------
(* What it gives.                                                           *)

\* However a player goes, and whatever the page renders in its place, it leaves
\* no Hls object and no heartbeat behind, and it never makes a second one
\* (effects of VideoPlayer.jsx), for any streams and any torrents.
THEOREM NothingIsLeftRunning == Spec => []PlayersAreReleased
<1>1. PlayersOK /\ PlayersAreReleased /\ [Next]_vars => PlayersOK' /\ PlayersAreReleased'
  <2> SUFFICES ASSUME PlayersOK, PlayersAreReleased, [Next]_vars
               PROVE  PlayersOK' /\ PlayersAreReleased'
    OBVIOUS
  <2>1. PlayersOK' /\ (EffectsRun \/ UNCHANGED playerVars)
    BY StepKeepsPlayers
  <2>2. CASE UNCHANGED playerVars
    BY <2>1, <2>2 DEF playerVars, PlayersAreReleased, Streams
  <2> QED
    BY <2>1, <2>2, EffectsRelease
<1> QED
  BY InitPlayers, <1>1, PTL DEF Spec

\* The buttons of a player that was opened once, and kept its source, tell what its
\* element does as soon as the events of the element have arrived: with n events on
\* their way the play button is n toggles behind, and the button of the sound is
\* right both ways but where the slider was moved up over a muted video, or a video
\* unmuted whose slider is at 0 (togglePlay, toggleMute, handleVolume, changeSpeed).
THEOREM ButtonsTell == Spec => []ControlsTell
<1>1. PlayersOK /\ [Next]_vars => PlayersOK'
  BY StepKeepsPlayers
<1>2. PlayersOK => ControlsTell
  <2> SUFFICES ASSUME PlayersOK, NEW p \in Place, Here(p), player[p].opened = 1,
                      player[p].video.events = 0
               PROVE  /\ player[p].playing <=> ~player[p].video.paused
                      /\ player[p].muted => player[p].video.muted \/ ~player[p].video.loud
                      /\ (player[p].video.muted \/ ~player[p].video.loud) /\ ~player[p].crossed => player[p].muted
                      /\ player[p].speed = player[p].video.rate
    BY DEF ControlsTell
  <2>1. ButtonsLag(player[p])
    BY DEF Here, PlayersOK, PlayerOK
  <2>2. 0 % 2 = 0
    OBVIOUS
  <2> QED
    BY <2>1, <2>2 DEF ButtonsLag
<1> QED
  BY InitPlayers, <1>1, <1>2, PTL DEF Spec

\* Two films never play at once, whatever files, probes, lists and settings
\* arrive and in whatever order: while the card resolves one no other is open,
\* only one request can select a film, and a menu is not open beside a film of
\* the table.  The user may do otherwise, in the two ways that "hasty" names
\* (resolvePlayers, resolveAudioTracks, selectedPlayer of TorrentCard).
THEOREM OneFilmPlays ==
  ASSUME NoneIsNoFunction
  PROVE  Spec => []OnePlayer
<1>1. CardInv /\ [Next]_vars => CardInv'
  BY StepKeepsOne
<1>2. CardInv => OnePlayer
  BY DEF CardInv
<1> QED
  BY InitOne, <1>1, <1>2, PTL DEF Spec

\* Nothing is asked for a card that is gone: an answer is dropped, and a pause
\* is not followed by another attempt (isMounted, isActive of TorrentCard).
THEOREM GoneIsQuiet == Spec => GoneAsksNothing
<1>1. [Next]_vars => (~card.mounted => asks' \subseteq asks)
  <2> SUFFICES ASSUME [Next]_vars, ~card.mounted PROVE asks' \subseteq asks
    OBVIOUS
  <2>1. CASE Page
    BY <2>1 DEF Page, ListArrives, RuntimeArrives, CacheArrives, Unmount
  <2>2. CASE User
    BY <2>2 DEF User, PlayAudio, OpenEpisodes, CloseMenu, resolvePlayers, Use, OpenDialog, CloseDialog,
         setIsDetailedCacheView, selectAudioTrack, PickEpisode, Open, closePlayer, Click, Acts
  <2>3. CASE Answers
    BY <2>3 DEF Answers, FilesArrive, WaitEnds, ProbeArrives, isActive
  <2>4. CASE Playing
    BY <2>4 DEF Playing
  <2>5. CASE UNCHANGED vars
    BY <2>5 DEF vars
  <2> QED
    BY <2>1, <2>2, <2>3, <2>4, <2>5 DEF Next
<1> QED
  BY <1>1, PTL DEF Spec, GoneAsksNothing
=============================================================================
