-------------------------- MODULE MCWebTorrentCard --------------------------
(* One film that the browser plays, one that GStreamer does too, and two of  *)
(* them, of which it plays AVI only if it is told to.                       *)
EXTENDS WebTorrentCard

MCTorrents == {{"mp4"}, {"webm"}, {"webm", "avi"}}

MCTracks == [f \in Files |-> IF f = "avi" THEN <<>> ELSE <<1>>]

MCUnavailable == [builtIn |-> FALSE, plays |-> {}]

MCRuntimes == {MCUnavailable, [builtIn |-> TRUE, plays |-> {"webm", "avi"}]}
=============================================================================
