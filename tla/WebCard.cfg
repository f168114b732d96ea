SPECIFICATION FairSpec
CONSTANTS
  None = None
  Place = {"trigger", "selected", "mp4", "webm", "avi"}
  HlsJs = TRUE
  NativeHls = FALSE
  Playable = {"mp4", "webm"}
  Speeds = {1, 2}
  MaxEvents = 2
  Files = {"mp4", "webm", "avi"}
  Torrents <- MCTorrents
  Tracks <- MCTracks
  Runtimes <- MCRuntimes
  Unavailable <- MCUnavailable
  MaxAttempts = 2
  MaxChanges = 3
  MaxActions = 4
INVARIANTS
  OnePlayer
  PlayersAreReleased
  
PROPERTIES
  GoneAsksNothing
  ResolvingEnds
CHECK_DEADLOCK FALSE
