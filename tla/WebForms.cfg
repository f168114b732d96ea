SPECIFICATION FairSpec
CONSTANTS
  None = None
  Unavailable = Unavailable
  Pending = Pending
  Failed = Failed
  Refused = Refused
  Visited = {0, 1, 4, 5}
  ProModes = {TRUE}
  GstBuilds = {TRUE}
  Lists = {"whitelist"}
  Texts = {"", "line", "lines"}
  Stripped <- MCStripped
  GstFields = {"SegmentSeconds", "TranscodeAVI"}
  Positive = {"SegmentSeconds"}
  Flags = {"TranscodeAVI"}
  Numbers = {0, 1}
  Versions = {None, 128}
  Installed = None
  Defaults <- MCDefaults
  Initial <- MCInitial
  ReadOnlys = {TRUE, FALSE}
  Lossy = TRUE
  MaxActions = 5
  MaxFetches = 1
INVARIANTS
  DirtyIsKnown
  ShownIsStored
  RuntimeIsFresh
PROPERTIES
  NothingUnchosen
  BusyEnds
CHECK_DEADLOCK FALSE
