SPECIFICATION FairSpec
CONSTANTS
  None = None
  Pending = Pending
  key = key
  Fields = {"DisableTCP", "EnableLPD", "LPDIPv6", "ConnectionsLimit", "TorrentsSavePath"}
  Visited = {0, 1, 2, 3}
  GstBuilds = {}
  ProModes = {TRUE}
  Positions <- MCPositions
  Typed = {None, 30}
  TmdbKeys = {key}
  BuiltIn = "builtin"
  Hosts = {"host"}
  Prefs = {"isVlcUsed", "showQuickVlcButton"}
  Initial <- MCInitial
  Patient = TRUE
  MaxEdits = 4
INVARIANTS
  SavesWhatWasAsked
  TmdbIsFresh
PROPERTIES
  CertIsKept
  SslUnlocks
CHECK_DEADLOCK FALSE
