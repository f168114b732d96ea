SPECIFICATION FairSpec
CONSTANTS
  Hash = {x1}
  Tor = {t1}
  Handle = {h1}
  Proc = {p1, p2}
  Saver = {a1, a2}
  None = None
  ReadOnly = FALSE
  Requests = {"GotInfo", "LoadTorrent", "Preload", "Stream", "DropTorrent"}
  Crews = {{p1, p2, a1}, {p1, a1, a2}}
  MaxEpoch = 2
INVARIANTS
  ClosedInMapHasCloser
  LiveHasClient
PROPERTIES
  ClosedIsFinal
  ExpiredIsClosed
  RequestsProceed
  SettingsFinish

