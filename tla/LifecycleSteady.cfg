SPECIFICATION SteadySpec
CONSTANTS
  Hash = {x1}
  Tor = {t1, t2}
  Handle = {h1, h2}
  Proc = {p1, p2, p3}
  Saver = {a1}
  None = None
  ReadOnly = TRUE
  Requests = {"GotInfo", "LoadTorrent", "AddTorrent", "Preload", "Stream", "DropTorrent"}
  Crews = {{p1, p2, p3}}
  MaxEpoch = 0
SYMMETRY Symmetry
INVARIANTS
  OpenIsMapped
  ClosedIsReleased
PROPERTIES
  NoGettingInfoAgain
