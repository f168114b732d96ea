SPECIFICATION Spec
CONSTANTS
  Hash = {x1}
  Tor = {t1, t2}
  Handle = {h1, h2}
  Proc = {p1, p2}
  Saver = {a1}
  None = None
  ReadOnly = FALSE
  Requests = {"GotInfo", "LoadTorrent", "AddTorrent", "Preload", "Stream", "DropTorrent"}
  Crews = {{p1, p2, a1}}
  MaxEpoch = 1
SYMMETRY Symmetry
INVARIANTS
  ExpiredIsMapped
