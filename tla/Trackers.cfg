SPECIFICATION FairSpec
CONSTANTS
  Proc = {p1, p2, p3}
  None = None
  MaxVersion = 1
INVARIANTS
  LocalIsCurrent
  RemoteIsCurrent
PROPERTIES
  NeverGoesBack
  EventuallyCurrent
