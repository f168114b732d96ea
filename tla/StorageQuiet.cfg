SPECIFICATION Spec
CONSTANTS
  Hash = {h1, h2}
  Index = {i1, i2}
  Val = {v1, v2}
  Default = v1
  Width <- Widths
  None = None
  Uncached = Uncached
  Exclusive = TRUE
  Patient = TRUE
  Crashes = FALSE
  Failures = FALSE
  Switches = {"Settings", "Viewed"}
  Toggles = TRUE
SYMMETRY Sym
INVARIANTS
  MarksAreExact
  LastSavedIsLoaded
