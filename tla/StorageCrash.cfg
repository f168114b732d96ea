SPECIFICATION Spec
CONSTANTS
  Hash = {h1, h2}
  Index = {i1}
  Val = {v1}
  Default = v1
  Width <- Widths
  None = None
  Uncached = Uncached
  Exclusive = TRUE
  Patient = FALSE
  Crashes = TRUE
  Failures = TRUE
  Switches = {"Settings", "Viewed"}
  Toggles = TRUE
SYMMETRY Sym
INVARIANTS
  HashIsKept
  SettingsStored
