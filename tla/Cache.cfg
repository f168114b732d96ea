SPECIFICATION Spec
CONSTANTS
  Name = {n1, n2}
  Value = {a}
  Proc = {p1, p2}
  None = None
  Uncached = Uncached
SYMMETRY Sym
INVARIANTS
  Coherent
PROPERTIES
  IsKVStore
