SPECIFICATION Spec
CONSTANTS
  k0 = k0
  k1 = k1
  k2 = k2
  k3 = k3
  Key = {k0, k1, k2, k3}
  Absent = Absent
  Null = Null
  Bad = Bad
  None = None
  Req = {r1, r2}
  Ops = {"link", "regenerate"}
  Faults = {"restart"}
  InitConfs <- JustPlain
INVARIANTS
  CachedKeyIsCurrent
SYMMETRY Interchangeable
