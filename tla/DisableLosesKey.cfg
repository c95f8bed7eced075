SPECIFICATION Spec
CONSTANTS
  c1 = c1
  c2 = c2
  c3 = c3
  n1 = n1
  n2 = n2
  Id = {c1, c2, c3}
  Name = {n1, n2}
  None = None
  Req = {r1, r2}
  MaxInFlight = 1
  Ops = {"reality", "disable"}
  Faults = {}
  InitFile <- OneLive
  InitStore <- OneStored
INVARIANTS
  NoKeyLost
SYMMETRY Interchangeable
