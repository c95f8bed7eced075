SPECIFICATION Spec
CONSTANTS
  c1 = c1
  c2 = c2
  c3 = c3
  n1 = n1
  n2 = n2
  Id = {c1, c2, c3}
  Name = {n1, n2}
  None = None
  Req = {r1, r2, r3}
  MaxInFlight = 3
  Ops = {"create", "patch", "delete", "disable", "enable", "reality", "start", "stop", "restart"}
  Faults = {"io", "cancel", "init", "crash"}
  InitFile <- OneLive
  InitStore <- OneStored
INVARIANTS
  TypeOK
  IdsUnique
  RestartOnlyTested
  DivergenceIsReported
  NameClashOnlyByEnable
  KeyHasOnePlace
  DeletedStaysDeleted
PROPERTIES
  BackupIsPrevious
  RefinesRegistry
SYMMETRY Interchangeable
