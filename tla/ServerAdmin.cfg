SPECIFICATION Spec
CONSTANTS
  k0 = k0
  k1 = k1
  k2 = k2
  k3 = k3
  Key = {k0, k1, k2, k3}
  Absent = Absent
  Null = Null
  Bad = Bad
  None = None
  Req = {r1, r2, r3}
  Ops = {"link", "regenerate", "stats", "online"}
  Faults = {"io", "restart", "keytool", "crash"}
  InitConfs <- Installed
INVARIANTS
  TypeOK
  StaleKeyExplained
  EnableStatsIsHonest
  OnlineSticks
  YamlLoads
  ApiWiredOnce
PROPERTIES
  OwnEntriesKept
SYMMETRY Interchangeable
