SPECIFICATION ProgressSpec
CONSTANTS
  c1 = c1
  c2 = c2
  n1 = n1
  n2 = n2
  Id = {c1, c2, c3}
  Name = {n1, n2}
  None = None
  Req = {r1, r2}
  MaxInFlight = 2
  Ops = {"create", "patch", "delete", "disable", "enable", "reality", "start", "stop", "restart"}
  Faults = {"io", "cancel", "init", "crash"}
  Poll = {p1, p2}
  Writer = {w1}
  Width = 3
  MaxLines = 3
  Events = {"remove", "truncate"}
  MaxEvents = 2
  Budget = 4
  MaxTail = 2
  Run = {g1, g2}
  Threshold = 3
INVARIANTS
  TypeOK
  ChunksDoNotMatter
  InOrder
  SnapshotIsSuffix
PROPERTIES
  RequestsEnd
  EveryPollAnswered
  LinesAreShown
  CardsAlternate
  LastingStateIsFlagged
CHECK_DEADLOCK FALSE
