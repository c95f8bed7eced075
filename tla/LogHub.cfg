CONSTANTS
  Session = {s1, s2}
  None = None
  BufLines = 1
  InLines = 1
  MaxLines = 3
SPECIFICATION FairSpec
INVARIANTS
  TypeOK
  OneStreamerForSubscribers
PROPERTIES
  RepeatsExplained
  LineAfterLine
  CancelledStreamerEnds
  LinesReachSubscribers
