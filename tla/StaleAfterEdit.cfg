CONSTANTS
  Poll = {p1, p2}
  Write = {w1}
  Kinds = {"edit"}
  Faults = {}
  None = None
SPECIFICATION Spec
PROPERTY SeesAnsweredMutations
