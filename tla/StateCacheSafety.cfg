CONSTANTS
  Poll = {p1, p2, p3}
  Write = {w1}
  Kinds = {"edit", "disable", "enable", "service"}
  Faults = {"probe", "restart"}
  None = None
SPECIFICATION Spec
SYMMETRY Interchangeable
INVARIANTS
  TypeOK
  SingleProbe
  NobodyStranded
PROPERTY MonotoneView
