SPECIFICATION FairSpec
CONSTANTS
  User <- OneUser
  Poll = {p1, p2}
  Reset = {a1}
  None = None
  Idle = 1
  MaxBytes = 1
  MaxEra = 1
INVARIANTS
  TypeOK
  CleanSlate
  OutputParses
PROPERTIES
  HiddenIsIdle
  IdleUsersDisappear
