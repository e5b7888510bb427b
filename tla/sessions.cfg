SPECIFICATION Spec
CONSTANTS
  Activated = {}
  Pending = {p}
  Admins = {a,b}
  Requests = {r1, r2}
  MaxSessions = 3
  MaxTokens = 3
  MaxHash = 3
  MaxRows = 4
SYMMETRY Symmetric
CONSTRAINT Bound
INVARIANTS SessionsSound AccountsStand
