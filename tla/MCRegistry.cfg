SPECIFICATION Spec
CONSTANTS
  n1 = n1
  n2 = n2
  n3 = n3
  r1 = r1
  r2 = r2
  r3 = r3
  c1 = c1
  c2 = c2
  Ids = {1, 2, 3}
  Names = {n1, n2, n3}
  Repositories = {r1, r2, r3}
  Callers = {c1, c2}
  Cap = 2
  Limit = 1
  MaxClock = 2
  None = None
SYMMETRY Symmetry
INVARIANTS
  ActiveBounded
  EventsMatchRows
  PassComplete
