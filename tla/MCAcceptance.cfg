SPECIFICATION Spec
CONSTANTS
  p1 = p1
  p2 = p2
  Processes = {p1, p2}
  Contents = {f1, f2}
  MaxHead = 2
  MaxRows = 2
  NoProcess = NoProcess
SYMMETRY Symmetry
INVARIANTS
  AcceptanceObserved
PROPERTIES
  IndexObserved
  RowsObserved
