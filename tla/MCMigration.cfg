SPECIFICATION Spec
CONSTANTS
  p1 = p1
  p2 = p2
  Procs = {p1, p2}
  MaxFaults = 1
  None = None
SYMMETRY Symmetry
INVARIANTS
  OldOrNew
  RowsSurvive
  AdmittedIsCompatible
  InitialisedIsReady
