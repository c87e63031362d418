SPECIFICATION Spec
CONSTANTS
  Processes = {p1, p2}
  Idents = {i1, i2}
  Calls = {"start", "repair"}
  InitialStages = {"none", "branch"}
  OperatorTargets = {"BLOCKED", "DISPATCHED"}
  MaxMain = 1
  MaxFaults = 1
  NoProcess = NoProcess
  NoIdent = NoIdent
SYMMETRY Symmetry
INVARIANTS
  OneWorktree
  CommandOnPlannedTask
  AttachedIsVerified
PROPERTY StartKeepsPromise
