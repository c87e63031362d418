SPECIFICATION Spec
CONSTANTS
  Processes = {p1, p2}
  Intents = {i1, i2}
  Nonces = {n1}
  MaxHead = 1
  MaxClock = 1
  Ttl = 1
  MaxCrashes = 1
  NoProcess = NoProcess
  NoIntent = NoIntent
SYMMETRY Symmetry
INVARIANTS
  StatusTellsTruth
PROPERTY ResumeIsGated
