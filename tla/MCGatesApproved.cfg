SPECIFICATION Spec
CONSTANTS
  Processes = {p1}
  Intents = {i1}
  Nonces = {n1}
  MaxHead = 0
  MaxClock = 1
  Ttl = 1
  MaxCrashes = 0
  NoProcess = NoProcess
  NoIntent = NoIntent
INVARIANT ApprovedIsExecuted
