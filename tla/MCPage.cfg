SPECIFICATION PageFairSpec
CONSTANTS
  t1 = t1
  t2 = t2
  project = project
  tasks = tasks
  h1 = h1
  h2 = h2
  Tasks = {t1, t2}
  Active = {t1}
  Parts = {project, tasks}
  Heads = {h1, h2}
  Loads = {1, 2}
  Readings = {1, 2}
  MaxEvents = 2
  None = None
INVARIANTS
  ScreenBelongsTogether
PROPERTIES PageCatchesUp
