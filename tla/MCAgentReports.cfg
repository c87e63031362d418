SPECIFICATION RecordsSpec
CONSTANTS
  Tasks = {d1}
  MaxEvents = 11
  Agents = {a1}
  Times = {1, 2}
  Bodies = {b1, b2}
  None = None
INVARIANTS
  TypeOK
  HistoryRebuildsState
  ResumeIsWherePauseWasAsked
  ReleaseFollowsReview
  NoStuckTask
  LatestShown
PROPERTIES
  HistoryOnlyGrows
CHECK_DEADLOCK FALSE
