SPECIFICATION SnapshotSpec
CONSTANTS
  MaxCommits = 3
  Budget = 4
  Absent = Absent
INVARIANTS
  CardIsTrue
  CalmIsShown
