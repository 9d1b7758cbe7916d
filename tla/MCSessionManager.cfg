SPECIFICATION SMSpec
CONSTANTS
  s1 = s1
  s2 = s2
  empty = empty
  big = big
  h1 = h1
  SessionId = {s1, s2}
  FileId = {empty, big}
  Host = {h1}
  Size <- MCSize
  Timeout = 1
  MaxTime = 2
  MaxBytes = 1
INVARIANTS
  TypeOK
  Tracked
  CompletedMatchesProgress
PROPERTIES
  SweepSparesRecentlyUsed
  ImplementsSessionLife
  AbandonedReleased
CHECK_DEADLOCK FALSE
