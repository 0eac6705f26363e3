SPECIFICATION Spec
CONSTANTS
  Ids = {1, 2, 3}
  MaxPageSize = 2
  Counts <- MCCounts
  Firsts <- MCFirsts
  Missing = Missing
  MaxTime = 1
  Width = 8
  Bases = {1, 2, 3, 63, 64, 65, 100, 127}
  Caps = {1, 5, 40, 63, 64}
  MaxAttempt = 9
  Actors = {1, 2}
  Times = {0, 1, 3}
  MaxEntries = 3
  BulkWindow = 2
  BulkCount = 2
  DenialCount = 2
  VolumeCount = 3
  Day = 4
  DayStart = 1
  DayEnd = 3
  Zone = 1
INVARIANTS NoneSkipped BackoffIsCappedDoubling ClusterIsDensest OrderIsIrrelevant
CHECK_DEADLOCK FALSE
