\* Updates and resets that may be killed or fail at every step; servers that are
\* started and stopped from two shells; requests of every kind to one, except the
\* pairs that no common lock keeps apart.
CONSTANTS
  Classifiers = {ros, terraform}
  MaxVersion = 3
  MaxRetries = 5
  p1 = p1
  p2 = p2
  c1 = c1
  c2 = c2
  t1 = t1
  t2 = t2
  t3 = t3
  Pids = {p1, p2}
  Shells = {c1, c2}
  NoPid = NoPid
  MaxPolls = 2
  Threads = {t1, t2, t3}
  NoThread = NoThread
  Overlaps = {}
SPECIFICATION CommandLineSpec
INVARIANTS
  ShownIsActive
  AnswerIsInstalled
  ServerIsRecorded
  RepliesAreWhole
  Restored
  RunsInItsOwnContext
  SourceIsTrue
PROPERTIES
  EveryCommandEnds
  StopStops
  EveryServerCommandEnds
