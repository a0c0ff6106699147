\* The leader and two descendants, one inside the group and one outside it or a
\* chain of forks; streams that carry more than the limit, so that a chunk is cut,
\* and an output limit that the notice of a timeout fits or does not.
CONSTANTS
  Procs = {leader, child, other}
  Leader = leader
  Statuses = {0, 1}
  MaxOutput = 1
  NoticeSize = 1
  MaxWritten = 2
  NoResult = NoResult
SPECIFICATION FairSpec
INVARIANTS TypeOK ResultIsWholeOutput ResultIsTruthful TimeoutEndsGroup
PROPERTIES ReturnsUnlessDetained
\* A command that has ended and whose Result is returned stops.
CHECK_DEADLOCK FALSE
