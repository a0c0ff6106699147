\* Three calls, so that a group approval has a sibling inside its scope and one
\* outside it; two IDs per session so that duplicates occur.
CONSTANTS
  Calls = {c1, c2, c3}
  Ids = {i1, i2, i3}
  Procs = {p1}
  SessionIds = {s1, s2}
  Turns = {t1, t2}
  Approvers = {a1}
  NoApprover = NoApprover
  NoRequest = NoRequest
SPECIFICATION Spec
SYMMETRY Symmetric
INVARIANTS TypeOK QueueMatchesCalls
PROPERTIES DecisionFinal OnlyLiveReviewed ApprovalReachesItsScope
