\* One session, two requests: a turn more than a request lives through, a session
\* lease that outlives a turn, and a message lease that expires within one.
CONSTANTS
  Procs = {p1}
  SessionIds = {s1}
  Reqs = {r1, r2}
  Approvers = {a1}
  NoApprover = NoApprover
  NoRequest = NoRequest
  Manual = TRUE
  ProviderAnswers <- NoAnswer
  ReqTTL = 1
  MessageTTL = 1
  SessionTTL = 2
  MaxLockWait = 0
  MaxClock = 2
  MaxTurn = 2
  MaxEpoch = 1
SPECIFICATION Spec
SYMMETRY Symmetric
INVARIANTS TypeOK RequestsAccounted LiveRequestsCurrent LeasesCurrent OneLeasePerScope
PROPERTIES AuthorisedInTurn 
