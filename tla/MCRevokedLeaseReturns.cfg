CONSTANTS
  Procs = {p1}
  SessionIds = {s1}
  Reqs = {r1, r2}
  Approvers = {a1}
  NoApprover = NoApprover
  NoRequest = NoRequest
  Manual = TRUE
  ProviderAnswers <- NoAnswer
  ReqTTL = 1
  MessageTTL = 1
  SessionTTL = 1
  MaxLockWait = 0
  MaxClock = 1
  MaxTurn = 1
  MaxEpoch = 1
SPECIFICATION SpecRevocation
SYMMETRY Symmetric
INVARIANT RevocationFinal
