\* A provider that is no Reviewer, answers anything, valid or not, and may ignore
\* that its context has ended; two sessions of one process, so that requests can be
\* ambiguous and leases can be mixed up; handlers that read the clock one unit
\* before they get b.mu; revocation.
CONSTANTS
  Procs = {p1}
  SessionIds = {s1,s2}
  Reqs = {r1, r2}
  Approvers = {a1}
  NoApprover = NoApprover
  NoRequest = NoRequest
  Manual = FALSE
  ProviderAnswers <- AnyAnswer
  ReqTTL = 1
  MessageTTL = 1
  SessionTTL = 1
  MaxLockWait = 1
  MaxClock = 2
  MaxTurn = 1
  MaxEpoch = 1
SPECIFICATION Spec
SYMMETRY Symmetric
INVARIANTS Authorised
PROPERTIES LeaseUsedWithinTTL LeasesOnlyFromDecisions
