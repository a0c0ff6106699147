\* A chain one longer than the walk may climb, or a chain of two and a third process
\* that takes over a PID of it.
CONSTANTS
  Pids = {p2, p3, p4}
  Pid1 = Pid1
  NoProcess = NoProcess
  Users = {u1, u2}
  Executables = {agent, shell}
  Agents = {agent}
  NoFile = NoFile
  Nobody = Nobody
  MaxDepth = 2
  MaxBorn = 3
SPECIFICATION Spec
SYMMETRY Symmetric
CHECK_DEADLOCK FALSE
INVARIANTS TypeOK FoundIsAncestor NearestIsFound AliveIsTheAgent
