SPECIFICATION Spec
CONSTANTS
  j1 = j1
  a1 = a1
  a2 = a2
  r1 = r1
  r2 = r2
  None = None
  Jobs = {j1}
  Agents = {a1, a2}
  Runners = {r1, r2}
  Serves <- MCServes
  MaxVms = 1
  MaxRetries = 2
  EventCap = 1
  IdleJobs = {}
  Faults = {"timeout", "late", "drop", "crash"}
  MaxFaults = 1
INVARIANTS TypeOK AtMostOneRunnerPerJob
PROPERTIES QueueKept
SYMMETRY Symmetry
VIEW MCView
