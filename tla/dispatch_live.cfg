SPECIFICATION FairSpec
CONSTANTS
  j1 = j1
  a1 = a1
  r1 = r1
  None = None
  Jobs = {j1}
  Agents = {a1}
  Runners = {r1}
  Serves <- MCServes
  MaxVms = 1
  MaxRetries = 2
  EventCap = 1
  IdleJobs = {}
  Faults = {"timeout", "late", "drop", "crash"}
  MaxFaults = 1
PROPERTIES QueuedJobServed DeadRunnerForgotten
