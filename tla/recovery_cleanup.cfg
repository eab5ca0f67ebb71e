SPECIFICATION Spec
CONSTANTS
  j1 = j1
  j2 = j2
  a1 = a1
  r1 = r1
  r2 = r2
  None = None
  Jobs = {j1, j2}
  Agents = {a1}
  Runners = {r1, r2}
  Serves <- MCServes
  MaxVms = 2
  MaxRetries = 2
  EventCap = 1
  IdleJobs = {}
  Faults = {"drop"}
  MaxFaults = 1
PROPERTIES RecoveryCleansUpTheDead
SYMMETRY Symmetry
VIEW MCView
