\* Two PIDs for three workers, so a PID is given again.
SPECIFICATION Spec
CONSTANTS
  x = x
  y = y
  d1 = d1
  d2 = d2
  d3 = d3
  c1 = c1
  c2 = c2
  None = None
  Names = {x, y}
  Plans = {d1,d2,d3}
  DaemonPlans = {d1,d2,d3}
  CliPlans = {}
  VmOf <- VmOfSupervised
  Tools = {}
  Handlers = {h1}
  Pids = {1,2}
  MaxRecords = 2
  Faults = {}
  SerialLedger = FALSE
INVARIANTS StopNeverHitsRecycledPid
CHECK_DEADLOCK FALSE
