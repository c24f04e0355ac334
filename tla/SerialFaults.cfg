\* One transaction at a time; processes die at any step, writes fall short.
SPECIFICATION Spec
CONSTANTS
  x = x
  y = y
  d1 = d1
  d2 = d2
  d3 = d3
  c1 = c1
  c2 = c2
  None = None
  Names = {x, y}
  Plans = {d1,d2,c1}
  DaemonPlans = {d1,d2}
  CliPlans = {c1}
  VmOf <- VmOfSupervised
  Tools = {}
  Handlers = {}
  Pids = {1,2}
  MaxRecords = 2
  Faults = {"crash","short"}
  SerialLedger = TRUE
INVARIANTS TerminalIsFinal FileIsALedger
PROPERTIES ImplementsLedger
CHECK_DEADLOCK FALSE
