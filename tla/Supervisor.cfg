\* Two workers of one VM and a DELETE, transactions overlapping; two PIDs, so
\* PIDs are reused, and a stop handler with no bound on its calls; processes
\* and the daemon die, and calls fail.
SPECIFICATION FairSpec
CONSTANTS
  x = x
  y = y
  d1 = d1
  d2 = d2
  d3 = d3
  c1 = c1
  c2 = c2
  None = None
  Names = {x, y}
  Plans = {d1, d2}
  DaemonPlans = {d1, d2}
  CliPlans = {}
  VmOf <- VmOfSupervised
  Tools = {t1}
  Handlers = {h1}
  Pids = {1,2}
  MaxRecords = 2
  Faults = {"crash", "daemon", "io"}
  SerialLedger = FALSE
INVARIANTS TypeOK OneWorkerPerName MapIsExact NoInventedOutcome
PROPERTIES NamesAreReleased
CHECK_DEADLOCK FALSE
