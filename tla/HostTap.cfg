\* Four processes: p1 and p2 with one TAP, p3 with its own and a bridge, p4
\* without a bridge.  Each provisions once, so the system stops.
SPECIFICATION Spec
CONSTANTS
  p1 = p1
  p2 = p2
  p3 = p3
  p4 = p4
  t1 = t1
  t2 = t2
  br0 = br0
  None = None
  Procs = {p1, p2, p3, p4}
  Taps = {t1, t2}
  TapOf <- TapOfSome
  Bridges = {br0}
  BridgeOf <- BridgeOfAll
  IpFails = TRUE
  DelFails = FALSE
  PrintFails = FALSE
INVARIANTS NeverOrphaned RunningIsAttached
CHECK_DEADLOCK FALSE
