\* Four names for three places, so that declaring fills the ledger and rolls
\* records off; two plans, so that a declaration replaces one of its name.
SPECIFICATION Spec
CONSTANTS
  Names = {n1, n2, n3, n4}
  Plans = {p1, p2}
  MaxRecords = 3
INVARIANTS TypeOK NoDuplicateNames
PROPERTIES TerminalIsFinal OnlyOldestRollsOff OrderKept
