\* Every request type and every way the device can fail a request, two of
\* them in flight.  A chain the device cannot read is never completed and
\* those behind it wait, so this system may stop.
SPECIFICATION Spec
CONSTANTS
  v1 = v1
  v2 = v2
  NoRequest = NoRequest
  NoReply = NoReply
  Nothing = Nothing
  Zero = Zero
  Heads = {0, 1}
  Requests <- AllRequests
  QueueSize = 2
  IndexWrap = 4
  SectorWrap = 8
  DiskSize = 1
  Outside = {1}
  DiskFails = TRUE
INVARIANTS NoPhantomCompletion OnlyPublishedServed
PROPERTIES IsBlockService
CHECK_DEADLOCK FALSE
