\* A driver that reads and writes one block.  Two requests in flight in a
\* queue of two; ring indices wrap at 4, so every slot is met in both halves.
SPECIFICATION FairSpec
CONSTANTS
  v1 = v1
  v2 = v2
  NoRequest = NoRequest
  NoReply = NoReply
  Nothing = Nothing
  Zero = Zero
  Heads = {0, 1}
  Requests <- OrdinaryRequests
  QueueSize = 2
  IndexWrap = 4
  SectorWrap = 8
  DiskSize = 1
  Outside = {}
  DiskFails = FALSE
INVARIANTS TypeOK NotifyServesAll NoLostInterrupt
PROPERTIES EveryRequestCompletes
