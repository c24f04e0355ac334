\* Requests at and past every limit of validate_spec.  Provisioning ends, so
\* the system stops.
SPECIFICATION Spec
CONSTANTS
  Unreadable = Unreadable
  NoKernel = NoKernel
  Requests <- SomeRequests
  Hosts <- SomeHosts
  Kernels <- SomeKernels
INVARIANTS TypeOK GuestFindsItsBoot MapIsHonest CpusAnnounced WithinHost KvmOrder
CHECK_DEADLOCK FALSE
