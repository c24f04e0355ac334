\* Memory up to and past the virtio-blk window at 3328 MiB (0xd0000000).
SPECIFICATION Spec
CONSTANTS
  Unreadable = Unreadable
  NoKernel = NoKernel
  Requests <- LargeRequests
  Hosts <- LargeHosts
  Kernels <- SomeKernels
INVARIANTS DiskIsReachable
CHECK_DEADLOCK FALSE
