\* Two vCPUs; nothing obliges KVM_RUN to return.
SPECIFICATION FairSpec
CONSTANTS
  Vcpus = {bsp, a1}
  Bsp = bsp
  Nobody = Nobody
  Panics = FALSE
PROPERTIES StopWindsDown
CHECK_DEADLOCK FALSE
