---------------------------- MODULE MCDirectBoot ----------------------------
(***************************************************************************)
(* DirectBoot for TLC: requests at and past each limit, hosts that refuse  *)
(* for each of their reasons, and kernels that fit and that do not.        *)
(***************************************************************************)
EXTENDS DirectBoot

SomeRequests ==
  {[vcpus |-> v, memory |-> m, disk |-> d] :
     v \in {0, 1, 2, 255, 256}, m \in {7, 8, 512, 3328}, d \in BOOLEAN}

SomeHosts ==
  {[vcpus |-> v, api |-> TRUE, available |-> a] :
     v \in {1, 1024}, a \in {Unreadable, 100, 600, 100000}}
  \cup {[vcpus |-> 1024, api |-> FALSE, available |-> 100000]}

\* Memory that reaches the addresses the code keeps for devices.
LargeRequests ==
  {[vcpus |-> 1, memory |-> m, disk |-> d] : m \in {3328, 3329, 4096}, d \in BOOLEAN}
LargeHosts == {[vcpus |-> 8, api |-> TRUE, available |-> 100000]}

SomeKernels ==
  {NoKernel,
   [entry |-> MiB, segments |-> {[lo |-> MiB, hi |-> 3 * MiB],
                                 [lo |-> 4 * MiB, hi |-> 5 * MiB]}],
   [entry |-> 16 * MiB, segments |-> {[lo |-> 16 * MiB, hi |-> 40 * MiB]}]}
=============================================================================
