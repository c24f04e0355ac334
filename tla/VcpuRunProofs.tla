---------------------------- MODULE VcpuRunProofs ----------------------------
(***************************************************************************)
(* Theorems of the run loop, for every number of vCPUs, with or without    *)
(* panics.                                                                 *)
(***************************************************************************)
EXTENDS VcpuRun, TLAPS

(***************************************************************************)
(* A reason to stop is never lost: a thread still in its loop has no       *)
(* outcome that a later one could overwrite, and one that is leaving has   *)
(* an outcome, so that the flag it raises has a reason.                    *)
(***************************************************************************)
Looping == {"poll", "guest", "console", "mmio", "device"}

OutcomeInv ==
  \A v \in Vcpus : /\ at[v] \in Looping => ended[v] = "none"
                   /\ at[v] = "leaving" => ended[v] # "none"

\* Only the holder of the mutex is in a device.
BusInv == \A v \in Vcpus : at[v] = "device" => bus = v

IInv == TypeOK /\ OutcomeInv /\ StopsForAReason /\ BusInv /\ HalfDoneIsNeverTouched

LEMMA InitIInv == Init => IInv
BY VcpuAssumption
DEF Init, IInv, TypeOK, OutcomeInv, StopsForAReason, BusInv, HalfDoneIsNeverTouched

\* A thread that moves on inside its loop, and how it may treat the bus.
LEMMA StaysInLoop ==
  ASSUME IInv, NEW v \in Vcpus, at[v] \in Looping,
         NEW l \in Looping \cup {"panicked"}, To(v, l),
         UNCHANGED <<ended, stop, signal, report>>,
         bus' \in Vcpus \cup {Nobody}, poisoned' \in BOOLEAN,
         BusInv', HalfDoneIsNeverTouched'
  PROVE  IInv'
<1>1. TypeOK'
  BY DEF IInv, TypeOK, To, Looping
<1>2. OutcomeInv'
  BY DEF IInv, TypeOK, OutcomeInv, To, Looping
<1>3. StopsForAReason'
  BY DEF IInv, StopsForAReason
<1>. QED BY <1>1, <1>2, <1>3 DEF IInv

\* A thread that enters no device, while the bus stays as it is.
LEMMA BusAsItWas ==
  ASSUME IInv, NEW v \in Vcpus, NEW l, To(v, l), l # "device",
         UNCHANGED <<bus, poisoned>>
  PROVE  BusInv' /\ HalfDoneIsNeverTouched'
BY DEF IInv, TypeOK, To, BusInv, HalfDoneIsNeverTouched

\* A thread whose drive_vcpu returns.
LEMMA LeavesLoop ==
  ASSUME IInv, NEW v \in Vcpus, at[v] \in Looping,
         NEW how \in {"asked", "event", "error"}, Returns(v, how),
         how = "asked" => stop,
         UNCHANGED <<stop, signal, report, bus, poisoned>>
  PROVE  IInv'
<1>1. TypeOK'
  BY DEF IInv, TypeOK, Returns, To
<1>2. ended[v] = "none"
  BY DEF IInv, OutcomeInv, Looping
<1>3. ended'[v] = how /\ at'[v] = "leaving"
      /\ \A u \in Vcpus \ {v} : ended'[u] = ended[u] /\ at'[u] = at[u]
  BY DEF IInv, TypeOK, Returns, To
<1>4. OutcomeInv'
  BY <1>3 DEF IInv, OutcomeInv, Looping
<1>5. StopsForAReason'
  <2>1. CASE how = "asked"
    BY <1>2, <1>3, <2>1 DEF IInv, StopsForAReason
  <2>2. CASE how # "asked"
    BY <1>3, <2>2 DEF StopsForAReason
  <2>. QED BY <2>1, <2>2
<1>6. BusInv' /\ HalfDoneIsNeverTouched'
  BY BusAsItWas DEF Returns
<1>. QED BY <1>1, <1>4, <1>5, <1>6 DEF IInv

LEMMA NextIInv == IInv /\ [Next]_vars => IInv'
<1>. SUFFICES ASSUME IInv, [Next]_vars PROVE IInv'
  OBVIOUS
<1>0. bus \in Vcpus \cup {Nobody} /\ poisoned \in BOOLEAN
  BY DEF IInv, TypeOK
<1>1. CASE UNCHANGED vars
  BY <1>1 DEF vars, IInv, TypeOK, OutcomeInv, StopsForAReason, BusInv, HalfDoneIsNeverTouched
<1>2. ASSUME NEW v \in Vcpus, Poll(v) PROVE IInv'
  <2>1. CASE stop /\ Returns(v, "asked")
    BY <1>2, <2>1, LeavesLoop DEF Poll, Looping
  <2>2. CASE To(v, "guest") /\ UNCHANGED ended
    BY <1>0, <1>2, <2>2, BusAsItWas, StaysInLoop DEF Poll, Looping
  <2>. QED BY <1>2, <2>1, <2>2 DEF Poll
<1>3. ASSUME NEW v \in Vcpus, KvmRun(v) PROVE IInv'
  <2>1. ASSUME NEW l \in {"poll", "console", "mmio", "panicked"}, To(v, l), UNCHANGED ended
        PROVE IInv'
    BY <1>0, <1>3, <2>1, BusAsItWas, StaysInLoop DEF KvmRun, Looping
  <2>2. ASSUME NEW how \in {"event", "error"}, Returns(v, how) PROVE IInv'
    BY <1>3, <2>2, LeavesLoop DEF KvmRun, Looping
  <2>. QED BY <1>3, <2>1, <2>2 DEF KvmRun
<1>4. ASSUME NEW v \in Vcpus, Console(v) PROVE IInv'
  <2>1. ASSUME NEW l \in {"poll", "panicked"}, To(v, l), UNCHANGED ended PROVE IInv'
    BY <1>0, <1>4, <2>1, BusAsItWas, StaysInLoop DEF Console, Looping
  <2>2. CASE Returns(v, "error")
    BY <1>4, <2>2, LeavesLoop DEF Console, Looping
  <2>. QED BY <1>4, <2>1, <2>2 DEF Console
<1>5. ASSUME NEW v \in Vcpus, LockBus(v) PROVE IInv'
  <2>1. CASE ~ poisoned /\ To(v, "device") /\ bus' = v /\ UNCHANGED ended
    <3>1. BusInv' /\ HalfDoneIsNeverTouched'
      BY <1>5, <2>1, VcpuAssumption
      DEF LockBus, To, IInv, TypeOK, BusInv, HalfDoneIsNeverTouched
    <3>. QED BY <1>0, <1>5, <2>1, <3>1, StaysInLoop DEF LockBus, Looping
  <2>2. CASE Returns(v, "error") /\ UNCHANGED bus
    BY <1>5, <2>2, LeavesLoop DEF LockBus, Looping
  <2>. QED BY <1>5, <2>1, <2>2 DEF LockBus
<1>6. ASSUME NEW v \in Vcpus, Device(v) PROVE IInv'
  <2>1. \E l \in {"poll", "panicked"} : To(v, l)
    BY <1>6 DEF Device
  <2>2. bus' \in Vcpus \cup {Nobody} /\ poisoned' \in BOOLEAN
    BY <1>0, <1>6 DEF Device
  <2>3. \A u \in Vcpus : at'[u] # "device"
    BY <1>6, <2>1 DEF Device, To, IInv, TypeOK, BusInv
  <2>4. BusInv' /\ HalfDoneIsNeverTouched'
    BY <2>3 DEF BusInv, HalfDoneIsNeverTouched
  <2>. QED BY <1>6, <2>1, <2>2, <2>4, StaysInLoop DEF Device, Looping
<1>7. ASSUME NEW v \in Vcpus, Raise(v) PROVE IInv'
  <2>1. /\ at'[v] = "out" /\ \A u \in Vcpus \ {v} : at'[u] = at[u]
        /\ at' \in [Vcpus -> {"poll", "guest", "console", "mmio", "device", "leaving",
                              "out", "panicked", "killed"}]
    BY <1>7 DEF Raise, To, IInv, TypeOK
  <2>2. TypeOK'
    BY <1>7, <2>1 DEF Raise, IInv, TypeOK
  <2>3. ended[v] \in {"asked", "event", "error"}
    BY <1>7 DEF Raise, IInv, OutcomeInv, TypeOK
  <2>4. StopsForAReason'
    BY <1>7, <2>3 DEF Raise, IInv, StopsForAReason
  <2>5. OutcomeInv'
    BY <1>7, <2>1 DEF Raise, IInv, OutcomeInv, Looping
  <2>6. BusInv' /\ HalfDoneIsNeverTouched'
    BY <1>7, BusAsItWas DEF Raise
  <2>. QED BY <2>2, <2>4, <2>5, <2>6 DEF IInv
<1>8. CASE Sigint
  <2>1. report' = report /\ signal' = "caught" /\ UNCHANGED <<ended, stop, bus, poisoned>>
    BY <1>8 DEF Sigint
  <2>2. TypeOK' /\ OutcomeInv' /\ BusInv' /\ HalfDoneIsNeverTouched'
    <3>1. ASSUME NEW v \in Vcpus, at[v] = "guest", To(v, "poll")
          PROVE TypeOK' /\ OutcomeInv' /\ BusInv' /\ HalfDoneIsNeverTouched'
      BY <2>1, <3>1, BusAsItWas DEF To, IInv, TypeOK, OutcomeInv, Looping
    <3>2. CASE UNCHANGED at
      BY <2>1, <3>2 DEF IInv, TypeOK, OutcomeInv, BusInv, HalfDoneIsNeverTouched
    <3>. QED BY <1>8, <3>1, <3>2 DEF Sigint
  <2>3. StopsForAReason'
    BY <2>1 DEF StopsForAReason
  <2>. QED BY <2>2, <2>3 DEF IInv
<1>9. CASE Handler
  BY <1>9 DEF Handler, IInv, TypeOK, OutcomeInv, StopsForAReason, BusInv, HalfDoneIsNeverTouched
<1>10. CASE Join
  BY <1>10 DEF Join, IInv, TypeOK, OutcomeInv, StopsForAReason, BusInv, HalfDoneIsNeverTouched
<1>11. CASE Unwind
  BY <1>11 DEF Unwind, IInv, TypeOK, OutcomeInv, StopsForAReason, BusInv, HalfDoneIsNeverTouched
<1>12. CASE ProcessEnds
  BY <1>12 DEF ProcessEnds, IInv, TypeOK, OutcomeInv, StopsForAReason, BusInv,
     HalfDoneIsNeverTouched, Looping
<1>. QED BY <1>1, <1>2, <1>3, <1>4, <1>5, <1>6, <1>7, <1>8, <1>9, <1>10, <1>11, <1>12 DEF Next

\* The device bus under panics: however the vCPU threads, the signals and the
\* panics interleave, at most one thread is in a device, and none is once a
\* panic has left the device half way through an access.
THEOREM BusIsExclusiveAndFailsStop ==
  Spec => []( /\ \A u, v \in Vcpus : at[u] = "device" /\ at[v] = "device" => u = v
              /\ HalfDoneIsNeverTouched )
<1>1. IInv => /\ \A u, v \in Vcpus : at[u] = "device" /\ at[v] = "device" => u = v
              /\ HalfDoneIsNeverTouched
  BY DEF IInv, BusInv
<1>. QED BY <1>1, InitIInv, NextIInv, PTL DEF Spec

\* Whatever the guest, the threads and the signals do, a VM that is told to
\* stop was told by the operator, or by a vCPU that had ended by itself.
THEOREM StopsHaveAReason == Spec => []StopsForAReason
<1>1. IInv => StopsForAReason
  BY DEF IInv
<1>. QED BY <1>1, InitIInv, NextIInv, PTL DEF Spec
=============================================================================
