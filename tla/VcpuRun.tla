------------------------------- MODULE VcpuRun -------------------------------
(***************************************************************************)
(* The vCPU threads of one VM: the bootstrap processor on the thread that  *)
(* called provision_kvm_machine_native, one thread for each application    *)
(* processor, the stop flag they share with the Ctrl+C handler, and the    *)
(* mutex of the MMIO bus.                                                  *)
(*                                                                         *)
(* The guest is free: KVM_RUN returns with any exit, or stays in the       *)
(* kernel for good (an idle vCPU behind the in-kernel interrupt chip, an   *)
(* AP the guest never starts).                                             *)
(***************************************************************************)
EXTENDS FiniteSets

CONSTANTS Vcpus,
          Bsp,     \* the bootstrap processor
          Nobody,  \* the bus is free
          Panics   \* TRUE: print! and eprintln! may panic (a closed console)

ASSUME VcpuAssumption ==
  Bsp \in Vcpus /\ Nobody \notin Vcpus /\ Panics \in BOOLEAN

VARIABLES
  at,        \* per vCPU: where its thread is in run_vcpu_loop
  ended,     \* per vCPU: how drive_vcpu returned: Ok because the flag was up
             \* ("asked"), Ok on a SystemEvent ("event"), or an error
  stop,      \* the VM-wide stop flag
  signal,    \* SIGINT: "none", "caught" (its handler thread has yet to run), "handled"
  bus,       \* the holder of the bus mutex
  poisoned,  \* a holder panicked
  report     \* how provision_kvm_machine_native was left: "none" before that,
             \* "ok" or "error" when it returned, "panic" when it unwound

vars == <<at, ended, stop, signal, bus, poisoned, report>>

Aps == Vcpus \ {Bsp}
Over == {"out", "panicked"}

Init ==
  /\ at = [v \in Vcpus |-> "poll"]
  /\ ended = [v \in Vcpus |-> "none"]
  /\ stop = FALSE /\ signal = "none"
  /\ bus = Nobody /\ poisoned = FALSE
  /\ report = "none"

To(v, l) == at' = [at EXCEPT ![v] = l]
Returns(v, how) == To(v, "leaving") /\ ended' = [ended EXCEPT ![v] = how]

(***************************************************************************)
(* drive_vcpu.                                                             *)
(***************************************************************************)
MutPoll(v) ==
  /\ at[v] = "poll"
  /\ \/ stop /\ v = Bsp /\ Returns(v, "asked")
     \/ ~ (stop /\ v = Bsp) /\ To(v, "guest") /\ UNCHANGED ended
  /\ UNCHANGED <<stop, signal, bus, poisoned, report>>

MutPollTimid(v) ==
  /\ at[v] = "poll"
  /\ \/ Returns(v, "asked")
     \/ ~ stop /\ To(v, "guest") /\ UNCHANGED ended
  /\ UNCHANGED <<stop, signal, bus, poisoned, report>>

Poll(v) ==
  /\ at[v] = "poll"
  /\ \/ stop /\ Returns(v, "asked")
     \/ ~ stop /\ To(v, "guest") /\ UNCHANGED ended
  /\ UNCHANGED <<stop, signal, bus, poisoned, report>>

\* KVM_RUN returns.  "poll" stands for the exits that only loop: EAGAIN and
\* EINTR, the UART's registers, HLT, and what is ignored.
KvmRun(v) ==
  /\ at[v] = "guest"
  /\ \/ \E l \in {"poll", "console", "mmio"} : To(v, l) /\ UNCHANGED ended
     \/ \E how \in {"event", "error"} : Returns(v, how)
     \/ Panics /\ To(v, "panicked") /\ UNCHANGED ended  \* SystemEvent is announced
  /\ UNCHANGED <<stop, signal, bus, poisoned, report>>

\* IoOut to COM1: print, then flush.
Console(v) ==
  /\ at[v] = "console"
  /\ \/ To(v, "poll") /\ UNCHANGED ended
     \/ Returns(v, "error")
     \/ Panics /\ To(v, "panicked") /\ UNCHANGED ended
  /\ UNCHANGED <<stop, signal, bus, poisoned, report>>

\* MmioRead and MmioWrite: the mutex is held for the one access.
MutLockBus(v) ==
  /\ at[v] = "mmio" /\ bus = Nobody
  /\ To(v, "device") /\ bus' = v
  /\ UNCHANGED <<ended, stop, signal, poisoned, report>>

LockBus(v) ==
  /\ at[v] = "mmio" /\ bus = Nobody
  /\ \/ poisoned /\ Returns(v, "error") /\ UNCHANGED bus
     \/ ~ poisoned /\ To(v, "device") /\ bus' = v /\ UNCHANGED ended
  /\ UNCHANGED <<stop, signal, poisoned, report>>

\* A panic inside the device poisons the mutex; one in the notice of an
\* unrouted address, printed after the mutex is released, does not.
Device(v) ==
  /\ at[v] = "device"
  /\ bus' = Nobody
  /\ \/ To(v, "poll") /\ UNCHANGED poisoned
     \/ Panics /\ To(v, "panicked") /\ poisoned' \in {TRUE, poisoned}
  /\ UNCHANGED <<ended, stop, signal, report>>

\* run_vcpu_loop raises the flag however drive_vcpu returned.
MutRaise(v) ==
  /\ at[v] = "leaving"
  /\ stop' = (stop \/ ended[v] = "event")
  /\ To(v, "out")
  /\ UNCHANGED <<ended, signal, bus, poisoned, report>>

Raise(v) ==
  /\ at[v] = "leaving"
  /\ stop' = TRUE
  /\ To(v, "out")
  /\ UNCHANGED <<ended, signal, bus, poisoned, report>>

(***************************************************************************)
(* SIGINT.  The kernel hands the signal to one thread, whose KVM_RUN, if   *)
(* it is in one, is cut short (EINTR); the handler's closure, which raises *)
(* the flag, runs later on a thread of its own.                            *)
(***************************************************************************)
Sigint ==
  /\ report \in {"none", "panic"} /\ at[Bsp] # "killed"
  /\ signal' = "caught"
  /\ \/ \E v \in Vcpus : at[v] = "guest" /\ To(v, "poll")
     \/ UNCHANGED at
  /\ UNCHANGED <<ended, stop, bus, poisoned, report>>

Handler ==
  /\ signal = "caught" /\ at[Bsp] # "killed"
  /\ signal' = "handled" /\ stop' = TRUE
  /\ UNCHANGED <<at, ended, bus, poisoned, report>>

(***************************************************************************)
(* provision_kvm_machine_native: the bootstrap processor's loop is over,   *)
(* every AP thread is joined, the bootstrap processor's outcome is what is *)
(* reported.                                                               *)
(***************************************************************************)
Join ==
  /\ report = "none" /\ at[Bsp] = "out"
  /\ \A v \in Aps : at[v] \in Over
  /\ report' = IF ended[Bsp] = "error" THEN "error" ELSE "ok"
  /\ UNCHANGED <<at, ended, stop, signal, bus, poisoned>>

\* A panic on the bootstrap processor's thread unwinds: the handles of the AP
\* threads are dropped, not joined, and TapGuard deletes the TAP while they run
\* on.  The flag is not raised.
Unwind ==
  /\ report = "none" /\ at[Bsp] = "panicked"
  /\ report' = "panic"
  /\ UNCHANGED <<at, ended, stop, signal, bus, poisoned>>

\* The panic leaves main, and the process takes its other threads with it.
ProcessEnds ==
  /\ report = "panic" /\ at[Bsp] = "panicked"
  /\ at' = [v \in Vcpus |-> "killed"]
  /\ UNCHANGED <<ended, stop, signal, bus, poisoned, report>>

Next ==
  \/ \E v \in Vcpus : \/ Poll(v) \/ KvmRun(v) \/ Console(v) \/ LockBus(v)
                      \/ Device(v) \/ Raise(v)
  \/ Sigint \/ Handler \/ Join \/ Unwind \/ ProcessEnds

Spec == Init /\ [][Next]_vars

(***************************************************************************)
(* Every thread keeps running, and one that waits for the bus mutex gets   *)
(* it in the end.  KVM_RUN owes nothing: it returns when the guest or a    *)
(* signal makes it.                                                        *)
(***************************************************************************)
Fairness ==
  /\ \A v \in Vcpus : /\ WF_vars(Poll(v) \/ Console(v) \/ Device(v) \/ Raise(v))
                      /\ SF_vars(LockBus(v))
  /\ WF_vars(Handler) /\ WF_vars(Join) /\ WF_vars(Unwind) /\ WF_vars(ProcessEnds)

FairSpec == Spec /\ Fairness

-----------------------------------------------------------------------------
(***************************************************************************)
(* Properties.                                                             *)
(***************************************************************************)
TypeOK ==
  /\ at \in [Vcpus -> {"poll", "guest", "console", "mmio", "device", "leaving",
                       "out", "panicked", "killed"}]
  /\ ended \in [Vcpus -> {"none", "asked", "event", "error"}]
  /\ stop \in BOOLEAN /\ signal \in {"none", "caught", "handled"}
  /\ bus \in Vcpus \cup {Nobody} /\ poisoned \in BOOLEAN
  /\ report \in {"none", "ok", "error", "panic"}

\* A device that a panic left half way through an access (its rings read, its
\* completion not yet written) is never reached again, by any vCPU.
HalfDoneIsNeverTouched == poisoned => \A v \in Vcpus : at[v] # "device"

\* Nothing stops a VM unasked: when the flag is up, or a vCPU has left on
\* account of it, the operator asked for that or some vCPU ended by itself.
StopsForAReason ==
  (stop \/ \E v \in Vcpus : ended[v] = "asked") =>
    signal # "none" \/ \E v \in Vcpus : ended[v] \in {"event", "error"}

\* A vCPU whose KVM_RUN does return, each time it is entered, leaves its loop
\* once the flag is up: not the console, nor the bus mutex, nor a sibling that
\* blocks in the kernel can hold it.
ReturnsFromTheGuest(v) == []<>(at[v] # "guest")

StopReachesEveryVcpu ==
  \A v \in Vcpus :
    ReturnsFromTheGuest(v) => (stop ~> at[v] \in Over \cup {"killed"})

\* If every KVM_RUN returns, then a signal, the flag, or the end of any one
\* vCPU's loop winds the VM down.  (An AP thread that panics does not come to
\* the end of its loop: the others run on.)
WindsDownWhenRunsReturn ==
  (\A v \in Vcpus : ReturnsFromTheGuest(v)) =>
    (signal # "none" \/ stop \/ \E v \in Vcpus : at[v] = "out") ~> (report # "none")

\* What provision_kvm_machine_native's comment says: raising the flag makes
\* every vCPU wind down and the function return.  A vCPU that blocks in the
\* kernel does not see the flag, and nothing kicks it out of KVM_RUN.
StopWindsDown == (signal # "none" \/ stop) ~> (report # "none")
=============================================================================
