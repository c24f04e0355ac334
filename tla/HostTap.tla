------------------------------- MODULE HostTap -------------------------------
(***************************************************************************)
(* Provisioning, seen from the host: the pipeline of                       *)
(* provision_kvm_machine_native in several ai-vmm processes at once, and   *)
(* the TAP interfaces they create, configure and delete with `ip`.  The    *)
(* rest of what the pipeline sets up (the KVM VM, the guest memory, the    *)
(* vCPUs, the devices) lives and dies with the process.                    *)
(*                                                                         *)
(* The name of a TAP is a hash of the VM's name: processes that apply      *)
(* plans of one name share one TAP.  A command of `ip` is one step; the    *)
(* steps of two processes interleave.                                      *)
(***************************************************************************)
CONSTANTS Procs,
          Taps, TapOf,       \* derive_tap_name, per process
          Bridges, BridgeOf, \* network_bridge, per process, or None
          None,
          IpFails,           \* TRUE: an `ip` that shows, creates or sets may fail
          DelFails,          \* TRUE: an `ip link del` may fail
          PrintFails         \* TRUE: println! may panic (a closed console)

ASSUME TapAssumption ==
  /\ TapOf \in [Procs -> Taps] /\ BridgeOf \in [Procs -> Bridges \cup {None}]
  /\ None \notin Bridges /\ None \notin Procs
  /\ IpFails \in BOOLEAN /\ DelFails \in BOOLEAN /\ PrintFails \in BOOLEAN

VARIABLES at,           \* per process: where it is in the pipeline
          createdHere,  \* per process: created_here of setup_tap_interface
          link          \* per TAP: whether it is there, who made it, its
                        \* bridge (master), and whether it is up

vars == <<at, createdHere, link>>

Absent == [there |-> FALSE, maker |-> None, master |-> None, up |-> FALSE]
Made(p) == [there |-> TRUE, maker |-> p, master |-> None, up |-> FALSE]
\* A TAP of before: the host's own, or left by a process that was killed.
Foreign == Made(None)
Present(t) == link[t].there
MyLink(p) == link[TapOf[p]]

Init ==
  /\ at = [p \in Procs |-> "start"]
  /\ createdHere = [p \in Procs |-> FALSE]
  /\ link \in [Taps -> {Absent, Foreign}]

To(p, l) == at' = [at EXCEPT ![p] = l]
Quietly(p, l) == To(p, l) /\ UNCHANGED <<createdHere, link>>
SetLink(p, lk) == link' = [link EXCEPT ![TapOf[p]] = lk] /\ UNCHANGED createdHere

\* Validation, the memory check, KVM, memory and vCPUs: each may refuse or
\* fail, before anything of the host is touched.  No bridge, no TAP; a name
\* that is not a valid interface name is refused.
Prepare(p) ==
  /\ at[p] = "start"
  /\ \/ Quietly(p, "failed")
     \/ BridgeOf[p] = None /\ Quietly(p, "isolated")
     \/ BridgeOf[p] # None /\ Quietly(p, "check")

(***************************************************************************)
(* setup_tap_interface.                                                    *)
(***************************************************************************)
\* Every `ip link show` that fails, for whatever reason, reads as "no such
\* interface"; only one that cannot be run is an error.
CheckExists(p) ==
  /\ at[p] = "check"
  /\ \/ Present(TapOf[p]) /\ Quietly(p, "master")
     \/ /\ ~ Present(TapOf[p]) \/ IpFails
        /\ createdHere' = [createdHere EXCEPT ![p] = TRUE]
        /\ To(p, "add") /\ UNCHANGED link
     \/ IpFails /\ Quietly(p, "failed")

\* `ip tuntap add` fails when the interface is there.
AddTap(p) ==
  /\ at[p] = "add"
  /\ \/ ~ Present(TapOf[p]) /\ To(p, "master") /\ SetLink(p, Made(p))
     \/ (Present(TapOf[p]) \/ IpFails) /\ Quietly(p, "recheck")

\* A lost race is tolerated: created_here stays as it is, whoever made the
\* interface.
Recheck(p) ==
  /\ at[p] = "recheck"
  /\ \/ Present(TapOf[p]) /\ Quietly(p, "master")
     \/ (~ Present(TapOf[p]) \/ IpFails) /\ Quietly(p, "failed")

AttachFails(p) == Quietly(p, IF createdHere[p] THEN "rollback" ELSE "failed")

MutSetMaster(p) ==
  /\ at[p] = "master"
  /\ To(p, "up") /\ SetLink(p, [MyLink(p) EXCEPT !.master =
                                 IF createdHere[p] THEN BridgeOf[p] ELSE @])

SetMaster(p) ==
  /\ at[p] = "master"
  /\ \/ /\ Present(TapOf[p]) /\ To(p, "up")
        /\ SetLink(p, [MyLink(p) EXCEPT !.master = BridgeOf[p]])
     \/ (~ Present(TapOf[p]) \/ IpFails) /\ AttachFails(p)

\* The last command of setup_tap_interface, and the line printed before the
\* guard takes over: a panic there leaves the TAP to nobody.
AfterSetUp == {"guarded"} \cup (IF PrintFails THEN {"failed"} ELSE {})
SetUp(p) ==
  /\ at[p] = "up"
  /\ \/ /\ Present(TapOf[p]) /\ \E l \in AfterSetUp : To(p, l)
        /\ SetLink(p, [MyLink(p) EXCEPT !.up = TRUE])
     \/ (~ Present(TapOf[p]) \/ IpFails) /\ AttachFails(p)

\* `ip link del`, whose own failure is ignored.
Delete(p) ==
  \/ SetLink(p, Absent)
  \/ DelFails /\ UNCHANGED <<link, createdHere>>

RollBack(p) == at[p] = "rollback" /\ To(p, "failed") /\ Delete(p)

(***************************************************************************)
(* The rest of the pipeline, under the guard that deletes the TAP on every *)
(* return.                                                                 *)
(***************************************************************************)
MutBoot(p) ==
  \/ at[p] = "guarded" /\ (Quietly(p, "running") \/ Quietly(p, "failed"))
  \/ at[p] = "isolated" /\ (Quietly(p, "runningIsolated") \/ Quietly(p, "failed"))

Boot(p) ==
  \/ at[p] = "guarded" /\ (Quietly(p, "running") \/ Quietly(p, "drop"))
  \/ at[p] = "isolated" /\ (Quietly(p, "runningIsolated") \/ Quietly(p, "failed"))

GuestEnds(p) ==
  \/ at[p] = "running" /\ Quietly(p, "drop")
  \/ at[p] = "runningIsolated" /\ Quietly(p, "over")

DropGuard(p) == at[p] = "drop" /\ To(p, "over") /\ Delete(p)

Next ==
  \E p \in Procs :
    \/ Prepare(p) \/ CheckExists(p) \/ AddTap(p) \/ Recheck(p)
    \/ SetMaster(p) \/ SetUp(p) \/ RollBack(p)
    \/ Boot(p) \/ GuestEnds(p) \/ DropGuard(p)

Spec == Init /\ [][Next]_vars

-----------------------------------------------------------------------------
(***************************************************************************)
(* Properties.                                                             *)
(***************************************************************************)
Links == [there : BOOLEAN, maker : Procs \cup {None},
          master : Bridges \cup {None}, up : BOOLEAN]
TypeOK ==
  /\ at \in [Procs -> {"start", "check", "add", "recheck", "master", "up",
                       "rollback", "guarded", "isolated", "running",
                       "runningIsolated", "drop", "failed", "over"}]
  /\ createdHere \in [Procs -> BOOLEAN]
  /\ link \in [Taps -> Links]

\* "A TAP is therefore never orphaned" (TapGuard): whoever made it and
\* however the processes that share it interleave, a TAP that one of them has
\* made and that is still there has a process that has yet to delete it.
WillDelete(p) ==
  \/ at[p] \in {"guarded", "running", "drop", "rollback"}
  \/ at[p] \in {"master", "up"} /\ createdHere[p]
NeverOrphaned ==
  \A t \in Taps : (Present(t) /\ link[t].maker # None) =>
    \E p \in Procs : TapOf[p] = t /\ WillDelete(p)

\* A VM that nobody else applies a plan of.
SoleUser(p) ==
  \A q \in Procs \ {p} : TapOf[q] = TapOf[p] => BridgeOf[q] = None

\* A running VM has the network its plan asked for.
RunningIsAttached ==
  \A p \in Procs : (SoleUser(p) /\ at[p] = "running") =>
    Present(TapOf[p]) /\ MyLink(p).master = BridgeOf[p] /\ MyLink(p).up
=============================================================================
