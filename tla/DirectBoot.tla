----------------------------- MODULE DirectBoot -----------------------------
(***************************************************************************)
(* Provisioning, seen from the guest: the stages of                        *)
(* provision_kvm_machine_native that size the VM, build it with KVM and    *)
(* write what the kernel needs into its memory, up to the moment its vCPUs *)
(* run.  (The TAP stage between the vCPUs and the kernel is in HostTap,    *)
(* the run itself in VcpuRun.)                                             *)
(*                                                                         *)
(* RAM starts at guest address 0 and is counted in MiB.  The contents of   *)
(* guest memory are the structures that are intact in it: a write leaves   *)
(* its own and damages those it overlaps.  Their addresses are in bytes;   *)
(* fresh memory is zero, so a page table with one entry is a whole page.   *)
(***************************************************************************)
EXTENDS Naturals

CONSTANTS Requests,   \* [vcpus, memory, disk], as asked
          Hosts,      \* [vcpus, api, available]: what KVM and /proc/meminfo say
          Kernels,    \* [entry, segments]: ELF images, segments of [lo, hi]
          Unreadable, \* no MemAvailable
          NoKernel    \* no file at kernel_path

MiB == 1048576
\* MAX_VCPUS, MIN_MEMORY_MB, MAX_MEMORY_MB, HOST_RESERVE_MB.
MaxVcpus == 255
MinMemory == 8
MaxMemory == 1048576
HostReserve == 256

ASSUME RequestAssumption ==
  /\ \A r \in Requests : r.vcpus \in Nat /\ r.memory \in Nat /\ r.disk \in BOOLEAN
  /\ \A h \in Hosts : /\ h.vcpus \in Nat /\ h.api \in BOOLEAN
                      /\ h.available \in Nat \cup {Unreadable}
  /\ Unreadable \notin Nat

\* The kernels the operator may supply.  A vmlinux is linked at or above
\* 1 MiB and within the first GiB; no code checks that it is.
ASSUME KernelAssumption ==
  \A k \in Kernels \ {NoKernel} :
    /\ \A s \in k.segments :
         s.lo \in Nat /\ s.hi \in Nat /\ MiB <= s.lo /\ s.lo < s.hi
    /\ \E s \in k.segments : s.lo <= k.entry /\ k.entry < s.hi /\ s.hi <= 1024 * MiB

VARIABLES
  request, host, kernel,  \* the inputs
  at,        \* the stage
  vm,        \* what the VM has been given: of {"tss", "irqchip", "irqfd"}
  ram,       \* MiB registered as memory slot 0
  cpus,      \* the vCPUs created
  ready,     \* those with registers and local APIC set
  memory,    \* the structures intact in guest memory
  e820,      \* the RAM the zero page declares: below the EBDA, and above 1 MiB
  mp,        \* the APIC ids the MP table announces: its processors', its I/O APIC's
  disk       \* the virtio-blk window is on the MMIO bus

inputs == <<request, host, kernel>>
vars == <<inputs, at, vm, ram, cpus, ready, memory, e820, mp, disk>>

None == "none"

(***************************************************************************)
(* Guest memory.                                                           *)
(***************************************************************************)
Region(w, lo, len) == [what |-> w, lo |-> lo, hi |-> lo + len]
Overlap(a, b) == a.lo < b.hi /\ b.lo < a.hi
Written(m, w) == {e \in m : ~ Overlap(e, w)} \cup {w}
\* The region ends inside RAM.
InRam(e, mb) == (e.hi + MiB - 1) \div MiB <= mb

\* boot.rs: 0x500, 0x7000, 0x9000, 0xa000, 0xb000, 0x20000.
Gdt == Region("gdt", 1280, 24)
Idt == Region("idt", 1312, 8)
ZeroPage == Region("zeropage", 28672, 4096)
Pml4 == Region("pml4", 36864, 4096)
Pdpt == Region("pdpt", 40960, 4096)

\* The directory where the PDPT already is.
MutPd == Region("pd", 40960, 4096)

Pd == Region("pd", 45056, 4096)

Cmdline(hasDisk) == Region("cmdline", 131072, (IF hasDisk THEN 137 ELSE 120) + 1)
EbdaStart == 654336

\* mptable.rs: 0xf0000, and config_table_length.
MpPointer == Region("mp", 983040, 16)
ConfigTableLength(n) == 44 + n * 20 + 8 + 8 + 16 * 8 + 2 * 8
MpConfig(n) == Region("mpconfig", 983056, ConfigTableLength(n))

Segments(k) == {Region("kernel", s.lo, s.hi - s.lo) : s \in k.segments}

(***************************************************************************)
(* Sizing.                                                                 *)
(***************************************************************************)
Lesser(a, b) == IF a < b THEN a ELSE b

\* validate_spec.
Valid(r) ==
  /\ 1 <= r.vcpus /\ r.vcpus <= MaxVcpus
  /\ MinMemory <= r.memory /\ r.memory <= MaxMemory

VcpuCap(h) == Lesser(h.vcpus, MaxVcpus)

\* wrapping_sub: what is left is close to 2^32.
MutMemoryCap(h) ==
  IF h.available >= HostReserve THEN Lesser(h.available - HostReserve, MaxMemory)
  ELSE MaxMemory

MemoryCap(h) ==
  IF h.available >= HostReserve THEN Lesser(h.available - HostReserve, MaxMemory)
  ELSE 0

(***************************************************************************)
(* The stages, in order.  Each may fail; what a failed pipeline leaves     *)
(* behind is closed with its process's handles.                            *)
(***************************************************************************)
To(l) == at' = l /\ UNCHANGED inputs

Validate ==
  /\ at = "start"
  /\ To(IF Valid(request) THEN "memory" ELSE "refused")
  /\ UNCHANGED <<vm, ram, cpus, ready, memory, e820, mp, disk>>

CheckMemory ==
  /\ at = "memory"
  /\ To(IF host.available # Unreadable /\ request.memory > MemoryCap(host)
        THEN "refused" ELSE "kvm")
  /\ UNCHANGED <<vm, ram, cpus, ready, memory, e820, mp, disk>>

OpenKvm ==
  /\ at = "kvm"
  /\ To(IF request.vcpus > VcpuCap(host) \/ ~ host.api THEN "refused" ELSE "vm")
  /\ UNCHANGED <<vm, ram, cpus, ready, memory, e820, mp, disk>>

MutCreateVm ==
  /\ at = "vm" /\ To("ram")
  /\ vm' = {"tss"}
  /\ UNCHANGED <<ram, cpus, ready, memory, e820, mp, disk>>

CreateVm ==
  /\ at = "vm" /\ To("chip")
  /\ vm' = {"tss"}
  /\ UNCHANGED <<ram, cpus, ready, memory, e820, mp, disk>>

CreateIrqChip ==
  /\ at = "chip" /\ To("ram")
  /\ vm' = vm \cup {"irqchip"}
  /\ UNCHANGED <<ram, cpus, ready, memory, e820, mp, disk>>

RegisterRam ==
  /\ at = "ram" /\ To("vcpus")
  /\ ram' = request.memory
  /\ UNCHANGED <<vm, cpus, ready, memory, e820, mp, disk>>

CreateVcpus ==
  /\ at = "vcpus" /\ To("kernel")
  /\ cpus' = 0..(request.vcpus - 1)
  /\ UNCHANGED <<vm, ram, ready, memory, e820, mp, disk>>

MutLoadKernel ==
  /\ at = "kernel" /\ kernel # NoKernel
  /\ To("tables") /\ memory' = Segments(kernel)
  /\ UNCHANGED <<vm, ram, cpus, ready, e820, mp, disk>>

\* An image that is not there, or that RAM has no room for, is an error.
LoadKernel ==
  /\ at = "kernel" /\ kernel # NoKernel
  /\ \A e \in Segments(kernel) : InRam(e, ram)
  /\ To("tables") /\ memory' = Segments(kernel)
  /\ UNCHANGED <<vm, ram, cpus, ready, e820, mp, disk>>

SetupBootMemory ==
  /\ at = "tables" /\ To("registers")
  /\ memory' = Written(Written(Written(Written(memory, Gdt), Pml4), Pdpt), Pd)
  /\ UNCHANGED <<vm, ram, cpus, ready, e820, mp, disk>>

SetupVcpus ==
  /\ at = "registers" /\ To("zeropage")
  /\ ready' = cpus
  /\ UNCHANGED <<vm, ram, cpus, memory, e820, mp, disk>>

MutSetupZeroPage ==
  /\ at = "zeropage" /\ To("mptable")
  /\ memory' = Written(Written(memory, Cmdline(request.disk)), ZeroPage)
  /\ e820' = [low |-> EbdaStart, high |-> ram]
  /\ UNCHANGED <<vm, ram, cpus, ready, mp, disk>>

SetupZeroPage ==
  /\ at = "zeropage" /\ To("mptable")
  /\ memory' = Written(Written(memory, Cmdline(request.disk)), ZeroPage)
  /\ e820' = [low |-> EbdaStart, high |-> IF ram > 1 THEN ram - 1 ELSE 0]
  /\ UNCHANGED <<vm, ram, cpus, ready, mp, disk>>

\* The I/O APIC numbered after the last processor, not above it.
MutSetupMpTable ==
  /\ at = "mptable" /\ To("bus")
  /\ IF request.vcpus > 1
     THEN /\ memory' = Written(Written(memory, MpPointer), MpConfig(request.vcpus))
          /\ mp' = [cpus |-> [i \in 0..(request.vcpus - 1) |-> i % 256],
                    ioapic |-> (request.vcpus - 1) % 256]
     ELSE UNCHANGED <<memory, mp>>
  /\ UNCHANGED <<vm, ram, cpus, ready, e820, disk>>

\* Only a VM with several vCPUs has an MP table.  Ids are u8.
SetupMpTable ==
  /\ at = "mptable" /\ To("bus")
  /\ IF request.vcpus > 1
     THEN /\ memory' = Written(Written(memory, MpPointer), MpConfig(request.vcpus))
          /\ mp' = [cpus |-> [i \in 0..(request.vcpus - 1) |-> i % 256],
                    ioapic |-> request.vcpus % 256]
     ELSE UNCHANGED <<memory, mp>>
  /\ UNCHANGED <<vm, ram, cpus, ready, e820, disk>>

AttachDisk ==
  /\ at = "bus" /\ To("running")
  /\ IF request.disk THEN disk' = TRUE /\ vm' = vm \cup {"irqfd"}
                     ELSE UNCHANGED <<disk, vm>>
  /\ UNCHANGED <<ram, cpus, ready, memory, e820, mp>>

Fail ==
  /\ at \notin {"start", "memory", "running", "refused", "failed"} /\ To("failed")
  /\ UNCHANGED <<vm, ram, cpus, ready, memory, e820, mp, disk>>

Init ==
  /\ request \in Requests /\ host \in Hosts /\ kernel \in Kernels
  /\ at = "start" /\ vm = {} /\ ram = 0 /\ cpus = {} /\ ready = {}
  /\ memory = {} /\ e820 = None /\ mp = None /\ disk = FALSE

Next ==
  \/ Validate \/ CheckMemory \/ OpenKvm \/ CreateVm \/ CreateIrqChip
  \/ RegisterRam \/ CreateVcpus \/ LoadKernel \/ SetupBootMemory \/ SetupVcpus
  \/ SetupZeroPage \/ SetupMpTable \/ AttachDisk \/ Fail

Spec == Init /\ [][Next]_vars

-----------------------------------------------------------------------------
(***************************************************************************)
(* Properties.                                                             *)
(***************************************************************************)
Stages == {"start", "memory", "kvm", "vm", "chip", "ram", "vcpus", "kernel",
           "tables", "registers", "zeropage", "mptable", "bus", "running",
           "refused", "failed"}

\* Every write into guest memory is within RAM.
TypeOK ==
  /\ request \in Requests /\ host \in Hosts /\ kernel \in Kernels
  /\ at \in Stages /\ vm \subseteq {"tss", "irqchip", "irqfd"}
  /\ ram \in Nat /\ ram <= MaxMemory
  /\ ready \subseteq cpus /\ \A i \in cpus : i \in Nat /\ i < MaxVcpus
  /\ disk \in BOOLEAN
  /\ \A e \in memory : InRam(e, ram)

\* All the structures a VM is given.
Needed ==
  {Gdt, Pml4, Pdpt, Pd, ZeroPage, Cmdline(request.disk)} \cup Segments(kernel)
  \cup (IF request.vcpus > 1 THEN {MpPointer, MpConfig(request.vcpus)} ELSE {})

\* A VM that runs finds all it was given: no stage has written over what an
\* earlier one left, whatever the kernel's size, the number of vCPUs and the
\* disk.  GDTR, CR3 and RSI point at the GDT, the PML4 and the zero page, RIP
\* into the kernel; the empty IDT is still zero; and what the first
\* instructions touch is in the GiB that the page tables map.
GuestFindsItsBoot ==
  at = "running" =>
    /\ Needed \subseteq memory
    /\ \A e \in memory : ~ Overlap(e, Idt)
    /\ \E e \in memory : /\ e.lo <= kernel.entry /\ kernel.entry < e.hi
                         /\ e.hi <= 1024 * MiB
    /\ ready = cpus /\ 0 \in cpus

\* The memory map tells the guest the truth: what it declares is RAM, and
\* neither region holds the MP table, which the kernel must not allocate over.
MapIsHonest ==
  at = "running" =>
    /\ (e820.low + MiB - 1) \div MiB <= ram /\ 1 + e820.high <= ram
    /\ \A e \in memory :
         e.what \in {"mp", "mpconfig"} => e820.low <= e.lo /\ e.hi <= MiB

\* The guest is told of every vCPU and of no other: with several of them, the
\* MP table has one id for each, and one for the I/O APIC, all different in
\* the u8 that holds them, and its length fits its u16.
CpusAnnounced ==
  (at = "running" /\ cpus # {0}) =>
    /\ DOMAIN mp.cpus = cpus
    /\ \A i, j \in cpus : mp.cpus[i] = mp.cpus[j] => i = j
    /\ \A i \in cpus : mp.cpus[i] # mp.ioapic
    /\ MpConfig(request.vcpus).hi - MpConfig(request.vcpus).lo < 65536

\* "A VM is never granted memory that would eat into this reserve", as far as
\* one process can tell: what is left of the host's memory when it looked, and
\* its vCPUs, bound what the VM is given.
WithinHost ==
  /\ (ram # 0 /\ host.available # Unreadable) => ram + HostReserve <= host.available
  /\ \A i \in cpus : i < host.vcpus

\* What KVM demands of the order of the calls: the interrupt chip before the
\* first vCPU and the irqfd, and all of it before the VM runs.
KvmOrder ==
  /\ cpus # {} \/ disk => "irqchip" \in vm
  /\ at = "running" => "tss" \in vm /\ ram # 0 /\ cpus # {}

\* What the comment on the MMIO bus says, and what does not hold: a guest that
\* has a disk "finds the device via the virtio_mmio.device= kernel command-line
\* parameter".  An address that a memory slot backs is RAM and never leaves the
\* guest, and VIRTIO_BLK_MMIO_BASE, 0xd0000000, is the end of MiB 3328.
DiskIsReachable == (at = "running" /\ disk) => ram <= 3328
=============================================================================
