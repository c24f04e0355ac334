-------------------------- MODULE DirectBootProofs --------------------------
(***************************************************************************)
(* What DirectBoot promises holds for every request, every host and every  *)
(* kernel that KernelAssumption allows.                                    *)
(*                                                                         *)
(* None of the properties is inductive: each speaks of the VM that runs,   *)
(* and follows from what the stages before have left.  Boots says, stage   *)
(* by stage, what that is.  Its one idea is that the structures below      *)
(* 1 MiB are pairwise disjoint and the kernel is above them, so that no    *)
(* write damages anything (WrittenApart) and memory only grows.            *)
(***************************************************************************)
EXTENDS DirectBoot, TLAPS

Sized == {"start", "memory", "kvm", "vm", "chip", "ram"}   \* no RAM yet
Bare == Sized \cup {"vcpus"}                               \* no vCPU yet
Loaded == {"tables", "registers", "zeropage", "mptable", "bus", "running"}

Tables == {Gdt, Pml4, Pdpt, Pd}

\* What memory holds at each stage.
Contents ==
  /\ at \in Bare \cup {"kernel"} => memory = {}
  /\ at = "tables" => memory = Segments(kernel)
  /\ at \in {"registers", "zeropage"} => memory = Segments(kernel) \cup Tables
  /\ at = "mptable" =>
       memory = Segments(kernel) \cup Tables \cup {Cmdline(request.disk), ZeroPage}
  /\ at \in {"bus", "running"} => memory = Needed

\* What the request, the host and the kernel have been found to be.
Granted ==
  /\ at \notin {"start", "refused"} => Valid(request)
  /\ at \notin {"start", "memory", "refused"} =>
       host.available = Unreadable \/ request.memory <= MemoryCap(host)
  /\ at \notin {"start", "memory", "kvm", "refused", "failed"} =>
       request.vcpus <= host.vcpus
  /\ at \in Loaded => kernel # NoKernel /\ \A e \in Segments(kernel) : InRam(e, ram)

\* What the VM has been given.
Given ==
  /\ at \in Sized \cup {"refused"} => ram = 0
  /\ at \in Bare \cup {"refused"} => cpus = {}
  /\ at \in Loaded \cup {"vcpus", "kernel"} => ram = request.memory
  /\ at \in Loaded \cup {"kernel"} => cpus = 0..(request.vcpus - 1)
  /\ at = "failed" => /\ ram \in {0, request.memory}
                      /\ cpus \in {{}, 0..(request.vcpus - 1)}
                      /\ cpus # {} => request.vcpus <= host.vcpus
  /\ at \in {"zeropage", "mptable", "bus", "running"} => ready = cpus
  /\ at \in {"mptable", "bus", "running"} =>
       e820 = [low |-> EbdaStart, high |-> ram - 1]
  /\ (at \in {"bus", "running"} /\ request.vcpus > 1) =>
       mp = [cpus |-> [i \in 0..(request.vcpus - 1) |-> i % 256],
             ioapic |-> request.vcpus % 256]

\* What KVM has been asked for.
Asked ==
  /\ at \in Loaded \cup {"chip", "ram", "vcpus", "kernel"} => "tss" \in vm
  /\ at \in Loaded \cup {"ram", "vcpus", "kernel"} => "irqchip" \in vm
  /\ cpus # {} \/ disk => "irqchip" \in vm
  /\ at # "failed" /\ disk => at = "running"

Boots == TypeOK /\ Contents /\ Granted /\ Given /\ Asked

-----------------------------------------------------------------------------
(***************************************************************************)
(* Guest memory.                                                           *)
(***************************************************************************)

\* A write beside everything that is in memory damages nothing.
LEMMA WrittenApart ==
  ASSUME NEW m, NEW w, \A e \in m : ~ Overlap(e, w)
  PROVE  Written(m, w) = m \cup {w}
  BY DEF Written

\* The kernel is above 1 MiB, each of its segments where the image says.
LEMMA KernelIsHigh ==
  ASSUME NEW k \in Kernels \ {NoKernel}, NEW e \in Segments(k)
  PROVE  /\ e.lo \in Nat /\ e.hi \in Nat /\ MiB <= e.lo /\ e.lo < e.hi
         /\ e.what = "kernel"
  <1>1. PICK s \in k.segments : e = Region("kernel", s.lo, s.hi - s.lo)
    BY DEF Segments
  <1>2. s.lo \in Nat /\ s.hi \in Nat /\ MiB <= s.lo /\ s.lo < s.hi
    BY KernelAssumption
  <1>3. e.lo = s.lo /\ e.hi = s.lo + (s.hi - s.lo) /\ e.what = "kernel"
    BY <1>1 DEF Region
  <1> QED BY <1>2, <1>3

\* Some segment holds the entry point, in the GiB that is mapped.
LEMMA EntryIsLoaded ==
  ASSUME NEW k \in Kernels \ {NoKernel}
  PROVE  \E e \in Segments(k) : e.lo <= k.entry /\ k.entry < e.hi /\ e.hi <= 1024 * MiB
  <1>1. PICK s \in k.segments : s.lo <= k.entry /\ k.entry < s.hi /\ s.hi <= 1024 * MiB
    BY KernelAssumption
  <1>2. s.lo \in Nat /\ s.hi \in Nat
    BY KernelAssumption
  <1> DEFINE e == Region("kernel", s.lo, s.hi - s.lo)
  <1>3. e \in Segments(k)
    BY DEF Segments
  <1>4. e.lo = s.lo /\ e.hi = s.hi
    BY <1>2 DEF Region
  <1> QED BY <1>1, <1>3, <1>4

\* The structures of a request that is granted are below 1 MiB.
Low(r) == Tables \cup {Cmdline(r.disk), ZeroPage, MpPointer, MpConfig(r.vcpus)}

LEMMA StructuresAreLow ==
  ASSUME NEW r \in Requests, Valid(r), NEW e \in Low(r)
  PROVE  /\ e.lo \in Nat /\ e.hi \in Nat /\ e.lo < e.hi /\ e.hi <= MiB
         /\ ~ Overlap(e, Idt)
         /\ e.what \in {"mp", "mpconfig"} => EbdaStart <= e.lo
  <1>1. r.vcpus \in Nat /\ 1 <= r.vcpus /\ r.vcpus <= 255 /\ r.disk \in BOOLEAN
    BY RequestAssumption DEF Valid, MaxVcpus
  <1>2. CASE e \in Tables \cup {ZeroPage, MpPointer}
    BY <1>2 DEF Tables, Gdt, Pml4, Pdpt, Pd, ZeroPage, MpPointer, Region, Overlap,
                Idt, MiB, EbdaStart
  <1>3. CASE e = Cmdline(r.disk)
    BY <1>1, <1>3 DEF Cmdline, Region, Overlap, Idt, MiB, EbdaStart
  <1>4. CASE e = MpConfig(r.vcpus)
    BY <1>1, <1>4 DEF MpConfig, ConfigTableLength, Region, Overlap, Idt, MiB, EbdaStart
  <1> QED BY <1>2, <1>3, <1>4 DEF Low

\* So they fit in the smallest RAM, and the kernel is clear of them.
LEMMA LowFits ==
  ASSUME NEW r \in Requests, Valid(r), NEW e \in Low(r), NEW mb \in Nat, 8 <= mb
  PROVE  InRam(e, mb)
  <1>1. e.hi \in Nat /\ e.hi <= MiB
    BY StructuresAreLow
  <1> QED BY <1>1 DEF InRam, MiB

LEMMA KernelIsClear ==
  ASSUME NEW k \in Kernels \ {NoKernel}, NEW e \in Segments(k),
         NEW r \in Requests, Valid(r), NEW w \in Low(r)
  PROVE  ~ Overlap(e, w)
  <1>1. e.lo \in Nat /\ MiB <= e.lo
    BY KernelIsHigh
  <1>2. w.hi \in Nat /\ w.hi <= MiB
    BY StructuresAreLow
  <1> QED BY <1>1, <1>2 DEF Overlap, MiB

\* Below 1 MiB, no two structures overlap.
LEMMA LowIsApart ==
  ASSUME NEW r \in Requests, Valid(r), NEW a \in Low(r), NEW b \in Low(r), a.what # b.what
  PROVE  ~ Overlap(a, b)
  <1>1. r.vcpus \in Nat /\ 1 <= r.vcpus /\ r.vcpus <= 255 /\ r.disk \in BOOLEAN
    BY RequestAssumption DEF Valid, MaxVcpus
  <1>2. /\ Cmdline(r.disk).lo = 131072 /\ Cmdline(r.disk).hi \in Nat
        /\ Cmdline(r.disk).hi <= 131300
        /\ Cmdline(r.disk).what = "cmdline"
    BY <1>1 DEF Cmdline, Region
  <1>3. /\ MpConfig(r.vcpus).lo = 983056 /\ MpConfig(r.vcpus).hi \in Nat
        /\ MpConfig(r.vcpus).what = "mpconfig"
    BY <1>1 DEF MpConfig, ConfigTableLength, Region
  <1> QED BY <1>2, <1>3 DEF Low, Tables, Gdt, Pml4, Pdpt, Pd, ZeroPage, MpPointer,
             Region, Overlap

\* Together: a structure damages neither the kernel nor the others.
LEMMA NothingIsDamaged ==
  ASSUME NEW r \in Requests, Valid(r), NEW k \in Kernels \ {NoKernel},
         NEW m, m \subseteq Segments(k) \cup Low(r),
         NEW w \in Low(r), \A e \in m : e.what # w.what
  PROVE  Written(m, w) = m \cup {w}
  <1>1. \A e \in m : ~ Overlap(e, w)
    BY KernelIsClear, LowIsApart
  <1> QED BY <1>1, WrittenApart

-----------------------------------------------------------------------------
(***************************************************************************)
(* The inductive invariant.                                                *)
(***************************************************************************)
LEMMA BootsInit == Init => Boots
  <1> SUFFICES ASSUME Init PROVE Boots
    OBVIOUS
  <1>1. ram <= MaxMemory
    BY DEF Init, MaxMemory
  <1>2. TypeOK
    BY <1>1 DEF Init, TypeOK, Stages
  <1>3. Contents /\ Granted
    BY DEF Init, Contents, Granted, Sized, Bare, Loaded
  <1>4. Given /\ Asked
    BY DEF Init, Given, Asked, Sized, Bare, Loaded
  <1> QED BY <1>2, <1>3, <1>4 DEF Boots

\* A granted request is within the limits.
LEMMA GrantedIsBounded ==
  ASSUME NEW r \in Requests, Valid(r)
  PROVE  /\ r.vcpus \in Nat /\ 1 <= r.vcpus /\ r.vcpus <= 255
         /\ r.memory \in Nat /\ 8 <= r.memory /\ r.memory <= MaxMemory
         /\ r.disk \in BOOLEAN
  BY RequestAssumption DEF Valid, MaxVcpus, MinMemory

\* The stages that write no memory and give nothing.
LEMMA SizingKeepsBoots ==
  ASSUME Boots, Validate \/ CheckMemory \/ OpenKvm
  PROVE  Boots'
  <1> USE RequestAssumption
  <1>1. host.vcpus \in Nat /\ request.vcpus \in Nat
    BY DEF Boots, TypeOK
  <1>2. CASE Validate
    BY <1>2 DEF Validate, To, inputs, Boots, TypeOK, Contents, Granted, Given, Asked,
                Stages, Sized, Bare, Loaded, Valid
  <1>3. CASE CheckMemory
    <2>1. at = "memory" /\ at' \in {"refused", "kvm"}
      BY <1>3 DEF CheckMemory, To
    <2>2. TypeOK' /\ Contents'
      BY <1>3, <2>1 DEF CheckMemory, To, inputs, Boots, TypeOK, Contents, Stages, Sized,
                        Bare
    <2>3. at' = "kvm" => host.available = Unreadable \/ ~ request.memory > MemoryCap(host)
      BY <1>3 DEF CheckMemory, To
    <2>4. host.available # Unreadable => MemoryCap(host) \in Nat /\ request.memory \in Nat
      BY DEF Boots, TypeOK, MemoryCap, Lesser, HostReserve, MaxMemory
    <2>5. Granted'
      BY <1>3, <2>1, <2>3, <2>4
      DEF CheckMemory, To, inputs, Boots, Granted, Loaded, Valid, MemoryCap
    <2>6. Given' /\ Asked'
      BY <1>3, <2>1 DEF CheckMemory, To, inputs, Boots, Given, Asked, Sized, Bare, Loaded
    <2> QED BY <2>2, <2>5, <2>6 DEF Boots
  <1>4. CASE OpenKvm
    <2>1. at' = "vm" => request.vcpus <= host.vcpus
      BY <1>1, <1>4 DEF OpenKvm, To, VcpuCap, Lesser, MaxVcpus
    <2> QED BY <1>4, <2>1 DEF OpenKvm, To, inputs, Boots, TypeOK, Contents, Granted,
                Given, Asked, Stages, Sized, Bare, Loaded, Valid
  <1> QED BY <1>2, <1>3, <1>4

\* The stages that ask KVM for the VM and its parts.
LEMMA BuildingKeepsBoots ==
  ASSUME Boots, CreateVm \/ CreateIrqChip \/ RegisterRam \/ CreateVcpus
  PROVE  Boots'
  <1>1. request \in Requests /\ (at \notin {"start", "refused"} => Valid(request))
    BY DEF Boots, TypeOK, Granted
  <1>2. CASE CreateVm
    BY <1>2 DEF CreateVm, To, inputs, Boots, TypeOK, Contents, Granted, Given, Asked,
                Stages, Sized, Bare, Loaded, Valid
  <1>3. CASE CreateIrqChip
    BY <1>3 DEF CreateIrqChip, To, inputs, Boots, TypeOK, Contents, Granted, Given,
                Asked, Stages, Sized, Bare, Loaded, Valid
  <1>4. CASE RegisterRam
    <2>1. request.memory \in Nat /\ request.memory <= MaxMemory
      BY <1>1, <1>4, GrantedIsBounded DEF RegisterRam
    <2> QED BY <1>4, <2>1 DEF RegisterRam, To, inputs, Boots, TypeOK, Contents, Granted,
                Given, Asked, Stages, Sized, Bare, Loaded, Valid
  <1>5. CASE CreateVcpus
    <2>1. request.vcpus \in Nat /\ 1 <= request.vcpus /\ request.vcpus <= 255
      BY <1>1, <1>5, GrantedIsBounded DEF CreateVcpus
    <2>2. ready' \subseteq cpus' /\ \A i \in cpus' : i \in Nat /\ i < MaxVcpus
      BY <1>5, <2>1 DEF CreateVcpus, MaxVcpus, Boots, TypeOK, Given, Bare
    <2> QED BY <1>5, <2>2 DEF CreateVcpus, To, inputs, Boots, TypeOK, Contents, Granted,
                Given, Asked, Stages, Sized, Bare, Loaded, Valid
  <1> QED BY <1>2, <1>3, <1>4, <1>5

\* The stages that fill guest memory and set the vCPUs.
LEMMA FillingKeepsBoots ==
  ASSUME Boots,
         LoadKernel \/ SetupBootMemory \/ SetupVcpus \/ SetupZeroPage \/ SetupMpTable
  PROVE  Boots'
  <1>1. /\ request \in Requests /\ Valid(request)
        /\ request.vcpus \in Nat /\ 1 <= request.vcpus /\ request.vcpus <= 255 
        /\ ram = request.memory /\ ram \in Nat /\ 8 <= ram
    BY GrantedIsBounded
    DEF Boots, TypeOK, Granted, Given, Loaded, LoadKernel, SetupBootMemory, SetupVcpus,
        SetupZeroPage, SetupMpTable
  <1>2. \A e \in Low(request) : InRam(e, ram)
    BY <1>1, LowFits
  <1>3. CASE LoadKernel
    BY <1>3 DEF LoadKernel, To, inputs, Boots, TypeOK, Contents, Granted, Given, Asked,
                Stages, Sized, Bare, Loaded, Valid
  <1>4. CASE SetupVcpus
    BY <1>4 DEF SetupVcpus, To, inputs, Boots, TypeOK, Contents, Granted, Given, Asked,
                Stages, Sized, Bare, Loaded, Valid
  <1> DEFINE K == Segments(kernel)
  <1>k. at \in Loaded => kernel \in Kernels \ {NoKernel} /\ \A e \in K : e.what = "kernel"
    BY KernelIsHigh DEF Boots, TypeOK, Granted
  <1>w. /\ Gdt.what = "gdt" /\ Pml4.what = "pml4" /\ Pdpt.what = "pdpt" /\ Pd.what = "pd"
        /\ ZeroPage.what = "zeropage" /\ Cmdline(request.disk).what = "cmdline"
        /\ MpPointer.what = "mp" /\ MpConfig(request.vcpus).what = "mpconfig"
    BY DEF Gdt, Pml4, Pdpt, Pd, ZeroPage, Cmdline, MpPointer, MpConfig, Region
  <1>l. {Gdt, Pml4, Pdpt, Pd, ZeroPage, Cmdline(request.disk), MpPointer,
         MpConfig(request.vcpus)} \subseteq Low(request)
    BY DEF Low, Tables
  <1>5. CASE SetupBootMemory
    <2>k. at = "tables" /\ kernel \in Kernels \ {NoKernel} /\ memory = K
      BY <1>5, <1>k DEF SetupBootMemory, Boots, Contents, Loaded
    <2>1. Written(memory, Gdt) = K \cup {Gdt}
      BY <1>1, <1>k, <1>w, <1>l, <2>k, NothingIsDamaged DEF Loaded
    <2>2. Written(K \cup {Gdt}, Pml4) = K \cup {Gdt, Pml4}
      BY <1>1, <1>k, <1>w, <1>l, <2>k, NothingIsDamaged DEF Loaded
    <2>3. Written(K \cup {Gdt, Pml4}, Pdpt) = K \cup {Gdt, Pml4, Pdpt}
      BY <1>1, <1>k, <1>w, <1>l, <2>k, NothingIsDamaged DEF Loaded
    <2>4. Written(K \cup {Gdt, Pml4, Pdpt}, Pd) = K \cup Tables
      BY <1>1, <1>k, <1>w, <1>l, <2>k, NothingIsDamaged DEF Loaded, Tables
    <2>5. memory' = K \cup Tables
      BY <1>5, <2>1, <2>2, <2>3, <2>4 DEF SetupBootMemory
    <2>6. \A e \in memory' : InRam(e, ram)
      BY <1>2, <2>5, <2>k DEF Boots, Granted, Loaded, Low
    <2> QED BY <1>5, <2>5, <2>6 DEF SetupBootMemory, To, inputs, Boots, TypeOK, Contents,
                Granted, Given, Asked, Stages, Sized, Bare, Loaded, Valid
  <1>6. CASE SetupZeroPage
    <2>k. /\ at = "zeropage" /\ kernel \in Kernels \ {NoKernel}
          /\ memory = K \cup Tables
      BY <1>6, <1>k DEF SetupZeroPage, Boots, Contents, Loaded
    <2>1. Written(memory, Cmdline(request.disk)) = K \cup Tables \cup {Cmdline(request.disk)}
      BY <1>1, <1>k, <1>w, <1>l, <2>k, NothingIsDamaged DEF Loaded, Tables
    <2>2. Written(K \cup Tables \cup {Cmdline(request.disk)}, ZeroPage)
            = K \cup Tables \cup {Cmdline(request.disk), ZeroPage}
      BY <1>1, <1>k, <1>w, <1>l, <2>k, NothingIsDamaged DEF Loaded, Tables
    <2>3. memory' = K \cup Tables \cup {Cmdline(request.disk), ZeroPage}
      BY <1>6, <2>1, <2>2 DEF SetupZeroPage
    <2>4. \A e \in memory' : InRam(e, ram)
      BY <1>2, <2>3, <2>k DEF Boots, Granted, Loaded, Low
    <2>5. e820' = [low |-> EbdaStart, high |-> ram - 1]
      BY <1>1, <1>6 DEF SetupZeroPage
    <2> QED BY <1>6, <2>3, <2>4, <2>5 DEF SetupZeroPage, To, inputs, Boots, TypeOK,
                Contents, Granted, Given, Asked, Stages, Sized, Bare, Loaded, Valid
  <1>7. CASE SetupMpTable
    <2> DEFINE B == K \cup Tables \cup {Cmdline(request.disk), ZeroPage}
    <2>k. at = "mptable" /\ kernel \in Kernels \ {NoKernel} /\ memory = B
      BY <1>7, <1>k DEF SetupMpTable, Boots, Contents, Loaded
    <2>1. Written(memory, MpPointer) = B \cup {MpPointer}
      BY <1>1, <1>k, <1>w, <1>l, <2>k, NothingIsDamaged DEF Loaded, Tables
    <2>2. Written(B \cup {MpPointer}, MpConfig(request.vcpus))
            = B \cup {MpPointer, MpConfig(request.vcpus)}
      BY <1>1, <1>k, <1>w, <1>l, <2>k, NothingIsDamaged DEF Loaded, Tables
    <2>3. memory' = IF request.vcpus > 1 THEN B \cup {MpPointer, MpConfig(request.vcpus)}
                                         ELSE B
      BY <1>7, <2>k, <2>1, <2>2 DEF SetupMpTable
    <2>4. memory' = Needed'
      BY <1>7, <2>3 DEF SetupMpTable, To, inputs, Needed, Tables
    <2>5. \A e \in memory' : InRam(e, ram)
      BY <1>2, <1>l, <2>3, <2>k DEF Boots, Granted, Loaded, Low
    <2>6. (request.vcpus > 1) =>
            mp' = [cpus |-> [i \in 0..(request.vcpus - 1) |-> i % 256],
                   ioapic |-> request.vcpus % 256]
      BY <1>7 DEF SetupMpTable
    <2>7. Contents'
      BY <1>7, <2>4 DEF SetupMpTable, To, Contents, Bare, Sized
    <2>8. TypeOK'
      BY <1>7, <2>5 DEF SetupMpTable, To, inputs, Boots, TypeOK, Stages
    <2>9. Granted'
      BY <1>7, <2>k DEF SetupMpTable, To, inputs, Boots, Granted, Loaded
    <2>10. Given'
      BY <1>7, <2>6 DEF SetupMpTable, To, inputs, Boots, Given, Loaded, Bare, Sized
    <2>11. Asked'
      BY <1>7 DEF SetupMpTable, To, inputs, Boots, Asked, Loaded
    <2> QED BY <2>7, <2>8, <2>9, <2>10, <2>11 DEF Boots
  <1> QED BY <1>3, <1>4, <1>5, <1>6, <1>7

\* The disk joins the bus, or the pipeline stops where it is.
LEMMA EndingKeepsBoots ==
  ASSUME Boots, AttachDisk \/ Fail
  PROVE  Boots'
  <1>1. CASE AttachDisk
    <2>1. Contents'
      BY <1>1 DEF AttachDisk, To, inputs, Boots, Contents, Needed, Bare, Sized
    <2>2. TypeOK'
      BY <1>1 DEF AttachDisk, To, inputs, Boots, TypeOK, Stages
    <2>3. Granted'
      BY <1>1 DEF AttachDisk, To, inputs, Boots, Granted, Loaded
    <2>4. Given'
      BY <1>1 DEF AttachDisk, To, inputs, Boots, Given, Loaded, Bare, Sized
    <2>5. Asked'
      BY <1>1 DEF AttachDisk, To, inputs, Boots, Asked, Loaded
    <2> QED BY <2>1, <2>2, <2>3, <2>4, <2>5 DEF Boots
  <1>2. CASE Fail
    <2>1. Contents'
      BY <1>2 DEF Fail, To, inputs, Boots, Contents, Bare, Sized
    <2>2. TypeOK'
      BY <1>2 DEF Fail, To, inputs, Boots, TypeOK, Stages
    <2>3. Granted'
      BY <1>2 DEF Fail, To, inputs, Boots, TypeOK, Stages, Granted, Loaded
    <2>4. Given'
      BY <1>2 DEF Fail, To, inputs, Boots, TypeOK, Stages, Granted, Given, Loaded, Bare,
                  Sized
    <2>5. Asked'
      BY <1>2 DEF Fail, To, inputs, Boots, Asked, Loaded
    <2> QED BY <2>1, <2>2, <2>3, <2>4, <2>5 DEF Boots
  <1> QED BY <1>1, <1>2

LEMMA BootsInvariant == Spec => []Boots
  <1>1. Boots /\ [Next]_vars => Boots'
    <2>1. CASE Next
      BY <2>1, SizingKeepsBoots, BuildingKeepsBoots, FillingKeepsBoots, EndingKeepsBoots
      DEF Next
    <2>2. CASE UNCHANGED vars
      BY <2>2 DEF vars, inputs, Boots, TypeOK, Contents, Granted, Given, Asked, Needed
    <2> QED BY <2>1, <2>2
  <1> QED BY BootsInit, <1>1, PTL DEF Spec

-----------------------------------------------------------------------------
(***************************************************************************)
(* The theorems.                                                           *)
(***************************************************************************)

\* Every write into guest memory is within the RAM that KVM was given.
THEOREM DirectBootType == Spec => []TypeOK
  BY BootsInvariant, PTL DEF Boots

\* Whatever the request, the host and the kernel, the guest finds intact all
\* that the stages of provision_kvm_machine_native have written for it.
THEOREM GuestIsBootable == Spec => []GuestFindsItsBoot
  <1>1. ASSUME Boots, at = "running" PROVE GuestFindsItsBoot
    <2>1. /\ request \in Requests /\ Valid(request) /\ memory = Needed
          /\ kernel \in Kernels \ {NoKernel} /\ ready = cpus
          /\ cpus = 0..(request.vcpus - 1)
      BY <1>1 DEF Boots, TypeOK, Contents, Granted, Given, Loaded
    <2>2. 0 \in cpus
      BY <2>1, GrantedIsBounded
    <2>3. ASSUME NEW e \in memory PROVE ~ Overlap(e, Idt)
      <3>1. CASE e \in Segments(kernel)
        <4>1. e.lo \in Nat /\ MiB <= e.lo
          BY <2>1, <3>1, KernelIsHigh
        <4> QED BY <4>1 DEF Overlap, Idt, Region, MiB
      <3>2. CASE e \in Low(request)
        BY <2>1, <3>2, StructuresAreLow
      <3> QED BY <2>1, <2>3, <3>1, <3>2 DEF Needed, Low, Tables
    <2>4. \E e \in Segments(kernel) :
            e.lo <= kernel.entry /\ kernel.entry < e.hi /\ e.hi <= 1024 * MiB
      BY <2>1, EntryIsLoaded
    <2> QED BY <2>1, <2>2, <2>3, <2>4 DEF GuestFindsItsBoot, Needed
  <1>2. Boots => GuestFindsItsBoot
    BY <1>1 DEF GuestFindsItsBoot
  <1> QED BY BootsInvariant, <1>2, PTL

\* The e820 map declares RAM only, and keeps the kernel off the MP table.
THEOREM MapIsAlwaysHonest == Spec => []MapIsHonest
  <1>1. ASSUME Boots, at = "running" PROVE MapIsHonest
    <2>1. /\ request \in Requests /\ Valid(request) /\ memory = Needed
          /\ kernel \in Kernels \ {NoKernel} /\ ram = request.memory
          /\ e820 = [low |-> EbdaStart, high |-> ram - 1]
      BY <1>1 DEF Boots, TypeOK, Contents, Granted, Given, Loaded
    <2>2. ram \in Nat /\ 8 <= ram
      BY <2>1, GrantedIsBounded
    <2>3. (e820.low + MiB - 1) \div MiB <= ram /\ 1 + e820.high <= ram
      BY <2>1, <2>2 DEF EbdaStart, MiB
    <2>4. ASSUME NEW e \in memory, e.what \in {"mp", "mpconfig"}
          PROVE  e820.low <= e.lo /\ e.hi <= MiB
      <3>1. e \notin Segments(kernel)
        BY <2>1, <2>4, KernelIsHigh
      <3>2. e \in Low(request)
        BY <2>1, <3>1 DEF Needed, Low, Tables
      <3> QED BY <2>1, <2>4, <3>2, StructuresAreLow
    <2> QED BY <2>3, <2>4 DEF MapIsHonest
  <1>2. Boots => MapIsHonest
    BY <1>1 DEF MapIsHonest
  <1> QED BY BootsInvariant, <1>2, PTL

\* Every vCPU of a VM with several is announced to the guest, under an id of
\* its own, by a table whose length fits its field.
THEOREM CpusAreAnnounced == Spec => []CpusAnnounced
  <1>1. ASSUME Boots, at = "running", cpus # {0} PROVE CpusAnnounced
    <2>1. /\ request.vcpus \in Nat /\ 1 <= request.vcpus /\ request.vcpus <= 255
          /\ cpus = 0..(request.vcpus - 1)
      BY <1>1, GrantedIsBounded DEF Boots, TypeOK, Granted, Given, Loaded
    <2>2. request.vcpus > 1
      BY <1>1, <2>1
    <2>3. mp = [cpus |-> [i \in 0..(request.vcpus - 1) |-> i % 256],
                ioapic |-> request.vcpus % 256]
      BY <1>1, <2>2 DEF Boots, Given
    <2>4. \A i \in cpus : mp.cpus[i] = i /\ i < request.vcpus
      BY <2>1, <2>3
    <2>5. mp.ioapic = request.vcpus /\ DOMAIN mp.cpus = cpus
      BY <2>1, <2>3
    <2>6. MpConfig(request.vcpus).hi - MpConfig(request.vcpus).lo < 65536
      BY <2>1 DEF MpConfig, ConfigTableLength, Region
    <2>7. \A i \in cpus : mp.cpus[i] # mp.ioapic
      BY <2>1, <2>4, <2>5
    <2> QED BY <2>4, <2>5, <2>6, <2>7 DEF CpusAnnounced
  <1>2. Boots => CpusAnnounced
    BY <1>1 DEF CpusAnnounced
  <1> QED BY BootsInvariant, <1>2, PTL

\* A VM is given neither memory of the host's reserve, as far as the process
\* could see, nor more vCPUs than KVM said it runs.
THEOREM GrantIsWithinHost == Spec => []WithinHost
  <1>1. ASSUME Boots PROVE WithinHost
    <2>1. /\ request \in Requests /\ host.vcpus \in Nat
          /\ host.available \in Nat \cup {Unreadable}
      BY <1>1, RequestAssumption DEF Boots, TypeOK
    <2>2. ASSUME ram # 0, host.available # Unreadable
          PROVE  ram + HostReserve <= host.available
      <3>0. at \in Stages
        BY <1>1 DEF Boots, TypeOK
      <3>1. ram = request.memory /\ at \notin Sized \cup {"refused"}
        BY <1>1, <2>2, <3>0 DEF Boots, Given, Stages, Sized, Loaded
      <3>2. request.memory <= MemoryCap(host) /\ Valid(request)
        BY <1>1, <2>2, <3>0, <3>1 DEF Boots, Granted, Sized
      <3>3. request.memory \in Nat /\ 8 <= request.memory
        BY <2>1, <3>2, GrantedIsBounded
      <3>4. host.available \in Nat
        BY <2>1, <2>2
      <3>5. request.memory <= MemoryCap(host)
        BY <3>2
      <3> QED BY <3>1, <3>3, <3>4, <3>5 DEF MemoryCap, Lesser, HostReserve, MaxMemory
    <2>3. ASSUME NEW i \in cpus PROVE i < host.vcpus
      <3>1. at \in Stages
        BY <1>1 DEF Boots, TypeOK
      <3>2. Valid(request) /\ request.vcpus <= host.vcpus /\ cpus = 0..(request.vcpus - 1)
        BY <1>1, <2>3, <3>1 DEF Boots, Granted, Given, Stages, Sized, Bare, Loaded
      <3>3. request.vcpus \in Nat /\ 1 <= request.vcpus /\ request.vcpus <= 255
        BY <2>1, <3>2, GrantedIsBounded
      <3> QED BY <2>1, <2>3, <3>2, <3>3
    <2> QED BY <2>2, <2>3 DEF WithinHost
  <1> QED BY BootsInvariant, <1>1, PTL

\* KVM is asked for everything in the order it demands.
THEOREM KvmIsAskedInOrder == Spec => []KvmOrder
  <1>1. ASSUME Boots PROVE KvmOrder
    <2>1. ASSUME at = "running" PROVE "tss" \in vm /\ ram # 0 /\ cpus # {}
      <3>1. /\ request.vcpus \in Nat /\ 1 <= request.vcpus /\ request.vcpus <= 255
            /\ request.memory \in Nat /\ 8 <= request.memory
        BY <1>1, <2>1, GrantedIsBounded DEF Boots, TypeOK, Granted
      <3>2. 0 \in 0..(request.vcpus - 1)
        BY <3>1
      <3> QED BY <1>1, <2>1, <3>1, <3>2 DEF Boots, Given, Asked, Loaded
    <2> QED BY <1>1, <2>1 DEF Boots, Asked, KvmOrder
  <1> QED BY BootsInvariant, <1>1, PTL
=============================================================================
