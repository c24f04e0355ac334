# ai-vmm in TLA+

Specifications, model-checking runs and proofs for **ai-vmm**, a Rust program that turns a plan for a virtual
machine (written by a language model or posted to an HTTP API) into a running KVM guest: it sizes the VM against
the host, builds the guest's memory image and boot structures, attaches a TAP and a virtio-blk disk, runs one thread
per vCPU, and keeps a ledger of what it started. Line numbers refer to the files under `src/src/`.

To read: start with `Ledger.tla` (one page), then `ControlPlane.tla`, `VcpuRun.tla`, `VirtioBlk.tla`, `HostTap.tla`,
`DirectBoot.tla`, and `ConfigFile.tla`, `AgentLoop.tla`, `Planning.tla` in that order. To check: `tlc -config X.cfg M`
with the pairs of the table under *Runs*, and `tlapm M.tla` for each `*Proofs` module.

## 1. Inventory

| Component | State it keeps | Operations | Talks to |
|---|---|---|---|
| VM ledger, `registry.rs` | `vms.toml`: an ordered list of records (name, plan, lifecycle) | `load_from`, `save_to`, `record`, `forget`, `set_state`, `get` | every process of the host, through the file; no lock |
| Apply path of a worker, `main.rs` | its plan, the stop flag | `run_intent`, `provision_direct`, `finalize_plan`, the review, `apply_plan` (declare, arm Ctrl+C, boot, mark the outcome), `forget_vm` | the agent, the configuration, the ledger, the pipeline, SIGINT |
| Supervisor daemon, `server.rs` | `ApiState`: the settings it loaded, `running` (name to PID) | `plan`, `provision_vm`, a reaper thread per worker, `stop_vm`, `delete_vm`, and read-only handlers | worker processes (spawn, wait, `kill -INT`), the ledger, the agent |
| vCPU run loop, `vmm/run.rs` | the VM-wide stop flag, each thread's place | `run_vcpu_loop`, `drive_vcpu` | KVM, the MMIO bus, the console, the Ctrl+C handler |
| MMIO bus, `vmm/mmio.rs` | the devices behind one mutex | `register`, `read`, `write` | vCPU threads, virtio-blk |
| virtio-blk, `vmm/storage.rs` | queue registers, two ring cursors, `interrupt_status`, the image | register reads and writes, `process_virtqueue`, `process_request`, `service_request` | the guest's driver through guest memory, an irqfd, the image file |
| Provisioning pipeline, `vmm/mod.rs` | what has been built so far | `validate_spec`, memory check, KVM set-up, network, boot, run, `TapGuard` | everything below it |
| Direct kernel boot, `vmm/boot.rs` and MP table, `vmm/mptable.rs` | guest memory | GDT, page tables, zero page with its e820 map, command line, MP pointer and table | the guest |
| Host network, `vmm/network.rs` | host TAP interfaces | `setup_tap_interface` (add, attach, up, roll back), deletion | `ip`, other ai-vmm processes |
| Planning agent, `agent/` | the conversation, per intent | `ask_agent_reply`: up to `MAX_TURNS` (6) rounds of tool calls, then a plan, a text or an error | the model provider, the ledger |
| Configuration, `config.rs` | `credentials.toml` and its mode | `save_api_key`; `load_provider_settings`, `resolve_disk_path`, `resolve_kernel_path` (explicit value, environment, file, default) | the file, shared by every process with no lock; the environment |
| Authentication and name validation, `server.rs`; memory-size parsing, `vmm/mod.rs`; UART bytes, `vmm/run.rs` | none | pure functions | - |

What is hard here:

* **No lock on the ledger.** Every process loads the file, changes a value in memory and writes it back with
  `std::fs::write` (truncate, then write). Transactions of workers, `forget` and DELETE interleave, and a process may
  die inside one.
* **Names versus processes.** The daemon's map, the ledger and the TAP are all keyed by something derived from the VM's
  *name*, while what is stopped, reaped and rolled back is a *process*. PIDs are reused.
* **Threads that stop each other.** A vCPU leaves on its own account, on the operator's, or because a sibling left; it
  may hold the bus, panic, or be inside the kernel.
* **A ring shared with a guest.** Driver and device publish to each other through memory, with wrapping indices and an
  interrupt that may race the driver's last look.
* **A pipeline with a rollback.** Each step may fail, and only some of what has been done lies outside the process.
* **A plan that is settled in several places.** The model proposes it, the configuration completes it, the operator reviews
  it and a worker may resolve it again, while logins and edits change the file that each of them reads anew.
* **A conversation with a stranger.** The provider may answer anything, and refuses a conversation in which a tool call was
  not answered.
* **Ten structures in one memory**, and limits (u8 APIC ids, u16 lengths, reserved addresses) that meet at the largest
  requests.

What makes each component correct, in a sentence: the *ledger* has one record per name, is bounded, drops only its
oldest, never resurrects a finished VM and tells each VM's true outcome; the *daemon* runs one worker per name, can
always reach it, and releases the name when it is done; the *vCPU threads* stop for a reason, each of them that comes out
of the kernel, and never touch a device that a panic left half way;
the *block device* performs each request once, completes it and makes the driver look; the *host* keeps no TAP that
nobody will delete; the *guest* finds every structure it was given, and a truthful memory map, within what the host
has; the *agent* always sends a conversation the provider accepts, and ends; *what is applied* is the plan as it was
reviewed and approved; a *login* changes the key and nothing else, and the key is never readable by others.

## 2. Modules

```
LedgerOps ── Ledger ── LedgerFile       BlockService ◁── VirtioBlk ── MCVirtioBlk
    │                      △            VcpuRun
ControlPlane ──────────────┘            HostTap ── MCHostTap
    │── MCControlPlane                  DirectBoot ── MCDirectBoot
ConfigFile ── AgentLoop ── Planning ── MCPlanning
each proved module M has MProofs (LedgerOpsProofs is used by LedgerProofs and ControlPlaneProofs)
── EXTENDS     △ ◁── implements, through INSTANCE ... WITH
```

| Module | Models | State ↔ code | Actions ↔ code |
|---|---|---|---|
| `LedgerOps` | the `Ledger` value and its operations, as operators | a sequence of records `[name, plan, state]` | `RecordPlan`, `ForgetName`, `CanSetState`/`SetState`, `CanTransitionTo` ↔ `record`, `forget`, `set_state`, `VmLifecycle::can_transition_to` |
| `Ledger` | what the ledger promises: each transaction one atomic step | `records` | `Record`, `Forget`, `Advance` |
| `LedgerFile` | the same ledger as a file: a save that dies or fails may leave only the beginning of it | `records` | `CutShort` ↔ `std::fs::write` in `save_to` |
| `ControlPlane` | daemon, workers, tools, the file | `ledger`, `malformed` the text of `vms.toml`; `draft` each client's loaded value; `pc`, `outcome`, `stopFlag` a worker in `apply_plan`; `proc`, `pid` its process; `running` the daemon's map; `stopReq` a `stop_vm` between its lock and its `kill` | `Provision`, `StopLookup`/`StopKill`, `ReapWait`/`ReapRemove` ↔ `server.rs`; `Declare*`, `SetHandler`, `GuestEnds`, `Mark*` ↔ `apply_plan`, with load, truncate and write apart; `Tool*` ↔ `forget_vm`, `delete_vm`; `CtrlC`, `Crash`, `DaemonCrash`, … faults |
| `VcpuRun` | the threads of one VM | `at`, `ended` per thread; `stop` the flag; `bus`, `poisoned` the mutex; `report` what provisioning returned | `Poll`, `KvmRun`, `Console`, `LockBus`, `Device`, `Raise` ↔ `drive_vcpu`/`run_vcpu_loop`; `Join` ↔ `mod.rs` 553-564; `Unwind`, `ProcessEnds` ↔ a panic of the bootstrap processor's thread, past the joins and through `TapGuard` |
| `BlockService` | what a disk promises: requests in flight, each performed and answered once | `disk`, `req`, `reply`, `lossy` (completions have nowhere to go) | `Submit`, `Perform`, `Attempt` (done, but no status byte told it), `Complete`, `Place` |
| `VirtioBlk` | the device with its virtqueue, and a driver | guest memory (`chain`, `buffer`, `status`, both rings), `outside` the slots of the used ring that are not in it; `lastAvail`, `nextUsed`, `isr` the device; `irq`; `kicks`, `handler`, `lastSeen` the driver | `Fetch` … `Signal` ↔ `process_virtqueue` step by step; `Setup`, `Reset`, `ReadInterruptStatus`, `AckInterrupt` ↔ the registers; `Submit`, `Notify`, `Collect` the driver |
| `HostTap` | provisioning as the host sees it, several processes | `at`, `createdHere`, `link` the host's TAPs | one action per `ip` command, `RollBack`, `DropGuard` ↔ `TapGuard::drop` |
| `DirectBoot` | provisioning as the guest sees it, one process | `memory` the structures still intact, `e820`, `mp`, `vm`, `cpus`, `ram` | one action per stage of `provision_kvm_machine_native`, each of which may refuse or fail |

| `ConfigFile` | `credentials.toml` and its readers, `ai-vmm auth login`, an operator's edits | `text`, `fileOpen`, `dirOpen` the file and who may read it; `login`, `toWrite` each login in `save_api_key`; `found`, `alone` history, for the property | `LoginStart`, `LoginChmodDir`, `LoginLoad`, `LoginOpen`, `LoginWrite`, `LoginChmodFile` ↔ `save_api_key` system call by system call; `LoadProviderSettings`, `ResolveKernelPath`, `ResolveDiskPath` the readers, as operators |
| `AgentLoop` | conversations with the model provider | `at`, `messages`, `turns`, `reply`, `executed`, `plan` per session; `settings` its `ProviderSettings` | `Ask`, `Send`, `Exhaust` ↔ the loop of `ask_agent_reply`; `ReceiveEnd`, `ReceivePlan`, `ReceiveTools` ↔ `parse_turn` and what follows; `ExecuteTool` ↔ `append_tool_results`, one call at a time |
| `Planning` | their composition: `ai-vmm run`, POST /v1/plan, POST /v1/vms with its worker, `ai-vmm provision` | `env`; `stage`, `ordered`, `final`, `kernel`, `shown`, `applied` per run and worker; `approved` the runs with `--yes` or a confirmation | `LoadSettings`, `Post`, `ProvisionDirect`, `FinalizeDisk`, `FinalizeKernel`, `Confirm`, `Apply`, `Decline` ↔ `run_intent`, `serve`, `provision_vm`, `provision_direct`, `finalize_plan`, `display_plan`, `confirm_apply` |

A write into guest memory (`DirectBoot`) removes from `memory` whatever it overlaps, so a layout error shows as a missing
structure. `ControlPlane` is the composition of the ledger's operations with the daemon, the workers and the operating
system's processes. Definitions named `Mut…` are deliberately wrong variants of the definition that follows them (a dropped guard, a
missing reset, a swapped order); no specification uses them: with one put in the place of the original a run must fail,
which shows that the property it is for can.

Where `Planning` ends (`Apply`), `ControlPlane` begins (`Declare…`): the first says which plan a worker has, the second what
happens to a worker with a plan.

Four parts are external to the source and modelled from how it uses them: the guest's virtio driver (`VirtioBlk`),
processes and PIDs (`ControlPlane`), the ELF loader's placement of a kernel (`DirectBoot`), and the model provider, which
may answer anything (`AgentLoop`).

## 3. Runs

| Run (config) | Module | Question | Distinct states |
|---|---|---|---|
| `Ledger` | `Ledger` | Unique, bounded, ordered, forward-only when transactions are atomic? | 13 089 |
| `Supervisor` | `MCControlPlane` | Is the map exact, is a name always released, is no outcome ever invented, while spawns, stops, exits, reaping, PID reuse, overlapping transactions, crashes and failed calls interleave? | 318 791 |
| `SerialFaults` | `MCControlPlane` | One transaction at a time; workers and an operator's run may die at any step, saves may fall short: is the file a ledger of which at most the beginning is left? | 1 955 165 |
| `VcpuRun` | `VcpuRun` | Three vCPU threads, any of which may stay in the kernel for good: do they stop for a reason, does a stop reach all that come out, does the VM end when all do? | 7 312 |
| `BlockOrdinary` | `MCVirtioBlk` | Is every read and write performed once, completed and noticed? | 272 000 |
| `BlockData` | `MCVirtioBlk` | Every request type and failure, used elements that cannot be written included: is it still a block service, and is nothing served that was not asked? | 2 030 000 |
| `HostTap` | `MCHostTap` | Is no TAP that was made orphaned, and a running VM attached? | 119 850 |
| `DirectBoot` | `MCDirectBoot` | Does a VM that runs find what it was given, within what the host has? | 5 526 |
| `Planning` | `MCPlanning` | Is what is applied what was reviewed and approved, does the agent speak correctly and end, what does a login do to the file, with a run, a worker, a login that may fail or die and edits at any moment? | 605 716 |
| `BlockedVcpu` | `VcpuRun` | *violated*: does raising the flag make provisioning return? | - |
| `StopRecycledPid` | `MCControlPlane` | *violated*: can a stop reach another VM's worker? | - |
| `HighMemory` | `MCDirectBoot` | *violated*: is the disk within reach at every size of RAM? | - |

### Properties

*Ledger.* `NoDuplicateNames` (`record` replaces), `TerminalIsFinal` (no transaction takes a record out of Stopped or
Failed, other than the declaration that replaces it), `OnlyOldestRollsOff`, `OrderKept`.

*Control plane.* `OneWorkerPerName`, `MapIsExact` (every undropped worker is under its name with its PID, and every
entry has such a worker), `NamesAreReleased` (liveness: the name of a worker that has exited becomes free, and so does that
of one whose stop flag is up, if its guest winds down), `ImplementsLedger` (refinement of `LedgerFile`: every step of the
file is a call of the ledger, or leaves a beginning of it),
`TerminalIsFinal` and `FileIsALedger` (unique names, bounded) of the file, `NoInventedOutcome` (a terminal record has a
worker that ended so). `RecordTellsOutcome` (a record tells the outcome of the very plan it was made from) is proved and in
no run.

*vCPU threads.* `HalfDoneIsNeverTouched` (no vCPU enters a device that a panic left half way through an access),
`StopsForAReason`, `StopReachesEveryVcpu` (liveness: a vCPU whose own `KVM_RUN` returns leaves once the flag is up, whatever the
others do), `WindsDownWhenRunsReturn` (liveness: if every `KVM_RUN` returns, a signal, the flag or the end of one loop ends the VM).

*Block device.* `NotifyServesAll`, `NoLostInterrupt`, `NoPhantomCompletion`, `OnlyPublishedServed`, `IsBlockService`
(refinement), `EveryRequestCompletes`.

*Host.* `NeverOrphaned`, `RunningIsAttached`. *Guest.* `GuestFindsItsBoot`, `MapIsHonest`,
`CpusAnnounced`, `WithinHost`, `KvmOrder`.

*Planning.* `ConversationIsWellFormed` (every request the agent sends has each tool call answered, once, in order, in the
provider's shape, before anything else), `AgentAnswers` (liveness: every session ends), `AppliedAsReviewed` (what is applied
is what was shown, on a run with `--yes` or a confirmation, which is what the first machine call of the last reply, or the arguments, asked for; a disk once named
stays), `LoginOnlyChangesTheKey` (a login that no other writer came between and that reports success keeps every other
setting and leaves an owner-only file), `SecretIsNeverOpen` (a key that was typed is never readable by others, whatever the
mode of the file was and wherever the login stops).

### Bounds, and why they are enough

* `Ledger`: four names for three places, so a declaration replaces, fills, and rolls off; two plans per name. The
  operations compare names and positions only.
* `ControlPlane`: two names, two daemon workers of one of them (so one must wait for the other to be released), and in the
  serial run an operator's process of the other; a `forget` tool and a stop handler in the overlapping run; two PIDs, so that one is given again; a ledger of two
  places. A plan is applied at most once, so every run of the model is finite, while a stop handler may call again and
  again. Two transactions suffice for every kind of overlap: one text over another.
* `VcpuRun`: the bootstrap processor and two others: threads of both kinds, and two of a kind; two vCPUs in the violation.
* `VirtioBlk`: two requests in flight in a queue of two, ring indices that wrap at 4 (`IndexWrap`, 2^16 in the code; both
  are multiples of the queue size, which is what the slot arithmetic relies on), two contents of a block besides the
  initial one, an image of one block that a write may make longer. In `BlockData` the driver may put
  the second slot of the used ring outside guest memory (`Outside`), so an element can be written and the next one cannot. `SectorWrap` (2^55 in the code) stays out of reach.
* `HostTap`: two processes that share a TAP, one alone with its own, one without a bridge; each TAP absent or left over at
  the start; every command that shows, creates or sets may fail, and a failing `ip link show` reads as absent. A deletion does
  not fail (`DelFails`), nor does the line printed between the set-up and the guard panic (`PrintFails`).
* `DirectBoot`: the numbers of the code, unscaled: requests at and past each limit (0, 1, 2, 255, 256 vCPUs; 7, 8, 512,
  3328 MiB), hosts that refuse for each of their reasons, kernels of one and two segments that fit or not.

* `Planning`: one run, with `--yes` or without, one worker, one login and one edit that may happen again and again, so the file changes between any
  two reads; two plans of the model in one reply, a reply with one and with two tools, an unknown tool, arguments that do
  not parse; four first files (none, one that does not parse, a local and a hosted provider, a disk that is `none`) and
  three environments. `MaxTurns` is 2 (6 in the code): the second turn is the first one with a history, and the last. A
  call of POST /v1/plan (a session that is not in `Runs`) is a prefix of a run, and has no run of its own. Keys are
  their lengths: one too short, one that fits, and those already in the files.

`CHECK_DEADLOCK FALSE` stands where the system may really stop: plans are applied once, a VM ends, provisioning ends,
a session and a login end, a virtqueue may be stuck behind a chain the device cannot read. `Ledger` and `BlockOrdinary` check for deadlock.

### Fairness, and why the code justifies it

* `ControlPlane`: a live worker that can proceed does, and so do the daemon's threads (the kernel schedules them; they
  hold no lock while waiting). Nothing makes a guest end, with its stop flag up or not (a vCPU may block in the kernel), nor a
  `kill` succeed, a client call, a crash or a fault happen: `NamesAreReleased` takes the end of a stopped guest as a condition.
* `VcpuRun`: each thread runs; a waiter for the bus mutex gets it in the end (strong fairness: holders keep it for one
  access); the signal's handler thread runs. `KVM_RUN` owes nothing: behind the in-kernel interrupt chip (`mod.rs` 395-404) an idle
  vCPU, or one the guest never starts, stays in it. That it returns is a condition of the two liveness properties, per vCPU
  in one and of all in the other, and `BlockedVcpu` shows what is left without it.
* `VirtioBlk`: the vCPU inside the device finishes its loop; a driver that published notifies, and its interrupt handler
  runs to its end. Registers share the bus mutex with the device, so their accesses have strong fairness.
* `Planning`: a session that can go on does: the task runs, and the provider answers, if only with an error. The second is an
  assumption on the provider: the request (`agent/mod.rs` 205) has no timeout and `reqwest::Client::new()` sets none, so with
  one that accepts and stays silent `AgentAnswers` fails. Nothing makes an operator ask, approve, log in or edit.

## 4. Proofs

Each theorem holds for every value of the constants that the named assumptions admit.

| Theorem | States | Rests on |
|---|---|---|
| `LedgerProofs!LedgerInvariant` | `Spec => [](TypeOK /\ NoDuplicateNames)` | lemmas about `Retain`, `RecordPlan`, `SetState` |
| `LedgerProofs!LedgerType` | `Spec => []TypeOK` | the same |
| `LedgerProofs!FinishedIsNeverResurrected` | `Spec => TerminalIsFinal` | the invariant, one lemma for a step |
| `LedgerProofs!OldestStaysFirst`, `!RollsOffTheOldest` | `Spec => OrderKept`, `Spec => OnlyOldestRollsOff` | `RetainOrder`, `RecordPlanOrder` |
| `ControlPlaneProofs!ControlPlaneType` | `Spec => []TypeOK` | lemmas about overlaid and shortened texts |
| `ControlPlaneProofs!SupervisorIsExact`, `!NeverTwoWorkers` | `[](OneWorkerPerName /\ MapIsExact)`, every fault included | `SupervisorInv` |
| `ControlPlaneProofs!FileIsHonest` | `[]NoInventedOutcome`, with overlapping saves and crashes | `FilesInv`; no short writes |
| `ControlPlaneProofs!SerialFileIsALedger` | `[]FileIsALedger` | `SerialInv`; `SerialLedger` |
| `ControlPlaneProofs!SavedOutcomeIsFinal` | `[]TerminalIsFinal` of the file, every fault included | `FinalInv`; `SerialLedger` |
| `ControlPlaneProofs!FileImplementsLedger` | `Spec => ImplementsLedger`, every fault included | `FileInv`; `SerialLedger` |
| `ControlPlaneProofs!RecordsTellOutcomes` | `[]RecordTellsOutcome`, crashes included | `RecordInv`; `SerialLedger`, `Unshared`, no fault but `"crash"` |
| `VcpuRunProofs!BusIsExclusiveAndFailsStop`, `!StopsHaveAReason` | one thread in a device at a time and `HalfDoneIsNeverTouched`; `StopsForAReason`; any number of vCPUs | `IInv` |
| `VirtioBlkProofs!VirtioBlkType`, `!CompletionsAreReal`, `!ServesWhatIsPublished` | `TypeOK`, `NoPhantomCompletion`, `OnlyPublishedServed`, any queue size and requests | `BlkInv` |
| `VirtioBlkProofs!InterruptsAreNotLost` | `[]NoLostInterrupt` | `InterruptInv` |
| `VirtioBlkProofs!NoRequestIsForgotten` | `[]NotifyServesAll` | `KickInv`; `AllSound`, `Outside = {}` |
| `VirtioBlkProofs!DeviceIsABlockService` | `Spec => IsBlockService`, every failure included, an ill-placed used ring too | `OutcomeInv`; `Mappable` |
| `HostTapProofs!HostTapType`, `!TapNeverOrphaned` | `TypeOK`; `NeverOrphaned`, any number of processes and TAPs | deletions work, no panic of `println!` before the guard (`~ DelFails`, `~ PrintFails`) |
| `HostTapProofs!RunsAttached` | `[]RunningIsAttached` | `AttachedInv` |
| `DirectBootProofs!DirectBootType`, `!GuestIsBootable`, `!MapIsAlwaysHonest`, `!CpusAreAnnounced`, `!GrantIsWithinHost`, `!KvmIsAskedInOrder` | the six invariants of `DirectBoot`, all requests, hosts and kernels | `Boots`; `KernelAssumption` |
| `PlanningProofs!PlanIsAppliedAsReviewed` | `[]AppliedAsReviewed`, any number of runs, workers, logins and edits | `SessionInv`, `ReviewInv` |
| `PlanningProofs!StoredKeyIsNeverOpen` | `[]SecretIsNeverOpen`, any number of logins, every fault | `SecretInv` |
| `PlanningProofs!DiskIsResolvedOnce` | a disk resolved to a path is resolved to that path again, whatever the file says by then | `ConfigAssumption` |
| `PlanningProofs!PlanningType` | `Spec => []TypeOK` | `TypeInv`; `Envs` are environments |
| `PlanningProofs!ConversationsAreAccepted` | `[]ConversationIsWellFormed`, any replies, sessions and turns | `TalkInv` |
| `PlanningProofs!LoginReplacesTheKey` | `Spec => LoginOnlyChangesTheKey`, any logins and edits | `AloneInv`; reads do not fail |

The inductive invariants, and why each is needed:

* **Ledger**: `TypeOK /\ NoDuplicateNames` is inductive. The work is in the operators: a record is found again after
  `Retain` only through the increasing enumeration of the positions it keeps (`IncreasingEnumeration`), from which
  `RetainProperties` and `RecordPlanProperties` (unique, bounded, the new record last) follow. That it is increasing keeps
  the order; that it reaches every position kept says what is gone: a name that a declaration drops had at least a cap's
  worth of others beside it, so the ledger was full, the declared name was new, and the dropped record was the first.
* **Supervisor**: exactness alone is not inductive: that an entry removed by *name* belongs to the worker being dropped
  needs `OneWorkerPerName`, which in turn needs that a spawn finds no entry (`MapIsExact`), and `ProcInv`, which ties the
  state of a worker's process to where it is (none while idle, live while active) and gives it a PID.
* **Files**: a save writes `draft`, loaded earlier: `NoInventedOutcome` speaks of drafts as well as of the file, and
  `OutcomeInv` says that a worker has no outcome before its guest ends, so an outcome, once there, stays. Overlapping writes only
  recombine records that were justified.
* **Serial file**: at most one client is in a transaction; while it is writing the file is empty, so nothing is overlaid;
  the ledger and all drafts are unique and bounded. A short write or a crash leaves a prefix.
* **File and ledger**: `TxInv`: what a client has loaded and changed, and not begun to save, is one call of the abstract
  ledger away from the file. The refinement takes that call at the truncation, where the mapping turns from the file to the
  draft of the one client that writes; the write then stutters. A client that dies there, or whose write falls short, leaves the
  beginning of its draft, which is `CutShort`; nothing is assumed of faults.
* **Finality**: `MarkInv`: from the moment a worker has loaded the ledger to mark its outcome, its draft, and once it has
  saved, the file and every draft loaded since, hold no Booting record of its plan. It needs `NamedInv`, that the record of a
  plan has the name of the plan's VM, since `set_state` finds records by name.
* **Records**: a worker marks *a* record of its name; that it is its own takes `Owns` for every text in play (the file, a
  draft, what a writer is about to put there), from its declaration to its mark. A second live worker of the name would
  take the record over: `OneWorkerPerName` forbids it for the daemon's, `Unshared` for the operator's. The daemon must not
  die: the next one does not know the workers of the one before (the row of section 5 on restarted daemons).
* **vCPU threads**: who is in a device holds the bus, and the bus is not poisoned while it does; a reason for the flag is
  never lost.
* **Block device**: the rings are seen as two windows, `Waiting` (from the device's cursor to what the driver published) and
  `Answered` (from what the driver has taken to what the device has written). `QueueInv`: each request in flight is in one of
  them, once; `StatusInv`: those answered have a status, the others none; `CursorInv`: what is at hand is the first that
  waits. Moving a request from one window to the other is the write of the used entry, and the windows survive every wrap
  because `IndexWrap` is a multiple of the queue size. `InterruptInv` follows a completion from the used index to the driver's
  last look; `KickInv` says that what the device has not seen is notified of, which fails once a chain cannot be read, hence
  `AllSound`. For the refinement `ReplyOf` reads a request's outcome first from the device, later from the status byte and the
  buffer; `OutcomeInv` says that the two agree where it changes over.
* **Host**: `AddersKnow`: a process that adds a TAP, or lost the race to, knows `createdHere`; so whoever made the TAP is on a
  path that deletes it. For a process that is the only user of its TAP, `Attached` says command by command what the pipeline
  has reached; `IsolatedInv` (a process with no bridge gives no command) and `StepsAreLocal` keep the others away from it.
* **Guest**: `Boots` says, stage by stage, what memory holds (`Contents`), what the host granted (`Granted`, `Given`) and what
  was asked of KVM (`Asked`). Non-interference is `LowIsApart` (all low structures pairwise disjoint, for every number of
  vCPUs) and `KernelIsClear` (segments start at 1 MiB, low structures end before it).
* **Review**: `SessionInv` says that the plan of a session comes from the first machine call of its reply (a first one exists
  by `LeastNatural`); `ReviewInv` adds, stage by stage, that the final plan resolves the proposed one, that what is shown is
  the final plan and that only a shown plan is applied. That a session which has ended never moves again (`SessionStep`)
  keeps the proposal under the review. Nothing in it mentions the file: that is why the file may change at will.
* **Secret**: the key appears in the file only after the directory is closed (`Past`), and nothing opens it again. It needs
  that a typed key is not in the file at first or in an edit (`NewKeysAssumption`): one that is was not stored by a login.
* **Login**: a login that is `alone` has no other saving beside it, and `OnItsWay` carries what it found from the load to the
  last chmod: its draft differs from it in the key, the file is empty while it writes, so nothing is left behind the new
  text. Whoever comes between clears `alone`, so no step of another login has to be followed.
* **Conversation**: `Settled(p, m, b)`: the first b messages answer every assistant turn among them. While the tools of a turn
  run, all before it is settled and its first results stand behind it, one for each call executed (`Pending`); the last
  result settles the whole. That no call is skipped needs `Counting`: outside the execution of tools the count is zero, within
  it below the length of the reply. Types (`TypeInv`) say in addition that any cut or overwritten text is still a configuration
  or does not parse (`OverwritesType`, `CutsType`).

Hypotheses beyond the types of constants, each named in the theorem that needs it:

* `KernelAssumption`: the kernel's segments start at 1 MiB or above, its entry lies in one of them and below 1 GiB. It is
  what the loader of a Linux `vmlinux` gives; the code does not check it.
* `SerialLedger`: transactions do not overlap. The code has no such lock; it is an assumption on the operator, and section 5
  lists what fails without it. `Unshared`: no operator's run of a name that another run or the daemon uses.
* No `"short"` writes, no failing deletion, no panic of `println!` before the guard, no fault but crashes, no failing read of
  `credentials.toml` where named; with each of them TLC finds the property violated.
* `AllSound`: every chain the driver offers can be read; with others `NotifyServesAll` fails, as does `EveryRequestCompletes`
  (section 5). `Outside = {}`: the used ring is inside guest memory; a completion that cannot be
  written there is never told. `Mappable`: sectors whose byte offset fits 64 bits, and requests that carry a value only when they write.

**Only model-checked**: liveness (`NamesAreReleased`, `AgentAnswers`, `StopReachesEveryVcpu`,
`WindsDownWhenRunsReturn`, `EveryRequestCompletes`), which rests on fairness and `ENABLED` and which the prover does not support. Every invariant,
action property and refinement of a passing run is also a theorem, under the hypotheses above. No proof is by induction over
data, which the installed provers cannot instantiate, and no module that is proved about has a recursive operator.

## 5. Where the code and its words disagree

Three runs are recorded as violations:

* `BlockedVcpu`: `mod.rs` 300-301 says that raising the flag "makes every vCPU wind down and the function return". The flag is
  polled between two `KVM_RUN`s (`run.rs` 88-93); a vCPU that idles in one, or an application processor the guest has not
  started, stays there, no signal is sent to its thread, and provisioning never returns. What stopping does achieve is
  `StopReachesEveryVcpu` and `WindsDownWhenRunsReturn`.
* `StopRecycledPid`: `server.rs` 470-471 says the PID that `stop_vm` signals "is never a recycled PID" (also 416-418). The PID is
  copied under the lock and used after it is released; by then the worker may have exited, been reaped, and its PID
  given to another worker, which is interrupted instead.
* `HighMemory`: `mod.rs` 498-499 says that the guest finds its disk through the kernel command line. With more than
  3328 MiB of RAM the window at `0xd0000000` is RAM and the device is never reached; nothing refuses such a VM.

Further statements of the comments that the models refute, each reproducible by the change of constants or property
given:

| Claim | What the model shows | How |
|---|---|---|
| `main.rs` 241-244: an interrupted worker does not leave its record at Booting | SIGINT between `record_plan` and `set_handler` has its default action | `ControlPlane`, a `CtrlC` at `pc = "recorded"` |
| `registry.rs` 23-24: lifecycle only moves forward | of two overlapping transactions the older text wins: a finished VM is Booting again | `TerminalIsFinal`, `SerialLedger = FALSE` |
| `registry.rs` 147-148: re-recording a name replaces its entry, never a duplicate | overlapping writes leave an old record behind a shorter new text | `FileIsALedger`, `SerialLedger = FALSE` |
| `registry.rs` 34-35: Stopped is the state of a VM that exited, or of a record written before the field existed | a short write cuts the state off a Booting record: it reads as Stopped | `NoInventedOutcome`, `"short"` in `Faults` |
| `server.rs` 13-14: one VM can never destabilise the daemon or another VM | a worker that dies between the truncation and the write of a save takes every VM's record with it | an invariant that a record stays until forgotten or rolled off, `"crash"` in `Faults` |
| `main.rs` 263-265: the outcome recorded is the VM's own | with an operator's run of the daemon's VM name, one plan's record gets the other's outcome | `RecordTellsOutcome`, `VmOf <- VmOfShared` |
| the same lines | a restarted daemon starts a second worker of a running name: the first one's end is written into the second one's record | `RecordTellsOutcome`, `"daemon"` in `Faults` |
| `main.rs` 263-265, the same lines | an application processor's error is printed; the VM is recorded as Stopped | `VcpuRun`, `ended[a] = "error"` with `report = "ok"` |
| `mod.rs` 523-527: any vCPU that stops winds down all | one that panics does not raise the flag | `at[v] = "panicked"` instead of `"out"` in `WindsDownWhenRunsReturn` |
| `mod.rs` 555-557: no vCPU outlives the VM | a panic of the bootstrap processor's thread unwinds past the joins: `TapGuard` deletes the TAP while the application processors run the guest, until the process ends | an invariant that `report # "none"` leaves no vCPU in `"guest"` |
| `storage.rs` 264-267 (and 225): whatever the outcome, the request is completed in the used ring | a chain whose header cannot be read is met again for ever | `EveryRequestCompletes`, `Requests <- AllRequests` |
| `network.rs` 188: a lost race is tolerated | the loser, whose `created_here` is set, rolls the winner's TAP back | an invariant that `at[p] = "rollback"` only with `MyLink(p).maker = p` |
| `network.rs` 156-158: a TAP is rolled back if it was created here | any failing `ip link show` reads as "no such interface": the TAP of before then counts as created here, and a failing attachment deletes it, with nobody else in play | the same invariant, one process |
| `mod.rs` 273: a TAP is never orphaned | the failure of `ip link del` is ignored | `NeverOrphaned`, `DelFails = TRUE` |
| `mod.rs` 457-459: the guard owns the TAP, so it is never orphaned | a `println!` that panics on a closed console between the set-up and the guard (`mod.rs` 449) leaves it to nobody | `NeverOrphaned`, `PrintFails = TRUE` |
| `config.rs` 226-227: settings already in the file are preserved, only the key is updated | a login writes back what it loaded: an edit, or another login, in between is lost; a crash or a failed write after the truncation loses all settings, and so does a file that could not be read (`unwrap_or_default`) | `LoginOnlyChangesTheKey` without `alone`, or for logins that end otherwise; `"read"` in `LoginFaults` |
| `main.rs` 129-131: the operator reviews what will really boot | the kernel is resolved but not shown, and with a login between truncation and write it is `./vmlinux` instead of the configured one | a configured kernel in every text, `applied[c].kernel` different from it |
| `config.rs` 318-320: `none` means that no disk is given | only an explicit value is cleaned: a configured `disk_path` of `none` passes `finalize_plan` and is applied as a path; between daemon and worker it is resolved anew | `final[c].disk = NoneWord` is reached |

A driver that resets the device (Status, `storage.rs` 435, and QueueReady, 438) and starts with fresh rings finds the device at its
old cursors: `OnlyPublishedServed` fails when `Reset` loses its guard on the indices. Seen while reading, and not in a
run: `mod.rs` 231, the host reserve, which two VMs provisioned together can each be granted from; `mod.rs` 373-379,
the TSS pages "clear of every memory slot", which RAM of 4096 MiB and more reaches; `boot.rs` 296, "a single E820_RAM
region", where two are written; `README.md` 159 of the repository, "one VM at a time", which predates the daemon;
`network.rs` 98, "collision-free" TAP names, which are 44 bits of a hash.

## 6. Limits of the models

* **Control plane.** PIDs are reused among workers only. SIGINT to a whole foreground process group is one `CtrlC` per
  process. What overlapping writes leave is over-approximated: any tail of the older text behind the newer. Read-only
  handlers, authentication and the confirmation prompt change no state of it. A `kill` that cannot be run or fails signals
  nobody (`"io"`). A failed call leaves what the operating system's call leaves: `"io"` an empty file, `"short"` any beginning. A
  restarted daemon does not know the workers of
  the one before: `MapIsExact` is about the workers the present daemon has spawned.
* **vCPU threads.** Exits are grouped by what the thread does about them. After a panic of the bootstrap processor the guest runs
  on until the process ends, one step later. Memory is sequentially consistent; the one
  relaxed atomic is a flag that is only ever raised.
* **Block device.** One data descriptor per request, as the device reads one; `QueueNum` above 8 and the constant
  registers are left out. `sector * 512` wraps in a release build; the runs stay below. A driver that resets the device
  does so with rings whose indices agree. A used element that cannot be written is `UsedFails`. The two errors after it
  do not occur: the used index lies below the element just written in the one memory region from 0, and the eventfd is
  drained by the kernel's irqfd long before its counter is full.
* **Host.** A failing `ip` has no effect, and a failing `ip link show` is an answer: absent. A killed process leaves its TAP, which is a TAP of before to later ones.
* **Guest.** The bits of a descriptor, an entry or a checksum are left to the repository's own Kani harnesses.
* **Planning.** What texts, tool results and error messages say is left out, and with it the ledger the tools read (they change
  nothing). A response is one of three kinds: not usable, a text, or calls; of a call's input only whether it gives a plan,
  and which. The base URL, white space and the aliases of provider names are left out. An environment is the same for all
  processes. The mode of `credentials.toml` is one bit: others may read it.
* **Not modelled:** prompts, authentication, memory-size parsing, UART register values, the
  command line, tests and CI; `PROJECT.json` gives the reason for each.

## 7. Plan

Order of work, the most important behaviour first; 1 to 7 and 9 are done.

1. `LedgerOps`, `Ledger`: the shared data structure and its promise.
2. `ControlPlane`: daemon, workers and the file over it; refinement of `Ledger`.
3. `VcpuRun`: the threads of a VM.
4. `VirtioBlk` over `BlockService`.
5. `HostTap`, `DirectBoot`: the two sides of the pipeline.
6. Proofs: types and the safety that matters most.
7. `ConfigFile`, `AgentLoop`, `Planning`: from an intent to an applied plan, over a file that changes.
8. Several provisionings of one host: the memory reserve across processes (`DirectBoot` with `HostTap`), and worker ends in
   `ControlPlane` driven by `VcpuRun`'s report.
9. Proofs of the remaining safety. Next, theorems under weaker hypotheses: `RecordTellsOutcome` with further faults,
   `NotifyServesAll` up to the first chain that cannot be read, a ledger for transactions that overlap.
