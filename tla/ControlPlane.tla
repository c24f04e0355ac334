---------------------------- MODULE ControlPlane ----------------------------
(***************************************************************************)
(* The control plane: the `ai-vmm serve` daemon and its supervisor map,    *)
(* the worker processes that apply one plan each, the operator's own       *)
(* `ai-vmm run` and `ai-vmm provision`, `ai-vmm forget` and DELETE calls,  *)
(* and the ledger file vms.toml that all of them load, change in memory    *)
(* and save with no lock between them.                                     *)
(*                                                                         *)
(* A worker w is the process that applies plan w to the VM named VmOf[w].  *)
(* A PID is held from spawn until the process is waited for, and may then  *)
(* be given to the next process.                                           *)
(***************************************************************************)
EXTENDS LedgerOps

CONSTANTS DaemonPlans,  \* plans applied by workers the daemon spawns
          CliPlans,     \* plans applied by `ai-vmm run` / `provision`
          VmOf,         \* the VM name of each plan
          Tools,        \* `ai-vmm forget` invocations and DELETE handlers
          Handlers,     \* concurrent POST /v1/vms/:name/stop handlers
          Pids,
          None,         \* no PID, no stop in flight
          Faults,       \* of {"crash", "daemon", "io", "short"}: what may
                        \* fail: a process, the daemon, a system call that
                        \* has done nothing yet, a write of which a part is
                        \* in the file
          SerialLedger  \* TRUE: at most one client is inside a ledger
                        \* transaction (an assumption on the operator; the
                        \* code has no such lock)

ASSUME PlanAssumption ==
  /\ Plans = DaemonPlans \cup CliPlans
  /\ DaemonPlans \cap CliPlans = {}
  /\ Plans \cap Tools = {}
  /\ VmOf \in [Plans -> Names]
ASSUME NoneAssumption ==
  None \notin Pids /\ None \notin [name : Names, pid : Pids]
ASSUME FlagAssumption ==
  Faults \subseteq {"crash", "daemon", "io", "short"} /\ SerialLedger \in BOOLEAN

VARIABLES
  ledger,     \* the records the text of vms.toml holds
  malformed,  \* TRUE when the text of vms.toml does not parse
  draft,      \* per client: the Ledger value it is about to save
  pc,         \* per worker: where it is in apply_plan
  outcome,    \* per worker: the outcome it is about to record
  stopFlag,   \* per worker: the stop flag its Ctrl+C handler raises
  proc,       \* per worker: its process, as the operating system has it
  pid,        \* per worker: the PID it was given
  tool,       \* per tool: where it is in load, forget, save
  running,    \* ApiState::running
  stopReq     \* per handler: the name and PID it looked up, not yet signalled

fileVars == <<ledger, malformed>>
workerVars == <<outcome, stopFlag, pid>>
daemonVars == <<running, stopReq>>
vars == <<fileVars, draft, pc, workerVars, proc, tool, daemonVars>>

(***************************************************************************)
(* Processes.  "child": alive, the daemon is its parent; "detached": alive *)
(* and not (a CLI process, or a worker that outlived its daemon);          *)
(* "zombie": exited, not waited for; "reaped": Child::wait has returned,   *)
(* the reaper thread has yet to drop the entry; "gone": all over.          *)
(***************************************************************************)
Live(w) == proc[w] \in {"child", "detached"}
HoldsPid(w) == proc[w] \in {"child", "detached", "zombie"}
Supervised(w) == proc[w] \in {"child", "zombie", "reaped"}
FreePids == Pids \ {pid[w] : w \in {v \in Plans : HoldsPid(v)}}

\* Where SIGINT still has its default action, and where a worker has ended.
Unarmed == {"planned", "declaring", "declareWrite", "recorded"}
Ended == {"done", "unmarked", "quit", "sigint", "crash"}

Goto(w, l) == pc' = [pc EXCEPT ![w] = l] /\ UNCHANGED proc
Exit(w, how) ==
  /\ pc' = [pc EXCEPT ![w] = how]
  /\ proc' = [proc EXCEPT ![w] = IF @ = "child" THEN "zombie" ELSE "gone"]
Drop(c) == draft' = [draft EXCEPT ![c] = << >>]

(***************************************************************************)
(* The ledger file.  Ledger::save_to is std::fs::write: open with          *)
(* truncation, then write the text.  Between the two steps every reader    *)
(* finds an empty file, which parses to an empty ledger.  A text written   *)
(* over another one's leaves the longer one's tail, which starts anywhere  *)
(* in the old text: the result may hold old records behind the new ones,   *)
(* or be malformed.  A write that fails leaves nothing ("io") or a         *)
(* beginning of the text ("short"): the first records, the last of which   *)
(* may have lost the line of its state, which then reads as the default of *)
(* VmLifecycle, Stopped.                                                   *)
(***************************************************************************)
Writing(c) ==
  IF c \in Plans THEN pc[c] \in {"declareWrite", "markWrite"} ELSE tool[c] = "write"
InTransaction(c) ==
  Writing(c) \/ (IF c \in Plans THEN pc[c] \in {"declaring", "marking"}
                                ELSE tool[c] = "loaded")
LedgerFree == SerialLedger => \A c \in Plans \cup Tools : ~ InTransaction(c)

MutTruncate == malformed' = FALSE /\ UNCHANGED ledger
Truncate == ledger' = << >> /\ malformed' = FALSE

Overlay(c) ==
  \E k \in 2..(Len(ledger) + 1) :
    ledger' = draft[c] \o SubSeq(ledger, k, Len(ledger))
Shortened(c) ==
  \E k \in 0..Len(draft[c]) :
    \/ ledger' = SubSeq(draft[c], 1, k)
    \/ k > 0 /\ ledger' = [SubSeq(draft[c], 1, k) EXCEPT ![k].state = "Stopped"]

WriteText(c) ==
  \/ ledger' = draft[c] /\ malformed' = FALSE
  \/ (malformed \/ ledger # << >>) /\ Overlay(c) /\ malformed' \in BOOLEAN
  \/ "io" \in Faults /\ ledger' = << >> /\ malformed' = FALSE
  \/ "short" \in Faults /\ Shortened(c) /\ malformed' \in BOOLEAN

(***************************************************************************)
(* Starting a worker.                                                      *)
(***************************************************************************)
Spawn(w, p, how) ==
  /\ pc[w] = "idle"
  /\ pc' = [pc EXCEPT ![w] = "planned"]
  /\ proc' = [proc EXCEPT ![w] = how]
  /\ pid' = [pid EXCEPT ![w] = p]
  /\ UNCHANGED <<fileVars, draft, outcome, stopFlag, tool, stopReq>>

\* provision_vm: the duplicate check, the spawn and the insert are one
\* critical section.  A name with an entry is refused (409).
MutProvision(w) ==
  \E p \in FreePids :
    /\ Spawn(w, p, "child")
    /\ running' = [running EXCEPT ![VmOf[w]] = p]

Provision(w) ==
  /\ running[VmOf[w]] = None
  /\ \E p \in FreePids :
       /\ Spawn(w, p, "child")
       /\ running' = [running EXCEPT ![VmOf[w]] = p]

\* The operator runs `ai-vmm run` or `ai-vmm provision`.
StartCli(w) ==
  \E p \in FreePids : Spawn(w, p, "detached") /\ UNCHANGED running

\* finalize_plan, which every plan goes through, refuses one with no disk
\* before anything is recorded.
Refused(w) ==
  /\ pc[w] = "planned"
  /\ Exit(w, "quit")
  /\ UNCHANGED <<fileVars, draft, workerVars, tool, daemonVars>>

(***************************************************************************)
(* apply_plan: record_plan, Ctrl+C handler, boot, mark_vm_state.  Both     *)
(* ledger transactions are best-effort: an error is reported and the       *)
(* worker goes on.                                                         *)
(***************************************************************************)
DeclareLoad(w) ==
  /\ pc[w] = "planned" /\ LedgerFree
  /\ \/ /\ ~ malformed
        /\ draft' = [draft EXCEPT ![w] = RecordPlan(ledger, VmOf[w], w)]
        /\ Goto(w, "declaring")
     \/ /\ malformed \/ "io" \in Faults
        /\ Goto(w, "recorded")
        /\ UNCHANGED draft
  /\ UNCHANGED <<fileVars, workerVars, tool, daemonVars>>

DeclareTruncate(w) ==
  /\ pc[w] = "declaring"
  /\ \/ Truncate /\ Goto(w, "declareWrite") /\ UNCHANGED draft
     \/ /\ "io" \in Faults
        /\ Goto(w, "recorded") /\ Drop(w) /\ UNCHANGED fileVars
  /\ UNCHANGED <<workerVars, tool, daemonVars>>

DeclareWrite(w) ==
  /\ pc[w] = "declareWrite"
  /\ WriteText(w) /\ Drop(w)
  /\ Goto(w, "recorded")
  /\ UNCHANGED <<workerVars, tool, daemonVars>>

\* ctrlc::set_handler; its error is returned at once.
SetHandler(w) ==
  /\ pc[w] = "recorded"
  /\ Goto(w, "booting") \/ ("io" \in Faults /\ Exit(w, "quit"))
  /\ UNCHANGED <<fileVars, draft, workerVars, tool, daemonVars>>

\* provision_kvm_machine_native returns: the guest exited, the wind-down
\* completed, or a pipeline stage failed.
GuestEnds(w, st) ==
  /\ pc[w] = "booting" /\ st \in {"Stopped", "Failed"}
  /\ outcome' = [outcome EXCEPT ![w] = st]
  /\ Goto(w, "ended")
  /\ UNCHANGED <<fileVars, draft, stopFlag, pid, tool, daemonVars>>

\* mark_vm_state: nothing is saved ("unmarked") when the load fails or
\* set_state reports no update.
MutMarkStopped(w) ==
  /\ pc[w] = "ended" /\ LedgerFree
  /\ \/ /\ ~ malformed /\ CanSetState(ledger, VmOf[w], "Stopped")
        /\ draft' = [draft EXCEPT ![w] = SetState(ledger, VmOf[w], "Stopped")]
        /\ Goto(w, "marking")
     \/ /\ malformed \/ ~ CanSetState(ledger, VmOf[w], "Stopped")
        /\ Exit(w, "unmarked")
        /\ UNCHANGED draft
  /\ UNCHANGED <<fileVars, workerVars, tool, daemonVars>>

MarkLoad(w) ==
  /\ pc[w] = "ended" /\ LedgerFree
  /\ \/ /\ ~ malformed /\ CanSetState(ledger, VmOf[w], outcome[w])
        /\ draft' = [draft EXCEPT ![w] = SetState(ledger, VmOf[w], outcome[w])]
        /\ Goto(w, "marking")
     \/ /\ \/ malformed
           \/ ~ CanSetState(ledger, VmOf[w], outcome[w])
           \/ "io" \in Faults
        /\ Exit(w, "unmarked")
        /\ UNCHANGED draft
  /\ UNCHANGED <<fileVars, workerVars, tool, daemonVars>>

MarkTruncate(w) ==
  /\ pc[w] = "marking"
  /\ \/ Truncate /\ Goto(w, "markWrite") /\ UNCHANGED draft
     \/ /\ "io" \in Faults
        /\ Exit(w, "unmarked") /\ Drop(w) /\ UNCHANGED fileVars
  /\ UNCHANGED <<workerVars, tool, daemonVars>>

MarkWrite(w) ==
  /\ pc[w] = "markWrite"
  /\ WriteText(w) /\ Drop(w)
  /\ Exit(w, "done")
  /\ UNCHANGED <<workerVars, tool, daemonVars>>

(***************************************************************************)
(* forget_vm and delete_vm: load, forget, save when a record was found.    *)
(***************************************************************************)
ToolLoad(t, n) ==
  /\ tool[t] = "idle" /\ LedgerFree
  /\ ~ malformed /\ Has(ledger, n)
  /\ draft' = [draft EXCEPT ![t] = ForgetName(ledger, n)]
  /\ tool' = [tool EXCEPT ![t] = "loaded"]
  /\ UNCHANGED <<fileVars, pc, workerVars, proc, daemonVars>>

ToolTruncate(t) ==
  /\ tool[t] = "loaded"
  /\ \/ Truncate /\ tool' = [tool EXCEPT ![t] = "write"] /\ UNCHANGED draft
     \/ /\ "io" \in Faults
        /\ tool' = [tool EXCEPT ![t] = "idle"] /\ Drop(t) /\ UNCHANGED fileVars
  /\ UNCHANGED <<pc, workerVars, proc, daemonVars>>

ToolWrite(t) ==
  /\ tool[t] = "write"
  /\ WriteText(t) /\ Drop(t)
  /\ tool' = [tool EXCEPT ![t] = "idle"]
  /\ UNCHANGED <<pc, workerVars, proc, daemonVars>>

(***************************************************************************)
(* SIGINT: the default action before the handler is installed, the stop    *)
(* flag after it.                                                          *)
(***************************************************************************)
Interrupt(w) ==
  \/ /\ pc[w] \in Unarmed
     /\ Exit(w, "sigint") /\ Drop(w)
     /\ UNCHANGED stopFlag
  \/ /\ pc[w] \notin Unarmed
     /\ stopFlag' = [stopFlag EXCEPT ![w] = TRUE]
     /\ UNCHANGED <<draft, pc, proc>>

\* Ctrl+C on the terminal of an `ai-vmm run` or `ai-vmm provision`.
CtrlC(w) ==
  /\ w \in CliPlans /\ Live(w)
  /\ Interrupt(w)
  /\ UNCHANGED <<fileVars, outcome, pid, tool, daemonVars>>

\* stop_vm, first half: the PID of the name, under the lock.
MutStopLookup(h, n) ==
  /\ stopReq[h] = None
  /\ stopReq' = [stopReq EXCEPT ![h] = [name |-> n, pid |-> running[n]]]
  /\ UNCHANGED <<fileVars, draft, pc, workerVars, proc, tool, running>>

StopLookup(h, n) ==
  /\ stopReq[h] = None /\ running[n] # None
  /\ stopReq' = [stopReq EXCEPT ![h] = [name |-> n, pid |-> running[n]]]
  /\ UNCHANGED <<fileVars, draft, pc, workerVars, proc, tool, running>>

\* stop_vm, second half: `kill -INT pid`, after the lock is released.  It
\* reaches whichever live process has the PID by then, if any; and a `kill`
\* that cannot be run, or that fails, signals nobody (500).
StopKill(h) ==
  /\ stopReq[h] # None
  /\ \/ \E w \in Plans : Live(w) /\ pid[w] = stopReq[h].pid /\ Interrupt(w)
     \/ /\ \/ "io" \in Faults
           \/ \A w \in Plans : ~ (Live(w) /\ pid[w] = stopReq[h].pid)
        /\ UNCHANGED <<draft, pc, proc, stopFlag>>
  /\ stopReq' = [stopReq EXCEPT ![h] = None]
  /\ UNCHANGED <<fileVars, outcome, pid, tool, running>>

(***************************************************************************)
(* The reaper thread of a worker: Child::wait, which frees the PID, then   *)
(* running.remove(name) under the lock.                                    *)
(***************************************************************************)
ReapWait(w) ==
  /\ proc[w] = "zombie"
  /\ proc' = [proc EXCEPT ![w] = "reaped"]
  /\ UNCHANGED <<fileVars, draft, pc, workerVars, tool, daemonVars>>

MutReapFirst(w) ==
  /\ proc[w] \in {"child", "zombie", "reaped"} /\ running[VmOf[w]] # None
  /\ proc' = [proc EXCEPT ![w] = IF @ = "reaped" THEN "gone" ELSE @]
  /\ running' = [running EXCEPT ![VmOf[w]] = None]
  /\ UNCHANGED <<fileVars, draft, pc, workerVars, tool, stopReq>>

MutReapKeep(w) ==
  /\ proc[w] = "reaped"
  /\ proc' = [proc EXCEPT ![w] = "gone"]
  /\ running' = IF pc[w] = "sigint" THEN running
                ELSE [running EXCEPT ![VmOf[w]] = None]
  /\ UNCHANGED <<fileVars, draft, pc, workerVars, tool, stopReq>>

ReapRemove(w) ==
  /\ proc[w] = "reaped"
  /\ proc' = [proc EXCEPT ![w] = "gone"]
  /\ running' = [running EXCEPT ![VmOf[w]] = None]
  /\ UNCHANGED <<fileVars, draft, pc, workerVars, tool, stopReq>>

(***************************************************************************)
(* Faults: a process is killed outright; the daemon dies, its map and its  *)
(* reapers with it, and a new one starts with an empty map while the       *)
(* workers live on.                                                        *)
(***************************************************************************)
Crash(w) ==
  /\ "crash" \in Faults /\ Live(w)
  /\ Exit(w, "crash") /\ Drop(w)
  /\ UNCHANGED <<fileVars, workerVars, tool, daemonVars>>

ToolCrash(t) ==
  /\ "crash" \in Faults /\ tool[t] # "idle"
  /\ tool' = [tool EXCEPT ![t] = "idle"] /\ Drop(t)
  /\ UNCHANGED <<fileVars, pc, workerVars, proc, daemonVars>>

DaemonCrash ==
  /\ "daemon" \in Faults
  /\ running' = [n \in Names |-> None]
  /\ stopReq' = [h \in Handlers |-> None]
  /\ proc' = [w \in Plans |-> IF proc[w] = "child" THEN "detached"
                              ELSE IF proc[w] \in {"zombie", "reaped"} THEN "gone"
                              ELSE proc[w]]
  /\ UNCHANGED <<fileVars, draft, pc, workerVars, tool>>

-----------------------------------------------------------------------------
Init ==
  /\ ledger = << >> /\ malformed = FALSE
  /\ draft = [c \in Plans \cup Tools |-> << >>]
  /\ pc = [w \in Plans |-> "idle"]
  /\ outcome = [w \in Plans |-> "none"]
  /\ stopFlag = [w \in Plans |-> FALSE]
  /\ proc = [w \in Plans |-> "none"]
  /\ pid = [w \in Plans |-> None]
  /\ tool = [t \in Tools |-> "idle"]
  /\ running = [n \in Names |-> None]
  /\ stopReq = [h \in Handlers |-> None]

LedgerStep(w) ==
  \/ DeclareLoad(w) \/ DeclareTruncate(w) \/ DeclareWrite(w)
  \/ MarkLoad(w) \/ MarkTruncate(w) \/ MarkWrite(w)

Next ==
  \/ \E w \in DaemonPlans : Provision(w)
  \/ \E w \in CliPlans : StartCli(w)
  \/ \E w \in Plans : Refused(w) \/ SetHandler(w) \/ LedgerStep(w)
  \/ \E w \in Plans, st \in {"Stopped", "Failed"} : GuestEnds(w, st)
  \/ \E t \in Tools : ToolTruncate(t) \/ ToolWrite(t) \/ ToolCrash(t)
  \/ \E t \in Tools, n \in Names : ToolLoad(t, n)
  \/ \E w \in Plans : CtrlC(w) \/ Crash(w)
  \/ \E h \in Handlers, n \in Names : StopLookup(h, n)
  \/ \E h \in Handlers : StopKill(h)
  \/ \E w \in Plans : ReapWait(w) \/ ReapRemove(w)
  \/ DaemonCrash

Spec == Init /\ [][Next]_vars

(***************************************************************************)
(* Fairness: a live process and the reaper threads keep running.  Nothing  *)
(* makes a guest end, stop flag or not (module VcpuRun: KVM_RUN may never  *)
(* return), a client call or a fault happen.                               *)
(***************************************************************************)
\* A worker is at one place at a time, so one condition is enough for all of
\* its steps.
Progress(w) == SetHandler(w) \/ LedgerStep(w) \/ ReapWait(w) \/ ReapRemove(w)

Fairness == \A w \in Plans : WF_vars(Progress(w))

FairSpec == Spec /\ Fairness

-----------------------------------------------------------------------------
(***************************************************************************)
(* Properties of the supervisor.                                           *)
(***************************************************************************)
TypeOK ==
  /\ ledger \in Ledgers /\ malformed \in BOOLEAN
  /\ draft \in [Plans \cup Tools -> Ledgers]
  /\ pc \in [Plans -> {"idle", "booting", "ended", "marking", "markWrite"}
                      \cup Unarmed \cup Ended]
  /\ outcome \in [Plans -> {"none", "Stopped", "Failed"}]
  /\ stopFlag \in [Plans -> BOOLEAN]
  /\ proc \in [Plans -> {"none", "child", "detached", "zombie", "reaped", "gone"}]
  /\ pid \in [Plans -> Pids \cup {None}]
  /\ tool \in [Tools -> {"idle", "loaded", "write"}]
  /\ running \in [Names -> Pids \cup {None}]
  /\ stopReq \in [Handlers -> [name : Names, pid : Pids] \cup {None}]

\* Two concurrent requests never both start the same VM: the workers a
\* daemon has spawned and not yet dropped all have different names.
OneWorkerPerName ==
  \A v, w \in Plans : (Supervised(v) /\ Supervised(w) /\ VmOf[v] = VmOf[w]) => v = w

\* The map is exact: every worker not yet dropped is found under its name
\* with its PID, so a stop can reach it; and every entry belongs to such a
\* worker, so no name stays locked (409) after its VM is over.
MapIsExact ==
  /\ \A w \in Plans : Supervised(w) => running[VmOf[w]] = pid[w]
  /\ \A n \in Names : running[n] # None =>
       \E w \in Plans : Supervised(w) /\ VmOf[w] = n /\ pid[w] = running[n]

\* A name does not stay locked (409) after its VM is over: however the exit,
\* the last ledger transaction, the reaping and the end of the daemon
\* interleave, with the outcome saved or not, the entry of a worker whose VM
\* has ended goes away.  So does that of a worker whose stop flag was raised,
\* if its VM winds down.
Released(w) == running[VmOf[w]] = None
NamesAreReleased ==
  \A w \in Plans :
    /\ (Supervised(w) /\ pc[w] \notin Unarmed \cup {"booting"}) ~> Released(w)
    /\ []<>(~ (stopFlag[w] /\ pc[w] = "booting")) =>
         (Supervised(w) /\ stopFlag[w]) ~> Released(w)

(***************************************************************************)
(* Properties of the ledger file.                                          *)
(***************************************************************************)

\* Whatever the interleaving of transactions, crashes and failed calls, a
\* record in a terminal state has a reason: some worker of that name ended
\* with that outcome.
Justified(s) ==
  \A i \in DOMAIN s :
    s[i].state = "Booting"
    \/ \E w \in Plans : VmOf[w] = s[i].name /\ outcome[w] = s[i].state
NoInventedOutcome ==
  Justified(ledger) /\ \A c \in Plans \cup Tools : Justified(draft[c])

\* With one transaction at a time the file is a ledger whatever crashes, fails
\* or is cut short: it never holds two records of one name, and it never
\* outgrows the cap (MAX_RECORDS: "the on-disk file can never grow without
\* bound").
FileIsALedger == UniqueNames(ledger) /\ Len(ledger) <= MaxRecords

\* A finished VM is never resurrected: once its outcome has been saved, the
\* file never has its record back in Booting.
TerminalIsFinal ==
  \A w \in Plans, i \in DOMAIN ledger :
    (pc[w] = "done" /\ ledger[i].plan = w) => ledger[i].state # "Booting"

\* A record tells the outcome of the very plan it was made from: Booting
\* until the worker has ended, then what apply_plan saw.
RecordTellsOutcome ==
  \A w \in Plans, i \in DOMAIN ledger : ledger[i].plan = w =>
    /\ pc[w] \in {"done", "unmarked"} => ledger[i].state = outcome[w]
    /\ ledger[i].state # "Booting" => ledger[i].state = outcome[w]

\* What is in the ledger, seen through a save in progress: the text being
\* written counts as written.
SeenLedger ==
  IF \E c \in Plans \cup Tools : Writing(c)
  THEN draft[CHOOSE c \in Plans \cup Tools : Writing(c)]
  ELSE ledger

\* When transactions do not overlap, the file is what module LedgerFile
\* specifies: whatever dies or fails, a save takes effect as a whole or leaves
\* a beginning of its text.
Promise == INSTANCE LedgerFile WITH records <- SeenLedger
ImplementsLedger == Promise!FileSpec

\* What the comment in stop_vm claims, and what does not hold: "The PID is
\* pinned by the reaper's Child handle until the worker exits, so this is
\* never a recycled PID".
StopNeverHitsRecycledPid ==
  \A h \in Handlers, w \in Plans :
    (stopReq[h] # None /\ Live(w) /\ pid[w] = stopReq[h].pid)
      => VmOf[w] = stopReq[h].name
=============================================================================
