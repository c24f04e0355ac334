------------------------- MODULE ControlPlaneProofs -------------------------
(***************************************************************************)
(* Theorems of the control plane, for every set of names, plans, tools,    *)
(* handlers and PIDs, every cap, every combination of faults, and with or  *)
(* without overlapping ledger transactions.                                *)
(***************************************************************************)
EXTENDS ControlPlane, LedgerOpsProofs

Clients == Plans \cup Tools

-----------------------------------------------------------------------------
(***************************************************************************)
(* Type correctness.                                                       *)
(***************************************************************************)
LEMMA EmptyLedger == << >> \in Ledgers /\ Len(<< >>) = 0 /\ DOMAIN << >> = {}
<1>1. << >> \in Seq(VmRecord) /\ Len(<< >>) = 0
  BY EmptySeq
<1>2. DOMAIN << >> = 1..Len(<< >>)
  BY <1>1, LenProperties
<1>. QED BY <1>1, <1>2 DEF Ledgers

\* A record as it may be read back: without the line of its state it reads as
\* Stopped.
Reads(r, q) == r.name = q.name /\ r.plan = q.plan /\ r.state \in {q.state, "Stopped"}

\* What a short write may leave in the file.
LEMMA ShortenedProperties ==
  ASSUME TypeOK, NEW c \in Clients, Shortened(c)
  PROVE  /\ ledger' \in Ledgers /\ Len(ledger') <= Len(draft[c])
         /\ UniqueNames(draft[c]) => UniqueNames(ledger')
         /\ \A i \in DOMAIN ledger' : \E k \in DOMAIN draft[c] : Reads(ledger'[i], draft[c][k])
<1>1. draft[c] \in Ledgers
  BY DEF TypeOK, Clients
<1>2. PICK k \in 0..Len(draft[c]) :
        \/ ledger' = SubSeq(draft[c], 1, k)
        \/ k > 0 /\ ledger' = [SubSeq(draft[c], 1, k) EXCEPT ![k].state = "Stopped"]
  BY DEF Shortened
<1>. DEFINE t == SubSeq(draft[c], 1, k)
<1>3. /\ t \in Ledgers /\ Len(t) = k /\ DOMAIN t = 1..k
      /\ \A i \in 1..k : i \in DOMAIN draft[c] /\ t[i] = draft[c][i]
  BY <1>1, PrefixProperties
<1>4. Len(draft[c]) \in Nat /\ k \in Nat /\ k <= Len(draft[c])
  BY <1>1, LenProperties DEF Ledgers
<1>5. ledger' = t \/ (k > 0 /\ ledger' = [t EXCEPT ![k].state = "Stopped"])
  BY <1>2
<1>. HIDE DEF t
<1>6. ASSUME ledger' \in Ledgers, Len(ledger') = k, DOMAIN ledger' = 1..k,
             \A i \in 1..k : Reads(ledger'[i], t[i])
      PROVE  /\ ledger' \in Ledgers /\ Len(ledger') <= Len(draft[c])
             /\ UniqueNames(draft[c]) => UniqueNames(ledger')
             /\ \A i \in DOMAIN ledger' :
                  \E j \in DOMAIN draft[c] : Reads(ledger'[i], draft[c][j])
  <2>1. \A i \in 1..k : ledger'[i].name = t[i].name
    BY <1>6 DEF Reads
  <2>2. \A i \in 1..k : i \in DOMAIN draft[c] /\ Reads(ledger'[i], draft[c][i])
    BY <1>3, <1>6
  <2>. QED BY <1>3, <1>4, <1>6, <2>1, <2>2 DEF UniqueNames
<1>7. CASE ledger' = t
  <2>1. \A i \in 1..k : Reads(ledger'[i], t[i])
    BY <1>7 DEF Reads
  <2>. QED BY <1>3, <1>6, <1>7, <2>1
<1>8. CASE k > 0 /\ ledger' = [t EXCEPT ![k].state = "Stopped"]
  <2>1. k \in 1..k /\ \A i \in 1..k : t[i] \in VmRecord
    <3>1. \A i \in DOMAIN t : t[i] \in VmRecord
      BY <1>3, LenProperties DEF Ledgers
    <3>. QED BY <1>3, <1>4, <1>8, <3>1
  <2>2. [t[k] EXCEPT !.state = "Stopped"] \in VmRecord
        /\ Reads([t[k] EXCEPT !.state = "Stopped"], t[k])
    BY <2>1 DEF VmRecord, VmLifecycle, Reads
  <2>3. /\ ledger' = [i \in 1..k |-> IF i = k THEN [t[k] EXCEPT !.state = "Stopped"] ELSE t[i]]
    <3>1. t = [i \in 1..k |-> t[i]]
      BY <1>3, LenProperties DEF Ledgers
    <3>. QED BY <1>3, <1>8, <2>1, <3>1
  <2>4. ledger' \in [1..k -> VmRecord]
    BY <2>1, <2>2, <2>3
  <2>5. \A i \in 1..k : Reads(ledger'[i], t[i])
    BY <2>2, <2>3 DEF Reads
  <2>6. ledger' \in Seq(VmRecord)
    BY <1>4, <2>4, SeqDef
  <2>7. DOMAIN ledger' = 1..k
    BY <2>3
  <2>8. Len(ledger') \in Nat /\ DOMAIN ledger' = 1..Len(ledger')
    BY <2>6, LenProperties
  <2>9. Len(ledger') = k
    BY <1>4, <2>7, <2>8
  <2>. QED BY <1>6, <2>5, <2>6, <2>7, <2>9 DEF Ledgers
<1>. QED BY <1>5, <1>7, <1>8

\* What a save may leave in the file.
LEMMA WriteTextProperties ==
  ASSUME TypeOK, NEW c \in Clients, WriteText(c)
  PROVE  /\ ledger' \in Ledgers /\ malformed' \in BOOLEAN
         /\ "short" \notin Faults =>
              \A i \in DOMAIN ledger' :
                \/ \E k \in DOMAIN ledger : ledger'[i] = ledger[k]
                \/ \E k \in DOMAIN draft[c] : ledger'[i] = draft[c][k]
         /\ (ledger = << >> /\ ~ malformed) =>
              /\ Len(ledger') <= Len(draft[c])
              /\ UniqueNames(draft[c]) => UniqueNames(ledger')
              /\ \A i \in DOMAIN ledger' :
                   \E k \in DOMAIN draft[c] : Reads(ledger'[i], draft[c][k])
         /\ \A i \in DOMAIN ledger' :
              \/ \E k \in DOMAIN ledger : ledger'[i] = ledger[k]
              \/ \E k \in DOMAIN draft[c] : Reads(ledger'[i], draft[c][k])
<1>1. draft[c] \in Ledgers /\ ledger \in Ledgers
  BY DEF TypeOK, Clients
<1>2. Len(draft[c]) \in Nat /\ Len(ledger) \in Nat
  BY <1>1, LenProperties DEF Ledgers
<1>3. CASE ledger' = draft[c] /\ malformed' = FALSE
  <2>1. \A i \in DOMAIN ledger' : \E k \in DOMAIN draft[c] : ledger'[i] = draft[c][k]
    BY <1>3, Zenon
  <2>2. Len(ledger') = Len(draft[c]) /\ (UniqueNames(draft[c]) => UniqueNames(ledger'))
    BY <1>3
  <2>3. ledger' \in Ledgers /\ malformed' \in BOOLEAN
    BY <1>1, <1>3
  <2>4. \A i \in DOMAIN ledger' : \E k \in DOMAIN draft[c] : Reads(ledger'[i], draft[c][k])
    BY <2>1 DEF Reads
  <2>. QED BY <1>2, <2>1, <2>2, <2>3, <2>4
<1>4. CASE (malformed \/ ledger # << >>) /\ Overlay(c) /\ malformed' \in BOOLEAN
  <2>1. PICK m \in 2..(Len(ledger) + 1) :
          ledger' = draft[c] \o SubSeq(ledger, m, Len(ledger))
    BY <1>4 DEF Overlay
  <2>2. m \in 1..(Len(ledger) + 1)
    BY <1>2
  <2>. DEFINE r == draft[c] \o SubSeq(ledger, m, Len(ledger))
  <2>3. /\ r \in Ledgers
        /\ \A i \in DOMAIN r :
             \/ \E k \in DOMAIN draft[c] : r[i] = draft[c][k]
             \/ \E k \in DOMAIN ledger : r[i] = ledger[k]
    BY <1>1, <2>2, OverlayProperties
  <2>4. ledger' = r
    BY <2>1
  <2>. HIDE DEF r
  <2>5. \A i \in DOMAIN ledger' : \A k \in DOMAIN draft[c] :
          ledger'[i] = draft[c][k] => Reads(ledger'[i], draft[c][k])
    BY DEF Reads
  <2>. QED BY <1>4, <2>3, <2>4, <2>5
<1>5. CASE ledger' = << >> /\ malformed' = FALSE
  <2>1. ledger' \in Ledgers /\ Len(ledger') = 0 /\ DOMAIN ledger' = {}
    BY <1>5, EmptyLedger
  <2>2. UniqueNames(ledger')
    BY <2>1 DEF UniqueNames
  <2>3. malformed' \in BOOLEAN
    BY <1>5
  <2>4. \A i \in DOMAIN ledger' : \E k \in DOMAIN ledger : ledger'[i] = ledger[k]
    BY <2>1
  <2>5. Len(ledger') <= Len(draft[c])
    BY <1>2, <2>1
  <2>. QED BY <2>1, <2>2, <2>3, <2>4, <2>5, Zenon
<1>6. CASE "short" \in Faults /\ Shortened(c) /\ malformed' \in BOOLEAN
  BY <1>6, ShortenedProperties
<1>. QED BY <1>3, <1>4, <1>5, <1>6 DEF WriteText

LEMMA TypeInit == Init => TypeOK
<1>. SUFFICES ASSUME Init PROVE TypeOK
  OBVIOUS
<1>1. ledger \in Ledgers /\ draft \in [Plans \cup Tools -> Ledgers] /\ malformed \in BOOLEAN
  BY EmptyLedger DEF Init
<1>2. /\ pc \in [Plans -> {"idle"}]
      /\ outcome \in [Plans -> {"none", "Stopped", "Failed"}]
      /\ stopFlag \in [Plans -> BOOLEAN]
      /\ proc \in [Plans -> {"none", "child", "detached", "zombie", "reaped", "gone"}]
      /\ pid \in [Plans -> Pids \cup {None}]
  BY DEF Init
<1>3. /\ tool \in [Tools -> {"idle", "loaded", "write"}]
      /\ running \in [Names -> Pids \cup {None}]
      /\ stopReq \in [Handlers -> [name : Names, pid : Pids] \cup {None}]
  BY DEF Init
<1>. QED BY <1>1, <1>2, <1>3 DEF TypeOK

\* An interrupt ends the process or raises its stop flag.
LEMMA InterruptType ==
  ASSUME TypeOK, NEW w \in Plans, Interrupt(w)
  PROVE  /\ draft' \in [Plans \cup Tools -> Ledgers]
         /\ pc' \in [Plans -> {"idle", "booting", "ended", "marking", "markWrite"}
                                \cup Unarmed \cup Ended]
         /\ stopFlag' \in [Plans -> BOOLEAN]
         /\ proc' \in [Plans -> {"none", "child", "detached", "zombie", "reaped", "gone"}]
<1>1. CASE pc[w] \in Unarmed
  <2>1. /\ pc' = [pc EXCEPT ![w] = "sigint"]
        /\ proc' = [proc EXCEPT ![w] = IF proc[w] = "child" THEN "zombie" ELSE "gone"]
        /\ draft' = [draft EXCEPT ![w] = << >>] /\ stopFlag' = stopFlag
    BY <1>1 DEF Interrupt, Exit, Drop
  <2>. QED BY <2>1, EmptyLedger DEF TypeOK, Ended
<1>2. CASE pc[w] \notin Unarmed
  BY <1>2 DEF Interrupt, TypeOK
<1>. QED BY <1>1, <1>2

LEMMA TypeNext == TypeOK /\ [Next]_vars => TypeOK'
<1>. SUFFICES ASSUME TypeOK, [Next]_vars PROVE TypeOK'
  OBVIOUS
<1>. USE DEF TypeOK, Unarmed, Ended
<1>1. CASE UNCHANGED vars
  BY <1>1 DEF vars, fileVars, workerVars, daemonVars
<1>2. ASSUME NEW w \in DaemonPlans, Provision(w) PROVE TypeOK'
  BY <1>2, PlanAssumption DEF Provision, Spawn, fileVars, FreePids
<1>3. ASSUME NEW w \in CliPlans, StartCli(w) PROVE TypeOK'
  BY <1>3, PlanAssumption DEF StartCli, Spawn, fileVars, FreePids
<1>4. ASSUME NEW w \in Plans, Refused(w) \/ SetHandler(w) PROVE TypeOK'
  BY <1>4 DEF Refused, SetHandler, Exit, Goto, fileVars, workerVars, daemonVars
<1>5. ASSUME NEW w \in Plans, LedgerStep(w) PROVE TypeOK'
  <2>1. CASE DeclareLoad(w)
    <3>1. RecordPlan(ledger, VmOf[w], w) \in Ledgers
      BY RecordPlanProperties, PlanAssumption
    <3>. QED BY <2>1, <3>1 DEF DeclareLoad, Goto, fileVars, workerVars, daemonVars
  <2>2. CASE DeclareTruncate(w)
    <3>1. CASE Truncate /\ Goto(w, "declareWrite") /\ UNCHANGED draft
      BY <2>2, <3>1, EmptyLedger
      DEF DeclareTruncate, Truncate, Goto, workerVars, daemonVars
    <3>2. CASE Goto(w, "recorded") /\ Drop(w) /\ UNCHANGED fileVars
      BY <2>2, <3>2, EmptyLedger
      DEF DeclareTruncate, Goto, Drop, fileVars, workerVars, daemonVars
    <3>. QED BY <2>2, <3>1, <3>2 DEF DeclareTruncate
  <2>3. CASE DeclareWrite(w)
    <3>1. ledger' \in Ledgers /\ malformed' \in BOOLEAN
      BY <2>3, WriteTextProperties DEF DeclareWrite, Clients
    <3>. QED BY <2>3, <3>1, EmptyLedger
         DEF DeclareWrite, Goto, Drop, workerVars, daemonVars
  <2>4. CASE MarkLoad(w)
    <3>1. ASSUME CanSetState(ledger, VmOf[w], outcome[w])
          PROVE  SetState(ledger, VmOf[w], outcome[w]) \in Ledgers
      <4>1. outcome[w] \in VmLifecycle
        BY <3>1 DEF CanSetState, CanTransitionTo, VmLifecycle
      <4>. QED BY <3>1, <4>1, SetStateProperties, PlanAssumption
    <3>. QED BY <2>4, <3>1 DEF MarkLoad, Goto, Exit, fileVars, workerVars, daemonVars
  <2>5. CASE MarkTruncate(w)
    <3>1. CASE Truncate /\ Goto(w, "markWrite") /\ UNCHANGED draft
      BY <2>5, <3>1, EmptyLedger DEF MarkTruncate, Truncate, Goto, workerVars, daemonVars
    <3>2. CASE Exit(w, "unmarked") /\ Drop(w) /\ UNCHANGED fileVars
      BY <2>5, <3>2, EmptyLedger
      DEF MarkTruncate, Exit, Drop, fileVars, workerVars, daemonVars
    <3>. QED BY <2>5, <3>1, <3>2 DEF MarkTruncate
  <2>6. CASE MarkWrite(w)
    <3>1. ledger' \in Ledgers /\ malformed' \in BOOLEAN
      BY <2>6, WriteTextProperties DEF MarkWrite, Clients
    <3>. QED BY <2>6, <3>1, EmptyLedger
         DEF MarkWrite, Exit, Drop, workerVars, daemonVars
  <2>. QED BY <1>5, <2>1, <2>2, <2>3, <2>4, <2>5, <2>6 DEF LedgerStep
<1>6. ASSUME NEW w \in Plans, NEW st \in {"Stopped", "Failed"}, GuestEnds(w, st)
      PROVE  TypeOK'
  BY <1>6 DEF GuestEnds, Goto, fileVars, daemonVars
<1>7. ASSUME NEW t \in Tools, ToolTruncate(t) \/ ToolWrite(t) \/ ToolCrash(t)
      PROVE  TypeOK'
  <2>1. CASE ToolTruncate(t)
    <3>1. CASE Truncate /\ tool' = [tool EXCEPT ![t] = "write"] /\ UNCHANGED draft
      BY <2>1, <3>1, EmptyLedger DEF ToolTruncate, Truncate, workerVars, daemonVars
    <3>2. CASE tool' = [tool EXCEPT ![t] = "idle"] /\ Drop(t) /\ UNCHANGED fileVars
      BY <2>1, <3>2, EmptyLedger DEF ToolTruncate, Drop, fileVars, workerVars, daemonVars
    <3>. QED BY <2>1, <3>1, <3>2 DEF ToolTruncate
  <2>2. CASE ToolWrite(t)
    <3>1. ledger' \in Ledgers /\ malformed' \in BOOLEAN
      BY <2>2, WriteTextProperties DEF ToolWrite, Clients
    <3>. QED BY <2>2, <3>1, EmptyLedger DEF ToolWrite, Drop, workerVars, daemonVars
  <2>3. CASE ToolCrash(t)
    BY <2>3, EmptyLedger DEF ToolCrash, Drop, fileVars, workerVars, daemonVars
  <2>. QED BY <1>7, <2>1, <2>2, <2>3
<1>8. ASSUME NEW t \in Tools, NEW n \in Names, ToolLoad(t, n) PROVE TypeOK'
  <2>1. ForgetName(ledger, n) \in Ledgers
    BY RetainProperties DEF ForgetName, Ledgers
  <2>. QED BY <1>8, <2>1 DEF ToolLoad, fileVars, workerVars, daemonVars
<1>9. ASSUME NEW w \in Plans, CtrlC(w) \/ Crash(w) PROVE TypeOK'
  <2>1. CASE CtrlC(w)
    <3>1. Interrupt(w)
      BY <2>1 DEF CtrlC
    <3>. QED BY <2>1, <3>1, InterruptType DEF CtrlC, fileVars, daemonVars
  <2>2. CASE Crash(w)
    BY <2>2, EmptyLedger DEF Crash, Exit, Drop, fileVars, workerVars, daemonVars
  <2>. QED BY <1>9, <2>1, <2>2
<1>10. ASSUME NEW h \in Handlers, NEW n \in Names, StopLookup(h, n) PROVE TypeOK'
  <2>1. [name |-> n, pid |-> running[n]] \in [name : Names, pid : Pids]
    BY <1>10 DEF StopLookup
  <2>. QED BY <1>10, <2>1 DEF StopLookup, fileVars, workerVars
<1>11. ASSUME NEW h \in Handlers, StopKill(h) PROVE TypeOK'
  <2>1. CASE \E w \in Plans : Interrupt(w)
    BY <1>11, <2>1, InterruptType DEF StopKill, fileVars
  <2>2. CASE UNCHANGED <<draft, pc, proc, stopFlag>>
    BY <1>11, <2>2 DEF StopKill, fileVars
  <2>. QED BY <1>11, <2>1, <2>2 DEF StopKill
<1>12. ASSUME NEW w \in Plans, ReapWait(w) \/ ReapRemove(w) PROVE TypeOK'
  BY <1>12, PlanAssumption DEF ReapWait, ReapRemove, fileVars, workerVars, daemonVars
<1>13. CASE DaemonCrash
  BY <1>13 DEF DaemonCrash, fileVars, workerVars
<1>. QED BY <1>1, <1>2, <1>3, <1>4, <1>5, <1>6, <1>7, <1>8, <1>9, <1>10, <1>11,
            <1>12, <1>13 DEF Next

\* Type correctness, for every value of the constants.
THEOREM ControlPlaneType == Spec => []TypeOK
BY TypeInit, TypeNext, PTL DEF Spec

-----------------------------------------------------------------------------
(***************************************************************************)
(* The supervisor's map.  MapIsExact and OneWorkerPerName are not          *)
(* inductive by themselves: that a step which ends a worker ends a live    *)
(* one, and that a worker with a process has a PID, come from ProcInv.     *)
(***************************************************************************)
Active == {"booting", "ended", "marking", "markWrite"} \cup Unarmed

ProcInv ==
  \A w \in Plans :
    /\ pc[w] = "idle" <=> proc[w] = "none"
    /\ pc[w] \in Active <=> Live(w)
    /\ proc[w] # "none" => pid[w] \in Pids

SupervisorInv == TypeOK /\ ProcInv /\ OneWorkerPerName /\ MapIsExact

\* The ways a step can touch the processes and the map.
Rests ==
  /\ UNCHANGED <<proc, pid, running>>
  /\ \A w \in Plans : pc'[w] = pc[w] \/ (pc[w] \in Active /\ pc'[w] \in Active)
Exits(w) ==
  /\ pc[w] \in Active
  /\ \E how \in Ended : Exit(w, how)
  /\ UNCHANGED <<pid, running>>

LEMMA RunsOn ==
  ASSUME TypeOK, NEW w \in Plans, NEW l \in Active, pc[w] \in Active, Goto(w, l),
         UNCHANGED <<pid, running>>
  PROVE  Rests
BY DEF Goto, Rests, TypeOK

LEMMA LeavesOrRests ==
  ASSUME TypeOK, NEW w \in Plans, Interrupt(w), UNCHANGED <<pid, running>>
  PROVE  Rests \/ Exits(w)
<1>1. CASE pc[w] \in Unarmed
  <2>1. Exit(w, "sigint") /\ pc[w] \in Active
    BY <1>1 DEF Interrupt, Active
  <2>. QED BY <2>1 DEF Exits, Ended
<1>2. CASE pc[w] \notin Unarmed
  BY <1>2 DEF Interrupt, Rests
<1>. QED BY <1>1, <1>2

LEMMA SupervisorStep ==
  ASSUME TypeOK, ProcInv, [Next]_vars
  PROVE  \/ Rests
         \/ \E w \in Plans : Exits(w)
         \/ \E w \in DaemonPlans : Provision(w)
         \/ \E w \in CliPlans : StartCli(w)
         \/ \E w \in Plans : ReapWait(w) \/ ReapRemove(w)
         \/ DaemonCrash
<1>1. CASE UNCHANGED vars
  BY <1>1 DEF vars, workerVars, daemonVars, Rests
<1>2. ASSUME NEW w \in Plans, Refused(w) \/ SetHandler(w)
      PROVE  Rests \/ Exits(w)
  <2>1. pc[w] \in Active /\ UNCHANGED <<pid, running>>
    BY <1>2 DEF Refused, SetHandler, Active, Unarmed, workerVars, daemonVars
  <2>2. Goto(w, "booting") \/ Exit(w, "quit")
    BY <1>2 DEF Refused, SetHandler
  <2>. QED BY <2>1, <2>2, RunsOn DEF Exits, Ended, Active
<1>3. ASSUME NEW w \in Plans, LedgerStep(w) PROVE Rests \/ Exits(w)
  <2>1. pc[w] \in Active /\ UNCHANGED <<pid, running>>
    BY <1>3 DEF LedgerStep, DeclareLoad, DeclareTruncate, DeclareWrite, MarkLoad,
                MarkTruncate, MarkWrite, Active, Unarmed, workerVars, daemonVars
  <2>2. \/ \E l \in {"declaring", "declareWrite", "recorded", "marking", "markWrite"} :
             Goto(w, l)
        \/ \E how \in {"unmarked", "done"} : Exit(w, how)
    BY <1>3 DEF LedgerStep, DeclareLoad, DeclareTruncate, DeclareWrite, MarkLoad,
                MarkTruncate, MarkWrite
  <2>. QED BY <2>1, <2>2, RunsOn DEF Exits, Ended, Active, Unarmed
<1>4. ASSUME NEW w \in Plans, NEW st \in {"Stopped", "Failed"}, GuestEnds(w, st)
      PROVE  Rests
  <2>1. pc[w] \in Active /\ "ended" \in Active /\ Goto(w, "ended")
        /\ UNCHANGED <<pid, running>>
    BY <1>4 DEF GuestEnds, Active, daemonVars
  <2>. QED BY <2>1, RunsOn
<1>5. ASSUME NEW t \in Tools, ToolTruncate(t) \/ ToolWrite(t) \/ ToolCrash(t)
      PROVE  Rests
  BY <1>5 DEF ToolTruncate, ToolWrite, ToolCrash, Rests, workerVars, daemonVars
<1>6. ASSUME NEW t \in Tools, NEW n \in Names, ToolLoad(t, n) PROVE Rests
  BY <1>6 DEF ToolLoad, Rests, workerVars, daemonVars
<1>7. ASSUME NEW w \in Plans, CtrlC(w) PROVE Rests \/ Exits(w)
  <2>1. Interrupt(w) /\ UNCHANGED <<pid, running>>
    BY <1>7 DEF CtrlC, daemonVars
  <2>. QED BY <2>1, LeavesOrRests
<1>8. ASSUME NEW w \in Plans, Crash(w) PROVE Exits(w)
  BY <1>8 DEF Crash, ProcInv, Exits, Ended, workerVars, daemonVars
<1>9. ASSUME NEW h \in Handlers, NEW n \in Names, StopLookup(h, n) PROVE Rests
  BY <1>9 DEF StopLookup, Rests, workerVars
<1>10. ASSUME NEW h \in Handlers, StopKill(h)
       PROVE  Rests \/ \E w \in Plans : Exits(w)
  <2>1. UNCHANGED <<pid, running>>
    BY <1>10 DEF StopKill
  <2>2. CASE \E w \in Plans : Interrupt(w)
    BY <2>1, <2>2, LeavesOrRests
  <2>3. CASE UNCHANGED <<draft, pc, proc, stopFlag>>
    BY <2>1, <2>3 DEF Rests
  <2>. QED BY <1>10, <2>2, <2>3 DEF StopKill
<1>. QED BY <1>1, <1>2, <1>3, <1>4, <1>5, <1>6, <1>7, <1>8, <1>9, <1>10 DEF Next

LEMMA SupervisorInit == Init => SupervisorInv
<1>. SUFFICES ASSUME Init PROVE SupervisorInv
  OBVIOUS
<1>1. \A w \in Plans : pc[w] = "idle" /\ proc[w] = "none"
  BY DEF Init
<1>2. \A n \in Names : running[n] = None
  BY DEF Init
<1>. QED BY <1>1, <1>2, TypeInit DEF SupervisorInv, ProcInv, Live, Active, Unarmed,
            OneWorkerPerName, MapIsExact, Supervised

\* A step that starts, ends, reaps or abandons workers keeps the map exact.
LEMMA SupervisorNext == SupervisorInv /\ [Next]_vars => SupervisorInv'
<1>. SUFFICES ASSUME SupervisorInv, [Next]_vars PROVE SupervisorInv'
  OBVIOUS
<1>1. TypeOK /\ ProcInv /\ OneWorkerPerName /\ MapIsExact /\ TypeOK'
  BY TypeNext DEF SupervisorInv
<1>. DEFINE Goal == (ProcInv /\ OneWorkerPerName /\ MapIsExact)'
<1>2. ASSUME Rests PROVE Goal
  <2>1. \A w \in Plans : /\ pc'[w] = pc[w] \/ (pc[w] \in Active /\ pc'[w] \in Active)
                         /\ proc'[w] = proc[w] /\ pid'[w] = pid[w]
    BY <1>2 DEF Rests
  <2>2. ProcInv'
    BY <1>1, <2>1 DEF ProcInv, Live, Active, Unarmed
  <2>3. (OneWorkerPerName /\ MapIsExact)'
    BY <1>1, <1>2 DEF Rests, OneWorkerPerName, MapIsExact, Supervised
  <2>. QED BY <2>2, <2>3
<1>3. ASSUME NEW w \in Plans, Exits(w) PROVE Goal
  <2>1. PICK how \in Ended :
          /\ pc' = [pc EXCEPT ![w] = how]
          /\ proc' = [proc EXCEPT ![w] = IF proc[w] = "child" THEN "zombie" ELSE "gone"]
    BY <1>3 DEF Exits, Exit
  <2>2. pc[w] \in Active /\ proc[w] \in {"child", "detached"} /\ pid' = pid
        /\ running' = running
    BY <1>1, <1>3 DEF Exits, ProcInv, Live
  <2>3. \A v \in Plans \ {w} : pc'[v] = pc[v] /\ proc'[v] = proc[v]
    BY <1>1, <2>1 DEF TypeOK
  <2>4. pc'[w] = how /\ proc'[w] = IF proc[w] = "child" THEN "zombie" ELSE "gone"
    BY <1>1, <2>1 DEF TypeOK
  <2>5. \A v \in Plans : Supervised(v)' <=> Supervised(v)
    BY <2>2, <2>3, <2>4 DEF Supervised
  <2>6. ProcInv'
    BY <1>1, <2>2, <2>3, <2>4 DEF ProcInv, Live, Active, Unarmed, Ended
  <2>7. (OneWorkerPerName /\ MapIsExact)'
    BY <1>1, <2>2, <2>5 DEF OneWorkerPerName, MapIsExact
  <2>. QED BY <2>6, <2>7
<1>4. ASSUME NEW w \in DaemonPlans, Provision(w) PROVE Goal
  <2>1. w \in Plans /\ VmOf[w] \in Names
    BY PlanAssumption
  <2>2. PICK p \in FreePids : /\ Spawn(w, p, "child")
                              /\ running' = [running EXCEPT ![VmOf[w]] = p]
    BY <1>4 DEF Provision
  <2>3. p \in Pids /\ p # None /\ pc[w] = "idle" /\ proc[w] = "none"
        /\ running[VmOf[w]] = None
    BY <1>1, <1>4, <2>1, <2>2, NoneAssumption DEF FreePids, Spawn, ProcInv, Provision
  <2>4. /\ pc'[w] = "planned" /\ proc'[w] = "child" /\ pid'[w] = p
        /\ \A v \in Plans \ {w} : pc'[v] = pc[v] /\ proc'[v] = proc[v] /\ pid'[v] = pid[v]
    BY <1>1, <2>1, <2>2 DEF Spawn, TypeOK
  <2>5. /\ running'[VmOf[w]] = p
        /\ \A n \in Names \ {VmOf[w]} : running'[n] = running[n]
    BY <1>1, <2>1, <2>2 DEF TypeOK
  <2>6. ProcInv'
    BY <1>1, <2>3, <2>4 DEF ProcInv, Live, Active, Unarmed
  <2>7. \A v \in Plans : Supervised(v) => VmOf[v] # VmOf[w] /\ v # w
    BY <1>1, <2>3, NoneAssumption DEF MapIsExact, ProcInv, Supervised
  <2>8. Supervised(w)' /\ \A v \in Plans \ {w} : Supervised(v)' <=> Supervised(v)
    BY <2>4 DEF Supervised
  <2>9. OneWorkerPerName'
    BY <1>1, <2>7, <2>8 DEF OneWorkerPerName
  <2>10. MapIsExact'
    <3>1. ASSUME NEW v \in Plans, Supervised(v)' PROVE running'[VmOf[v]] = pid'[v]
      <4>1. CASE v = w
        BY <2>4, <2>5, <4>1
      <4>2. CASE v # w
        <5>1. Supervised(v) /\ VmOf[v] # VmOf[w] /\ VmOf[v] \in Names
          BY <2>7, <2>8, <3>1, <4>2, PlanAssumption
        <5>. QED BY <1>1, <2>4, <2>5, <4>2, <5>1 DEF MapIsExact
      <4>. QED BY <4>1, <4>2
    <3>2. ASSUME NEW n \in Names, running'[n] # None
          PROVE  \E v \in Plans : Supervised(v)' /\ VmOf[v] = n /\ pid'[v] = running'[n]
      <4>1. CASE n = VmOf[w]
        BY <2>1, <2>4, <2>5, <2>8, <4>1
      <4>2. CASE n # VmOf[w]
        <5>1. PICK v \in Plans : Supervised(v) /\ VmOf[v] = n /\ pid[v] = running[n]
          BY <1>1, <2>5, <3>2, <4>2 DEF MapIsExact
        <5>. QED BY <2>4, <2>5, <2>8, <4>2, <5>1
      <4>. QED BY <4>1, <4>2
    <3>. QED BY <3>1, <3>2 DEF MapIsExact
  <2>. QED BY <2>6, <2>9, <2>10
<1>5. ASSUME NEW w \in CliPlans, StartCli(w) PROVE Goal
  <2>1. w \in Plans
    BY PlanAssumption
  <2>2. PICK p \in FreePids : Spawn(w, p, "detached") /\ UNCHANGED running
    BY <1>5 DEF StartCli
  <2>3. p \in Pids /\ pc[w] = "idle" /\ proc[w] = "none" /\ running' = running
    BY <1>1, <2>1, <2>2 DEF FreePids, Spawn, ProcInv
  <2>4. /\ pc'[w] = "planned" /\ proc'[w] = "detached" /\ pid'[w] = p
        /\ \A v \in Plans \ {w} : pc'[v] = pc[v] /\ proc'[v] = proc[v] /\ pid'[v] = pid[v]
    BY <1>1, <2>1, <2>2 DEF Spawn, TypeOK
  <2>5. ProcInv'
    BY <1>1, <2>3, <2>4 DEF ProcInv, Live, Active, Unarmed
  <2>6. ~ Supervised(w) /\ \A v \in Plans : Supervised(v)' <=> Supervised(v)
    BY <2>3, <2>4 DEF Supervised
  <2>7. OneWorkerPerName'
    BY <1>1, <2>6 DEF OneWorkerPerName
  <2>8. MapIsExact'
    BY <1>1, <2>3, <2>4, <2>6 DEF MapIsExact
  <2>. QED BY <2>5, <2>7, <2>8
<1>6. ASSUME NEW w \in Plans, ReapWait(w) PROVE Goal
  <2>1. proc[w] = "zombie" /\ pc' = pc /\ pid' = pid /\ running' = running
    BY <1>6 DEF ReapWait, workerVars, daemonVars
  <2>2. proc'[w] = "reaped" /\ \A v \in Plans \ {w} : proc'[v] = proc[v]
    BY <1>1, <1>6 DEF ReapWait, TypeOK
  <2>3. \A v \in Plans : Supervised(v)' <=> Supervised(v)
    BY <2>1, <2>2 DEF Supervised
  <2>4. ProcInv'
    BY <1>1, <2>1, <2>2 DEF ProcInv, Live
  <2>5. (OneWorkerPerName /\ MapIsExact)'
    BY <1>1, <2>1, <2>3 DEF OneWorkerPerName, MapIsExact
  <2>. QED BY <2>4, <2>5
<1>7. ASSUME NEW w \in Plans, ReapRemove(w) PROVE Goal
  <2>1. proc[w] = "reaped" /\ pc' = pc /\ pid' = pid /\ VmOf[w] \in Names
    BY <1>7, PlanAssumption DEF ReapRemove, workerVars
  <2>2. proc'[w] = "gone" /\ \A v \in Plans \ {w} : proc'[v] = proc[v]
    BY <1>1, <1>7 DEF ReapRemove, TypeOK
  <2>3. /\ running'[VmOf[w]] = None
        /\ \A n \in Names \ {VmOf[w]} : running'[n] = running[n]
    BY <1>1, <1>7, <2>1 DEF ReapRemove, TypeOK
  <2>4. Supervised(w) /\ ~ Supervised(w)'
        /\ \A v \in Plans \ {w} : Supervised(v)' <=> Supervised(v)
    BY <2>1, <2>2 DEF Supervised
  <2>5. ProcInv'
    BY <1>1, <2>1, <2>2 DEF ProcInv, Live
  <2>6. OneWorkerPerName'
    BY <1>1, <2>4 DEF OneWorkerPerName
  <2>7. MapIsExact'
    <3>1. ASSUME NEW v \in Plans, Supervised(v)' PROVE running'[VmOf[v]] = pid'[v]
      <4>1. Supervised(v) /\ v # w
        BY <2>4, <3>1
      <4>2. VmOf[v] # VmOf[w] /\ VmOf[v] \in Names
        BY <1>1, <2>4, <4>1, PlanAssumption DEF OneWorkerPerName
      <4>. QED BY <1>1, <2>1, <2>3, <4>1, <4>2 DEF MapIsExact
    <3>2. ASSUME NEW n \in Names, running'[n] # None
          PROVE  \E v \in Plans : Supervised(v)' /\ VmOf[v] = n /\ pid'[v] = running'[n]
      <4>1. n # VmOf[w] /\ running'[n] = running[n]
        BY <2>3, <3>2
      <4>2. PICK v \in Plans : Supervised(v) /\ VmOf[v] = n /\ pid[v] = running[n]
        BY <1>1, <3>2, <4>1 DEF MapIsExact
      <4>. QED BY <2>1, <2>4, <4>1, <4>2
    <3>. QED BY <3>1, <3>2 DEF MapIsExact
  <2>. QED BY <2>5, <2>6, <2>7
<1>8. ASSUME DaemonCrash PROVE Goal
  <2>1. /\ pc' = pc /\ pid' = pid
        /\ \A w \in Plans : proc'[w] = IF proc[w] = "child" THEN "detached"
                                       ELSE IF proc[w] \in {"zombie", "reaped"} THEN "gone"
                                       ELSE proc[w]
        /\ \A n \in Names : running'[n] = None
    BY <1>8 DEF DaemonCrash, workerVars
  <2>2. \A w \in Plans : ~ Supervised(w)'
    BY <2>1 DEF Supervised
  <2>3. ProcInv'
    BY <1>1, <2>1 DEF ProcInv, Live
  <2>4. (OneWorkerPerName /\ MapIsExact)'
    BY <2>1, <2>2 DEF OneWorkerPerName, MapIsExact
  <2>. QED BY <2>3, <2>4
<1>. QED BY <1>1, <1>2, <1>3, <1>4, <1>5, <1>6, <1>7, <1>8, SupervisorStep
         DEF SupervisorInv

\* Two requests never both start the same VM, and the map finds exactly the
\* workers the daemon has not dropped, whatever fails and however many
\* names, plans, PIDs and handlers there are.
THEOREM SupervisorIsExact == Spec => [](OneWorkerPerName /\ MapIsExact)
<1>1. SupervisorInv => OneWorkerPerName /\ MapIsExact
  BY DEF SupervisorInv
<1>. QED BY <1>1, SupervisorInit, SupervisorNext, PTL DEF Spec

\* Two concurrent requests never both start one VM.
THEOREM NeverTwoWorkers == Spec => []OneWorkerPerName
BY SupervisorIsExact, PTL

-----------------------------------------------------------------------------
(***************************************************************************)
(* The contents of the file.  What is in it comes from what some client    *)
(* had loaded, so the drafts are part of the invariant; and an outcome,    *)
(* once a worker has one, is never another, so that what justified a       *)
(* record still does.                                                      *)
(***************************************************************************)
OutcomeInv ==
  \A w \in Plans : pc[w] \in {"idle", "booting"} \cup Unarmed => outcome[w] = "none"

FilesInv == TypeOK /\ OutcomeInv /\ NoInventedOutcome

LEMMA OutcomeStep ==
  ASSUME TypeOK, OutcomeInv, [Next]_vars
  PROVE  /\ OutcomeInv'
         /\ \A w \in Plans : outcome[w] = "none" \/ outcome'[w] = outcome[w]
<1>. DEFINE Early == {"idle", "booting"} \cup Unarmed
            Goal == /\ OutcomeInv'
                    /\ \A w \in Plans : outcome[w] = "none" \/ outcome'[w] = outcome[w]
<1>1. ASSUME outcome' = outcome,
             \A w \in Plans : pc'[w] \in Early => pc[w] \in Early
      PROVE  Goal
  BY <1>1 DEF OutcomeInv
<1>2. CASE UNCHANGED vars
  BY <1>1, <1>2 DEF vars, workerVars
<1>3. ASSUME NEW w \in Plans, Provision(w) \/ StartCli(w) PROVE Goal
  <2>1. pc[w] = "idle" /\ pc' = [pc EXCEPT ![w] = "planned"] /\ outcome' = outcome
    BY <1>3 DEF Provision, StartCli, Spawn
  <2>. QED BY <1>1, <2>1 DEF TypeOK
<1>4. ASSUME NEW w \in Plans,
             Refused(w) \/ SetHandler(w) \/ LedgerStep(w) \/ CtrlC(w) \/ Crash(w)
      PROVE  Goal
  <2>1. outcome' = outcome
    BY <1>4 DEF Refused, SetHandler, LedgerStep, DeclareLoad, DeclareTruncate,
                DeclareWrite, MarkLoad, MarkTruncate, MarkWrite, CtrlC, Crash, workerVars
  <2>2. CASE SetHandler(w) \/ DeclareLoad(w) \/ DeclareTruncate(w) \/ DeclareWrite(w)
    <3>1. pc[w] \in Unarmed /\ \E l : pc' = [pc EXCEPT ![w] = l]
      BY <2>2 DEF SetHandler, DeclareLoad, DeclareTruncate, DeclareWrite, Goto, Exit, Unarmed
    <3>. QED BY <1>1, <2>1, <3>1 DEF TypeOK
  <2>3. CASE MarkLoad(w) \/ MarkTruncate(w) \/ MarkWrite(w)
    <3>1. \E l \in {"marking", "markWrite", "unmarked", "done"} : pc' = [pc EXCEPT ![w] = l]
      BY <2>3 DEF MarkLoad, MarkTruncate, MarkWrite, Goto, Exit
    <3>. QED BY <1>1, <2>1, <3>1 DEF TypeOK, Unarmed
  <2>4. CASE Refused(w) \/ CtrlC(w) \/ Crash(w)
    <3>1. pc' = pc \/ \E l \in Ended : pc' = [pc EXCEPT ![w] = l]
      BY <2>4 DEF Refused, CtrlC, Crash, Interrupt, Exit, Ended
    <3>. QED BY <1>1, <2>1, <3>1 DEF TypeOK, Unarmed, Ended
  <2>. QED BY <1>4, <2>2, <2>3, <2>4 DEF LedgerStep
<1>5. ASSUME NEW w \in Plans, NEW st \in {"Stopped", "Failed"}, GuestEnds(w, st)
      PROVE  Goal
  <2>1. /\ pc[w] = "booting" /\ pc' = [pc EXCEPT ![w] = "ended"]
        /\ outcome' = [outcome EXCEPT ![w] = st]
    BY <1>5 DEF GuestEnds, Goto
  <2>2. outcome[w] = "none"
    BY <2>1 DEF OutcomeInv
  <2>. QED BY <2>1, <2>2 DEF TypeOK, OutcomeInv, Unarmed
<1>6. ASSUME NEW t \in Tools,
             \/ ToolTruncate(t) \/ ToolWrite(t) \/ ToolCrash(t)
             \/ \E n \in Names : ToolLoad(t, n)
      PROVE  Goal
  BY <1>1, <1>6 DEF ToolTruncate, ToolWrite, ToolCrash, ToolLoad, workerVars
<1>7. ASSUME NEW h \in Handlers, NEW n \in Names, StopLookup(h, n) PROVE Goal
  BY <1>1, <1>7 DEF StopLookup, workerVars
<1>8. ASSUME NEW h \in Handlers, StopKill(h) PROVE Goal
  <2>1. outcome' = outcome /\ (pc' = pc \/ \E w \in Plans : pc' = [pc EXCEPT ![w] = "sigint"])
    BY <1>8 DEF StopKill, Interrupt, Exit
  <2>. QED BY <1>1, <2>1 DEF TypeOK, Unarmed
<1>9. ASSUME NEW w \in Plans, ReapWait(w) \/ ReapRemove(w) PROVE Goal
  BY <1>1, <1>9 DEF ReapWait, ReapRemove, workerVars
<1>10. CASE DaemonCrash
  BY <1>1, <1>10 DEF DaemonCrash, workerVars
<1>. QED BY <1>2, <1>3, <1>4, <1>5, <1>6, <1>7, <1>8, <1>9, <1>10, PlanAssumption DEF Next

\* How the phases of the clients change when one of them moves on.
SamePhase(b) ==
  (InTransaction(b)' <=> InTransaction(b)) /\ (Writing(b)' <=> Writing(b))

LEMMA PlanPhase ==
  ASSUME TypeOK, NEW w \in Plans, NEW l, pc' = [pc EXCEPT ![w] = l], tool' = tool
  PROVE  /\ \A b \in Clients \ {w} : SamePhase(b)
         /\ Writing(w)' <=> l \in {"declareWrite", "markWrite"}
         /\ l \notin {"declaring", "declareWrite", "marking", "markWrite"} =>
              ~ InTransaction(w)'
<1>1. pc'[w] = l /\ \A b \in Plans \ {w} : pc'[b] = pc[b]
  BY DEF TypeOK
<1>2. ASSUME NEW b \in Clients \ {w} PROVE SamePhase(b)
  BY <1>1, <1>2 DEF SamePhase, InTransaction, Writing
<1>. QED BY <1>1, <1>2 DEF InTransaction, Writing

LEMMA ToolPhase ==
  ASSUME TypeOK, NEW t \in Tools, NEW l, tool' = [tool EXCEPT ![t] = l], pc' = pc
  PROVE  /\ \A b \in Clients \ {t} : SamePhase(b)
         /\ l # "write" => ~ Writing(t)'
         /\ l = "write" => Writing(t)'
         /\ l = "idle" => ~ InTransaction(t)'
<1>1. t \notin Plans /\ tool'[t] = l /\ \A b \in Tools \ {t} : tool'[b] = tool[b]
  BY PlanAssumption DEF TypeOK
<1>2. ASSUME NEW b \in Clients \ {t} PROVE SamePhase(b)
  BY <1>1, <1>2 DEF SamePhase, InTransaction, Writing, Clients
<1>. QED BY <1>1, <1>2 DEF InTransaction, Writing

\* What a load leaves in memory, changed and not yet saved.
Redrafted(c) ==
  \/ /\ c \in Plans /\ pc[c] = "planned" /\ pc'[c] = "declaring"
     /\ draft'[c] = RecordPlan(ledger, VmOf[c], c)
  \/ /\ c \in Plans /\ pc[c] = "ended" /\ pc'[c] = "marking"
     /\ CanSetState(ledger, VmOf[c], outcome[c])
     /\ draft'[c] = SetState(ledger, VmOf[c], outcome[c])
  \/ /\ c \in Tools
     /\ \E n \in Names : Has(ledger, n) /\ draft'[c] = ForgetName(ledger, n)

\* The ways a step can touch the file and the drafts: none, and the three
\* steps of a transaction.
Quiet ==
  /\ UNCHANGED fileVars
  /\ \A c \in Clients : /\ draft'[c] = draft[c] \/ draft'[c] = << >>
                        /\ InTransaction(c)' => SamePhase(c) /\ draft'[c] = draft[c]
Others(c) == \A b \in Clients \ {c} : draft'[b] = draft[b] /\ SamePhase(b)
Loads(c) ==
  LedgerFree /\ UNCHANGED fileVars /\ Redrafted(c) /\ ~ Writing(c)' /\ Others(c)
Truncates(c) ==
  /\ InTransaction(c) /\ ~ Writing(c)
  /\ Truncate /\ draft'[c] = draft[c] /\ Writing(c)' /\ Others(c)
Saves(c) ==
  /\ Writing(c) /\ WriteText(c) /\ draft'[c] = << >> /\ ~ InTransaction(c)'
  /\ Others(c)

LEMMA DraftOf ==
  ASSUME TypeOK, NEW c \in Clients, NEW d, draft' = [draft EXCEPT ![c] = d]
  PROVE  draft'[c] = d /\ \A b \in Clients \ {c} : draft'[b] = draft[b]
BY DEF TypeOK, Clients

\* A worker that leaves its transaction, or was in none, is quiet.
LEMMA QuietPlan ==
  ASSUME TypeOK, NEW w \in Plans, NEW l, UNCHANGED fileVars, tool' = tool,
         pc' = [pc EXCEPT ![w] = l], draft' = draft \/ Drop(w),
         l \notin {"declaring", "declareWrite", "marking", "markWrite"}
  PROVE  Quiet
<1>1. w \in Clients
  BY DEF Clients
<1>2. /\ \A b \in Clients \ {w} : SamePhase(b)
      /\ ~ Writing(w)' /\ ~ InTransaction(w)'
  BY PlanPhase
<1>3. /\ draft'[w] = draft[w] \/ draft'[w] = << >>
      /\ \A b \in Clients \ {w} : draft'[b] = draft[b]
  BY <1>1, DraftOf DEF Drop
<1>. QED BY <1>1, <1>2, <1>3 DEF Quiet, SamePhase

LEMMA QuietTool ==
  ASSUME TypeOK, NEW t \in Tools, UNCHANGED fileVars, pc' = pc,
         tool' = [tool EXCEPT ![t] = "idle"], Drop(t)
  PROVE  Quiet
<1>1. t \in Clients
  BY DEF Clients
<1>2. /\ \A b \in Clients \ {t} : SamePhase(b)
      /\ ~ Writing(t)' /\ ~ InTransaction(t)'
  <2>1. "idle" # "write"
    OBVIOUS
  <2>. QED BY <2>1, ToolPhase, Zenon
<1>3. /\ draft'[t] = draft[t] \/ draft'[t] = << >>
      /\ \A b \in Clients \ {t} : draft'[b] = draft[b]
  BY <1>1, DraftOf DEF Drop
<1>. QED BY <1>1, <1>2, <1>3 DEF Quiet, SamePhase

LEMMA QuietRest ==
  ASSUME UNCHANGED <<fileVars, draft, pc, tool>>
  PROVE  Quiet
BY DEF Quiet, SamePhase, InTransaction, Writing, fileVars

LEMMA FileStep ==
  ASSUME TypeOK, [Next]_vars
  PROVE  Quiet \/ \E c \in Clients : Loads(c) \/ Truncates(c) \/ Saves(c)
<1>. DEFINE Goal == Quiet \/ \E c \in Clients : Loads(c) \/ Truncates(c) \/ Saves(c)
<1>. Plans \subseteq Clients /\ Tools \subseteq Clients
  BY DEF Clients
<1>1. CASE UNCHANGED vars
  BY <1>1, QuietRest DEF vars
<1>2. ASSUME NEW w \in Plans, Interrupt(w), UNCHANGED <<fileVars, tool>> PROVE Quiet
  <2>1. CASE pc[w] \in Unarmed
    BY <1>2, <2>1, QuietPlan DEF Interrupt, Exit
  <2>2. CASE pc[w] \notin Unarmed
    BY <1>2, <2>2, QuietRest DEF Interrupt
  <2>. QED BY <2>1, <2>2
<1>3. ASSUME NEW w \in Plans, DeclareLoad(w) PROVE Goal
  <2>1. tool' = tool /\ UNCHANGED fileVars /\ LedgerFree
    BY <1>3 DEF DeclareLoad
  <2>2. CASE Goto(w, "declaring") /\ draft' = [draft EXCEPT ![w] = RecordPlan(ledger, VmOf[w], w)]
    <3>1. ~ Writing(w)' /\ \A b \in Clients \ {w} : SamePhase(b)
      <4>1. "declaring" \notin {"declareWrite", "markWrite"}
        OBVIOUS
      <4>2. pc' = [pc EXCEPT ![w] = "declaring"]
        BY <2>2 DEF Goto
      <4>. QED BY <2>1, <4>1, <4>2, PlanPhase, Zenon
    <3>2. Others(w) /\ draft'[w] = RecordPlan(ledger, VmOf[w], w)
      BY <2>2, <3>1, DraftOf DEF Others
    <3>3. pc[w] = "planned" /\ pc'[w] = "declaring"
      BY <1>3, <2>2 DEF DeclareLoad, Goto, TypeOK
    <3>. QED BY <2>1, <3>1, <3>2, <3>3 DEF Loads, Redrafted
  <2>3. CASE Goto(w, "recorded") /\ draft' = draft
    BY <2>1, <2>3, QuietPlan DEF Goto
  <2>. QED BY <1>3, <2>2, <2>3 DEF DeclareLoad
<1>4. ASSUME NEW w \in Plans, MarkLoad(w) PROVE Goal
  <2>1. tool' = tool /\ UNCHANGED fileVars /\ LedgerFree
    BY <1>4 DEF MarkLoad
  <2>2. CASE /\ Goto(w, "marking") /\ CanSetState(ledger, VmOf[w], outcome[w])
             /\ draft' = [draft EXCEPT ![w] = SetState(ledger, VmOf[w], outcome[w])]
    <3>1. ~ Writing(w)' /\ \A b \in Clients \ {w} : SamePhase(b)
      <4>1. "marking" \notin {"declareWrite", "markWrite"}
        OBVIOUS
      <4>2. pc' = [pc EXCEPT ![w] = "marking"]
        BY <2>2 DEF Goto
      <4>. QED BY <2>1, <4>1, <4>2, PlanPhase, Zenon
    <3>2. Others(w) /\ draft'[w] = SetState(ledger, VmOf[w], outcome[w])
      BY <2>2, <3>1, DraftOf DEF Others
    <3>3. pc[w] = "ended" /\ pc'[w] = "marking"
      BY <1>4, <2>2 DEF MarkLoad, Goto, TypeOK
    <3>. QED BY <2>1, <2>2, <3>1, <3>2, <3>3 DEF Loads, Redrafted
  <2>3. CASE Exit(w, "unmarked") /\ draft' = draft
    BY <2>1, <2>3, QuietPlan DEF Exit
  <2>. QED BY <1>4, <2>2, <2>3 DEF MarkLoad
<1>5. ASSUME NEW w \in Plans, DeclareTruncate(w) \/ MarkTruncate(w) PROVE Goal
  <2>1. tool' = tool /\ InTransaction(w) /\ ~ Writing(w)
    BY <1>5 DEF DeclareTruncate, MarkTruncate, InTransaction, Writing
  <2>2. CASE /\ Truncate /\ draft' = draft
             /\ \E l \in {"declareWrite", "markWrite"} : Goto(w, l)
    <3>1. Writing(w)' /\ \A b \in Clients \ {w} : SamePhase(b)
      BY <2>1, <2>2, PlanPhase DEF Goto
    <3>. QED BY <2>1, <2>2, <3>1 DEF Truncates, Others
  <2>3. CASE Drop(w) /\ UNCHANGED fileVars /\ (Goto(w, "recorded") \/ Exit(w, "unmarked"))
    BY <2>1, <2>3, QuietPlan DEF Goto, Exit
  <2>. QED BY <1>5, <2>2, <2>3 DEF DeclareTruncate, MarkTruncate
<1>6. ASSUME NEW w \in Plans, DeclareWrite(w) \/ MarkWrite(w) PROVE Goal
  <2>1. tool' = tool /\ Writing(w) /\ WriteText(w) /\ Drop(w)
    BY <1>6 DEF DeclareWrite, MarkWrite, Writing
  <2>2. pc' = [pc EXCEPT ![w] = "recorded"] \/ pc' = [pc EXCEPT ![w] = "done"]
    BY <1>6 DEF DeclareWrite, MarkWrite, Goto, Exit
  <2>3. ~ InTransaction(w)' /\ \A b \in Clients \ {w} : SamePhase(b)
    BY <2>1, <2>2, PlanPhase
  <2>4. draft'[w] = << >> /\ Others(w)
    BY <2>1, <2>3, DraftOf DEF Drop, Others
  <2>. QED BY <2>1, <2>3, <2>4 DEF Saves
<1>7. ASSUME NEW t \in Tools, NEW n \in Names, ToolLoad(t, n) PROVE Goal
  <2>1. ~ Writing(t)' /\ \A b \in Clients \ {t} : SamePhase(b)
    <3>1. tool' = [tool EXCEPT ![t] = "loaded"] /\ pc' = pc
      BY <1>7 DEF ToolLoad
    <3>2. "loaded" # "write"
      OBVIOUS
    <3>. QED BY <3>1, <3>2, ToolPhase, Zenon
  <2>2. Redrafted(t) /\ Others(t)
    BY <1>7, <2>1, DraftOf DEF ToolLoad, Redrafted, Others
  <2>. QED BY <1>7, <2>1, <2>2 DEF ToolLoad, Loads
<1>8. ASSUME NEW t \in Tools, ToolTruncate(t) PROVE Goal
  <2>1. pc' = pc /\ InTransaction(t) /\ ~ Writing(t)
    BY <1>8, PlanAssumption DEF ToolTruncate, InTransaction, Writing
  <2>2. CASE Truncate /\ draft' = draft /\ tool' = [tool EXCEPT ![t] = "write"]
    <3>1. Writing(t)' /\ \A b \in Clients \ {t} : SamePhase(b)
      BY <2>1, <2>2, ToolPhase
    <3>. QED BY <2>1, <2>2, <3>1 DEF Truncates, Others
  <2>3. CASE Drop(t) /\ UNCHANGED fileVars /\ tool' = [tool EXCEPT ![t] = "idle"]
    BY <2>1, <2>3, QuietTool
  <2>. QED BY <1>8, <2>2, <2>3 DEF ToolTruncate
<1>9. ASSUME NEW t \in Tools, ToolWrite(t) PROVE Goal
  <2>1. pc' = pc /\ Writing(t) /\ WriteText(t) /\ Drop(t) /\ tool' = [tool EXCEPT ![t] = "idle"]
    BY <1>9, PlanAssumption DEF ToolWrite, Writing
  <2>2. ~ InTransaction(t)' /\ \A b \in Clients \ {t} : SamePhase(b)
    BY <2>1, ToolPhase
  <2>3. draft'[t] = << >> /\ Others(t)
    BY <2>1, <2>2, DraftOf DEF Drop, Others
  <2>. QED BY <2>1, <2>2, <2>3 DEF Saves
<1>10. ASSUME NEW t \in Tools, ToolCrash(t) PROVE Goal
  BY <1>10, QuietTool DEF ToolCrash
<1>11. ASSUME NEW w \in Plans, CtrlC(w) \/ Crash(w) PROVE Goal
  <2>1. CASE CtrlC(w)
    BY <1>2, <2>1 DEF CtrlC
  <2>2. CASE Crash(w)
    BY <2>2, QuietPlan DEF Crash, Exit
  <2>. QED BY <1>11, <2>1, <2>2
<1>12. ASSUME NEW h \in Handlers, StopKill(h) PROVE Goal
  <2>1. UNCHANGED <<fileVars, tool>>
    BY <1>12 DEF StopKill
  <2>2. CASE \E w \in Plans : Interrupt(w)
    BY <1>2, <2>1, <2>2
  <2>3. CASE UNCHANGED <<draft, pc, proc, stopFlag>>
    BY <2>1, <2>3, QuietRest
  <2>. QED BY <1>12, <2>2, <2>3 DEF StopKill
<1>13. ASSUME NEW w \in Plans, Refused(w) \/ SetHandler(w) PROVE Goal
  <2>1. UNCHANGED <<fileVars, draft, tool>>
    BY <1>13 DEF Refused, SetHandler
  <2>2. pc' = [pc EXCEPT ![w] = "quit"] \/ pc' = [pc EXCEPT ![w] = "booting"]
    BY <1>13 DEF Refused, SetHandler, Exit, Goto
  <2>. QED BY <2>1, <2>2, QuietPlan
<1>14. ASSUME NEW w \in Plans, NEW st \in {"Stopped", "Failed"}, GuestEnds(w, st)
       PROVE  Goal
  BY <1>14, QuietPlan DEF GuestEnds, Goto
<1>15. ASSUME NEW w \in Plans, Provision(w) \/ StartCli(w) PROVE Goal
  BY <1>15, QuietPlan DEF Provision, StartCli, Spawn
<1>16. ASSUME \/ \E w \in Plans : ReapWait(w) \/ ReapRemove(w)
              \/ \E h \in Handlers, n \in Names : StopLookup(h, n)
              \/ DaemonCrash
       PROVE  Goal
  BY <1>16, QuietRest DEF ReapWait, ReapRemove, StopLookup, DaemonCrash
<1>. QED BY <1>1, <1>3, <1>4, <1>5, <1>6, <1>7, <1>8, <1>9, <1>10, <1>11, <1>12,
            <1>13, <1>14, <1>15, <1>16, PlanAssumption DEF Next, LedgerStep

LEMMA FilesInit == Init => FilesInv
<1>. SUFFICES ASSUME Init PROVE FilesInv
  OBVIOUS
<1>1. ledger = << >> /\ \A c \in Clients : draft[c] = << >>
  BY DEF Init, Clients
<1>2. OutcomeInv
  BY DEF Init, OutcomeInv
<1>3. Justified(<< >>)
  BY EmptyLedger DEF Justified
<1>. QED BY <1>1, <1>2, <1>3, TypeInit DEF FilesInv, NoInventedOutcome, Clients

LEMMA FilesNext == "short" \notin Faults /\ FilesInv /\ [Next]_vars => FilesInv'
<1>. SUFFICES ASSUME "short" \notin Faults, FilesInv, [Next]_vars PROVE FilesInv'
  OBVIOUS
<1>. DEFINE Ok(r) == \/ r.state = "Booting"
                     \/ \E w \in Plans : VmOf[w] = r.name /\ outcome'[w] = r.state
            Good(s) == \A i \in DOMAIN s : Ok(s[i])
            AllGood == Good(ledger') /\ \A c \in Clients : Good(draft'[c])
<1>1. TypeOK /\ TypeOK' /\ OutcomeInv'
  BY TypeNext, OutcomeStep DEF FilesInv
<1>2. \A w \in Plans : outcome[w] = "none" \/ outcome'[w] = outcome[w]
  BY OutcomeStep DEF FilesInv
<1>3. ledger \in Ledgers /\ \A c \in Clients : draft[c] \in Ledgers
  BY <1>1 DEF TypeOK, Clients
<1>4. ASSUME NEW s \in Ledgers, Justified(s) PROVE Good(s)
  <2>1. ASSUME NEW i \in DOMAIN s PROVE Ok(s[i])
    <3>1. s[i] \in VmRecord
      BY <1>4, <2>1, LenProperties DEF Ledgers
    <3>2. s[i].state # "none"
      BY <3>1 DEF VmRecord, VmLifecycle
    <3>. QED BY <1>2, <1>4, <2>1, <3>2 DEF Justified
  <2>. QED BY <2>1
<1>5. Good(ledger) /\ \A c \in Clients : Good(draft[c])
  <2>1. Justified(ledger) /\ \A c \in Clients : Justified(draft[c])
    BY DEF FilesInv, NoInventedOutcome, Clients
  <2>. HIDE DEF Good
  <2>. QED BY <1>3, <1>4, <2>1
<1>6. Good(<< >>)
  BY EmptyLedger
<1>7. ASSUME NEW c \in Clients, WriteText(c) PROVE Good(ledger')
  <2>1. \A i \in DOMAIN ledger' :
          \/ \E k \in DOMAIN ledger : ledger'[i] = ledger[k]
          \/ \E k \in DOMAIN draft[c] : ledger'[i] = draft[c][k]
    BY <1>1, <1>7, WriteTextProperties
  <2>2. ASSUME NEW i \in DOMAIN ledger' PROVE Ok(ledger'[i])
    <3>. HIDE DEF Ok
    <3>. QED BY <1>5, <2>1
  <2>. QED BY <2>2
<1>8. ASSUME NEW c \in Clients, Redrafted(c) PROVE Good(draft'[c])
  <2>1. CASE c \in Plans /\ draft'[c] = RecordPlan(ledger, VmOf[c], c)
    <3>. DEFINE r == RecordPlan(ledger, VmOf[c], c)
    <3>0. ledger \in Ledgers /\ c \in Plans /\ VmOf[c] \in Names
      BY <1>3, <2>1, PlanAssumption
    <3>1. /\ r \in Ledgers /\ Len(r) \in 1..MaxRecords
          /\ r[Len(r)] = FromPlan(VmOf[c], c)
          /\ \A i \in 1..(Len(r) - 1) : \E k \in DOMAIN ledger : ledger[k] = r[i]
      BY <3>0, RecordPlanProperties
    <3>. HIDE DEF r
    <3>2. DOMAIN r = 1..Len(r)
      BY <3>1, LenProperties DEF Ledgers
    <3>3. ASSUME NEW i \in DOMAIN r PROVE Ok(r[i])
      <4>1. CASE i = Len(r)
        BY <3>1, <4>1 DEF FromPlan
      <4>2. CASE i # Len(r)
        <5>1. i \in 1..(Len(r) - 1)
          BY <3>1, <3>2, <4>2
        <5>. HIDE DEF Ok
        <5>. QED BY <1>5, <3>1, <5>1
      <4>. QED BY <4>1, <4>2
    <3>4. draft'[c] = r
      BY <2>1 DEF r
    <3>. QED BY <3>3, <3>4
  <2>2. CASE /\ c \in Plans /\ CanSetState(ledger, VmOf[c], outcome[c])
             /\ draft'[c] = SetState(ledger, VmOf[c], outcome[c])
    <3>. DEFINE r == SetState(ledger, VmOf[c], outcome[c])
    <3>1. outcome[c] \in VmLifecycle /\ VmOf[c] \in Names
      BY <2>2, PlanAssumption DEF CanSetState, CanTransitionTo, VmLifecycle
    <3>2. DOMAIN r = DOMAIN ledger
      BY <1>3, <2>2, <3>1, SetStateProperties
    <3>3. ASSUME NEW i \in DOMAIN ledger PROVE Ok(r[i])
      <4>1. CASE IsFirst(ledger, VmOf[c], i)
        <5>1. ledger[i] \in VmRecord
          BY <1>3, LenProperties DEF Ledgers
        <5>2. r[i] = [ledger[i] EXCEPT !.state = outcome[c]] /\ ledger[i].name = VmOf[c]
          BY <4>1 DEF SetState, IsFirst
        <5>3. r[i].state = outcome[c] /\ r[i].name = VmOf[c]
          BY <5>1, <5>2 DEF VmRecord
        <5>4. outcome'[c] = outcome[c]
          BY <1>2, <2>2, <3>1 DEF VmLifecycle
        <5>. QED BY <2>2, <5>3, <5>4
      <4>2. CASE ~ IsFirst(ledger, VmOf[c], i)
        <5>1. r[i] = ledger[i]
          BY <3>3, <4>2 DEF SetState
        <5>2. Ok(ledger[i])
          BY <1>5, <3>3
        <5>. QED BY <5>1, <5>2
      <4>. QED BY <4>1, <4>2
    <3>. HIDE DEF r, Ok
    <3>4. draft'[c] = r
      BY <2>2 DEF r
    <3>. QED BY <3>2, <3>3, <3>4
  <2>3. ASSUME NEW n \in Names, draft'[c] = ForgetName(ledger, n) PROVE Good(draft'[c])
    <3>. DEFINE r == Retain(ledger, n)
    <3>1. \A i \in DOMAIN r : \E k \in DOMAIN ledger : ledger[k] = r[i]
      BY <1>3, RetainProperties DEF Ledgers
    <3>2. draft'[c] = r
      BY <2>3 DEF ForgetName
    <3>. HIDE DEF r, Ok
    <3>3. \A i \in DOMAIN r : Ok(r[i])
      BY <1>5, <3>1
    <3>. QED BY <3>2, <3>3
  <2>. HIDE DEF Good
  <2>. QED BY <1>8, <2>1, <2>2, <2>3 DEF Redrafted
<1>9. AllGood
  <2>. HIDE DEF Good
  <2>1. CASE Quiet
    BY <1>5, <1>6, <2>1 DEF Quiet, fileVars
  <2>2. ASSUME NEW c \in Clients, Loads(c) PROVE AllGood
    BY <1>5, <1>8, <2>2 DEF Loads, Others, fileVars
  <2>3. ASSUME NEW c \in Clients, Truncates(c) PROVE AllGood
    BY <1>5, <1>6, <2>3 DEF Truncates, Truncate, Others
  <2>4. ASSUME NEW c \in Clients, Saves(c) PROVE AllGood
    BY <1>5, <1>6, <1>7, <2>4 DEF Saves, Others
  <2>. QED BY <1>1, <2>1, <2>2, <2>3, <2>4, FileStep
<1>10. NoInventedOutcome'
  BY <1>9 DEF NoInventedOutcome, Justified, Clients
<1>. QED BY <1>1, <1>10 DEF FilesInv

\* However transactions, crashes, truncations and failed calls interleave,
\* the file holds no outcome that no worker of that name had.
THEOREM FileIsHonest == "short" \notin Faults => (Spec => []NoInventedOutcome)
<1>. SUFFICES ASSUME "short" \notin Faults PROVE Spec => []NoInventedOutcome
  OBVIOUS
<1>1. FilesInv => NoInventedOutcome
  BY DEF FilesInv
<1>2. FilesInv /\ [Next]_vars => FilesInv'
  BY FilesNext
<1>. QED BY <1>1, <1>2, FilesInit, PTL DEF Spec

-----------------------------------------------------------------------------
(***************************************************************************)
(* What it takes for the file to be a ledger: transactions that do not     *)
(* overlap.  A save then always writes into the file it has itself         *)
(* emptied, so nothing of an older text is left.                           *)
(***************************************************************************)
Sound(s) == Len(s) <= MaxRecords /\ UniqueNames(s)

SerialInv ==
  /\ TypeOK
  /\ \A b, c \in Clients : InTransaction(b) /\ InTransaction(c) => b = c
  /\ \A c \in Clients : Writing(c) => InTransaction(c) /\ ledger = << >> /\ ~ malformed
  /\ Sound(ledger) /\ \A c \in Clients : Sound(draft[c])

LEMMA SerialInit == Init => SerialInv
<1>. SUFFICES ASSUME Init PROVE SerialInv
  OBVIOUS
<1>1. ledger = << >> /\ \A c \in Clients : draft[c] = << >>
  BY DEF Init, Clients
<1>2. Sound(<< >>)
  BY EmptyLedger, MaxRecordsAssumption DEF Sound, UniqueNames
<1>3. \A c \in Clients : ~ InTransaction(c) /\ ~ Writing(c)
  BY DEF Init, InTransaction, Writing, Clients
<1>. QED BY <1>1, <1>2, <1>3, TypeInit DEF SerialInv

LEMMA LoadIsSound ==
  ASSUME TypeOK, Sound(ledger), NEW c \in Clients, Redrafted(c)
  PROVE  Sound(draft'[c])
<1>1. ledger \in Ledgers
  BY DEF TypeOK
<1>2. Len(ledger) \in Nat
  BY <1>1, LenProperties DEF Ledgers
<1>3. CASE c \in Plans /\ draft'[c] = RecordPlan(ledger, VmOf[c], c)
  <2>. DEFINE r == RecordPlan(ledger, VmOf[c], c)
  <2>1. Len(r) \in 1..MaxRecords /\ (UniqueNames(ledger) => UniqueNames(r))
    BY <1>1, <1>3, RecordPlanProperties, PlanAssumption
  <2>2. draft'[c] = r
    BY <1>3
  <2>. HIDE DEF r
  <2>. QED BY <2>1, <2>2, MaxRecordsAssumption DEF Sound
<1>4. CASE /\ c \in Plans /\ CanSetState(ledger, VmOf[c], outcome[c])
           /\ draft'[c] = SetState(ledger, VmOf[c], outcome[c])
  <2>. DEFINE r == SetState(ledger, VmOf[c], outcome[c])
  <2>1. outcome[c] \in VmLifecycle /\ VmOf[c] \in Names
    BY <1>4, PlanAssumption DEF CanSetState, CanTransitionTo, VmLifecycle
  <2>2. /\ Len(r) = Len(ledger) /\ DOMAIN r = DOMAIN ledger
        /\ \A i \in DOMAIN ledger : r[i].name = ledger[i].name
    BY <1>1, <1>4, <2>1, SetStateProperties
  <2>3. draft'[c] = r
    BY <1>4
  <2>. HIDE DEF r
  <2>. QED BY <2>2, <2>3 DEF Sound, UniqueNames
<1>5. ASSUME NEW n \in Names, draft'[c] = ForgetName(ledger, n) PROVE Sound(draft'[c])
  <2>. DEFINE r == Retain(ledger, n)
  <2>1. Len(r) \in 0..Len(ledger) /\ (UniqueNames(ledger) => UniqueNames(r))
    BY <1>1, RetainProperties DEF Ledgers
  <2>2. draft'[c] = r
    BY <1>5 DEF ForgetName
  <2>. HIDE DEF r
  <2>. QED BY <1>2, <2>1, <2>2, MaxRecordsAssumption DEF Sound
<1>. QED BY <1>3, <1>4, <1>5 DEF Redrafted

LEMMA SerialNext == SerialLedger /\ SerialInv /\ [Next]_vars => SerialInv'
<1>. SUFFICES ASSUME SerialLedger, SerialInv, [Next]_vars PROVE SerialInv'
  OBVIOUS
<1>1. TypeOK /\ TypeOK'
  BY TypeNext DEF SerialInv
<1>2. Sound(<< >>)
  BY EmptyLedger, MaxRecordsAssumption DEF Sound, UniqueNames
<1>3. CASE Quiet
  <2>1. \A c \in Clients : Sound(draft'[c])
    BY <1>2, <1>3 DEF Quiet, SerialInv
  <2>2. ledger' = ledger /\ malformed' = malformed
    BY <1>3 DEF Quiet, fileVars
  <2>3. \A c \in Clients : Writing(c)' =>
          InTransaction(c)' /\ ledger' = << >> /\ ~ malformed'
    BY <1>3, <2>2 DEF Quiet, SerialInv, InTransaction, SamePhase
  <2>4. \A b, c \in Clients : InTransaction(b)' /\ InTransaction(c)' => b = c
    BY <1>3 DEF Quiet, SerialInv, SamePhase
  <2>. QED BY <1>1, <2>1, <2>2, <2>3, <2>4 DEF SerialInv
<1>4. ASSUME NEW c \in Clients, Loads(c) PROVE SerialInv'
  <2>1. /\ \A b \in Clients : ~ InTransaction(b)
        /\ ledger' = ledger /\ malformed' = malformed
    BY <1>4 DEF Loads, LedgerFree, Clients, fileVars
  <2>2. \A b \in Clients \ {c} : ~ InTransaction(b)'
    BY <1>4, <2>1 DEF Loads, Others, SamePhase
  <2>3. \A b \in Clients : ~ Writing(b)'
    BY <1>4, <2>2 DEF Loads, InTransaction
  <2>4. \A b \in Clients : Sound(draft'[b])
    BY <1>1, <1>4, LoadIsSound DEF Loads, Others, SerialInv
  <2>5. \A a, b \in Clients : InTransaction(a)' /\ InTransaction(b)' => a = b
    BY <2>2
  <2>. QED BY <1>1, <2>1, <2>3, <2>4, <2>5 DEF SerialInv
<1>5. ASSUME NEW c \in Clients, Truncates(c) PROVE SerialInv'
  <2>1. ledger' = << >> /\ ~ malformed'
    BY <1>5 DEF Truncates, Truncate
  <2>2. \A b \in Clients \ {c} : ~ InTransaction(b)'
    BY <1>5 DEF Truncates, Others, SamePhase, SerialInv
  <2>3. \A b \in Clients : Sound(draft'[b])
    BY <1>5 DEF Truncates, Others, SerialInv
  <2>4. \A a, b \in Clients : InTransaction(a)' /\ InTransaction(b)' => a = b
    BY <2>2
  <2>5. \A b \in Clients : Writing(b)' => InTransaction(b)'
    BY DEF InTransaction
  <2>. QED BY <1>1, <1>2, <2>1, <2>3, <2>4, <2>5 DEF SerialInv
<1>6. ASSUME NEW c \in Clients, Saves(c) PROVE SerialInv'
  <2>1. ledger = << >> /\ ~ malformed /\ InTransaction(c) /\ Sound(draft[c])
    BY <1>6 DEF Saves, SerialInv
  <2>2. /\ Len(ledger') <= Len(draft[c]) /\ (UniqueNames(draft[c]) => UniqueNames(ledger'))
        /\ ledger' \in Ledgers
    BY <1>1, <1>6, <2>1, WriteTextProperties DEF Saves
  <2>3. Len(draft[c]) \in Nat /\ Len(ledger') \in Nat
    BY <1>1, <2>2, LenProperties DEF TypeOK, Ledgers, Clients
  <2>4. Sound(ledger')
    BY <2>1, <2>2, <2>3, MaxRecordsAssumption DEF Sound
  <2>5. \A b \in Clients : ~ InTransaction(b)'
    BY <1>6, <2>1 DEF Saves, Others, SamePhase, SerialInv
  <2>6. \A b \in Clients : ~ Writing(b)'
    BY <2>5 DEF InTransaction
  <2>7. \A b \in Clients : Sound(draft'[b])
    BY <1>2, <1>6 DEF Saves, Others, SerialInv
  <2>. QED BY <1>1, <2>4, <2>5, <2>6, <2>7 DEF SerialInv
<1>. QED BY <1>1, <1>3, <1>4, <1>5, <1>6, FileStep

\* When no two transactions overlap, the file has one record for a name and
\* no more than MAX_RECORDS of them, whatever crashes and wherever a write is
\* cut short.
THEOREM SerialFileIsALedger ==
  SerialLedger => (Spec => []FileIsALedger)
<1>. SUFFICES ASSUME SerialLedger
              PROVE  Spec => []FileIsALedger
  OBVIOUS
<1>1. SerialInv => FileIsALedger
  BY DEF SerialInv, Sound, FileIsALedger
<1>2. SerialInv /\ [Next]_vars => SerialInv'
  BY SerialNext
<1>. QED BY <1>1, <1>2, SerialInit, PTL DEF Spec

-----------------------------------------------------------------------------
(***************************************************************************)
(* The file implements module LedgerFile.  What a client has loaded and    *)
(* not yet written is one call of the ledger away from what is in the file *)
(* (TxInv); that call takes place when the client truncates the file.  The *)
(* write that follows changes nothing more, or leaves a beginning of the   *)
(* text; a client that stops in between leaves the empty beginning.        *)
(***************************************************************************)
TxOf(c) ==
  \/ c \in Plans /\ draft[c] = RecordPlan(ledger, VmOf[c], c)
  \/ /\ c \in Plans /\ CanSetState(ledger, VmOf[c], outcome[c])
     /\ draft[c] = SetState(ledger, VmOf[c], outcome[c])
  \/ \E n \in Names : Has(ledger, n) /\ draft[c] = ForgetName(ledger, n)

TxInv == \A c \in Clients : InTransaction(c) /\ ~ Writing(c) => TxOf(c)

FileInv == SerialInv /\ OutcomeInv /\ TxInv

LEMMA FileInvInit == Init => FileInv
<1>. SUFFICES ASSUME Init PROVE FileInv
  OBVIOUS
<1>1. OutcomeInv
  BY DEF Init, OutcomeInv
<1>2. TxInv
  BY DEF Init, TxInv, InTransaction, Writing, Clients
<1>. QED BY <1>1, <1>2, SerialInit DEF FileInv

LEMMA FileInvNext == SerialLedger /\ FileInv /\ [Next]_vars => FileInv'
<1>. SUFFICES ASSUME SerialLedger, FileInv, [Next]_vars PROVE FileInv'
  OBVIOUS
<1>1. TypeOK /\ SerialInv /\ SerialInv' /\ OutcomeInv'
  BY SerialNext, OutcomeStep DEF FileInv, SerialInv
<1>2. \A w \in Plans : outcome[w] \in {"Stopped", "Failed"} => outcome'[w] = outcome[w]
  BY <1>1, OutcomeStep DEF FileInv
<1>3. \A w \in Plans : CanSetState(ledger, VmOf[w], outcome[w]) => outcome'[w] = outcome[w]
  <2>1. \A w \in Plans : CanSetState(ledger, VmOf[w], outcome[w]) => outcome[w] # "none"
    BY DEF CanSetState, CanTransitionTo
  <2>. QED BY <1>1, <1>2, <2>1 DEF TypeOK
<1>4. CASE Quiet
  <2>1. \A c \in Clients : InTransaction(c)' =>
          SamePhase(c) /\ draft'[c] = draft[c] /\ ledger' = ledger
    BY <1>4 DEF Quiet, fileVars
  <2>2. ASSUME NEW c \in Clients, InTransaction(c)', ~ Writing(c)'
        PROVE  TxOf(c)'
    <3>1. TxOf(c) /\ draft'[c] = draft[c] /\ ledger' = ledger
      BY <2>1, <2>2 DEF SamePhase, FileInv, TxInv
    <3>. QED BY <1>3, <3>1 DEF TxOf
  <2>. QED BY <1>1, <2>2 DEF TxInv, FileInv
<1>5. ASSUME NEW c \in Clients, Loads(c) PROVE FileInv'
  <2>1. /\ \A b \in Clients : ~ InTransaction(b)
        /\ ledger' = ledger
    BY <1>5 DEF Loads, LedgerFree, Clients, fileVars
  <2>2. \A b \in Clients \ {c} : ~ InTransaction(b)'
    BY <1>5, <2>1 DEF Loads, Others, SamePhase
  <2>3. TxOf(c)'
    BY <1>3, <1>5, <2>1 DEF Loads, Redrafted, TxOf
  <2>. QED BY <1>1, <2>2, <2>3 DEF TxInv, FileInv
<1>6. ASSUME NEW c \in Clients, Truncates(c) \/ Saves(c) PROVE FileInv'
  <2>1. InTransaction(c) /\ \A b \in Clients \ {c} : ~ InTransaction(b)'
    BY <1>1, <1>6 DEF Truncates, Saves, Others, SamePhase, SerialInv
  <2>2. InTransaction(c)' => Writing(c)'
    BY <1>6 DEF Truncates, Saves
  <2>. QED BY <1>1, <2>1, <2>2 DEF TxInv, FileInv
<1>. QED BY <1>1, <1>4, <1>5, <1>6, FileStep

LEMMA SeenByWriter ==
  ASSUME SerialInv, NEW c \in Clients, Writing(c)
  PROVE  SeenLedger = draft[c]
<1>1. \A b \in Clients : Writing(b) <=> b = c
  BY DEF SerialInv
<1>2. (CHOOSE b \in Plans \cup Tools : Writing(b)) = c
  BY <1>1 DEF Clients
<1>. QED BY <1>2 DEF SeenLedger, Clients

LEMMA SeenByWriterNext ==
  ASSUME SerialInv', NEW c \in Clients, Writing(c)'
  PROVE  SeenLedger' = draft'[c]
<1>1. \A b \in Clients : Writing(b)' <=> b = c
  BY DEF SerialInv
<1>2. (CHOOSE b \in Plans \cup Tools : Writing(b)') = c
  BY <1>1 DEF Clients
<1>. QED BY <1>2 DEF SeenLedger, Clients

LEMMA SeenByOthers ==
  /\ (\A c \in Clients : ~ Writing(c)) => SeenLedger = ledger
  /\ (\A c \in Clients : ~ Writing(c)') => SeenLedger' = ledger'
BY DEF SeenLedger, Clients

\* The operations of the specification are those of the model.
LEMMA SameOperations ==
  /\ \A s, n, p : Promise!RecordPlan(s, n, p) = RecordPlan(s, n, p)
  /\ \A s, n : Promise!ForgetName(s, n) = ForgetName(s, n) /\ (Promise!Has(s, n) <=> Has(s, n))
  /\ \A s, n, st : /\ Promise!SetState(s, n, st) = SetState(s, n, st)
                   /\ Promise!CanSetState(s, n, st) <=> CanSetState(s, n, st)
  /\ Promise!VmLifecycle = VmLifecycle
<1>1. \A s, n : Promise!Retain(s, n) = Retain(s, n)
  BY Zenon DEF Promise!Retain, Retain, Promise!Kept, Kept, Promise!Enumeration, Enumeration,
         Promise!Enumerates, Enumerates, Promise!Increasing, Increasing,
         Promise!Cardinality, Cardinality
<1>2. \A s, n, p : Promise!RecordPlan(s, n, p) = RecordPlan(s, n, p)
  BY <1>1 DEF Promise!RecordPlan, RecordPlan, Promise!FirstKeptIndex, FirstKeptIndex,
              Promise!FromPlan, FromPlan
<1>3. /\ \A s, n, i : Promise!IsFirst(s, n, i) <=> IsFirst(s, n, i)
      /\ \A from, to : Promise!CanTransitionTo(from, to) <=> CanTransitionTo(from, to)
  BY DEF Promise!IsFirst, IsFirst, Promise!CanTransitionTo, CanTransitionTo
<1>4. \A s, n, st : Promise!SetState(s, n, st) = SetState(s, n, st)
  BY <1>3 DEF Promise!SetState, SetState
<1>5. \A s, n, st : Promise!CanSetState(s, n, st) <=> CanSetState(s, n, st)
  BY <1>3 DEF Promise!CanSetState, CanSetState
<1>. QED BY <1>1, <1>2, <1>4, <1>5 DEF Promise!ForgetName, ForgetName, Promise!Has, Has,
                                 Promise!VmLifecycle, VmLifecycle

\* What a write into an emptied file leaves is a beginning of the text, and so
\* is nothing at all.
LEMMA WritesABeginning ==
  ASSUME NEW c \in Clients, WriteText(c), ledger = << >>, ~ malformed, draft[c] \in Ledgers
  PROVE  ledger' = draft[c] \/ Promise!Beginning(draft[c], ledger')
<1>1. CASE ledger' = << >>
  <2>1. 0 \in 0..Len(draft[c])
    BY LenProperties DEF Ledgers
  <2>2. SubSeq(draft[c], 1, 0) = << >>
    BY <2>1, PrefixProperties, EmptySeq DEF Ledgers
  <2>. QED BY <1>1, <2>1, <2>2 DEF Promise!Beginning
<1>2. CASE Shortened(c)
  BY <1>2 DEF Shortened, Promise!Beginning
<1>. QED BY <1>1, <1>2 DEF WriteText

LEMMA NothingIsABeginning ==
  ASSUME NEW s \in Ledgers PROVE Promise!Beginning(s, << >>)
<1>1. 0 \in 0..Len(s)
  BY LenProperties DEF Ledgers
<1>2. SubSeq(s, 1, 0) = << >>
  BY <1>1, PrefixProperties, EmptySeq DEF Ledgers
<1>. QED BY <1>1, <1>2 DEF Promise!Beginning

LEMMA LedgerStepMaps ==
  ASSUME FileInv, SerialInv', [Next]_vars, SerialLedger
  PROVE  Promise!FileNext \/ SeenLedger' = SeenLedger
<1>1. TypeOK /\ SerialInv /\ TxInv
  BY DEF FileInv, SerialInv
<1>2. CASE Quiet
  <2>1. ledger' = ledger
    BY <1>2 DEF Quiet, fileVars
  <2>2. ASSUME NEW c \in Clients, Writing(c), Writing(c)' PROVE SeenLedger' = SeenLedger
    <3>1. draft'[c] = draft[c]
      BY <1>2, <2>2 DEF Quiet, InTransaction
    <3>2. SeenLedger = draft[c] /\ SeenLedger' = draft'[c]
      BY <1>1, <2>2, SeenByWriter, SeenByWriterNext
    <3>. QED BY <3>1, <3>2
  <2>3. ASSUME NEW c \in Clients, Writing(c), ~ Writing(c)' PROVE Promise!CutShort
    <3>1. \A b \in Clients : ~ Writing(b)'
      BY <1>1, <1>2, <2>3 DEF Quiet, SamePhase, SerialInv, InTransaction
    <3>2. SeenLedger = draft[c] /\ SeenLedger' = ledger'
      BY <1>1, <2>3, <3>1, SeenByWriter, SeenByOthers
    <3>3. ledger' = << >> /\ draft[c] \in Ledgers
      BY <1>1, <2>1, <2>3 DEF SerialInv, TypeOK, Clients
    <3>. QED BY <3>2, <3>3, NothingIsABeginning DEF Promise!CutShort
  <2>4. CASE \A c \in Clients : ~ Writing(c)
    <3>1. \A c \in Clients : ~ Writing(c)'
      BY <1>2, <2>4 DEF Quiet, SamePhase, InTransaction
    <3>. QED BY <2>1, <2>4, <3>1, SeenByOthers
  <2>. QED BY <2>2, <2>3, <2>4 DEF Promise!FileNext
<1>3. ASSUME NEW c \in Clients, Loads(c) PROVE SeenLedger' = SeenLedger
  <2>1. \A b \in Clients : ~ Writing(b)
    BY <1>3 DEF Loads, LedgerFree, Clients, InTransaction
  <2>2. \A b \in Clients : ~ Writing(b)'
    BY <1>3, <2>1 DEF Loads, Others, SamePhase
  <2>. QED BY <1>3, <2>1, <2>2, SeenByOthers DEF Loads, fileVars
<1>4. ASSUME NEW c \in Clients, Truncates(c) PROVE Promise!Next
  <2>1. SeenLedger = ledger
    <3>1. \A b \in Clients : ~ Writing(b)
      BY <1>1, <1>4 DEF Truncates, SerialInv
    <3>. QED BY <3>1, SeenByOthers
  <2>2. SeenLedger' = draft[c]
    <3>1. SeenLedger' = draft'[c]
      BY <1>4, SeenByWriterNext DEF Truncates
    <3>. QED BY <1>4, <3>1 DEF Truncates
  <2>3. TxOf(c)
    BY <1>1, <1>4 DEF TxInv, Truncates
  <2>4. CASE c \in Plans /\ draft[c] = RecordPlan(ledger, VmOf[c], c)
    <3>1. Promise!Record(VmOf[c], c)
      BY <2>1, <2>2, <2>4, SameOperations DEF Promise!Record
    <3>. QED BY <2>4, <3>1, PlanAssumption DEF Promise!Next
  <2>5. CASE /\ c \in Plans /\ CanSetState(ledger, VmOf[c], outcome[c])
             /\ draft[c] = SetState(ledger, VmOf[c], outcome[c])
    <3>1. Promise!Advance(VmOf[c], outcome[c])
      BY <2>1, <2>2, <2>5, SameOperations DEF Promise!Advance
    <3>2. outcome[c] \in VmLifecycle
      BY <2>5 DEF CanSetState, CanTransitionTo, VmLifecycle
    <3>. QED BY <2>5, <3>1, <3>2, PlanAssumption, SameOperations DEF Promise!Next
  <2>6. CASE \E n \in Names : Has(ledger, n) /\ draft[c] = ForgetName(ledger, n)
    <3>1. PICK n \in Names : Promise!Forget(n)
      BY <2>1, <2>2, <2>6, SameOperations DEF Promise!Forget
    <3>. QED BY <3>1 DEF Promise!Next
  <2>. QED BY <2>3, <2>4, <2>5, <2>6 DEF TxOf
<1>5. ASSUME NEW c \in Clients, Saves(c) PROVE Promise!CutShort \/ SeenLedger' = SeenLedger
  <2>1. \A b \in Clients : ~ Writing(b)'
    BY <1>1, <1>5 DEF Saves, Others, SamePhase, SerialInv, InTransaction
  <2>2. SeenLedger = draft[c] /\ SeenLedger' = ledger'
    BY <1>1, <1>5, <2>1, SeenByWriter, SeenByOthers DEF Saves
  <2>3. ledger' = draft[c] \/ Promise!Beginning(draft[c], ledger')
    BY <1>1, <1>5, WritesABeginning DEF Saves, SerialInv, TypeOK, Clients
  <2>. QED BY <2>2, <2>3 DEF Promise!CutShort
<1>. QED BY <1>1, <1>2, <1>3, <1>4, <1>5, FileStep DEF Promise!FileNext

\* When no two transactions overlap, whatever dies or fails, inside a save or
\* out of it, and however many workers, removals and signals there are: the
\* file, seen through a save in progress, is a ledger that is changed by one
\* declaration, one outcome or one removal at a time, of which a save that
\* does not come to its end leaves a beginning.
THEOREM FileImplementsLedger == SerialLedger => (Spec => ImplementsLedger)
<1>. SUFFICES ASSUME SerialLedger PROVE Spec => ImplementsLedger
  OBVIOUS
<1>1. FileInv /\ [Next]_vars => FileInv'
  BY FileInvNext
<1>2. Init => Promise!Init
  <2>1. Init => \A c \in Clients : ~ Writing(c)
    BY DEF Init, Writing, Clients
  <2>. QED BY <2>1, SeenByOthers DEF Init, Promise!Init
<1>3. FileInv /\ FileInv' /\ [Next]_vars => [Promise!FileNext]_SeenLedger
  BY LedgerStepMaps DEF FileInv
<1>. QED BY <1>1, <1>2, <1>3, FileInvInit, PTL DEF Spec, ImplementsLedger, Promise!FileSpec

-----------------------------------------------------------------------------
(***************************************************************************)
(* Where a worker goes next, and what it takes.                            *)
(***************************************************************************)
Moves(w, from, to) == pc[w] = from /\ pc'[w] = to /\ outcome'[w] = outcome[w]

WorkerMoves(w) ==
  \/ pc'[w] = pc[w] /\ outcome'[w] = outcome[w]
  \/ /\ outcome'[w] = outcome[w]
     /\ \/ pc'[w] = "quit" /\ pc[w] \in {"planned", "recorded"}
        \/ pc'[w] = "sigint" /\ (w \in CliPlans \/ Handlers # {})
        \/ pc'[w] = "crash" /\ "crash" \in Faults
  \/ Moves(w, "idle", "planned")
  \/ Moves(w, "planned", "declaring")
  \/ Moves(w, "planned", "recorded") /\ (malformed \/ "io" \in Faults)
  \/ Moves(w, "declaring", "declareWrite")
  \/ Moves(w, "declaring", "recorded") /\ "io" \in Faults
  \/ Moves(w, "declareWrite", "recorded") /\ WriteText(w)
  \/ Moves(w, "recorded", "booting")
  \/ pc[w] = "booting" /\ pc'[w] = "ended" /\ outcome'[w] \in {"Stopped", "Failed"}
  \/ Moves(w, "ended", "marking")
  \/ /\ Moves(w, "ended", "unmarked")
     /\ LedgerFree /\ Quiet
     /\ malformed \/ "io" \in Faults \/ ~ CanSetState(ledger, VmOf[w], outcome[w])
  \/ Moves(w, "marking", "markWrite")
  \/ Moves(w, "marking", "unmarked") /\ "io" \in Faults
  \/ Moves(w, "markWrite", "done") /\ WriteText(w)

LEMMA WorkerStep ==
  ASSUME TypeOK, [Next]_vars, NEW w \in Plans
  PROVE  WorkerMoves(w)
<1>1. ASSUME pc' = pc, outcome' = outcome PROVE WorkerMoves(w)
  BY <1>1 DEF WorkerMoves
<1>2. ASSUME NEW v \in Plans, v # w, NEW l, pc' = [pc EXCEPT ![v] = l],
             outcome'[w] = outcome[w]
      PROVE  WorkerMoves(w)
  BY <1>2 DEF WorkerMoves, TypeOK
<1>3. ASSUME NEW l, pc' = [pc EXCEPT ![w] = l] PROVE pc'[w] = l
  BY <1>3 DEF TypeOK
<1>4. CASE UNCHANGED vars
  BY <1>1, <1>4 DEF vars, workerVars
<1>5. ASSUME NEW v \in Plans, Provision(v) \/ StartCli(v) PROVE WorkerMoves(w)
  <2>1. pc[v] = "idle" /\ pc' = [pc EXCEPT ![v] = "planned"] /\ outcome' = outcome
    BY <1>5 DEF Provision, StartCli, Spawn
  <2>. QED BY <1>2, <1>3, <2>1 DEF WorkerMoves, Moves
<1>6. ASSUME NEW v \in Plans, Refused(v) \/ SetHandler(v) PROVE WorkerMoves(w)
  <2>1. /\ outcome' = outcome
        /\ \/ pc[v] \in {"planned", "recorded"} /\ pc' = [pc EXCEPT ![v] = "quit"]
           \/ pc[v] = "recorded" /\ pc' = [pc EXCEPT ![v] = "booting"]
    BY <1>6 DEF Refused, SetHandler, Goto, Exit, workerVars
  <2>. QED BY <1>2, <1>3, <2>1 DEF WorkerMoves, Moves
<1>7. ASSUME NEW v \in Plans, DeclareLoad(v) PROVE WorkerMoves(w)
  <2>1. /\ outcome' = outcome /\ pc[v] = "planned"
        /\ \/ pc' = [pc EXCEPT ![v] = "declaring"]
           \/ (malformed \/ "io" \in Faults) /\ pc' = [pc EXCEPT ![v] = "recorded"]
    BY <1>7 DEF DeclareLoad, Goto, workerVars
  <2>. QED BY <1>2, <1>3, <2>1 DEF WorkerMoves, Moves
<1>8. ASSUME NEW v \in Plans, DeclareTruncate(v) PROVE WorkerMoves(w)
  <2>1. /\ outcome' = outcome /\ pc[v] = "declaring"
        /\ \/ pc' = [pc EXCEPT ![v] = "declareWrite"]
           \/ "io" \in Faults /\ pc' = [pc EXCEPT ![v] = "recorded"]
    BY <1>8 DEF DeclareTruncate, Goto, workerVars
  <2>. QED BY <1>2, <1>3, <2>1 DEF WorkerMoves, Moves
<1>9. ASSUME NEW v \in Plans, DeclareWrite(v) PROVE WorkerMoves(w)
  <2>1. /\ outcome' = outcome /\ pc[v] = "declareWrite" /\ WriteText(v)
        /\ pc' = [pc EXCEPT ![v] = "recorded"]
    BY <1>9 DEF DeclareWrite, Goto, workerVars
  <2>. QED BY <1>2, <1>3, <2>1 DEF WorkerMoves, Moves
<1>10. ASSUME NEW v \in Plans, NEW st \in {"Stopped", "Failed"}, GuestEnds(v, st)
       PROVE  WorkerMoves(w)
  <2>1. /\ pc[v] = "booting" /\ pc' = [pc EXCEPT ![v] = "ended"]
        /\ outcome' = [outcome EXCEPT ![v] = st]
    BY <1>10 DEF GuestEnds, Goto
  <2>2. outcome'[w] = IF v = w THEN st ELSE outcome[w]
    BY <2>1 DEF TypeOK
  <2>. QED BY <1>2, <1>3, <2>1, <2>2 DEF WorkerMoves, Moves
<1>11. ASSUME NEW v \in Plans, MarkLoad(v) PROVE WorkerMoves(w)
  <2>1. /\ outcome' = outcome /\ LedgerFree /\ pc[v] = "ended"
        /\ \/ pc' = [pc EXCEPT ![v] = "marking"]
           \/ /\ malformed \/ "io" \in Faults \/ ~ CanSetState(ledger, VmOf[v], outcome[v])
              /\ pc' = [pc EXCEPT ![v] = "unmarked"]
              /\ UNCHANGED <<fileVars, draft, tool>>
    BY <1>11 DEF MarkLoad, Goto, Exit, workerVars
  <2>2. pc' = [pc EXCEPT ![v] = "unmarked"] /\ UNCHANGED <<fileVars, draft, tool>> => Quiet
    BY QuietPlan
  <2>. QED BY <1>2, <1>3, <2>1, <2>2 DEF WorkerMoves, Moves
<1>12. ASSUME NEW v \in Plans, MarkTruncate(v) PROVE WorkerMoves(w)
  <2>1. /\ outcome' = outcome /\ pc[v] = "marking"
        /\ \/ pc' = [pc EXCEPT ![v] = "markWrite"]
           \/ "io" \in Faults /\ pc' = [pc EXCEPT ![v] = "unmarked"]
    BY <1>12 DEF MarkTruncate, Goto, Exit, workerVars
  <2>. QED BY <1>2, <1>3, <2>1 DEF WorkerMoves, Moves
<1>13. ASSUME NEW v \in Plans, MarkWrite(v) PROVE WorkerMoves(w)
  <2>1. /\ outcome' = outcome /\ pc[v] = "markWrite" /\ WriteText(v)
        /\ pc' = [pc EXCEPT ![v] = "done"]
    BY <1>13 DEF MarkWrite, Exit, workerVars
  <2>. QED BY <1>2, <1>3, <2>1 DEF WorkerMoves, Moves
<1>14. ASSUME NEW v \in Plans, Interrupt(v), outcome' = outcome,
              v \in CliPlans \/ Handlers # {}
       PROVE  WorkerMoves(w)
  <2>1. pc' = pc \/ pc' = [pc EXCEPT ![v] = "sigint"]
    BY <1>14 DEF Interrupt, Exit
  <2>. QED BY <1>1, <1>2, <1>3, <1>14, <2>1 DEF WorkerMoves
<1>15. ASSUME NEW v \in Plans, CtrlC(v) \/ Crash(v) PROVE WorkerMoves(w)
  <2>1. CASE CtrlC(v)
    BY <1>14, <2>1 DEF CtrlC
  <2>2. CASE Crash(v)
    <3>1. outcome' = outcome /\ pc' = [pc EXCEPT ![v] = "crash"] /\ "crash" \in Faults
      BY <2>2 DEF Crash, Exit, workerVars
    <3>. QED BY <1>2, <1>3, <3>1 DEF WorkerMoves
  <2>. QED BY <1>15, <2>1, <2>2
<1>16. ASSUME NEW h \in Handlers, StopKill(h) PROVE WorkerMoves(w)
  <2>1. outcome' = outcome /\ (pc' = pc \/ \E v \in Plans : Interrupt(v))
    BY <1>16 DEF StopKill
  <2>. QED BY <1>1, <1>14, <2>1
<1>17. ASSUME \/ \E t \in Tools : ToolTruncate(t) \/ ToolWrite(t) \/ ToolCrash(t)
              \/ \E t \in Tools, n \in Names : ToolLoad(t, n)
              \/ \E h \in Handlers, n \in Names : StopLookup(h, n)
              \/ \E v \in Plans : ReapWait(v) \/ ReapRemove(v)
              \/ DaemonCrash
       PROVE  WorkerMoves(w)
  <2>1. pc' = pc /\ outcome' = outcome
    BY <1>17 DEF ToolTruncate, ToolWrite, ToolCrash, ToolLoad, StopLookup, ReapWait,
                 ReapRemove, DaemonCrash, workerVars
  <2>. QED BY <1>1, <2>1
<1>. QED BY <1>4, <1>5, <1>6, <1>7, <1>8, <1>9, <1>10, <1>11, <1>12, <1>13, <1>15,
            <1>16, <1>17, PlanAssumption DEF Next, LedgerStep

-----------------------------------------------------------------------------
(***************************************************************************)
(* Where the records come from that a client has loaded and changed.       *)
(***************************************************************************)
Fresh(c, r) ==
  /\ c \in Plans /\ pc[c] = "planned" /\ pc'[c] = "declaring"
  /\ \/ r = FromPlan(VmOf[c], c)
     \/ r.name # VmOf[c] /\ \E k \in DOMAIN ledger : r = ledger[k]
Outcome(c, r) ==
  /\ c \in Plans /\ pc[c] = "ended" /\ pc'[c] = "marking"
  /\ outcome[c] \in {"Stopped", "Failed"}
  /\ \E k \in DOMAIN ledger :
       \/ r = ledger[k] /\ (UniqueNames(ledger) => r.name # VmOf[c])
       \/ /\ r.name = VmOf[c] /\ ledger[k].name = VmOf[c]
          /\ r.plan = ledger[k].plan /\ r.state = outcome[c]
Left(c, r) == c \in Tools /\ \E k \in DOMAIN ledger : r = ledger[k]

LEMMA LoadedRecords ==
  ASSUME TypeOK, NEW c \in Clients, Redrafted(c), NEW i \in DOMAIN draft'[c]
  PROVE  LET r == draft'[c][i] IN Fresh(c, r) \/ Outcome(c, r) \/ Left(c, r)
<1>1. ledger \in Ledgers /\ \A k \in DOMAIN ledger : ledger[k] \in VmRecord
  BY LenProperties DEF TypeOK, Ledgers
<1>2. CASE /\ c \in Plans /\ pc[c] = "planned" /\ pc'[c] = "declaring"
           /\ draft'[c] = RecordPlan(ledger, VmOf[c], c)
  <2>. DEFINE s == RecordPlan(ledger, VmOf[c], c)
  <2>0. c \in Plans /\ VmOf[c] \in Names
    BY <1>2, PlanAssumption
  <2>1. /\ s \in Ledgers /\ Len(s) \in 1..MaxRecords
        /\ s[Len(s)] = FromPlan(VmOf[c], c)
        /\ \A j \in 1..(Len(s) - 1) :
             \E k \in DOMAIN ledger : ledger[k] = s[j] /\ ledger[k].name # VmOf[c]
    BY <1>1, <2>0, RecordPlanProperties
  <2>2. draft'[c] = s
    BY <1>2
  <2>. HIDE DEF s
  <2>3. i \in 1..Len(s)
    BY <2>1, <2>2, LenProperties DEF Ledgers
  <2>4. CASE i = Len(s)
    BY <1>2, <2>1, <2>2, <2>4 DEF Fresh
  <2>5. CASE i # Len(s)
    <3>1. i \in 1..(Len(s) - 1)
      BY <2>1, <2>3, <2>5
    <3>. QED BY <1>2, <2>1, <2>2, <3>1 DEF Fresh
  <2>. QED BY <2>4, <2>5
<1>3. CASE /\ c \in Plans /\ pc[c] = "ended" /\ pc'[c] = "marking"
           /\ CanSetState(ledger, VmOf[c], outcome[c])
           /\ draft'[c] = SetState(ledger, VmOf[c], outcome[c])
  <2>1. outcome[c] \in {"Stopped", "Failed"}
    BY <1>3 DEF CanSetState, CanTransitionTo, TypeOK
  <2>2. i \in DOMAIN ledger
    BY <1>3 DEF SetState
  <2>3. CASE IsFirst(ledger, VmOf[c], i)
    <3>1. draft'[c][i] = [ledger[i] EXCEPT !.state = outcome[c]] /\ ledger[i].name = VmOf[c]
      BY <1>3, <2>2, <2>3 DEF SetState, IsFirst
    <3>2. /\ draft'[c][i].name = VmOf[c] /\ draft'[c][i].plan = ledger[i].plan
          /\ draft'[c][i].state = outcome[c]
      BY <1>1, <2>2, <3>1 DEF VmRecord
    <3>. QED BY <1>3, <2>1, <2>2, <3>1, <3>2 DEF Outcome
  <2>4. CASE ~ IsFirst(ledger, VmOf[c], i)
    <3>1. draft'[c][i] = ledger[i]
      BY <1>3, <2>2, <2>4 DEF SetState
    <3>2. UniqueNames(ledger) => ledger[i].name # VmOf[c]
      <4>1. PICK k \in DOMAIN ledger : IsFirst(ledger, VmOf[c], k)
        BY <1>3 DEF CanSetState
      <4>. QED BY <2>2, <2>4, <4>1 DEF UniqueNames, IsFirst
    <3>. QED BY <1>3, <2>1, <2>2, <3>1, <3>2 DEF Outcome
  <2>. QED BY <2>3, <2>4
<1>4. CASE /\ c \in Tools
           /\ \E n \in Names : Has(ledger, n) /\ draft'[c] = ForgetName(ledger, n)
  <2>1. PICK n \in Names : draft'[c] = Retain(ledger, n)
    BY <1>4 DEF ForgetName
  <2>2. \A j \in DOMAIN Retain(ledger, n) :
          \E k \in DOMAIN ledger : ledger[k] = Retain(ledger, n)[j]
    BY <1>1, RetainProperties DEF Ledgers
  <2>. QED BY <1>4, <2>1, <2>2 DEF Left
<1>. QED BY <1>2, <1>3, <1>4 DEF Redrafted

\* A record is of the VM its plan is for.
Named(s) == \A i \in DOMAIN s : s[i].name = VmOf[s[i].plan]
NamedInv == Named(ledger) /\ \A c \in Clients : Named(draft[c])

LEMMA NamedInit == Init => NamedInv
<1>1. Named(<< >>)
  BY EmptyLedger DEF Named
<1>. QED BY <1>1 DEF Init, NamedInv, Clients

LEMMA NamedNext == TypeOK /\ NamedInv /\ [Next]_vars => NamedInv'
<1>. SUFFICES ASSUME TypeOK, NamedInv, [Next]_vars PROVE NamedInv'
  OBVIOUS
<1>. DEFINE Goal == Named(ledger') /\ \A b \in Clients : Named(draft'[b])
<1>1. Named(ledger) /\ (\A b \in Clients : Named(draft[b])) /\ Named(<< >>)
  BY EmptyLedger DEF NamedInv, Named
<1>2. ASSUME Quiet PROVE Goal
  BY <1>1, <1>2 DEF Quiet, fileVars
<1>3. ASSUME NEW c \in Clients, Loads(c) PROVE Goal
  <2>1. ASSUME NEW i \in DOMAIN draft'[c]
        PROVE  draft'[c][i].name = VmOf[draft'[c][i].plan]
    <3>1. LET r == draft'[c][i] IN Fresh(c, r) \/ Outcome(c, r) \/ Left(c, r)
      BY <1>3, LoadedRecords DEF Loads
    <3>. QED BY <1>1, <3>1 DEF Fresh, Outcome, Left, FromPlan, Named
  <2>2. Named(draft'[c])
    BY <2>1 DEF Named
  <2>. QED BY <1>1, <1>3, <2>2 DEF Loads, Others, fileVars
<1>4. ASSUME NEW c \in Clients, Truncates(c) PROVE Goal
  BY <1>1, <1>4 DEF Truncates, Truncate, Others
<1>5. ASSUME NEW c \in Clients, Saves(c) PROVE Goal
  <2>1. \A i \in DOMAIN ledger' :
          \/ \E k \in DOMAIN ledger : ledger'[i] = ledger[k]
          \/ \E k \in DOMAIN draft[c] : Reads(ledger'[i], draft[c][k])
    BY <1>5, WriteTextProperties DEF Saves
  <2>2. Named(ledger')
    BY <1>1, <2>1 DEF Named, Reads
  <2>. QED BY <1>1, <1>5, <2>2 DEF Saves, Others
<1>6. Goal
  BY <1>2, <1>3, <1>4, <1>5, FileStep
<1>. QED BY <1>6 DEF NamedInv, Named

\* After the save of a worker nobody is in a transaction.
LEMMA AloneInTransaction ==
  ASSUME SerialInv, SerialLedger, [Next]_vars, NEW w \in Plans,
         Moves(w, "declareWrite", "recorded") \/ Moves(w, "markWrite", "done")
  PROVE  /\ \A c \in Clients : ~ InTransaction(c)'
         /\ ledger = << >> /\ ~ malformed /\ WriteText(w)
<1>1. TypeOK /\ w \in Clients /\ InTransaction(w) /\ Writing(w) /\ ~ InTransaction(w)'
  BY DEF SerialInv, Clients, Moves, InTransaction, Writing
<1>2. WriteText(w)
  BY <1>1, WorkerStep DEF WorkerMoves, Moves
<1>3. \A c \in Clients \ {w} : ~ InTransaction(c)
  BY <1>1 DEF SerialInv
<1>4. CASE Quiet
  BY <1>1, <1>2, <1>3, <1>4 DEF Quiet, SamePhase, SerialInv
<1>5. ASSUME NEW c \in Clients, Loads(c) PROVE FALSE
  BY <1>1, <1>5 DEF Loads, LedgerFree, Clients
<1>6. ASSUME NEW c \in Clients, Truncates(c) PROVE FALSE
  BY <1>1, <1>3, <1>6 DEF Truncates
<1>7. ASSUME NEW c \in Clients, Saves(c) PROVE \A b \in Clients : ~ InTransaction(b)'
  BY <1>1, <1>3, <1>7 DEF Saves, InTransaction, Others, SamePhase
<1>. QED BY <1>1, <1>2, <1>4, <1>5, <1>6, <1>7, FileStep DEF SerialInv

-----------------------------------------------------------------------------
(***************************************************************************)
(* A finished VM stays finished.  From the moment its worker has loaded    *)
(* the ledger to mark the outcome, the draft it will save, and from the    *)
(* moment it has saved it, the file and every draft made from it, hold no  *)
(* record of its plan in Booting.                                          *)
(***************************************************************************)
Marked(w, s) == \A i \in DOMAIN s : s[i].plan = w => s[i].state # "Booting"

MarkInv(w) ==
  /\ pc[w] \in {"marking", "markWrite"} => Marked(w, draft[w])
  /\ pc[w] = "done" =>
       /\ Marked(w, ledger)
       /\ \A c \in Clients : InTransaction(c) => Marked(w, draft[c])

FinalInv == SerialInv /\ NamedInv /\ \A w \in Plans : MarkInv(w)

LEMMA FinalInit == Init => FinalInv
<1>1. Init => \A w \in Plans : pc[w] = "idle"
  BY DEF Init
<1>2. Init => \A w \in Plans : MarkInv(w)
  BY <1>1 DEF MarkInv
<1>. QED BY <1>2, SerialInit, NamedInit DEF FinalInv

LEMMA MarkedRead ==
  ASSUME NEW w \in Plans, NEW c \in Clients, Marked(w, draft[c]),
         \A i \in DOMAIN ledger' : \E k \in DOMAIN draft[c] : Reads(ledger'[i], draft[c][k])
  PROVE  Marked(w, ledger')
BY DEF Marked, Reads

LEMMA MarkNext ==
  ASSUME SerialLedger, FinalInv, [Next]_vars, SerialInv', NEW w \in Plans
  PROVE  MarkInv(w)'
<1>1. /\ TypeOK /\ SerialInv /\ NamedInv /\ MarkInv(w) /\ w \in Clients
      /\ UniqueNames(ledger)
  BY DEF FinalInv, SerialInv, Sound, Clients
<1>2. WorkerMoves(w)
  BY <1>1, WorkerStep
<1>3. /\ InTransaction(w) <=> pc[w] \in {"declaring", "declareWrite", "marking", "markWrite"}
      /\ InTransaction(w)' <=> pc'[w] \in {"declaring", "declareWrite", "marking", "markWrite"}
  BY DEF InTransaction, Writing
<1>4. pc'[w] \in {"marking", "markWrite"} =>
        pc[w] \in {"marking", "markWrite"} \/ (pc[w] = "ended" /\ pc'[w] = "marking")
  BY <1>2 DEF WorkerMoves, Moves
<1>5. pc'[w] = "done" => pc[w] = "done" \/ pc[w] = "markWrite"
  BY <1>2 DEF WorkerMoves, Moves
<1>. DEFINE Goal == /\ pc'[w] \in {"marking", "markWrite"} => Marked(w, draft'[w])
                    /\ pc'[w] = "done" =>
                         /\ Marked(w, ledger')
                         /\ \A c \in Clients : InTransaction(c)' => Marked(w, draft'[c])
<1>6. CASE pc[w] = "markWrite" /\ pc'[w] = "done"
  <2>0. Moves(w, "markWrite", "done")
    BY <1>2, <1>6 DEF WorkerMoves, Moves
  <2>1. /\ \A c \in Clients : ~ InTransaction(c)'
        /\ ledger = << >> /\ ~ malformed /\ WriteText(w)
    BY <1>1, <2>0, AloneInTransaction
  <2>2. Marked(w, draft[w])
    BY <1>1, <1>6 DEF MarkInv
  <2>3. \A i \in DOMAIN ledger' : \E k \in DOMAIN draft[w] : Reads(ledger'[i], draft[w][k])
    BY <1>1, <2>1, WriteTextProperties
  <2>4. Marked(w, ledger')
    BY <1>1, <2>2, <2>3, MarkedRead
  <2>. QED BY <1>6, <2>1, <2>4 DEF MarkInv
<1>7. ASSUME ~ (pc[w] = "markWrite" /\ pc'[w] = "done"), Quiet PROVE Goal
  BY <1>1, <1>3, <1>4, <1>5, <1>7 DEF Quiet, SamePhase, fileVars, MarkInv
<1>8. ASSUME ~ (pc[w] = "markWrite" /\ pc'[w] = "done"), NEW c \in Clients, Loads(c)
      PROVE  Goal
  <2>1. /\ \A b \in Clients : ~ InTransaction(b)
        /\ ledger' = ledger
    BY <1>8 DEF Loads, LedgerFree, Clients, fileVars
  <2>2. \A b \in Clients : InTransaction(b)' => b = c
    BY <1>8, <2>1 DEF Loads, Others, SamePhase
  <2>3. \A i \in DOMAIN draft'[c] :
          LET r == draft'[c][i] IN Fresh(c, r) \/ Outcome(c, r) \/ Left(c, r)
    BY <1>1, <1>8, LoadedRecords DEF Loads
  <2>4. ASSUME pc'[w] \in {"marking", "markWrite"} PROVE Marked(w, draft'[w])
    <3>1. w = c /\ pc[w] = "ended"
      BY <1>1, <1>3, <1>4, <2>1, <2>2, <2>4
    <3>2. ASSUME NEW i \in DOMAIN draft'[w], draft'[w][i].plan = w
          PROVE  draft'[w][i].state # "Booting"
      <4>1. Outcome(w, draft'[w][i])
        BY <2>3, <3>1, <3>2, PlanAssumption DEF Fresh, Left
      <4>2. \A k \in DOMAIN ledger : ledger[k].plan = w => ledger[k].name = VmOf[w]
        BY <1>1 DEF NamedInv, Named
      <4>. QED BY <1>1, <3>2, <4>1, <4>2 DEF Outcome
    <3>. QED BY <3>2 DEF Marked
  <2>5. ASSUME pc'[w] = "done"
        PROVE  Marked(w, ledger') /\ Marked(w, draft'[c])
    <3>1. pc[w] = "done" /\ Marked(w, ledger)
      BY <1>1, <1>5, <1>8, <2>5 DEF MarkInv
    <3>2. ASSUME NEW i \in DOMAIN draft'[c], draft'[c][i].plan = w
          PROVE  draft'[c][i].state # "Booting"
      <4>1. Fresh(c, draft'[c][i]) \/ Outcome(c, draft'[c][i]) \/ Left(c, draft'[c][i])
        BY <2>3, <3>2
      <4>. QED BY <3>1, <3>2, <4>1 DEF Fresh, Outcome, Left, FromPlan, Marked
    <3>. QED BY <2>1, <3>1, <3>2 DEF Marked
  <2>. QED BY <2>2, <2>4, <2>5
<1>9. ASSUME ~ (pc[w] = "markWrite" /\ pc'[w] = "done"), NEW c \in Clients, Truncates(c)
      PROVE  Goal
  <2>1. Marked(w, ledger')
    BY <1>9, EmptyLedger DEF Truncates, Truncate, Marked
  <2>2. \A b \in Clients : draft'[b] = draft[b] /\ (InTransaction(b)' => InTransaction(b))
    BY <1>9 DEF Truncates, Others, SamePhase
  <2>. QED BY <1>1, <1>3, <1>4, <1>5, <1>9, <2>1, <2>2 DEF MarkInv
<1>10. ASSUME ~ (pc[w] = "markWrite" /\ pc'[w] = "done"), NEW c \in Clients, Saves(c)
       PROVE  Goal
  <2>1. \A b \in Clients : ~ InTransaction(b)'
    BY <1>1, <1>10 DEF Saves, Others, SamePhase, SerialInv
  <2>2. InTransaction(c) /\ ledger = << >> /\ ~ malformed
    BY <1>1, <1>10 DEF Saves, SerialInv
  <2>3. \A i \in DOMAIN ledger' : \E k \in DOMAIN draft[c] : Reads(ledger'[i], draft[c][k])
    BY <1>1, <1>10, <2>2, WriteTextProperties DEF Saves
  <2>4. ASSUME pc'[w] = "done" PROVE Marked(w, ledger')
    BY <1>1, <1>5, <1>10, <2>2, <2>3, <2>4, MarkedRead DEF MarkInv
  <2>. QED BY <1>1, <1>3, <2>1, <2>4
<1>11. Goal \/ MarkInv(w)'
  BY <1>1, <1>6, <1>7, <1>8, <1>9, <1>10, FileStep
<1>. QED BY <1>11 DEF MarkInv

\* With one transaction at a time, whatever crashes, fails or is cut short,
\* and however many plans are applied to one VM: once the outcome of a VM has
\* been saved, the file never has its record back in Booting.
THEOREM SavedOutcomeIsFinal == SerialLedger => (Spec => []TerminalIsFinal)
<1>. SUFFICES ASSUME SerialLedger PROVE Spec => []TerminalIsFinal
  OBVIOUS
<1>1. FinalInv => TerminalIsFinal
  BY DEF FinalInv, MarkInv, Marked, TerminalIsFinal
<1>2. FinalInv /\ [Next]_vars => FinalInv'
  BY SerialNext, NamedNext, MarkNext DEF FinalInv, SerialInv
<1>. QED BY <1>1, <1>2, FinalInit, PTL DEF Spec

-----------------------------------------------------------------------------
(***************************************************************************)
(* A record tells the outcome of its own plan.  This needs that a worker   *)
(* which marks the record of its name marks the record it made: that no    *)
(* other worker of the name is alive meanwhile.  The daemon sees to that   *)
(* for its own workers (OneWorkerPerName) as long as it lives itself; for  *)
(* the plans of the operator it is an assumption.                          *)
(***************************************************************************)
Unshared ==
  \A v, w \in Plans :
    VmOf[v] = VmOf[w] => v = w \/ (v \in DaemonPlans /\ w \in DaemonPlans)

RivalInv == SupervisorInv /\ \A w \in DaemonPlans : proc[w] # "detached"

LEMMA RivalInit == Init => RivalInv
<1>1. Init => \A w \in Plans : proc[w] = "none"
  BY DEF Init
<1>. QED BY <1>1, SupervisorInit, PlanAssumption DEF RivalInv

LEMMA RivalNext == Faults \subseteq {"crash"} /\ RivalInv /\ [Next]_vars => RivalInv'
<1>. SUFFICES ASSUME Faults \subseteq {"crash"}, RivalInv, [Next]_vars PROVE RivalInv'
  OBVIOUS
<1>1. TypeOK /\ ProcInv /\ SupervisorInv' /\ DaemonPlans \subseteq Plans
  BY SupervisorNext, PlanAssumption DEF RivalInv, SupervisorInv
<1>. DEFINE Goal == \A w \in DaemonPlans : proc'[w] # "detached"
<1>2. ASSUME Rests PROVE Goal
  BY <1>2 DEF Rests, RivalInv
<1>3. ASSUME NEW w \in Plans, NEW st \in {"zombie", "gone", "child", "reaped"},
             proc' = [proc EXCEPT ![w] = st]
      PROVE  Goal
  BY <1>1, <1>3 DEF RivalInv, TypeOK
<1>4. ASSUME NEW w \in Plans, Exits(w) PROVE Goal
  <2>1. proc' = [proc EXCEPT ![w] = IF proc[w] = "child" THEN "zombie" ELSE "gone"]
    BY <1>4 DEF Exits, Exit
  <2>. QED BY <1>3, <2>1
<1>5. ASSUME NEW w \in DaemonPlans, Provision(w) PROVE Goal
  BY <1>1, <1>3, <1>5 DEF Provision, Spawn
<1>6. ASSUME NEW w \in CliPlans, StartCli(w) PROVE Goal
  <2>1. w \in Plans /\ w \notin DaemonPlans
    BY PlanAssumption
  <2>2. \A v \in Plans \ {w} : proc'[v] = proc[v]
    BY <1>1, <1>6, <2>1 DEF StartCli, Spawn, TypeOK
  <2>. QED BY <1>1, <2>1, <2>2 DEF RivalInv
<1>7. ASSUME NEW w \in Plans, ReapWait(w) \/ ReapRemove(w) PROVE Goal
  BY <1>3, <1>7 DEF ReapWait, ReapRemove
<1>8. ~ DaemonCrash
  BY DEF DaemonCrash
<1>9. Goal
  BY <1>1, <1>2, <1>4, <1>5, <1>6, <1>7, <1>8, SupervisorStep
<1>. QED BY <1>1, <1>9 DEF RivalInv

LEMMA NoRivals ==
  ASSUME Unshared, RivalInv, NEW v \in Plans, NEW w \in Plans, VmOf[v] = VmOf[w],
         pc[v] \in Active, pc[w] \in Active
  PROVE  v = w
BY DEF Unshared, RivalInv, SupervisorInv, ProcInv, Live, OneWorkerPerName, Supervised

\* A write into a file that its client has emptied leaves what it meant to.
LEMMA CleanWrite ==
  ASSUME NEW c \in Clients, WriteText(c), ledger = << >>, ~ malformed,
         Faults \subseteq {"crash"}
  PROVE  ledger' = draft[c] /\ malformed' = FALSE
BY DEF WriteText

\* The texts in play: the file's, and those about to be saved.
InPlay(s) == s = ledger \/ \E c \in Clients : InTransaction(c) /\ s = draft[c]

LEMMA TextsInPlay ==
  ASSUME SerialInv, SerialLedger, Faults \subseteq {"crash"}, [Next]_vars,
         NEW s, InPlay(s)'
  PROVE  s = << >> \/ InPlay(s) \/ \E c \in Clients : Loads(c) /\ s = draft'[c]
<1>1. TypeOK
  BY DEF SerialInv
<1>2. CASE Quiet
  BY <1>2 DEF Quiet, SamePhase, fileVars, InPlay
<1>3. ASSUME NEW c \in Clients, Loads(c)
      PROVE  InPlay(s) \/ (Loads(c) /\ s = draft'[c])
  <2>1. \A b \in Clients : InTransaction(b)' => b = c
    BY <1>3 DEF Loads, LedgerFree, Clients, Others, SamePhase
  <2>. QED BY <1>3, <2>1 DEF Loads, fileVars, InPlay
<1>4. ASSUME NEW c \in Clients, Truncates(c) PROVE s = << >> \/ InPlay(s)
  BY <1>4 DEF Truncates, Truncate, Others, SamePhase, InPlay
<1>5. ASSUME NEW c \in Clients, Saves(c) PROVE InPlay(s)
  <2>1. \A b \in Clients : InTransaction(b)' => draft'[b] = draft[b] /\ InTransaction(b)
    BY <1>5 DEF Saves, Others, SamePhase
  <2>2. InTransaction(c) /\ ledger' = draft[c]
    BY <1>5, CleanWrite DEF Saves, SerialInv
  <2>. QED BY <2>1, <2>2 DEF InPlay
<1>. QED BY <1>1, <1>2, <1>3, <1>4, <1>5, FileStep

\* After a save there is only the text that was saved.
LEMMA OnlyTheSavedText ==
  ASSUME SerialInv, SerialLedger, Faults \subseteq {"crash"}, [Next]_vars,
         NEW w \in Plans,
         Moves(w, "declareWrite", "recorded") \/ Moves(w, "markWrite", "done"),
         NEW s, InPlay(s)'
  PROVE  s = draft[w]
<1>1. w \in Clients
  BY DEF Clients
<1>2. /\ \A c \in Clients : ~ InTransaction(c)'
      /\ WriteText(w) /\ ledger = << >> /\ ~ malformed
  BY AloneInTransaction
<1>3. ledger' = draft[w]
  BY <1>1, <1>2, CleanWrite
<1>. QED BY <1>2, <1>3 DEF InPlay

\* The draft of a client that goes on with its transaction is the one it has.
LEMMA DraftGoesOn ==
  ASSUME TypeOK, SerialLedger, [Next]_vars, NEW c \in Clients,
         InTransaction(c), InTransaction(c)'
  PROVE  draft'[c] = draft[c]
<1>1. CASE Quiet
  BY <1>1 DEF Quiet
<1>2. ASSUME NEW b \in Clients, Loads(b) PROVE FALSE
  BY <1>2 DEF Loads, LedgerFree, Clients
<1>3. ASSUME NEW b \in Clients, Truncates(b) \/ Saves(b) PROVE draft'[c] = draft[c]
  BY <1>3 DEF Truncates, Saves, Others
<1>. QED BY <1>1, <1>2, <1>3, FileStep

\* A client that enters a transaction has loaded the ledger.
LEMMA EntersByLoading ==
  ASSUME TypeOK, [Next]_vars, NEW c \in Clients,
         ~ InTransaction(c), InTransaction(c)'
  PROVE  Loads(c)
<1>1. CASE Quiet
  BY <1>1 DEF Quiet, SamePhase
<1>2. ASSUME NEW b \in Clients, Loads(b) PROVE b = c
  BY <1>2 DEF Loads, Others, SamePhase
<1>3. ASSUME NEW b \in Clients, Truncates(b) \/ Saves(b) PROVE FALSE
  BY <1>3 DEF Truncates, Saves, Others, SamePhase
<1>. QED BY <1>1, <1>2, <1>3, FileStep

\* Of a text s: every record of plan w has w's outcome; every record is in
\* Booting or has the outcome of its plan; the record of w's name is w's.
Tells(w, s) == \A i \in DOMAIN s : s[i].plan = w => s[i].state = outcome[w]
Honest(s) == \A i \in DOMAIN s : s[i].state \in {"Booting", outcome[s[i].plan]}
Owns(w, s) == \A i \in DOMAIN s : s[i].name = VmOf[w] => s[i].plan = w

Held == {"recorded", "booting", "ended", "marking", "markWrite"}

WorkerInv(w) ==
  /\ pc[w] \in {"declaring", "declareWrite"} => Owns(w, draft[w])
  /\ pc[w] \in Held => \A s \in Ledgers : InPlay(s) => Owns(w, s)
  /\ pc[w] = "ended" => outcome[w] \in {"Stopped", "Failed"}
  /\ pc[w] \in {"marking", "markWrite"} => Tells(w, draft[w])
  /\ pc[w] \in {"done", "unmarked"} => \A s \in Ledgers : InPlay(s) => Tells(w, s)

RecordInv ==
  /\ SerialInv /\ NamedInv /\ OutcomeInv /\ RivalInv
  /\ ~ malformed
  /\ \A s \in Ledgers : InPlay(s) => Honest(s)
  /\ \A w \in Plans : WorkerInv(w)

LEMMA RecordInit == Init => RecordInv
<1>. SUFFICES ASSUME Init PROVE RecordInv
  OBVIOUS
<1>1. \A s : InPlay(s) => s = << >>
  BY DEF Init, InPlay, Clients
<1>2. Honest(<< >>)
  BY EmptyLedger DEF Honest
<1>3. \A w \in Plans : pc[w] = "idle"
  BY DEF Init
<1>4. \A w \in Plans : WorkerInv(w)
  BY <1>3 DEF WorkerInv, Held
<1>5. OutcomeInv /\ ~ malformed
  BY DEF Init, OutcomeInv
<1>. QED BY <1>1, <1>2, <1>4, <1>5, SerialInit, NamedInit, RivalInit DEF RecordInv

\* The outcome that a record tells is one that does not change any more.
LEMMA HonestKeeps ==
  ASSUME TypeOK, OutcomeInv, [Next]_vars, NEW s \in Ledgers, Honest(s)
  PROVE  Honest(s)'
<1>1. SUFFICES ASSUME NEW i \in DOMAIN s PROVE s[i].state \in {"Booting", outcome'[s[i].plan]}
  BY DEF Honest
<1>2. s[i] \in VmRecord
  BY LenProperties DEF Ledgers
<1>3. s[i].plan \in Plans /\ s[i].state # "none"
  BY <1>2 DEF VmRecord, VmLifecycle
<1>. QED BY <1>1, <1>3, OutcomeStep DEF Honest

LEMMA HonestNext ==
  ASSUME Faults \subseteq {"crash"}, SerialLedger, RecordInv, [Next]_vars, TypeOK',
         NEW s \in Ledgers, InPlay(s)'
  PROVE  Honest(s)'
<1>1. TypeOK /\ OutcomeInv /\ SerialInv /\ ledger \in Ledgers
  BY DEF RecordInv, SerialInv, TypeOK
<1>2. CASE s = << >>
  BY <1>2, EmptyLedger DEF Honest
<1>3. CASE InPlay(s)
  BY <1>1, <1>3, HonestKeeps DEF RecordInv
<1>4. ASSUME NEW c \in Clients, Loads(c), s = draft'[c] PROVE Honest(s)'
  <2>1. Honest(ledger)
    BY <1>1 DEF RecordInv, InPlay
  <2>2. \A k \in DOMAIN ledger : ledger[k].state \in {"Booting", outcome'[ledger[k].plan]}
    <3>1. PICK g \in Ledgers : g = ledger
      BY <1>1
    <3>2. Honest(g)'
      BY <1>1, <2>1, <3>1, HonestKeeps
    <3>. QED BY <3>1, <3>2 DEF Honest
  <2>3. ASSUME NEW i \in DOMAIN s PROVE s[i].state \in {"Booting", outcome'[s[i].plan]}
    <3>1. Fresh(c, s[i]) \/ Outcome(c, s[i]) \/ Left(c, s[i])
      BY <1>1, <1>4, <2>3, LoadedRecords DEF Loads
    <3>2. CASE Fresh(c, s[i])
      BY <2>2, <3>2 DEF Fresh, FromPlan
    <3>3. CASE Left(c, s[i])
      BY <2>2, <3>3 DEF Left
    <3>4. CASE Outcome(c, s[i])
      <4>1. c \in Plans /\ pc[c] = "ended" /\ outcome[c] \in {"Stopped", "Failed"}
        BY <3>4 DEF Outcome
      <4>2. Owns(c, ledger)
        BY <1>1, <4>1 DEF RecordInv, WorkerInv, Held, InPlay
      <4>3. outcome'[c] = outcome[c]
        BY <1>1, <4>1, OutcomeStep
      <4>. QED BY <2>2, <3>4, <4>2, <4>3 DEF Outcome, Owns
    <3>. QED BY <3>1, <3>2, <3>3, <3>4
  <2>. QED BY <2>3 DEF Honest
<1>. QED BY <1>1, <1>2, <1>3, <1>4, TextsInPlay

LEMMA WorkerInvNext ==
  ASSUME Faults \subseteq {"crash"}, SerialLedger, Unshared, RecordInv, [Next]_vars,
         NEW w \in Plans
  PROVE  WorkerInv(w)'
<1>1. /\ TypeOK /\ OutcomeInv /\ SerialInv /\ NamedInv /\ RivalInv /\ WorkerInv(w)
      /\ ledger \in Ledgers /\ w \in Clients /\ UniqueNames(ledger) /\ ~ malformed
      /\ "io" \notin Faults /\ InPlay(ledger)
  BY DEF RecordInv, SerialInv, Sound, TypeOK, Clients, InPlay
<1>2. WorkerMoves(w)
  BY <1>1, WorkerStep
<1>3. /\ InTransaction(w) <=> pc[w] \in {"declaring", "declareWrite", "marking", "markWrite"}
      /\ InTransaction(w)' <=> pc'[w] \in {"declaring", "declareWrite", "marking", "markWrite"}
  BY DEF InTransaction, Writing
<1>4. InTransaction(w) /\ InTransaction(w)' => draft'[w] = draft[w]
  BY <1>1, DraftGoesOn
<1>5. ~ InTransaction(w) /\ InTransaction(w)' => Loads(w)
  BY <1>1, EntersByLoading
<1>6. \A c \in Clients : Loads(c) =>
        \A i \in DOMAIN draft'[c] :
          LET r == draft'[c][i] IN Fresh(c, r) \/ Outcome(c, r) \/ Left(c, r)
  BY <1>1, LoadedRecords DEF Loads
<1>7. \A s : InPlay(s)' =>
        s = << >> \/ InPlay(s) \/ \E c \in Clients : Loads(c) /\ s = draft'[c]
  BY <1>1, TextsInPlay
<1>8. \A k \in DOMAIN ledger : ledger[k].name = VmOf[ledger[k].plan]
  BY <1>1 DEF NamedInv, Named
<1>9. w \notin Tools
  BY PlanAssumption
<1>10. pc'[w] \in {"declaring", "declareWrite"} => Owns(w, draft'[w])
  <2>1. CASE pc[w] \in {"declaring", "declareWrite"} /\ pc'[w] \in {"declaring", "declareWrite"}
    BY <1>1, <1>3, <1>4, <2>1 DEF WorkerInv
  <2>2. CASE pc[w] = "planned" /\ pc'[w] = "declaring"
    <3>1. Loads(w)
      BY <1>3, <1>5, <2>2
    <3>2. ASSUME NEW i \in DOMAIN draft'[w], draft'[w][i].name = VmOf[w]
          PROVE  draft'[w][i].plan = w
      <4>1. Fresh(w, draft'[w][i])
        BY <1>1, <1>6, <1>9, <2>2, <3>1, <3>2 DEF Outcome, Left
      <4>. QED BY <3>2, <4>1 DEF Fresh, FromPlan
    <3>. QED BY <3>2 DEF Owns
  <2>. QED BY <1>2, <2>1, <2>2 DEF WorkerMoves, Moves
<1>11. ASSUME pc'[w] \in Held, NEW s \in Ledgers, InPlay(s)' PROVE Owns(w, s)
  <2>1. CASE Moves(w, "declareWrite", "recorded")
    <3>1. s = draft[w]
      BY <1>1, <1>11, <2>1, OnlyTheSavedText
    <3>. QED BY <1>1, <2>1, <3>1 DEF Moves, WorkerInv
  <2>2. CASE pc[w] \in Held
    <3>1. Owns(w, ledger) /\ pc[w] \in Active
      BY <1>1, <2>2 DEF WorkerInv, Held, Active, Unarmed
    <3>2. CASE s = << >>
      BY <3>2, EmptyLedger DEF Owns
    <3>3. CASE InPlay(s)
      BY <1>1, <1>11, <2>2, <3>3 DEF WorkerInv
    <3>4. ASSUME NEW c \in Clients, Loads(c), s = draft'[c],
                 NEW i \in DOMAIN s, s[i].name = VmOf[w]
          PROVE  s[i].plan = w
      <4>1. Fresh(c, s[i]) \/ Outcome(c, s[i]) \/ Left(c, s[i])
        BY <1>6, <3>4
      <4>2. CASE Fresh(c, s[i])
        <5>1. ~ (VmOf[c] = VmOf[w])
          <6>1. SUFFICES ASSUME VmOf[c] = VmOf[w] PROVE FALSE
            OBVIOUS
          <6>2. c \in Plans /\ pc[c] = "planned" /\ pc[c] \in Active
            BY <4>2 DEF Fresh, Active, Unarmed
          <6>3. c = w
            BY <1>1, <3>1, <6>1, <6>2, NoRivals
          <6>. QED BY <2>2, <6>2, <6>3 DEF Held
        <5>. QED BY <3>1, <3>4, <4>2, <5>1 DEF Fresh, FromPlan, Owns
      <4>3. CASE Outcome(c, s[i])
        BY <3>1, <3>4, <4>3 DEF Outcome, Owns
      <4>4. CASE Left(c, s[i])
        BY <3>1, <3>4, <4>4 DEF Left, Owns
      <4>. QED BY <4>1, <4>2, <4>3, <4>4
    <3>. QED BY <1>7, <1>11, <3>2, <3>3, <3>4 DEF Owns
  <2>. QED BY <1>1, <1>2, <1>11, <2>1, <2>2 DEF WorkerMoves, Moves, Held
<1>12. pc'[w] = "ended" => outcome'[w] \in {"Stopped", "Failed"}
  BY <1>1, <1>2 DEF WorkerMoves, Moves, WorkerInv
<1>13. ASSUME pc'[w] \in {"marking", "markWrite"}
       PROVE  \A i \in DOMAIN draft'[w] : draft'[w][i].plan = w => draft'[w][i].state = outcome'[w]
  <2>1. CASE pc[w] \in {"marking", "markWrite"}
    <3>1. outcome'[w] = outcome[w]
      BY <1>2, <1>13, <2>1 DEF WorkerMoves, Moves
    <3>2. draft'[w] = draft[w]
      BY <1>3, <1>4, <1>13, <2>1
    <3>. QED BY <1>1, <2>1, <3>1, <3>2 DEF WorkerInv, Tells
  <2>2. CASE Moves(w, "ended", "marking")
    <3>1. Loads(w)
      BY <1>3, <1>5, <1>13, <2>2 DEF Moves
    <3>2. ASSUME NEW i \in DOMAIN draft'[w], draft'[w][i].plan = w
          PROVE  draft'[w][i].state = outcome'[w]
      <4>1. Outcome(w, draft'[w][i])
        BY <1>1, <1>6, <1>9, <2>2, <3>1, <3>2 DEF Fresh, Left, Moves
      <4>. QED BY <1>1, <1>8, <2>2, <3>2, <4>1 DEF Outcome, Moves
    <3>. QED BY <3>2
  <2>. QED BY <1>2, <1>13, <2>1, <2>2 DEF WorkerMoves, Moves
<1>14. ASSUME pc'[w] \in {"done", "unmarked"}, NEW s \in Ledgers, InPlay(s)'
       PROVE  \A i \in DOMAIN s : s[i].plan = w => s[i].state = outcome'[w]
  <2>1. CASE Moves(w, "markWrite", "done")
    <3>1. s = draft[w]
      BY <1>1, <1>14, <2>1, OnlyTheSavedText
    <3>. QED BY <1>1, <2>1, <3>1 DEF Moves, WorkerInv, Tells
  <2>2. CASE pc[w] \in {"done", "unmarked"} /\ outcome'[w] = outcome[w]
    <3>1. Tells(w, ledger)
      BY <1>1, <2>2 DEF WorkerInv
    <3>2. CASE s = << >>
      BY <3>2, EmptyLedger
    <3>3. CASE InPlay(s)
      BY <1>1, <1>14, <2>2, <3>3 DEF WorkerInv, Tells
    <3>4. ASSUME NEW c \in Clients, Loads(c), s = draft'[c],
                 NEW i \in DOMAIN s, s[i].plan = w
          PROVE  s[i].state = outcome[w]
      <4>1. Fresh(c, s[i]) \/ Outcome(c, s[i]) \/ Left(c, s[i])
        BY <1>6, <3>4
      <4>2. CASE Fresh(c, s[i])
        BY <2>2, <3>1, <3>4, <4>2 DEF Fresh, FromPlan, Tells
      <4>3. CASE Outcome(c, s[i])
        <5>1. c \in Plans /\ pc[c] = "ended" /\ c # w
          BY <2>2, <4>3 DEF Outcome
        <5>2. Owns(c, ledger)
          BY <1>1, <5>1 DEF RecordInv, WorkerInv, Held
        <5>. QED BY <3>1, <3>4, <4>3, <5>1, <5>2 DEF Outcome, Owns, Tells
      <4>4. CASE Left(c, s[i])
        BY <3>1, <3>4, <4>4 DEF Left, Tells
      <4>. QED BY <4>1, <4>2, <4>3, <4>4
    <3>. QED BY <1>7, <1>14, <2>2, <3>2, <3>3, <3>4
  <2>3. CASE /\ Moves(w, "ended", "unmarked") /\ LedgerFree /\ Quiet
             /\ ~ CanSetState(ledger, VmOf[w], outcome[w])
    <3>1. s = ledger
      BY <1>14, <2>3 DEF InPlay, Quiet, SamePhase, LedgerFree, Clients, fileVars
    <3>2. ASSUME NEW i \in DOMAIN ledger, ledger[i].plan = w
          PROVE  ledger[i].state = outcome[w]
      <4>1. ledger[i].state \in {"Booting", outcome[w]}
        BY <1>1, <3>2 DEF RecordInv, Honest
      <4>2. ledger[i].state # "Booting"
        <5>1. SUFFICES ASSUME ledger[i].state = "Booting"
                       PROVE  CanSetState(ledger, VmOf[w], outcome[w])
          BY <2>3
        <5>2. CanTransitionTo(ledger[i].state, outcome[w])
          BY <1>1, <2>3, <5>1 DEF Moves, WorkerInv, CanTransitionTo
        <5>3. IsFirst(ledger, VmOf[w], i)
          <6>1. ledger[i].name = VmOf[w] /\ DOMAIN ledger = 1..Len(ledger) /\ Len(ledger) \in Nat
            BY <1>1, <1>8, <3>2, LenProperties DEF Ledgers
          <6>. QED BY <1>1, <6>1 DEF IsFirst, UniqueNames
        <5>. QED BY <5>2, <5>3 DEF CanSetState
      <4>. QED BY <4>1, <4>2
    <3>. QED BY <2>3, <3>1, <3>2 DEF Moves
  <2>. QED BY <1>1, <1>2, <1>14, <2>1, <2>2, <2>3 DEF WorkerMoves, Moves
<1>. QED BY <1>10, <1>11, <1>12, <1>13, <1>14 DEF WorkerInv, Tells, Owns

LEMMA RecordNext ==
  Faults \subseteq {"crash"} /\ SerialLedger /\ Unshared /\ RecordInv /\ [Next]_vars
    => RecordInv'
<1>. SUFFICES ASSUME Faults \subseteq {"crash"}, SerialLedger, Unshared, RecordInv, [Next]_vars
              PROVE  RecordInv'
  OBVIOUS
<1>1. TypeOK /\ SerialInv /\ TypeOK'
  BY TypeNext DEF RecordInv, SerialInv
<1>2. SerialInv' /\ NamedInv' /\ OutcomeInv' /\ RivalInv'
  BY <1>1, SerialNext, NamedNext, OutcomeStep, RivalNext DEF RecordInv
<1>3. ~ malformed'
  <2>1. ASSUME NEW c \in Clients, Saves(c) PROVE malformed' = FALSE
    BY <1>1, <2>1, CleanWrite DEF Saves, SerialInv
  <2>. QED BY <1>1, <2>1, FileStep DEF RecordInv, Quiet, Loads, Truncates, Truncate, fileVars
<1>4. \A s \in Ledgers : InPlay(s)' => Honest(s)'
  BY <1>1, HonestNext
<1>5. \A w \in Plans : WorkerInv(w)'
  BY WorkerInvNext
<1>. QED BY <1>2, <1>3, <1>4, <1>5 DEF RecordInv

\* Whichever processes crash, and wherever: a record tells the outcome of the
\* plan it was made from, when transactions do not overlap and only the
\* daemon, which lives on, has several workers of one VM.
THEOREM RecordsTellOutcomes ==
  SerialLedger /\ Unshared /\ Faults \subseteq {"crash"}
    => (Spec => []RecordTellsOutcome)
<1>. SUFFICES ASSUME SerialLedger, Unshared, Faults \subseteq {"crash"}
              PROVE  Spec => []RecordTellsOutcome
  OBVIOUS
<1>1. RecordInv => RecordTellsOutcome
  <2>1. SUFFICES ASSUME RecordInv, NEW w \in Plans, NEW i \in DOMAIN ledger, ledger[i].plan = w
                 PROVE  /\ pc[w] \in {"done", "unmarked"} => ledger[i].state = outcome[w]
                        /\ ledger[i].state # "Booting" => ledger[i].state = outcome[w]
    BY DEF RecordTellsOutcome
  <2>2. ledger \in Ledgers /\ InPlay(ledger)
    BY <2>1 DEF RecordInv, SerialInv, TypeOK, InPlay
  <2>. QED BY <2>1, <2>2 DEF RecordInv, WorkerInv, Tells, Honest
<1>2. RecordInv /\ [Next]_vars => RecordInv'
  BY RecordNext
<1>. QED BY <1>1, <1>2, RecordInit, PTL DEF Spec
=============================================================================
