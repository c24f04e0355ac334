---------------------------- MODULE HostTapProofs ----------------------------
(***************************************************************************)
(* Theorems of HostTap, for any number of processes, TAPs and bridges.     *)
(***************************************************************************)
EXTENDS HostTap, TLAPS

USE DEF To, Quietly, MyLink, Present

(***************************************************************************)
(* The type invariant.                                                     *)
(***************************************************************************)

\* A process's TAP is a link, and so is what a step makes of it.
LEMMA LinksAreTyped ==
  ASSUME TypeOK, NEW p \in Procs
  PROVE  /\ TapOf[p] \in Taps /\ BridgeOf[p] \in Bridges \cup {None}
         /\ MyLink(p) \in Links
         /\ Absent \in Links /\ Made(p) \in Links /\ Foreign \in Links
         /\ [MyLink(p) EXCEPT !.master = BridgeOf[p]] \in Links
         /\ [MyLink(p) EXCEPT !.up = TRUE] \in Links
         /\ Present(TapOf[p]) \in BOOLEAN
<1>1. TapOf[p] \in Taps /\ BridgeOf[p] \in Bridges \cup {None}
  BY TapAssumption
<1>2. link[TapOf[p]] \in Links
  BY <1>1 DEF TypeOK
<1>3. Absent \in Links /\ Made(p) \in Links /\ Foreign \in Links
  BY DEF Absent, Made, Foreign, Links
<1>4. [link[TapOf[p]] EXCEPT !.master = BridgeOf[p]] \in Links
  BY <1>1, <1>2 DEF Links
<1>5. [link[TapOf[p]] EXCEPT !.up = TRUE] \in Links
  BY <1>2 DEF Links
<1>6. link[TapOf[p]].there \in BOOLEAN
  BY <1>2 DEF Links
<1> QED BY <1>1, <1>2, <1>3, <1>4, <1>5, <1>6

LEMMA SetLinkTyped ==
  ASSUME TypeOK, NEW p \in Procs, NEW lk \in Links, SetLink(p, lk)
  PROVE  link' \in [Taps -> Links] /\ createdHere' \in [Procs -> BOOLEAN]
BY DEF SetLink, TypeOK

LEMMA TypeInit == Init => TypeOK
<1>1. Absent \in Links /\ Foreign \in Links
  BY DEF Absent, Made, Foreign, Links
<1> QED BY <1>1 DEF Init, TypeOK

LEMMA TypeNext == TypeOK /\ [Next]_vars => TypeOK'
<1> SUFFICES ASSUME TypeOK, [Next]_vars PROVE TypeOK'
  OBVIOUS
<1>1. ASSUME NEW p \in Procs, Prepare(p) PROVE TypeOK'
  BY <1>1 DEF Prepare, TypeOK
<1>2. ASSUME NEW p \in Procs, CheckExists(p) PROVE TypeOK'
  BY <1>2, LinksAreTyped DEF CheckExists, TypeOK
<1>3. ASSUME NEW p \in Procs, AddTap(p) PROVE TypeOK'
  <2>1. CASE To(p, "master") /\ SetLink(p, Made(p))
    BY <2>1, LinksAreTyped, SetLinkTyped DEF TypeOK
  <2>2. CASE Quietly(p, "recheck")
    BY <2>2 DEF TypeOK
  <2> QED BY <1>3, <2>1, <2>2 DEF AddTap
<1>4. ASSUME NEW p \in Procs, Recheck(p) PROVE TypeOK'
  BY <1>4 DEF Recheck, TypeOK
<1>5. ASSUME NEW p \in Procs, AttachFails(p) PROVE TypeOK'
  BY <1>5 DEF AttachFails, TypeOK
<1>6. ASSUME NEW p \in Procs, SetMaster(p) PROVE TypeOK'
  <2>1. CASE To(p, "up") /\ SetLink(p, [MyLink(p) EXCEPT !.master = BridgeOf[p]])
    <3>1. link' \in [Taps -> Links] /\ createdHere' \in [Procs -> BOOLEAN]
      BY <2>1, LinksAreTyped, SetLinkTyped
    <3> QED BY <2>1, <3>1 DEF TypeOK
  <2> QED BY <1>5, <1>6, <2>1 DEF SetMaster
<1>7. ASSUME NEW p \in Procs, SetUp(p) PROVE TypeOK'
  <2>1. ASSUME NEW l \in AfterSetUp, To(p, l), SetLink(p, [MyLink(p) EXCEPT !.up = TRUE])
        PROVE  TypeOK'
    <3>1. link' \in [Taps -> Links] /\ createdHere' \in [Procs -> BOOLEAN]
      BY <2>1, LinksAreTyped, SetLinkTyped
    <3>2. l \in {"guarded", "failed"}
      BY DEF AfterSetUp
    <3> QED BY <2>1, <3>1, <3>2 DEF TypeOK
  <2> QED BY <1>5, <1>7, <2>1 DEF SetUp
<1>8. ASSUME NEW p \in Procs, RollBack(p) \/ DropGuard(p) PROVE TypeOK'
  <2>1. link' \in [Taps -> Links] /\ createdHere' \in [Procs -> BOOLEAN]
    BY <1>8, LinksAreTyped, SetLinkTyped DEF RollBack, DropGuard, Delete, TypeOK
  <2> QED BY <1>8, <2>1 DEF RollBack, DropGuard, TypeOK
<1>9. ASSUME NEW p \in Procs, Boot(p) \/ GuestEnds(p) PROVE TypeOK'
  BY <1>9 DEF Boot, GuestEnds, TypeOK
<1>10. CASE UNCHANGED vars
  BY <1>10 DEF vars, TypeOK
<1> QED
  BY <1>1, <1>2, <1>3, <1>4, <1>6, <1>7, <1>8, <1>9, <1>10 DEF Next

\* Every state is well typed.
THEOREM HostTapType == Spec => []TypeOK
BY TypeInit, TypeNext, PTL DEF Spec

(***************************************************************************)
(* No TAP is orphaned.  The strengthening: a process about to create its   *)
(* TAP knows that it has created it, so whatever becomes of its attachment *)
(* it deletes it.                                                          *)
(***************************************************************************)
AddersKnow == \A p \in Procs : at[p] \in {"add", "recheck"} => createdHere[p]

LEMMA NotOrphanedNext ==
  ~ DelFails /\ ~ PrintFails /\ TypeOK /\ AddersKnow /\ NeverOrphaned /\ [Next]_vars
    => AddersKnow' /\ NeverOrphaned'
<1> SUFFICES ASSUME ~ DelFails, ~ PrintFails, TypeOK, AddersKnow, NeverOrphaned, [Next]_vars
             PROVE AddersKnow' /\ NeverOrphaned'
  OBVIOUS
<1> USE DEF TypeOK, AddersKnow, NeverOrphaned, WillDelete
<1>1. ASSUME NEW p \in Procs, Prepare(p) PROVE AddersKnow' /\ NeverOrphaned'
  BY <1>1 DEF Prepare
<1>2. ASSUME NEW p \in Procs, CheckExists(p) PROVE AddersKnow' /\ NeverOrphaned'
  <2>1. AddersKnow'
    <3>1. CASE Quietly(p, "failed") \/ Quietly(p, "master")
      BY <3>1
    <3>2. CASE createdHere' = [createdHere EXCEPT ![p] = TRUE] /\ To(p, "add")
      BY <3>2
    <3> QED BY <1>2, <3>1, <3>2 DEF CheckExists
  <2>2. \A q \in Procs : WillDelete(q) => q # p /\ WillDelete(q)'
    BY <1>2 DEF CheckExists
  <2>3. link' = link
    BY <1>2 DEF CheckExists
  <2> QED BY <2>1, <2>2, <2>3
<1>3. ASSUME NEW p \in Procs, AddTap(p) PROVE AddersKnow' /\ NeverOrphaned'
  BY <1>3, TapAssumption DEF AddTap, SetLink
<1>4. ASSUME NEW p \in Procs, Recheck(p) PROVE AddersKnow' /\ NeverOrphaned'
  BY <1>4 DEF Recheck
<1>5. ASSUME NEW p \in Procs, SetMaster(p) PROVE AddersKnow' /\ NeverOrphaned'
  BY <1>5, TapAssumption DEF SetMaster, AttachFails, SetLink, Links
<1>6. ASSUME NEW p \in Procs, SetUp(p) PROVE AddersKnow' /\ NeverOrphaned'
  <2>1. CASE Quietly(p, IF createdHere[p] THEN "rollback" ELSE "failed")
    BY <1>6, <2>1 DEF SetUp
  <2>2. CASE To(p, "guarded") /\ SetLink(p, [MyLink(p) EXCEPT !.up = TRUE])
    BY <1>6, <2>2, TapAssumption DEF SetUp, SetLink, Links
  <2>3. AfterSetUp = {"guarded"}
    BY DEF AfterSetUp
  <2> QED BY <1>6, <2>1, <2>2, <2>3 DEF SetUp, AttachFails
<1>7. ASSUME NEW p \in Procs, RollBack(p) \/ DropGuard(p)
      PROVE AddersKnow' /\ NeverOrphaned'
  BY <1>7, TapAssumption DEF RollBack, DropGuard, Delete, SetLink, Absent
<1>8. ASSUME NEW p \in Procs, Boot(p) \/ GuestEnds(p)
      PROVE AddersKnow' /\ NeverOrphaned'
  BY <1>8 DEF Boot, GuestEnds
<1>9. CASE UNCHANGED vars
  BY <1>9 DEF vars
<1> QED
  BY <1>1, <1>2, <1>3, <1>4, <1>5, <1>6, <1>7, <1>8, <1>9 DEF Next

\* As long as `ip link del` does what it is told and the console is not closed
\* between the set-up and the guard, no TAP is left behind by processes that
\* end by themselves, though they share it and any other `ip` may fail.
THEOREM TapNeverOrphaned == ~ DelFails /\ ~ PrintFails => (Spec => []NeverOrphaned)
<1>1. Init => AddersKnow /\ NeverOrphaned
  BY DEF Init, AddersKnow, NeverOrphaned, Absent, Foreign, Made
<1> SUFFICES ASSUME ~ DelFails, ~ PrintFails PROVE Spec => []NeverOrphaned
  OBVIOUS
<1>2. TypeOK /\ AddersKnow /\ NeverOrphaned /\ [Next]_vars
        => AddersKnow' /\ NeverOrphaned'
  BY NotOrphanedNext
<1> QED BY <1>1, <1>2, HostTapType, PTL DEF Spec

(***************************************************************************)
(* A process that shares its TAP with nobody.  Between its own commands    *)
(* the TAP stays as it left it: others that have the TAP's name have no    *)
(* bridge, hence no command to give (IsolatedInv), and those that have one *)
(* work on other TAPs.  So Attached can say, command by command, what the  *)
(* pipeline has reached.                                                   *)
(***************************************************************************)
IsolatedInv ==
  \A p \in Procs : BridgeOf[p] = None =>
    at[p] \in {"start", "isolated", "runningIsolated", "failed", "over"}

Attached(p) ==
  LET lk == MyLink(p)
  IN  /\ at[p] \in {"master", "up"} => lk.there
      /\ at[p] \in {"up", "guarded", "running"} => lk.there /\ lk.master = BridgeOf[p]
      /\ at[p] \in {"guarded", "running"} => lk.up

AttachedInv == IsolatedInv /\ \A p \in Procs : SoleUser(p) => Attached(p)

Step(p) ==
  \/ Prepare(p) \/ CheckExists(p) \/ AddTap(p) \/ Recheck(p)
  \/ SetMaster(p) \/ SetUp(p) \/ RollBack(p)
  \/ Boot(p) \/ GuestEnds(p) \/ DropGuard(p)

\* A step touches its own process and its own TAP, and without a bridge no TAP.
LEMMA StepsAreLocal ==
  ASSUME TypeOK, IsolatedInv, NEW q \in Procs, Step(q)
  PROVE  /\ \A p \in Procs : p # q => at'[p] = at[p] /\ createdHere'[p] = createdHere[p]
         /\ \A t \in Taps : t # TapOf[q] => link'[t] = link[t]
         /\ BridgeOf[q] = None =>
              /\ link' = link
              /\ at'[q] \in {"start", "isolated", "runningIsolated", "failed", "over"}
<1> USE DEF TypeOK, IsolatedInv, SetLink
<1>1. CASE Prepare(q)  BY <1>1 DEF Prepare
<1>2. CASE CheckExists(q)
  <2>1. BridgeOf[q] # None  BY <1>2 DEF CheckExists
  <2>. QED  BY <1>2, <2>1 DEF CheckExists
<1>3. CASE AddTap(q)  BY <1>3 DEF AddTap
<1>4. CASE Recheck(q)  BY <1>4 DEF Recheck
<1>5. CASE SetMaster(q)
  <2>1. BridgeOf[q] # None  BY <1>5 DEF SetMaster
  <2>. QED  BY <1>5, <2>1 DEF SetMaster, AttachFails
<1>6. CASE SetUp(q)
  <2>1. BridgeOf[q] # None  BY <1>6 DEF SetUp
  <2>. QED  BY <1>6, <2>1 DEF SetUp, AttachFails, AfterSetUp
<1>7. CASE RollBack(q) \/ DropGuard(q)
  BY <1>7 DEF RollBack, DropGuard, Delete
<1>8. CASE Boot(q) \/ GuestEnds(q)  BY <1>8 DEF Boot, GuestEnds
<1>. QED  BY <1>1, <1>2, <1>3, <1>4, <1>5, <1>6, <1>7, <1>8 DEF Step

\* What a sole user's own step makes of its TAP.
LEMMA StepAttaches ==
  ASSUME TypeOK, IsolatedInv, NEW p \in Procs, Attached(p), Step(p)
  PROVE  Attached(p)'
<1> DEFINE t == TapOf[p]
<1>1. t \in Taps /\ link[t] \in Links  BY TapAssumption DEF TypeOK
<1>2. DOMAIN at = Procs /\ DOMAIN createdHere = Procs /\ DOMAIN link = Taps
  BY DEF TypeOK
<1> USE DEF Attached, SetLink
<1>3. CASE Prepare(p)  BY <1>2, <1>3 DEF Prepare
<1>4. CASE CheckExists(p)
  <2>1. link' = link /\ at'[p] \in {"failed", "master", "add"}  BY <1>2, <1>4 DEF CheckExists
  <2>2. at'[p] = "master" => link[t].there  BY <1>2, <1>4 DEF CheckExists
  <2>. QED  BY <2>1, <2>2
<1>5. CASE AddTap(p)
  <2>1. CASE To(p, "master") /\ SetLink(p, Made(p))
    BY <1>1, <1>2, <2>1 DEF Made
  <2>2. CASE Quietly(p, "recheck")  BY <1>2, <1>5, <2>2 DEF AddTap
  <2>. QED  BY <1>5, <2>1, <2>2 DEF AddTap
<1>6. CASE Recheck(p)  BY <1>2, <1>6 DEF Recheck
<1>7. ASSUME AttachFails(p), at[p] \in {"master", "up"} PROVE Attached(p)'
  <2>1. link' = link /\ createdHere' = createdHere  BY <1>7 DEF AttachFails
  <2>2. at'[p] = IF createdHere[p] THEN "rollback" ELSE "failed"  BY <1>2, <1>7 DEF AttachFails
  <2>. QED  BY <2>1, <2>2
<1>8. CASE SetMaster(p)
  <2>1. CASE To(p, "up") /\ SetLink(p, [MyLink(p) EXCEPT !.master = BridgeOf[p]])
    <3>1. link'[t] = [link[t] EXCEPT !.master = BridgeOf[p]]  BY <1>1, <1>2, <2>1
    <3>2. link'[t].there = link[t].there /\ link'[t].master = BridgeOf[p]
      BY <1>1, <3>1 DEF Links
    <3>3. at'[p] = "up" /\ createdHere' = createdHere  BY <1>2, <2>1
    <3>. QED  BY <1>8, <3>2, <3>3 DEF SetMaster
  <2>. QED  BY <1>7, <1>8, <2>1 DEF SetMaster
<1>9. CASE SetUp(p)
  <2>1. ASSUME NEW l \in AfterSetUp, To(p, l), SetLink(p, [MyLink(p) EXCEPT !.up = TRUE])
        PROVE  Attached(p)'
    <3>1. link'[t] = [link[t] EXCEPT !.up = TRUE]  BY <1>1, <1>2, <2>1
    <3>2. link'[t].there = link[t].there /\ link'[t].master = link[t].master /\ link'[t].up
      BY <1>1, <3>1 DEF Links
    <3>3. at'[p] \in {"guarded", "failed"}  BY <1>2, <2>1 DEF AfterSetUp
    <3>. QED  BY <1>9, <3>2, <3>3 DEF SetUp
  <2>. QED  BY <1>7, <1>9, <2>1 DEF SetUp
<1>10. CASE RollBack(p) \/ DropGuard(p)
  BY <1>2, <1>10 DEF RollBack, DropGuard
<1>11. CASE Boot(p) \/ GuestEnds(p)  BY <1>2, <1>11 DEF Boot, GuestEnds
<1>. QED
  BY <1>3, <1>4, <1>5, <1>6, <1>8, <1>9, <1>10, <1>11 DEF Step

LEMMA AttachedNext == TypeOK /\ AttachedInv /\ [Next]_vars => AttachedInv'
<1> SUFFICES ASSUME TypeOK, AttachedInv, [Next]_vars PROVE AttachedInv'  OBVIOUS
<1>1. CASE UNCHANGED vars  BY <1>1 DEF vars, AttachedInv, IsolatedInv, Attached
<1>2. ASSUME NEW q \in Procs, Step(q) PROVE AttachedInv'
  <2>1. IsolatedInv'
    <3>1. \A p \in Procs : p # q => at'[p] = at[p]
      BY <1>2, StepsAreLocal DEF AttachedInv
    <3>2. BridgeOf[q] = None =>
            at'[q] \in {"start", "isolated", "runningIsolated", "failed", "over"}
      BY <1>2, StepsAreLocal DEF AttachedInv
    <3>. QED  BY <3>1, <3>2 DEF AttachedInv, IsolatedInv
  <2>2. ASSUME NEW p \in Procs, SoleUser(p) PROVE Attached(p)'
    <3>1. Attached(p)  BY <2>2 DEF AttachedInv
    <3>2. CASE p = q  BY <1>2, <3>1, <3>2, StepAttaches DEF AttachedInv
    <3>3. CASE p # q
      <4>1. at'[p] = at[p] /\ createdHere'[p] = createdHere[p]
        BY <1>2, <3>3, StepsAreLocal DEF AttachedInv
      <4>2. TapOf[p] # TapOf[q] \/ BridgeOf[q] = None  BY <2>2, <3>3 DEF SoleUser
      <4>3. TapOf[p] \in Taps  BY TapAssumption
      <4>4. link'[TapOf[p]] = link[TapOf[p]]
        BY <1>2, <4>2, <4>3, StepsAreLocal DEF AttachedInv
      <4>. QED  BY <3>1, <4>1, <4>4 DEF Attached
    <3>. QED  BY <3>2, <3>3
  <2>3. \A p \in Procs : SoleUser(p)' <=> SoleUser(p)  BY DEF SoleUser
  <2>. QED  BY <2>1, <2>2, <2>3 DEF AttachedInv
<1>. QED  BY <1>1, <1>2 DEF Next, Step

LEMMA AttachedInvariant == Spec => []AttachedInv
<1>1. Init => AttachedInv  BY DEF Init, AttachedInv, IsolatedInv, Attached
<1>. QED  BY <1>1, AttachedNext, HostTapType, PTL DEF Spec

\* The VM of a process that shares its TAP with nobody runs with the TAP there,
\* up and on its bridge, whether it made the TAP or found it.
THEOREM RunsAttached == Spec => []RunningIsAttached
<1>1. AttachedInv => RunningIsAttached  BY DEF AttachedInv, Attached, RunningIsAttached
<1>. QED  BY <1>1, AttachedInvariant, PTL
=============================================================================
