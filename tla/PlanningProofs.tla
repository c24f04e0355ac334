--------------------------- MODULE PlanningProofs ---------------------------
(***************************************************************************)
(* Proofs about the configuration file and the way from an intent to an    *)
(* applied plan.                                                           *)
(***************************************************************************)
EXTENDS Planning, SequenceTheorems, WellFoundedInduction, TLAPS

(***************************************************************************)
(* Resolving a disk.                                                       *)
(***************************************************************************)

\* A disk that has been resolved to a path stays that path when it is resolved
\* again, whatever the file says by then: the daemon and its worker agree.
THEOREM DiskIsResolvedOnce ==
  ASSUME NEW d, NEW t1, NEW t2, NEW e, ResolveDiskPath(d, t1, e) \in Disks
  PROVE  ResolveDiskPath(ResolveDiskPath(d, t1, e), t2, e) = ResolveDiskPath(d, t1, e)
<1>1. {Blank, NoneWord} \cap Disks = {} /\ NotSet \notin Disks
  BY ConfigAssumption
<1>. QED BY <1>1 DEF ResolveDiskPath, CleanExplicitDisk, OrElse

(***************************************************************************)
(* The stored key.  A login is past the chmod of the directory before it   *)
(* writes, and nothing opens the directory again.                          *)
(***************************************************************************)
Past == {"load", "open", "write", "chmod"}
SecretInv ==
  /\ login \in [Logins -> LoginStages]
  /\ \A l \in Logins : login[l] \in Past => dirOpen = FALSE
  /\ (text \notin {Absent, Malformed} /\ text.key \in TypedKeys) => dirOpen = FALSE

\* A step of login l that leaves it at `where`, and what that demands.
LEMMA SecretStep ==
  ASSUME SecretInv, NEW l \in Logins, NEW where \in LoginStages, LoginTo(l, where),
         dirOpen' = dirOpen \/ dirOpen' = FALSE,
         text' = text \/ dirOpen' = FALSE,
         where \in Past => dirOpen' = FALSE
  PROVE  SecretInv'
<1>1. login' \in [Logins -> LoginStages]
  BY DEF SecretInv, LoginTo
<1>2. ASSUME NEW m \in Logins, login'[m] \in Past
      PROVE  dirOpen' = FALSE
  <2>1. CASE m = l
    BY <1>2, <2>1 DEF SecretInv, LoginTo
  <2>2. CASE m # l
    BY <1>2, <2>2 DEF SecretInv, LoginTo
  <2>. QED BY <2>1, <2>2
<1>3. (text' \notin {Absent, Malformed} /\ text'.key \in TypedKeys) => dirOpen' = FALSE
  BY DEF SecretInv
<1>. QED BY <1>1, <1>2, <1>3 DEF SecretInv

LEMMA SecretNext == SecretInv /\ [Next]_vars => SecretInv'
<1>. SUFFICES ASSUME SecretInv, [Next]_vars PROVE SecretInv'
  OBVIOUS
<1>1. ASSUME NEW l \in Logins, LoginStep(l) PROVE SecretInv'
  <2>. LoginStages = {"idle", "chmodDir", "load", "open", "write", "chmod",
                      "stored", "failed", "died"}
    BY DEF LoginStages
  <2>1. CASE LoginStart(l)
    BY <2>1, SecretStep DEF LoginStart, LoginEnds, fileVars, Past
  <2>2. CASE LoginChmodDir(l)
    BY <2>2, SecretStep DEF LoginChmodDir, LoginOn, LoginFails, LoginEnds, fileVars, Past
  <2>3. CASE LoginLoad(l)
    BY <2>3, SecretStep DEF LoginLoad, fileVars, Past, SecretInv
  <2>4. CASE LoginOpen(l)
    BY <2>4, SecretStep DEF LoginOpen, LoginOn, LoginFails, LoginEnds, fileVars, Past, SecretInv
  <2>5. CASE LoginWrite(l)
    BY <2>5, SecretStep DEF LoginWrite, LoginOn, LoginEnds, Past, SecretInv
  <2>6. CASE LoginChmodFile(l)
    BY <2>6, SecretStep DEF LoginChmodFile, LoginFails, LoginEnds, fileVars, Past
  <2>7. CASE LoginCrash(l)
    BY <2>7, SecretStep DEF LoginCrash, LoginEnds, fileVars, Past
  <2>. QED BY <1>1, <2>1, <2>2, <2>3, <2>4, <2>5, <2>6, <2>7 DEF LoginStep
<1>2. ASSUME NEW t \in Edits, Edit(t) PROVE SecretInv'
  BY <1>2, NewKeysAssumption DEF Edit, SecretInv
<1>3. ASSUME UNCHANGED configVars PROVE SecretInv'
  BY <1>3 DEF configVars, fileVars, loginVars, SecretInv
<1>. QED BY <1>1, <1>2, <1>3 DEF Next, vars, Configure, ConfigNext, Converse, LoadSettings,
       Post, ProvisionDirect, FinalizeDisk, FinalizeKernel, Confirm, Decline, Apply

\* The key a login stores is never readable by others, with any number of
\* logins, wherever they fail or die, and whatever the file's mode was.
THEOREM StoredKeyIsNeverOpen == Spec => []SecretIsNeverOpen
<1>1. Init => SecretInv
  BY NewKeysAssumption DEF Init, ConfigInit, SecretInv, LoginStages, Past
<1>2. SecretInv => SecretIsNeverOpen
  BY ConfigAssumption DEF SecretInv, SecretIsNeverOpen
<1>. QED BY <1>1, <1>2, SecretNext, PTL DEF Spec

(***************************************************************************)
(* What is applied is what was reviewed.                                   *)
(***************************************************************************)
\* A non-empty set of naturals has a least element.
LEMMA LeastNatural ==
  ASSUME NEW T \in SUBSET Nat, T # {}
  PROVE  \E m \in T : \A k \in T : m <= k
<1>. DEFINE R == {ss \in Nat \X Nat : ss[1] < ss[2]}
<1>1. OpToRel(<, Nat) = R
  BY DEF OpToRel
<1>2. IsWellFoundedOn(R, Nat)
  BY <1>1, NatLessThanWellFounded
<1>3. ASSUME NEW k \in Nat, NEW m \in Nat, k < m
      PROVE  <<k, m>> \in R
  <2>1. <<k, m>> \in Nat \X Nat
    OBVIOUS
  <2>2. <<k, m>>[1] < <<k, m>>[2]
    BY <1>3
  <2>. QED BY <2>1, <2>2
<1>. HIDE DEF R
<1>4. PICK m \in T : \A k \in T : ~ (<<k, m>> \in R)
  BY <1>2, WFMin
<1>5. ASSUME NEW k \in T PROVE m <= k
  <2>1. k \in Nat /\ m \in Nat
    OBVIOUS
  <2>2. ~ (k < m)
    BY <1>3, <1>4, <2>1, Zenon
  <2>. QED BY <2>1, <2>2
<1>. QED BY <1>5

\* A reply that calls for a machine has a first such call.
LEMMA FirstProvision ==
  ASSUME NEW calls \in Batches, Provisions(calls) # {}
  PROVE  /\ First(Provisions(calls)) \in Provisions(calls)
         /\ \A j \in Provisions(calls) : First(Provisions(calls)) <= j
<1>1. Provisions(calls) \subseteq Nat
  BY AgentAssumption DEF Provisions
<1>2. \E i \in Provisions(calls) : \A j \in Provisions(calls) : i <= j
  BY <1>1, LeastNatural
<1>. QED BY <1>2 DEF First

\* The plan of a session is what the first such call of its last reply asks.
PlanFrom(s) ==
  /\ reply[s] \in Batches /\ Provisions(reply[s]) # {}
  /\ PlanCall(reply[s]).input \in PlanInput
  /\ plan[s] = BuildPlan(PlanCall(reply[s]).input)

SessionInv ==
  /\ at \in [Sessions -> {"off", "configured", "ready", "waiting", "tools",
                          "planned", "answered", "failed"}]
  /\ DOMAIN reply = Sessions /\ DOMAIN plan = Sessions
  /\ \A s \in Sessions : at[s] = "planned" => PlanFrom(s)

LEMMA SessionNext == SessionInv /\ [Next]_vars => SessionInv'
<1>. SUFFICES ASSUME SessionInv, [Next]_vars PROVE SessionInv'
  OBVIOUS
<1>. USE DEF SessionInv, SessionTo
<1>1. ASSUME NEW s \in Sessions, LoadSettings(s) PROVE SessionInv'
  BY <1>1 DEF LoadSettings, PlanFrom
<1>2. ASSUME NEW s \in Sessions, Ask(s) PROVE SessionInv'
  BY <1>2 DEF Ask, PlanFrom
<1>3. ASSUME NEW s \in Sessions, Send(s) PROVE SessionInv'
  BY <1>3 DEF Send, PlanFrom
<1>4. ASSUME NEW s \in Sessions, Exhaust(s) PROVE SessionInv'
  BY <1>4 DEF Exhaust, PlanFrom
<1>5. ASSUME NEW s \in Sessions, NEW r \in Response, ReceiveEnd(s, r) PROVE SessionInv'
  BY <1>5 DEF ReceiveEnd, PlanFrom
<1>6. ASSUME NEW s \in Sessions, NEW r \in Response, ReceivePlan(s, r) PROVE SessionInv'
  <2>1. r.calls \in Batches
    BY DEF Response
  <2>2. ASSUME NEW m \in Sessions, at'[m] = "planned" PROVE PlanFrom(m)'
    <3>1. CASE m = s
      BY <1>6, <2>1, <2>2, <3>1 DEF ReceivePlan, PlanFrom
    <3>2. CASE m # s
      BY <1>6, <2>2, <3>2 DEF ReceivePlan, PlanFrom
    <3>. QED BY <3>1, <3>2
  <2>. QED BY <1>6, <2>2 DEF ReceivePlan
<1>7. ASSUME NEW s \in Sessions, NEW r \in Response, ReceiveTools(s, r) PROVE SessionInv'
  BY <1>7 DEF ReceiveTools, PlanFrom
<1>8. ASSUME NEW s \in Sessions, ExecuteTool(s) PROVE SessionInv'
  BY <1>8 DEF ExecuteTool, PlanFrom
<1>9. ASSUME UNCHANGED agentVars PROVE SessionInv'
  BY <1>9 DEF agentVars, PlanFrom
<1>. QED BY <1>1, <1>2, <1>3, <1>4, <1>5, <1>6, <1>7, <1>8, <1>9
     DEF Next, vars, Configure, Converse, AgentStep, Receive,
         Post, ProvisionDirect, FinalizeDisk, FinalizeKernel, Confirm, Decline, Apply

(***************************************************************************)
(* A plan with its disk resolved keeps what p asked for.                   *)
(***************************************************************************)
IsPlan(p) == p = [spec |-> p.spec, disk |-> p.disk]
Resolves(f, p) ==
  /\ IsPlan(p) /\ f = [spec |-> p.spec, disk |-> f.disk]
  /\ f.disk # NotSet /\ (p.disk \in Disks => f.disk = p.disk)

LEMMA ResolvedPlan ==
  ASSUME NEW p, IsPlan(p), NEW t, NEW e, ResolveDiskPath(p.disk, t, e) # NotSet
  PROVE  Resolves([p EXCEPT !.disk = ResolveDiskPath(p.disk, t, e)], p)
<1>1. p.disk \in Disks => ResolveDiskPath(p.disk, t, e) = p.disk
  BY ConfigAssumption DEF ResolveDiskPath, CleanExplicitDisk, OrElse
<1>. DEFINE d == ResolveDiskPath(p.disk, t, e)
<1>. HIDE DEF d
<1>2. [p EXCEPT !.disk = d] = [spec |-> p.spec, disk |-> d]
  BY DEF IsPlan
<1>. QED BY <1>1, <1>2 DEF Resolves, d

(***************************************************************************)
(* Where a run or a worker is, and what it holds by then.                  *)
(***************************************************************************)
Finalized == {"finalizing", "shown", "applied", "declined"}
Reviewed(c) ==
  /\ c \in Runs /\ stage[c] # "idle" => at[c] = "planned"
  /\ c \in Workers /\ stage[c] \in Finalized \cup {"planned"} => IsPlan(ordered[c])
  /\ stage[c] \in Finalized => Resolves(final[c], Proposed(c))
  /\ stage[c] \in {"shown", "applied"} => shown[c] = final[c]
  /\ applied[c] # NotApplied =>
       /\ stage[c] = "applied" /\ applied[c] = [plan |-> final[c], kernel |-> kernel[c]]
       /\ c \in Runs => c \in approved
ReviewInv ==
  /\ SessionInv
  /\ DOMAIN stage = Appliers /\ DOMAIN ordered = Workers
  /\ DOMAIN final = Appliers /\ DOMAIN kernel = Appliers
  /\ DOMAIN shown = Appliers /\ DOMAIN applied = Appliers
  /\ \A c \in Appliers : Reviewed(c)

LEMMA PlannedIsPlan ==
  ASSUME SessionInv, NEW c \in Runs, at[c] = "planned"
  PROVE  IsPlan(plan[c])
<1>1. c \in Sessions /\ PlanFrom(c)
  BY PlanningAssumption DEF SessionInv
<1>. QED BY <1>1 DEF PlanFrom, BuildPlan, PlanInput, IsPlan

(***************************************************************************)
(* What a session does leaves a run that is past it alone: the session has *)
(* ended.                                                                  *)
(***************************************************************************)
LEMMA SessionStep ==
  ASSUME ReviewInv, SessionInv', NEW s \in Sessions, LoadSettings(s) \/ Converse(s)
  PROVE  ReviewInv'
<1>1. at[s] # "planned" /\ UNCHANGED <<env, applyVars>>
  BY DEF LoadSettings, Converse, Ask, AgentStep, Send, Exhaust, Receive, ReceiveEnd,
         ReceivePlan, ReceiveTools, ExecuteTool
<1>2. \A m \in Sessions : m # s => at'[m] = at[m] /\ plan'[m] = plan[m]
  <2>1. CASE LoadSettings(s)
    BY <2>1 DEF LoadSettings, ReviewInv, SessionInv, SessionTo
  <2>2. CASE Converse(s)
    BY <2>2 DEF Converse, Ask, AgentStep, Send, Exhaust, Receive, ReceiveEnd,
       ReceivePlan, ReceiveTools, ExecuteTool, ReviewInv, SessionInv, SessionTo
  <2>. QED BY <2>1, <2>2
<1>3. ASSUME NEW c \in Appliers PROVE Reviewed(c)'
  <2>1. CASE c \in Runs /\ stage[c] = "idle"
    BY <1>1, <2>1 DEF ReviewInv, Reviewed, applyVars, Finalized, Proposed
  <2>2. CASE c \in Runs /\ stage[c] # "idle"
    <3>1. c \in Sessions /\ c # s
      BY <1>1, <2>2, PlanningAssumption DEF ReviewInv, Reviewed
    <3>. QED BY <1>1, <1>2, <2>2, <3>1 DEF ReviewInv, Reviewed, applyVars, Proposed
  <2>3. CASE c \notin Runs
    BY <1>1, <2>3 DEF ReviewInv, Reviewed, applyVars, Proposed
  <2>. QED BY <2>1, <2>2, <2>3
<1>. QED BY <1>1, <1>3 DEF ReviewInv, applyVars

(***************************************************************************)
(* One step of the run or worker c, and what the others may rely on.       *)
(***************************************************************************)
LEMMA ApplyStep ==
  ASSUME ReviewInv, UNCHANGED agentVars, approved \subseteq approved', NEW c \in Appliers,
         \A d \in Appliers : d # c =>
           /\ stage'[d] = stage[d] /\ final'[d] = final[d] /\ kernel'[d] = kernel[d]
           /\ shown'[d] = shown[d] /\ applied'[d] = applied[d]
           /\ d \in Workers => ordered'[d] = ordered[d],
         DOMAIN stage' = Appliers, DOMAIN ordered' = Workers, DOMAIN final' = Appliers,
         DOMAIN kernel' = Appliers, DOMAIN shown' = Appliers, DOMAIN applied' = Appliers,
         Reviewed(c)'
  PROVE  ReviewInv'
<1>1. SessionInv'
  BY DEF ReviewInv, SessionInv, agentVars, PlanFrom
<1>2. ASSUME NEW d \in Appliers, d # c PROVE Reviewed(d)'
  <2>1. Reviewed(d) /\ Proposed(d)' = Proposed(d)
    BY <1>2 DEF ReviewInv, agentVars, Proposed, Appliers
  <2>. QED BY <1>2, <2>1 DEF agentVars, Reviewed
<1>. QED BY <1>1, <1>2 DEF ReviewInv

LEMMA ReviewNext == ReviewInv /\ [Next]_vars => ReviewInv'
<1>. SUFFICES ASSUME ReviewInv, [Next]_vars PROVE ReviewInv'
  OBVIOUS
<1>. Workers \cap Runs = {} /\ Workers \subseteq Appliers /\ Runs \subseteq Sessions
  BY PlanningAssumption DEF Appliers
<1>1. ASSUME NEW s \in Sessions, LoadSettings(s) \/ Converse(s) PROVE ReviewInv'
  BY <1>1, SessionNext, SessionStep DEF ReviewInv
<1>2. ASSUME NEW w \in Workers, NEW request \in PlanInput, NEW valid \in BOOLEAN,
             Post(w, request, valid)
      PROVE  ReviewInv'
  <2>1. \A d : IsPlan([request EXCEPT !.disk = d])
    BY DEF PlanInput, IsPlan
  <2>2. Reviewed(w)'
    BY <1>2, <2>1 DEF Post, ReviewInv, Reviewed, StageTo, Finalized
  <2>. QED BY <1>2, <2>2, ApplyStep DEF Post, ReviewInv, StageTo
<1>3. ASSUME NEW w \in Workers, NEW request \in PlanInput, ProvisionDirect(w, request)
      PROVE  ReviewInv'
  <2>1. IsPlan(request)
    BY DEF PlanInput, IsPlan
  <2>2. Reviewed(w)'
    BY <1>3, <2>1 DEF ProvisionDirect, ReviewInv, Reviewed, StageTo, Finalized
  <2>. QED BY <1>3, <2>2, ApplyStep DEF ProvisionDirect, ReviewInv, StageTo
<1>4. ASSUME NEW c \in Appliers, FinalizeDisk(c) PROVE ReviewInv'
  <2>1. IsPlan(Proposed(c))
    BY <1>4, PlannedIsPlan DEF FinalizeDisk, HasPlan, ReviewInv, Reviewed, Proposed, Appliers
  <2>2. Proposed(c)' = Proposed(c)
    BY <1>4 DEF FinalizeDisk, agentVars, Proposed
  <2>3. stage'[c] \in Finalized => Resolves(final'[c], Proposed(c))
    BY <1>4, <2>1, ResolvedPlan DEF FinalizeDisk, ReviewInv, StageTo, Finalized
  <2>4. Reviewed(c)'
    BY <1>4, <2>1, <2>2, <2>3
    DEF FinalizeDisk, HasPlan, ReviewInv, Reviewed, StageTo, Proposed, agentVars
  <2>. QED BY <1>4, <2>4, ApplyStep DEF FinalizeDisk, ReviewInv, StageTo
<1>5. ASSUME NEW c \in Appliers, FinalizeKernel(c) PROVE ReviewInv'
  <2>1. Reviewed(c)'
    BY <1>5 DEF FinalizeKernel, ReviewInv, Reviewed, StageTo, Finalized, Proposed, agentVars
  <2>. QED BY <1>5, <2>1, ApplyStep DEF FinalizeKernel, ReviewInv, StageTo
<1>6. ASSUME NEW c \in Appliers, Apply(c) PROVE ReviewInv'
  <2>1. Reviewed(c)'
    BY <1>6 DEF Apply, ReviewInv, Reviewed, StageTo, Finalized, Proposed, agentVars
  <2>. QED BY <1>6, <2>1, ApplyStep DEF Apply, ReviewInv, StageTo
<1>7. ASSUME NEW c \in Appliers, Decline(c) PROVE ReviewInv'
  <2>1. Reviewed(c)'
    BY <1>7 DEF Decline, ReviewInv, Reviewed, StageTo, Finalized, Proposed, agentVars
  <2>. QED BY <1>7, <2>1, ApplyStep DEF Decline, ReviewInv, StageTo
<1>9. ASSUME NEW c \in Appliers, Confirm(c) PROVE ReviewInv'
  <2>1. Reviewed(c)'
    BY <1>9 DEF Confirm, ReviewInv, Reviewed, Finalized, Proposed, agentVars
  <2>. QED BY <1>9, <2>1, ApplyStep DEF Confirm, ReviewInv
<1>8. ASSUME UNCHANGED <<agentVars, applyVars>> PROVE ReviewInv'
  <2>1. \A c \in Appliers : Reviewed(c)'
    BY <1>8 DEF ReviewInv, Reviewed, agentVars, applyVars, Proposed
  <2>2. SessionInv'
    BY <1>8 DEF ReviewInv, SessionInv, agentVars, PlanFrom
  <2>. QED BY <1>8, <2>1, <2>2 DEF ReviewInv, applyVars
<1>. QED BY <1>1, <1>2, <1>3, <1>4, <1>5, <1>6, <1>7, <1>8, <1>9 DEF Next, vars, Configure

LEMMA ReviewInit == Init => ReviewInv
<1>. SUFFICES ASSUME Init PROVE ReviewInv
  OBVIOUS
<1>1. SessionInv
  BY DEF Init, AgentInit, SessionInv
<1>2. \A c \in Appliers : Reviewed(c)
  BY DEF Init, Reviewed, Finalized, Appliers
<1>. QED BY <1>1, <1>2 DEF Init, ReviewInv

\* The plan of a run is what the first machine call of its reply asked for.
LEMMA FromTheReply ==
  ASSUME SessionInv, NEW c \in Runs, at[c] = "planned", Resolves(shown[c], plan[c])
  PROVE  \E i \in DOMAIN reply[c] :
           /\ reply[c][i].name = "provision_kvm_machine"
           /\ \A j \in 1..(i - 1) : reply[c][j].name # "provision_kvm_machine"
           /\ reply[c][i].input.spec = shown[c].spec
           /\ reply[c][i].input.disk \in Disks => reply[c][i].input.disk = shown[c].disk
<1>. DEFINE i == First(Provisions(reply[c]))
            input == reply[c][i].input
<1>1. PlanFrom(c)
  BY PlanningAssumption DEF SessionInv
<1>2. i \in Provisions(reply[c]) /\ \A j \in Provisions(reply[c]) : i <= j
  BY <1>1, FirstProvision DEF PlanFrom
<1>3. input \in PlanInput /\ plan[c] = BuildPlan(input)
  BY <1>1 DEF PlanFrom, PlanCall
<1>. HIDE DEF i
<1>4. reply[c] \in Seq(ToolCall)
  BY <1>1, AgentAssumption DEF PlanFrom
<1>5. i \in 1..Len(reply[c]) /\ reply[c][i].name = "provision_kvm_machine"
  BY <1>2, <1>4 DEF Provisions
<1>6. ASSUME NEW j \in 1..(i - 1) PROVE reply[c][j].name # "provision_kvm_machine"
  <2>1. j \in 1..Len(reply[c]) /\ ~ (i <= j)
    BY <1>4, <1>5
  <2>. QED BY <1>2, <1>4, <2>1 DEF Provisions
<1>7. /\ input.spec = shown[c].spec
      /\ input.disk \in Disks => input.disk = shown[c].disk
  <2>1. plan[c].spec = input.spec /\ (input.disk \in Disks => plan[c].disk = input.disk)
    BY <1>3, ConfigAssumption DEF BuildPlan, NormalizeOptional, PlanInput
  <2>2. shown[c].spec = plan[c].spec
    BY DEF Resolves
  <2>. QED BY <2>1, <2>2 DEF Resolves
<1>. QED BY <1>4, <1>5, <1>6, <1>7

\* Whatever happens to the configuration and the environment's settings, what
\* a run or a worker applies is the plan as it was shown, with the approval of
\* the operator where one is asked: what the model (or
\* the arguments) proposed, with a disk that is kept once it is named.
THEOREM PlanIsAppliedAsReviewed == Spec => []AppliedAsReviewed
<1>1. ASSUME ReviewInv, NEW c \in Appliers, applied[c] # NotApplied
      PROVE  /\ applied[c] = [plan |-> shown[c], kernel |-> kernel[c]]
             /\ Resolves(shown[c], Proposed(c))
             /\ c \in Runs => /\ at[c] = "planned" /\ Resolves(shown[c], plan[c])
                              /\ c \in approved
  BY <1>1 DEF ReviewInv, Reviewed, Finalized, Proposed
<1>2. ReviewInv => AppliedAsReviewed
  BY <1>1, FromTheReply DEF AppliedAsReviewed, ReviewInv, Resolves
<1>. QED BY <1>2, ReviewInit, ReviewNext, PTL DEF Spec

(***************************************************************************)
(* Types: what is read from the file and the environment, whole or cut.    *)
(***************************************************************************)
FieldNames == {"key", "provider", "model", "kernel", "disk"}

\* A configuration is a value for each field.
LEMMA ConfigByFields ==
  ASSUME NEW g, g = [f \in FieldNames |-> g[f]],
         g["key"] \in Nat \cup {NotSet}, g["provider"] \in Providers,
         g["model"] \in Models \cup {NotSet}, g["kernel"] \in Kernels \cup {Blank, NotSet},
         g["disk"] \in Disks \cup {Blank, NoneWord, NotSet}
  PROVE  g \in Configs
BY DEF Configs, FieldNames

LEMMA FieldsOfConfig ==
  ASSUME NEW c \in Configs
  PROVE  /\ DOMAIN c = FieldNames
         /\ c["key"] \in Nat \cup {NotSet} /\ c["provider"] \in Providers
         /\ c["model"] \in Models \cup {NotSet}
         /\ c["kernel"] \in Kernels \cup {Blank, NotSet}
         /\ c["disk"] \in Disks \cup {Blank, NoneWord, NotSet}
BY DEF Configs, FieldNames

LEMMA DefaultIsConfig == Default \in Configs
BY DEF Default, Configs, Providers

\* Whatever is put in the place of some of its fields by another
\* configuration, the result is one.
LEMMA MixedConfig ==
  ASSUME NEW c \in Configs, NEW d \in Configs, NEW S
  PROVE  [f \in FieldNames |-> IF f \in S THEN d[f] ELSE c[f]] \in Configs
<1>. DEFINE g == [f \in FieldNames |-> IF f \in S THEN d[f] ELSE c[f]]
<1>1. \A f \in FieldNames : g[f] = c[f] \/ g[f] = d[f]
  OBVIOUS
<1>2. g = [f \in FieldNames |-> g[f]]
  OBVIOUS
<1>. HIDE DEF g
<1>3. /\ g["key"] \in Nat \cup {NotSet} /\ g["provider"] \in Providers
      /\ g["model"] \in Models \cup {NotSet}
      /\ g["kernel"] \in Kernels \cup {Blank, NotSet}
      /\ g["disk"] \in Disks \cup {Blank, NoneWord, NotSet}
  BY <1>1, FieldsOfConfig DEF FieldNames
<1>4. g \in Configs
  BY <1>2, <1>3, ConfigByFields
<1>. QED BY <1>4 DEF g

LEMMA OverwritesType ==
  ASSUME NEW new \in Configs, NEW old \in Configs
  PROVE  Overwrites(new, old) \subseteq Texts
<1>. SUFFICES ASSUME NEW k, NEW g,
                     g = [f \in DOMAIN new |-> IF f \in From(k) THEN OrElse(new[f], old[f])
                                               ELSE new[f]]
              PROVE  g \in Configs
  BY DEF Overwrites, Texts
<1>. DEFINE S == {f \in From(k) : new[f] = NotSet}
            h == [f \in FieldNames |-> IF f \in S THEN old[f] ELSE new[f]]
<1>1. h \in Configs
  BY MixedConfig
<1>2. g = h
  BY FieldsOfConfig DEF OrElse
<1>. QED BY <1>1, <1>2

LEMMA CutsType ==
  ASSUME NEW new \in Configs
  PROVE  Cuts(new) \subseteq Texts
<1>. SUFFICES ASSUME NEW k, NEW g,
                     g = [f \in DOMAIN new |-> IF f \in From(k) THEN Default[f] ELSE new[f]]
              PROVE  g \in Configs
  BY DEF Cuts, Texts
<1>1. [f \in FieldNames |-> IF f \in From(k) THEN Default[f] ELSE new[f]] \in Configs
  BY MixedConfig, DefaultIsConfig
<1>. QED BY <1>1, FieldsOfConfig

LEMMA LoadedIsConfig ==
  ASSUME NEW t \in Texts
  PROVE  LoadConfigOrDefault(t) \in Configs
BY DefaultIsConfig DEF LoadConfigOrDefault, Texts

\* A field of a configuration other than its key can be kept as the key changes.
LEMMA WithKey ==
  ASSUME NEW c \in Configs, NEW k \in Nat \cup {NotSet}
  PROVE  [c EXCEPT !.key = k] \in Configs
BY DEF Configs

DiskWords == Disks \cup {Blank, NoneWord, NotSet}

LEMMA ResolvedIsDisk ==
  ASSUME NEW d \in DiskWords, NEW t \in Texts, NEW e \in Environments
  PROVE  ResolveDiskPath(d, t, e) \in DiskWords
<1>1. LoadConfigOrDefault(t).disk \in DiskWords
  BY LoadedIsConfig DEF Configs, DiskWords
<1>2. e.disk \in DiskWords
  BY DEF Environments, DiskWords
<1>. QED BY <1>1, <1>2 DEF ResolveDiskPath, CleanExplicitDisk, OrElse, NonemptyEnvValue, DiskWords

(***************************************************************************)
(* The file and the logins keep their types.                               *)
(***************************************************************************)
LEMMA ConfigInitType == ConfigInit => ConfigTypeOK
BY DefaultIsConfig, ConfigAssumption DEF ConfigInit, ConfigTypeOK, LoginStages

LEMMA LoginEndsType ==
  ASSUME ConfigTypeOK, NEW l \in Logins, NEW how \in LoginStages, LoginEnds(l, how),
         text' \in Texts, dirOpen' \in BOOLEAN, fileOpen' \in BOOLEAN
  PROVE  ConfigTypeOK'
BY DefaultIsConfig DEF ConfigTypeOK, LoginEnds, LoginTo

LEMMA LoginOnType ==
  ASSUME ConfigTypeOK, NEW l \in Logins, NEW where \in LoginStages, LoginOn(l, where),
         text' \in Texts, dirOpen' \in BOOLEAN, fileOpen' \in BOOLEAN
  PROVE  ConfigTypeOK'
BY DEF ConfigTypeOK, LoginOn, LoginTo

LEMMA ConfigStepType ==
  ASSUME ConfigTypeOK, ConfigNext
  PROVE  ConfigTypeOK'
<1>. LoginStages = {"idle", "chmodDir", "load", "open", "write", "chmod",
                    "stored", "failed", "died"}
  BY DEF LoginStages
<1>1. text \in Texts /\ dirOpen \in BOOLEAN /\ fileOpen \in BOOLEAN
  BY DEF ConfigTypeOK
<1>2. ASSUME NEW l \in Logins, LoginFails(l) PROVE ConfigTypeOK'
  BY <1>1, <1>2, LoginEndsType DEF LoginFails, fileVars
<1>3. ASSUME NEW l \in Logins, LoginStart(l) PROVE ConfigTypeOK'
  <2>1. text' \in Texts /\ dirOpen' \in BOOLEAN /\ fileOpen' \in BOOLEAN
    BY <1>1, <1>3 DEF LoginStart, fileVars
  <2>2. PICK k \in TypedKeys :
          \/ /\ LoginTo(l, "chmodDir")
             /\ toWrite' = [toWrite EXCEPT ![l].key = k]
             /\ found' = [found EXCEPT ![l] = Keyless(LoadConfigOrDefault(text))]
             /\ alone' = [m \in Logins |-> IF m = l THEN ~ \E n \in Logins : Saving(n)
                                           ELSE alone[m] /\ ~ Saving(m)]
          \/ LoginEnds(l, "failed")
    BY <1>3 DEF LoginStart
  <2>3. CASE LoginEnds(l, "failed")
    BY <2>1, <2>3, LoginEndsType
  <2>4. CASE LoginTo(l, "chmodDir") /\ UNCHANGED fileVars /\ ~ LoginEnds(l, "failed")
    <3>1. k \in Nat
      BY ConfigAssumption
    <3>2. toWrite' \in [Logins -> Configs]
      <4>1. toWrite' = [toWrite EXCEPT ![l] = [toWrite[l] EXCEPT !.key = k]]
        BY <2>2, <2>4
      <4>2. [toWrite[l] EXCEPT !.key = k] \in Configs
        BY <3>1, WithKey DEF ConfigTypeOK
      <4>. QED BY <4>1, <4>2 DEF ConfigTypeOK
    <3>3. found' \in [Logins -> Configs]
      <4>1. Keyless(LoadConfigOrDefault(text)) \in Configs
        BY <1>1, LoadedIsConfig, WithKey DEF Keyless
      <4>. QED BY <2>2, <2>4, <4>1 DEF ConfigTypeOK
    <3>4. alone' \in [Logins -> BOOLEAN]
      <4>1. ASSUME NEW m \in Logins
            PROVE  (IF m = l THEN ~ \E n \in Logins : Saving(n)
                    ELSE alone[m] /\ ~ Saving(m)) \in BOOLEAN
        BY Zenon
      <4>. QED BY <2>2, <2>4, <4>1
    <3>. QED BY <2>1, <2>4, <3>2, <3>3, <3>4 DEF ConfigTypeOK, LoginTo
  <2>. QED BY <1>3, <2>2, <2>3, <2>4 DEF LoginStart
<1>4. ASSUME NEW l \in Logins, LoginChmodDir(l) PROVE ConfigTypeOK'
  BY <1>1, <1>2, <1>4, LoginOnType DEF LoginChmodDir
<1>5. ASSUME NEW l \in Logins, LoginLoad(l) PROVE ConfigTypeOK'
  <2>1. PICK c \in LoadedConfigs :
               toWrite' = [toWrite EXCEPT ![l] = [c EXCEPT !.key = toWrite[l].key]]
    BY <1>5 DEF LoginLoad
  <2>2. c \in Configs
    BY <1>1, LoadedIsConfig, DefaultIsConfig DEF LoadedConfigs
  <2>3. toWrite[l].key \in Nat \cup {NotSet}
    BY DEF ConfigTypeOK, Configs
  <2>4. [c EXCEPT !.key = toWrite[l].key] \in Configs
    BY <2>2, <2>3, WithKey
  <2>. QED BY <1>1, <1>5, <2>1, <2>4 DEF LoginLoad, ConfigTypeOK, LoginTo, fileVars
<1>6. ASSUME NEW l \in Logins, LoginOpen(l) PROVE ConfigTypeOK'
  <2>1. Default \in Texts
    BY DefaultIsConfig DEF Texts
  <2>. QED BY <1>1, <1>2, <1>6, <2>1, LoginOnType DEF LoginOpen
<1>7. ASSUME NEW l \in Logins, LoginWrite(l) PROVE ConfigTypeOK'
  <2>1. toWrite[l] \in Configs /\ LoadConfigOrDefault(text) \in Configs
    BY <1>1, LoadedIsConfig DEF ConfigTypeOK
  <2>2. text' \in Texts
    <3>1. toWrite[l] \in Texts
      BY <2>1 DEF Texts
    <3>2. Overwrites(toWrite[l], LoadConfigOrDefault(text)) \subseteq Texts
      BY <2>1, OverwritesType
    <3>3. Cuts(toWrite[l]) \subseteq Texts
      BY <2>1, CutsType
    <3>. QED BY <1>7, <3>1, <3>2, <3>3 DEF LoginWrite
  <2>3. LoginOn(l, "chmod") \/ LoginEnds(l, "failed")
    BY <1>7 DEF LoginWrite
  <2>4. dirOpen' \in BOOLEAN /\ fileOpen' \in BOOLEAN
    BY <1>1, <1>7 DEF LoginWrite
  <2>. QED BY <2>2, <2>3, <2>4, LoginOnType, LoginEndsType
<1>8. ASSUME NEW l \in Logins, LoginChmodFile(l) PROVE ConfigTypeOK'
  BY <1>1, <1>2, <1>8, LoginEndsType DEF LoginChmodFile
<1>9. ASSUME NEW l \in Logins, LoginCrash(l) PROVE ConfigTypeOK'
  BY <1>1, <1>9, LoginEndsType DEF LoginCrash, fileVars
<1>10. ASSUME NEW t \in Edits, Edit(t) PROVE ConfigTypeOK'
  <2>1. t \in Texts
    BY ConfigAssumption DEF Texts
  <2>2. alone' \in [Logins -> BOOLEAN]
    <3>1. ASSUME NEW m \in Logins
          PROVE  (alone[m] /\ ~ Saving(m)) \in BOOLEAN
      BY Zenon
    <3>. QED BY <1>10, <3>1 DEF Edit
  <2>. QED BY <1>10, <2>1, <2>2 DEF Edit, ConfigTypeOK
<1>. QED BY <1>3, <1>4, <1>5, <1>6, <1>7, <1>8, <1>9, <1>10 DEF ConfigNext, LoginStep

(***************************************************************************)
(* The counters of a session: no call is counted as executed that the last *)
(* reply does not hold, and none outside the execution of its tools.       *)
(***************************************************************************)
AgentStages == {"off", "configured", "ready", "waiting", "tools",
                "planned", "answered", "failed"}
Counting(s) ==
  /\ at[s] = "tools" => executed[s] < Len(reply[s])
  /\ at[s] # "tools" => executed[s] = 0
AgentInv ==
  /\ AgentTypeOK
  /\ executed \in [Sessions -> Nat]
  /\ \A s \in Sessions : Counting(s)

LEMMA BatchProperties ==
  ASSUME NEW calls \in Batches \cup {<< >>}
  PROVE  /\ calls \in Seq(ToolCall) /\ Len(calls) \in Nat
         /\ DOMAIN calls = 1..Len(calls)
         /\ calls # << >> => Len(calls) > 0
<1>1. calls \in Seq(ToolCall)
  BY AgentAssumption, EmptySeq
<1>2. Len(calls) \in Nat /\ DOMAIN calls = 1..Len(calls)
  BY <1>1, LenProperties
<1>3. Len(calls) = 0 => calls = << >>
  BY <1>1, EmptySeq
<1>. QED BY <1>1, <1>2, <1>3

LEMMA AgentInitInv == AgentInit => AgentInv
<1>. SUFFICES ASSUME AgentInit PROVE AgentInv
  OBVIOUS
<1>1. Len(<< >>) = 0
  BY EmptySeq
<1>2. MaxTurns \in Nat
  BY AgentAssumption
<1>. QED BY <1>1, <1>2 DEF AgentInit, AgentInv, AgentTypeOK, Counting

\* A step that leaves what a session has been answered as it is.
LEMMA SameReply ==
  ASSUME AgentInv, NEW s \in Sessions, NEW where \in AgentStages \ {"tools"},
         at[s] # "tools", SessionTo(s, where),
         UNCHANGED <<reply, executed>>,
         turns' \in [Sessions -> 0..MaxTurns],
         plan' \in [Sessions -> ExecutionPlan \cup {NoPlan}]
  PROVE  AgentInv'
<1>1. ASSUME NEW m \in Sessions PROVE Counting(m)'
  <2>1. CASE m = s
    BY <2>1 DEF SessionTo, AgentInv, AgentTypeOK, Counting, AgentStages
  <2>2. CASE m # s
    BY <2>2 DEF SessionTo, AgentInv, AgentTypeOK, Counting, AgentStages
  <2>. QED BY <2>1, <2>2
<1>. QED BY <1>1 DEF SessionTo, AgentInv, AgentTypeOK, AgentStages

LEMMA SendTurns ==
  ASSUME AgentInv, NEW s \in Sessions, turns[s] < MaxTurns
  PROVE  [turns EXCEPT ![s] = @ + 1] \in [Sessions -> 0..MaxTurns]
<1>1. turns[s] \in 0..MaxTurns /\ MaxTurns \in Nat
  BY AgentAssumption DEF AgentInv, AgentTypeOK
<1>2. turns[s] + 1 \in 0..MaxTurns
  BY <1>1
<1>. QED BY <1>2 DEF AgentInv, AgentTypeOK

LEMMA PlanType ==
  ASSUME NEW input \in PlanInput
  PROVE  BuildPlan(input) \in ExecutionPlan
BY DEF PlanInput, BuildPlan, NormalizeOptional, ExecutionPlan

\* A step of a session keeps them.
LEMMA AgentStepInv ==
  ASSUME AgentInv, NEW s \in Sessions,
         \/ Ask(s) \/ AgentStep(s)
  PROVE  AgentInv'
<1>. AgentStages = {"off", "configured", "ready", "waiting", "tools",
                    "planned", "answered", "failed"}
  BY DEF AgentStages
<1>1. /\ turns \in [Sessions -> 0..MaxTurns]
      /\ plan \in [Sessions -> ExecutionPlan \cup {NoPlan}]
      /\ reply \in [Sessions -> Batches \cup {<< >>}]
      /\ executed \in [Sessions -> Nat]
      /\ at \in [Sessions -> AgentStages]
  BY DEF AgentInv, AgentTypeOK
<1>2. CASE Ask(s)
  BY <1>1, <1>2, SameReply DEF Ask
<1>3. CASE Send(s)
  BY <1>1, <1>3, SameReply, SendTurns DEF Send
<1>4. CASE Exhaust(s)
  BY <1>1, <1>4, SameReply DEF Exhaust
<1>5. ASSUME NEW r \in Response, ReceiveEnd(s, r) PROVE AgentInv'
  BY <1>1, <1>5, SameReply DEF ReceiveEnd
<1>6. ASSUME NEW r \in Response, ReceivePlan(s, r) PROVE AgentInv'
  <2>1. r.calls \in Batches
    BY DEF Response
  <2>2. Len(r.calls) \in Nat
    BY <2>1, BatchProperties
  <2>3. plan' \in [Sessions -> ExecutionPlan \cup {NoPlan}]
    BY <1>1, <1>6, PlanType DEF ReceivePlan
  <2>4. /\ at' \in [Sessions -> AgentStages] /\ at[s] = "waiting" /\ at'[s] # "tools"
        /\ \A m \in Sessions \ {s} : at'[m] = at[m] /\ reply'[m] = reply[m]
        /\ reply' \in [Sessions -> Batches \cup {<< >>}] /\ reply'[s] = r.calls
        /\ UNCHANGED <<turns, executed>>
    BY <1>1, <1>6, <2>1 DEF ReceivePlan, SessionTo
  <2>5. executed[s] = 0
    BY <2>4 DEF AgentInv, Counting
  <2>6. \A m \in Sessions : Counting(m)' /\ executed'[m] <= Len(reply'[m])
    BY <2>2, <2>4, <2>5 DEF AgentInv, AgentTypeOK, Counting
  <2>. QED BY <1>1, <2>3, <2>4, <2>6 DEF AgentInv, AgentTypeOK
<1>7. ASSUME NEW r \in Response, ReceiveTools(s, r) PROVE AgentInv'
  <2>1. r.calls \in Batches
    BY DEF Response
  <2>2. Len(r.calls) \in Nat /\ Len(r.calls) > 0
    BY <1>7, <2>1, BatchProperties DEF ReceiveTools, HasCalls
  <2>4. /\ at' \in [Sessions -> AgentStages] /\ at[s] = "waiting" /\ at'[s] = "tools"
        /\ \A m \in Sessions \ {s} : at'[m] = at[m] /\ reply'[m] = reply[m]
        /\ reply' \in [Sessions -> Batches \cup {<< >>}] /\ reply'[s] = r.calls
        /\ UNCHANGED <<turns, executed, plan>>
    BY <1>1, <1>7, <2>1 DEF ReceiveTools, SessionTo
  <2>5. executed[s] = 0
    BY <2>4 DEF AgentInv, Counting
  <2>6. \A m \in Sessions : Counting(m)' /\ executed'[m] <= Len(reply'[m])
    BY <2>2, <2>4, <2>5 DEF AgentInv, AgentTypeOK, Counting
  <2>. QED BY <1>1, <2>4, <2>6 DEF AgentInv, AgentTypeOK
<1>8. CASE ExecuteTool(s)
  <2>. DEFINE i == executed[s] + 1
  <2>1. /\ at[s] = "tools" /\ executed[s] \in Nat /\ executed[s] < Len(reply[s])
        /\ Len(reply[s]) \in Nat
    BY <1>1, <1>8, BatchProperties DEF ExecuteTool, AgentInv, Counting
  <2>2. /\ UNCHANGED <<turns, reply, plan>>
        /\ \/ i = Len(reply[s]) /\ SessionTo(s, "ready") /\ executed' = [executed EXCEPT ![s] = 0]
           \/ i # Len(reply[s]) /\ executed' = [executed EXCEPT ![s] = i] /\ UNCHANGED at
    BY <1>8 DEF ExecuteTool
  <2>3. at' \in [Sessions -> AgentStages] /\ executed' \in [Sessions -> Nat]
    <3>1. i \in Nat
      BY <2>1
    <3>2. "ready" \in AgentStages
      OBVIOUS
    <3>3. at' \in [Sessions -> AgentStages]
      BY <1>1, <2>2, <3>2 DEF SessionTo
    <3>4. executed' \in [Sessions -> Nat]
      <4>. HIDE DEF i
      <4>. QED BY <1>1, <2>2, <3>1
    <3>. QED BY <3>3, <3>4
  <2>4. ASSUME NEW m \in Sessions PROVE Counting(m)' /\ executed'[m] <= Len(reply'[m])
    <3>1. CASE m # s
      BY <1>1, <2>2, <3>1 DEF AgentInv, AgentTypeOK, Counting, SessionTo
    <3>2. CASE m = s /\ i = Len(reply[s])
      BY <1>1, <2>1, <2>2, <3>2 DEF Counting, SessionTo
    <3>3. CASE m = s /\ i # Len(reply[s])
      BY <1>1, <2>1, <2>2, <3>3 DEF Counting
    <3>. QED BY <3>1, <3>2, <3>3
  <2>. QED BY <1>1, <2>2, <2>3, <2>4 DEF AgentInv, AgentTypeOK
<1>. QED BY <1>2, <1>3, <1>4, <1>5, <1>6, <1>7, <1>8 DEF AgentStep, Receive

(***************************************************************************)
(* Every step of the system keeps its types.                               *)
(***************************************************************************)
PlanTypes ==
  /\ env \in Environments
  /\ stage \in [Appliers -> {"idle", "planned", "finalizing", "shown", "applied",
                             "declined", "refused"}]
  /\ ordered \in [Workers -> PlanInput \cup {NoPlan}]
  /\ final \in [Appliers -> PlanInput \cup {NoPlan}]
  /\ shown \in [Appliers -> PlanInput \cup {NoPlan}]
  /\ approved \subseteq Runs
  /\ \A w \in Workers : stage[w] = "planned" => ordered[w] \in PlanInput
TypeInv == TypeOK /\ AgentInv /\ SessionInv /\ PlanTypes

LEMMA InitTypeInv == Init => TypeInv
<1>. SUFFICES ASSUME Init PROVE TypeInv
  OBVIOUS
<1>1. ConfigTypeOK /\ AgentInv
  BY ConfigInitType, AgentInitInv DEF Init
<1>2. SessionInv
  BY DEF Init, AgentInit, SessionInv
<1>3. PlanTypes /\ env \in Envs
  BY ConfigAssumption DEF Init, PlanTypes, Appliers
<1>. QED BY <1>1, <1>2, <1>3 DEF TypeInv, TypeOK, AgentInv, PlanTypes

\* A plan with its disk resolved, or with none, is a plan.
LEMMA ResolvedPlanType ==
  ASSUME NEW p \in PlanInput, NEW t \in Texts, NEW e \in Environments
  PROVE  [p EXCEPT !.disk = ResolveDiskPath(p.disk, t, e)] \in PlanInput
<1>1. p.disk \in DiskWords
  BY DEF PlanInput, DiskWords
<1>2. ResolveDiskPath(p.disk, t, e) \in DiskWords
  BY <1>1, ResolvedIsDisk
<1>. QED BY <1>2 DEF PlanInput, DiskWords

LEMMA NextTypeInv == TypeInv /\ [Next]_vars => TypeInv'
<1>. SUFFICES ASSUME TypeInv, [Next]_vars PROVE TypeInv'
  OBVIOUS
<1>0. SessionInv'
  BY SessionNext DEF TypeInv
<1>1. ASSUME Configure PROVE TypeInv'
  <2>1. ConfigTypeOK'
    BY <1>1, ConfigStepType DEF Configure, TypeInv, TypeOK
  <2>2. AgentInv' /\ AgentTypeOK'
    BY <1>1 DEF Configure, agentVars, TypeInv, AgentInv, AgentTypeOK, Counting
  <2>. QED BY <1>0, <1>1, <2>1, <2>2 DEF Configure, applyVars, TypeInv, TypeOK, PlanTypes
<1>. DEFINE Quiet == UNCHANGED configVars /\ env' = env
<1>2. ASSUME Quiet PROVE ConfigTypeOK' /\ env' \in Envs /\ env' \in Environments
  BY <1>2, ConfigAssumption
  DEF configVars, fileVars, loginVars, ConfigTypeOK, TypeInv, TypeOK, PlanTypes
<1>3. ASSUME NEW s \in Sessions, LoadSettings(s) PROVE TypeInv'
  <2>1. AgentInv'
    <3>1. /\ turns \in [Sessions -> 0..MaxTurns]
          /\ plan \in [Sessions -> ExecutionPlan \cup {NoPlan}]
      BY DEF TypeInv, AgentInv, AgentTypeOK
    <3>2. at[s] # "tools" /\ UNCHANGED <<reply, executed, turns, plan>>
      BY <1>3 DEF LoadSettings
    <3>3. SessionTo(s, "failed") \/ SessionTo(s, "configured")
      BY <1>3 DEF LoadSettings
    <3>. QED BY <3>1, <3>2, <3>3, SameReply DEF TypeInv, AgentStages
  <2>. QED BY <1>0, <1>2, <1>3, <2>1
       DEF LoadSettings, applyVars, TypeInv, TypeOK, AgentInv, PlanTypes
<1>4. ASSUME NEW s \in Sessions, Converse(s) PROVE TypeInv'
  <2>1. AgentInv'
    BY <1>4, AgentStepInv DEF Converse, TypeInv
  <2>. QED BY <1>0, <1>2, <1>4, <2>1
       DEF Converse, applyVars, TypeInv, TypeOK, AgentInv, PlanTypes
<1>5. ASSUME UNCHANGED agentVars PROVE AgentInv'
  BY <1>5 DEF agentVars, TypeInv, AgentInv, AgentTypeOK, Counting
<1>6. text \in Texts /\ env \in Environments /\ PlanTypes
  BY DEF TypeInv, TypeOK, ConfigTypeOK, PlanTypes
<1>7. ASSUME UNCHANGED agentVars, Quiet, PlanTypes' PROVE TypeInv'
  BY <1>0, <1>2, <1>5, <1>7 DEF TypeInv, TypeOK, AgentInv, PlanTypes
<1>8. ASSUME NEW w \in Workers, NEW request \in PlanInput, NEW valid \in BOOLEAN,
             Post(w, request, valid)
      PROVE  PlanTypes'
  BY <1>6, <1>8, ResolvedPlanType, PlanningAssumption DEF Post, StageTo, PlanTypes, Appliers
<1>9. ASSUME NEW w \in Workers, NEW request \in PlanInput, ProvisionDirect(w, request)
      PROVE  PlanTypes'
  BY <1>6, <1>9 DEF ProvisionDirect, StageTo, PlanTypes, Appliers
<1>10. ASSUME NEW c \in Appliers, FinalizeDisk(c) PROVE PlanTypes'
  <2>1. Proposed(c) \in PlanInput
    <3>1. CASE c \in Runs
      <4>1. at[c] = "planned" /\ PlanFrom(c)
        BY <1>10, <3>1, PlanningAssumption DEF FinalizeDisk, HasPlan, TypeInv, SessionInv
      <4>. QED BY <3>1, <4>1, PlanType
           DEF PlanFrom, Proposed, ExecutionPlan, PlanInput
    <3>2. CASE c \notin Runs
      BY <1>6, <1>10, <3>2 DEF FinalizeDisk, HasPlan, Proposed, Appliers, PlanTypes
    <3>. QED BY <3>1, <3>2
  <2>2. [Proposed(c) EXCEPT !.disk = ResolveDiskPath(Proposed(c).disk, text, env)] \in PlanInput
    BY <1>6, <2>1, ResolvedPlanType
  <2>. QED BY <1>6, <1>10, <2>2 DEF FinalizeDisk, StageTo, PlanTypes, Appliers
<1>11. ASSUME NEW c \in Appliers, FinalizeKernel(c) PROVE PlanTypes'
  BY <1>6, <1>11 DEF FinalizeKernel, StageTo, PlanTypes, Appliers
<1>12. ASSUME NEW c \in Appliers, Apply(c) PROVE PlanTypes'
  BY <1>6, <1>12 DEF Apply, StageTo, PlanTypes, Appliers
<1>13. ASSUME NEW c \in Appliers, Decline(c) PROVE PlanTypes'
  BY <1>6, <1>13 DEF Decline, StageTo, PlanTypes, Appliers
<1>15. ASSUME NEW c \in Appliers, Confirm(c) PROVE PlanTypes'
  BY <1>6, <1>15 DEF Confirm, PlanTypes
<1>14. CASE UNCHANGED vars
  BY <1>6, <1>7, <1>14 DEF vars, applyVars, PlanTypes
<1>. QED BY <1>1, <1>3, <1>4, <1>7, <1>8, <1>9, <1>10, <1>11, <1>12, <1>13, <1>14, <1>15
     DEF Next, Post, ProvisionDirect, FinalizeDisk, FinalizeKernel, Confirm, Decline, Apply

\* Type correctness of the whole way from an intent to a plan: the file never
\* holds what no writer can leave, a session never counts a call it was not
\* sent, and no turn past the budget is taken.
THEOREM PlanningType == Spec => []TypeOK
<1>1. TypeInv => TypeOK
  BY DEF TypeInv
<1>. QED BY <1>1, InitTypeInv, NextTypeInv, PTL DEF Spec

(***************************************************************************)
(* A login that nobody disturbs.  What it holds, and what the file holds   *)
(* then, follow from what it found; no other login is at work beside it.   *)
(***************************************************************************)
NewKey(l) == [found[l] EXCEPT !.key = toWrite[l].key]
OnItsWay(l) ==
  /\ login[l] \in {"chmodDir", "load"} => found[l] = Keyless(LoadConfigOrDefault(text))
  /\ login[l] \in {"open", "write"} => toWrite[l] = NewKey(l)
  /\ login[l] = "write" => text = Default
  /\ login[l] = "chmod" => text = NewKey(l)
Undisturbed(l) ==
  alone[l] => /\ Saving(l) /\ \A m \in Logins \ {l} : ~ Saving(m)
              /\ OnItsWay(l)
AloneInv == ConfigTypeOK /\ SecretInv /\ \A l \in Logins : Undisturbed(l)

\* Nothing a login does, but to begin, concerns another that is alone.
LEMMA OthersUndisturbed ==
  ASSUME AloneInv, NEW l \in Logins, LoginStep(l), NEW m \in Logins \ {l}
  PROVE  Undisturbed(m)'
<1>. SUFFICES ASSUME alone'[m]
              PROVE  /\ Saving(m)' /\ \A n \in Logins \ {m} : ~ Saving(n)'
                     /\ OnItsWay(m)'
  BY DEF Undisturbed
<1>. LoginStages = {"idle", "chmodDir", "load", "open", "write", "chmod",
                    "stored", "failed", "died"}
  BY DEF LoginStages
<1>. USE DEF AloneInv, ConfigTypeOK
<1>1. alone[m] /\ Saving(m)
  <2>1. alone[m]
    BY DEF LoginStep, LoginStart, LoginChmodDir, LoginLoad, LoginOpen, LoginWrite,
           LoginChmodFile, LoginCrash, LoginOn, LoginEnds, LoginFails
  <2>. QED BY <2>1 DEF Undisturbed
<1>2. ~ Saving(l)
  BY <1>1 DEF Undisturbed
<1>3. LoginStart(l)
  BY <1>2 DEF LoginStep, Saving, LoginChmodDir, LoginLoad, LoginOpen, LoginWrite,
              LoginChmodFile, LoginCrash
<1>4. LoginEnds(l, "failed") /\ UNCHANGED fileVars
  BY <1>1, <1>3 DEF LoginStart
<1>5. /\ \A n \in Logins : ~ Saving(n) => ~ Saving(n)'
      /\ login'[m] = login[m] /\ toWrite'[m] = toWrite[m] /\ found'[m] = found[m]
      /\ text' = text
  BY <1>4 DEF LoginEnds, LoginTo, Saving, fileVars
<1>6. Saving(m)'
  BY <1>1, <1>5 DEF Saving
<1>7. OnItsWay(m)'
  BY <1>1, <1>5 DEF Undisturbed, OnItsWay, NewKey
<1>. QED BY <1>1, <1>5, <1>6, <1>7 DEF Undisturbed

\* A login that is alone goes on from what it found.
LEMMA LoginGoesOn ==
  ASSUME AloneInv, "read" \notin LoginFaults, NEW l \in Logins, LoginStep(l), alone'[l]
  PROVE  Saving(l)' /\ OnItsWay(l)'
<1>. USE DEF AloneInv
<1>0. /\ text \in Texts /\ alone \in [Logins -> BOOLEAN]
      /\ login \in [Logins -> LoginStages]
      /\ toWrite \in [Logins -> Configs] /\ found \in [Logins -> Configs]
  BY DEF ConfigTypeOK
<1>1. \A how : ~ LoginEnds(l, how)
  BY <1>0 DEF LoginEnds
<1>2. CASE LoginStart(l)
  <2>1. PICK k \in TypedKeys :
             /\ LoginTo(l, "chmodDir")
             /\ found' = [found EXCEPT ![l] = Keyless(LoadConfigOrDefault(text))]
    BY <1>1, <1>2 DEF LoginStart
  <2>2. text' = text
    BY <1>2 DEF LoginStart, fileVars
  <2>. QED BY <1>0, <2>1, <2>2 DEF LoginTo, Saving, OnItsWay
<1>3. CASE ~ LoginStart(l)
  <2>1. alone[l] /\ OnItsWay(l)
    <3>1. alone[l]
      BY <1>0, <1>1, <1>3
      DEF LoginStep, LoginChmodDir, LoginLoad, LoginOpen, LoginWrite,
          LoginChmodFile, LoginCrash, LoginOn, LoginFails
    <3>. QED BY <3>1 DEF Undisturbed
  <2>2. CASE LoginChmodDir(l)
    BY <1>0, <1>1, <2>1, <2>2
    DEF LoginChmodDir, LoginFails, LoginOn, LoginTo, Saving, OnItsWay
  <2>3. CASE LoginLoad(l)
    <3>1. LoadedConfigs = {LoadConfigOrDefault(text)}
      BY DEF LoadedConfigs
    <3>. DEFINE c == LoadConfigOrDefault(text)
                k == toWrite[l].key
    <3>2. c \in Configs
      BY <1>0, LoadedIsConfig
    <3>3. found[l] = Keyless(c)
      BY <2>1, <2>3 DEF LoginLoad, OnItsWay
    <3>4. toWrite' = [toWrite EXCEPT ![l] = [c EXCEPT !.key = k]]
      BY <2>3, <3>1 DEF LoginLoad
    <3>5. /\ login' = [login EXCEPT ![l] = "open"] /\ found' = found
      BY <2>3 DEF LoginLoad, LoginTo
    <3>. HIDE DEF c, k
    <3>6. toWrite'[l] = [c EXCEPT !.key = k] /\ found'[l] = Keyless(c) /\ login'[l] = "open"
      BY <1>0, <3>3, <3>4, <3>5
    <3>7. toWrite'[l].key = k
      BY <3>2, <3>6 DEF Configs
    <3>8. [c EXCEPT !.key = k] = [Keyless(c) EXCEPT !.key = k]
      BY <3>2 DEF Configs, Keyless
    <3>9. toWrite'[l] = NewKey(l)'
      BY <3>6, <3>7, <3>8 DEF NewKey
    <3>. QED BY <3>6, <3>9 DEF OnItsWay, Saving
  <2>4. CASE LoginOpen(l)
    BY <1>0, <1>1, <2>1, <2>4
    DEF LoginOpen, LoginFails, LoginOn, LoginTo, Saving, OnItsWay, NewKey
  <2>5. CASE LoginWrite(l)
    <3>1. text = Default /\ toWrite[l] = NewKey(l)
      BY <2>1, <2>5 DEF LoginWrite, OnItsWay
    <3>. QED BY <1>0, <1>1, <2>5, <3>1
         DEF LoginWrite, LoginOn, LoginTo, Saving, OnItsWay, NewKey
  <2>6. CASE LoginChmodFile(l) \/ LoginCrash(l)
    BY <1>1, <2>6 DEF LoginChmodFile, LoginCrash, LoginFails
  <2>. QED BY <1>3, <2>2, <2>3, <2>4, <2>5, <2>6 DEF LoginStep
<1>. QED BY <1>2, <1>3

LEMMA LoginIsAlone ==
  ASSUME AloneInv, NEW l \in Logins, LoginStep(l), alone'[l], NEW m \in Logins \ {l}
  PROVE  ~ Saving(m)'
<1>. USE DEF AloneInv, ConfigTypeOK
<1>1. login'[m] = login[m]
  BY DEF LoginStep, LoginStart, LoginChmodDir, LoginLoad, LoginOpen, LoginWrite,
         LoginChmodFile, LoginCrash, LoginOn, LoginEnds, LoginFails, LoginTo
<1>2. CASE LoginStart(l)
  <2>1. ~ LoginEnds(l, "failed")
    BY DEF LoginEnds
  <2>2. ~ \E n \in Logins : Saving(n)
    BY <1>2, <2>1 DEF LoginStart
  <2>. QED BY <1>1, <2>2 DEF Saving
<1>3. CASE ~ LoginStart(l)
  <2>1. alone[l]
    BY <1>3 DEF LoginStep, LoginChmodDir, LoginLoad, LoginOpen, LoginWrite,
           LoginChmodFile, LoginCrash, LoginOn, LoginEnds, LoginFails
  <2>. QED BY <1>1, <2>1 DEF Undisturbed, Saving
<1>. QED BY <1>2, <1>3

LEMMA AloneNext ==
  ASSUME "read" \notin LoginFaults
  PROVE  AloneInv /\ [Next]_vars => AloneInv'
<1>. SUFFICES ASSUME AloneInv, [Next]_vars PROVE AloneInv'
  OBVIOUS
<1>1. SecretInv'
  BY SecretNext DEF AloneInv
<1>2. ASSUME NEW l \in Logins, LoginStep(l) PROVE AloneInv'
  <2>1. ConfigTypeOK'
    BY <1>2, ConfigStepType DEF AloneInv, ConfigNext
  <2>2. ASSUME NEW m \in Logins PROVE Undisturbed(m)'
    <3>1. CASE m # l
      BY <1>2, <3>1, OthersUndisturbed
    <3>2. CASE m = l
      <4>1. ASSUME alone'[l]
            PROVE  /\ Saving(l)' /\ OnItsWay(l)'
                   /\ \A n \in Logins \ {l} : ~ Saving(n)'
        <5>1. Saving(l)' /\ OnItsWay(l)'
          BY <1>2, <4>1, LoginGoesOn
        <5>2. \A n \in Logins \ {l} : ~ Saving(n)'
          BY <1>2, <4>1, LoginIsAlone
        <5>. QED BY <5>1, <5>2
      <4>. QED BY <3>2, <4>1 DEF Undisturbed
    <3>. QED BY <3>1, <3>2
  <2>. QED BY <1>1, <2>1, <2>2 DEF AloneInv
<1>3. ASSUME NEW t \in Edits, Edit(t) PROVE AloneInv'
  <2>1. ConfigTypeOK'
    BY <1>3, ConfigStepType DEF AloneInv, ConfigNext
  <2>2. \A m \in Logins : ~ alone'[m]
    BY <1>3 DEF Edit, AloneInv, Undisturbed
  <2>. QED BY <1>1, <2>1, <2>2 DEF AloneInv, Undisturbed
<1>4. ASSUME UNCHANGED configVars PROVE AloneInv'
  BY <1>1, <1>4
  DEF configVars, fileVars, loginVars, AloneInv, ConfigTypeOK, Undisturbed, OnItsWay,
      NewKey, Saving
<1>. QED BY <1>2, <1>3, <1>4 DEF Next, vars, Configure, ConfigNext, Converse, LoadSettings,
       Post, ProvisionDirect, FinalizeDisk, FinalizeKernel, Confirm, Decline, Apply

LoginDone ==
  \A l \in Logins :
    (alone[l] /\ login[l] # "stored" /\ login'[l] = "stored") =>
      /\ text' = [found[l] EXCEPT !.key = toWrite[l].key]
      /\ ~ dirOpen' /\ ~ fileOpen'

LEMMA LoginEndsWell == AloneInv /\ [Next]_vars => [LoginDone]_configVars
<1>. SUFFICES ASSUME AloneInv, Next, NEW l \in Logins,
                     alone[l], login[l] # "stored", login'[l] = "stored"
              PROVE  /\ text' = [found[l] EXCEPT !.key = toWrite[l].key]
                     /\ ~ dirOpen' /\ ~ fileOpen'
  BY DEF LoginDone, vars
<1>1. PICK m \in Logins : LoginStep(m)
  BY DEF Next, Configure, ConfigNext, Edit, Converse, LoadSettings, Post, ProvisionDirect,
         FinalizeDisk, FinalizeKernel, Confirm, Decline, Apply, configVars, loginVars
<1>2. login \in [Logins -> LoginStages]
  BY DEF AloneInv, ConfigTypeOK
<1>3. m = l
  BY <1>1, <1>2 DEF LoginStep, LoginStart, LoginChmodDir, LoginLoad, LoginOpen, LoginWrite,
         LoginChmodFile, LoginCrash, LoginOn, LoginEnds, LoginFails, LoginTo
<1>4. /\ login[l] = "chmod" /\ fileOpen' = FALSE /\ UNCHANGED <<text, dirOpen>>
  BY <1>1, <1>2, <1>3
  DEF LoginStep, LoginStart, LoginChmodDir, LoginLoad, LoginOpen, LoginWrite,
      LoginChmodFile, LoginCrash, LoginOn, LoginEnds, LoginFails, LoginTo
<1>5. dirOpen = FALSE
  BY <1>4 DEF AloneInv, SecretInv, Past
<1>6. text = NewKey(l)
  BY <1>4 DEF AloneInv, Undisturbed, OnItsWay
<1>. QED BY <1>4, <1>5, <1>6 DEF NewKey

LEMMA InitAlone == Init => AloneInv
<1>. SUFFICES ASSUME Init PROVE AloneInv
  OBVIOUS
<1>1. SecretInv
  BY NewKeysAssumption DEF Init, ConfigInit, SecretInv, LoginStages, Past
<1>2. ConfigTypeOK
  BY ConfigInitType DEF Init
<1>3. \A l \in Logins : ~ alone[l]
  BY DEF Init, ConfigInit
<1>. QED BY <1>1, <1>2, <1>3 DEF AloneInv, Undisturbed

\* As long as the file can be read when a login loads it: the login that ends
\* well with nobody between its steps has replaced the key and nothing else,
\* with any number of logins and edits about it, and wherever they fail.  (A
\* read that fails is taken for an empty file, whose fields it then writes.)
THEOREM LoginReplacesTheKey ==
  "read" \notin LoginFaults => (Spec => LoginOnlyChangesTheKey)
<1>. SUFFICES ASSUME "read" \notin LoginFaults PROVE Spec => LoginOnlyChangesTheKey
  OBVIOUS
<1>1. AloneInv /\ [Next]_vars => AloneInv'
  BY AloneNext
<1>2. [][LoginDone]_configVars => LoginOnlyChangesTheKey
  BY DEF LoginDone, LoginOnlyChangesTheKey
<1>. QED BY <1>1, <1>2, InitAlone, LoginEndsWell, PTL DEF Spec

(***************************************************************************)
(* The conversation.  The first b messages of m are settled when they are  *)
(* what a provider accepts by themselves: each assistant turn among them   *)
(* is answered among them.                                                 *)
(***************************************************************************)
Messages == [role : {"user", "assistant", "tool"}, ids : Seq(Nat \X Nat)]

Answers(p, m, i) == IF p = "anthropic" THEN 1 ELSE Len(m[i].ids)
Results(p, m, i) ==
  IF p = "anthropic" THEN m[i + 1].role = "user" /\ m[i + 1].ids = m[i].ids
  ELSE \A k \in 1..Answers(p, m, i) :
         m[i + k].role = "tool" /\ m[i + k].ids = << m[i].ids[k] >>
AnsweredBy(p, m, i, b) ==
  /\ i + Answers(p, m, i) <= b
  /\ Results(p, m, i)
  /\ i + Answers(p, m, i) = b \/ m[i + Answers(p, m, i) + 1].role = "assistant"
Settled(p, m, b) ==
  /\ m[1] = Intent
  /\ b > 1 => m[2].role = "assistant"
  /\ \A i \in 1..b : m[i].role = "assistant" => AnsweredBy(p, m, i, b)

\* A turn at a, e of whose calls have been answered with a message each.
Pending(p, m, a, ids, e) ==
  /\ a \in 2..Len(m) /\ Len(m) = a + e
  /\ Settled(p, m, a - 1)
  /\ m[a] = Message("assistant", ids)
  /\ \A k \in 1..e : m[a + k] = Message("tool", << ids[k] >>)

LEMMA MessageFields ==
  ASSUME NEW role, NEW ids
  PROVE  Message(role, ids).role = role /\ Message(role, ids).ids = ids
BY DEF Message

LEMMA AnswersNat ==
  ASSUME NEW p, NEW m \in Seq(Messages), NEW i \in 1..Len(m)
  PROVE  Answers(p, m, i) \in Nat
<1>0. m[i] \in Messages
  BY ElementOfSeq
<1>1. m[i].ids \in Seq(Nat \X Nat)
  BY <1>0 DEF Messages
<1>2. Len(m[i].ids) \in Nat
  BY <1>1, LenProperties
<1>. QED BY <1>2 DEF Answers

\* Whether they are settled is a matter of the first b messages alone.
LEMMA SettledPrefix ==
  ASSUME NEW p, NEW m \in Seq(Messages), NEW q \in Seq(Messages), NEW b \in Nat \ {0},
         b <= Len(m), b <= Len(q), \A i \in 1..b : q[i] = m[i], Settled(p, m, b)
  PROVE  Settled(p, q, b)
<1>0. Len(m) \in Nat
  BY LenProperties
<1>1. q[1] = Intent /\ (b > 1 => q[2].role = "assistant")
  BY DEF Settled
<1>2. ASSUME NEW i \in 1..b, q[i].role = "assistant" PROVE AnsweredBy(p, q, i, b)
  <2>. DEFINE n == Answers(p, m, i)
  <2>1. n \in Nat
    BY <1>0, AnswersNat
  <2>2. Answers(p, q, i) = n
    BY DEF Answers
  <2>3. AnsweredBy(p, m, i, b)
    BY <1>2 DEF Settled
  <2>4. i + n <= b /\ (i + n = b \/ m[i + n + 1].role = "assistant")
    BY <2>3 DEF AnsweredBy
  <2>5. i + n = b \/ q[i + n + 1].role = "assistant"
    <3>. HIDE DEF n
    <3>1. CASE i + n < b
      <4>1. i + n + 1 \in 1..b
        BY <2>1, <3>1
      <4>. QED BY <2>4, <3>1, <4>1
    <3>2. i + n = b \/ i + n < b
      BY <2>1, <2>4
    <3>. QED BY <3>1, <3>2
  <2>6. Results(p, q, i)
    <3>1. Results(p, m, i)
      BY <2>3 DEF AnsweredBy
    <3>2. CASE p = "anthropic"
      <4>1. i + 1 \in 1..b
        BY <2>4, <3>2 DEF Answers
      <4>. QED BY <3>1, <3>2, <4>1 DEF Results
    <3>3. CASE p # "anthropic"
      <4>1. SUFFICES ASSUME NEW k \in 1..n
                     PROVE  q[i + k].role = "tool" /\ q[i + k].ids = << q[i].ids[k] >>
        BY <2>2, <3>3 DEF Results
      <4>2. m[i + k].role = "tool" /\ m[i + k].ids = << m[i].ids[k] >>
        BY <3>1, <3>3 DEF Results
      <4>3. i + k \in 1..b
        <5>. HIDE DEF n
        <5>. QED BY <2>1, <2>4
      <4>. QED BY <4>2, <4>3
    <3>. QED BY <3>2, <3>3
  <2>. QED BY <2>2, <2>4, <2>5, <2>6 DEF AnsweredBy
<1>. QED BY <1>1, <1>2 DEF Settled

\* A turn that has been answered to the end settles the conversation.
LEMMA AnsweredTurn ==
  ASSUME NEW p, NEW m \in Seq(Messages), NEW a \in 2..Len(m),
         Settled(p, m, a - 1), m[a].role = "assistant",
         Results(p, m, a), a + Answers(p, m, a) = Len(m),
         \A i \in (a + 1)..Len(m) : m[i].role # "assistant"
  PROVE  Settled(p, m, Len(m))
<1>0. Len(m) \in Nat /\ a \in Nat /\ 2 <= a /\ a <= Len(m)
  BY LenProperties
<1>1. m[1] = Intent
  BY DEF Settled
<1>2. m[2].role = "assistant"
  BY <1>0 DEF Settled
<1>3. ASSUME NEW i \in 1..Len(m), m[i].role = "assistant" PROVE AnsweredBy(p, m, i, Len(m))
  <2>1. CASE i = a
    BY <1>0, <2>1 DEF AnsweredBy
  <2>2. CASE i < a
    <3>. DEFINE n == Answers(p, m, i)
    <3>1. n \in Nat
      BY AnswersNat
    <3>2. AnsweredBy(p, m, i, a - 1)
      BY <1>0, <1>3, <2>2 DEF Settled
    <3>3. /\ i + n <= a - 1 /\ Results(p, m, i)
          /\ i + n = a - 1 \/ m[i + n + 1].role = "assistant"
      BY <3>2 DEF AnsweredBy
    <3>4. m[i + n + 1].role = "assistant"
      <4>1. i + n = a - 1 => i + n + 1 = a
        <5>. HIDE DEF n
        <5>. QED BY <1>0, <3>1
      <4>. QED BY <3>3, <4>1
    <3>5. i + n <= Len(m)
      <4>. HIDE DEF n
      <4>. QED BY <1>0, <3>1, <3>3
    <3>. QED BY <3>3, <3>4, <3>5 DEF AnsweredBy
  <2>3. CASE i > a
    BY <1>0, <1>3, <2>3
  <2>. QED BY <1>0, <2>1, <2>2, <2>3
<1>. QED BY <1>1, <1>2, <1>3 DEF Settled

(***************************************************************************)
(* The model calls tools; one result; the last; all of them at once.       *)
(***************************************************************************)
LEMMA CallsArePending ==
  ASSUME NEW p, NEW m \in Seq(Messages), NEW ids \in Seq(Nat \X Nat),
         Len(m) > 0, Settled(p, m, Len(m))
  PROVE  LET q == Append(m, Message("assistant", ids))
         IN  q \in Seq(Messages) /\ Pending(p, q, Len(m) + 1, ids, 0)
<1>. DEFINE q == Append(m, Message("assistant", ids))
<1>1. Message("assistant", ids) \in Messages
  BY DEF Message, Messages
<1>2. /\ q \in Seq(Messages) /\ Len(q) = Len(m) + 1 /\ Len(m) \in Nat
      /\ \A i \in 1..Len(m) : q[i] = m[i]
      /\ q[Len(m) + 1] = Message("assistant", ids)
  BY <1>1, AppendProperties, LenProperties
<1>. HIDE DEF q
<1>3. Settled(p, q, Len(m))
  BY <1>2, SettledPrefix
<1>4. Len(m) + 1 \in 2..Len(q) /\ Len(q) = Len(m) + 1 + 0 /\ Len(m) + 1 - 1 = Len(m)
  BY <1>2
<1>5. Pending(p, q, Len(m) + 1, ids, 0)
  BY <1>2, <1>3, <1>4 DEF Pending
<1>. QED BY <1>2, <1>5 DEF q

LEMMA OneResult ==
  ASSUME NEW p, NEW m \in Seq(Messages), NEW a, NEW ids \in Seq(Nat \X Nat),
         NEW e \in Nat, e < Len(ids), Pending(p, m, a, ids, e)
  PROVE  LET q == Append(m, Message("tool", << ids[e + 1] >>))
         IN  q \in Seq(Messages) /\ Pending(p, q, a, ids, e + 1)
<1>. DEFINE x == Message("tool", << ids[e + 1] >>)
            q == Append(m, x)
<1>1. x \in Messages
  <2>1. Len(ids) \in Nat /\ e + 1 \in 1..Len(ids)
    BY LenProperties
  <2>2. ids[e + 1] \in Nat \X Nat
    BY <2>1, ElementOfSeq
  <2>3. << ids[e + 1] >> \in Seq(Nat \X Nat)
    BY <2>2
  <2>. QED BY <2>3 DEF Message, Messages
<1>. HIDE DEF x
<1>2. /\ q \in Seq(Messages) /\ Len(q) = Len(m) + 1 /\ Len(m) \in Nat
      /\ \A i \in 1..Len(m) : q[i] = m[i]
      /\ q[Len(m) + 1] = x
  BY <1>1, AppendProperties, LenProperties
<1>. HIDE DEF q
<1>3. a \in 2..Len(m) /\ Len(m) = a + e /\ a \in Nat
  BY <1>2 DEF Pending
<1>4. Settled(p, q, a - 1)
  <2>1. a - 1 \in Nat \ {0} /\ a - 1 <= Len(m) /\ a - 1 <= Len(q)
    BY <1>2, <1>3
  <2>2. \A i \in 1..(a - 1) : q[i] = m[i]
    BY <1>2, <1>3, <2>1
  <2>3. Settled(p, m, a - 1)
    BY DEF Pending
  <2>. QED BY <1>2, <2>1, <2>2, <2>3, SettledPrefix
<1>5. q[a] = Message("assistant", ids)
  BY <1>2, <1>3 DEF Pending
<1>6. ASSUME NEW k \in 1..(e + 1) PROVE q[a + k] = Message("tool", << ids[k] >>)
  <2>1. CASE k = e + 1
    BY <1>2, <1>3, <2>1 DEF x
  <2>2. CASE k # e + 1
    <3>1. k \in 1..e /\ a + k \in 1..Len(m)
      BY <1>2, <1>3, <2>2
    <3>. QED BY <1>2, <3>1 DEF Pending
  <2>. QED BY <2>1, <2>2
<1>7. a \in 2..Len(q) /\ Len(q) = a + (e + 1)
  BY <1>2, <1>3
<1>8. Pending(p, q, a, ids, e + 1)
  BY <1>4, <1>5, <1>6, <1>7 DEF Pending
<1>. QED BY <1>2, <1>8 DEF q, x

LEMMA AllResults ==
  ASSUME NEW m \in Seq(Messages), NEW a, NEW ids \in Seq(Nat \X Nat),
         Pending("openai", m, a, ids, Len(ids))
  PROVE  Settled("openai", m, Len(m))
<1>1. Len(m) \in Nat /\ Len(ids) \in Nat
  BY LenProperties
<1>2. a \in 2..Len(m) /\ Len(m) = a + Len(ids) /\ Settled("openai", m, a - 1)
  BY DEF Pending
<1>3. m[a].role = "assistant" /\ m[a].ids = ids
  BY MessageFields DEF Pending
<1>4. \A k \in 1..Len(ids) : m[a + k].role = "tool" /\ m[a + k].ids = << ids[k] >>
  <2>1. SUFFICES ASSUME NEW k \in 1..Len(ids)
                 PROVE  m[a + k].role = "tool" /\ m[a + k].ids = << ids[k] >>
    OBVIOUS
  <2>2. m[a + k] = Message("tool", << ids[k] >>)
    BY DEF Pending
  <2>. QED BY <2>2, MessageFields
<1>5. Answers("openai", m, a) = Len(ids)
  BY <1>3 DEF Answers
<1>6. Results("openai", m, a)
  BY <1>3, <1>4, <1>5 DEF Results
<1>7. ASSUME NEW i \in (a + 1)..Len(m) PROVE m[i].role # "assistant"
  <2>. DEFINE k == i - a
  <2>1. k \in 1..Len(ids) /\ a + k = i
    BY <1>1, <1>2
  <2>. HIDE DEF k
  <2>2. m[i].role = "tool"
    BY <1>4, <2>1
  <2>. QED BY <2>2
<1>. QED BY <1>2, <1>3, <1>5, <1>6, <1>7, AnsweredTurn

LEMMA UserResults ==
  ASSUME NEW m \in Seq(Messages), NEW a, NEW ids \in Seq(Nat \X Nat),
         Pending("anthropic", m, a, ids, 0)
  PROVE  LET q == Append(m, Message("user", ids))
         IN  q \in Seq(Messages) /\ Len(q) > 0 /\ Settled("anthropic", q, Len(q))
<1>. DEFINE q == Append(m, Message("user", ids))
<1>1. Message("user", ids) \in Messages
  BY DEF Message, Messages
<1>2. /\ q \in Seq(Messages) /\ Len(q) = Len(m) + 1 /\ Len(m) \in Nat
      /\ \A i \in 1..Len(m) : q[i] = m[i]
      /\ q[Len(m) + 1] = Message("user", ids)
  BY <1>1, AppendProperties, LenProperties
<1>. HIDE DEF q
<1>3. a \in 2..Len(m) /\ Len(m) = a /\ m[a] = Message("assistant", ids)
  BY <1>2 DEF Pending
<1>4. Settled("anthropic", q, a - 1)
  <2>1. a - 1 \in Nat \ {0} /\ a - 1 <= Len(m) /\ a - 1 <= Len(q)
    BY <1>2, <1>3
  <2>2. \A i \in 1..(a - 1) : q[i] = m[i]
    BY <1>2, <1>3, <2>1
  <2>3. Settled("anthropic", m, a - 1)
    BY DEF Pending
  <2>. QED BY <1>2, <2>1, <2>2, <2>3, SettledPrefix
<1>5. /\ q[a].role = "assistant" /\ q[a].ids = ids
      /\ q[a + 1].role = "user" /\ q[a + 1].ids = ids
  BY <1>2, <1>3, MessageFields
<1>6. Results("anthropic", q, a) /\ Answers("anthropic", q, a) = 1
  BY <1>5 DEF Results, Answers
<1>7. a \in 2..Len(q) /\ a + 1 = Len(q) /\ \A i \in (a + 1)..Len(q) : i = a + 1
  BY <1>2, <1>3
<1>8. Settled("anthropic", q, Len(q))
  <2>1. \A i \in (a + 1)..Len(q) : q[i].role # "assistant"
    BY <1>5, <1>7
  <2>. QED BY <1>2, <1>4, <1>5, <1>6, <1>7, <2>1, AnsweredTurn
<1>. QED BY <1>2, <1>8 DEF q

(***************************************************************************)
(* Where the conversation of a session is.                                 *)
(***************************************************************************)
Answered(s) == IF settings[s].provider = "openai" THEN executed[s] ELSE 0
Talking(s) ==
  /\ at[s] \in {"configured", "ready", "waiting", "tools"} =>
       settings[s].provider \in Providers
  /\ at[s] \in {"ready", "waiting"} =>
       Len(messages[s]) > 0 /\ Settled(settings[s].provider, messages[s], Len(messages[s]))
  /\ at[s] = "tools" =>
       \E a : Pending(settings[s].provider, messages[s], a,
                      IdsOf(turns[s], reply[s]), Answered(s))
TalkInv ==
  /\ AgentInv
  /\ DOMAIN settings = Sessions
  /\ messages \in [Sessions -> Seq(Messages)]
  /\ \A s \in Sessions : Talking(s)

LEMMA IdsType ==
  ASSUME NEW turn \in Nat, NEW calls \in Batches \cup {<< >>}
  PROVE  /\ IdsOf(turn, calls) \in Seq(Nat \X Nat)
         /\ Len(IdsOf(turn, calls)) = Len(calls)
<1>. DEFINE ids == IdsOf(turn, calls)
<1>1. Len(calls) \in Nat /\ DOMAIN calls = 1..Len(calls)
  BY BatchProperties
<1>2. ids = [i \in 1..Len(calls) |-> <<turn, i>>]
  BY <1>1 DEF IdsOf
<1>3. ids \in [1..Len(calls) -> Nat \X Nat]
  BY <1>2
<1>. HIDE DEF ids
<1>4. ids \in Seq(Nat \X Nat)
  BY <1>1, <1>3, SeqDef
<1>5. Len(ids) \in Nat /\ DOMAIN ids = 1..Len(ids)
  BY <1>4, LenProperties
<1>6. DOMAIN ids = 1..Len(calls)
  BY <1>3
<1>7. Len(ids) = Len(calls)
  <2>. DEFINE b == Len(ids)
              c == Len(calls)
  <2>1. b \in Nat /\ c \in Nat /\ 1..b = 1..c
    BY <1>1, <1>5, <1>6
  <2>. HIDE DEF b, c
  <2>2. b = c
    BY <2>1
  <2>. QED BY <2>2 DEF b, c
<1>. QED BY <1>4, <1>7 DEF ids

\* A session's step leaves the conversations of the others alone.
LEMMA OthersTalk ==
  ASSUME TalkInv, NEW s \in Sessions, AgentInv',
         \A m \in Sessions \ {s} :
           /\ at'[m] = at[m] /\ settings'[m] = settings[m] /\ messages'[m] = messages[m]
           /\ turns'[m] = turns[m] /\ reply'[m] = reply[m] /\ executed'[m] = executed[m],
         DOMAIN settings' = Sessions, messages' \in [Sessions -> Seq(Messages)],
         Talking(s)'
  PROVE  TalkInv'
<1>1. ASSUME NEW m \in Sessions, m # s PROVE Talking(m)'
  <2>1. Talking(m)
    BY DEF TalkInv
  <2>2. Answered(m)' = Answered(m)
    BY <1>1 DEF Answered
  <2>. QED BY <1>1, <2>1, <2>2 DEF Talking
<1>. QED BY <1>1 DEF TalkInv

LEMMA LoadSettingsTalks ==
  ASSUME TalkInv, AgentInv', NEW s \in Sessions, LoadSettings(s)
  PROVE  TalkInv'
<1>. DEFINE loaded == LoadProviderSettings(text, env)
<1>1. /\ at' = [at EXCEPT ![s] = IF loaded = Refusal THEN "failed" ELSE "configured"]
      /\ settings' = [settings EXCEPT ![s] = loaded]
      /\ UNCHANGED <<messages, turns, reply, executed>>
  BY DEF LoadSettings, SessionTo
<1>2. loaded # Refusal => loaded.provider \in Providers
  BY DEF LoadProviderSettings
<1>. HIDE DEF loaded
<1>3. DOMAIN at = Sessions /\ DOMAIN settings = Sessions
  BY DEF TalkInv, AgentInv, AgentTypeOK
<1>4. Talking(s)'
  BY <1>1, <1>2, <1>3 DEF Talking
<1>. QED BY <1>1, <1>3, <1>4, OthersTalk DEF TalkInv

LEMMA AskTalks ==
  ASSUME TalkInv, AgentInv', NEW s \in Sessions, Ask(s)
  PROVE  TalkInv'
<1>1. /\ at[s] = "configured" /\ at' = [at EXCEPT ![s] = "ready"]
      /\ messages' = [messages EXCEPT ![s] = << Intent >>]
      /\ UNCHANGED <<settings, turns, reply, executed>>
  BY DEF Ask, SessionTo
<1>2. DOMAIN at = Sessions /\ DOMAIN settings = Sessions
      /\ messages \in [Sessions -> Seq(Messages)] /\ Talking(s)
  BY DEF TalkInv, AgentInv, AgentTypeOK
<1>3. Intent \in Messages /\ Intent.role # "assistant"
  <2>1. << >> \in Seq(Nat \X Nat)
    BY EmptySeq
  <2>. QED BY <2>1 DEF Intent, Message, Messages
<1>4. << Intent >> \in Seq(Messages) /\ Len(<< Intent >>) = 1 /\ << Intent >>[1] = Intent
  BY <1>3
<1>. HIDE DEF Intent
<1>5. \A p : Settled(p, << Intent >>, 1)
  BY <1>3, <1>4 DEF Settled
<1>6. messages'[s] = << Intent >> /\ at'[s] = "ready" /\ settings'[s] = settings[s]
  BY <1>1, <1>2
<1>7. Talking(s)'
  BY <1>1, <1>2, <1>4, <1>5, <1>6 DEF Talking
<1>. QED BY <1>1, <1>2, <1>4, <1>7, OthersTalk

\* Steps that add nothing to the conversation, the sending of it included.
LEMMA SilentTalks ==
  ASSUME TalkInv, AgentInv', NEW s \in Sessions,
         \/ Send(s) \/ Exhaust(s)
         \/ \E r \in Response : ReceiveEnd(s, r) \/ ReceivePlan(s, r)
  PROVE  TalkInv'
<1>1. /\ at[s] \in {"ready", "waiting"}
      /\ \E where \in {"waiting", "failed", "answered", "planned"} :
           /\ at' = [at EXCEPT ![s] = where]
           /\ where = "waiting" => at[s] = "ready"
      /\ UNCHANGED <<settings, messages, executed>>
  BY DEF Send, Exhaust, ReceiveEnd, ReceivePlan, SessionTo
<1>2. /\ DOMAIN at = Sessions /\ DOMAIN settings = Sessions
      /\ DOMAIN turns = Sessions /\ DOMAIN reply = Sessions
      /\ messages \in [Sessions -> Seq(Messages)] /\ Talking(s)
  BY DEF TalkInv, AgentInv, AgentTypeOK
<1>3. \A m \in Sessions \ {s} : turns'[m] = turns[m] /\ reply'[m] = reply[m]
  BY <1>2 DEF Send, Exhaust, ReceiveEnd, ReceivePlan
<1>4. Talking(s)'
  BY <1>1, <1>2 DEF Talking
<1>. QED BY <1>1, <1>2, <1>3, <1>4, OthersTalk

LEMMA ToolsTalk ==
  ASSUME TalkInv, AgentInv', NEW s \in Sessions, NEW r \in Response, ReceiveTools(s, r)
  PROVE  TalkInv'
<1>. DEFINE p == settings[s].provider
            m == messages[s]
            ids == IdsOf(turns[s], r.calls)
            q == Append(m, Message("assistant", ids))
<1>1. /\ at[s] = "waiting" /\ at' = [at EXCEPT ![s] = "tools"]
      /\ messages' = [messages EXCEPT ![s] = q]
      /\ reply' = [reply EXCEPT ![s] = r.calls]
      /\ UNCHANGED <<settings, turns, executed>>
  BY DEF ReceiveTools, SessionTo
<1>2. /\ DOMAIN at = Sessions /\ DOMAIN settings = Sessions /\ DOMAIN reply = Sessions
      /\ messages \in [Sessions -> Seq(Messages)] /\ Talking(s)
      /\ turns[s] \in Nat /\ executed[s] = 0
  BY <1>1 DEF TalkInv, AgentInv, AgentTypeOK, Counting
<1>3. ids \in Seq(Nat \X Nat)
  BY <1>2, IdsType DEF Response
<1>4. Len(m) > 0 /\ Settled(p, m, Len(m)) /\ p \in Providers
  BY <1>1, <1>2 DEF Talking
<1>5. q \in Seq(Messages) /\ Pending(p, q, Len(m) + 1, ids, 0)
  <2>1. m \in Seq(Messages)
    BY <1>2
  <2>. HIDE DEF p, m, ids
  <2>. QED BY <1>3, <1>4, <2>1, CallsArePending
<1>6. at'[s] = "tools" /\ messages'[s] = q /\ settings'[s].provider = p
      /\ IdsOf(turns'[s], reply'[s]) = ids
  BY <1>1, <1>2
<1>7. Answered(s)' = 0
  BY <1>1, <1>2 DEF Answered
<1>8. Talking(s)'
  <2>. HIDE DEF p, m, ids, q
  <2>. QED BY <1>4, <1>5, <1>6, <1>7 DEF Talking
<1>9. messages' \in [Sessions -> Seq(Messages)]
  <2>. HIDE DEF q
  <2>. QED BY <1>1, <1>2, <1>5
<1>. QED BY <1>1, <1>2, <1>8, <1>9, OthersTalk

LEMMA ResultTalks ==
  ASSUME TalkInv, AgentInv', NEW s \in Sessions, ExecuteTool(s)
  PROVE  TalkInv'
<1>. DEFINE p == settings[s].provider
            m == messages[s]
            ids == IdsOf(turns[s], reply[s])
            e == executed[s]
            q == WithResult(s, e + 1)
<1>1. /\ at[s] = "tools"
      /\ messages' = [messages EXCEPT ![s] = q]
      /\ UNCHANGED <<settings, turns, reply>>
      /\ \/ /\ e + 1 = Len(reply[s]) /\ at' = [at EXCEPT ![s] = "ready"]
            /\ executed' = [executed EXCEPT ![s] = 0]
         \/ /\ e + 1 # Len(reply[s]) /\ at' = at
            /\ executed' = [executed EXCEPT ![s] = e + 1]
  BY DEF ExecuteTool, SessionTo
<1>2. /\ DOMAIN at = Sessions /\ DOMAIN settings = Sessions /\ DOMAIN executed = Sessions
      /\ messages \in [Sessions -> Seq(Messages)] /\ Talking(s)
      /\ turns[s] \in Nat /\ e \in Nat /\ e < Len(reply[s])
      /\ reply[s] \in Batches \cup {<< >>}
  BY <1>1 DEF TalkInv, AgentInv, AgentTypeOK, Counting
<1>3. ids \in Seq(Nat \X Nat) /\ Len(ids) = Len(reply[s]) /\ Len(reply[s]) \in Nat
  BY <1>2, IdsType, BatchProperties
<1>4. p \in Providers
  BY <1>1, <1>2 DEF Talking
<1>5. PICK a : Pending(p, m, a, ids, Answered(s))
  BY <1>1, <1>2 DEF Talking
<1>6. q = IF p = "openai" THEN Append(m, Message("tool", << ids[e + 1] >>))
          ELSE IF e + 1 = Len(ids) THEN Append(m, Message("user", ids))
          ELSE m
  BY DEF WithResult
<1>7. m \in Seq(Messages) /\ messages'[s] = q /\ settings'[s].provider = p
      /\ IdsOf(turns'[s], reply'[s]) = ids
  BY <1>1, <1>2
<1>8. /\ p = "openai" => q \in Seq(Messages) /\ Pending(p, q, a, ids, e + 1)
      /\ p = "anthropic" /\ e + 1 = Len(ids) =>
           q \in Seq(Messages) /\ Len(q) > 0 /\ Settled(p, q, Len(q))
      /\ p = "anthropic" /\ e + 1 # Len(ids) =>
           q \in Seq(Messages) /\ Pending(p, q, a, ids, 0)
  <2>1. ASSUME p = "openai" PROVE q \in Seq(Messages) /\ Pending(p, q, a, ids, e + 1)
    <3>1. Pending(p, m, a, ids, e)
      BY <1>5, <2>1 DEF Answered
    <3>2. q = Append(m, Message("tool", << ids[e + 1] >>))
      BY <1>6, <2>1
    <3>3. e < Len(ids)
      BY <1>2, <1>3
    <3>. HIDE DEF p, m, ids, e, q
    <3>. QED BY <1>2, <1>3, <1>7, <3>1, <3>2, <3>3, OneResult
  <2>2. ASSUME p = "anthropic" PROVE Pending("anthropic", m, a, ids, 0)
    BY <1>5, <2>2 DEF Answered
  <2>3. ASSUME p = "anthropic", e + 1 = Len(ids)
        PROVE  q \in Seq(Messages) /\ Len(q) > 0 /\ Settled(p, q, Len(q))
    <3>1. q = Append(m, Message("user", ids))
      BY <1>6, <2>3
    <3>. HIDE DEF p, m, ids, e, q
    <3>2. q \in Seq(Messages) /\ Len(q) > 0 /\ Settled("anthropic", q, Len(q))
      BY <1>3, <1>7, <2>2, <2>3, <3>1, UserResults
    <3>. QED BY <2>3, <3>2
  <2>4. ASSUME p = "anthropic", e + 1 # Len(ids)
        PROVE  q \in Seq(Messages) /\ Pending(p, q, a, ids, 0)
    <3>1. q = m
      BY <1>6, <2>4
    <3>. HIDE DEF p, m, ids, e, q
    <3>. QED BY <1>7, <2>2, <2>4, <3>1
  <2>. HIDE DEF p, m, ids, e, q
  <2>. QED BY <2>1, <2>3, <2>4
<1>9. q \in Seq(Messages)
  <2>. HIDE DEF p, m, ids, e, q
  <2>. QED BY <1>4, <1>8 DEF Providers
<1>10. messages' \in [Sessions -> Seq(Messages)]
  <2>. HIDE DEF q
  <2>. QED BY <1>1, <1>2, <1>9
<1>11. CASE e + 1 = Len(reply[s])
  <2>1. at'[s] = "ready"
    BY <1>1, <1>2, <1>11
  <2>2. p = "openai" => Len(q) > 0 /\ Settled(p, q, Len(q))
    <3>. HIDE DEF p, m, ids, e, q
    <3>1. SUFFICES ASSUME p = "openai" PROVE Len(q) > 0 /\ Settled(p, q, Len(q))
      OBVIOUS
    <3>2. Pending("openai", q, a, ids, Len(ids))
      BY <1>3, <1>8, <1>11, <3>1
    <3>3. Settled("openai", q, Len(q))
      BY <1>3, <1>9, <3>2, AllResults
    <3>4. Len(q) > 0
      <4>1. a \in 2..Len(q) /\ Len(q) \in Nat
        BY <1>9, <3>2, LenProperties DEF Pending
      <4>. QED BY <4>1
    <3>. QED BY <3>1, <3>3, <3>4
  <2>3. Len(q) > 0 /\ Settled(p, q, Len(q))
    <3>. HIDE DEF p, m, ids, e, q
    <3>. QED BY <1>3, <1>4, <1>8, <1>11, <2>2 DEF Providers
  <2>4. Talking(s)'
    <3>. HIDE DEF p, m, ids, e, q
    <3>. QED BY <1>4, <1>7, <2>1, <2>3 DEF Talking
  <2>. QED BY <1>1, <1>2, <1>10, <2>4, OthersTalk
<1>12. CASE e + 1 # Len(reply[s])
  <2>1. at'[s] = "tools" /\ executed'[s] = e + 1
    BY <1>1, <1>2, <1>12
  <2>2. Answered(s)' = IF p = "openai" THEN e + 1 ELSE 0
    BY <1>7, <2>1 DEF Answered
  <2>3. Pending(p, q, a, ids, Answered(s)')
    <3>. HIDE DEF p, m, ids, e, q
    <3>1. e + 1 # Len(ids)
      BY <1>3, <1>12
    <3>2. CASE p = "openai"
      BY <1>8, <2>2, <3>2
    <3>3. CASE p = "anthropic"
      BY <1>8, <2>2, <3>1, <3>3
    <3>. QED BY <1>4, <3>2, <3>3 DEF Providers
  <2>4. Talking(s)'
    <3>. HIDE DEF p, m, ids, e, q
    <3>. QED BY <1>4, <1>7, <2>1, <2>3 DEF Talking
  <2>. QED BY <1>1, <1>2, <1>10, <2>4, OthersTalk
<1>. QED BY <1>11, <1>12

(***************************************************************************)
(* So every request is accepted.                                           *)
(***************************************************************************)
ConversationInv == TypeInv /\ TalkInv

LEMMA ConversationNext == ConversationInv /\ [Next]_vars => ConversationInv'
<1>. SUFFICES ASSUME ConversationInv, [Next]_vars PROVE ConversationInv'
  OBVIOUS
<1>1. TypeInv' /\ AgentInv' /\ TalkInv
  BY NextTypeInv DEF ConversationInv, TypeInv
<1>2. ASSUME NEW s \in Sessions, LoadSettings(s) PROVE TalkInv'
  BY <1>1, <1>2, LoadSettingsTalks
<1>3. ASSUME NEW s \in Sessions, Converse(s) PROVE TalkInv'
  <2>1. CASE Ask(s)
    BY <1>1, <2>1, AskTalks
  <2>2. CASE Send(s) \/ Exhaust(s)
    BY <1>1, <2>2, SilentTalks
  <2>3. ASSUME NEW r \in Response, ReceiveEnd(s, r) \/ ReceivePlan(s, r) PROVE TalkInv'
    BY <1>1, <2>3, SilentTalks
  <2>4. ASSUME NEW r \in Response, ReceiveTools(s, r) PROVE TalkInv'
    BY <1>1, <2>4, ToolsTalk
  <2>5. CASE ExecuteTool(s)
    BY <1>1, <2>5, ResultTalks
  <2>. QED BY <1>3, <2>1, <2>2, <2>3, <2>4, <2>5 DEF Converse, AgentStep, Receive
<1>4. ASSUME UNCHANGED agentVars PROVE TalkInv'
  BY <1>1, <1>4 DEF agentVars, TalkInv, Talking, Answered
<1>5. TalkInv'
  BY <1>2, <1>3, <1>4 DEF Next, vars, Configure, Post, ProvisionDirect,
     FinalizeDisk, FinalizeKernel, Confirm, Decline, Apply
<1>. QED BY <1>1, <1>5 DEF ConversationInv

LEMMA InitConversation == Init => ConversationInv
<1>. SUFFICES ASSUME Init PROVE ConversationInv
  OBVIOUS
<1>1. TypeInv /\ AgentInv
  BY InitTypeInv DEF TypeInv
<1>2. << >> \in Seq(Messages)
  BY EmptySeq
<1>3. TalkInv
  BY <1>1, <1>2 DEF Init, AgentInit, TalkInv, Talking
<1>. QED BY <1>1, <1>3 DEF ConversationInv

\* With any provider, any replies and any number of sessions and turns: each
\* request carries the intent and then only answered turns, every result at
\* its place, so no provider refuses it for its shape.
THEOREM ConversationsAreAccepted == Spec => []ConversationIsWellFormed
<1>1. ASSUME ConversationInv, NEW s \in Sessions, at[s] = "waiting"
      PROVE  LET m == messages[s] IN
               /\ m[1] = Intent
               /\ Len(m) > 1 => m[2].role = "assistant"
               /\ \A i \in DOMAIN m :
                    m[i].role = "assistant" => AnsweredAt(settings[s].provider, m, i)
  <2>. DEFINE p == settings[s].provider
              m == messages[s]
  <2>1. m \in Seq(Messages) /\ Settled(p, m, Len(m))
    BY <1>1 DEF ConversationInv, TalkInv, Talking
  <2>. HIDE DEF p, m
  <2>2. DOMAIN m = 1..Len(m)
    BY <2>1, LenProperties
  <2>3. ASSUME NEW i \in DOMAIN m, m[i].role = "assistant" PROVE AnsweredAt(p, m, i)
    <3>1. AnsweredBy(p, m, i, Len(m))
      BY <2>1, <2>2, <2>3 DEF Settled
    <3>. QED BY <3>1 DEF AnsweredBy, Results, Answers, AnsweredAt
  <2>4. m[1] = Intent /\ (Len(m) > 1 => m[2].role = "assistant")
    BY <2>1 DEF Settled
  <2>. QED BY <2>3, <2>4 DEF p, m
<1>2. ConversationInv => ConversationIsWellFormed
  BY <1>1 DEF ConversationIsWellFormed
<1>. QED BY <1>2, InitConversation, ConversationNext, PTL DEF Spec
=============================================================================
