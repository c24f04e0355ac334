------------------------------ MODULE Planning ------------------------------
(***************************************************************************)
(* From an intent to an applied plan: `ai-vmm run` (run_intent), the       *)
(* daemon's POST /v1/plan, POST /v1/vms with the worker it spawns, and     *)
(* `ai-vmm provision` (provision_direct), while logins and edits change    *)
(* the configuration under them.                                           *)
(*                                                                         *)
(* run_intent reads the file three times: its settings, then, when the     *)
(* model has answered, the disk and the kernel.  The daemon reads settings *)
(* once, when it starts; the disk of a POST /v1/vms is resolved by the     *)
(* daemon and again by the worker.                                         *)
(***************************************************************************)
EXTENDS AgentLoop

CONSTANTS Runs,     \* sessions of `ai-vmm run`; the others are calls of
                    \* POST /v1/plan, which end with the reply
          Workers,  \* `ai-vmm provision` processes
          NotApplied

ASSUME PlanningAssumption ==
  Runs \subseteq Sessions /\ Workers \cap Sessions = {}

VARIABLES
  env,      \* the AI_VMM_... variables all of them inherit
  stage,    \* per run and worker: where it is after it has its plan
  ordered,  \* per worker: the plan its arguments give
  final,    \* per run and worker: the plan with its disk resolved
  kernel,   \* per run and worker: the kernel it resolved
  shown,    \* per run and worker: the plan as display_plan showed it
  approved, \* the runs with --yes, and those whose operator has said yes
  applied   \* per run and worker: what it asks of the hypervisor

applyVars == <<stage, ordered, final, kernel, shown, approved, applied>>
vars == <<configVars, agentVars, env, applyVars>>

Appliers == Runs \cup Workers
Proposed(c) == IF c \in Runs THEN plan[c] ELSE ordered[c]
StageTo(c, where) == stage' = [stage EXCEPT ![c] = where]

(***************************************************************************)
(* load_provider_settings, by run_intent, and by serve for every call of   *)
(* POST /v1/plan to come.                                                  *)
(***************************************************************************)
LoadSettings(s) ==
  /\ at[s] = "off"
  /\ LET loaded == LoadProviderSettings(text, env)
     IN  /\ SessionTo(s, IF loaded = Refusal THEN "failed" ELSE "configured")
         /\ settings' = [settings EXCEPT ![s] = loaded]
  /\ UNCHANGED <<configVars, messages, turns, reply, executed, plan, env, applyVars>>

\* provision_vm: the request is checked and its disk resolved, and the worker
\* is spawned with that disk as an argument.
Post(w, request, valid) ==
  /\ stage[w] = "idle"
  /\ LET disk == ResolveDiskPath(request.disk, text, env)
     IN  \/ /\ valid /\ disk # NotSet
            /\ StageTo(w, "planned")
            /\ ordered' = [ordered EXCEPT ![w] = [request EXCEPT !.disk = disk]]
         \/ ~ (valid /\ disk # NotSet) /\ StageTo(w, "refused") /\ UNCHANGED ordered
  /\ UNCHANGED <<configVars, agentVars, env, final, kernel, shown, approved, applied>>

\* The operator runs `ai-vmm provision` with a disk or without.
ProvisionDirect(w, request) ==
  /\ stage[w] = "idle"
  /\ StageTo(w, "planned")
  /\ ordered' = [ordered EXCEPT ![w] = request]
  /\ UNCHANGED <<configVars, agentVars, env, final, kernel, shown, approved, applied>>

(***************************************************************************)
(* finalize_plan: the disk, without which the plan is refused, then the    *)
(* kernel.  display_plan shows the plan; the kernel it does not show.      *)
(***************************************************************************)
HasPlan(c) == IF c \in Runs THEN at[c] = "planned" /\ stage[c] = "idle"
              ELSE stage[c] = "planned"
FinalizeDisk(c) ==
  /\ HasPlan(c)
  /\ LET disk == ResolveDiskPath(Proposed(c).disk, text, env)
     IN  /\ StageTo(c, IF disk = NotSet THEN "refused" ELSE "finalizing")
         /\ final' = [final EXCEPT ![c] = [Proposed(c) EXCEPT !.disk = disk]]
  /\ UNCHANGED <<configVars, agentVars, env, ordered, kernel, shown, approved, applied>>

FinalizeKernel(c) ==
  /\ stage[c] = "finalizing"
  /\ StageTo(c, "shown")
  /\ kernel' = [kernel EXCEPT ![c] = ResolveKernelPath(text, env)]
  /\ shown' = [shown EXCEPT ![c] = final[c]]
  /\ UNCHANGED <<configVars, agentVars, env, ordered, final, approved, applied>>

\* confirm_apply: only a yes approves; any other answer, and one that cannot be
\* read, ends the run.  With --yes it is not asked, nor does a worker ask.
Confirm(c) ==
  /\ c \in Runs \ approved /\ stage[c] = "shown"
  /\ approved' = approved \cup {c}
  /\ UNCHANGED <<configVars, agentVars, env, stage, ordered, final, kernel, shown, applied>>

Decline(c) ==
  /\ c \in Runs \ approved /\ stage[c] = "shown"
  /\ StageTo(c, "declined")
  /\ UNCHANGED <<configVars, agentVars, env, ordered, final, kernel, shown, approved, applied>>

MutApply(c) ==
  /\ stage[c] = "shown" /\ (c \in Runs => c \in approved)
  /\ StageTo(c, "applied")
  /\ applied' = [applied EXCEPT ![c] =
       [plan |-> [final[c] EXCEPT !.disk = ResolveDiskPath(Proposed(c).disk, text, env)],
        kernel |-> kernel[c]]]
  /\ UNCHANGED <<configVars, agentVars, env, ordered, final, kernel, shown, approved>>

Apply(c) ==
  /\ stage[c] = "shown" /\ (c \in Runs => c \in approved)
  /\ StageTo(c, "applied")
  /\ applied' = [applied EXCEPT ![c] = [plan |-> final[c], kernel |-> kernel[c]]]
  /\ UNCHANGED <<configVars, agentVars, env, ordered, final, kernel, shown, approved>>

-----------------------------------------------------------------------------
Init ==
  /\ ConfigInit /\ AgentInit
  /\ env \in Envs
  /\ stage = [c \in Appliers |-> "idle"]
  /\ ordered = [w \in Workers |-> NoPlan]
  /\ final = [c \in Appliers |-> NoPlan]
  /\ kernel = [c \in Appliers |-> NotSet]
  /\ shown = [c \in Appliers |-> NoPlan]
  /\ approved \in SUBSET Runs
  /\ applied = [c \in Appliers |-> NotApplied]

Converse(s) ==
  /\ Ask(s) \/ AgentStep(s)
  /\ UNCHANGED <<configVars, env, applyVars>>

Configure ==
  /\ ConfigNext
  /\ UNCHANGED <<agentVars, env, applyVars>>

Next ==
  \/ Configure
  \/ \E s \in Sessions : LoadSettings(s) \/ Converse(s)
  \/ \E w \in Workers, request \in PlanInput :
       \/ \E valid \in BOOLEAN : Post(w, request, valid)
       \/ ProvisionDirect(w, request)
  \/ \E c \in Appliers : \/ FinalizeDisk(c) \/ FinalizeKernel(c)
                        \/ Confirm(c) \/ Decline(c) \/ Apply(c)

Spec == Init /\ [][Next]_vars

(***************************************************************************)
(* Fairness: a session keeps running, and the provider answers.  Nothing   *)
(* makes an operator ask, approve or log in.                               *)
(***************************************************************************)
FairSpec ==
  Spec /\ \A s \in Sessions :
            WF_vars(AgentStep(s) /\ UNCHANGED <<configVars, env, applyVars>>)

-----------------------------------------------------------------------------
TypeOK ==
  /\ ConfigTypeOK /\ AgentTypeOK
  /\ env \in Envs
  /\ stage \in [Appliers -> {"idle", "planned", "finalizing", "shown", "applied",
                             "declined", "refused"}]
  /\ ordered \in [Workers -> PlanInput \cup {NoPlan}]
  /\ final \in [Appliers -> PlanInput \cup {NoPlan}]
  /\ shown \in [Appliers -> PlanInput \cup {NoPlan}]
  /\ approved \subseteq Runs

(***************************************************************************)
(* "Nothing runs without approval", and what was reviewed is what runs:    *)
(* a run applies what its operator has approved, or with --yes; whatever   *)
(* happens to the configuration between the proposal, the review           *)
(* and the start, what is applied is the plan as it was shown, that plan   *)
(* is the one the model proposed in the reply that ended the session, or   *)
(* the arguments gave, and a disk once named (by the model, a flag, or the *)
(* daemon that resolved it) is the disk of the VM.                         *)
(***************************************************************************)
AppliedAsReviewed ==
  \A c \in Appliers : applied[c] # NotApplied =>
    /\ applied[c] = [plan |-> shown[c], kernel |-> kernel[c]]
    /\ c \in Runs => c \in approved
    /\ shown[c].disk # NotSet
    /\ Proposed(c).disk \in Disks => shown[c].disk = Proposed(c).disk
    /\ shown[c].spec = Proposed(c).spec
    /\ c \in Runs =>
         \E i \in DOMAIN reply[c] :
           /\ reply[c][i].name = "provision_kvm_machine"
           /\ \A j \in 1..(i - 1) : reply[c][j].name # "provision_kvm_machine"
           /\ reply[c][i].input.spec = shown[c].spec
           /\ reply[c][i].input.disk \in Disks => reply[c][i].input.disk = shown[c].disk
=============================================================================
