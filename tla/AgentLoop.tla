------------------------------ MODULE AgentLoop ------------------------------
(***************************************************************************)
(* ask_agent_reply: the bounded conversation that turns an intent into a   *)
(* plan.  A session sends the conversation to the model provider, reads    *)
(* the reply, and either ends (a plan, a text, an error) or executes the   *)
(* registry tools the model called and goes round again.  The provider is  *)
(* external: it may answer anything.                                       *)
(***************************************************************************)
EXTENDS ConfigFile

CONSTANTS Sessions,  \* runs of ask_agent_reply
          MaxTurns,  \* MAX_TURNS (6 in the code)
          Specs,     \* vcpus, memory, name and bridge of a plan
          Batches,   \* the calls a reply may carry
          Other,     \* an input with no plan in it
          Garbled,   \* an input that is not JSON
          NoPlan

(***************************************************************************)
(* Plans and calls.  build_plan is defined on inputs that convert.         *)
(***************************************************************************)
PlanInput == [spec : Specs, disk : Disks \cup {Blank, NoneWord, NotSet}]
ExecutionPlan == [spec : Specs, disk : Disks \cup {NotSet}]
ToolCall == [name : {"provision_kvm_machine", "list_vms", "inspect_vm", "other"},
             input : PlanInput \cup {Other, Garbled}]

NormalizeOptional(v) == IF v \in {Blank, NoneWord} THEN NotSet ELSE v
BuildPlan(input) == [input EXCEPT !.disk = NormalizeOptional(@)]

Provisions(calls) ==
  {i \in DOMAIN calls : calls[i].name = "provision_kvm_machine"}
First(S) == CHOOSE i \in S : \A j \in S : i <= j
PlanCall(calls) == calls[First(Provisions(calls))]

ASSUME AgentAssumption ==
  /\ MaxTurns \in Nat \ {0}
  /\ Batches \subseteq Seq(ToolCall)
  /\ {Other, Garbled} \cap PlanInput = {} /\ NoPlan \notin ExecutionPlan
  /\ Refusal \notin [key : Nat \cup {NotSet}, provider : Providers, model : Models \cup {NotSet}]

(***************************************************************************)
(* parse_turn.  A response is an HTTP success with the expected outline,   *)
(* or not; Anthropic says with stop_reason whether it calls tools, OpenAI  *)
(* by sending calls, each with its input as a text to be parsed (from      *)
(* Anthropic, Garbled is one more input with no plan in it).               *)
(***************************************************************************)
Response == [ok : BOOLEAN, stop : {"tool_use", "end_turn"}, calls : Batches]
IsText(p, r) ==
  r.ok /\ IF p = "anthropic" THEN r.stop # "tool_use" ELSE r.calls = << >>
HasCalls(p, r) ==
  /\ r.ok /\ r.calls # << >>
  /\ IF p = "anthropic" THEN r.stop = "tool_use"
     ELSE \A i \in DOMAIN r.calls : r.calls[i].input # Garbled

(***************************************************************************)
(* Messages.  A call's id is its turn and its place.                       *)
(***************************************************************************)
Message(role, ids) == [role |-> role, ids |-> ids]
Intent == Message("user", << >>)
IdsOf(turn, calls) == [i \in DOMAIN calls |-> <<turn, i>>]

-----------------------------------------------------------------------------
VARIABLES
  at,        \* per session: where it is in ask_agent_reply
  settings,  \* per session: its ProviderSettings
  messages,  \* per session: the conversation so far
  turns,     \* per session: requests sent
  reply,     \* per session: the calls of the last response
  executed,  \* per session: how many of them have been executed
  plan       \* per session: the plan it returned

agentVars == <<at, settings, messages, turns, reply, executed, plan>>

SessionTo(s, where) == at' = [at EXCEPT ![s] = where]
Ended(s) == at[s] \in {"planned", "answered", "failed"}

Ask(s) ==
  /\ at[s] = "configured"
  /\ SessionTo(s, "ready")
  /\ messages' = [messages EXCEPT ![s] = << Intent >>]
  /\ UNCHANGED <<settings, turns, reply, executed, plan>>

\* send_turn: an OpenAI-compatible provider needs a model.
MutSend(s) ==
  /\ at[s] = "ready" /\ turns[s] <= MaxTurns
  /\ IF settings[s].provider = "openai" /\ settings[s].model = NotSet
     THEN SessionTo(s, "failed") /\ UNCHANGED turns
     ELSE SessionTo(s, "waiting") /\ turns' = [turns EXCEPT ![s] = @ + 1]
  /\ UNCHANGED <<settings, messages, reply, executed, plan>>

Send(s) ==
  /\ at[s] = "ready" /\ turns[s] < MaxTurns
  /\ IF settings[s].provider = "openai" /\ settings[s].model = NotSet
     THEN SessionTo(s, "failed") /\ UNCHANGED turns
     ELSE SessionTo(s, "waiting") /\ turns' = [turns EXCEPT ![s] = @ + 1]
  /\ UNCHANGED <<settings, messages, reply, executed, plan>>

\* The loop is over: "the agent exhausted its tool-call budget".
MutExhaust(s) ==
  /\ at[s] = "ready" /\ turns[s] > MaxTurns
  /\ SessionTo(s, "failed")
  /\ UNCHANGED <<settings, messages, turns, reply, executed, plan>>

Exhaust(s) ==
  /\ at[s] = "ready" /\ turns[s] = MaxTurns
  /\ SessionTo(s, "failed")
  /\ UNCHANGED <<settings, messages, turns, reply, executed, plan>>

\* A text, or a response that cannot be read, ends the session.
ReceiveEnd(s, r) ==
  /\ at[s] = "waiting" /\ ~ HasCalls(settings[s].provider, r)
  /\ SessionTo(s, IF IsText(settings[s].provider, r) THEN "answered" ELSE "failed")
  /\ UNCHANGED <<settings, messages, turns, reply, executed, plan>>

\* The first provision_kvm_machine call of a turn is final; the turn's other
\* calls are dropped.
ReceivePlan(s, r) ==
  /\ at[s] = "waiting" /\ HasCalls(settings[s].provider, r) /\ Provisions(r.calls) # {}
  /\ reply' = [reply EXCEPT ![s] = r.calls]
  /\ LET input == PlanCall(r.calls).input
     IN  \/ /\ input \in PlanInput
            /\ SessionTo(s, "planned")
            /\ plan' = [plan EXCEPT ![s] = BuildPlan(input)]
         \/ input \notin PlanInput /\ SessionTo(s, "failed") /\ UNCHANGED plan
  /\ UNCHANGED <<settings, messages, turns, executed>>

ReceiveTools(s, r) ==
  /\ at[s] = "waiting" /\ HasCalls(settings[s].provider, r) /\ Provisions(r.calls) = {}
  /\ reply' = [reply EXCEPT ![s] = r.calls]
  /\ messages' = [messages EXCEPT ![s] =
                    Append(@, Message("assistant", IdsOf(turns[s], r.calls)))]
  /\ SessionTo(s, "tools")
  /\ UNCHANGED <<settings, turns, executed, plan>>

(***************************************************************************)
(* append_tool_results executes the calls in order.  Anthropic is sent all *)
(* results in one user message, OpenAI one tool message for each.  What a  *)
(* result says is left out: execute_local_tool makes a text of any failure *)
(* (a ledger that does not load, an unknown tool, a name not found).       *)
(***************************************************************************)
MutWithResult(s, i) ==
  IF reply[s][i].name \in {"list_vms", "inspect_vm"}
  THEN Append(messages[s], Message(IF settings[s].provider = "openai" THEN "tool" ELSE "user",
                                   << <<turns[s], i>> >>))
  ELSE messages[s]

WithResult(s, i) ==
  LET ids == IdsOf(turns[s], reply[s])
  IN  IF settings[s].provider = "openai"
      THEN Append(messages[s], Message("tool", << ids[i] >>))
      ELSE IF i = Len(ids) THEN Append(messages[s], Message("user", ids))
      ELSE messages[s]

ExecuteTool(s) ==
  /\ at[s] = "tools"
  /\ LET i == executed[s] + 1 IN
       /\ messages' = [messages EXCEPT ![s] = WithResult(s, i)]
       /\ IF i = Len(reply[s])
          THEN SessionTo(s, "ready") /\ executed' = [executed EXCEPT ![s] = 0]
          ELSE executed' = [executed EXCEPT ![s] = i] /\ UNCHANGED at
  /\ UNCHANGED <<settings, turns, reply, plan>>

-----------------------------------------------------------------------------
AgentInit ==
  /\ at = [s \in Sessions |-> "off"]
  /\ settings = [s \in Sessions |-> Refusal]
  /\ messages = [s \in Sessions |-> << >>]
  /\ turns = [s \in Sessions |-> 0]
  /\ reply = [s \in Sessions |-> << >>]
  /\ executed = [s \in Sessions |-> 0]
  /\ plan = [s \in Sessions |-> NoPlan]

Receive(s) ==
  \E r \in Response : ReceiveEnd(s, r) \/ ReceivePlan(s, r) \/ ReceiveTools(s, r)

AgentStep(s) == Send(s) \/ Exhaust(s) \/ Receive(s) \/ ExecuteTool(s)

AgentTypeOK ==
  /\ at \in [Sessions -> {"off", "configured", "ready", "waiting", "tools",
                          "planned", "answered", "failed"}]
  /\ turns \in [Sessions -> 0..MaxTurns]
  /\ reply \in [Sessions -> Batches \cup {<< >>}]
  /\ plan \in [Sessions -> ExecutionPlan \cup {NoPlan}]
  /\ \A s \in Sessions : executed[s] <= Len(reply[s])

(***************************************************************************)
(* What a provider demands of a conversation: the intent first, and every  *)
(* call of an assistant turn answered, once and in order, before anything  *)
(* else is said.                                                           *)
(***************************************************************************)
AnsweredAt(p, m, i) ==
  LET ids == m[i].ids
      n   == IF p = "anthropic" THEN 1 ELSE Len(ids)
  IN  /\ i + n <= Len(m)
      /\ IF p = "anthropic" THEN m[i + 1].role = "user" /\ m[i + 1].ids = ids
         ELSE \A k \in 1..n : m[i + k].role = "tool" /\ m[i + k].ids = << ids[k] >>
      /\ i + n = Len(m) \/ m[i + n + 1].role = "assistant"

\* Every request carries a conversation the provider accepts, whichever tools
\* fail and whatever the model called before.
ConversationIsWellFormed ==
  \A s \in Sessions : at[s] = "waiting" =>
    LET m == messages[s] IN
      /\ m[1] = Intent
      /\ Len(m) > 1 => m[2].role = "assistant"
      /\ \A i \in DOMAIN m : m[i].role = "assistant" => AnsweredAt(settings[s].provider, m, i)

\* A model that calls tools for ever is cut off: as long as the provider
\* answers, every session ends.
AgentAnswers ==
  \A s \in Sessions : (at[s] = "ready") ~> Ended(s)
=============================================================================
