\* A run, a worker, a login, and an operator who edits the file at any time.  The
\* session ends and the login is made once, so the system stops.
SPECIFICATION FairSpec
CONSTANTS
  l1 = l1
  small = small
  llama = llama
  bzImage = bzImage
  rootA = rootA
  rootB = rootB
  NotSet = NotSet
  Blank = Blank
  NoneWord = NoneWord
  Absent = Absent
  Malformed = Malformed
  Refusal = Refusal
  Other = Other
  Garbled = Garbled
  NoPlan = NoPlan
  NotApplied = NotApplied
  Logins = {l1}
  TypedKeys = {7, 20}
  FirstTexts <- SomeTexts
  Edits <- SomeEdits
  Envs <- SomeEnvs
  Models = {llama}
  Disks = {rootA, rootB}
  Kernels = {bzImage}
  LoginFaults = {"crash", "io"}
  Runs = {r1}
  Sessions = {r1}
  Workers = {w1}
  r1 = r1
  w1 = w1
  MaxTurns = 2
  Specs = {small}
  Batches <- SomeBatches
INVARIANTS TypeOK ConversationIsWellFormed AppliedAsReviewed SecretIsNeverOpen
PROPERTIES AgentAnswers LoginOnlyChangesTheKey
CHECK_DEADLOCK FALSE
