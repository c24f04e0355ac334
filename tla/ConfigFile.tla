----------------------------- MODULE ConfigFile -----------------------------
(***************************************************************************)
(* credentials.toml: the stored API key and the settings beside it, what   *)
(* the readers of config.rs make of the file and the environment, and the  *)
(* steps of `ai-vmm auth login` (save_api_key), which loads the file,      *)
(* truncates it and writes it back with no lock.                           *)
(*                                                                         *)
(* A key stands for its trimmed length, which is all the code looks at.    *)
(* A base URL is read and stored as the model is, and is left out.         *)
(***************************************************************************)
EXTENDS Naturals, Sequences

CONSTANTS Logins,      \* `ai-vmm auth login` processes
          TypedKeys,   \* the keys typed into them
          FirstTexts,  \* what the file may hold at first
          Edits,       \* what the operator may write into it by hand
          Envs,        \* environments of the processes
          Models, Disks, Kernels,
          NotSet,      \* no value: None, or an unset variable
          Blank,       \* an empty or white value
          NoneWord,    \* the word none, in any case
          Absent,      \* no such file
          Malformed,   \* a text that does not parse
          Refusal,     \* settings that could not be loaded
          LoginFaults  \* of {"crash", "io", "read"}

\* validate_key_len
MinKeyLen == 8
MaxKeyLen == 8192
KeyIsValid(k) == MinKeyLen <= k /\ k <= MaxKeyLen

Providers == {"anthropic", "openai"}

(***************************************************************************)
(* The fields of Config, in the order in which they are written.  An empty *)
(* text reads as the default of each field.                                *)
(***************************************************************************)
Fields == << "key", "provider", "model", "kernel", "disk" >>
Default == [key |-> NotSet, provider |-> "anthropic", model |-> NotSet,
            kernel |-> NotSet, disk |-> NotSet]
Configs ==
  [key : Nat \cup {NotSet}, provider : Providers, model : Models \cup {NotSet},
   kernel : Kernels \cup {Blank, NotSet},
   disk : Disks \cup {Blank, NoneWord, NotSet}]
Texts == Configs \cup {Absent, Malformed}
Keyless(c) == [c EXCEPT !.key = NotSet]

\* What the variables config.rs reads may hold; "other" stands for any word that is no provider.
Environments ==
  [key : Nat \cup {Blank, NotSet}, provider : Providers \cup {"other", Blank, NotSet},
   model : Models \cup {Blank, NotSet}, kernel : Kernels \cup {Blank, NotSet},
   disk : Disks \cup {Blank, NoneWord, NotSet}]

ASSUME ConfigAssumption ==
  /\ FirstTexts \subseteq Texts /\ Edits \subseteq Configs /\ Envs \subseteq Environments
  /\ TypedKeys \subseteq Nat
  /\ LoginFaults \subseteq {"crash", "io", "read"}
  /\ NotSet \notin Models \cup Kernels \cup Disks \cup {Blank, NoneWord}
  /\ {Blank, NoneWord} \cap Disks = {} /\ Blank \notin Kernels
  /\ {Absent, Malformed} \cap Configs = {}
ASSUME NewKeysAssumption ==
  \A t \in (FirstTexts \cup Edits) \ {Absent, Malformed} : t.key \notin TypedKeys

(***************************************************************************)
(* load_config is an error on a text that does not parse; its callers turn *)
(* the error into the default, other than load_provider_settings, which    *)
(* fails.                                                                  *)
(***************************************************************************)
LoadConfigOrDefault(t) == IF t \in {Absent, Malformed} THEN Default ELSE t

OrElse(a, b) == IF a # NotSet THEN a ELSE b
NonemptyEnvValue(v) == IF v = Blank THEN NotSet ELSE v

\* load_provider_settings: the file, overlaid with the environment.
Overlaid(t, env) ==
  LET stored == LoadConfigOrDefault(t)
      Field(f) == OrElse(NonemptyEnvValue(env[f]), stored[f])
  IN  [key |-> Field("key"), provider |-> Field("provider"), model |-> Field("model")]
LoadProviderSettings(t, env) ==
  LET s == Overlaid(t, env)
  IN  IF \/ t = Malformed
         \/ s.provider \notin Providers
         \/ s.key # NotSet /\ ~ KeyIsValid(s.key)
         \/ s.provider = "anthropic" /\ s.key = NotSet
      THEN Refusal ELSE s

ResolveKernelPath(t, env) ==
  OrElse(NonemptyEnvValue(env.kernel),
         OrElse(LoadConfigOrDefault(t).kernel, "./vmlinux"))

CleanExplicitDisk(d) == IF d \in {Blank, NoneWord} THEN NotSet ELSE d
ResolveDiskPath(explicit, t, env) ==
  OrElse(CleanExplicitDisk(explicit),
         OrElse(NonemptyEnvValue(env.disk), LoadConfigOrDefault(t).disk))

-----------------------------------------------------------------------------
VARIABLES
  text,      \* what credentials.toml holds
  dirOpen,   \* TRUE while others may enter its directory
  fileOpen,  \* TRUE while the mode of the file lets others read it
  login,     \* per login: where it is in save_api_key
  toWrite,   \* per login: its key, later the whole Config it is to write
  found,     \* per login: history, the settings in the file when it started
  alone      \* per login: history, no other writer came between its steps

fileVars == <<text, dirOpen, fileOpen>>
loginVars == <<login, toWrite, found, alone>>
configVars == <<fileVars, loginVars>>

LoginStages == {"idle", "chmodDir", "load", "open", "write", "chmod",
                "stored", "failed", "died"}
Saving(l) == login[l] \in {"chmodDir", "load", "open", "write", "chmod"}
LoginTo(l, where) == login' = [login EXCEPT ![l] = where]

\* The end of a login's process, and with it of what it had in memory.
LoginEnds(l, how) ==
  /\ LoginTo(l, how)
  /\ toWrite' = [toWrite EXCEPT ![l] = Default]
  /\ found' = [found EXCEPT ![l] = Default]
  /\ alone' = [alone EXCEPT ![l] = FALSE]

\* Any system call of a login may fail; its error is returned at once.
LoginFails(l) == "io" \in LoginFaults /\ LoginEnds(l, "failed") /\ UNCHANGED fileVars

\* check_key, and create_dir_all, which leaves an existing directory as it is.
LoginStart(l) ==
  /\ login[l] = "idle"
  /\ \E k \in TypedKeys :
       \/ /\ KeyIsValid(k)
          /\ LoginTo(l, "chmodDir")
          /\ toWrite' = [toWrite EXCEPT ![l].key = k]
          /\ found' = [found EXCEPT ![l] = Keyless(LoadConfigOrDefault(text))]
          /\ alone' = [m \in Logins |-> IF m = l THEN ~ \E n \in Logins : Saving(n)
                                        ELSE alone[m] /\ ~ Saving(m)]
       \/ ~ KeyIsValid(k) /\ LoginEnds(l, "failed")
  /\ UNCHANGED fileVars

LoginOn(l, where) == LoginTo(l, where) /\ UNCHANGED <<toWrite, found, alone>>

MutLoginChmodDir(l) ==
  /\ login[l] = "chmodDir"
  /\ LoginOn(l, "load") /\ UNCHANGED fileVars

LoginChmodDir(l) ==
  /\ login[l] = "chmodDir"
  /\ \/ LoginOn(l, "load") /\ dirOpen' = FALSE /\ UNCHANGED <<text, fileOpen>>
     \/ LoginFails(l)

\* load_config().unwrap_or_default(): a read that fails gives the default too.
LoadedConfigs ==
  {LoadConfigOrDefault(text)} \cup (IF "read" \in LoginFaults THEN {Default} ELSE {})
LoginLoad(l) ==
  /\ login[l] = "load"
  /\ \E c \in LoadedConfigs :
       toWrite' = [toWrite EXCEPT ![l] = [c EXCEPT !.key = toWrite[l].key]]
  /\ LoginTo(l, "open")
  /\ UNCHANGED <<fileVars, found, alone>>

\* OpenOptions: write, create, truncate; the mode is for a file it creates.
MutLoginOpen(l) ==
  /\ login[l] = "open"
  /\ \/ /\ text' = IF text = Absent THEN Default ELSE text
        /\ fileOpen' = (fileOpen /\ text # Absent)
        /\ LoginOn(l, "write") /\ UNCHANGED dirOpen
     \/ LoginFails(l)

LoginOpen(l) ==
  /\ login[l] = "open"
  /\ \/ /\ text' = Default
        /\ fileOpen' = (fileOpen /\ text # Absent)
        /\ LoginOn(l, "write") /\ UNCHANGED dirOpen
     \/ LoginFails(l)

(***************************************************************************)
(* write_all.  A text written over a longer one, which another writer has  *)
(* put there since the truncation, leaves the end of that one: whole lines *)
(* that set further fields, or something that does not parse.  A write     *)
(* that fails leaves the first lines, or a line that does not parse.       *)
(***************************************************************************)
From(k) == {Fields[i] : i \in k..Len(Fields)}
Overwrites(new, old) ==
  {Malformed} \cup
  {[f \in DOMAIN new |-> IF f \in From(k) THEN OrElse(new[f], old[f]) ELSE new[f]] :
     k \in {j \in 3..Len(Fields) :
              \A f \in From(j) : new[f] = NotSet \/ old[f] = NotSet}}
Cuts(new) ==
  {Malformed} \cup
  {[f \in DOMAIN new |-> IF f \in From(k) THEN Default[f] ELSE new[f]] :
     k \in 1..Len(Fields)}

LoginWrite(l) ==
  /\ login[l] = "write"
  /\ \/ text' = toWrite[l] /\ LoginOn(l, "chmod")
     \/ /\ text # Default
        /\ text' \in Overwrites(toWrite[l], LoadConfigOrDefault(text))
        /\ LoginOn(l, "chmod")
     \/ /\ "io" \in LoginFaults
        /\ text' \in Cuts(toWrite[l]) /\ LoginEnds(l, "failed")
  /\ UNCHANGED <<dirOpen, fileOpen>>

LoginChmodFile(l) ==
  /\ login[l] = "chmod"
  /\ \/ LoginEnds(l, "stored") /\ fileOpen' = FALSE /\ UNCHANGED <<text, dirOpen>>
     \/ LoginFails(l)

LoginCrash(l) ==
  /\ "crash" \in LoginFaults /\ Saving(l)
  /\ LoginEnds(l, "died")
  /\ UNCHANGED fileVars

\* The operator edits the file.
Edit(t) ==
  /\ text' = t /\ t # text
  /\ alone' = [l \in Logins |-> alone[l] /\ ~ Saving(l)]
  /\ UNCHANGED <<dirOpen, fileOpen, login, toWrite, found>>

-----------------------------------------------------------------------------
ConfigInit ==
  /\ text \in FirstTexts
  /\ dirOpen = TRUE /\ fileOpen = TRUE
  /\ login = [l \in Logins |-> "idle"]
  /\ toWrite = [l \in Logins |-> Default]
  /\ found = [l \in Logins |-> Default]
  /\ alone = [l \in Logins |-> FALSE]

LoginStep(l) ==
  \/ LoginStart(l) \/ LoginChmodDir(l) \/ LoginLoad(l)
  \/ LoginOpen(l) \/ LoginWrite(l) \/ LoginChmodFile(l) \/ LoginCrash(l)

ConfigNext ==
  \/ \E l \in Logins : LoginStep(l)
  \/ \E t \in Edits : Edit(t)

ConfigTypeOK ==
  /\ text \in Texts
  /\ dirOpen \in BOOLEAN /\ fileOpen \in BOOLEAN
  /\ login \in [Logins -> LoginStages]
  /\ toWrite \in [Logins -> Configs] /\ found \in [Logins -> Configs]
  /\ alone \in [Logins -> BOOLEAN]

\* A login whose steps no other writer came between, and which reports
\* success, has replaced the key and nothing else ("only the key is updated"),
\* whatever the file held before, a text that did not parse included, and has
\* left a file that only its owner can read.
LoginOnlyChangesTheKey ==
  [][\A l \in Logins :
       (alone[l] /\ login[l] # "stored" /\ login'[l] = "stored") =>
         /\ text' = [found[l] EXCEPT !.key = toWrite[l].key]
         /\ ~ dirOpen' /\ ~ fileOpen']_configVars

\* The key a login stores is never readable by others, even briefly, even in
\* a file that was there before with a looser mode, and however the login ends.
SecretIsNeverOpen ==
  (text \in Configs /\ text.key \in TypedKeys) => ~ (dirOpen /\ fileOpen)
=============================================================================
