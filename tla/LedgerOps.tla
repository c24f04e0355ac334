------------------------------ MODULE LedgerOps ------------------------------
(***************************************************************************)
(* The in-memory operations of registry::Ledger: an ordered list of VM     *)
(* records, oldest first.  A record keeps the VM's name, its lifecycle     *)
(* state and the plan it was made from; the plan stands for every other    *)
(* field of VmRecord (vcpus, memory_mb, network_bridge, disk_image_path,   *)
(* applied_at), which no operation of the ledger looks at.                 *)
(*                                                                         *)
(* MaxRecords is the constant MAX_RECORDS (64 in the code).                *)
(***************************************************************************)
EXTENDS Naturals, Sequences, FiniteSets

CONSTANTS Names,      \* VM names
          Plans,      \* execution plans, as applied
          MaxRecords  \* the ledger's cap

ASSUME MaxRecordsAssumption == MaxRecords \in Nat \ {0}

(***************************************************************************)
(* VmLifecycle.                                                            *)
(***************************************************************************)
VmLifecycle == {"Booting", "Running", "Stopped", "Failed"}
Terminal == {"Stopped", "Failed"}

MutCanTransitionTo(from, to) ==
  \/ from = "Booting" /\ to \in {"Running", "Stopped", "Failed"}
  \/ from \in {"Running", "Stopped"} /\ to \in {"Stopped", "Failed"}

CanTransitionTo(from, to) ==
  \/ from = "Booting" /\ to \in {"Running", "Stopped", "Failed"}
  \/ from = "Running" /\ to \in {"Stopped", "Failed"}

(***************************************************************************)
(* Records and ledgers.                                                    *)
(***************************************************************************)
VmRecord == [name : Names, state : VmLifecycle, plan : Plans]
FromPlan(n, p) == [name |-> n, state |-> "Booting", plan |-> p]

Ledgers == Seq(VmRecord)
NamesOf(s) == {s[i].name : i \in DOMAIN s}
Has(s, n) == \E i \in DOMAIN s : s[i].name = n

\* The increasing enumeration of a finite set of indices.
Increasing(f, m) == \A i, j \in 1..m : i < j => f[i] < f[j]
Enumerates(f, K) ==
  /\ f \in [1..Cardinality(K) -> K]
  /\ Increasing(f, Cardinality(K))
  /\ \A k \in K : \E i \in 1..Cardinality(K) : f[i] = k
Enumeration(K) ==
  CHOOSE f \in [1..Cardinality(K) -> K] : Enumerates(f, K)

(***************************************************************************)
(* Vec::retain(|r| r.vm_name != n): what is left is the records of other   *)
(* names, in their order.  (Not SelectSeq: a recursive definition is one   *)
(* the proofs of LedgerProofs could not reason about.)                     *)
(***************************************************************************)
Kept(s, n) == {i \in DOMAIN s : s[i].name # n}
Retain(s, n) ==
  LET K == Kept(s, n)
      f == Enumeration(K)
  IN  [i \in 1..Cardinality(K) |-> s[f[i]]]

\* The number of leading records to drop before one more is appended:
\* old_len.saturating_sub(MAX_RECORDS - 1).
MutFirstKeptIndex(len) ==
  IF len > MaxRecords THEN len - MaxRecords ELSE 0

FirstKeptIndex(len) ==
  IF len > MaxRecords - 1 THEN len - (MaxRecords - 1) ELSE 0

\* Ledger::record.
MutRecordPlan(s, n, p) ==
  LET capped == SubSeq(s, FirstKeptIndex(Len(s)) + 1, Len(s))
  IN  Append(Retain(capped, n), FromPlan(n, p))

MutRecordNoRetain(s, n, p) ==
  Append(SubSeq(s, FirstKeptIndex(Len(s)) + 1, Len(s)), FromPlan(n, p))

MutRecordAtFront(s, n, p) ==
  LET others == Retain(s, n)
  IN  << FromPlan(n, p) >>
        \o SubSeq(others, FirstKeptIndex(Len(others)) + 1, Len(others))

RecordPlan(s, n, p) ==
  LET others == Retain(s, n)
  IN  Append(SubSeq(others, FirstKeptIndex(Len(others)) + 1, Len(others)),
             FromPlan(n, p))

\* Ledger::forget removes every record of the name; it reports Has(s, n).
ForgetName(s, n) == Retain(s, n)

\* Ledger::set_state changes the first record of the name, when the
\* transition is one the lifecycle admits; otherwise it reports false.
IsFirst(s, n, i) ==
  i \in DOMAIN s /\ s[i].name = n /\ \A j \in 1..(i - 1) : s[j].name # n

CanSetState(s, n, st) ==
  \E i \in DOMAIN s : IsFirst(s, n, i) /\ CanTransitionTo(s[i].state, st)

MutSetState(s, n, st) ==
  [i \in DOMAIN s |-> IF i = 1 THEN [s[i] EXCEPT !.state = st] ELSE s[i]]

SetState(s, n, st) ==
  [i \in DOMAIN s |->
     IF IsFirst(s, n, i) THEN [s[i] EXCEPT !.state = st] ELSE s[i]]

(***************************************************************************)
(* No two records of a ledger have the same name.                          *)
(***************************************************************************)
UniqueNames(s) == \A i, j \in DOMAIN s : s[i].name = s[j].name => i = j

=============================================================================
