------------------------------- MODULE Ledger -------------------------------
(***************************************************************************)
(* The VM ledger as its users are promised it: one list of records that    *)
(* Ledger::record, Ledger::forget and Ledger::set_state change one call at *)
(* a time.  It is the behaviour of a registry::Ledger value in memory, and *)
(* the abstract specification of the ledger file that several processes    *)
(* share (module ControlPlane).                                            *)
(***************************************************************************)
EXTENDS LedgerOps

VARIABLE records

Init == records = << >>

\* A plan is applied: the upsert of Ledger::record.
Record(n, p) == records' = RecordPlan(records, n, p)

\* `ai-vmm forget` and DELETE /v1/vms/:name.
Forget(n) == Has(records, n) /\ records' = ForgetName(records, n)

\* The lifecycle advances.  The library admits every state; the binary asks
\* for "Stopped" and "Failed" only.
Advance(n, st) ==
  CanSetState(records, n, st) /\ records' = SetState(records, n, st)

Next ==
  \E n \in Names :
     \/ \E p \in Plans : Record(n, p)
     \/ Forget(n)
     \/ \E st \in VmLifecycle : Advance(n, st)

Spec == Init /\ [][Next]_records

(***************************************************************************)
(* Properties.                                                             *)
(***************************************************************************)

\* The ledger is a list of records, and never longer than MAX_RECORDS
\* (registry.rs: "the on-disk file can never grow without bound").
TypeOK == records \in Ledgers /\ Len(records) <= MaxRecords

\* Ledger::record is an upsert: however the calls are mixed, a name has at
\* most one record.
NoDuplicateNames == UniqueNames(records)

\* A finished VM is never resurrected: a record in a terminal state keeps
\* that state for as long as it is the record of its name; only declaring
\* the VM again, which puts a new record last, brings the name back.
TerminalIsFinal ==
  [][\A i \in DOMAIN records, j \in DOMAIN records' :
       (/\ records[i].name = records'[j].name
        /\ records[i].state \in Terminal
        /\ records'[j].state # records[i].state)
       => (j = Len(records') /\ records'[j].state = "Booting")]_records

\* Records roll off only at the cap and only the oldest: a name that a call
\* removes was either forgotten, every other record untouched, or was the
\* oldest of a full ledger when a new name was declared.
OnlyOldestRollsOff ==
  [][\A n \in NamesOf(records) \ NamesOf(records') :
       \/ records' = Retain(records, n)
       \/ /\ n = records[1].name
          /\ Len(records) = MaxRecords
          /\ ~ Has(records, records'[Len(records')].name)]_records

\* Oldest first: the records a call leaves alone keep their order, and a
\* record that is declared again becomes the newest.
OrderKept ==
  [][\A i, j \in DOMAIN records, k, l \in DOMAIN records' :
       (/\ i < j /\ l < k
        /\ records[i].name = records'[k].name
        /\ records[j].name = records'[l].name)
       => k = Len(records') /\ records'[k].state = "Booting"]_records

=============================================================================
