----------------------------- MODULE LedgerFile -----------------------------
(***************************************************************************)
(* The ledger as a file: the ledger of module Ledger, of which a save that *)
(* dies or fails may leave only the beginning.  Nothing else is promised   *)
(* to go wrong: no record appears that was not declared, none comes twice, *)
(* none changes its place, and a finished VM is not brought back.          *)
(***************************************************************************)
EXTENDS Ledger

\* What is left of a ledger of which only a part was written: its first
\* records; the last of them may have lost the line of its state, which then
\* reads as the default of VmLifecycle, Stopped.
Beginning(s, t) ==
  \E k \in 0..Len(s) :
    \/ t = SubSeq(s, 1, k)
    \/ k > 0 /\ t = [SubSeq(s, 1, k) EXCEPT ![k].state = "Stopped"]

CutShort == Beginning(records, records')

FileNext == Next \/ CutShort

FileSpec == Init /\ [][FileNext]_records
=============================================================================
