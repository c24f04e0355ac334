------------------------------ MODULE MCHostTap ------------------------------
(***************************************************************************)
(* An instance of HostTap for TLC: p1 and p2 apply plans of one name, p3   *)
(* is alone with its TAP, p4 has no bridge.                                *)
(***************************************************************************)
EXTENDS HostTap

CONSTANTS p1, p2, p3, p4, t1, t2, br0

TapOfSome == [p \in Procs |-> IF p \in {p1, p2} THEN t1 ELSE t2]
BridgeOfAll == [p \in Procs |-> IF p = p4 THEN None ELSE br0]
=============================================================================
