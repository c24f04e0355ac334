--------------------------- MODULE MCControlPlane ---------------------------
(***************************************************************************)
(* Instances of ControlPlane for TLC.  The plans are named for who applies *)
(* them: d1, d2, d3 by the daemon's workers, c1, c2 by the operator.       *)
(***************************************************************************)
EXTENDS ControlPlane

CONSTANTS x, y, d1, d2, d3, c1, c2

\* d1 and d2 are the same VM, so the daemon must run them one after the
\* other; the operator's c1 is another VM.
VmOfSupervised == [w \in Plans |-> IF w \in {d1, d2} THEN x ELSE y]

\* c1 applies a plan to the daemon's own VM: for the claims that do not hold
\* (README).
VmOfShared == [w \in Plans |-> IF w \in {d1, d2, c1} THEN x ELSE y]
=============================================================================
