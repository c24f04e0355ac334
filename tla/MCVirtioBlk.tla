----------------------------- MODULE MCVirtioBlk -----------------------------
(***************************************************************************)
(* Instances of VirtioBlk for TLC: a disk of one block that holds Zero.    *)
(***************************************************************************)
EXTENDS VirtioBlk

CONSTANTS v1, v2

Request(t, s, v, b, c) ==
  [type |-> t, sector |-> s, value |-> v, buf |-> b, chain |-> c]

\* What a driver asks for: a read, and two writes of one block.
OrdinaryRequests ==
  { Request("in", 0, Nothing, "rw", "sound"),
    Request("out", 0, v1, "ro", "sound"),
    Request("out", 0, v2, "ro", "sound") }

\* Every type, a write that makes the image longer and a read behind it, a
\* read that is refused, a chain whose header the device cannot
\* read, a write whose status byte it cannot write.
AllRequests ==
  { Request("in", 1, Nothing, "rw", "sound"),
    Request("in", 0, Nothing, "ro", "sound"),
    Request("out", 1, v1, "ro", "sound"),
    Request("flush", 0, Nothing, "none", "sound"),
    Request("id", 0, Nothing, "rw", "sound"),
    Request("other", 0, Nothing, "none", "sound"),
    Request("in", 0, Nothing, "rw", "broken"),
    Request("out", 0, v1, "ro", "mute") }
=============================================================================
