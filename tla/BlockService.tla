---------------------------- MODULE BlockService ----------------------------
(***************************************************************************)
(* What a guest is promised of its disk: each request it submits is        *)
(* performed exactly once, in one step, some time between its submission   *)
(* and its completion, and the completion carries the outcome of that very *)
(* request.  Requests in flight together may be performed in any order.    *)
(* Only one whose completion has no room may be performed more than once.  *)
(* The abstract specification of the virtio block device (VirtioBlk).      *)
(***************************************************************************)
EXTENDS Naturals

CONSTANTS Heads,      \* the places for a request in flight
          Requests,   \* [type, sector, value, buf, chain]: see VirtioBlk
          NoRequest, NoReply, Nothing,
          Zero,       \* the content of a block never written
          DiskSize    \* blocks in the image at the start

VARIABLES disk,       \* the image: a function from sector numbers to contents
          req,        \* per place: the request in flight
          reply,      \* per place: its outcome, from performance to completion
          lossy       \* the guest has made no room for some of the completions

blockVars == <<disk, req, reply, lossy>>

Reply(st, data) == [status |-> st, data |-> data]

Written(d, s, v) ==
  [i \in DOMAIN d \cup 0..s |->
     IF i = s THEN v ELSE IF i \in DOMAIN d THEN d[i] ELSE Zero]

Succeeds(r, rep, d2) ==
  \/ /\ r.type = "in" /\ r.buf = "rw" /\ r.sector \in DOMAIN disk
     /\ rep = Reply("ok", disk[r.sector]) /\ d2 = disk
  \/ /\ r.type = "out" /\ r.buf \in {"ro", "rw"}
     /\ rep = Reply("ok", Nothing) /\ d2 = Written(disk, r.sector, r.value)
  \/ /\ r.type = "flush" /\ rep = Reply("ok", Nothing) /\ d2 = disk
  \/ /\ r.type = "id" /\ r.buf \in {"ro", "rw", "long"}
     /\ rep = Reply("ok", "id") /\ d2 = disk

\* A write that fails may have been done all the same.
Fails(r, rep, d2) ==
  \/ /\ r.type \in {"in", "out", "flush", "id"} /\ rep = Reply("ioerr", Nothing)
     /\ \/ d2 = disk
        \/ r.type = "out" /\ d2 = Written(disk, r.sector, r.value)
  \/ /\ r.type = "other" /\ rep = Reply("unsupp", Nothing) /\ d2 = disk

Submit(h, r) ==
  /\ req[h] = NoRequest
  /\ req' = [req EXCEPT ![h] = r]
  /\ UNCHANGED <<disk, reply, lossy>>

\* A request is performed again only when its completion could not be told.
Perform(h) ==
  /\ req[h] # NoRequest /\ (reply[h] = NoReply \/ lossy)
  /\ \E st \in {"ok", "ioerr", "unsupp"},
        data \in {disk[s] : s \in DOMAIN disk} \cup {Nothing, "id"} :
       reply' = [reply EXCEPT ![h] = Reply(st, data)]
  /\ Succeeds(req[h], reply'[h], disk') \/ Fails(req[h], reply'[h], disk')
  /\ UNCHANGED <<req, lossy>>

\* A request whose status byte the device cannot write is never completed; it
\* may be performed any number of times.
Attempt(h) ==
  /\ req[h] # NoRequest /\ req[h].chain = "mute"
  /\ \/ Succeeds(req[h], Reply("ok", Nothing), disk')
     \/ Fails(req[h], Reply("ioerr", Nothing), disk')
  /\ UNCHANGED <<req, reply, lossy>>

Complete(h) ==
  /\ reply[h] # NoReply
  /\ req' = [req EXCEPT ![h] = NoRequest]
  /\ reply' = [reply EXCEPT ![h] = NoReply]
  /\ UNCHANGED <<disk, lossy>>

\* The guest says where completions go, with no request in flight.
Place ==
  /\ \A h \in Heads : req[h] = NoRequest
  /\ lossy' \in BOOLEAN
  /\ UNCHANGED <<disk, req, reply>>

Init ==
  /\ disk = [s \in 0..(DiskSize - 1) |-> Zero]
  /\ req = [h \in Heads |-> NoRequest]
  /\ reply = [h \in Heads |-> NoReply] /\ lossy = FALSE

Next ==
  \/ \E h \in Heads :
       \/ \E r \in Requests : Submit(h, r)
       \/ Perform(h) \/ Attempt(h) \/ Complete(h)
  \/ Place

Spec == Init /\ [][Next]_blockVars
=============================================================================
