------------------------------ MODULE VirtioBlk ------------------------------
(***************************************************************************)
(* The virtio-mmio block device and the split virtqueue it shares with the *)
(* guest's driver.  The device works inside the MMIO bus mutex, on the     *)
(* vCPU thread that wrote to QueueNotify; the other vCPUs run on, and read *)
(* and write the same guest memory, step by step.                          *)
(*                                                                         *)
(* A request is known by its head, the index of its first descriptor.  Its *)
(* fields: type (the request type), sector, value (what a write writes),   *)
(* buf (the data descriptor: "none"; "ro" or "rw" to the device; "long",   *)
(* above MAX_REQUEST_BYTES; "outside" guest memory) and chain ("sound";    *)
(* "broken", process_request cannot read it; "mute", its status byte is    *)
(* outside guest memory).  A block of the disk stands for the sectors of   *)
(* one request.                                                            *)
(*                                                                         *)
(* The driver is external: it submits, notifies, and on an interrupt reads *)
(* and acknowledges InterruptStatus and takes what the used ring holds.    *)
(***************************************************************************)
EXTENDS Naturals, FiniteSets

CONSTANTS Heads,
          Requests,     \* the requests the guest may make
          NoRequest, NoReply, Nothing, Zero,
          QueueSize,    \* what the driver wrote to QueueNum
          IndexWrap,    \* 2^16: ring indices are u16
          SectorWrap,   \* 2^55: sector * 512 is a u64
          DiskSize,     \* blocks in the image when it is opened
          DiskFails,    \* TRUE: host I/O on the image may fail
          Outside       \* the slots of an ill-placed used ring outside guest memory

ASSUME RingAssumption ==
  /\ QueueSize \in Nat \ {0} /\ IndexWrap \in Nat /\ QueueSize < IndexWrap
  /\ IndexWrap % QueueSize = 0
  /\ Heads \subseteq Nat /\ 0 \in Heads
  /\ IsFiniteSet(Heads) /\ Cardinality(Heads) <= QueueSize
  /\ Outside \subseteq 0..(QueueSize - 1)
ASSUME DiskAssumption ==
  /\ SectorWrap \in Nat \ {0} /\ DiskSize \in Nat
  /\ DiskFails \in BOOLEAN
ASSUME RequestAssumption ==
  /\ \A r \in Requests :
       /\ r.type \in {"in", "out", "flush", "id", "other"} /\ r.sector \in Nat
       /\ r.buf \in {"none", "ro", "rw", "long", "outside"}
       /\ r.chain \in {"sound", "broken", "mute"}
  /\ NoRequest \notin Requests

VARIABLES
  disk,       \* the image
  \* Guest memory.
  chain,      \* per head: the request in its descriptors, while in flight
  buffer,     \* per head: the data buffer
  status,     \* per head: the status byte, "unset" until the device writes it
  availRing, availIdx,
  usedRing, usedIdx,
  \* The device.
  ready,      \* QueueReady, with the rings' addresses and QueueNum written
  outside,    \* the slots of the used ring outside guest memory, as the driver put it
  at,         \* where process_virtqueue is, "idle" when the bus is free
  snap,       \* the avail idx it read
  head, outcome, \* the request in hand and what service_request returned
  lastAvail,  \* last_avail_idx
  nextUsed,   \* used_idx
  isr,        \* interrupt_status, bit 0
  irq,        \* IRQ 5 is pending in the interrupt chip
  \* The driver.
  kicks,      \* heads published and not yet notified
  handler,    \* where its interrupt handler is
  lastSeen    \* the next used entry it takes

guestMemory == <<chain, buffer, status, availRing, availIdx, usedRing, usedIdx>>
inHand == <<snap, head, outcome>>
cursors == <<lastAvail, nextUsed>>
queue == <<ready, outside>>
device == <<queue, at, inHand, cursors, isr, irq>>
driver == <<kicks, handler, lastSeen>>
vars == <<disk, guestMemory, device, driver>>

\* ring_slot, and the wrapping_add(1) of a ring index.
Slot(i) == i % QueueSize
MutSucc(i) == i + 1
Succ(i) == (i + 1) % IndexWrap

Reply(st, data) == [status |-> st, data |-> data]
ZeroRing == [s \in 0..(QueueSize - 1) |-> 0]

Init ==
  /\ disk = [s \in 0..(DiskSize - 1) |-> Zero]
  /\ chain = [h \in Heads |-> NoRequest]
  /\ buffer = [h \in Heads |-> Nothing] /\ status = [h \in Heads |-> "unset"]
  /\ availRing = ZeroRing /\ availIdx = 0 /\ usedRing = ZeroRing /\ usedIdx = 0
  /\ ready = FALSE /\ outside = {} /\ at = "idle"
  /\ snap = 0 /\ head = 0 /\ outcome = NoReply
  /\ lastAvail = 0 /\ nextUsed = 0 /\ isr = 0 /\ irq = FALSE
  /\ kicks = {} /\ handler = "none" /\ lastSeen = 0

(***************************************************************************)
(* The driver.                                                             *)
(***************************************************************************)

\* The queue registers are written, QueueReady last.
Setup ==
  /\ ~ ready /\ at = "idle" /\ ready' = TRUE
  /\ outside' \in {{}, Outside}
  /\ UNCHANGED <<disk, guestMemory, at, inHand, cursors, isr, irq, driver>>

Submit(h, r) ==
  /\ ready /\ chain[h] = NoRequest
  /\ chain' = [chain EXCEPT ![h] = r]
  /\ buffer' = [buffer EXCEPT ![h] = r.value]
  /\ status' = [status EXCEPT ![h] = "unset"]
  /\ availRing' = [availRing EXCEPT ![Slot(availIdx)] = h]
  /\ availIdx' = Succ(availIdx)
  /\ kicks' = kicks \cup {h}
  /\ UNCHANGED <<disk, usedRing, usedIdx, device, handler, lastSeen>>

TakeIrq ==
  /\ irq /\ handler = "none"
  /\ irq' = FALSE /\ handler' = "status"
  /\ UNCHANGED <<disk, guestMemory, queue, at, inHand, cursors, isr,
                 kicks, lastSeen>>

\* A used entry is taken: the request is over, its head free again.
Collect ==
  /\ handler = "drain" /\ lastSeen # usedIdx
  /\ LET h == usedRing[Slot(lastSeen)]
     IN  /\ chain' = [chain EXCEPT ![h] = NoRequest]
         /\ buffer' = [buffer EXCEPT ![h] = Nothing]
         /\ status' = [status EXCEPT ![h] = "unset"]
  /\ lastSeen' = Succ(lastSeen)
  /\ UNCHANGED <<disk, availRing, availIdx, usedRing, usedIdx, device, kicks, handler>>

Drained ==
  /\ handler = "drain" /\ lastSeen = usedIdx
  /\ handler' = "none"
  /\ UNCHANGED <<disk, guestMemory, device, kicks, lastSeen>>

(***************************************************************************)
(* Registers.  Each access holds the bus mutex.  0 to Status, and 0 to     *)
(* QueueReady, are stored: no index goes back to 0 with the driver's.      *)
(***************************************************************************)
ReadInterruptStatus ==
  /\ handler = "status" /\ at = "idle"
  /\ handler' = IF isr = 0 THEN "none" ELSE "ack"
  /\ UNCHANGED <<disk, guestMemory, device, kicks, lastSeen>>

AckInterrupt ==
  /\ handler = "ack" /\ at = "idle"
  /\ isr' = 0 /\ handler' = "drain"
  /\ UNCHANGED <<disk, guestMemory, queue, at, inHand, cursors, irq,
                 kicks, lastSeen>>

Quiescent == at = "idle" /\ kicks = {} /\ handler = "none"
             /\ \A h \in Heads : chain[h] = NoRequest

\* The driver starts over: 0 to Status and QueueReady, new rings.  It does so
\* when it probes the device, and only with its index at 0 may it: the device
\* keeps its own where they are.
Reset ==
  /\ ready /\ Quiescent /\ availIdx = 0
  /\ ready' = FALSE
  /\ availRing' = ZeroRing /\ usedRing' = ZeroRing
  /\ UNCHANGED <<disk, chain, buffer, status, availIdx, usedIdx, outside, at, inHand,
                 cursors, isr, irq, driver>>

(***************************************************************************)
(* process_virtqueue, on a write to QueueNotify.                           *)
(***************************************************************************)
Notify(h) ==
  /\ at = "idle" /\ h \in kicks
  /\ kicks' = kicks \ {h}
  /\ IF ready THEN at' = "loop" /\ snap' = availIdx ELSE UNCHANGED <<at, snap>>
  /\ UNCHANGED <<disk, guestMemory, queue, head, outcome, cursors, isr, irq,
                 handler, lastSeen>>

\* The call returns; its locals are gone.
GiveUp == at' = "idle" /\ snap' = 0 /\ head' = 0 /\ outcome' = NoReply

MutFetch ==
  /\ at = "loop"
  /\ IF lastAvail = snap
     THEN GiveUp
     ELSE /\ at' = "serve" /\ head' = availRing[Slot(snap)]
          /\ UNCHANGED <<snap, outcome>>
  /\ UNCHANGED <<disk, guestMemory, queue, cursors, isr, irq, driver>>

Fetch ==
  /\ at = "loop"
  /\ IF lastAvail = snap
     THEN GiveUp
     ELSE /\ at' = "serve" /\ head' = availRing[Slot(lastAvail)]
          /\ UNCHANGED <<snap, outcome>>
  /\ UNCHANGED <<disk, guestMemory, queue, cursors, isr, irq, driver>>

(***************************************************************************)
(* service_request.  Every outcome is a status byte; a write past the end  *)
(* makes the image longer; a write that fails may have been done.          *)
(***************************************************************************)
FileOffset(sector) == sector % SectorWrap

WriteAllAt(d, off, v) ==
  [i \in DOMAIN d \cup 0..off |->
     IF i = off THEN v ELSE IF i \in DOMAIN d THEN d[i] ELSE Zero]

\* Its result, the buffer and the image afterwards.
Served(st, data, d) == [reply |-> Reply(st, data), disk |-> d]
IoErr == Served("ioerr", Nothing, disk)

ServeIn(r) ==
  LET off == FileOffset(r.sector)
  IN  IF r.buf # "rw" \/ off \notin DOMAIN disk THEN {IoErr}
      ELSE {Served("ok", disk[off], disk)} \cup (IF DiskFails THEN {IoErr} ELSE {})

ServeOut(r, v) ==
  LET new == WriteAllAt(disk, FileOffset(r.sector), v)
  IN  IF r.buf \notin {"ro", "rw"} THEN {IoErr}
      ELSE {Served("ok", Nothing, new)}
           \cup (IF DiskFails THEN {IoErr, Served("ioerr", Nothing, new)} ELSE {})

ServeFlush ==
  {Served("ok", Nothing, disk)} \cup (IF DiskFails THEN {IoErr} ELSE {})

ServeId(r) ==
  IF r.buf \in {"none", "outside"} THEN {IoErr} ELSE {Served("ok", "id", disk)}

MutServiceRequest(r, v) ==
  CASE r.type = "in"    -> ServeIn(r)
    [] r.type = "out"   -> {Served(s.reply.status, Nothing, disk) : s \in ServeOut(r, v)}
    [] r.type = "flush" -> ServeFlush
    [] r.type = "id"    -> ServeId(r)
    [] OTHER            -> {Served("unsupp", Nothing, disk)}

ServiceRequest(r, v) ==
  CASE r.type = "in"    -> ServeIn(r)
    [] r.type = "out"   -> ServeOut(r, v)
    [] r.type = "flush" -> ServeFlush
    [] r.type = "id"    -> ServeId(r)
    [] OTHER            -> {Served("unsupp", Nothing, disk)}

(***************************************************************************)
(* process_request.  An error leaves last_avail_idx where it is and ends   *)
(* the call: the next notification meets the same request again.           *)
(***************************************************************************)
\* What the device finds in the descriptors of a head: the request in flight;
\* when there is none, zeros or any request of before.
Found(h) ==
  IF chain[h] # NoRequest THEN {chain[h]} ELSE Requests \cup {[chain |-> "broken"]}

Serve ==
  /\ at = "serve"
  /\ \E r \in Found(head) :
       \/ /\ r.chain = "broken"
          /\ GiveUp /\ UNCHANGED <<disk, buffer>>
       \/ /\ r.chain # "broken"
          /\ \E s \in ServiceRequest(r, IF r = chain[head] THEN buffer[head] ELSE r.value) :
               /\ disk' = s.disk /\ outcome' = s.reply
               /\ buffer' = [buffer EXCEPT ![head] =
                               IF s.reply.status = "ok" /\ r.type \in {"in", "id"}
                               THEN s.reply.data ELSE @]
          /\ at' = IF r.chain = "mute" THEN "mute" ELSE "status"
          /\ UNCHANGED <<snap, head>>
  /\ UNCHANGED <<chain, status, availRing, availIdx, usedRing, usedIdx,
                 queue, cursors, isr, irq, driver>>

WriteStatus ==
  /\ at = "status" /\ at' = "used"
  /\ status' = [status EXCEPT ![head] = outcome.status]
  /\ UNCHANGED <<disk, chain, buffer, availRing, availIdx, usedRing, usedIdx,
                 queue, inHand, cursors, isr, irq, driver>>

StatusFails ==
  /\ at = "mute" /\ GiveUp
  /\ UNCHANGED <<disk, guestMemory, queue, cursors, isr, irq, driver>>

\* The element is outside guest memory.  The device keeps both cursors: the
\* request has its status and no completion, and is served again.
UsedFails ==
  /\ at = "used" /\ Slot(nextUsed) \in outside /\ GiveUp
  /\ UNCHANGED <<disk, guestMemory, queue, cursors, isr, irq, driver>>

\* The used index lies below the elements and interrupt_evt is drained by the
\* kernel: after the element, no write of process_request fails.
MutPublishEarly ==
  /\ at = "used" /\ Slot(nextUsed) \notin outside
  /\ usedIdx' = Succ(nextUsed)
  /\ nextUsed' = Succ(nextUsed)
  /\ at' = "publish"
  /\ UNCHANGED <<disk, chain, buffer, status, availRing, availIdx, usedRing,
                 queue, inHand, lastAvail, isr, irq, driver>>

WriteUsed ==
  /\ at = "used" /\ Slot(nextUsed) \notin outside
  /\ usedRing' = [usedRing EXCEPT ![Slot(nextUsed)] = head]
  /\ nextUsed' = Succ(nextUsed)
  /\ at' = "publish"
  /\ UNCHANGED <<disk, chain, buffer, status, availRing, availIdx, usedIdx,
                 queue, inHand, lastAvail, isr, irq, driver>>

Publish ==
  /\ at = "publish"
  /\ usedIdx' = nextUsed
  /\ at' = "signal" /\ outcome' = NoReply
  /\ UNCHANGED <<disk, chain, buffer, status, availRing, availIdx, usedRing,
                 queue, snap, head, cursors, isr, irq, driver>>

MutSignalSkips ==
  /\ at = "signal"
  /\ isr' = 1 /\ irq' = TRUE
  /\ lastAvail' = snap /\ at' = "loop" /\ head' = 0
  /\ UNCHANGED <<disk, guestMemory, queue, snap, outcome, nextUsed, driver>>

MutSignalNoBit ==
  /\ at = "signal"
  /\ isr' = isr /\ irq' = TRUE
  /\ lastAvail' = Succ(lastAvail) /\ at' = "loop" /\ head' = 0
  /\ UNCHANGED <<disk, guestMemory, queue, snap, outcome, nextUsed, driver>>

Signal ==
  /\ at = "signal"
  /\ isr' = 1 /\ irq' = TRUE
  /\ lastAvail' = Succ(lastAvail) /\ at' = "loop" /\ head' = 0
  /\ UNCHANGED <<disk, guestMemory, queue, snap, outcome, nextUsed, driver>>

-----------------------------------------------------------------------------
DeviceStep == Fetch \/ Serve \/ WriteStatus \/ StatusFails
              \/ WriteUsed \/ UsedFails \/ Publish \/ Signal
HandlerStep == TakeIrq \/ ReadInterruptStatus \/ AckInterrupt \/ Collect \/ Drained

Next ==
  \/ Setup \/ Reset
  \/ \E h \in Heads : (\E r \in Requests : Submit(h, r)) \/ Notify(h)
  \/ DeviceStep \/ HandlerStep

Spec == Init /\ [][Next]_vars

(***************************************************************************)
(* The vCPU that is inside the device finishes, a driver that has          *)
(* published notifies, and the guest serves its interrupts.                *)
(***************************************************************************)
Fairness ==
  /\ WF_vars(DeviceStep) /\ WF_vars(\E h \in Heads : Notify(h))
  /\ WF_vars(TakeIrq) /\ SF_vars(ReadInterruptStatus) /\ SF_vars(AckInterrupt)
  /\ WF_vars(Collect) /\ WF_vars(Drained)

FairSpec == Spec /\ Fairness

-----------------------------------------------------------------------------
(***************************************************************************)
(* Properties.                                                             *)
(***************************************************************************)
Indices == 0..(IndexWrap - 1)
Statuses == {"ok", "ioerr", "unsupp"}
TypeOK ==
  /\ chain \in [Heads -> Requests \cup {NoRequest}]
  /\ status \in [Heads -> Statuses \cup {"unset"}]
  /\ availRing \in [0..(QueueSize - 1) -> Heads] /\ availIdx \in Indices
  /\ usedRing \in [0..(QueueSize - 1) -> Heads] /\ usedIdx \in Indices
  /\ ready \in BOOLEAN /\ outside \in {{}, Outside}
  /\ at \in {"idle", "loop", "serve", "status", "mute", "used", "publish", "signal"}
  /\ snap \in Indices /\ head \in Heads
  /\ lastAvail \in Indices /\ nextUsed \in Indices
  /\ isr \in {0, 1} /\ irq \in BOOLEAN
  /\ kicks \subseteq Heads /\ lastSeen \in Indices
  /\ handler \in {"none", "status", "ack", "drain"}

\* The driver is never handed a completion it did not ask for: the entry it
\* takes next names a request in flight, whose status byte is there.
NoPhantomCompletion ==
  (handler = "drain" /\ lastSeen # usedIdx) =>
    LET h == usedRing[Slot(lastSeen)]
    IN  chain[h] # NoRequest /\ status[h] # "unset"

\* No completion goes unnoticed: when the device has published one that the
\* driver has not taken, the interrupt that will make it look is still to
\* come, or its handler is at work.
NoLostInterrupt ==
  (at = "idle" /\ handler = "none" /\ lastSeen # usedIdx) => irq /\ isr = 1

\* process_virtqueue "services every request the driver has published since
\* the last call", as long as it can read them all: once every notification
\* has been dealt with, no request in flight lacks its status.
NotifyServesAll ==
  (at = "idle" /\ kicks = {}) =>
    \A h \in Heads : chain[h] # NoRequest => status[h] # "unset"

\* The device works on requests the driver has published and the device has
\* not completed: never on one whose completion the driver has still to take.
Untaken ==
  LET n == (nextUsed + IndexWrap - lastSeen) % IndexWrap
  IN  {usedRing[Slot((lastSeen + k) % IndexWrap)] : k \in 0..(n - 1)}
OnlyPublishedServed ==
  at \in {"serve", "status", "mute", "used"} =>
    chain[head] # NoRequest /\ head \notin Untaken

\* The driver never blocks waiting for a reply (process_request): every
\* request made is completed.
EveryRequestCompletes ==
  \A h \in Heads : chain[h] # NoRequest ~> chain[h] = NoRequest

\* The device is a block service.
ReplyOf(h) ==
  IF at \in {"status", "used", "publish"} /\ h = head THEN outcome
  ELSE IF status[h] # "unset"
       THEN Reply(status[h], IF status[h] = "ok" /\ chain[h].type # "out"
                             THEN buffer[h] ELSE Nothing)
  ELSE NoReply
Service == INSTANCE BlockService WITH req <- chain, reply <- [h \in Heads |-> ReplyOf(h)],
                                      lossy <- (outside # {})
IsBlockService == Service!Spec
=============================================================================
