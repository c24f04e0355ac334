--------------------------- MODULE VirtioBlkProofs ---------------------------
(***************************************************************************)
(* The block device keeps its promises for every queue the driver may set  *)
(* up, every disk and every set of requests, and it implements             *)
(* BlockService.                                                           *)
(*                                                                         *)
(* The argument is about two windows of the rings.  Waiting is what the    *)
(* avail ring holds from the device's cursor to the driver's index,        *)
(* Answered what the used ring holds from the driver's cursor to the       *)
(* device's index.  Every request in flight is in exactly one of them, and *)
(* in one place (QueueInv): the device moves the head of Waiting to the    *)
(* end of Answered, in the step that writes the used entry.  That a window *)
(* never laps its ring follows, as no head is in it twice.                 *)
(***************************************************************************)
EXTENDS VirtioBlk, FiniteSetTheorems, TLAPS

(***************************************************************************)
(* Windows of a ring.                                                      *)
(***************************************************************************)
\* The ring index k entries after i, and how far b is ahead of a.
Ahead(i, k) == (i + k) % IndexWrap
Gap(a, b) == IF a <= b THEN b - a ELSE b + IndexWrap - a

\* The entries from index a up to index b.
Window(ring, a, b) == [k \in 0..(Gap(a, b) - 1) |-> ring[Slot(Ahead(a, k))]]

\* A window of heads, in which no head is twice.
OnceEach(w, n) ==
  /\ w \in [0..(n - 1) -> Heads]
  /\ \A j, k \in 0..(n - 1) : w[j] = w[k] => j = k

Holds(w, h) == \E k \in DOMAIN w : w[k] = h

(***************************************************************************)
(* The inductive invariant.  last_avail_idx moves past a request only when *)
(* the interrupt has been raised, after the request has been answered.     *)
(***************************************************************************)
FirstWaiting == IF at \in {"publish", "signal"} THEN Succ(lastAvail) ELSE lastAvail
WaitingLength == Gap(FirstWaiting, availIdx)
AnsweredLength == Gap(lastSeen, nextUsed)
Waiting == Window(availRing, FirstWaiting, availIdx)
Answered == Window(usedRing, lastSeen, nextUsed)

InHand == {"serve", "status", "mute", "used"}

\* Where each request in flight is.
QueueInv ==
  /\ OnceEach(Waiting, WaitingLength) /\ OnceEach(Answered, AnsweredLength)
  /\ \A h \in Heads : ~ (Holds(Waiting, h) /\ Holds(Answered, h))
  /\ \A h \in Heads :
       chain[h] # NoRequest <=> Holds(Waiting, h) \/ Holds(Answered, h)

\* Which of them have their status.  One whose used element could not be
\* written has it, and waits.
StatusInv ==
  /\ \A h \in Heads : Holds(Answered, h) => status[h] # "unset"
  /\ at = "used" => status[head] = outcome.status
  /\ \A h \in Heads : chain[h] = NoRequest => status[h] = "unset"
  /\ ~ ready => \A h \in Heads : chain[h] = NoRequest
  /\ \A h \in Heads :
       ~ Holds(Answered, h) /\ ~ (at = "used" /\ h = head) /\ outside = {} => status[h] = "unset"

\* The device's cursors: it serves what it has seen published, in order.
CursorInv ==
  /\ at # "idle" => Gap(FirstWaiting, snap) <= WaitingLength
  /\ at \in InHand => lastAvail # snap /\ head = Waiting[0]
  /\ at \in {"status", "used"} => outcome.status \in Statuses
  /\ IF at = "publish"
     THEN nextUsed = Succ(usedIdx) /\ lastSeen # nextUsed
     ELSE usedIdx = nextUsed

BlkInv == TypeOK /\ QueueInv /\ StatusInv /\ CursorInv

\* What the driver has published and the device has not seen is notified of.
KickInv ==
  /\ at # "mute"
  /\ ~ ready => kicks = {} /\ at = "idle"
  /\ at = "idle" => (kicks = {} => FirstWaiting = availIdx)
  /\ at # "idle" => (kicks = {} => snap = availIdx)

\* An entry the driver has not taken is about to be signalled, or has been.
InterruptInv ==
  lastSeen # usedIdx =>
    \/ at = "signal" \/ handler = "drain"
    \/ isr = 1 /\ (irq \/ handler \in {"status", "ack"})

\* The reply a guest reads of a request that has this status.
Told(h, st) ==
  Reply(st, IF st = "ok" /\ chain[h].type # "out" THEN buffer[h] ELSE Nothing)

\* What the device has computed is what the guest will read.
OutcomeInv ==
  /\ DOMAIN buffer = Heads
  /\ \A h \in Heads : chain[h] # NoRequest =>
       buffer[h] = chain[h].value \/ chain[h].type \in {"in", "id"}
  /\ \A h \in Heads : chain[h] # NoRequest /\ chain[h].chain = "mute" => status[h] = "unset"
  /\ at \in {"status", "used"} => chain[head].chain # "mute"
  /\ at \in {"status", "used", "publish"} => outcome = Told(head, outcome.status)
  /\ at = "publish" => outcome.status = status[head] /\ head = usedRing[Slot(usedIdx)]

-----------------------------------------------------------------------------
(***************************************************************************)
(* Ring arithmetic.                                                        *)
(***************************************************************************)
LEMMA DivMod ==
  ASSUME NEW x \in Nat, NEW n \in Nat, n # 0
  PROVE  /\ x \div n \in Nat /\ x % n \in 0..(n - 1)
         /\ x = n * (x \div n) + (x % n)
OBVIOUS

LEMMA DivisionIsUnique ==
  ASSUME NEW n \in Nat, n # 0, NEW q \in Int, NEW p \in Int,
         NEW r \in 0..(n - 1), NEW s \in 0..(n - 1), n * q + r = n * p + s
  PROVE  q = p /\ r = s
<1>1. CASE q < p
  <2>1. n * p >= n * (q + 1)  BY <1>1
  <2>. QED  BY <2>1
<1>2. CASE q > p
  <2>1. n * q >= n * (p + 1)  BY <1>2
  <2>. QED  BY <2>1
<1>. QED  BY <1>1, <1>2

LEMMA ModBelowTwice ==
  ASSUME NEW n \in Nat, n # 0, NEW x \in Nat, x < 2 * n
  PROVE  x % n = IF x < n THEN x ELSE x - n
<1>1. CASE x < n  BY <1>1
<1>2. CASE x >= n
  <2>1. /\ x \div n \in Nat /\ x % n \in 0..(n - 1)
        /\ x = n * (x \div n) + (x % n)
    BY DivMod
  <2>2. x = n * 1 + (x - n)  OBVIOUS
  <2>. QED  BY <1>2, <2>1, <2>2, DivisionIsUnique
<1>. QED  BY <1>1, <1>2

\* Two numbers less than n apart have different remainders.
LEMMA NearModsDiffer ==
  ASSUME NEW n \in Nat, n # 0, NEW x \in Nat, NEW y \in Nat, x < y, y - x < n
  PROVE  x % n # y % n
<1> DEFINE q == x \div n  p == y \div n
<1>1. q \in Nat /\ x % n \in 0..(n - 1) /\ x = n * q + (x % n)  BY DivMod
<1>2. p \in Nat /\ y % n \in 0..(n - 1) /\ y = n * p + (y % n)  BY DivMod
<1> HIDE DEF q, p
<1> SUFFICES ASSUME x % n = y % n PROVE FALSE  OBVIOUS
<1>3. n * q \in Nat /\ n * p \in Nat  BY <1>1, <1>2
<1>4. n * p = n * q + (y - x)  BY <1>1, <1>2, <1>3
<1>5. CASE p <= q
  <2>1. n * p <= n * q  BY <1>1, <1>2, <1>5
  <2>. QED  BY <1>3, <1>4, <2>1
<1>6. CASE p >= q + 1
  <2>1. n * p >= n * (q + 1) /\ n * (q + 1) = n * q + n  BY <1>1, <1>2, <1>6
  <2>. QED  BY <1>3, <1>4, <2>1
<1>. QED  BY <1>1, <1>2, <1>5, <1>6

\* Taking a multiple of n away leaves the remainder.
LEMMA ModOfShifted ==
  ASSUME NEW n \in Nat, n # 0, NEW m \in Nat, m % n = 0, NEW x \in Nat, x >= m
  PROVE  (x - m) % n = x % n
<1> DEFINE d == x - m  e == d % n  f == x % n
           q == m \div n  p == d \div n  r == x \div n  t == p + q
<1>1. q \in Nat /\ m = n * q
  <2>1. q \in Nat /\ m = n * q + (m % n)  BY DivMod
  <2>. QED  BY <2>1
<1>2. d \in Nat /\ x = d + m  OBVIOUS
<1> HIDE DEF d
<1>3. p \in Nat /\ e \in 0..(n - 1) /\ d = n * p + e  BY <1>2, DivMod
<1>4. r \in Nat /\ f \in 0..(n - 1) /\ x = n * r + f  BY DivMod
<1> HIDE DEF e, f, p, q, r
<1>5. n * t = n * p + n * q /\ t \in Nat  BY <1>1, <1>3
<1> HIDE DEF t
<1>6. n * p \in Nat /\ n * q \in Nat /\ n * r \in Nat  BY <1>1, <1>3, <1>4
<1>7. n * t + e = n * r + f  BY <1>1, <1>2, <1>3, <1>4, <1>5, <1>6
<1>8. t \in Int /\ r \in Int /\ n * t + e = n * r + f  BY <1>4, <1>5, <1>7
<1>9. e = f
  <2>1. e \in 0..(n - 1) /\ f \in 0..(n - 1)  BY <1>3, <1>4
  <2>. QED  BY <1>8, <2>1, DivisionIsUnique
<1>. QED  BY <1>9 DEF d, e, f

LEMMA SlotType == ASSUME NEW i \in Nat PROVE Slot(i) \in 0..(QueueSize - 1)
BY RingAssumption, DivMod DEF Slot

\* An index k entries ahead, for as far as a window reaches.
LEMMA AheadIs ==
  ASSUME NEW i \in Indices, NEW k \in 0..QueueSize
  PROVE  /\ Ahead(i, k) \in Indices
         /\ Ahead(i, k) = IF i + k < IndexWrap THEN i + k ELSE i + k - IndexWrap
<1>1. IndexWrap \in Nat /\ IndexWrap # 0 /\ i \in Nat /\ k \in Nat
      /\ i + k < 2 * IndexWrap
  BY RingAssumption DEF Indices
<1>2. \A x \in Nat : x < 2 * IndexWrap =>
        x % IndexWrap = IF x < IndexWrap THEN x ELSE x - IndexWrap
  BY <1>1, ModBelowTwice
<1>3. Ahead(i, k) = IF i + k < IndexWrap THEN i + k ELSE i + k - IndexWrap
  BY <1>1, <1>2 DEF Ahead
<1>4. (IF i + k < IndexWrap THEN i + k ELSE i + k - IndexWrap) \in 0..(IndexWrap - 1)
  BY <1>1, RingAssumption DEF Indices
<1>. QED  BY <1>3, <1>4 DEF Indices

LEMMA SuccIs ==
  ASSUME NEW i \in Indices
  PROVE  /\ Succ(i) \in Indices
         /\ Succ(i) = IF i + 1 < IndexWrap THEN i + 1 ELSE 0
<1>1. 1 \in 0..QueueSize  BY RingAssumption
<1>2. Succ(i) = Ahead(i, 1)  BY DEF Ahead, Succ
<1>. QED  BY RingAssumption, <1>1, <1>2, AheadIs DEF Indices

\* No two entries of a window share a slot of the ring.
LEMMA SlotsDiffer ==
  ASSUME NEW i \in Indices, NEW j \in 0..QueueSize, NEW k \in 0..QueueSize,
         j < k, k - j < QueueSize
  PROVE  Slot(Ahead(i, j)) # Slot(Ahead(i, k))
<1>1. QueueSize \in Nat /\ QueueSize # 0 /\ IndexWrap \in Nat /\ IndexWrap % QueueSize = 0
  BY RingAssumption
<1>2. ASSUME NEW m \in 0..QueueSize
      PROVE  Slot(Ahead(i, m)) = (i + m) % QueueSize
  <2>1. i + m \in Nat  BY RingAssumption DEF Indices
  <2>2. CASE i + m < IndexWrap  BY <2>2, AheadIs DEF Slot
  <2>3. CASE i + m >= IndexWrap
    <3>1. Ahead(i, m) = i + m - IndexWrap
      <4>1. ~ (i + m < IndexWrap)  BY <2>1, <2>3, <1>1
      <4>. QED  BY <4>1, AheadIs
    <3>2. \A x \in Nat : x >= IndexWrap => (x - IndexWrap) % QueueSize = x % QueueSize
      BY <1>1, ModOfShifted
    <3>3. (i + m - IndexWrap) % QueueSize = (i + m) % QueueSize
      BY <1>1, <2>1, <2>3, <3>2 DEF Indices
    <3>. QED  BY <3>1, <3>3 DEF Slot
  <2>. QED  BY <1>1, <2>1, <2>2, <2>3
<1>3. i + j \in Nat /\ i + k \in Nat /\ i + j < i + k /\ (i + k) - (i + j) < QueueSize
  BY RingAssumption DEF Indices
<1>4. (i + j) % QueueSize # (i + k) % QueueSize  BY <1>1, <1>3, NearModsDiffer
<1>. QED  BY <1>2, <1>4

\* How far apart two indices are, and what a step of either changes.
LEMMA GapIs ==
  ASSUME NEW i \in Indices, NEW j \in Indices
  PROVE  /\ Gap(i, j) \in 0..(IndexWrap - 1)
         /\ Gap(i, j) = 0 <=> i = j
         /\ Gap(i, j) < IndexWrap - 1 => Gap(i, Succ(j)) = Gap(i, j) + 1
         /\ i # j => Gap(Succ(i), j) = Gap(i, j) - 1
<1>1. IndexWrap \in Nat /\ IndexWrap > 1 /\ i \in 0..(IndexWrap - 1)
      /\ j \in 0..(IndexWrap - 1)
  BY RingAssumption DEF Indices
<1>2. /\ Succ(i) = IF i + 1 < IndexWrap THEN i + 1 ELSE 0
      /\ Succ(j) = IF j + 1 < IndexWrap THEN j + 1 ELSE 0
  BY SuccIs
<1>3. Gap(i, j) \in 0..(IndexWrap - 1) /\ (Gap(i, j) = 0 <=> i = j)
  BY <1>1 DEF Gap
<1>4. Gap(i, j) < IndexWrap - 1 => Gap(i, Succ(j)) = Gap(i, j) + 1
  BY <1>1, <1>2 DEF Gap
<1>5. i # j => Gap(Succ(i), j) = Gap(i, j) - 1
  BY <1>1, <1>2 DEF Gap
<1>. QED  BY <1>3, <1>4, <1>5

LEMMA AheadOf ==
  ASSUME NEW i \in Indices, NEW j \in Indices
  PROVE  /\ Ahead(i, 0) = i
         /\ Gap(i, j) <= QueueSize => Ahead(i, Gap(i, j)) = j
         /\ \A k \in 0..(QueueSize - 1) : Ahead(Succ(i), k) = Ahead(i, k + 1)
<1>1. /\ IndexWrap \in Nat /\ QueueSize \in Nat /\ 0 < QueueSize /\ QueueSize < IndexWrap
      /\ i \in 0..(IndexWrap - 1) /\ j \in 0..(IndexWrap - 1)
  BY RingAssumption DEF Indices
<1>2. /\ Succ(i) \in 0..(IndexWrap - 1)
      /\ Succ(i) = IF i + 1 < IndexWrap THEN i + 1 ELSE 0
  BY SuccIs DEF Indices
<1>3. \A m \in Indices, k \in 0..QueueSize :
        Ahead(m, k) = IF m + k < IndexWrap THEN m + k ELSE m + k - IndexWrap
  BY AheadIs
<1>4. Ahead(i, 0) = i  BY <1>1, <1>3
<1>5. Gap(i, j) <= QueueSize => Ahead(i, Gap(i, j)) = j
  BY <1>1, <1>3 DEF Gap, Indices
<1>6. ASSUME NEW k \in 0..(QueueSize - 1)
      PROVE  Ahead(Succ(i), k) = Ahead(i, k + 1)
  BY <1>1, <1>2, <1>3 DEF Indices
<1>. QED  BY <1>4, <1>5, <1>6

-----------------------------------------------------------------------------
(***************************************************************************)
(* What adding to a window and taking from it do.                          *)
(***************************************************************************)
\* A window without repetition is no longer than there are heads in it.
LEMMA WindowFits ==
  ASSUME NEW n \in Nat, NEW w, OnceEach(w, n), NEW T \in SUBSET Heads,
         \A k \in 0..(n - 1) : w[k] \in T
  PROVE  n <= Cardinality(T)
<1>1. IsFiniteSet(T)  BY RingAssumption, FS_Subset
<1>2. w \in Injection(0..(n - 1), T)  BY DEF OnceEach, Injection, IsInjective
<1>3. Cardinality(0..(n - 1)) <= Cardinality(T)  BY <1>1, <1>2, FS_Injection
<1>4. Cardinality(0..(n - 1)) = n
  <2>1. Cardinality(0..(n - 1)) = IF 0 > n - 1 THEN 0 ELSE n - 1 - 0 + 1  BY FS_Interval
  <2>. QED  BY <2>1
<1>. QED  BY <1>3, <1>4

LEMMA WindowIsShort ==
  ASSUME NEW n \in Nat, NEW w, OnceEach(w, n)
  PROVE  /\ n <= QueueSize
         /\ \A h \in Heads : ~ Holds(w, h) => n < QueueSize
<1>1. Cardinality(Heads) \in Nat /\ Cardinality(Heads) <= QueueSize /\ QueueSize \in Nat
  BY RingAssumption, FS_CardinalityType
<1>2. n <= Cardinality(Heads)  BY WindowFits DEF OnceEach
<1>3. ASSUME NEW h \in Heads, ~ Holds(w, h)
      PROVE  n < QueueSize
  <2>1. \A k \in 0..(n - 1) : w[k] \in Heads \ {h}  BY <1>3 DEF OnceEach, Holds
  <2>2. n <= Cardinality(Heads \ {h})  BY <2>1, WindowFits
  <2>3. Cardinality(Heads \ {h}) = Cardinality(Heads) - 1
    BY RingAssumption, FS_RemoveElement
  <2>. QED  BY <1>1, <2>2, <2>3
<1>. QED  BY <1>1, <1>2, <1>3

\* Publishing a head that the window does not hold, at its far end.
LEMMA WindowGrows ==
  ASSUME NEW a \in Indices, NEW b \in Indices, NEW h \in Heads,
         NEW ring, DOMAIN ring = 0..(QueueSize - 1),
         OnceEach(Window(ring, a, b), Gap(a, b)), ~ Holds(Window(ring, a, b), h)
  PROVE  LET longer == Window([ring EXCEPT ![Slot(b)] = h], a, Succ(b))
         IN  /\ Gap(a, Succ(b)) = Gap(a, b) + 1
             /\ OnceEach(longer, Gap(a, Succ(b)))
             /\ \A g : Holds(longer, g) <=> Holds(Window(ring, a, b), g) \/ g = h
             /\ a # b => longer[0] = Window(ring, a, b)[0]
<1> DEFINE n == Gap(a, b)  w == Window(ring, a, b)
           new == [ring EXCEPT ![Slot(b)] = h]
           longer == Window(new, a, Succ(b))
<1>1. n \in Nat  BY RingAssumption, GapIs
<1>2. n < QueueSize  BY <1>1, WindowIsShort
<1>3. QueueSize \in Nat /\ IndexWrap \in Nat /\ QueueSize < IndexWrap  BY RingAssumption
<1>4. n < IndexWrap - 1  BY <1>1, <1>2, <1>3
<1>5. Gap(a, Succ(b)) = n + 1  BY <1>4, GapIs
<1>6. DOMAIN w = 0..(n - 1) /\ DOMAIN longer = 0..n
  BY <1>1, <1>5 DEF Window
<1>7. Ahead(a, n) = b  BY <1>1, <1>2, <1>3, AheadOf
<1>8. longer[n] = h
  <2>1. longer[n] = new[Slot(b)]  BY <1>1, <1>5, <1>7 DEF Window
  <2>2. Slot(b) \in DOMAIN ring  BY SlotType, RingAssumption DEF Indices
  <2>. QED  BY <2>1, <2>2
<1>9. ASSUME NEW k \in 0..(n - 1)
      PROVE  longer[k] = w[k]
  <2>1. k \in 0..QueueSize /\ n \in 0..QueueSize /\ k < n /\ n - k < QueueSize
    BY <1>1, <1>2, <1>3
  <2>2. Slot(Ahead(a, k)) # Slot(b)  BY <1>7, <2>1, SlotsDiffer
  <2>3. w[k] = ring[Slot(Ahead(a, k))]  BY DEF Window
  <2>4. longer[k] = new[Slot(Ahead(a, k))]  BY <1>1, <1>5 DEF Window
  <2>5. Ahead(a, k) \in Nat  BY <2>1, AheadIs, RingAssumption DEF Indices
  <2>6. Slot(Ahead(a, k)) \in DOMAIN ring  BY <2>5, SlotType
  <2>. QED  BY <2>2, <2>3, <2>4, <2>6
<1>10. longer = [k \in 0..n |-> longer[k]] /\ w = [k \in 0..(n - 1) |-> w[k]]
  BY <1>1, <1>5 DEF Window
<1>11. OnceEach(w, n) /\ ~ Holds(w, h)  OBVIOUS
<1> HIDE DEF n, w, new, longer
<1>12. longer \in [0..n -> Heads]
  <2>1. \A k \in 0..(n - 1) : longer[k] \in Heads  BY <1>9, <1>11 DEF OnceEach
  <2>2. \A k \in 0..n : k = n \/ k \in 0..(n - 1)  BY <1>1
  <2>3. \A k \in 0..n : longer[k] \in Heads  BY <1>8, <2>1, <2>2
  <2>. QED  BY <1>10, <2>3
<1>13. \A j, k \in 0..n : longer[j] = longer[k] => j = k
  BY <1>1, <1>6, <1>8, <1>9, <1>11 DEF OnceEach, Holds
<1>14. OnceEach(longer, n + 1)
  <2> DEFINE m == n + 1
  <2>1. m - 1 = n  BY <1>1
  <2> HIDE DEF m
  <2>2. OnceEach(longer, m)  BY <1>12, <1>13, <2>1 DEF OnceEach
  <2>. QED  BY <2>2 DEF m
<1>15. \A g : Holds(longer, g) <=> Holds(w, g) \/ g = h
  BY <1>1, <1>6, <1>8, <1>9 DEF Holds
<1>16. a # b => longer[0] = w[0]
  <2>1. a # b => n # 0  BY GapIs DEF n
  <2>. QED  BY <1>1, <1>9, <2>1
<1>. QED  BY <1>5, <1>14, <1>15, <1>16 DEF n, w, new, longer

\* Taking the head at its near end.
LEMMA WindowShrinks ==
  ASSUME NEW a \in Indices, NEW b \in Indices, a # b, NEW ring,
         OnceEach(Window(ring, a, b), Gap(a, b))
  PROVE  LET w == Window(ring, a, b)
             rest == Window(ring, Succ(a), b)
         IN  /\ Gap(Succ(a), b) = Gap(a, b) - 1
             /\ w[0] = ring[Slot(a)] /\ w[0] \in Heads /\ Holds(w, w[0])
             /\ OnceEach(rest, Gap(Succ(a), b))
             /\ \A g : Holds(rest, g) <=> Holds(w, g) /\ g # w[0]
<1> DEFINE n == Gap(a, b)  w == Window(ring, a, b)  rest == Window(ring, Succ(a), b)
<1>1. n \in Nat /\ n # 0  BY RingAssumption, GapIs
<1>2. n <= QueueSize /\ QueueSize \in Nat  BY <1>1, WindowIsShort, RingAssumption
<1>3. Gap(Succ(a), b) = n - 1  BY GapIs
<1>4. DOMAIN w = 0..(n - 1) /\ DOMAIN rest = 0..(n - 2)  BY <1>1, <1>3 DEF Window
<1>5. w[0] = ring[Slot(a)]  BY <1>1, AheadOf DEF Window
<1>6. ASSUME NEW k \in 0..(n - 2)
      PROVE  rest[k] = w[k + 1]
  <2>1. k \in 0..(QueueSize - 1) /\ k + 1 \in 0..(n - 1)  BY <1>1, <1>2
  <2>2. rest[k] = ring[Slot(Ahead(Succ(a), k))]  BY <1>1, <1>3 DEF Window
  <2>3. w[k + 1] = ring[Slot(Ahead(a, k + 1))]  BY <2>1 DEF Window
  <2>4. Ahead(Succ(a), k) = Ahead(a, k + 1)  BY <2>1, AheadOf
  <2>. QED  BY <2>2, <2>3, <2>4
<1>7. rest = [k \in 0..(n - 2) |-> rest[k]]  BY <1>1, <1>3 DEF Window
<1>8. OnceEach(w, n)  OBVIOUS
<1> HIDE DEF n, w, rest
<1>9. w[0] \in Heads /\ Holds(w, w[0])  BY <1>1, <1>4, <1>8 DEF OnceEach, Holds
<1>10. rest \in [0..(n - 2) -> Heads]  BY <1>1, <1>6, <1>7, <1>8 DEF OnceEach
<1>11. \A j, k \in 0..(n - 2) : rest[j] = rest[k] => j = k
  BY <1>1, <1>6, <1>8 DEF OnceEach
<1>12. OnceEach(rest, n - 1)
  <2>1. n - 1 - 1 = n - 2  BY <1>1
  <2>. QED  BY <1>10, <1>11, <2>1 DEF OnceEach
<1>13. ASSUME NEW g
       PROVE  Holds(rest, g) <=> Holds(w, g) /\ g # w[0]
  <2>1. ASSUME Holds(rest, g) PROVE Holds(w, g) /\ g # w[0]
    <3>1. PICK k \in 0..(n - 2) : rest[k] = g  BY <1>4, <2>1 DEF Holds
    <3>2. k + 1 \in 0..(n - 1) /\ 0 \in 0..(n - 1) /\ k + 1 # 0  BY <1>1, <3>1
    <3>3. w[k + 1] = g /\ w[k + 1] # w[0]  BY <1>6, <1>8, <3>1, <3>2 DEF OnceEach
    <3>. QED  BY <1>4, <3>2, <3>3 DEF Holds
  <2>2. ASSUME Holds(w, g), g # w[0] PROVE Holds(rest, g)
    <3>1. PICK k \in 0..(n - 1) : w[k] = g  BY <1>4, <2>2 DEF Holds
    <3>2. k - 1 \in 0..(n - 2) /\ (k - 1) + 1 = k  BY <1>1, <2>2, <3>1
    <3>. QED  BY <1>4, <1>6, <3>1, <3>2 DEF Holds
  <2>. QED  BY <2>1, <2>2
<1>. QED  BY <1>3, <1>5, <1>9, <1>12, <1>13 DEF n, w, rest

LEMMA EmptyWindow ==
  ASSUME NEW a \in Indices, NEW ring
  PROVE  OnceEach(Window(ring, a, a), Gap(a, a)) /\ \A h : ~ Holds(Window(ring, a, a), h)
<1>1. Gap(a, a) = 0  BY GapIs
<1>2. 0..(0 - 1) = {}  OBVIOUS
<1>3. Window(ring, a, a) = [k \in {} |-> ring[Slot(Ahead(a, k))]]
  BY <1>1, <1>2 DEF Window
<1>. QED  BY <1>1, <1>2, <1>3 DEF OnceEach, Holds

-----------------------------------------------------------------------------
(***************************************************************************)
(* Types.                                                                  *)
(***************************************************************************)
\* service_request answers with one of its status bytes.
LEMMA ServiceReplies ==
  ASSUME NEW r \in Requests, NEW v, NEW s \in ServiceRequest(r, v)
  PROVE  s.reply = Reply(s.reply.status, s.reply.data) /\ s.reply.status \in Statuses
<1>1. \A st \in Statuses : \A data, d : Served(st, data, d).reply = Reply(st, data)
                                       /\ Reply(st, data).status = st /\ Reply(st, data).data = data
  BY DEF Served, Reply
<1>2. \E st \in Statuses : \E data, d : s = Served(st, data, d)
  <2>1. CASE r.type = "in"
    BY <2>1 DEF ServiceRequest, ServeIn, IoErr, Statuses
  <2>2. CASE r.type = "out"
    BY <2>2 DEF ServiceRequest, ServeOut, IoErr, Statuses
  <2>3. CASE r.type = "flush"
    BY <2>3 DEF ServiceRequest, ServeFlush, IoErr, Statuses
  <2>4. CASE r.type = "id"
    BY <2>4 DEF ServiceRequest, ServeId, IoErr, Statuses
  <2>5. CASE r.type = "other"
    BY <2>5 DEF ServiceRequest, Statuses
  <2>. QED  BY <2>1, <2>2, <2>3, <2>4, <2>5, RequestAssumption
<1>. QED  BY <1>1, <1>2

\* What Serve finds and can read is a request.
LEMMA FoundIsRequest ==
  ASSUME NEW h, chain[h] \in Requests \cup {NoRequest},
         NEW r \in Found(h), r.chain # "broken"
  PROVE  r \in Requests
BY DEF Found

OutcomeTyped == at \in {"status", "used"} => outcome.status \in Statuses

LEMMA TypeInit == Init => TypeOK /\ OutcomeTyped
<1>1. 0 \in Heads /\ 0 \in Indices  BY RingAssumption DEF Indices
<1>. QED  BY <1>1 DEF Init, TypeOK, OutcomeTyped, ZeroRing

LEMMA TypeNext == TypeOK /\ OutcomeTyped /\ [Next]_vars => TypeOK' /\ OutcomeTyped'
<1> SUFFICES ASSUME TypeOK, OutcomeTyped, [Next]_vars PROVE TypeOK' /\ OutcomeTyped'
  OBVIOUS
<1> USE DEF TypeOK, OutcomeTyped, guestMemory, inHand, cursors, queue, device, driver, GiveUp
<1>1. ASSUME NEW i \in Indices
      PROVE  Slot(i) \in 0..(QueueSize - 1) /\ Succ(i) \in Indices
  <2>1. i \in Nat  BY RingAssumption DEF Indices
  <2>. QED  BY <2>1, SlotType, SuccIs
<1>2. 0 \in Heads /\ 0 \in Indices  BY RingAssumption DEF Indices
<1>3. CASE Setup  BY <1>3 DEF Setup
<1>4. CASE Reset  BY <1>2, <1>4 DEF Reset, ZeroRing
<1>5. ASSUME NEW h \in Heads, NEW r \in Requests, Submit(h, r)
      PROVE  TypeOK' /\ OutcomeTyped'
  BY <1>1, <1>5 DEF Submit
<1>6. ASSUME NEW h \in Heads, Notify(h) PROVE TypeOK' /\ OutcomeTyped'
  BY <1>6 DEF Notify
<1>7. CASE Fetch  BY <1>1, <1>2, <1>7 DEF Fetch
<1>8. CASE Serve
  <2>1. PICK r \in Found(head) :
          \/ r.chain = "broken" /\ GiveUp
          \/ /\ r.chain # "broken"
             /\ \E s \in ServiceRequest(r, IF r = chain[head] THEN buffer[head] ELSE r.value) :
                  outcome' = s.reply
             /\ at' \in {"mute", "status"} /\ snap' = snap /\ head' = head
    BY <1>8 DEF Serve
  <2>2. CASE r.chain = "broken" /\ GiveUp  BY <1>2, <1>8, <2>2 DEF Serve
  <2>3. CASE r.chain # "broken"
    <3>1. r \in Requests  BY <2>1, <2>3, FoundIsRequest
    <3>2. outcome'.status \in Statuses  BY <2>1, <2>3, <3>1, ServiceReplies
    <3>. QED  BY <1>8, <2>1, <2>3, <3>2 DEF Serve
  <2>. QED  BY <2>1, <2>2, <2>3
<1>9. CASE WriteStatus  BY <1>9 DEF WriteStatus
<1>10. CASE StatusFails  BY <1>2, <1>10 DEF StatusFails
<1>11. CASE WriteUsed \/ UsedFails  BY <1>1, <1>2, <1>11 DEF WriteUsed, UsedFails
<1>12. CASE Publish  BY <1>12 DEF Publish
<1>13. CASE Signal  BY <1>1, <1>2, <1>13 DEF Signal
<1>14. CASE TakeIrq  BY <1>14 DEF TakeIrq
<1>15. CASE ReadInterruptStatus  BY <1>15 DEF ReadInterruptStatus
<1>16. CASE AckInterrupt  BY <1>16 DEF AckInterrupt
<1>17. CASE Collect  BY <1>1, <1>17 DEF Collect
<1>18. CASE Drained  BY <1>18 DEF Drained
<1>19. CASE UNCHANGED vars  BY <1>19 DEF vars
<1>. QED
  BY <1>3, <1>4, <1>5, <1>6, <1>7, <1>8, <1>9, <1>10, <1>11, <1>12, <1>13, <1>14,
     <1>15, <1>16, <1>17, <1>18, <1>19 DEF Next, DeviceStep, HandlerStep

\* The guest's memory and the device's registers hold what they may: every
\* ring entry is a head, every ring index and cursor a u16.
THEOREM VirtioBlkType == Spec => []TypeOK
<1>1. Spec => [](TypeOK /\ OutcomeTyped)
  BY TypeInit, TypeNext, PTL DEF Spec
<1>. QED  BY <1>1, PTL

-----------------------------------------------------------------------------
(***************************************************************************)
(* Every request in flight is in one place of one window.                  *)
(***************************************************************************)
LEMMA BlkInit == Init => BlkInv
<1> SUFFICES ASSUME Init PROVE BlkInv  OBVIOUS
<1>1. TypeOK  BY TypeInit
<1>2. 0 \in Indices  BY RingAssumption DEF Indices
<1>3. /\ FirstWaiting = 0 /\ WaitingLength = Gap(0, 0) /\ AnsweredLength = Gap(0, 0)
      /\ Waiting = Window(availRing, 0, 0) /\ Answered = Window(usedRing, 0, 0)
  BY DEF Init, FirstWaiting, WaitingLength, AnsweredLength, Waiting, Answered
<1>4. QueueInv /\ \A h \in Heads : ~ Holds(Answered, h)
  BY <1>2, <1>3, EmptyWindow DEF Init, QueueInv
<1>5. StatusInv  BY <1>4 DEF Init, StatusInv
<1>6. CursorInv  BY DEF Init, CursorInv, InHand
<1>. QED  BY <1>1, <1>4, <1>5, <1>6 DEF BlkInv

\* The cursors are ring indices, and the lengths of the windows numbers.
LEMMA CursorsAreIndices ==
  ASSUME TypeOK
  PROVE  /\ FirstWaiting \in Indices /\ availIdx \in Indices /\ snap \in Indices
         /\ lastSeen \in Indices /\ nextUsed \in Indices /\ usedIdx \in Indices
         /\ WaitingLength \in Nat /\ AnsweredLength \in Nat
<1>1. /\ FirstWaiting \in Indices /\ availIdx \in Indices /\ snap \in Indices
      /\ lastSeen \in Indices /\ nextUsed \in Indices /\ usedIdx \in Indices
  BY SuccIs DEF TypeOK, FirstWaiting
<1>2. \A i, j \in Indices : Gap(i, j) \in Nat  BY GapIs, RingAssumption
<1>. QED  BY <1>1, <1>2 DEF WaitingLength, AnsweredLength

\* The request the device works on is the first of those that wait.
LEMMA HandIsWaiting ==
  ASSUME BlkInv, at \in InHand
  PROVE  /\ FirstWaiting = lastAvail /\ FirstWaiting # availIdx
         /\ head = Waiting[0] /\ head \in Heads
         /\ Holds(Waiting, head) /\ ~ Holds(Answered, head)
         /\ chain[head] # NoRequest
         /\ at = "used" => status[head] = outcome.status
         /\ at # "used" /\ outside = {} => status[head] = "unset"
<1>1. FirstWaiting = lastAvail  BY DEF InHand, FirstWaiting
<1>2. /\ FirstWaiting \in Indices /\ availIdx \in Indices /\ snap \in Indices
      /\ WaitingLength \in Nat
  BY CursorsAreIndices DEF BlkInv
<1>3. Gap(FirstWaiting, snap) <= WaitingLength /\ lastAvail # snap /\ head = Waiting[0]
  BY DEF BlkInv, CursorInv, InHand
<1>4. Gap(FirstWaiting, snap) \in Nat /\ Gap(FirstWaiting, snap) # 0
  BY <1>1, <1>2, <1>3, GapIs, RingAssumption
<1>5. WaitingLength # 0  BY <1>2, <1>3, <1>4
<1>6. FirstWaiting # availIdx  BY <1>2, <1>5, GapIs DEF WaitingLength
<1>7. head \in Heads /\ Holds(Waiting, head)
  BY <1>2, <1>3, <1>6, WindowShrinks DEF BlkInv, QueueInv, Waiting, WaitingLength
<1>8. ~ Holds(Answered, head) /\ chain[head] # NoRequest  BY <1>7 DEF BlkInv, QueueInv
<1>9. /\ at = "used" => status[head] = outcome.status
      /\ at # "used" /\ outside = {} => status[head] = "unset"
  BY <1>7, <1>8 DEF BlkInv, StatusInv
<1>. QED  BY <1>1, <1>3, <1>6, <1>7, <1>8, <1>9

\* A step that moves neither ring nor the cursors moves no request.
LEMMA QueueStays ==
  ASSUME UNCHANGED <<availRing, availIdx, usedRing, lastSeen, nextUsed>>,
         FirstWaiting' = FirstWaiting
  PROVE  /\ Waiting' = Waiting /\ Answered' = Answered
         /\ WaitingLength' = WaitingLength /\ AnsweredLength' = AnsweredLength
BY DEF Waiting, Answered, WaitingLength, AnsweredLength

LEMMA SubmitKeepsQueue ==
  ASSUME BlkInv, NEW h \in Heads, NEW r \in Requests, Submit(h, r)
  PROVE  QueueInv' /\ StatusInv' /\ CursorInv'
<1>1. ~ Holds(Waiting, h) /\ ~ Holds(Answered, h)  BY DEF Submit, BlkInv, QueueInv
<1>2. /\ FirstWaiting \in Indices /\ availIdx \in Indices
      /\ WaitingLength \in Nat /\ Gap(FirstWaiting, snap) \in Nat
  BY CursorsAreIndices, GapIs, RingAssumption DEF BlkInv
<1>3. /\ FirstWaiting' = FirstWaiting
      /\ Answered' = Answered /\ AnsweredLength' = AnsweredLength
  BY DEF Submit, FirstWaiting, Answered, AnsweredLength, device, cursors
<1>4. DOMAIN availRing = 0..(QueueSize - 1)  BY DEF BlkInv, TypeOK
<1>5. /\ WaitingLength' = WaitingLength + 1 /\ OnceEach(Waiting', WaitingLength')
      /\ \A g : Holds(Waiting', g) <=> Holds(Waiting, g) \/ g = h
      /\ FirstWaiting # availIdx => Waiting'[0] = Waiting[0]
  <2>1. availRing' = [availRing EXCEPT ![Slot(availIdx)] = h] /\ availIdx' = Succ(availIdx)
    BY DEF Submit
  <2>2. OnceEach(Window(availRing, FirstWaiting, availIdx), Gap(FirstWaiting, availIdx))
    BY DEF BlkInv, QueueInv, Waiting, WaitingLength
  <2>3. ~ Holds(Window(availRing, FirstWaiting, availIdx), h)  BY <1>1 DEF Waiting
  <2> DEFINE longer == Window([availRing EXCEPT ![Slot(availIdx)] = h],
                              FirstWaiting, Succ(availIdx))
  <2>4. /\ Gap(FirstWaiting, Succ(availIdx)) = Gap(FirstWaiting, availIdx) + 1
        /\ OnceEach(longer, Gap(FirstWaiting, Succ(availIdx)))
        /\ \A g : Holds(longer, g) <=> Holds(Window(availRing, FirstWaiting, availIdx), g) \/ g = h
        /\ FirstWaiting # availIdx => longer[0] = Window(availRing, FirstWaiting, availIdx)[0]
    BY <1>2, <1>4, <2>2, <2>3, WindowGrows
  <2>5. Waiting' = longer /\ WaitingLength' = Gap(FirstWaiting, Succ(availIdx))
    BY <1>3, <2>1 DEF Waiting, WaitingLength
  <2>. QED  BY <2>4, <2>5 DEF Waiting, WaitingLength
<1>6. NoRequest # r  BY RequestAssumption
<1>7. chain \in [Heads -> Requests \cup {NoRequest}] /\ DOMAIN status = Heads
  BY DEF BlkInv, TypeOK
<1>8. QueueInv'
  BY <1>1, <1>3, <1>5, <1>6, <1>7 DEF BlkInv, QueueInv, Submit
<1>9. at \in InHand => head # h /\ FirstWaiting # availIdx  BY <1>1, HandIsWaiting
<1>10. StatusInv'
  BY <1>1, <1>3, <1>6, <1>7, <1>9 DEF BlkInv, StatusInv, Submit, queue, device, inHand, InHand
<1>11. CursorInv'
  BY <1>2, <1>3, <1>5, <1>9 DEF BlkInv, CursorInv, Submit, device, inHand, cursors, InHand
<1>. QED  BY <1>8, <1>10, <1>11

\* What the driver may take is at the near end of Answered.
LEMMA TakenIsAnswered ==
  ASSUME BlkInv, lastSeen # usedIdx
  PROVE  LET h == usedRing[Slot(lastSeen)]
         IN  /\ lastSeen # nextUsed /\ h = Answered[0] /\ h \in Heads /\ Holds(Answered, h)
             /\ chain[h] # NoRequest /\ status[h] # "unset"
<1>1. lastSeen # nextUsed  BY DEF BlkInv, CursorInv
<1>2. lastSeen \in Indices /\ nextUsed \in Indices  BY CursorsAreIndices DEF BlkInv
<1>3. /\ Answered[0] = usedRing[Slot(lastSeen)]
      /\ Answered[0] \in Heads /\ Holds(Answered, Answered[0])
  BY <1>1, <1>2, WindowShrinks DEF BlkInv, QueueInv, Answered, AnsweredLength
<1>. QED  BY <1>1, <1>3 DEF BlkInv, QueueInv, StatusInv

LEMMA CollectKeepsQueue ==
  ASSUME BlkInv, Collect
  PROVE  QueueInv' /\ StatusInv' /\ CursorInv'
<1> DEFINE h == usedRing[Slot(lastSeen)]
<1>1. /\ lastSeen # nextUsed /\ h = Answered[0] /\ h \in Heads /\ Holds(Answered, h)
      /\ lastSeen # usedIdx
  BY TakenIsAnswered DEF Collect
<1>2. /\ chain' = [chain EXCEPT ![h] = NoRequest] /\ status' = [status EXCEPT ![h] = "unset"]
      /\ lastSeen' = Succ(lastSeen)
      /\ UNCHANGED <<availRing, availIdx, usedRing, usedIdx, at, snap, head, outcome,
                     lastAvail, nextUsed, ready, outside>>
  BY DEF Collect, queue, device, inHand, cursors
<1> HIDE DEF h
<1>3. lastSeen \in Indices /\ nextUsed \in Indices /\ usedIdx \in Indices
  BY CursorsAreIndices DEF BlkInv
<1>4. FirstWaiting' = FirstWaiting  BY <1>2 DEF FirstWaiting
<1>5. Waiting' = Waiting /\ WaitingLength' = WaitingLength
  BY <1>2, <1>4 DEF Waiting, WaitingLength
<1>6. /\ OnceEach(Answered', AnsweredLength')
      /\ \A g : Holds(Answered', g) <=> Holds(Answered, g) /\ g # h
  BY <1>1, <1>2, <1>3, WindowShrinks DEF BlkInv, QueueInv, Answered, AnsweredLength
<1>7. DOMAIN chain = Heads /\ DOMAIN status = Heads  BY DEF BlkInv, TypeOK
<1>8. QueueInv'  BY <1>1, <1>2, <1>5, <1>6, <1>7 DEF BlkInv, QueueInv
<1>9. at = "used" => ~ Holds(Answered, head)  BY HandIsWaiting DEF InHand
<1>10. StatusInv'  BY <1>1, <1>2, <1>6, <1>7, <1>9 DEF BlkInv, StatusInv
<1>11. at = "publish" => lastSeen' # nextUsed
  <2>1. Succ(lastSeen) # Succ(usedIdx)
    BY <1>1, <1>3, SuccIs, RingAssumption DEF Indices
  <2>. QED  BY <1>2, <2>1 DEF BlkInv, CursorInv
<1>12. CursorInv'  BY <1>2, <1>4, <1>5, <1>11 DEF BlkInv, CursorInv
<1>. QED  BY <1>8, <1>10, <1>12

LEMMA WriteUsedKeepsQueue ==
  ASSUME BlkInv, WriteUsed
  PROVE  QueueInv' /\ StatusInv' /\ CursorInv'
<1>1. at = "used" /\ at' = "publish" /\ "used" \in InHand  BY DEF WriteUsed, InHand
<1>2. /\ FirstWaiting = lastAvail /\ FirstWaiting # availIdx
      /\ head = Waiting[0] /\ head \in Heads /\ Holds(Waiting, head)
      /\ ~ Holds(Answered, head) /\ status[head] = outcome.status
  BY <1>1, HandIsWaiting
<1>3. /\ usedRing' = [usedRing EXCEPT ![Slot(nextUsed)] = head]
      /\ nextUsed' = Succ(nextUsed)
      /\ UNCHANGED <<chain, status, availRing, availIdx, usedIdx, snap, head, outcome,
                     lastAvail, lastSeen, ready, outside>>
  BY DEF WriteUsed, queue, inHand, driver
<1>4. /\ FirstWaiting \in Indices /\ availIdx \in Indices /\ snap \in Indices
      /\ lastSeen \in Indices /\ nextUsed \in Indices /\ WaitingLength \in Nat
      /\ Gap(FirstWaiting, snap) \in Nat /\ AnsweredLength \in Nat
  BY CursorsAreIndices, GapIs, RingAssumption DEF BlkInv
<1>5. FirstWaiting' = Succ(FirstWaiting)  BY <1>1, <1>2, <1>3 DEF FirstWaiting
<1>6. OnceEach(Window(availRing, FirstWaiting, availIdx), Gap(FirstWaiting, availIdx))
      /\ OnceEach(Window(usedRing, lastSeen, nextUsed), Gap(lastSeen, nextUsed))
  BY DEF BlkInv, QueueInv, Waiting, WaitingLength, Answered, AnsweredLength
<1>7. /\ OnceEach(Waiting', WaitingLength') /\ WaitingLength' = WaitingLength - 1
      /\ \A g : Holds(Waiting', g) <=> Holds(Waiting, g) /\ g # head
  <2> DEFINE rest == Window(availRing, Succ(FirstWaiting), availIdx)
  <2>1. /\ Gap(Succ(FirstWaiting), availIdx) = Gap(FirstWaiting, availIdx) - 1
        /\ OnceEach(rest, Gap(Succ(FirstWaiting), availIdx))
        /\ \A g : Holds(rest, g) <=> Holds(Window(availRing, FirstWaiting, availIdx), g)
                                   /\ g # Window(availRing, FirstWaiting, availIdx)[0]
    BY <1>2, <1>4, <1>6, WindowShrinks
  <2>2. Waiting' = rest /\ WaitingLength' = Gap(Succ(FirstWaiting), availIdx)
    BY <1>3, <1>5 DEF Waiting, WaitingLength
  <2>. QED  BY <1>2, <2>1, <2>2 DEF Waiting, WaitingLength
<1>8. /\ OnceEach(Answered', AnsweredLength') /\ AnsweredLength' = AnsweredLength + 1
      /\ \A g : Holds(Answered', g) <=> Holds(Answered, g) \/ g = head
  <2> DEFINE longer == Window([usedRing EXCEPT ![Slot(nextUsed)] = head], lastSeen, Succ(nextUsed))
  <2>1. DOMAIN usedRing = 0..(QueueSize - 1)  BY DEF BlkInv, TypeOK
  <2>2. ~ Holds(Window(usedRing, lastSeen, nextUsed), head)  BY <1>2 DEF Answered
  <2>3. /\ Gap(lastSeen, Succ(nextUsed)) = Gap(lastSeen, nextUsed) + 1
        /\ OnceEach(longer, Gap(lastSeen, Succ(nextUsed)))
        /\ \A g : Holds(longer, g) <=> Holds(Window(usedRing, lastSeen, nextUsed), g) \/ g = head
    BY <1>2, <1>4, <1>6, <2>1, <2>2, WindowGrows
  <2>4. Answered' = longer /\ AnsweredLength' = Gap(lastSeen, Succ(nextUsed))
    BY <1>3 DEF Answered, AnsweredLength
  <2>. QED  BY <2>3, <2>4 DEF Answered, AnsweredLength
<1>9. QueueInv'  BY <1>2, <1>3, <1>7, <1>8 DEF BlkInv, QueueInv
<1>10. outcome.status # "unset"  BY <1>1 DEF BlkInv, CursorInv, Statuses
<1>11. StatusInv'  BY <1>1, <1>2, <1>3, <1>8, <1>10 DEF BlkInv, StatusInv
<1>12. Gap(FirstWaiting', snap') <= WaitingLength'
  <2>1. Gap(FirstWaiting, snap) <= WaitingLength /\ FirstWaiting # snap
    BY <1>1, <1>2 DEF BlkInv, CursorInv, InHand
  <2>2. Gap(Succ(FirstWaiting), snap) = Gap(FirstWaiting, snap) - 1  BY <1>4, <2>1, GapIs
  <2>. QED  BY <1>3, <1>4, <1>5, <1>7, <2>1, <2>2
<1>13. lastSeen' # nextUsed'
  <2>1. Succ(nextUsed) \in Indices  BY <1>4, SuccIs
  <2>2. AnsweredLength' = Gap(lastSeen, Succ(nextUsed))  BY <1>3 DEF AnsweredLength
  <2>3. AnsweredLength' # 0  BY <1>4, <1>8
  <2>. QED  BY <1>3, <1>4, <2>1, <2>2, <2>3, GapIs
<1>14. CursorInv'
  <2>1. nextUsed' = Succ(usedIdx')  BY <1>1, <1>3 DEF BlkInv, CursorInv
  <2>. QED  BY <1>1, <1>12, <1>13, <2>1 DEF CursorInv, InHand
<1>. QED  BY <1>9, <1>11, <1>14

\* The driver starts over with nothing in flight: both windows are empty.
LEMMA ResetKeepsQueue ==
  ASSUME BlkInv, Reset
  PROVE  QueueInv' /\ StatusInv' /\ CursorInv'
<1>1. /\ \A h \in Heads : chain[h] = NoRequest
      /\ UNCHANGED <<chain, status, availIdx, usedIdx, at, snap, head, outcome,
                     lastAvail, nextUsed, lastSeen, outside>> /\ at = "idle"
  BY DEF Reset, Quiescent, inHand, cursors, driver
<1>2. /\ FirstWaiting \in Indices /\ availIdx \in Indices
      /\ lastSeen \in Indices /\ nextUsed \in Indices
  BY CursorsAreIndices DEF BlkInv
<1>3. \A h \in Heads : ~ Holds(Waiting, h) /\ ~ Holds(Answered, h)
  BY <1>1 DEF BlkInv, QueueInv
<1>4. FirstWaiting = availIdx
  BY <1>2, <1>3, WindowShrinks DEF BlkInv, QueueInv, Waiting, WaitingLength
<1>5. lastSeen = nextUsed
  BY <1>2, <1>3, WindowShrinks DEF BlkInv, QueueInv, Answered, AnsweredLength
<1>6. FirstWaiting' = FirstWaiting  BY <1>1 DEF FirstWaiting
<1>7. /\ Waiting' = Window(availRing', availIdx, availIdx)
      /\ Answered' = Window(usedRing', nextUsed, nextUsed)
      /\ WaitingLength' = Gap(availIdx, availIdx) /\ AnsweredLength' = Gap(nextUsed, nextUsed)
  BY <1>1, <1>4, <1>5, <1>6 DEF Waiting, Answered, WaitingLength, AnsweredLength
<1>8. /\ OnceEach(Waiting', WaitingLength') /\ OnceEach(Answered', AnsweredLength')
      /\ \A h : ~ Holds(Waiting', h) /\ ~ Holds(Answered', h)
  BY <1>2, <1>7, EmptyWindow
<1>9. QueueInv'  BY <1>1, <1>8 DEF QueueInv
<1>10. StatusInv'  BY <1>1, <1>3, <1>8 DEF BlkInv, StatusInv
<1>11. CursorInv'  BY <1>1, <1>6 DEF BlkInv, CursorInv, InHand
<1>. QED  BY <1>9, <1>10, <1>11

\* The steps that move no request from one place to another.
LEMMA ServeKeepsQueue ==
  ASSUME BlkInv, Serve
  PROVE  QueueInv' /\ StatusInv' /\ CursorInv'
<1>1. /\ at = "serve"
      /\ UNCHANGED <<chain, status, availRing, availIdx, usedRing, usedIdx,
                     lastAvail, nextUsed, lastSeen, ready, outside>>
  BY DEF Serve, queue, cursors, driver
<1>2. chain[head] \in Requests \cup {NoRequest}  BY DEF BlkInv, TypeOK
<1>3. \/ GiveUp
      \/ at' \in {"mute", "status"} /\ snap' = snap /\ head' = head
         /\ outcome'.status \in Statuses
  <2>1. PICK r \in Found(head) :
          \/ r.chain = "broken" /\ GiveUp
          \/ /\ r.chain # "broken"
             /\ \E s \in ServiceRequest(r, IF r = chain[head] THEN buffer[head] ELSE r.value) :
                  outcome' = s.reply
             /\ at' \in {"mute", "status"} /\ snap' = snap /\ head' = head
    BY DEF Serve
  <2>2. r.chain # "broken" => r \in Requests  BY <1>2, FoundIsRequest
  <2>. QED  BY <2>1, <2>2, ServiceReplies
<1>4. FirstWaiting' = FirstWaiting  BY <1>1, <1>3 DEF FirstWaiting, GiveUp
<1>5. Waiting' = Waiting /\ Answered' = Answered
      /\ WaitingLength' = WaitingLength /\ AnsweredLength' = AnsweredLength
  BY <1>1, <1>4, QueueStays
<1>6. QueueInv'  BY <1>1, <1>5 DEF BlkInv, QueueInv
<1>7. StatusInv'  BY <1>1, <1>3, <1>5 DEF BlkInv, StatusInv, GiveUp
<1>8. CursorInv'
  <2>1. CASE GiveUp  BY <1>1, <2>1 DEF BlkInv, CursorInv, GiveUp, InHand
  <2>2. CASE at' \in {"mute", "status"} /\ snap' = snap /\ head' = head
             /\ outcome'.status \in Statuses
    BY <1>1, <1>4, <1>5, <2>2 DEF BlkInv, CursorInv, InHand
  <2>. QED  BY <1>3, <2>1, <2>2
<1>. QED  BY <1>6, <1>7, <1>8

LEMMA FetchKeepsQueue ==
  ASSUME BlkInv, Fetch
  PROVE  QueueInv' /\ StatusInv' /\ CursorInv'
<1>1. /\ at = "loop"
      /\ UNCHANGED <<chain, status, availRing, availIdx, usedRing, usedIdx,
                     lastAvail, nextUsed, lastSeen, ready, outside>>
  BY DEF Fetch, guestMemory, queue, cursors, driver
<1>2. \/ GiveUp
      \/ /\ lastAvail # snap /\ at' = "serve" /\ head' = availRing[Slot(lastAvail)]
         /\ UNCHANGED <<snap, outcome>>
  BY DEF Fetch
<1>3. FirstWaiting' = FirstWaiting /\ FirstWaiting = lastAvail
  BY <1>1, <1>2 DEF FirstWaiting, GiveUp
<1>4. Waiting' = Waiting /\ Answered' = Answered
      /\ WaitingLength' = WaitingLength /\ AnsweredLength' = AnsweredLength
  BY <1>1, <1>3, QueueStays
<1>5. QueueInv'  BY <1>1, <1>4 DEF BlkInv, QueueInv
<1>6. StatusInv'  BY <1>1, <1>2, <1>4 DEF BlkInv, StatusInv, GiveUp
<1>7. CursorInv'
  <2>1. CASE GiveUp  BY <1>1, <2>1 DEF BlkInv, CursorInv, GiveUp, InHand
  <2>2. CASE /\ lastAvail # snap /\ at' = "serve" /\ head' = availRing[Slot(lastAvail)]
             /\ UNCHANGED <<snap, outcome>>
    <3>1. /\ FirstWaiting \in Indices /\ availIdx \in Indices /\ snap \in Indices
          /\ WaitingLength \in Nat /\ Gap(FirstWaiting, snap) \in Nat
      BY CursorsAreIndices, GapIs, RingAssumption DEF BlkInv
    <3>2. Gap(FirstWaiting, snap) <= WaitingLength /\ Gap(FirstWaiting, snap) # 0
      BY <1>1, <1>3, <2>2, <3>1, GapIs DEF BlkInv, CursorInv
    <3>3. FirstWaiting # availIdx  BY <3>1, <3>2, GapIs DEF WaitingLength
    <3>4. Waiting[0] = availRing[Slot(FirstWaiting)]
      BY <3>1, <3>3, WindowShrinks DEF BlkInv, QueueInv, Waiting, WaitingLength
    <3>. QED  BY <1>1, <1>3, <1>4, <2>2, <3>2, <3>4 DEF BlkInv, CursorInv, InHand
  <2>. QED  BY <1>2, <2>1, <2>2
<1>. QED  BY <1>5, <1>6, <1>7

LEMMA CallKeepsQueue ==
  ASSUME BlkInv,
         \/ (\E h \in Heads : Notify(h)) \/ WriteStatus \/ StatusFails \/ UsedFails
         \/ Publish \/ Signal
  PROVE  QueueInv' /\ StatusInv' /\ CursorInv'
<1>1. /\ UNCHANGED <<chain, availRing, availIdx, usedRing, nextUsed, lastSeen, ready, outside>>
      /\ FirstWaiting' = FirstWaiting
  BY DEF Notify, WriteStatus, StatusFails, UsedFails, Publish, Signal, GiveUp, FirstWaiting,
         guestMemory, inHand, cursors, queue, driver
<1>2. Waiting' = Waiting /\ Answered' = Answered
      /\ WaitingLength' = WaitingLength /\ AnsweredLength' = AnsweredLength
  BY <1>1, QueueStays
<1>3. QueueInv'  BY <1>1, <1>2 DEF BlkInv, QueueInv
<1>4. CASE \E h \in Heads : Notify(h)
  <2>1. UNCHANGED <<status, usedIdx, head, outcome, lastAvail>> /\ at = "idle"
        /\ (\/ at' = "loop" /\ snap' = availIdx
            \/ UNCHANGED <<at, snap>>)
    BY <1>4 DEF Notify, guestMemory, cursors
  <2>2. StatusInv'  BY <1>1, <1>2, <2>1 DEF BlkInv, StatusInv
  <2>3. Gap(FirstWaiting, availIdx) <= WaitingLength
    BY CursorsAreIndices DEF BlkInv, WaitingLength
  <2>4. CursorInv'  BY <1>1, <1>2, <2>1, <2>3 DEF BlkInv, CursorInv, InHand
  <2>. QED  BY <1>3, <2>2, <2>4
<1>5. CASE WriteStatus
  <2>1. /\ at = "status" /\ at' = "used" /\ status' = [status EXCEPT ![head] = outcome.status]
        /\ UNCHANGED <<usedIdx, snap, head, outcome, lastAvail>>
    BY <1>5 DEF WriteStatus, inHand, cursors
  <2>2. head \in Heads /\ ~ Holds(Answered, head) /\ chain[head] # NoRequest
    BY <2>1, HandIsWaiting DEF InHand
  <2>3. DOMAIN status = Heads  BY DEF BlkInv, TypeOK
  <2>4. StatusInv'  BY <1>1, <1>2, <2>1, <2>2, <2>3 DEF BlkInv, StatusInv
  <2>5. CursorInv'  BY <1>1, <1>2, <2>1 DEF BlkInv, CursorInv, InHand
  <2>. QED  BY <1>3, <2>4, <2>5
<1>6. CASE StatusFails
  <2>1. at = "mute" /\ at' = "idle" /\ UNCHANGED <<status, usedIdx, lastAvail>>
    BY <1>6 DEF StatusFails, GiveUp, guestMemory, cursors
  <2>2. StatusInv'  BY <1>1, <1>2, <2>1 DEF BlkInv, StatusInv
  <2>3. CursorInv'  BY <1>1, <1>2, <2>1 DEF BlkInv, CursorInv, InHand
  <2>. QED  BY <1>3, <2>2, <2>3
<1>9. CASE UsedFails
  <2>1. /\ at = "used" /\ at' = "idle" /\ outside # {}
        /\ UNCHANGED <<status, usedIdx, lastAvail>>
    BY <1>9 DEF UsedFails, GiveUp, guestMemory, cursors
  <2>2. StatusInv'  BY <1>1, <1>2, <2>1 DEF BlkInv, StatusInv
  <2>3. CursorInv'  BY <1>1, <1>2, <2>1 DEF BlkInv, CursorInv, InHand
  <2>. QED  BY <1>3, <2>2, <2>3
<1>7. CASE Publish
  <2>1. at = "publish" /\ at' = "signal" /\ usedIdx' = nextUsed
        /\ UNCHANGED <<status, snap, head, lastAvail>>
    BY <1>7 DEF Publish, cursors
  <2>2. StatusInv'  BY <1>1, <1>2, <2>1 DEF BlkInv, StatusInv
  <2>3. CursorInv'  BY <1>1, <1>2, <2>1 DEF BlkInv, CursorInv, InHand
  <2>. QED  BY <1>3, <2>2, <2>3
<1>8. CASE Signal
  <2>1. at = "signal" /\ at' = "loop" /\ UNCHANGED <<status, usedIdx, snap, outcome>>
    BY <1>8 DEF Signal, guestMemory
  <2>2. StatusInv'  BY <1>1, <1>2, <2>1 DEF BlkInv, StatusInv
  <2>3. CursorInv'  BY <1>1, <1>2, <2>1 DEF BlkInv, CursorInv, InHand
  <2>. QED  BY <1>3, <2>2, <2>3
<1>. QED  BY <1>4, <1>5, <1>6, <1>7, <1>8, <1>9

LEMMA IrqKeepsQueue ==
  ASSUME BlkInv,
         \/ Setup \/ TakeIrq \/ Drained \/ ReadInterruptStatus \/ AckInterrupt
         \/ UNCHANGED vars
  PROVE  QueueInv' /\ StatusInv' /\ CursorInv'
<1>1. /\ UNCHANGED <<chain, status, availRing, availIdx, usedRing, usedIdx, at, snap, head,
                     outcome, lastAvail, nextUsed, lastSeen>>
      /\ UNCHANGED <<ready, outside>> \/ ~ ready
  BY DEF Setup, TakeIrq, Drained, ReadInterruptStatus, AckInterrupt, vars, guestMemory,
         inHand, cursors, queue, device, driver
<1>2. FirstWaiting' = FirstWaiting  BY <1>1 DEF FirstWaiting
<1>3. Waiting' = Waiting /\ Answered' = Answered
      /\ WaitingLength' = WaitingLength /\ AnsweredLength' = AnsweredLength
  BY <1>1, <1>2, QueueStays
<1>4. QueueInv' /\ CursorInv'  BY <1>1, <1>2, <1>3 DEF BlkInv, QueueInv, CursorInv
<1>5. StatusInv'
  <2>1. CASE UNCHANGED <<ready, outside>>  BY <1>1, <1>3, <2>1 DEF BlkInv, StatusInv
  <2>2. CASE ~ ready
    <3>1. \A h \in Heads : chain[h] = NoRequest /\ status[h] = "unset" /\ ~ Holds(Answered, h)
      BY <2>2 DEF BlkInv, StatusInv, QueueInv
    <3>. QED  BY <1>1, <1>3, <3>1 DEF BlkInv, StatusInv
  <2>. QED  BY <1>1, <2>1, <2>2
<1>. QED  BY <1>4, <1>5

LEMMA BlkNext == BlkInv /\ [Next]_vars => BlkInv'
<1> SUFFICES ASSUME BlkInv, [Next]_vars PROVE BlkInv'  OBVIOUS
<1>1. TypeOK'  BY TypeNext DEF BlkInv, CursorInv, OutcomeTyped
<1>2. QueueInv' /\ StatusInv' /\ CursorInv'
  <2>1. ASSUME NEW h \in Heads, NEW r \in Requests, Submit(h, r)
        PROVE  QueueInv' /\ StatusInv' /\ CursorInv'
    BY <2>1, SubmitKeepsQueue
  <2>2. CASE Reset  BY <2>2, ResetKeepsQueue
  <2>3. CASE Collect  BY <2>3, CollectKeepsQueue
  <2>4. CASE Fetch  BY <2>4, FetchKeepsQueue
  <2>5. CASE Serve  BY <2>5, ServeKeepsQueue
  <2>6. CASE WriteUsed  BY <2>6, WriteUsedKeepsQueue
  <2>7. CASE \/ (\E h \in Heads : Notify(h)) \/ WriteStatus \/ StatusFails \/ UsedFails
             \/ Publish \/ Signal
    BY <2>7, CallKeepsQueue
  <2>8. CASE \/ Setup \/ TakeIrq \/ Drained \/ ReadInterruptStatus \/ AckInterrupt
             \/ UNCHANGED vars
    BY <2>8, IrqKeepsQueue
  <2>. QED
    BY <2>1, <2>2, <2>3, <2>4, <2>5, <2>6, <2>7, <2>8 DEF Next, DeviceStep, HandlerStep
<1>. QED  BY <1>1, <1>2 DEF BlkInv

LEMMA BlkInvariant == Spec => []BlkInv
BY BlkInit, BlkNext, PTL DEF Spec

\* The entry the driver takes next is a request of its own, with a status: the
\* used index it reads is never ahead of what the device has answered.
THEOREM CompletionsAreReal == Spec => []NoPhantomCompletion
<1>1. BlkInv => NoPhantomCompletion  BY TakenIsAnswered DEF NoPhantomCompletion
<1>. QED  BY <1>1, BlkInvariant, PTL

\* What process_request works on is in flight, and the device has published
\* no completion of it that the driver has still to take.
THEOREM ServesWhatIsPublished == Spec => []OnlyPublishedServed
<1>1. ASSUME BlkInv PROVE OnlyPublishedServed
  <2> SUFFICES ASSUME at \in InHand PROVE chain[head] # NoRequest /\ head \notin Untaken
    BY DEF OnlyPublishedServed, InHand
  <2>1. chain[head] # NoRequest /\ ~ Holds(Answered, head)  BY <1>1, HandIsWaiting
  <2>2. (nextUsed + IndexWrap - lastSeen) % IndexWrap = Gap(lastSeen, nextUsed)
    <3>1. /\ IndexWrap \in Nat /\ IndexWrap # 0
          /\ nextUsed \in 0..(IndexWrap - 1) /\ lastSeen \in 0..(IndexWrap - 1)
      BY <1>1, CursorsAreIndices, RingAssumption DEF BlkInv, Indices
    <3> DEFINE x == nextUsed + IndexWrap - lastSeen
    <3>2. x \in Nat /\ x < 2 * IndexWrap  BY <3>1
    <3>3. x % IndexWrap = IF x < IndexWrap THEN x ELSE x - IndexWrap
      BY <3>1, <3>2, ModBelowTwice
    <3>4. Gap(lastSeen, nextUsed) = IF x < IndexWrap THEN x ELSE x - IndexWrap
      BY <3>1 DEF Gap
    <3>. QED  BY <3>3, <3>4
  <2>3. Untaken = {Answered[k] : k \in DOMAIN Answered}
    BY <2>2 DEF Untaken, Answered, Window, Ahead
  <2>. QED  BY <2>1, <2>3 DEF Holds
<1>. QED  BY <1>1, BlkInvariant, PTL

LEMMA InterruptNext == BlkInv /\ InterruptInv /\ [Next]_vars => InterruptInv'
<1> SUFFICES ASSUME BlkInv, InterruptInv, [Next]_vars PROVE InterruptInv'  OBVIOUS
<1> USE DEF InterruptInv, guestMemory, inHand, cursors, queue, device, driver, GiveUp
<1>1. isr \in {0, 1}  BY DEF BlkInv, TypeOK
<1>2. CASE Setup \/ Reset  BY <1>2 DEF Setup, Reset
<1>3. ASSUME NEW h \in Heads, NEW r \in Requests, Submit(h, r) PROVE InterruptInv'
  BY <1>3 DEF Submit
<1>4. ASSUME NEW h \in Heads, Notify(h) PROVE InterruptInv'  BY <1>4 DEF Notify
<1>5. CASE Fetch \/ StatusFails \/ UsedFails  BY <1>5 DEF Fetch, StatusFails, UsedFails
<1>6. CASE Serve
  <2>1. at = "serve" /\ UNCHANGED <<usedIdx, lastSeen, isr, irq, handler>>  BY <1>6 DEF Serve
  <2>. QED  BY <2>1
<1>7. CASE WriteStatus \/ WriteUsed  BY <1>7 DEF WriteStatus, WriteUsed
<1>8. CASE Publish \/ Signal  BY <1>8 DEF Publish, Signal
<1>9. CASE TakeIrq \/ ReadInterruptStatus \/ AckInterrupt
  BY <1>1, <1>9 DEF TakeIrq, ReadInterruptStatus, AckInterrupt
<1>10. CASE Collect \/ Drained  BY <1>10 DEF Collect, Drained
<1>11. CASE UNCHANGED vars  BY <1>11 DEF vars
<1>. QED
  BY <1>2, <1>3, <1>4, <1>5, <1>6, <1>7, <1>8, <1>9, <1>10, <1>11
  DEF Next, DeviceStep, HandlerStep

\* Whoever publishes a completion raises the interrupt after it, and no
\* acknowledgement can take back the bit of a completion its handler has not
\* still to look for.
THEOREM InterruptsAreNotLost == Spec => []NoLostInterrupt
<1>1. Init => InterruptInv  BY DEF Init, InterruptInv
<1>2. InterruptInv => NoLostInterrupt  BY DEF InterruptInv, NoLostInterrupt
<1>. QED  BY <1>1, <1>2, InterruptNext, BlkInvariant, PTL DEF Spec

-----------------------------------------------------------------------------
(***************************************************************************)
(* A chain that process_request cannot read, or whose status or used       *)
(* element it cannot write, ends the call and stays; when there is none, a *)
(* call serves all it has seen, and what it has not seen will be notified. *)
(***************************************************************************)
AllSound == \A r \in Requests : r.chain = "sound"

LEMMA KickNext ==
  ASSUME AllSound, Outside = {}, BlkInv, KickInv, [Next]_vars
  PROVE  KickInv'
<1> USE DEF KickInv, guestMemory, inHand, cursors, queue, device, driver
<1>1. CASE Setup  BY <1>1 DEF Setup, FirstWaiting
<1>2. CASE Reset  BY <1>2 DEF Reset, Quiescent, FirstWaiting
<1>3. ASSUME NEW h \in Heads, NEW r \in Requests, Submit(h, r) PROVE KickInv'
  BY <1>3 DEF Submit
<1>4. ASSUME NEW h \in Heads, Notify(h) PROVE KickInv'  BY <1>4 DEF Notify
<1>5. CASE Fetch  BY <1>5 DEF Fetch, GiveUp, FirstWaiting
<1>6. CASE Serve
  <2>1. at = "serve" /\ UNCHANGED <<ready, kicks, availIdx>>  BY <1>6 DEF Serve
  <2>2. chain[head] # NoRequest /\ head \in Heads  BY <2>1, HandIsWaiting DEF InHand
  <2>3. chain[head] \in Requests  BY <2>2 DEF BlkInv, TypeOK
  <2>4. at' = "status" /\ snap' = snap
    BY <1>6, <2>2, <2>3 DEF Serve, Found, AllSound
  <2>. QED  BY <2>1, <2>4
<1>7. CASE WriteStatus \/ StatusFails \/ WriteUsed
  BY <1>7 DEF WriteStatus, StatusFails, WriteUsed
<1>11. CASE UsedFails
  <2>1. outside = {}  BY DEF BlkInv, TypeOK
  <2>. QED  BY <1>11, <2>1 DEF UsedFails
<1>8. CASE Publish \/ Signal  BY <1>8 DEF Publish, Signal
<1>9. CASE TakeIrq \/ ReadInterruptStatus \/ AckInterrupt \/ Collect \/ Drained
  BY <1>9 DEF TakeIrq, ReadInterruptStatus, AckInterrupt, Collect, Drained, FirstWaiting
<1>10. CASE UNCHANGED vars  BY <1>10 DEF vars, FirstWaiting
<1>. QED
  BY <1>1, <1>2, <1>3, <1>4, <1>5, <1>6, <1>7, <1>8, <1>9, <1>10, <1>11
  DEF Next, DeviceStep, HandlerStep

\* When every notification has been dealt with, every request in flight has
\* been answered, also those published while the device was at work.
THEOREM NoRequestIsForgotten == AllSound /\ Outside = {} => (Spec => []NotifyServesAll)
<1> SUFFICES ASSUME AllSound, Outside = {} PROVE Spec => []NotifyServesAll  OBVIOUS
<1>1. Init => KickInv  BY DEF Init, KickInv, FirstWaiting
<1>2. BlkInv /\ KickInv /\ [Next]_vars => KickInv'  BY KickNext
<1>3. ASSUME BlkInv, KickInv PROVE NotifyServesAll
  <2> SUFFICES ASSUME at = "idle", kicks = {}, NEW h \in Heads, chain[h] # NoRequest
               PROVE  status[h] # "unset"
    BY DEF NotifyServesAll
  <2>1. FirstWaiting = availIdx  BY <1>3 DEF KickInv
  <2>2. ~ Holds(Waiting, h)
    BY <1>3, <2>1, CursorsAreIndices, EmptyWindow DEF BlkInv, Waiting
  <2>. QED  BY <1>3, <2>2 DEF BlkInv, QueueInv, StatusInv
<1>4. BlkInv /\ KickInv => NotifyServesAll  BY <1>3
<1>. QED  BY <1>1, <1>2, <1>4, BlkInvariant, PTL DEF Spec

-----------------------------------------------------------------------------
(***************************************************************************)
(* The device implements BlockService.                                     *)
(*                                                                         *)
(* A request is performed when service_request returns; what comes after,  *)
(* until the driver has taken the completion, hands its outcome on.  The   *)
(* mapping (ReplyOf) reads it first from the device, then from the status  *)
(* byte and the buffer: OutcomeInv says that they agree where it changes   *)
(* over.                                                                   *)
(***************************************************************************)
\* Sectors whose byte offset fits a u64, a value in the requests that write
\* one and only there, and a NoReply that is not a reply.
Mappable ==
  /\ \A r \in Requests : r.sector < SectorWrap /\ (r.type # "out" => r.value = Nothing)
  /\ \A st, data : NoReply # Reply(st, data)

\* service_request does what a block service may do.
LEMMA ServiceIsAllowed ==
  ASSUME Mappable, NEW r \in Requests, NEW v, r.type = "out" => v = r.value,
         NEW s \in ServiceRequest(r, v)
  PROVE  /\ Service!Succeeds(r, s.reply, s.disk) \/ Service!Fails(r, s.reply, s.disk)
         /\ r.type = "out" => s.reply.data = Nothing
         /\ \E st \in Statuses,
               data \in {disk[i] : i \in DOMAIN disk} \cup {Nothing, "id"} :
              s.reply = Reply(st, data)
<1>1. \A st, data, d : Served(st, data, d).reply = Reply(st, data)
                     /\ Served(st, data, d).disk = d /\ Reply(st, data).data = data
  BY DEF Served, Reply
<1>2. Service!Reply("ok", Nothing) = Reply("ok", Nothing)
      /\ \A st, data : Service!Reply(st, data) = Reply(st, data)
  BY DEF Service!Reply, Reply
<1>3. FileOffset(r.sector) = r.sector
  BY DiskAssumption, RequestAssumption DEF FileOffset, Mappable
<1>4. CASE r.type = "in"
  <2>1. \/ s = IoErr
        \/ r.buf = "rw" /\ r.sector \in DOMAIN disk /\ s = Served("ok", disk[r.sector], disk)
    BY <1>3, <1>4 DEF ServiceRequest, ServeIn
  <2>. QED
    BY <1>1, <1>2, <1>4, <2>1 DEF IoErr, Service!Succeeds, Service!Fails, Statuses
<1>5. CASE r.type = "out"
  <2> DEFINE new == WriteAllAt(disk, r.sector, r.value)
  <2>1. \/ s = IoErr \/ s = Served("ioerr", Nothing, new)
        \/ r.buf \in {"ro", "rw"} /\ s = Served("ok", Nothing, new)
    BY <1>3, <1>5 DEF ServiceRequest, ServeOut
  <2>2. new = Service!Written(disk, r.sector, r.value)
    BY DEF WriteAllAt, Service!Written
  <2> HIDE DEF new
  <2>. QED
    BY <1>1, <1>2, <1>5, <2>1, <2>2 DEF IoErr, Service!Succeeds, Service!Fails, Statuses
<1>6. CASE r.type = "flush"
  <2>1. s = IoErr \/ s = Served("ok", Nothing, disk)
    BY <1>6 DEF ServiceRequest, ServeFlush
  <2>. QED
    BY <1>1, <1>2, <1>6, <2>1 DEF IoErr, Service!Succeeds, Service!Fails, Statuses
<1>7. CASE r.type = "id"
  <2>1. \/ s = IoErr
        \/ r.buf \in {"ro", "rw", "long"} /\ s = Served("ok", "id", disk)
    BY <1>7, RequestAssumption DEF ServiceRequest, ServeId
  <2>. QED
    BY <1>1, <1>2, <1>7, <2>1 DEF IoErr, Service!Succeeds, Service!Fails, Statuses
<1>8. CASE r.type = "other"
  <2>1. s = Served("unsupp", Nothing, disk)  BY <1>8 DEF ServiceRequest
  <2>. QED  BY <1>1, <1>2, <1>8, <2>1 DEF Service!Fails, Statuses
<1>. QED  BY <1>4, <1>5, <1>6, <1>7, <1>8, RequestAssumption

\* Only a read, of the disk or of its name, that succeeds has data.
LEMMA OnlyReadsReturnData ==
  ASSUME NEW r \in Requests, NEW v, NEW s \in ServiceRequest(r, v),
         ~ (s.reply.status = "ok" /\ r.type \in {"in", "id"})
  PROVE  s.reply.data = Nothing
<1>1. \A st, data, d : /\ Served(st, data, d).reply.status = st
                       /\ Served(st, data, d).reply.data = data
  BY DEF Served, Reply
<1>2. CASE r.type = "in"  BY <1>1, <1>2 DEF ServiceRequest, ServeIn, IoErr
<1>3. CASE r.type = "out"  BY <1>1, <1>3 DEF ServiceRequest, ServeOut, IoErr
<1>4. CASE r.type = "flush"  BY <1>1, <1>4 DEF ServiceRequest, ServeFlush, IoErr
<1>5. CASE r.type = "id"  BY <1>1, <1>5 DEF ServiceRequest, ServeId, IoErr
<1>6. CASE r.type = "other"  BY <1>1, <1>6 DEF ServiceRequest
<1>. QED  BY <1>2, <1>3, <1>4, <1>5, <1>6, RequestAssumption

\* One that is not reported may be done all the same, and only a write shows.
LEMMA ServiceLeaves ==
  ASSUME Mappable, NEW r \in Requests, NEW v, r.type = "out" => v = r.value,
         NEW s \in ServiceRequest(r, v)
  PROVE  \/ s.disk = disk
         \/ Service!Succeeds(r, Service!Reply("ok", Nothing), s.disk)
         \/ Service!Fails(r, Service!Reply("ioerr", Nothing), s.disk)
<1>1. \A st, data, d : Served(st, data, d).disk = d  BY DEF Served
<1>2. CASE r.type = "out"
  <2>1. FileOffset(r.sector) = r.sector
    BY DiskAssumption, RequestAssumption DEF FileOffset, Mappable
  <2> DEFINE new == WriteAllAt(disk, r.sector, r.value)
  <2>2. s.disk = disk \/ s.disk = new
    BY <1>1, <1>2, <2>1 DEF ServiceRequest, ServeOut, IoErr
  <2>3. new = Service!Written(disk, r.sector, r.value)
    BY DEF WriteAllAt, Service!Written
  <2> HIDE DEF new
  <2>. QED  BY <1>2, <2>2, <2>3 DEF Service!Fails
<1>3. CASE r.type # "out"
  <2>1. s.disk = disk
    BY <1>1, <1>3, RequestAssumption
    DEF ServiceRequest, ServeIn, ServeFlush, ServeId, IoErr
  <2>. QED  BY <2>1
<1>. QED  BY <1>2, <1>3

\* What the device has just answered is not what the driver takes next.
LEMMA PublishedIsLast ==
  ASSUME BlkInv, OutcomeInv, at = "publish"
  PROVE  /\ head \in Heads /\ Holds(Answered, head)
         /\ lastSeen # usedIdx => head # usedRing[Slot(lastSeen)]
<1> DEFINE n == Gap(lastSeen, usedIdx)
<1>1. /\ lastSeen \in Indices /\ nextUsed \in Indices /\ usedIdx \in Indices
      /\ AnsweredLength \in Nat
  BY CursorsAreIndices DEF BlkInv
<1>2. nextUsed = Succ(usedIdx) /\ lastSeen # nextUsed  BY DEF BlkInv, CursorInv
<1>3. OnceEach(Answered, AnsweredLength)  BY DEF BlkInv, QueueInv
<1>4. AnsweredLength <= QueueSize /\ QueueSize < IndexWrap
      /\ QueueSize \in Nat /\ IndexWrap \in Nat
  BY <1>1, <1>3, WindowIsShort, RingAssumption
<1>5. n \in 0..(IndexWrap - 1)  BY <1>1, GapIs
<1>6. AnsweredLength # 0  BY <1>1, <1>2, GapIs DEF AnsweredLength
<1>7. n < IndexWrap - 1
  <2>1. SUFFICES ASSUME n = IndexWrap - 1 PROVE FALSE  BY <1>4, <1>5
  <2>2. nextUsed = lastSeen
    BY <1>1, <1>2, <2>1, SuccIs, RingAssumption DEF Gap, Indices
  <2>. QED  BY <1>2, <2>2
<1>8. AnsweredLength = n + 1  BY <1>1, <1>2, <1>7, GapIs DEF AnsweredLength
<1>9. DOMAIN Answered = 0..(AnsweredLength - 1)  BY DEF Answered, Window, AnsweredLength
<1>10. n \in 0..(AnsweredLength - 1) /\ 0 \in 0..(AnsweredLength - 1)  BY <1>5, <1>8, <1>4
<1>11. Ahead(lastSeen, n) = usedIdx /\ Ahead(lastSeen, 0) = lastSeen
  BY <1>1, <1>4, <1>5, <1>8, AheadOf
<1>12. Answered[n] = usedRing[Slot(usedIdx)] /\ Answered[0] = usedRing[Slot(lastSeen)]
  BY <1>10, <1>11 DEF Answered, Window, AnsweredLength
<1>13. head = Answered[n]  BY <1>12 DEF OutcomeInv
<1>14. head \in Heads /\ Holds(Answered, head)
  BY <1>3, <1>9, <1>10, <1>13 DEF OnceEach, Holds
<1>15. lastSeen # usedIdx => n # 0  BY <1>1, GapIs
<1>16. n # 0 => Answered[n] # Answered[0]  BY <1>3, <1>10 DEF OnceEach
<1>. QED  BY <1>12, <1>13, <1>14, <1>15, <1>16

LEMMA ServeKeepsOutcome ==
  ASSUME Mappable, BlkInv, OutcomeInv, Serve
  PROVE  OutcomeInv'
<1>1. /\ at = "serve" /\ UNCHANGED <<chain, status, usedRing, usedIdx>>  BY DEF Serve
<1>2. head \in Heads /\ chain[head] # NoRequest /\ chain[head] \in Requests
  <2>1. head \in Heads /\ chain[head] # NoRequest  BY <1>1, HandIsWaiting DEF InHand
  <2>. QED  BY <2>1 DEF BlkInv, TypeOK
<1>3. CASE GiveUp /\ buffer' = buffer
  BY <1>1, <1>3 DEF OutcomeInv, GiveUp
<1>4. CASE /\ \E s \in ServiceRequest(chain[head], buffer[head]) :
                /\ outcome' = s.reply
                /\ buffer' = [buffer EXCEPT ![head] =
                                IF s.reply.status = "ok" /\ chain[head].type \in {"in", "id"}
                                THEN s.reply.data ELSE @]
           /\ at' = (IF chain[head].chain = "mute" THEN "mute" ELSE "status") /\ head' = head
  <2> DEFINE r == chain[head]
  <2>1. PICK s \in ServiceRequest(r, buffer[head]) :
          /\ outcome' = s.reply
          /\ buffer' = [buffer EXCEPT ![head] =
                          IF s.reply.status = "ok" /\ r.type \in {"in", "id"}
                          THEN s.reply.data ELSE @]
    BY <1>4
  <2>4. s.reply = Reply(s.reply.status, s.reply.data)  BY <1>2, ServiceReplies
  <2>5. DOMAIN buffer = Heads  BY DEF OutcomeInv
  <2>6. \A h \in Heads : h # head => buffer'[h] = buffer[h]  BY <2>1, <2>5
  <2>8. s.reply = Reply(s.reply.status,
                        IF s.reply.status = "ok" /\ r.type # "out" THEN buffer'[head] ELSE Nothing)
    <3>1. CASE s.reply.status = "ok" /\ r.type \in {"in", "id"}
      BY <1>2, <2>1, <2>4, <2>5, <3>1
    <3>2. CASE ~ (s.reply.status = "ok" /\ r.type \in {"in", "id"})
      <4>1. buffer'[head] = buffer[head]  BY <1>2, <2>1, <2>5, <3>2
      <4>2. r.type \notin {"in", "id", "out"} => buffer[head] = Nothing
        BY <1>2 DEF OutcomeInv, Mappable
      <4>3. s.reply.data = Nothing  BY <1>2, <3>2, OnlyReadsReturnData
      <4>. QED  BY <2>4, <3>2, <4>1, <4>2, <4>3
    <3>. QED  BY <3>1, <3>2
  <2>9. ASSUME NEW h \in Heads, chain[h] # NoRequest
        PROVE  buffer'[h] = chain[h].value \/ chain[h].type \in {"in", "id"}
    <3>1. CASE h # head  BY <2>6, <2>9, <3>1 DEF OutcomeInv
    <3>2. CASE h = head  BY <1>2, <2>1, <2>5, <3>2 DEF OutcomeInv
    <3>. QED  BY <3>1, <3>2
  <2>10. outcome' = Told(head, outcome.status)'  BY <1>1, <1>4, <2>1, <2>8 DEF Told
  <2>11. DOMAIN buffer' = Heads  BY <2>1, <2>5
  <2>. QED  BY <1>1, <1>4, <2>9, <2>10, <2>11 DEF OutcomeInv
<1>5. Found(head) = {chain[head]}  BY <1>2 DEF Found
<1>. QED  BY <1>3, <1>4, <1>5 DEF Serve

LEMMA OutcomeNext ==
  ASSUME Mappable, BlkInv, OutcomeInv, [Next]_vars
  PROVE  OutcomeInv'
<1> USE DEF OutcomeInv, Told, guestMemory, inHand, cursors, queue, device, driver, GiveUp
<1>1. DOMAIN chain = Heads /\ DOMAIN status = Heads  BY DEF BlkInv, TypeOK
<1>2. CASE Setup \/ TakeIrq \/ ReadInterruptStatus \/ AckInterrupt \/ Drained \/ UNCHANGED vars
  BY <1>2 DEF Setup, TakeIrq, ReadInterruptStatus, AckInterrupt, Drained, vars
<1>3. CASE Reset  BY <1>3 DEF Reset, Quiescent
<1>4. ASSUME NEW h \in Heads, NEW r \in Requests, Submit(h, r) PROVE OutcomeInv'
  <2>1. at \in {"status", "used", "publish"} => head # h
    BY <1>4, HandIsWaiting, PublishedIsLast DEF Submit, InHand, BlkInv, QueueInv
  <2>2. chain[h] = NoRequest  BY <1>4 DEF Submit
  <2>. QED  BY <1>1, <1>4, <2>1, <2>2 DEF Submit
<1>5. CASE Collect
  <2> DEFINE h == usedRing[Slot(lastSeen)]
  <2>1. h \in Heads /\ lastSeen # usedIdx  BY <1>5, TakenIsAnswered DEF Collect
  <2>2. Holds(Answered, h)  BY <2>1, TakenIsAnswered
  <2>3. at \in {"status", "used", "publish"} => head # h
    BY <2>1, <2>2, HandIsWaiting, PublishedIsLast DEF InHand
  <2>4. /\ chain' = [chain EXCEPT ![h] = NoRequest]
        /\ buffer' = [buffer EXCEPT ![h] = Nothing]
        /\ status' = [status EXCEPT ![h] = "unset"]
        /\ UNCHANGED <<usedRing, usedIdx, at, head, outcome>>
    BY <1>5 DEF Collect
  <2> HIDE DEF h
  <2>5. at \in {"status", "used", "publish"} => head \in Heads
    BY HandIsWaiting, PublishedIsLast DEF InHand
  <2>. QED  BY <1>1, <2>1, <2>3, <2>4, <2>5
<1>6. ASSUME NEW h \in Heads, Notify(h) PROVE OutcomeInv'  BY <1>6 DEF Notify
<1>7. CASE Fetch \/ StatusFails \/ UsedFails  BY <1>7 DEF Fetch, StatusFails, UsedFails
<1>8. CASE Serve  BY <1>8, ServeKeepsOutcome
<1>9. CASE WriteStatus
  <2>1. head \in Heads /\ outcome.status # "unset"
    BY <1>9, HandIsWaiting DEF WriteStatus, InHand, BlkInv, CursorInv, Statuses
  <2>. QED  BY <1>1, <1>9, <2>1 DEF WriteStatus
<1>10. CASE WriteUsed
  <2>1. status[head] = outcome.status  BY <1>10, HandIsWaiting DEF WriteUsed, InHand
  <2>2. usedIdx = nextUsed /\ nextUsed \in Indices
    BY <1>10, CursorsAreIndices DEF WriteUsed, BlkInv, CursorInv
  <2>3. Slot(nextUsed) \in DOMAIN usedRing
    BY <2>2, SlotType, RingAssumption DEF BlkInv, TypeOK, Indices
  <2>. QED  BY <1>10, <2>1, <2>2, <2>3 DEF WriteUsed
<1>11. CASE Publish \/ Signal  BY <1>11 DEF Publish, Signal
<1>. QED
  BY <1>2, <1>3, <1>4, <1>5, <1>6, <1>7, <1>8, <1>9, <1>10, <1>11
  DEF Next, DeviceStep, HandlerStep

Replies == [h \in Heads |-> ReplyOf(h)]

\* A step that changes neither the disk, nor a request, nor a reply.
LEMMA Stutters ==
  ASSUME UNCHANGED <<disk, chain, outside>>, \A h \in Heads : ReplyOf(h)' = ReplyOf(h)
  PROVE  UNCHANGED Service!blockVars
BY DEF Service!blockVars

\* Where a reply is read from.
LEMMA ReplyIs ==
  ASSUME NEW h \in Heads
  PROVE  /\ at \in {"status", "used", "publish"} /\ h = head => ReplyOf(h) = outcome
         /\ ~ (at \in {"status", "used", "publish"} /\ h = head) /\ status[h] = "unset" =>
              ReplyOf(h) = NoReply
         /\ ~ (at \in {"status", "used", "publish"} /\ h = head) /\ status[h] # "unset" =>
              ReplyOf(h) = Told(h, status[h])
BY DEF ReplyOf, Told

LEMMA SubmitMaps ==
  ASSUME Mappable, BlkInv, OutcomeInv, NEW h \in Heads, NEW r \in Requests, Submit(h, r)
  PROVE  Service!Submit(h, r)
<1>1. /\ chain[h] = NoRequest /\ disk' = disk
      /\ chain' = [chain EXCEPT ![h] = r]
      /\ buffer' = [buffer EXCEPT ![h] = r.value]
      /\ status' = [status EXCEPT ![h] = "unset"]
      /\ UNCHANGED <<outside, at, head, outcome>>
  BY DEF Submit, queue, device, inHand
<1>2. DOMAIN chain = Heads /\ DOMAIN status = Heads /\ DOMAIN buffer = Heads
  BY DEF BlkInv, TypeOK, OutcomeInv
<1>3. ~ Holds(Waiting, h) /\ ~ Holds(Answered, h)  BY <1>1 DEF BlkInv, QueueInv
<1>4. at \in {"status", "used", "publish"} => head # h
  BY <1>3, HandIsWaiting, PublishedIsLast DEF InHand
<1>5. status[h] = "unset"  BY <1>1 DEF BlkInv, StatusInv
<1>6. ReplyOf(h)' = ReplyOf(h)  BY <1>1, <1>2, <1>4, <1>5 DEF ReplyOf
<1>7. \A g \in Heads : g # h => ReplyOf(g)' = ReplyOf(g)  BY <1>1, <1>2 DEF ReplyOf
<1>. QED  BY <1>1, <1>6, <1>7 DEF Service!Submit

LEMMA CollectMaps ==
  ASSUME Mappable, BlkInv, OutcomeInv, Collect
  PROVE  \E h \in Heads : Service!Complete(h)
<1>1. PICK h \in Heads : /\ h = usedRing[Slot(lastSeen)] /\ lastSeen # usedIdx
                         /\ Holds(Answered, h) /\ status[h] # "unset"
  BY TakenIsAnswered DEF Collect
<1>2. at \in {"status", "used", "publish"} => head # h
  BY <1>1, HandIsWaiting, PublishedIsLast DEF InHand
<1>3. /\ chain' = [chain EXCEPT ![h] = NoRequest]
      /\ buffer' = [buffer EXCEPT ![h] = Nothing]
      /\ status' = [status EXCEPT ![h] = "unset"]
      /\ UNCHANGED <<disk, outside, at, head, outcome>>
  BY <1>1 DEF Collect, queue, device, inHand
<1>4. DOMAIN chain = Heads /\ DOMAIN status = Heads /\ DOMAIN buffer = Heads
  BY DEF BlkInv, TypeOK, OutcomeInv
<1>5. ReplyOf(h) # NoReply  BY <1>1, <1>2, ReplyIs DEF Told, Mappable
<1>6. ReplyOf(h)' = NoReply  BY <1>1, <1>2, <1>3, <1>4 DEF ReplyOf
<1>7. \A g \in Heads : g # h => ReplyOf(g)' = ReplyOf(g)  BY <1>3, <1>4 DEF ReplyOf
<1>8. Replies' = [Replies EXCEPT ![h] = NoReply]  BY <1>1, <1>6, <1>7 DEF Replies
<1>. QED  BY <1>1, <1>3, <1>5, <1>8 DEF Service!Complete, Replies

LEMMA ServeMaps ==
  ASSUME Mappable, BlkInv, OutcomeInv, Serve
  PROVE  \/ \E h \in Heads : Service!Perform(h) \/ Service!Attempt(h)
         \/ UNCHANGED Service!blockVars
<1>1. at = "serve" /\ UNCHANGED <<chain, status, outside>>  BY DEF Serve, queue
<1>2. head \in Heads /\ chain[head] # NoRequest /\ chain[head] \in Requests
  <2>1. head \in Heads /\ chain[head] # NoRequest  BY <1>1, HandIsWaiting DEF InHand
  <2>. QED  BY <2>1 DEF BlkInv, TypeOK
<1>3. DOMAIN buffer = Heads  BY DEF OutcomeInv
<1>4. chain[head].type = "out" => buffer[head] = chain[head].value
  BY <1>2 DEF OutcomeInv
<1> PICK g \in Heads : g = head  BY <1>2
<1>5. /\ ReplyOf(g) = NoReply \/ outside # {}
      /\ chain[head].chain = "mute" => ReplyOf(g) = NoReply
  BY <1>1, <1>2, HandIsWaiting, ReplyIs DEF OutcomeInv, InHand
<1>6. Found(head) = {chain[head]}  BY <1>2 DEF Found
<1>7. CASE GiveUp /\ UNCHANGED <<disk, buffer>>
  <2>1. \A h \in Heads : ReplyOf(h)' = ReplyOf(h)  BY <1>1, <1>7 DEF GiveUp, ReplyOf
  <2>. QED  BY <1>1, <1>7, <2>1, Stutters
<1>8. ASSUME NEW s \in ServiceRequest(chain[head], buffer[head]),
             disk' = s.disk, outcome' = s.reply,
             buffer' = [buffer EXCEPT ![head] =
                          IF s.reply.status = "ok" /\ chain[head].type \in {"in", "id"}
                                THEN s.reply.data ELSE @],
             at' = (IF chain[head].chain = "mute" THEN "mute" ELSE "status"), head' = head
      PROVE  \/ \E h \in Heads : Service!Perform(h) \/ Service!Attempt(h)
             \/ UNCHANGED Service!blockVars
  <2>1. \A h \in Heads : h # g => ReplyOf(h)' = ReplyOf(h)
    BY <1>1, <1>3, <1>8 DEF ReplyOf
  <2>2. CASE chain[head].chain = "mute"
    <3>1. ReplyOf(g)' = NoReply  BY <1>1, <1>2, <1>8, <2>2 DEF ReplyOf, OutcomeInv
    <3>2. \A h \in Heads : ReplyOf(h)' = ReplyOf(h)  BY <1>5, <2>1, <2>2, <3>1
    <3>3. \/ disk' = disk
          \/ Service!Succeeds(chain[head], Service!Reply("ok", Nothing), disk')
          \/ Service!Fails(chain[head], Service!Reply("ioerr", Nothing), disk')
      BY <1>2, <1>4, <1>8, ServiceLeaves
    <3>4. CASE disk' = disk  BY <1>1, <3>2, <3>4, Stutters
    <3>5. CASE \/ Service!Succeeds(chain[head], Service!Reply("ok", Nothing), disk')
               \/ Service!Fails(chain[head], Service!Reply("ioerr", Nothing), disk')
      <4>1. Replies' = Replies  BY <3>2 DEF Replies
      <4>2. Service!Attempt(g)  BY <1>1, <1>2, <2>2, <3>5, <4>1 DEF Service!Attempt, Replies
      <4>. QED  BY <1>2, <4>2
    <3>. QED  BY <3>3, <3>4, <3>5
  <2>3. CASE chain[head].chain # "mute"
    <3>1. ReplyOf(g)' = s.reply  BY <1>8, <2>3 DEF ReplyOf
    <3>2. Replies' = [Replies EXCEPT ![g] = s.reply]
      BY <1>2, <2>1, <3>1 DEF Replies
    <3>3. Replies'[g] = s.reply /\ (Replies[g] = NoReply \/ outside # {})
      BY <1>2, <1>5, <3>1 DEF Replies
    <3>4. \/ Service!Succeeds(chain[head], s.reply, disk')
          \/ Service!Fails(chain[head], s.reply, disk')
      BY <1>2, <1>4, <1>8, ServiceIsAllowed
    <3>5. PICK st \in Statuses, data \in {disk[i] : i \in DOMAIN disk} \cup {Nothing, "id"} :
            s.reply = Reply(st, data)
      BY <1>2, <1>4, ServiceIsAllowed
    <3>6. Replies' = [Replies EXCEPT ![g] = Service!Reply(st, data)]
      BY <3>2, <3>5 DEF Reply, Service!Reply
    <3>7. Service!Perform(g)
      BY <1>1, <1>2, <3>3, <3>4, <3>5, <3>6 DEF Service!Perform, Replies, Statuses
    <3>. QED  BY <1>2, <3>7
  <2>. QED  BY <2>2, <2>3
<1>. QED  BY <1>6, <1>7, <1>8 DEF Serve

LEMMA SetupMaps ==
  ASSUME BlkInv, OutcomeInv, Setup
  PROVE  Service!Place
<1>1. /\ ~ ready /\ outside' \in {{}, Outside}
      /\ UNCHANGED <<disk, chain, status, buffer, at, head, outcome>>
  BY DEF Setup, guestMemory, inHand
<1>2. \A h \in Heads : chain[h] = NoRequest  BY <1>1 DEF BlkInv, StatusInv
<1>3. \A h \in Heads : ReplyOf(h)' = ReplyOf(h)  BY <1>1 DEF ReplyOf
<1>. QED  BY <1>1, <1>2, <1>3 DEF Service!Place

\* The steps that hand outcomes on, and those of the driver and the interrupt.
LEMMA OtherStepsStutter ==
  ASSUME BlkInv, OutcomeInv,
         \/ Reset \/ (\E h \in Heads : Notify(h))
         \/ Fetch \/ WriteStatus \/ StatusFails \/ WriteUsed \/ UsedFails \/ Publish \/ Signal
         \/ TakeIrq \/ ReadInterruptStatus \/ AckInterrupt \/ Drained
         \/ UNCHANGED vars
  PROVE  UNCHANGED Service!blockVars
<1> USE DEF guestMemory, inHand, cursors, queue, device, driver, GiveUp
<1>1. UNCHANGED <<disk, chain, outside>>
  BY DEF Reset, Notify, Fetch, WriteStatus, StatusFails, WriteUsed, UsedFails, Publish, Signal,
         TakeIrq, ReadInterruptStatus, AckInterrupt, Drained, vars
<1>2. ASSUME NEW h \in Heads PROVE ReplyOf(h)' = ReplyOf(h)
  <2>1. CASE \/ Reset \/ TakeIrq \/ ReadInterruptStatus \/ AckInterrupt \/ Drained
             \/ UNCHANGED vars
    BY <2>1 DEF Reset, TakeIrq, ReadInterruptStatus, AckInterrupt, Drained, vars, ReplyOf
  <2>2. CASE \/ (\E g \in Heads : Notify(g)) \/ Fetch \/ StatusFails \/ Signal
    BY <2>2 DEF Notify, Fetch, StatusFails, Signal, ReplyOf
  <2>3. CASE WriteStatus
    <3>1. head \in Heads  BY <2>3, HandIsWaiting DEF WriteStatus, InHand
    <3>2. DOMAIN status = Heads  BY DEF BlkInv, TypeOK
    <3>. QED  BY <2>3, <3>1, <3>2 DEF WriteStatus, ReplyOf
  <2>4. CASE WriteUsed  BY <2>4 DEF WriteUsed, ReplyOf
  <2>6. CASE UsedFails
    <3>1. /\ at = "used" /\ at' = "idle" /\ UNCHANGED <<chain, status, buffer>>
          /\ status[head] = outcome.status /\ outcome = Told(head, outcome.status)
          /\ outcome.status # "unset"
      BY <2>6, HandIsWaiting DEF UsedFails, InHand, OutcomeInv, BlkInv, CursorInv, Statuses
    <3>2. CASE h # head  BY <3>1, <3>2 DEF ReplyOf
    <3>3. CASE h = head  BY <3>1, <3>3 DEF ReplyOf, Told
    <3>. QED  BY <3>2, <3>3
  <2>5. CASE Publish
    <3>1. at = "publish" /\ at' = "signal" /\ UNCHANGED <<chain, status, buffer, head>>
      BY <2>5 DEF Publish
    <3>2. CASE h # head  BY <3>1, <3>2 DEF ReplyOf
    <3>3. CASE h = head
      <4>1. status[head] # "unset"
        BY <3>1, PublishedIsLast DEF BlkInv, StatusInv
      <4>2. ReplyOf(h) = outcome  BY <3>1, <3>3, ReplyIs
      <4>3. outcome = Told(head, status[head])  BY <3>1 DEF OutcomeInv
      <4>4. ReplyOf(h)' = Told(h, status[h])  BY <3>1, <3>3, <4>1 DEF ReplyOf, Told
      <4>. QED  BY <3>3, <4>2, <4>3, <4>4
    <3>. QED  BY <3>2, <3>3
  <2>. QED  BY <2>1, <2>2, <2>3, <2>4, <2>5, <2>6
<1>. QED  BY <1>1, <1>2, Stutters

LEMMA ServiceStep ==
  ASSUME Mappable, BlkInv, OutcomeInv, [Next]_vars
  PROVE  [Service!Next]_(Service!blockVars)
<1>1. ASSUME NEW h \in Heads, NEW r \in Requests, Submit(h, r)
      PROVE  Service!Next
  BY <1>1, SubmitMaps DEF Service!Next
<1>2. CASE Collect  BY <1>2, CollectMaps DEF Service!Next
<1>3. CASE Serve  BY <1>3, ServeMaps DEF Service!Next
<1>4. CASE \/ Reset \/ (\E h \in Heads : Notify(h))
           \/ Fetch \/ WriteStatus \/ StatusFails \/ WriteUsed \/ UsedFails \/ Publish \/ Signal
           \/ TakeIrq \/ ReadInterruptStatus \/ AckInterrupt \/ Drained
           \/ UNCHANGED vars
  BY <1>4, OtherStepsStutter
<1>5. CASE Setup  BY <1>5, SetupMaps DEF Service!Next
<1>. QED  BY <1>1, <1>2, <1>3, <1>4, <1>5 DEF Next, DeviceStep, HandlerStep

\* A guest whose sectors are addressable has a disk on which each request is
\* performed once, whole, between its submission and its completion, with the
\* outcome that it is told; also when host I/O fails, and when chains cannot be
\* read or answered.
THEOREM DeviceIsABlockService == Mappable => (Spec => IsBlockService)
<1> SUFFICES ASSUME Mappable PROVE Spec => IsBlockService  OBVIOUS
<1>1. Init => OutcomeInv  BY DEF Init, OutcomeInv
<1>2. BlkInv /\ OutcomeInv /\ [Next]_vars => OutcomeInv'  BY OutcomeNext
<1>3. Init => Service!Init  BY DEF Init, Service!Init, ReplyOf
<1>4. BlkInv /\ OutcomeInv /\ [Next]_vars => [Service!Next]_(Service!blockVars)
  BY ServiceStep
<1>. QED
  BY <1>1, <1>2, <1>3, <1>4, BlkInvariant, PTL DEF Spec, IsBlockService, Service!Spec
=============================================================================
