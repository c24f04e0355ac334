-------------------------- MODULE LedgerOpsProofs ---------------------------
(***************************************************************************)
(* What the operations of the ledger guarantee, for every set of names and *)
(* plans and every cap.  These lemmas are the common ground of the proofs  *)
(* about the ledger in memory (LedgerProofs) and about the ledger file     *)
(* that several processes share (ControlPlaneProofs).                      *)
(***************************************************************************)
EXTENDS LedgerOps, Integers, SequenceTheorems, FiniteSetTheorems,
        WellFoundedInduction, TLAPS

(***************************************************************************)
(* A non-empty set of naturals has a least element.                        *)
(***************************************************************************)
LEMMA LeastNatural ==
  ASSUME NEW T \in SUBSET Nat, T # {}
  PROVE  \E m \in T : \A k \in T : m <= k
<1>. DEFINE R == {ss \in Nat \X Nat : ss[1] < ss[2]}
<1>1. OpToRel(<, Nat) = R
  BY DEF OpToRel
<1>2. IsWellFoundedOn(R, Nat)
  BY <1>1, NatLessThanWellFounded
<1>3. ASSUME NEW k \in Nat, NEW m \in Nat, k < m
      PROVE  <<k, m>> \in R
  <2>1. <<k, m>> \in Nat \X Nat
    OBVIOUS
  <2>2. <<k, m>>[1] < <<k, m>>[2]
    BY <1>3
  <2>. QED BY <2>1, <2>2
<1>. HIDE DEF R
<1>4. PICK m \in T : \A k \in T : ~ (<<k, m>> \in R)
  BY <1>2, WFMin
<1>5. ASSUME NEW k \in T PROVE m <= k
  <2>1. k \in Nat /\ m \in Nat
    OBVIOUS
  <2>2. ~ (k < m)
    BY <1>3, <1>4, <2>1, Zenon
  <2>. QED BY <2>1, <2>2
<1>. QED BY <1>5

(***************************************************************************)
(* A set of indices up to N is finite and has at most N elements.          *)
(***************************************************************************)
LEMMA IndexSetFinite ==
  ASSUME NEW N \in Nat, NEW K \in SUBSET (1..N)
  PROVE  IsFiniteSet(K) /\ Cardinality(K) \in 0..N
<1>1. IsFiniteSet(1..N) /\ Cardinality(1..N) = N
  <2>1. 1 \in Int /\ N \in Int
    OBVIOUS
  <2>2. IsFiniteSet(1..N) /\ Cardinality(1..N) = IF 1 > N THEN 0 ELSE N - 1 + 1
    BY <2>1, FS_Interval
  <2>. QED BY <2>2
<1>2. IsFiniteSet(K) /\ Cardinality(K) <= Cardinality(1..N)
  BY <1>1, FS_Subset
<1>3. Cardinality(K) \in Nat
  BY <1>2, FS_CardinalityType
<1>. QED BY <1>1, <1>2, <1>3

(***************************************************************************)
(* Every set of indices has an increasing enumeration, so the CHOOSE of    *)
(* Enumeration is never vacuous.  By the least counterexample: if m bounds *)
(* the sets without one, then the last element of such a set is m, and     *)
(* what is left without it is bounded by m - 1.                            *)
(***************************************************************************)
LEMMA IncreasingEnumeration ==
  ASSUME NEW N \in Nat, NEW K \in SUBSET (1..N)
  PROVE  \E f : Enumerates(f, K)
<1>. DEFINE Bad == {m \in Nat : \E J \in SUBSET (1..m) : ~ \E f : Enumerates(f, J)}
<1>1. SUFFICES ASSUME N \in Bad PROVE FALSE
  OBVIOUS
<1>2. PICK m \in Bad : \A k \in Bad : m <= k
  <2>1. Bad \in SUBSET Nat /\ Bad # {}
    BY <1>1
  <2>. HIDE DEF Bad
  <2>. QED BY <2>1, LeastNatural
<1>3. PICK J \in SUBSET (1..m) : ~ \E f : Enumerates(f, J)
  BY <1>2
<1>4. m \in Nat /\ IsFiniteSet(J) /\ Cardinality(J) \in Nat
  <2>1. m \in Nat
    BY <1>2
  <2>. HIDE DEF Bad
  <2>. QED BY <2>1, IndexSetFinite
<1>5. CASE m = 0 \/ m \notin J
  <2>1. CASE m = 0
    <3>1. J = {}
      BY <2>1, <1>3
    <3>2. Cardinality(J) = 0
      BY <3>1, FS_EmptySet
    <3>3. Enumerates([i \in 1..0 |-> 0], J)
      BY <3>1, <3>2 DEF Enumerates, Increasing
    <3>. QED BY <3>3, <1>3
  <2>2. CASE m # 0
    <3>1. m - 1 \in Nat /\ J \in SUBSET (1..(m - 1))
      BY <2>2, <1>3, <1>4, <1>5
    <3>2. m - 1 \in Bad
      BY <3>1, <1>3
    <3>. HIDE DEF Bad
    <3>3. m <= m - 1
      BY <3>2, <1>2
    <3>. QED BY <3>3, <1>4
  <2>. QED BY <2>1, <2>2
<1>6. CASE m # 0 /\ m \in J
  <2>. DEFINE L == J \ {m}
              c == Cardinality(L)
  <2>1. m - 1 \in Nat /\ L \in SUBSET (1..(m - 1))
    BY <1>3, <1>4, <1>6
  <2>2. m - 1 \notin Bad
    <3>. HIDE DEF Bad
    <3>. QED BY <1>2, <1>4
  <2>3. PICK f : Enumerates(f, L)
    BY <2>1, <2>2
  <2>4. IsFiniteSet(L) /\ c \in Nat /\ Cardinality(J) = c + 1
    <3>1. IsFiniteSet(L) /\ c = Cardinality(J) - 1
      BY <1>4, <1>6, FS_RemoveElement
    <3>2. c \in Nat
      BY <3>1, FS_CardinalityType
    <3>. QED BY <3>1, <3>2, <1>4
  <2>. DEFINE g == [i \in 1..(c + 1) |-> IF i = c + 1 THEN m ELSE f[i]]
  <2>. HIDE DEF c
  <2>5. f \in [1..c -> L] /\ Increasing(f, c) /\ \A k \in L : \E i \in 1..c : f[i] = k
    BY <2>3 DEF Enumerates, c
  <2>6. g \in [1..(c + 1) -> J]
    BY <2>4, <2>5, <1>6
  <2>7. Increasing(g, c + 1)
    <3>1. SUFFICES ASSUME NEW i \in 1..(c + 1), NEW j \in 1..(c + 1), i < j
                   PROVE  g[i] < g[j]
      BY DEF Increasing
    <3>2. i \in 1..c /\ g[i] = f[i] /\ f[i] \in 1..(m - 1)
      <4>1. i \in 1..c /\ i # c + 1
        BY <3>1, <2>4
      <4>2. g[i] = f[i]
        BY <4>1, <3>1
      <4>3. f[i] \in L
        BY <4>1, <2>5
      <4>. HIDE DEF L
      <4>. QED BY <4>1, <4>2, <4>3, <2>1
    <3>3. CASE j = c + 1
      BY <3>2, <3>3, <1>4, <2>4
    <3>4. CASE j # c + 1
      BY <3>1, <3>2, <3>4, <2>4, <2>5 DEF Increasing
    <3>. QED BY <3>3, <3>4
  <2>8. \A k \in J : \E i \in 1..(c + 1) : g[i] = k
    <3>1. ASSUME NEW k \in J, k # m PROVE \E i \in 1..(c + 1) : g[i] = k
      <4>1. PICK i \in 1..c : f[i] = k
        BY <3>1, <2>5
      <4>. QED BY <4>1, <2>4
    <3>2. g[c + 1] = m /\ c + 1 \in 1..(c + 1)
      BY <2>4
    <3>. QED BY <3>1, <3>2
  <2>9. Enumerates(g, J)
    BY <2>4, <2>6, <2>7, <2>8 DEF Enumerates
  <2>. QED BY <2>9, <1>3
<1>. QED BY <1>5, <1>6

(***************************************************************************)
(* Retain: the records of the other names, all of them, in their order.    *)
(***************************************************************************)
LEMMA RetainIsSubsequence ==
  ASSUME NEW R, NEW s \in Seq(R), NEW n
  PROVE  \E f : /\ Enumerates(f, Kept(s, n))
                /\ IsFiniteSet(Kept(s, n))
                /\ Cardinality(Kept(s, n)) \in 0..Len(s)
                /\ Retain(s, n) = [i \in 1..Cardinality(Kept(s, n)) |-> s[f[i]]]
<1>. DEFINE K == Kept(s, n)
<1>1. Len(s) \in Nat /\ DOMAIN s = 1..Len(s)
  BY LenProperties
<1>2. K \in SUBSET (1..Len(s))
  BY <1>1 DEF Kept
<1>. HIDE DEF K
<1>3. IsFiniteSet(K) /\ Cardinality(K) \in 0..Len(s)
  BY <1>1, <1>2, IndexSetFinite
<1>4. \E f : Enumerates(f, K)
  BY <1>1, <1>2, IncreasingEnumeration
<1>5. \E f \in [1..Cardinality(K) -> K] : Enumerates(f, K)
  BY <1>4 DEF Enumerates
<1>6. Enumerates(Enumeration(K), K)
  BY <1>5 DEF Enumeration
<1>7. Retain(s, n) = [i \in 1..Cardinality(K) |-> s[Enumeration(K)[i]]]
  BY DEF Retain, K
<1>. QED BY <1>1, <1>3, <1>6, <1>7 DEF K

\* What callers of Retain rely on: its type and length, where its records
\* come from, and that it creates no duplicate name.
LEMMA RetainProperties ==
  ASSUME NEW R, NEW s \in Seq(R), NEW n
  PROVE  /\ Retain(s, n) \in Seq(R)
         /\ Len(Retain(s, n)) \in 0..Len(s)
         /\ \A i \in DOMAIN Retain(s, n) :
              \E k \in DOMAIN s : s[k] = Retain(s, n)[i] /\ s[k].name # n
         /\ UniqueNames(s) => UniqueNames(Retain(s, n))
<1>. DEFINE K == Kept(s, n)
            c == Cardinality(K)
            r == Retain(s, n)
<1>1. PICK f : /\ Enumerates(f, K)
               /\ c \in 0..Len(s)
               /\ r = [i \in 1..c |-> s[f[i]]]
  BY RetainIsSubsequence
<1>2. Len(s) \in Nat /\ DOMAIN s = 1..Len(s) /\ \A i \in DOMAIN s : s[i] \in R
  BY LenProperties
<1>3. K \subseteq DOMAIN s /\ \A k \in K : s[k].name # n
  BY DEF Kept
<1>. HIDE DEF K, r
<1>4. f \in [1..c -> K] /\ Increasing(f, c)
  BY <1>1 DEF Enumerates
<1>. HIDE DEF c
<1>5. c \in Nat /\ DOMAIN r = 1..c /\ \A i \in 1..c : f[i] \in K /\ r[i] = s[f[i]]
  BY <1>1, <1>2, <1>4
<1>6. \A i \in 1..c : r[i] \in R
  BY <1>5, <1>2, <1>3
<1>7. r \in Seq(R) /\ Len(r) = c
  <2>1. r \in [1..c -> R]
    BY <1>1, <1>5, <1>6
  <2>2. r \in Seq(R)
    BY <2>1, <1>5, SeqDef
  <2>3. DOMAIN r = 1..Len(r) /\ Len(r) \in Nat
    BY <2>2, LenProperties
  <2>. QED BY <2>2, <2>3, <1>5
<1>8. \A i \in DOMAIN r : \E k \in DOMAIN s : s[k] = r[i] /\ s[k].name # n
  BY <1>5, <1>3
<1>9. ASSUME UniqueNames(s) PROVE UniqueNames(r)
  <2>1. SUFFICES ASSUME NEW i \in 1..c, NEW j \in 1..c, r[i].name = r[j].name, i # j
                 PROVE  FALSE
    BY <1>5 DEF UniqueNames
  <2>2. f[i] = f[j]
    BY <2>1, <1>9, <1>5, <1>3 DEF UniqueNames
  <2>3. f[i] \in Nat
    BY <1>5, <1>3, <1>2
  <2>4. i < j \/ j < i
    BY <1>5, <2>1
  <2>5. f[i] < f[j] \/ f[j] < f[i]
    BY <2>4, <1>4 DEF Increasing
  <2>. QED BY <2>2, <2>3, <2>5
<1>. QED BY <1>1, <1>7, <1>8, <1>9 DEF r

\* The kept suffix of a ledger that is about to grow: Ledger::record drains
\* the records before FirstKeptIndex, and one more always fits after it.
LEMMA SuffixProperties ==
  ASSUME NEW R, NEW s \in Seq(R)
  PROVE  LET first == FirstKeptIndex(Len(s))
             t == SubSeq(s, first + 1, Len(s))
         IN  /\ first \in 0..Len(s)
             /\ t \in Seq(R)
             /\ Len(t) = Len(s) - first
             /\ Len(t) + 1 <= MaxRecords
             /\ \A i \in DOMAIN t : i + first \in DOMAIN s /\ t[i] = s[i + first]
             /\ UniqueNames(s) => UniqueNames(t)
<1>. DEFINE first == FirstKeptIndex(Len(s))
            t == SubSeq(s, first + 1, Len(s))
<1>1. Len(s) \in Nat /\ DOMAIN s = 1..Len(s) /\ \A i \in DOMAIN s : s[i] \in R
  BY LenProperties
<1>2. first \in 0..Len(s) /\ Len(s) - first + 1 <= MaxRecords
  BY <1>1, MaxRecordsAssumption DEF FirstKeptIndex
<1>. HIDE DEF first
<1>3. /\ t \in Seq(R)
      /\ Len(t) = IF first + 1 <= Len(s) THEN Len(s) - (first + 1) + 1 ELSE 0
      /\ \A i \in 1..(Len(s) - (first + 1) + 1) : t[i] = s[(first + 1) + i - 1]
  <2>1. first + 1 \in Int /\ Len(s) \in Int /\ \A i \in (first + 1)..Len(s) : s[i] \in R
    BY <1>1, <1>2
  <2>. QED BY <2>1, SubSeqProperties
<1>. HIDE DEF t
<1>4. Len(t) = Len(s) - first /\ DOMAIN t = 1..Len(t)
  <2>1. t \in Seq(R)
    BY <1>3
  <2>2. DOMAIN t = 1..Len(t)
    BY <2>1, LenProperties
  <2>3. Len(s) \in Nat /\ first \in Nat /\ first <= Len(s)
    BY <1>1, <1>2
  <2>4. Len(t) = Len(s) - first
    BY <2>3, <1>3
  <2>. QED BY <2>2, <2>4
<1>5. \A i \in DOMAIN t : i + first \in DOMAIN s /\ t[i] = s[i + first]
  <2>1. SUFFICES ASSUME NEW i \in 1..(Len(s) - first)
                 PROVE  i + first \in DOMAIN s /\ t[i] = s[i + first]
    BY <1>4
  <2>2. i \in 1..(Len(s) - (first + 1) + 1) /\ (first + 1) + i - 1 = i + first
    BY <1>1, <1>2
  <2>3. t[i] = s[(first + 1) + i - 1]
    BY <2>2, <1>3
  <2>. QED BY <2>2, <2>3, <1>1, <1>2
<1>6. UniqueNames(s) => UniqueNames(t)
  <2>1. SUFFICES ASSUME UniqueNames(s), NEW i \in DOMAIN t, NEW j \in DOMAIN t,
                        t[i].name = t[j].name
                 PROVE  i = j
    BY DEF UniqueNames
  <2>2. i + first = j + first
    BY <2>1, <1>5 DEF UniqueNames
  <2>. QED BY <2>2, <1>1, <1>2, <1>4
<1>. QED BY <1>2, <1>3, <1>4, <1>5, <1>6 DEF first, t

\* Ledger::record: the ledger stays within the cap and free of duplicates;
\* its last record is the new one and every other was there before, under
\* another name.
LEMMA RecordPlanProperties ==
  ASSUME NEW s \in Ledgers, NEW n \in Names, NEW p \in Plans
  PROVE  LET r == RecordPlan(s, n, p)
         IN  /\ r \in Ledgers
             /\ Len(r) \in 1..MaxRecords
             /\ r[Len(r)] = FromPlan(n, p)
             /\ \A i \in 1..(Len(r) - 1) :
                  \E k \in DOMAIN s : s[k] = r[i] /\ s[k].name # n
             /\ UniqueNames(s) => UniqueNames(r)
<1>. DEFINE others == Retain(s, n)
            first == FirstKeptIndex(Len(others))
            t == SubSeq(others, first + 1, Len(others))
            r == RecordPlan(s, n, p)
<1>. USE DEF Ledgers
<1>1. /\ others \in Seq(VmRecord)
      /\ \A i \in DOMAIN others : \E k \in DOMAIN s : s[k] = others[i] /\ s[k].name # n
      /\ UniqueNames(s) => UniqueNames(others)
  BY RetainProperties
<1>. HIDE DEF others
<1>2. /\ t \in Seq(VmRecord)
      /\ Len(t) + 1 <= MaxRecords
      /\ \A i \in DOMAIN t : i + first \in DOMAIN others /\ t[i] = others[i + first]
      /\ UniqueNames(others) => UniqueNames(t)
  BY <1>1, SuffixProperties
<1>3. r = Append(t, FromPlan(n, p))
  BY DEF RecordPlan, others
<1>. HIDE DEF t, r, first
<1>4. FromPlan(n, p) \in VmRecord /\ FromPlan(n, p).name = n
  BY DEF FromPlan, VmRecord, VmLifecycle
<1>5. /\ r \in Seq(VmRecord)
      /\ Len(r) = Len(t) + 1
      /\ \A i \in 1..Len(t) : r[i] = t[i]
      /\ r[Len(t) + 1] = FromPlan(n, p)
  BY <1>2, <1>3, <1>4, AppendProperties
<1>6. Len(t) \in Nat /\ DOMAIN t = 1..Len(t)
  BY <1>2, LenProperties
<1>7. DOMAIN r = 1..(Len(t) + 1)
  BY <1>5, LenProperties
<1>8. \A i \in 1..Len(t) : \E k \in DOMAIN s : s[k] = r[i] /\ s[k].name # n
  <2>1. SUFFICES ASSUME NEW i \in 1..Len(t)
                 PROVE  \E k \in DOMAIN s : s[k] = r[i] /\ s[k].name # n
    OBVIOUS
  <2>2. i + first \in DOMAIN others /\ r[i] = others[i + first]
    BY <1>2, <1>5, <1>6
  <2>. QED BY <2>2, <1>1, Zenon
<1>9. ASSUME UniqueNames(s) PROVE UniqueNames(r)
  <2>1. SUFFICES ASSUME NEW i \in 1..(Len(t) + 1), NEW j \in 1..(Len(t) + 1),
                        r[i].name = r[j].name
                 PROVE  i = j
    BY <1>7 DEF UniqueNames
  <2>2. CASE i \in 1..Len(t) /\ j \in 1..Len(t)
    BY <2>1, <2>2, <1>9, <1>1, <1>2, <1>5, <1>6 DEF UniqueNames
  <2>3. CASE i \in 1..Len(t) /\ j = Len(t) + 1
    BY <2>1, <2>3, <1>4, <1>5, <1>8
  <2>4. CASE j \in 1..Len(t) /\ i = Len(t) + 1
    BY <2>1, <2>4, <1>4, <1>5, <1>8
  <2>. QED BY <2>2, <2>3, <2>4, <1>6
<1>10. Len(r) \in 1..MaxRecords /\ r[Len(r)] = FromPlan(n, p)
  BY <1>2, <1>5, <1>6, MaxRecordsAssumption
<1>11. \A i \in 1..(Len(r) - 1) : \E k \in DOMAIN s : s[k] = r[i] /\ s[k].name # n
  BY <1>5, <1>6, <1>8
<1>. QED BY <1>5, <1>9, <1>10, <1>11 DEF r

\* What is left of a list after Retain is all of what is to be kept, in order.
LEMMA RetainOrder ==
  ASSUME NEW R, NEW s \in Seq(R), NEW n
  PROVE  LET r == Retain(s, n)
         IN  \E f : /\ f \in [1..Len(r) -> Kept(s, n)]
                    /\ Increasing(f, Len(r))
                    /\ \A k \in Kept(s, n) : \E i \in 1..Len(r) : f[i] = k
                    /\ \A i \in 1..Len(r) : r[i] = s[f[i]]
                    /\ Cardinality(Kept(s, n)) = Len(r)
<1>. DEFINE K == Kept(s, n)
            c == Cardinality(K)
            r == Retain(s, n)
<1>1. PICK f : /\ Enumerates(f, K)
               /\ c \in 0..Len(s)
               /\ r = [i \in 1..c |-> s[f[i]]]
  BY RetainIsSubsequence
<1>2. r \in Seq(R) /\ Len(s) \in Nat
  BY RetainProperties, LenProperties
<1>3. c \in Nat /\ DOMAIN r = 1..c
  BY <1>1, <1>2
<1>4. Len(r) = c
  <2>. HIDE DEF r, c
  <2>1. Len(r) \in Nat /\ DOMAIN r = 1..Len(r)
    BY <1>2, LenProperties
  <2>. QED BY <1>3, <2>1
<1>5. \A i \in 1..c : r[i] = s[f[i]]
  BY <1>1
<1>6. /\ f \in [1..c -> K] /\ Increasing(f, c)
      /\ \A k \in K : \E i \in 1..c : f[i] = k
  BY <1>1 DEF Enumerates
<1>. HIDE DEF K, c, r
<1>7. \E g : /\ g \in [1..Len(r) -> K] /\ Increasing(g, Len(r))
             /\ \A k \in K : \E i \in 1..Len(r) : g[i] = k
             /\ \A i \in 1..Len(r) : r[i] = s[g[i]]
             /\ c = Len(r)
  BY <1>4, <1>5, <1>6
<1>. QED BY <1>7 DEF K, c, r

\* Ledger::record keeps the other records in order, the oldest of them aside
\* when there would be too many.
LEMMA RecordPlanOrder ==
  ASSUME NEW s \in Ledgers, NEW n \in Names, NEW p \in Plans
  PROVE  LET r == RecordPlan(s, n, p)
             others == Retain(s, n)
             first == FirstKeptIndex(Len(others))
         IN  /\ first \in 0..Len(others)
             /\ Len(r) = Len(others) - first + 1
             /\ \A i \in 1..(Len(r) - 1) : r[i] = others[i + first]
<1>. DEFINE others == Retain(s, n)
            first == FirstKeptIndex(Len(others))
            t == SubSeq(others, first + 1, Len(others))
            r == RecordPlan(s, n, p)
<1>. USE DEF Ledgers
<1>1. others \in Seq(VmRecord)
  BY RetainProperties
<1>. HIDE DEF others
<1>2. /\ first \in 0..Len(others)
      /\ t \in Seq(VmRecord)
      /\ Len(t) = Len(others) - first
      /\ \A i \in DOMAIN t : i + first \in DOMAIN others /\ t[i] = others[i + first]
  BY <1>1, SuffixProperties
<1>3. r = Append(t, FromPlan(n, p))
  BY DEF RecordPlan, others
<1>. HIDE DEF t, r, first
<1>4. FromPlan(n, p) \in VmRecord
  BY DEF FromPlan, VmRecord, VmLifecycle
<1>5. /\ Len(r) = Len(t) + 1
      /\ \A i \in 1..Len(t) : r[i] = t[i]
  BY <1>2, <1>3, <1>4, AppendProperties
<1>6. Len(t) \in Nat /\ DOMAIN t = 1..Len(t)
  BY <1>2, LenProperties
<1>7. Len(others) \in Nat
  BY <1>1, LenProperties
<1>8. \A i \in 1..(Len(r) - 1) : r[i] = others[i + first]
  <2>1. SUFFICES ASSUME NEW i \in 1..(Len(r) - 1) PROVE r[i] = others[i + first]
    OBVIOUS
  <2>2. i \in 1..Len(t)
    BY <1>5, <1>6
  <2>3. r[i] = t[i] /\ i \in DOMAIN t
    BY <1>5, <1>6, <2>2
  <2>. QED BY <1>2, <2>3
<1>. QED BY <1>2, <1>5, <1>6, <1>7, <1>8 DEF r, first, others

\* Ledger::set_state: only the state of a record changes, and only along an
\* edge of the lifecycle.
LEMMA SetStateProperties ==
  ASSUME NEW s \in Ledgers, NEW n \in Names, NEW st \in VmLifecycle,
         CanSetState(s, n, st)
  PROVE  LET r == SetState(s, n, st)
         IN  /\ r \in Ledgers
             /\ Len(r) = Len(s)
             /\ DOMAIN r = DOMAIN s
             /\ \A i \in DOMAIN s : r[i].name = s[i].name /\ r[i].plan = s[i].plan
             /\ \A i \in DOMAIN s :
                  \/ r[i].state = s[i].state
                  \/ /\ IsFirst(s, n, i) /\ r[i].state = st
<1>. DEFINE r == SetState(s, n, st)
<1>. USE DEF Ledgers
<1>1. Len(s) \in Nat /\ DOMAIN s = 1..Len(s) /\ \A i \in DOMAIN s : s[i] \in VmRecord
  BY LenProperties
<1>2. DOMAIN r = 1..Len(s)
  BY <1>1 DEF SetState
<1>3. ASSUME NEW i \in DOMAIN s
      PROVE  /\ r[i] \in VmRecord
             /\ r[i].name = s[i].name /\ r[i].plan = s[i].plan
             /\ \/ r[i].state = s[i].state
                \/ IsFirst(s, n, i) /\ r[i].state = st
  <2>1. s[i] \in VmRecord
    BY <1>1
  <2>2. CASE IsFirst(s, n, i)
    <3>1. r[i] = [s[i] EXCEPT !.state = st]
      BY <2>2 DEF SetState
    <3>. QED BY <2>1, <2>2, <3>1 DEF VmRecord
  <2>3. CASE ~ IsFirst(s, n, i)
    <3>1. r[i] = s[i]
      BY <2>3 DEF SetState
    <3>. QED BY <2>1, <3>1
  <2>. QED BY <2>2, <2>3
<1>4. r \in Seq(VmRecord)
  <2>1. r \in [1..Len(s) -> VmRecord]
    <3>1. r = [i \in 1..Len(s) |-> r[i]]
      BY <1>1 DEF SetState
    <3>. HIDE DEF r
    <3>. QED BY <1>1, <1>3, <3>1
  <2>. HIDE DEF r
  <2>. QED BY <1>1, <2>1, SeqDef
<1>5. Len(r) = Len(s)
  <2>. HIDE DEF r
  <2>1. DOMAIN r = 1..Len(r) /\ Len(r) \in Nat
    BY <1>4, LenProperties
  <2>. QED BY <1>1, <1>2, <2>1
<1>. QED BY <1>1, <1>2, <1>3, <1>4, <1>5 DEF r

\* Saving over another writer's text: the new ledger followed by what is
\* left of the old one; its records come from the two.
LEMMA OverlayProperties ==
  ASSUME NEW s \in Ledgers, NEW t \in Ledgers, NEW m \in 1..(Len(s) + 1)
  PROVE  LET r == t \o SubSeq(s, m, Len(s))
         IN  /\ r \in Ledgers
             /\ \A i \in DOMAIN r :
                  \/ \E k \in DOMAIN t : r[i] = t[k]
                  \/ \E k \in DOMAIN s : r[i] = s[k]
<1>. DEFINE u == SubSeq(s, m, Len(s))
            r == t \o u
<1>. USE DEF Ledgers
<1>1. /\ Len(s) \in Nat /\ DOMAIN s = 1..Len(s) /\ \A i \in DOMAIN s : s[i] \in VmRecord
      /\ Len(t) \in Nat /\ DOMAIN t = 1..Len(t)
  BY LenProperties
<1>2. /\ u \in Seq(VmRecord)
      /\ Len(u) = IF m <= Len(s) THEN Len(s) - m + 1 ELSE 0
      /\ \A i \in 1..(Len(s) - m + 1) : u[i] = s[m + i - 1]
  <2>1. m \in Int /\ Len(s) \in Int /\ \A i \in m..Len(s) : s[i] \in VmRecord
    BY <1>1
  <2>. QED BY <2>1, SubSeqProperties
<1>. HIDE DEF u
<1>3. /\ r \in Seq(VmRecord)
      /\ Len(r) = Len(t) + Len(u)
      /\ \A i \in 1..(Len(t) + Len(u)) :
           r[i] = IF i <= Len(t) THEN t[i] ELSE u[i - Len(t)]
  BY <1>2, ConcatProperties
<1>. HIDE DEF r
<1>4. DOMAIN r = 1..Len(r)
  BY <1>3, LenProperties
<1>. DEFINE a == Len(s)
            b == Len(t)
            c == Len(u)
<1>5. a \in Nat /\ b \in Nat /\ m \in 1..(a + 1) /\ c = IF m <= a THEN a - m + 1 ELSE 0
  BY <1>1, <1>2
<1>6. Len(r) = b + c
  BY <1>3
<1>. HIDE DEF a, b, c
<1>7. ASSUME NEW i \in DOMAIN r
      PROVE  (\E k \in DOMAIN t : r[i] = t[k]) \/ (\E k \in DOMAIN s : r[i] = s[k])
  <2>1. i \in 1..(b + c)
    BY <1>4, <1>6
  <2>2. r[i] = IF i <= b THEN t[i] ELSE u[i - b]
    BY <2>1, <1>3 DEF b, c
  <2>3. CASE i <= b
    <3>1. i \in 1..b
      BY <2>1, <2>3, <1>5
    <3>2. i \in DOMAIN t
      BY <3>1, <1>1 DEF b
    <3>. QED BY <3>2, <2>2, <2>3
  <2>4. CASE ~ (i <= b)
    <3>1. i - b \in 1..(a - m + 1) /\ m + (i - b) - 1 \in 1..a
      BY <2>1, <2>4, <1>5
    <3>2. u[i - b] = s[m + (i - b) - 1]
      BY <3>1, <1>2 DEF a
    <3>3. m + (i - b) - 1 \in DOMAIN s
      BY <3>1, <1>1 DEF a
    <3>. QED BY <3>2, <3>3, <2>2, <2>4
  <2>. QED BY <2>3, <2>4
<1>. QED BY <1>3, <1>7 DEF r, u

\* A short write: the first k records.
LEMMA PrefixProperties ==
  ASSUME NEW s \in Ledgers, NEW k \in 0..Len(s)
  PROVE  LET t == SubSeq(s, 1, k)
         IN  /\ t \in Ledgers /\ Len(t) = k /\ DOMAIN t = 1..k
             /\ \A i \in 1..k : i \in DOMAIN s /\ t[i] = s[i]
<1>. DEFINE t == SubSeq(s, 1, k)
<1>. USE DEF Ledgers
<1>1. Len(s) \in Nat /\ DOMAIN s = 1..Len(s) /\ \A i \in DOMAIN s : s[i] \in VmRecord
  BY LenProperties
<1>2. k \in Nat /\ 1..k \subseteq DOMAIN s
  BY <1>1
<1>3. /\ t \in Seq(VmRecord)
      /\ Len(t) = IF 1 <= k THEN k - 1 + 1 ELSE 0
      /\ \A i \in 1..(k - 1 + 1) : t[i] = s[1 + i - 1]
  <2>1. 1 \in Int /\ k \in Int /\ \A i \in 1..k : s[i] \in VmRecord
    BY <1>1, <1>2
  <2>. QED BY <2>1, SubSeqProperties
<1>. HIDE DEF t
<1>4. Len(t) = k
  BY <1>2, <1>3
<1>5. DOMAIN t = 1..k
  BY <1>3, <1>4, LenProperties
<1>6. \A i \in 1..k : t[i] = s[i]
  <2>1. k - 1 + 1 = k /\ \A i \in 1..k : 1 + i - 1 = i
    BY <1>2
  <2>. QED BY <1>3, <2>1
<1>. QED BY <1>2, <1>3, <1>4, <1>5, <1>6 DEF t

=============================================================================
