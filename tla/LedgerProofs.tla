---------------------------- MODULE LedgerProofs ----------------------------
(***************************************************************************)
(* The invariants and the main action property of module Ledger, for every *)
(* set of names and plans and every cap.                                   *)
(***************************************************************************)
EXTENDS Ledger, LedgerOpsProofs

(***************************************************************************)
(* The invariants of module Ledger.                                        *)
(***************************************************************************)
IInv == TypeOK /\ NoDuplicateNames

LEMMA InitIInv == Init => IInv
<1>1. << >> \in Ledgers /\ Len(<< >>) = 0
  BY EmptySeq DEF Ledgers
<1>2. UniqueNames(<< >>)
  BY DEF UniqueNames
<1>. QED BY <1>1, <1>2, MaxRecordsAssumption DEF Init, IInv, TypeOK, NoDuplicateNames

LEMMA NextIInv == IInv /\ [Next]_records => IInv'
<1>. SUFFICES ASSUME IInv, [Next]_records PROVE IInv'
  OBVIOUS
<1>. USE DEF IInv, TypeOK, NoDuplicateNames
<1>1. ASSUME NEW n \in Names, NEW p \in Plans, Record(n, p) PROVE IInv'
  <2>1. LET r == RecordPlan(records, n, p)
        IN  r \in Ledgers /\ Len(r) \in 1..MaxRecords /\ UniqueNames(r)
    BY RecordPlanProperties
  <2>. QED BY <1>1, <2>1, MaxRecordsAssumption DEF Record
<1>2. ASSUME NEW n \in Names, Forget(n) PROVE IInv'
  <2>1. /\ Retain(records, n) \in Ledgers
        /\ Len(Retain(records, n)) \in 0..Len(records)
        /\ UniqueNames(Retain(records, n))
    BY RetainProperties DEF Ledgers
  <2>2. Len(records) \in Nat
    BY LenProperties DEF Ledgers
  <2>. QED BY <1>2, <2>1, <2>2, MaxRecordsAssumption DEF Forget, ForgetName
<1>3. ASSUME NEW n \in Names, NEW st \in VmLifecycle, Advance(n, st) PROVE IInv'
  <2>. DEFINE r == SetState(records, n, st)
  <2>1. /\ r \in Ledgers /\ Len(r) = Len(records) /\ DOMAIN r = DOMAIN records
        /\ \A i \in DOMAIN records : r[i].name = records[i].name
    BY <1>3, SetStateProperties DEF Advance
  <2>. HIDE DEF r
  <2>2. UniqueNames(r)
    BY <2>1 DEF UniqueNames
  <2>3. records' = r
    BY <1>3 DEF Advance, r
  <2>. QED BY <2>1, <2>2, <2>3
<1>4. CASE UNCHANGED records
  BY <1>4
<1>. QED BY <1>1, <1>2, <1>3, <1>4 DEF Next

\* For every set of names and plans and every cap: the ledger is a list of
\* at most MaxRecords records with no two of one name, whatever sequence of
\* record, forget and set_state calls built it.
THEOREM LedgerInvariant == Spec => [](TypeOK /\ NoDuplicateNames)
<1>1. IInv => TypeOK /\ NoDuplicateNames
  BY DEF IInv
<1>. QED BY <1>1, InitIInv, NextIInv, PTL DEF Spec

(***************************************************************************)
(* A finished VM is never resurrected.                                     *)
(***************************************************************************)
FinalStep ==
  \A i \in DOMAIN records, j \in DOMAIN records' :
    (/\ records[i].name = records'[j].name
     /\ records[i].state \in Terminal
     /\ records'[j].state # records[i].state)
    => (j = Len(records') /\ records'[j].state = "Booting")

LEMMA StepIsFinal == IInv /\ [Next]_records => [FinalStep]_records
<1>. SUFFICES ASSUME IInv, Next,
                     NEW i \in DOMAIN records, NEW j \in DOMAIN records',
                     records[i].name = records'[j].name,
                     records[i].state \in Terminal,
                     records'[j].state # records[i].state
              PROVE  j = Len(records') /\ records'[j].state = "Booting"
  BY DEF FinalStep
<1>. USE DEF IInv, TypeOK, NoDuplicateNames
<1>0. DOMAIN records' = 1..Len(records') /\ Len(records') \in Nat
  <2>1. records' \in Ledgers
    BY NextIInv
  <2>. QED BY <2>1, LenProperties DEF Ledgers
<1>1. ASSUME NEW n \in Names, NEW p \in Plans, Record(n, p)
      PROVE  j = Len(records') /\ records'[j].state = "Booting"
  <2>1. /\ records'[Len(records')] = FromPlan(n, p)
        /\ \A l \in 1..(Len(records') - 1) :
             \E k \in DOMAIN records : records[k] = records'[l]
    BY <1>1, RecordPlanProperties DEF Record
  <2>2. CASE j = Len(records')
    BY <2>1, <2>2 DEF FromPlan
  <2>3. CASE j # Len(records')
    <3>1. PICK k \in DOMAIN records : records[k] = records'[j]
      BY <2>1, <2>3, <1>0
    <3>2. k = i
      BY <3>1 DEF UniqueNames
    <3>. QED BY <3>1, <3>2
  <2>. QED BY <2>2, <2>3
<1>2. ASSUME NEW n \in Names, Forget(n) PROVE FALSE
  <2>1. PICK k \in DOMAIN records : records[k] = records'[j]
    BY <1>2, RetainProperties DEF Forget, ForgetName, Ledgers
  <2>2. k = i
    BY <2>1 DEF UniqueNames
  <2>. QED BY <2>1, <2>2
<1>3. ASSUME NEW n \in Names, NEW st \in VmLifecycle, Advance(n, st) PROVE FALSE
  <2>1. /\ DOMAIN records' = DOMAIN records
        /\ records'[j].name = records[j].name
        /\ \/ records'[j].state = records[j].state
           \/ IsFirst(records, n, j) /\ records'[j].state = st
    BY <1>3, SetStateProperties DEF Advance
  <2>2. i = j
    BY <2>1 DEF UniqueNames
  <2>3. IsFirst(records, n, i)
    BY <2>1, <2>2
  <2>4. PICK k \in DOMAIN records :
             IsFirst(records, n, k) /\ CanTransitionTo(records[k].state, st)
    BY <1>3 DEF Advance, CanSetState
  <2>5. k = i
    BY <2>3, <2>4 DEF IsFirst, UniqueNames
  <2>. QED BY <2>4, <2>5 DEF CanTransitionTo, Terminal
<1>. QED BY <1>1, <1>2, <1>3 DEF Next

\* For every set of names and plans and every cap: no call ever changes the
\* state of a finished VM's record; a fresh declaration puts a new record,
\* in Booting, at the end of the list.
THEOREM FinishedIsNeverResurrected == Spec => TerminalIsFinal
<1>1. [][FinalStep]_records => TerminalIsFinal
  BY DEF TerminalIsFinal, FinalStep
<1>. QED BY <1>1, InitIInv, NextIInv, StepIsFinal, PTL DEF Spec

\* Type correctness: a list of records, never longer than the cap.
THEOREM LedgerType == Spec => []TypeOK
BY LedgerInvariant, PTL

(***************************************************************************)
(* Oldest first: what a call leaves keeps its order.                       *)
(***************************************************************************)
OrderStep ==
  \A i, j \in DOMAIN records, k, l \in DOMAIN records' :
    (/\ i < j /\ l < k
     /\ records[i].name = records'[k].name
     /\ records[j].name = records'[l].name)
    => k = Len(records') /\ records'[k].state = "Booting"

\* Two records of Retain's result stand for two records in the same order.
LEMMA RetainKeepsOrder ==
  ASSUME IInv, NEW n \in Names,
         NEW i \in DOMAIN records, NEW j \in DOMAIN records, i < j,
         NEW k \in 1..Len(Retain(records, n)), NEW l \in 1..Len(Retain(records, n)), l < k,
         records[i].name = Retain(records, n)[k].name,
         records[j].name = Retain(records, n)[l].name
  PROVE  FALSE
<1>. DEFINE r == Retain(records, n)
<1>1. records \in Seq(VmRecord) /\ UniqueNames(records)
  BY DEF IInv, TypeOK, NoDuplicateNames, Ledgers
<1>2. PICK f : /\ f \in [1..Len(r) -> Kept(records, n)]
               /\ Increasing(f, Len(r))
               /\ \A m \in 1..Len(r) : r[m] = records[f[m]]
  BY <1>1, RetainOrder
<1>. HIDE DEF r
<1>3. k \in 1..Len(r) /\ l \in 1..Len(r)
      /\ records[i].name = r[k].name /\ records[j].name = r[l].name
  BY DEF r
<1>4. f[k] \in DOMAIN records /\ f[l] \in DOMAIN records
  BY <1>2, <1>3 DEF Kept
<1>5. f[k] = i /\ f[l] = j
  BY <1>1, <1>2, <1>3, <1>4 DEF UniqueNames
<1>6. f[l] < f[k]
  BY <1>2, <1>3 DEF Increasing
<1>7. i \in Nat /\ j \in Nat
  BY <1>1, LenProperties
<1>. QED BY <1>5, <1>6, <1>7

LEMMA StepKeepsOrder == IInv /\ [Next]_records => [OrderStep]_records
<1>. SUFFICES ASSUME IInv, Next,
                     NEW i \in DOMAIN records, NEW j \in DOMAIN records,
                     NEW k \in DOMAIN records', NEW l \in DOMAIN records',
                     i < j, l < k,
                     records[i].name = records'[k].name,
                     records[j].name = records'[l].name
              PROVE  k = Len(records') /\ records'[k].state = "Booting"
  BY DEF OrderStep
<1>1. IInv'
  BY NextIInv
<1>2. /\ records \in Ledgers /\ UniqueNames(records) /\ records' \in Ledgers
      /\ DOMAIN records = 1..Len(records) /\ Len(records) \in Nat
      /\ DOMAIN records' = 1..Len(records') /\ Len(records') \in Nat
  BY <1>1, LenProperties DEF IInv, TypeOK, NoDuplicateNames, Ledgers
<1>3. ASSUME NEW n \in Names, NEW p \in Plans, Record(n, p)
      PROVE  k = Len(records') /\ records'[k].state = "Booting"
  <2>. DEFINE others == Retain(records, n)
              first == FirstKeptIndex(Len(others))
  <2>1. records' = RecordPlan(records, n, p)
    BY <1>3 DEF Record
  <2>2. /\ first \in 0..Len(others)
        /\ Len(records') = Len(others) - first + 1
        /\ \A m \in 1..(Len(records') - 1) : records'[m] = others[m + first]
        /\ records'[Len(records')] = FromPlan(n, p)
    <3>1. records \in Ledgers
      BY <1>2
    <3>2. /\ first \in 0..Len(others)
          /\ Len(RecordPlan(records, n, p)) = Len(others) - first + 1
          /\ \A m \in 1..(Len(RecordPlan(records, n, p)) - 1) :
               RecordPlan(records, n, p)[m] = others[m + first]
      BY <3>1, RecordPlanOrder
    <3>3. RecordPlan(records, n, p)[Len(RecordPlan(records, n, p))] = FromPlan(n, p)
      BY <3>1, RecordPlanProperties
    <3>. HIDE DEF first, others
    <3>. QED BY <2>1, <3>2, <3>3
  <2>3. CASE k = Len(records')
    BY <2>2, <2>3 DEF FromPlan
  <2>4. CASE k # Len(records')
    <3>1. Len(others) \in Nat
      BY <1>2, RetainProperties DEF Ledgers
    <3>. HIDE DEF others, first
    <3>2. first \in Nat
      BY <2>2, <3>1
    <3>3. /\ k \in 1..(Len(records') - 1) /\ l \in 1..(Len(records') - 1)
          /\ k + first \in 1..Len(others) /\ l + first \in 1..Len(others)
          /\ l + first < k + first
      <4>1. k \in 1..Len(records') /\ l \in 1..Len(records') /\ Len(records') \in Nat
        BY <1>2
      <4>2. Len(records') = Len(others) - first + 1
        BY <2>2
      <4>. QED BY <2>4, <3>1, <3>2, <4>1, <4>2
    <3>4. records'[k] = others[k + first] /\ records'[l] = others[l + first]
      BY <2>2, <3>3
    <3>. QED BY <3>3, <3>4, RetainKeepsOrder DEF others
  <2>. QED BY <2>3, <2>4
<1>4. ASSUME NEW n \in Names, Forget(n) PROVE FALSE
  BY <1>2, <1>4, RetainKeepsOrder DEF Forget, ForgetName
<1>5. ASSUME NEW n \in Names, NEW st \in VmLifecycle, Advance(n, st) PROVE FALSE
  <2>1. /\ DOMAIN records' = DOMAIN records
        /\ \A m \in DOMAIN records : records'[m].name = records[m].name
    <3>1. records \in Ledgers
      BY <1>2
    <3>. QED BY <1>5, <3>1, SetStateProperties DEF Advance
  <2>2. i = k /\ j = l
    BY <1>2, <2>1 DEF UniqueNames
  <2>. QED BY <1>2, <2>2
<1>. QED BY <1>3, <1>4, <1>5 DEF Next

\* For every set of names and plans and every cap: the records a call leaves
\* alone keep their order, and what is declared again becomes the newest.
THEOREM OldestStaysFirst == Spec => OrderKept
<1>1. [][OrderStep]_records => OrderKept
  BY DEF OrderKept, OrderStep
<1>. QED BY <1>1, InitIInv, NextIInv, StepKeepsOrder, PTL DEF Spec

(***************************************************************************)
(* Records roll off only at the cap, and only the oldest.                  *)
(***************************************************************************)
RollOffStep ==
  \A n \in NamesOf(records) \ NamesOf(records') :
    \/ records' = Retain(records, n)
    \/ /\ n = records[1].name
       /\ Len(records) = MaxRecords
       /\ ~ Has(records, records'[Len(records')].name)

\* A list from which nothing was taken out had nothing to take out.
LEMMA FullRetain ==
  ASSUME NEW s \in Ledgers, NEW n, Len(Retain(s, n)) = Len(s)
  PROVE  Kept(s, n) = DOMAIN s
<1>1. s \in Seq(VmRecord) /\ DOMAIN s = 1..Len(s) /\ Len(s) \in Nat
  BY LenProperties DEF Ledgers
<1>2. Cardinality(Kept(s, n)) = Len(Retain(s, n))
  BY <1>1, RetainOrder
<1>3. IsFiniteSet(1..Len(s)) /\ Cardinality(1..Len(s)) = Len(s)
  <2>1. 1 \in Int /\ Len(s) \in Int
    BY <1>1
  <2>2. /\ IsFiniteSet(1..Len(s))
        /\ Cardinality(1..Len(s)) = IF 1 > Len(s) THEN 0 ELSE Len(s) - 1 + 1
    BY <2>1, FS_Interval
  <2>. QED BY <1>1, <2>2
<1>4. Kept(s, n) \in SUBSET (1..Len(s))
  BY <1>1 DEF Kept
<1>5. Cardinality(Kept(s, n)) = Cardinality(1..Len(s))
  BY <1>2, <1>3
<1>6. Kept(s, n) = 1..Len(s)
  BY <1>3, <1>4, <1>5, FS_Subset
<1>. QED BY <1>1, <1>6

\* An increasing function that reaches 1 does so first.
LEMMA IncreasingFromOne ==
  ASSUME NEW m \in Nat, NEW f, Increasing(f, m),
         \A i \in 1..m : f[i] \in Nat \ {0},
         NEW j \in 1..m, f[j] = 1
  PROVE  j = 1
<1>1. CASE j > 1
  <2>1. 1 \in 1..m /\ 1 < j
    BY <1>1
  <2>2. f[1] < 1 /\ f[1] \in Nat \ {0}
    BY <2>1 DEF Increasing
  <2>. QED BY <2>2
<1>. QED BY <1>1

LEMMA StepDropsOldest == IInv /\ [Next]_records => [RollOffStep]_records
<1>. DEFINE Goal(n) == \/ records' = Retain(records, n)
                       \/ /\ n = records[1].name
                          /\ Len(records) = MaxRecords
                          /\ ~ Has(records, records'[Len(records')].name)
<1>. SUFFICES ASSUME IInv, Next,
                     NEW m \in NamesOf(records) \ NamesOf(records')
              PROVE  Goal(m)
  BY DEF RollOffStep
<1>1. IInv'
  BY NextIInv
<1>2. /\ records \in Ledgers /\ records \in Seq(VmRecord) /\ records' \in Ledgers
      /\ DOMAIN records = 1..Len(records) /\ Len(records) \in Nat
      /\ DOMAIN records' = 1..Len(records') /\ Len(records') \in Nat
      /\ Len(records) <= MaxRecords /\ MaxRecords \in Nat \ {0}
  BY <1>1, LenProperties, MaxRecordsAssumption DEF IInv, TypeOK, Ledgers
<1>3. PICK k \in DOMAIN records : records[k].name = m
  BY DEF NamesOf
<1>4. \A l \in DOMAIN records' : records'[l].name # m
  BY DEF NamesOf
<1>5. ASSUME NEW n \in Names, NEW p \in Plans, Record(n, p) PROVE Goal(m)
  <2>. DEFINE others == Retain(records, n)
              first == FirstKeptIndex(Len(others))
  <2>1. /\ first \in 0..Len(others)
        /\ Len(records') = Len(others) - first + 1
        /\ \A i \in 1..(Len(records') - 1) : records'[i] = others[i + first]
    BY <1>2, <1>5, RecordPlanOrder DEF Record
  <2>2. /\ Len(records') \in 1..MaxRecords
        /\ records'[Len(records')] = FromPlan(n, p)
    BY <1>2, <1>5, RecordPlanProperties DEF Record
  <2>3. records'[Len(records')].name = n /\ m # n
    BY <1>2, <1>4, <2>2 DEF FromPlan
  <2>4. Len(others) \in 0..Len(records)
    BY <1>2, RetainProperties
  <2>5. PICK f : /\ f \in [1..Len(others) -> Kept(records, n)]
                 /\ Increasing(f, Len(others))
                 /\ \A i \in Kept(records, n) : \E j \in 1..Len(others) : f[j] = i
                 /\ \A i \in 1..Len(others) : others[i] = records[f[i]]
    BY <1>2, RetainOrder
  <2>6. Len(others) = Len(records) => Kept(records, n) = DOMAIN records
    BY <1>2, FullRetain
  <2>7. first = IF Len(others) > MaxRecords - 1 THEN Len(others) - (MaxRecords - 1) ELSE 0
    BY DEF FirstKeptIndex
  <2>. HIDE DEF others, first
  <2>8. k \in Kept(records, n)
    BY <1>3, <2>3 DEF Kept
  <2>9. PICK j \in 1..Len(others) : f[j] = k
    BY <2>5, <2>8
  <2>10. others[j].name = m
    BY <1>3, <2>5, <2>9
  <2>11. j <= first
    <3>1. SUFFICES ASSUME j > first PROVE FALSE
      BY <2>1, <2>4, <2>9, <1>2
    <3>. DEFINE i == j - first
    <3>2. i \in 1..(Len(records') - 1) /\ i + first = j
      BY <1>2, <2>1, <2>4, <2>9, <3>1
    <3>3. i \in DOMAIN records'
      BY <1>2, <3>2
    <3>. HIDE DEF i
    <3>4. records'[i] = others[j]
      BY <2>1, <3>2
    <3>. QED BY <1>4, <2>10, <3>3, <3>4
  <2>12. /\ Len(others) = MaxRecords /\ Len(records) = MaxRecords
         /\ first = 1 /\ j = 1
    <3>1. Len(others) \in Nat /\ Len(others) <= Len(records)
      BY <1>2, <2>4
    <3>2. Len(records) \in Nat /\ Len(records) <= MaxRecords /\ MaxRecords \in Nat \ {0}
      BY <1>2
    <3>3. j \in Nat /\ 1 <= j
      BY <2>9, <3>1
    <3>4. Len(others) > MaxRecords - 1
      BY <2>7, <2>11, <3>3
    <3>5. Len(others) = MaxRecords /\ Len(records) = MaxRecords
      BY <3>1, <3>2, <3>4
    <3>6. first = 1
      BY <2>7, <3>2, <3>4, <3>5
    <3>. QED BY <2>11, <3>3, <3>5, <3>6
  <2>13. Kept(records, n) = DOMAIN records
    BY <2>6, <2>12
  <2>14. ~ Has(records, n)
    BY <2>13 DEF Kept, Has
  <2>15. PICK l \in 1..Len(others) : f[l] = 1
    BY <1>2, <2>5, <2>12, <2>13
  <2>16. l = 1
    <3>1. \A i \in 1..Len(others) : f[i] \in Nat \ {0}
      BY <1>2, <2>5, <2>13
    <3>2. Len(others) \in Nat
      BY <1>2, <2>12
    <3>. QED BY <2>5, <2>15, <3>1, <3>2, IncreasingFromOne
  <2>17. k = 1
    BY <2>9, <2>12, <2>15, <2>16
  <2>. QED BY <1>3, <2>3, <2>12, <2>14, <2>17
<1>6. ASSUME NEW n \in Names, Forget(n) PROVE Goal(m)
  <2>1. records' = Retain(records, n)
    BY <1>6 DEF Forget, ForgetName
  <2>2. m = n
    <3>1. SUFFICES ASSUME m # n PROVE FALSE
      OBVIOUS
    <3>2. k \in Kept(records, n)
      BY <1>3, <3>1 DEF Kept
    <3>3. \E i \in 1..Len(records') : records'[i] = records[k]
      BY <1>2, <2>1, <3>2, RetainOrder
    <3>. QED BY <1>2, <1>3, <1>4, <3>3
  <2>. QED BY <2>1, <2>2
<1>7. ASSUME NEW n \in Names, NEW st \in VmLifecycle, Advance(n, st) PROVE FALSE
  <2>1. /\ DOMAIN records' = DOMAIN records
        /\ \A i \in DOMAIN records : records'[i].name = records[i].name
    <3>1. records \in Ledgers
      BY <1>2
    <3>. QED BY <1>7, <3>1, SetStateProperties DEF Advance
  <2>. QED BY <1>3, <1>4, <2>1
<1>. QED BY <1>5, <1>6, <1>7 DEF Next

\* For every set of names and plans and every cap: a name leaves the ledger
\* only because it was forgotten, or as the oldest of a full ledger to which
\* a new name was declared.
THEOREM RollsOffTheOldest == Spec => OnlyOldestRollsOff
<1>1. [][RollOffStep]_records => OnlyOldestRollsOff
  BY DEF OnlyOldestRollsOff, RollOffStep
<1>. QED BY <1>1, InitIInv, NextIInv, StepDropsOldest, PTL DEF Spec

=============================================================================
