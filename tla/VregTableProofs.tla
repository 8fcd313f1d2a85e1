--------------------------- MODULE VregTableProofs ---------------------------
(***************************************************************************)
(* The register table that the loop of vreg_table.c builds, whatever the   *)
(* counts of the scan are.                                                 *)
(***************************************************************************)
EXTENDS VregTable, TLAPS

\* What the loop knows of a register between two rounds: its count is either
\* still there, and it is in no slot, or it was tried; and it is in no slot
\* after it was tried only when there was none left.
Tried(r) == counts[r] = 0

LeftUnmapped == \A r \in RegId : ~Tried(r) => counts[r] = uses[r] /\ ~IsMapped(r)
TriedMapped  == \A r \in RegId : Tried(r) /\ uses[r] > 0 => IsMapped(r) \/ full
FullIsFull   == full => \A i \in Slot : mapped[i] # Unused
MappedFirst  ==
    \A r \in RegId : ~IsMapped(r) =>
        \A i \in Slot : mapped[i] # Unused => uses[mapped[i]] >= uses[r]

\* The inductive invariant.
TableInv ==
    /\ VregTypeOK /\ OneSlotEach /\ FilledFromTop
    /\ LeftUnmapped /\ TriedMapped /\ FullIsFull /\ MappedFirst

-----------------------------------------------------------------------------
\* The mark of an unused slot is no register.
LEMMA UnusedIsNone == Unused \notin RegId
BY DEF Unused, RegId

\* The loop starts with an empty table.
LEMMA TableInit ==
    ASSUME VregInit
    PROVE  TableInv
<1>1. VregTypeOK
  BY VregAssumption DEF VregInit, VregTypeOK
<1>2. \A r \in RegId : ~IsMapped(r)
  BY UnusedIsNone DEF VregInit, IsMapped
<1>3. OneSlotEach /\ FilledFromTop /\ FullIsFull /\ MappedFirst
  BY DEF VregInit, OneSlotEach, FilledFromTop, FullIsFull, MappedFirst
<1>4. LeftUnmapped /\ TriedMapped
  BY <1>1, <1>2 DEF VregInit, VregTypeOK, LeftUnmapped, TriedMapped, Tried
<1> QED
  BY <1>1, <1>3, <1>4 DEF TableInv

\* A round that maps a register keeps the invariant.
LEMMA MapKeeps ==
    ASSUME TableInv, MapMostUsed
    PROVE  TableInv'
<1>1. PICK r \in RegId, i \in Slot :
        /\ ~full /\ IsMostUsed(r) /\ Takes(r, i)
        /\ Insert(r, i) /\ Done(r) /\ UNCHANGED <<uses, full>>
  BY DEF MapMostUsed
<1>2. /\ uses \in [RegId -> Nat] /\ counts \in [RegId -> Nat]
      /\ mapped \in [Slot -> RegId \cup {Unused}]
  BY DEF TableInv, VregTypeOK
<1>3. counts[r] = uses[r] /\ counts[r] > 0 /\ ~IsMapped(r)
  BY <1>1, <1>2 DEF IsMostUsed, TableInv, LeftUnmapped, Tried
<1>4. mapped[i] = Unused /\ \A j \in Slot : j > i => mapped[j] # Unused
  BY <1>1, <1>3 DEF Takes, IsMapped
<1>5. mapped' = [mapped EXCEPT ![i] = r] /\ counts' = [counts EXCEPT ![r] = 0]
  BY <1>1 DEF Insert, Done
<1>6. \A q \in RegId : IsMapped(q)' <=> q = r \/ IsMapped(q)
  BY <1>2, <1>4, <1>5, UnusedIsNone DEF IsMapped
<1>7. VregTypeOK'
  BY <1>1, <1>2, <1>5 DEF TableInv, VregTypeOK
<1>8. OneSlotEach'
  BY <1>2, <1>3, <1>5 DEF TableInv, OneSlotEach, IsMapped
<1>9. FilledFromTop'
  BY <1>1, <1>2, <1>4, <1>5, UnusedIsNone DEF TableInv, FilledFromTop, Slot
<1>10. LeftUnmapped' /\ TriedMapped' /\ FullIsFull'
  BY <1>1, <1>2, <1>5, <1>6 DEF TableInv, LeftUnmapped, TriedMapped, FullIsFull, Tried
<1>11. MappedFirst'
  <2> SUFFICES ASSUME NEW q \in RegId, ~IsMapped(q)', NEW j \in Slot, mapped'[j] # Unused
               PROVE  uses[mapped'[j]] >= uses[q]
    BY <1>1 DEF MappedFirst
  <2>1. q # r /\ ~IsMapped(q)
    BY <1>6
  <2>2. CASE j = i
    <3>1. counts[q] <= counts[r] /\ (counts[q] = 0 => uses[q] = 0)
      BY <1>1, <1>2, <2>1 DEF IsMostUsed, TableInv, TriedMapped, Tried
    <3>2. counts[q] = uses[q]
      BY <1>2, <3>1 DEF TableInv, LeftUnmapped, Tried
    <3> QED
      BY <1>2, <1>3, <1>5, <2>2, <3>1, <3>2
  <2>3. CASE j # i
    BY <1>2, <1>5, <2>1, <2>3 DEF TableInv, MappedFirst
  <2> QED
    BY <2>2, <2>3
<1> QED
  BY <1>7, <1>8, <1>9, <1>10, <1>11 DEF TableInv

\* The round that finds no slot keeps it: there was none.
LEMMA FullKeeps ==
    ASSUME TableInv, TableFull
    PROVE  TableInv'
<1>1. PICK r \in RegId :
        /\ ~full /\ IsMostUsed(r) /\ \A i \in Slot : ~Takes(r, i)
        /\ full' = TRUE /\ Done(r) /\ UNCHANGED <<uses, mapped>>
  BY DEF TableFull
<1>2. /\ uses \in [RegId -> Nat] /\ counts \in [RegId -> Nat]
      /\ mapped \in [Slot -> RegId \cup {Unused}]
  BY DEF TableInv, VregTypeOK
<1>3. \A i \in Slot : mapped[i] # r
  BY <1>1, <1>2 DEF IsMostUsed, TableInv, LeftUnmapped, Tried, IsMapped
<1>4. \A i \in Slot : mapped[i] # Unused
  <2>1. \A i \in Slot : (\A j \in Slot : j > i => mapped[j] # Unused) => mapped[i] # Unused
    BY <1>1, <1>3 DEF Takes
  <2> QED
    BY <2>1 DEF Slot
<1>5. counts' = [counts EXCEPT ![r] = 0] /\ \A q : IsMapped(q)' <=> IsMapped(q)
  BY <1>1 DEF Done, IsMapped
<1>6. VregTypeOK'
  BY <1>1, <1>2, <1>5 DEF TableInv, VregTypeOK
<1>7. OneSlotEach' /\ FilledFromTop' /\ FullIsFull' /\ MappedFirst'
  BY <1>1, <1>4, <1>5 DEF TableInv, OneSlotEach, FilledFromTop, FullIsFull, MappedFirst
<1>8. LeftUnmapped' /\ TriedMapped'
  BY <1>1, <1>2, <1>5 DEF TableInv, LeftUnmapped, TriedMapped, Tried
<1> QED
  BY <1>6, <1>7, <1>8 DEF TableInv

\* The invariant holds between any two rounds.
LEMMA TableInvariant == VregSpec => []TableInv
<1>1. VregInit => TableInv
  BY TableInit
<1>2. TableInv /\ [VregNext]_vregVars => TableInv'
  <2>1. TableInv /\ VregNext => TableInv'
    BY MapKeeps, FullKeeps DEF VregNext
  <2>2. TableInv /\ UNCHANGED vregVars => TableInv'
    BY DEF vregVars, TableInv, VregTypeOK, OneSlotEach, FilledFromTop, LeftUnmapped,
           TriedMapped, FullIsFull, MappedFirst, Tried, IsMapped
  <2> QED
    BY <2>1, <2>2
<1> QED
  BY <1>1, <1>2, PTL DEF VregSpec

-----------------------------------------------------------------------------
\* vreg_table.c:8: a slot holds a register or the mark that it is free, and the
\* counts, from which the loop takes what it has tried, never go below 0.
THEOREM VregTypeCorrect == VregSpec => []VregTypeOK
<1>1. TableInv => VregTypeOK
  BY DEF TableInv
<1> QED
  BY <1>1, TableInvariant, PTL

\* vreg_table.c:9: whatever the counts, no guest register gets two host
\* registers.
THEOREM OneSlotEachSafe == VregSpec => []OneSlotEach
<1>1. TableInv => OneSlotEach
  BY DEF TableInv
<1> QED
  BY <1>1, TableInvariant, PTL

\* vreg_table.c:8: the caller-saved slots are the last to be used.
THEOREM FilledFromTopSafe == VregSpec => []FilledFromTop
<1>1. TableInv => FilledFromTop
  BY DEF TableInv
<1> QED
  BY <1>1, TableInvariant, PTL

\* vreg_table.c:70: the greedy loop leaves out no register that is used more
\* than one it mapped, and none that is used while a slot is free.
THEOREM MostUsedMappedSafe == VregSpec => []MostUsedMapped
<1>1. TableInv => MostUsedMapped
  <2> SUFFICES ASSUME TableInv, NEW r \in RegId, ~IsMapped(r), Finished, uses[r] > 0
               PROVE  \A i \in Slot : mapped[i] # Unused
    BY DEF TableInv, MappedFirst, MostUsedMapped
  <2>1. full
    BY DEF TableInv, TriedMapped, Tried, Finished
  <2> QED
    BY <2>1 DEF TableInv, FullIsFull
<1> QED
  BY <1>1, TableInvariant, PTL
=============================================================================
