------------------------------ MODULE VregTable ------------------------------
(***************************************************************************)
(* The loop of solve_instruction_region (vreg_table.c): again and again,   *)
(* the most used register that is left takes the highest free slot, until  *)
(* no register that is used is left or insert_reg finds no slot.           *)
(***************************************************************************)
EXTENDS VregScan

CONSTANT UseCounts             \* the counts a scan may end with

ASSUME VregAssumption == UseCounts \subseteq [RegId -> Nat]

VARIABLES
    uses,      \* the counts of the scan
    counts,    \* the counts of the registers that are left
    mapped,    \* the table
    full       \* insert_reg found no slot

vregVars == <<uses, counts, mapped, full>>

VregInit ==
    /\ uses \in UseCounts
    /\ counts = uses
    /\ mapped = [i \in Slot |-> Unused]
    /\ full = FALSE

\* Mutants: the last of the used registers; the last of the most used ones.
IsMostUsed_Last(r) == counts[r] > 0 /\ \A q \in RegId : counts[q] > 0 => q <= r
IsMostUsed_LastOfEqual(r) ==
    /\ counts[r] > 0
    /\ \A q \in RegId : counts[q] < counts[r] \/ (counts[q] = counts[r] /\ q <= r)

\* The first register, in order of number, with the highest count above zero.
IsMostUsed(r) ==
    /\ counts[r] > 0
    /\ \A q \in RegId : counts[q] < counts[r] \/ (counts[q] = counts[r] /\ r <= q)

\* Mutant: insert_reg tries the slots from r8 up.
Takes_FromBottom(r, i) ==
    /\ mapped[i] \in {r, Unused}
    /\ \A j \in Slot : j < i => mapped[j] \notin {r, Unused}

\* insert_reg tries the slots from r14 down.
Takes(r, i) ==
    /\ mapped[i] \in {r, Unused}
    /\ \A j \in Slot : j > i => mapped[j] \notin {r, Unused}

\* Mutant: insert_reg does not return, and fills the slots below too.
Insert_NoReturn(r, i) ==
    mapped' = [j \in Slot |-> IF j <= i /\ mapped[j] = Unused THEN r ELSE mapped[j]]

Insert(r, i) == mapped' = [mapped EXCEPT ![i] = r]

\* Mutant: two is taken off the count.
Done_Less(r) == counts' = [counts EXCEPT ![r] = @ - 2]

\* A register that was tried is not tried again.  Counts are naturals here; the
\* code's are shorts, which no function of the model's bounds overflows.
Done(r) == counts' = [counts EXCEPT ![r] = 0]

MapMostUsed ==
    \E r \in RegId, i \in Slot :
        /\ ~full
        /\ IsMostUsed(r)
        /\ Takes(r, i)
        /\ Insert(r, i)
        /\ Done(r)
        /\ UNCHANGED <<uses, full>>

TableFull ==
    \E r \in RegId :
        /\ ~full
        /\ IsMostUsed(r)
        /\ \A i \in Slot : ~Takes(r, i)
        /\ full' = TRUE
        /\ Done(r)
        /\ UNCHANGED <<uses, mapped>>

VregNext == MapMostUsed \/ TableFull

VregSpec == VregInit /\ [][VregNext]_vregVars /\ WF_vregVars(VregNext)

Finished == full \/ \A r \in RegId : counts[r] = 0

IsMapped(r) == \E i \in Slot : mapped[i] = r

-----------------------------------------------------------------------------
VregTypeOK ==
    /\ uses \in [RegId -> Nat]
    /\ counts \in [RegId -> Nat]
    /\ mapped \in [Slot -> RegId \cup {Unused}]
    /\ full \in BOOLEAN

\* vreg_table.c:9: no guest register is ever in two host registers, or two
\* guest registers would be written back over each other.
OneSlotEach ==
    \A i, j \in Slot : mapped[i] # Unused /\ mapped[i] = mapped[j] => i = j

\* vreg_table.c:8: the slots in use are the highest ones, so the four
\* caller-saved slots r8..r11 are used last.
FilledFromTop ==
    \A i, j \in Slot : i < j /\ mapped[i] # Unused => mapped[j] # Unused

\* vreg_table.h:17, "as many virtual registers as possible": a register is left
\* in memory only when every mapped one is used at least as often and, once the
\* loop has ended, only when it is not used or no slot is free.
MostUsedMapped ==
    \A r \in RegId : ~IsMapped(r) =>
        /\ \A i \in Slot : mapped[i] # Unused => uses[mapped[i]] >= uses[r]
        /\ Finished /\ uses[r] > 0 => \A i \in Slot : mapped[i] # Unused

\* vreg_table.c:70: the loop ends with the table that compiled code is modelled with.
EndsInOrder == <>(Finished /\ mapped = TableOf(MappingOrder(uses)))
=============================================================================
