------------------------------ MODULE VregScan ------------------------------
(***************************************************************************)
(* vreg_table.c: which guest registers a compiled function keeps in the    *)
(* host registers r8..r14, as a function of guest memory.  The region is   *)
(* scanned once, the uses of each guest register are counted and the most  *)
(* used ones get a host register; VregTable models the loop that finds     *)
(* them and shows that it ends with the table given here.                  *)
(***************************************************************************)
EXTENDS XMem, FiniteSets, Sequences

-----------------------------------------------------------------------------
(* The scan.  It follows the code in memory order, not in the order of     *)
(* execution, up to the first ret or zero opcode, and its pc is an int:    *)
(* it does not wrap to 0 after the last address.                           *)
ScanStops(m, a) == Peek(m, a) \in {I_BAD, I_RET}

SizeAt(m, a) == IF XIS_NUM_OPS(Peek(m, a)) = XIS_EXTENDED THEN 4 ELSE 2

\* The registers an instruction counts, one entry per count.
Counted(instr) ==
    LET op == OpcodeOf(instr)
    IN  CASE XIS_NUM_OPS(op) = 1 /\ op \in BranchOps       -> <<>>
          [] XIS_NUM_OPS(op) = 1 /\ op \in {I_PUSH, I_POP} -> <<XIS_REG1(instr), SP>>
          [] XIS_NUM_OPS(op) = 1 /\ op \notin BranchOps \cup {I_PUSH, I_POP}
                                                           -> <<XIS_REG1(instr)>>
          [] XIS_NUM_OPS(op) = 2 -> <<XIS_REG1(instr), XIS_REG2(instr)>>
          [] op = I_LOADI        -> <<XIS_REG1(instr)>>
          [] OTHER               -> <<>>

AddCount(c, r) == [c EXCEPT ![r] = @ + 1]

AddCounts(c, s) ==
    CASE Len(s) = 0 -> c
      [] Len(s) = 1 -> AddCount(c, s[1])
      [] Len(s) = 2 -> AddCount(AddCount(c, s[1]), s[2])

\* The counts when the scan of the code at address has ended.
ScanCounts(m, address) ==
    LET from[a \in Nat] ==
            IF ScanStops(m, a) THEN [r \in RegId |-> 0]
            ELSE AddCounts(from[a + SizeAt(m, a)], Counted(LoadShort(m, a)))
    IN  from[address]

-----------------------------------------------------------------------------
(* The table: slot i of mapped is the host register r(8 + i).  It is       *)
(* filled from the highest slot down with the registers in this order: the *)
(* most used first and, of those used equally, the lowest.                 *)
Slot   == 0 .. 6
Unused == -1

Before(c, q, r) == c[q] > c[r] \/ (c[q] = c[r] /\ q < r)

\* At most seven registers, in that order.
MappingOrder(c) ==
    LET first[n \in 0 .. 7] ==
            IF n = 0 THEN <<>>
            ELSE LET prev == first[n - 1]
                     left == {r \in RegId : c[r] > 0 /\ \A k \in DOMAIN prev : prev[k] # r}
                 IN  IF left = {} THEN prev
                     ELSE Append(prev, CHOOSE r \in left :
                                           \A q \in left : ~Before(c, q, r))
    IN  first[7]

TableOf(order) ==
    [i \in Slot |-> IF 7 - i \in DOMAIN order THEN order[7 - i] ELSE Unused]

SolveRegion(m, address) == MappingOrder(ScanCounts(m, address))
=============================================================================
