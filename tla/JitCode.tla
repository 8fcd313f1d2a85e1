------------------------------- MODULE JitCode -------------------------------
(***************************************************************************)
(* What jit_prepare (jit.c) makes of the guest code at an address, and     *)
(* what jit_link (linker.c) does with its relative jumps.  The x64 bytes   *)
(* are left out: a compiled function is the list of guest instructions it  *)
(* translates, read once, with the table of its mapped registers.          *)
(***************************************************************************)
EXTENDS VregScan

-----------------------------------------------------------------------------
(* The translation loop.  It ends after ret, std, cld or an opcode it has  *)
(* no case for; a jump does not end it.                                    *)
EndsFunction(op) == op \in {I_RET, I_STD, I_CLD} \/ op \notin Implemented

\* One translated instruction.
Translated(m, a) ==
    [at    |-> a,
     instr |-> LoadShort(m, a),
     ext   |-> IF SizeAt(m, a) = 4 THEN LoadShort(m, Wrap(a + 2)) ELSE 0]

\* The addresses that the loop comes to, one after the other.
Fetches(m, address) ==
    LET pc[n \in Nat] ==
            IF n = 0 THEN address
            ELSE LET a == pc[n - 1] IN Wrap(a + SizeAt(m, a))
    IN  pc

\* Up to the instruction that ends the function.  Nothing results from a loop
\* that comes to one address twice: it goes on writing for ever.
Translate(m, address) ==
    LET pc      == Fetches(m, address)
        Ends(n) == EndsFunction(Peek(m, pc[n]))
        First(n) == Ends(n) /\ \A k \in 0 .. n - 1 : ~Ends(k)
    IN  IF \A n \in Word : ~Ends(n) THEN <<>>
        ELSE [i \in 1 .. (CHOOSE n \in Word : First(n)) + 1 |-> Translated(m, pc[i - 1])]

\* The result of jit_prepare.
Prepare(m, address) ==
    [addr  |-> address,
     order |-> SolveRegion(m, address),
     code  |-> Translate(m, address)]

-----------------------------------------------------------------------------
(* The register table: the k-th register of the order is in slot 7 - k. *)
MappedSlots(f)   == {7 - k : k \in DOMAIN f.order}
IsMappedIn(f, r) == \E k \in DOMAIN f.order : f.order[k] = r
SlotOf(f, r)     == 7 - (CHOOSE k \in DOMAIN f.order : f.order[k] = r)
RegIn(f, i)      == TableOf(f.order)[i]

\* Mutant: r11 is left out.
CallerSaved_Three == 0 .. 2

\* The slots that load_virtual_registers and store_mapped_virtual_registers
\* treat when only_caller_save is set.
CallerSaved == 0 .. 3

\* r8..r11, which a C function may overwrite.
HostScratch == 0 .. 3

-----------------------------------------------------------------------------
(* The instruction container: one entry per word of guest code.  Both      *)
(* words of an extended instruction have the address of its first byte.    *)
Words(c) == IF XIS_NUM_OPS(OpcodeOf(c.instr)) = XIS_EXTENDED THEN 2 ELSE 1

ContainerOf(f) ==
    LET upto[n \in 0 .. Len(f.code)] ==
            IF n = 0 THEN <<>>
            ELSE upto[n - 1] \o [w \in 1 .. Words(f.code[n]) |-> n]
    IN  upto[Len(f.code)]

(* What becomes of a relative jump to target: "linked" to the instruction  *)
(* of an entry; "dynamic" when the linker leaves it alone; "stray" when it *)
(* reads the entry after the last one, which was never written.            *)
LinkKind(f, target) ==
    LET relative == target - f.addr
        length   == Len(ContainerOf(f))
    IN  IF relative < 0 \/ relative > 2 * length THEN "dynamic"
        ELSE IF relative \div 2 < length THEN "linked"
        ELSE "stray"

\* Mutant: the instructions are counted as if all had an operand.
LinkedTo_Long(f, target) == ContainerOf(f)[((target - f.addr) \div 4) + 1]

LinkedTo(f, target) == ContainerOf(f)[((target - f.addr) \div 2) + 1]

(* A branch that is not linked jumps over its conditional block with a     *)
(* displacement of one signed byte: 43 bytes of code, 8 for each mapped    *)
(* register stored and 8 for each caller-saved one loaded again.           *)
CondBlockSize(f) ==
    43 + 8 * Cardinality(MappedSlots(f))
       + 8 * Cardinality(MappedSlots(f) \cap CallerSaved)

SkipsCondBlock(f) == CondBlockSize(f) <= 127
=============================================================================
