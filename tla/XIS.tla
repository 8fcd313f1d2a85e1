-------------------------------- MODULE XIS --------------------------------
(***************************************************************************)
(* The X instruction set: machine words, the opcodes of xis.h, the macros  *)
(* that take an instruction word apart, and the 16-bit arithmetic that the *)
(* C code gets by storing an int into an unsigned short.                   *)
(***************************************************************************)
EXTENDS Integers

Byte     == 0 .. 255
WordSize == 65536
Word     == 0 .. WordSize - 1
RegId    == 0 .. 15

SP == 15                       \* the stack pointer is register 15

-----------------------------------------------------------------------------
(* Opcodes.  The two top bits of an opcode give its number of operands. *)
I_BAD   == 0
I_RET   == 1
I_CLD   == 2
I_STD   == 3
I_NEG   == 65
I_NOT   == 66
I_PUSH  == 67
I_POP   == 68
I_JMPR  == 69
I_CALLR == 70
I_OUT   == 71
I_INC   == 72
I_DEC   == 73
I_BR    == 97
I_JR    == 98
I_ADD   == 129
I_SUB   == 130
I_MUL   == 131
I_DIV   == 132
I_AND   == 133
I_OR    == 134
I_XOR   == 135
I_SHR   == 136
I_SHL   == 137
I_TEST  == 138
I_CMP   == 139
I_EQU   == 140
I_MOV   == 141
I_LOAD  == 142
I_STOR  == 143
I_LOADB == 144
I_STORB == 145
I_JMP   == 193
I_CALL  == 194
I_LOADI == 225

ArithOps   == {I_ADD, I_SUB, I_MUL, I_DIV, I_AND, I_OR, I_XOR, I_SHR, I_SHL}
CompareOps == {I_TEST, I_CMP, I_EQU}
UnaryOps   == {I_NEG, I_NOT, I_INC, I_DEC}
BranchOps  == {I_BR, I_JR}

\* Mutant: opcode 0 is taken for an implemented one.
Implemented_WithBad == 0 .. 3 \cup 65 .. 73 \cup {97, 98} \cup 129 .. 145 \cup {193, 194, 225}

\* What the switches of xcpu_execute have a case for; anything else is invalid.
Implemented ==
    {I_RET, I_CLD, I_STD, I_PUSH, I_POP, I_JMPR, I_CALLR, I_OUT, I_MOV, I_LOAD,
     I_STOR, I_LOADB, I_STORB, I_JMP, I_CALL, I_LOADI}
    \cup ArithOps \cup CompareOps \cup UnaryOps \cup BranchOps

-----------------------------------------------------------------------------
(* Instruction words. *)
XIS_EXTENDED     == 3
XIS_NUM_OPS(op)  == (op \div 64) % 4
XIS_REG1(instr)  == (instr \div 16) % 16
XIS_REG2(instr)  == instr % 16
OpcodeOf(instr)  == instr \div 256

Wrap(i)      == i % WordSize                           \* (unsigned short) i
SignedLow(w) == ((w + 128) % 256) - 128                \* (char) (w & 0xFF)

-----------------------------------------------------------------------------
(* Arithmetic.  A product is taken in two halves so that it stays within   *)
(* TLC's integers; shift counts are taken modulo 32, as the processor does *)
(* with the int shift the C code asks for.                                 *)
Pow2 == <<1, 2, 4, 8, 16, 32, 64, 128, 256, 512, 1024, 2048, 4096, 8192, 16384,
          32768>>

Bit(x, i) == (x \div Pow2[i + 1]) % 2

FromBits(B(_)) ==
    LET d(i) == IF B(i) THEN 1 ELSE 0
    IN  d(0) + 2 * d(1) + 4 * d(2) + 8 * d(3) + 16 * d(4) + 32 * d(5)
        + 64 * d(6) + 128 * d(7) + 256 * d(8) + 512 * d(9) + 1024 * d(10)
        + 2048 * d(11) + 4096 * d(12) + 8192 * d(13) + 16384 * d(14)
        + 32768 * d(15)

AndW(x, y) == LET b(i) == Bit(x, i) = 1 /\ Bit(y, i) = 1 IN FromBits(b)
OrW(x, y)  == LET b(i) == Bit(x, i) = 1 \/ Bit(y, i) = 1 IN FromBits(b)
XorW(x, y) == LET b(i) == Bit(x, i) # Bit(y, i)          IN FromBits(b)

MulW(x, y) == Wrap(Wrap((x \div 256) * y) * 256 + ((x % 256) * y))
ShrW(x, n) == IF (n % 32) > 15 THEN 0 ELSE x \div Pow2[(n % 32) + 1]
ShlW(x, n) == IF (n % 32) > 15 THEN 0 ELSE Wrap(x * Pow2[(n % 32) + 1])

\* regs[dest] = regs[dest] op regs[src]
Arith(op, d, s) ==
    CASE op = I_ADD -> Wrap(d + s)
      [] op = I_SUB -> Wrap(d - s)
      [] op = I_MUL -> MulW(d, s)
      [] op = I_DIV -> d \div s
      [] op = I_AND -> AndW(d, s)
      [] op = I_OR  -> OrW(d, s)
      [] op = I_XOR -> XorW(d, s)
      [] op = I_SHR -> ShrW(d, s)
      [] op = I_SHL -> ShlW(d, s)

\* Mutant: the operands of cmp are swapped.
Compare_Swapped(op, s, d) ==
    CASE op = I_TEST -> AndW(s, d) # 0
      [] op = I_CMP  -> d < s
      [] op = I_EQU  -> s = d

Compare(op, s, d) ==
    CASE op = I_TEST -> AndW(s, d) # 0
      [] op = I_CMP  -> s < d
      [] op = I_EQU  -> s = d

\* Mutant: the result of neg is not cut to 16 bits.
Unary_Wide(op, x) ==
    CASE op = I_NEG -> 0 - x
      [] op = I_NOT -> IF x = 0 THEN 1 ELSE 0
      [] op = I_INC -> Wrap(x + 1)
      [] op = I_DEC -> Wrap(x - 1)

Unary(op, x) ==
    CASE op = I_NEG -> Wrap(0 - x)
      [] op = I_NOT -> IF x = 0 THEN 1 ELSE 0
      [] op = I_INC -> Wrap(x + 1)
      [] op = I_DEC -> Wrap(x - 1)
=============================================================================
