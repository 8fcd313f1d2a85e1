--------------------------- MODULE JitEmitProofs ---------------------------
(***************************************************************************)
(* The code that jit_prepare generates fits into its buffer, whatever      *)
(* program it translates, as long as it has no more than 81 instructions,  *)
(* and what the linker and call_static write lies inside of it.  The       *)
(* instructions, the container entries and the sizes of the branches are   *)
(* those of the translation that JitMachine executes.                      *)
(***************************************************************************)
EXTENDS JitEmit, JitCodeProofs

-----------------------------------------------------------------------------
(* Sequences of bytes, by their length.  The bytes made of the entries of  *)
(* the register table are taken as they are: the length does not depend on *)
(* them, and EmitTypeCorrect shows that they are bytes.                    *)
Reg       == 0 .. 15
CodeBytes == Byte \cup {Imm32(2 * mapped[i])[j] : i \in Slot, j \in 1 .. 4}

Piece(s, lo, hi) == s \in Seq(CodeBytes) /\ lo <= Len(s) /\ Len(s) <= hi

\* Numbers below 256, and what is cut to them.
LEMMA Bytes ==
    /\ Byte \subseteq CodeBytes
    /\ \A v \in Int : v % 256 \in Byte
    /\ 0 \in Byte /\ 1 \in Byte /\ 8 \in Byte
    /\ Byte = {b \in Int : 0 <= b /\ b <= 255}
BY DEF Byte, CodeBytes

LEMMA Imm16Piece ==
    ASSUME NEW v \in Int
    PROVE  Piece(Imm16(v), 2, 2)
BY Bytes DEF Imm16, Piece

LEMMA Imm32Piece ==
    ASSUME NEW v \in Int
    PROVE  Piece(Imm32(v), 4, 4)
BY Bytes DEF Imm32, Piece

LEMMA SlotPiece ==
    ASSUME NEW i \in Slot
    PROVE  Piece(Imm32(2 * mapped[i]), 4, 4)
BY DEF Imm32, Piece, CodeBytes

LEMMA Imm64Piece ==
    ASSUME NEW v \in Int
    PROVE  Piece(Imm64(v), 8, 8)
BY Imm32Piece, Bytes DEF Imm64, Piece

\* A prefix, an operand byte and a register in an opcode are bytes.
LEMMA RexByte ==
    ASSUME NEW w \in {0, 1}, NEW r \in Reg, NEW s \in Reg
    PROVE  REX(w, r, s) \in CodeBytes
<1>1. REX(w, r, s) \in Byte
  BY DEF REX, REXI, Reg, Byte
<1> QED
  BY <1>1, Bytes

LEMMA RexiByte ==
    ASSUME NEW w \in {0, 1}, NEW r \in Reg, NEW i \in Reg, NEW s \in Reg
    PROVE  REXI(w, r, i, s) \in CodeBytes
<1>1. REXI(w, r, i, s) \in Byte
  BY DEF REXI, Reg, Byte
<1> QED
  BY <1>1, Bytes

LEMMA ModrmByte ==
    ASSUME NEW m \in 0 .. 3, NEW r \in Reg, NEW s \in Reg
    PROVE  MODRM(m, r, s) \in CodeBytes
<1>1. r % 8 \in 0 .. 7 /\ s % 8 \in 0 .. 7
  BY DEF Reg
<1>2. MODRM(m, r, s) \in Byte
  BY <1>1 DEF MODRM, Byte
<1> QED
  BY <1>2, Bytes

LEMMA OpcodeByte ==
    ASSUME NEW o \in 0 .. 248, NEW r \in Reg
    PROVE  o + (r % 8) \in CodeBytes
<1>1. r % 8 \in 0 .. 7
  BY DEF Reg
<1> QED
  BY <1>1, Bytes

\* The registers with a name, and the number that stands for none.
LEMMA Named ==
    /\ {RAX, RCX, RDX, RBX, RSP, RBP, RSI, RDI, AL} \subseteq Reg
    /\ {CPU_STATE_REG, VMEM_BASE_REG, SCRATCH_REG, SCRATCH_REG_2} \subseteq Reg
    /\ {0, 4, 12, 13, 14, 15} \subseteq Reg
    /\ 0 .. 7 \subseteq Reg
BY DEF Reg, RAX, RCX, RDX, RBX, RSP, RBP, RSI, RDI, AL, CPU_STATE_REG, VMEM_BASE_REG, SCRATCH_REG,
   SCRATCH_REG_2

LEMMA OptionalPiece ==
    ASSUME NEW r \in Reg, NEW s \in Reg
    PROVE  Piece(OptionalREX(r, s), 0, 1)
BY RexByte DEF OptionalREX, Piece

-----------------------------------------------------------------------------
(* The encoders. *)
LEMMA MovePieces ==
    ASSUME NEW r \in Reg, NEW s \in Reg, NEW v \in Int, NEW offset, Piece(Imm32(offset), 4, 4)
    PROVE  /\ Piece(x64_map_mov_reg2reg(r, s), 3, 3)
           /\ Piece(x64_map_move_imm2reg(r, v), 10, 10)
           /\ Piece(x64_map_movzx_indirect2reg(r, s, offset), 8, 8)
           /\ Piece(x64_map_mov_indirect2reg64(r, s, offset), 7, 7)
           /\ Piece(x64_map_mov_reg2indirect(r, s, offset), 8, 8)
           /\ Piece(x64_map_mov_reg2indirect64(r, s, offset), 7, 7)
<1>1. /\ REX(1, r, s) \in CodeBytes /\ REX(1, 0, r) \in CodeBytes /\ REX(0, r, s) \in CodeBytes
      /\ MODRM(3, r, s) \in CodeBytes /\ MODRM(2, r, s) \in CodeBytes
      /\ 184 + (r % 8) \in CodeBytes
  BY RexByte, ModrmByte, OpcodeByte, Named
<1>2. {137, 15, 183, 139, 102} \subseteq CodeBytes
  BY Bytes
<1>3. Piece(x64_map_mov_reg2reg(r, s), 3, 3)
  BY <1>1, <1>2 DEF Piece, x64_map_mov_reg2reg
<1>a. Piece(Imm64(v), 8, 8)
  BY Imm64Piece
<1>4. Piece(x64_map_move_imm2reg(r, v), 10, 10)
  BY <1>1, <1>2, <1>a DEF Piece, x64_map_move_imm2reg
<1>5. Piece(x64_map_movzx_indirect2reg(r, s, offset), 8, 8)
  BY <1>1, <1>2 DEF Piece, x64_map_movzx_indirect2reg
<1>6. Piece(x64_map_mov_indirect2reg64(r, s, offset), 7, 7)
  BY <1>1, <1>2 DEF Piece, x64_map_mov_indirect2reg64
<1>7. Piece(x64_map_mov_reg2indirect(r, s, offset), 8, 8)
  BY <1>1, <1>2 DEF Piece, x64_map_mov_reg2indirect, OPERAND16
<1>8. Piece(x64_map_mov_reg2indirect64(r, s, offset), 7, 7)
  BY <1>1, <1>2 DEF Piece, x64_map_mov_reg2indirect64
<1> QED
  BY <1>3, <1>4, <1>5, <1>6, <1>7, <1>8

LEMMA GuestMemoryPieces ==
    ASSUME NEW r \in Reg, NEW s \in Reg, NEW t \in Reg, NEW mode \in {MOV_SCALE_8, MOV_SCALE_16}
    PROVE  /\ Piece(x64_map_mov_8_16_scaled2reg(r, s, t, mode), 6, 7)
           /\ Piece(x64_map_mov_8_16_reg2scaled(r, s, t, mode), 5, 6)
<1>1. /\ REXI(0, r, t, s) \in CodeBytes /\ MODRM(1, r, 4) \in CodeBytes
      /\ SIB(0, t, s) \in CodeBytes
  BY RexiByte, ModrmByte, Named DEF SIB
<1>2. {137, 136, 15, 183, 182, 102, 0} \subseteq CodeBytes
  BY Bytes
<1>3. Piece(x64_map_mov_8_16_scaled2reg(r, s, t, mode), 6, 7)
  BY <1>1, <1>2 DEF Piece, x64_map_mov_8_16_scaled2reg, OPERAND16
<1>4. Piece(x64_map_mov_8_16_reg2scaled(r, s, t, mode), 5, 6)
  BY <1>1, <1>2 DEF Piece, x64_map_mov_8_16_reg2scaled, OPERAND16
<1> QED
  BY <1>3, <1>4

LEMMA ImmediatePiece ==
    ASSUME NEW v \in Int, NEW r \in Reg, NEW o \in Byte
    PROVE  Piece(x64_map_mov_imm2indirect(v, r, o), 6, 7)
<1>1. MODRM(1, 0, r) \in CodeBytes /\ {102, 199, o} \subseteq CodeBytes
  BY ModrmByte, Named, Bytes
<1>2. Piece(OptionalREX(0, r), 0, 1) /\ Piece(Imm16(v), 2, 2)
  BY OptionalPiece, Imm16Piece, Named
<1> QED
  BY <1>1, <1>2 DEF Piece, x64_map_mov_imm2indirect, OPERAND16

LEMMA OpPieces ==
    ASSUME NEW r \in Reg, NEW s \in Reg, NEW op \in Byte, NEW e \in 0 .. 7
    PROVE  /\ Piece(REG2REG_OP_16(op, r, s), 3, 4)
           /\ Piece(ExtendedOp16(op, e, r), 3, 4)
           /\ Piece(x64_map_add_reg2reg(r, s), 2, 3)
<1>1. /\ MODRM(3, r, s) \in CodeBytes /\ MODRM(3, e, r) \in CodeBytes
      /\ MODRM(3, s, r) \in CodeBytes /\ REX(1, s, r) \in CodeBytes
  BY RexByte, ModrmByte, Named
<1>2. {102, 1, op} \subseteq CodeBytes
  BY Bytes
<1>3. Piece(OptionalREX(r, s), 0, 1) /\ Piece(OptionalREX(0, r), 0, 1)
  BY OptionalPiece, Named
<1>4. Piece(REG2REG_OP_16(op, r, s), 3, 4)
  BY <1>1, <1>2, <1>3 DEF Piece, REG2REG_OP_16, OPERAND16
<1>5. Piece(ExtendedOp16(op, e, r), 3, 4)
  BY <1>1, <1>2, <1>3 DEF Piece, ExtendedOp16, OPERAND16
<1>6. Piece(x64_map_add_reg2reg(r, s), 2, 3)
  BY <1>1, <1>2 DEF Piece, x64_map_add_reg2reg
<1> QED
  BY <1>4, <1>5, <1>6

LEMMA ArithPieces ==
    ASSUME NEW r \in Reg, NEW s \in Reg
    PROVE  /\ Piece(x64_map_sub_reg2reg16(r, s), 3, 4) /\ Piece(x64_map_and_reg2reg16(r, s), 3, 4)
           /\ Piece(x64_map_or_reg2reg16(r, s), 3, 4) /\ Piece(x64_map_xor_reg2reg64(r, s), 3, 4)
           /\ Piece(x64_map_cmp_reg2reg16(r, s), 3, 4) /\ Piece(x64_map_test_reg2reg16(r, s), 3, 4)
           /\ Piece(x64_map_add_reg2reg(r, s), 2, 3)
<1>1. {41, 33, 9, 49, 59, 133} \subseteq Byte
  BY Bytes
<1> QED
  BY <1>1, OpPieces DEF x64_map_sub_reg2reg16, x64_map_and_reg2reg16, x64_map_or_reg2reg16,
     x64_map_xor_reg2reg64, x64_map_cmp_reg2reg16, x64_map_test_reg2reg16

LEMMA OneOperandPieces ==
    ASSUME NEW r \in Reg
    PROVE  /\ Piece(x64_map_mul_reg2ax16(r), 3, 4) /\ Piece(x64_map_div_reg2ax16(r), 3, 4)
           /\ Piece(x64_map_neg_reg16(r), 3, 4) /\ Piece(x64_map_shr_reg2reg16(r), 3, 4)
           /\ Piece(x64_map_shl_reg2reg16(r), 3, 4)
           /\ Piece(x64_map_inc_dec_reg16(MODE_INC, r), 3, 4)
           /\ Piece(x64_map_inc_dec_reg16(MODE_DEC, r), 3, 4)
           /\ Piece(x64_map_or_imm16(r, 2), 5, 6) /\ Piece(x64_map_and_imm16(r, 1), 5, 6)
           /\ Piece(x64_map_ror_rm16_imm8(r, 8), 4, 5)
<1>1. {247, 211, 255, 129, 193} \subseteq Byte
  BY Bytes
<1>2. \A op \in {247, 211, 255, 129, 193}, e \in 0 .. 7 : Piece(ExtendedOp16(op, e, r), 3, 4)
  BY <1>1, OpPieces
<1>a. Piece(Imm16(1), 2, 2) /\ Piece(Imm16(2), 2, 2)
  BY Imm16Piece
<1>b. Piece(ExtendedOp16(129, 4, r), 3, 4) /\ Piece(ExtendedOp16(129, 1, r), 3, 4)
      /\ Piece(ExtendedOp16(193, 1, r), 3, 4)
  BY <1>2
<1>3. Piece(x64_map_or_imm16(r, 2), 5, 6) /\ Piece(x64_map_and_imm16(r, 1), 5, 6)
  BY <1>a, <1>b DEF Piece, x64_map_or_imm16, x64_map_and_imm16
<1>4. Piece(x64_map_ror_rm16_imm8(r, 8), 4, 5)
  BY <1>b, Bytes DEF Piece, x64_map_ror_rm16_imm8
<1> QED
  BY <1>2, <1>3, <1>4 DEF x64_map_mul_reg2ax16, x64_map_div_reg2ax16, x64_map_neg_reg16,
     x64_map_shr_reg2reg16, x64_map_shl_reg2reg16, x64_map_inc_dec_reg16, MODE_INC, MODE_DEC

LEMMA FlowPieces ==
    ASSUME NEW r \in Reg
    PROVE  /\ Piece(x64_map_push(r), 1, 2) /\ Piece(x64_map_pop(r), 1, 2)
           /\ Piece(x64_map_absolute_jmp(r), 2, 3) /\ Piece(x64_map_call(r), 2, 3)
<1>1. /\ 80 + (r % 8) \in CodeBytes /\ 88 + (r % 8) \in CodeBytes
      /\ 208 + (r % 8) \in CodeBytes /\ 224 + (r % 8) \in CodeBytes
  BY OpcodeByte
<1>2. 255 \in CodeBytes
  BY Bytes
<1>3. Piece(OptionalREX(0, r), 0, 1)
  BY OptionalPiece, Named
<1>4. Piece(x64_map_push(r), 1, 2) /\ Piece(x64_map_pop(r), 1, 2)
  BY <1>1, <1>3 DEF Piece, x64_map_push, x64_map_pop
<1>5. Piece(x64_map_absolute_jmp(r), 2, 3) /\ Piece(x64_map_call(r), 2, 3)
  BY <1>1, <1>2, <1>3 DEF Piece, x64_map_absolute_jmp, x64_map_call
<1> QED
  BY <1>4, <1>5

LEMMA RelativePieces ==
    ASSUME NEW d \in Int
    PROVE  /\ Piece(x64_map_jz_rel8(d), 2, 2) /\ Piece(x64_map_jmp_rel32(d), 5, 5)
           /\ Piece(x64_map_jnz_rel32(d), 6, 6)
<1>1. {116, 233, 15, 133, d % 256} \subseteq CodeBytes
  BY Bytes
<1>2. Piece(Imm32(d), 4, 4)
  BY Imm32Piece
<1> QED
  BY <1>1, <1>2 DEF Piece, x64_map_jz_rel8, x64_map_jmp_rel32, x64_map_jnz_rel32

LEMMA FixedPieces ==
    /\ Piece(x64_map_ret, 1, 1) /\ Piece(x64_map_setz(AL), 3, 3)
    /\ Piece(x64_map_setb(AL), 3, 3) /\ Piece(x64_map_setne(AL), 3, 3)
    /\ Piece(<<>>, 0, 0)
<1>1. MODRM(3, 0, AL) \in CodeBytes /\ {195, 15, 148, 146, 149} \subseteq CodeBytes
  BY ModrmByte, Named, Bytes
<1> QED
  BY <1>1 DEF Piece, x64_map_ret, x64_map_setz, x64_map_setb, x64_map_setne

-----------------------------------------------------------------------------
(* The operands of an instruction. *)
LEMMA OperandTypes ==
    ASSUME IsMemory(program), pc \in Word
    PROVE  /\ Ext \in Int
           /\ Src \in RegId /\ Dst \in RegId
           /\ After \in Word /\ target \in Word /\ switch_endianness(After) \in Int
<1>1. Instr \in Word /\ Ext \in Word
  BY LoadShortWord DEF Instr, Ext
<1>2. Src \in RegId /\ Dst \in RegId /\ SignedLow(Instr) \in Int
  BY <1>1, InstructionParts, InWord DEF Src, Dst, SignedLow
<1>3. After \in Word
  BY InWord, WrapWord DEF After, SizeAt
<1>4. target \in Word
  BY <1>2, <1>3, InWord, WrapWord DEF target
<1>5. switch_endianness(After) \in Int
  BY <1>3, InWord DEF switch_endianness
<1> QED
  BY <1>1, <1>2, <1>3, <1>4, <1>5, InWord

-----------------------------------------------------------------------------
(* Registers in the table and in the struct. *)
LEMMA HoldsType ==
    ASSUME NEW v, NEW t \in Reg
    PROVE  Holds(v, t) \in Reg
<1>1. CASE Mapped(v)
  <2> DEFINE i == CHOOSE i \in Slot : mapped[i] = v
  <2>1. i \in Slot
    BY <1>1 DEF Mapped
  <2>2. Holds(v, t) = 8 + i
    BY <1>1 DEF Holds
  <2> HIDE DEF i
  <2> QED
    BY <2>1, <2>2 DEF Slot, Reg
<1>2. CASE ~Mapped(v)
  BY <1>2 DEF Holds
<1> QED
  BY <1>1, <1>2

LEMMA RegisterPieces ==
    ASSUME NEW v \in 0 .. 17, NEW r \in Reg
    PROVE  /\ Piece(Load(v, r), 0, 8) /\ Piece(STORE_ALWAYS(r, v), 8, 8)
           /\ Piece(STORE_IF_NEEDED(r, v), 0, 8)
<1>1. Piece(Imm32(2 * v), 4, 4)
  BY Imm32Piece
<1>2. Piece(x64_map_movzx_indirect2reg(r, CPU_STATE_REG, 2 * v), 8, 8)
      /\ Piece(x64_map_mov_reg2indirect(r, CPU_STATE_REG, 2 * v), 8, 8)
  BY <1>1, MovePieces, Named
<1> QED
  BY <1>2 DEF Piece, Load, STORE_ALWAYS, STORE_IF_NEEDED

\* One piece after another.
LEMMA Joined ==
    ASSUME NEW s, NEW t, NEW a \in Int, NEW b \in Int, NEW c \in Int, NEW d \in Int,
           NEW e \in Int, NEW f \in Int,
           Piece(s, a, b), Piece(t, c, d), e <= a + c, b + d <= f
    PROVE  Piece(s \o t, e, f)
BY DEF Piece

LEMMA SlotPieces ==
    ASSUME NEW i \in Slot
    PROVE  Piece(LoadSlot(i), 0, 8) /\ Piece(StoreSlot(i), 0, 8)
<1>1. Piece(Imm32(2 * mapped[i]), 4, 4)
  BY SlotPiece
<1>2. 8 + i \in Reg
  BY DEF Slot, Reg
<1>3. Piece(x64_map_movzx_indirect2reg(8 + i, CPU_STATE_REG, 2 * mapped[i]), 8, 8)
      /\ Piece(x64_map_mov_reg2indirect(8 + i, CPU_STATE_REG, 2 * mapped[i]), 8, 8)
  BY <1>1, <1>2, MovePieces, Named
<1> QED
  BY <1>3 DEF Piece, LoadSlot, StoreSlot, STORE_ALWAYS

\* The registers that a C function may overwrite, and all of them.
LoadSaved  == load_virtual_registers(TRUE)
LoadAll    == load_virtual_registers(FALSE)
StoreSaved == store_mapped_virtual_registers(TRUE)
StoreAll   == store_mapped_virtual_registers(FALSE)

\* The loads or the stores of three and of four registers.
LEMMA ThreeSlots ==
    ASSUME NEW s, NEW t, NEW u, Piece(s, 0, 8), Piece(t, 0, 8), Piece(u, 0, 8)
    PROVE  Piece(s \o t \o u, 0, 24)
<1>1. Piece(s \o t, 0, 16)
  BY Joined
<1> QED
  BY <1>1, Joined

LEMMA FourSlots ==
    ASSUME NEW s, NEW t, NEW u, NEW v,
           Piece(s, 0, 8), Piece(t, 0, 8), Piece(u, 0, 8), Piece(v, 0, 8)
    PROVE  Piece(s \o t \o u \o v, 0, 32)
<1>1. Piece(s \o t \o u, 0, 24)
  BY ThreeSlots
<1> QED
  BY <1>1, Joined

LEMMA TablePieces ==
    /\ Piece(LoadSaved, 0, 32) /\ Piece(LoadAll, 0, 56)
    /\ Piece(StoreSaved, 0, 32) /\ Piece(StoreAll, 0, 56)
<1>a. /\ Piece(LoadSlot(0) \o LoadSlot(1) \o LoadSlot(2) \o LoadSlot(3), 0, 32)
      /\ Piece(LoadSlot(4) \o LoadSlot(5) \o LoadSlot(6), 0, 24)
  <2>1. /\ Piece(LoadSlot(0), 0, 8) /\ Piece(LoadSlot(1), 0, 8) /\ Piece(LoadSlot(2), 0, 8)
        /\ Piece(LoadSlot(3), 0, 8)
    BY SlotPieces DEF Slot
  <2>2. Piece(LoadSlot(4), 0, 8) /\ Piece(LoadSlot(5), 0, 8) /\ Piece(LoadSlot(6), 0, 8)
    BY SlotPieces DEF Slot
  <2>3. Piece(LoadSlot(0) \o LoadSlot(1) \o LoadSlot(2) \o LoadSlot(3), 0, 32)
    BY <2>1, FourSlots
  <2>4. Piece(LoadSlot(4) \o LoadSlot(5) \o LoadSlot(6), 0, 24)
    BY <2>2, ThreeSlots
  <2> QED
    BY <2>3, <2>4
<1>b. /\ Piece(StoreSlot(0) \o StoreSlot(1) \o StoreSlot(2) \o StoreSlot(3), 0, 32)
      /\ Piece(StoreSlot(4) \o StoreSlot(5) \o StoreSlot(6), 0, 24)
  <2>1. /\ Piece(StoreSlot(0), 0, 8) /\ Piece(StoreSlot(1), 0, 8) /\ Piece(StoreSlot(2), 0, 8)
        /\ Piece(StoreSlot(3), 0, 8)
    BY SlotPieces DEF Slot
  <2>2. Piece(StoreSlot(4), 0, 8) /\ Piece(StoreSlot(5), 0, 8) /\ Piece(StoreSlot(6), 0, 8)
    BY SlotPieces DEF Slot
  <2>3. Piece(StoreSlot(0) \o StoreSlot(1) \o StoreSlot(2) \o StoreSlot(3), 0, 32)
    BY <2>1, FourSlots
  <2>4. Piece(StoreSlot(4) \o StoreSlot(5) \o StoreSlot(6), 0, 24)
    BY <2>2, ThreeSlots
  <2> QED
    BY <2>3, <2>4
<1> DEFINE firstL == LoadSlot(0) \o LoadSlot(1) \o LoadSlot(2) \o LoadSlot(3)
           lastL  == LoadSlot(4) \o LoadSlot(5) \o LoadSlot(6)
           firstS == StoreSlot(0) \o StoreSlot(1) \o StoreSlot(2) \o StoreSlot(3)
           lastS  == StoreSlot(4) \o StoreSlot(5) \o StoreSlot(6)
<1>2. /\ LoadSaved = firstL \o <<>> /\ LoadAll = firstL \o lastL
      /\ StoreSaved = firstS \o <<>> /\ StoreAll = firstS \o lastS
  BY DEF LoadSaved, LoadAll, StoreSaved, StoreAll, load_virtual_registers,
     store_mapped_virtual_registers
<1>3. Piece(<<>>, 0, 0)
  BY DEF Piece
<1>4. /\ Piece(firstL, 0, 32) /\ Piece(lastL, 0, 24)
      /\ Piece(firstS, 0, 32) /\ Piece(lastS, 0, 24)
  BY <1>a, <1>b
<1> HIDE DEF firstL, lastL, firstS, lastS
<1>5. Piece(firstL \o <<>>, 0, 32) /\ Piece(firstL \o lastL, 0, 56)
  BY <1>3, <1>4 DEF Piece
<1>6. Piece(firstS \o <<>>, 0, 32) /\ Piece(firstS \o lastS, 0, 56)
  BY <1>3, <1>4 DEF Piece
<1> QED
  BY <1>2, <1>5, <1>6

\* A call of a C function, and what brings a number into a register before it.
LEMMA HostType ==
    \A n \in HostNames : Host[n] \in Nat
BY EmitAssumption

LEMMA CallPieces ==
    ASSUME NEW func \in Nat, NEW to \in Int
    PROVE  /\ Piece(FunctionCall(func), 12, 12) /\ Piece(CallRuntime(func, to), 25, 25)
           /\ Piece(SetPc(to), 6, 7)
<1>1. Piece(x64_map_call(RAX), 2, 2)
  <2>1. OptionalREX(0, RAX) = <<>>
    BY DEF OptionalREX, RAX
  <2>2. <<255, 208 + (RAX % 8)>> \in Seq(CodeBytes)
    <3>1. 208 + (RAX % 8) \in CodeBytes /\ 255 \in CodeBytes
      BY OpcodeByte, Named, Bytes
    <3> QED
      BY <3>1
  <2>3. Piece(<<>>, 0, 0) /\ Piece(<<255, 208 + (RAX % 8)>>, 2, 2)
    BY <2>2 DEF Piece
  <2> DEFINE s == <<255, 208 + (RAX % 8)>>
  <2>4. x64_map_call(RAX) = <<>> \o s
    BY <2>1 DEF x64_map_call
  <2>5. Piece(s, 2, 2)
    BY <2>3
  <2> HIDE DEF s
  <2>6. Piece(<<>> \o s, 2, 2)
    BY <2>3, <2>5 DEF Piece
  <2> QED
    BY <2>4, <2>6
<1>2. Piece(Imm32(0), 4, 4)
  BY Imm32Piece
<1>3. /\ Piece(x64_map_move_imm2reg(RAX, func), 10, 10) /\ Piece(x64_map_move_imm2reg(RSI, to), 10, 10)
      /\ Piece(x64_map_mov_reg2reg(VMEM_BASE_REG, RDI), 3, 3)
  BY <1>2, MovePieces, Named
<1>4. Piece(FunctionCall(func), 12, 12)
  BY <1>1, <1>3 DEF Piece, FunctionCall
<1>5. Piece(CallRuntime(func, to), 25, 25)
  BY <1>3, <1>4 DEF Piece, CallRuntime
<1>6. 2 * PC_INDEX \in Byte
  BY DEF PC_INDEX, Byte
<1>7. Piece(SetPc(to), 6, 7)
  BY <1>6, ImmediatePiece, Named DEF SetPc
<1> QED
  BY <1>4, <1>5, <1>7

-----------------------------------------------------------------------------
(* The prologue. *)
LEMMA NopsPiece ==
    ASSUME NEW n \in Nat
    PROVE  Piece(Nops(n), n, n)
<1>1. NOP[1] \in CodeBytes
  BY Bytes DEF NOP
<1> QED
  BY <1>1 DEF Piece, Nops

LEMMA SavePieces ==
    ASSUME NEW k \in 1 .. 7
    PROVE  Piece(SaveEscape(k), 7, 7) /\ Piece(RestoreEscape(k), 7, 7)
<1>1. escape_registers[k] \in Reg
  BY Named DEF escape_registers
<1>2. Piece(Imm32(8 * k), 4, 4)
  BY Imm32Piece
<1> QED
  BY <1>1, <1>2, MovePieces, Named DEF SaveEscape, RestoreEscape

LEMMA EscapeHatchPiece == Piece(EscapeHatch, 0, 70)
<1>1. Host.state \in Nat
  BY HostType DEF HostNames
<1>2. Piece(Imm32(0), 4, 4)
  BY Imm32Piece
<1>3. /\ Piece(x64_map_move_imm2reg(RAX, Host.state), 10, 10)
      /\ Piece(x64_map_mov_reg2indirect64(RSI, RAX, 0), 7, 7)
  BY <1>1, <1>2, MovePieces, Named
<1>4. Piece(x64_map_pop(RSI), 1, 2) /\ Piece(x64_map_push(RSI), 1, 2)
  BY FlowPieces, Named
<1>5. /\ Piece(SaveEscape(1), 7, 7) /\ Piece(SaveEscape(2), 7, 7) /\ Piece(SaveEscape(3), 7, 7)
      /\ Piece(SaveEscape(4), 7, 7) /\ Piece(SaveEscape(5), 7, 7) /\ Piece(SaveEscape(6), 7, 7)
      /\ Piece(SaveEscape(7), 7, 7)
  BY SavePieces
<1>6. Piece(x64_map_move_imm2reg(RAX, Host.state) \o x64_map_pop(RSI) \o x64_map_push(RSI)
            \o x64_map_mov_reg2indirect64(RSI, RAX, 0), 0, 21)
  BY <1>3, <1>4 DEF Piece
<1>7. Piece(x64_map_move_imm2reg(RAX, Host.state) \o x64_map_pop(RSI) \o x64_map_push(RSI)
            \o x64_map_mov_reg2indirect64(RSI, RAX, 0)
            \o SaveEscape(1) \o SaveEscape(2) \o SaveEscape(3), 0, 42)
  BY <1>5, <1>6 DEF Piece
<1>8. Piece(x64_map_move_imm2reg(RAX, Host.state) \o x64_map_pop(RSI) \o x64_map_push(RSI)
            \o x64_map_mov_reg2indirect64(RSI, RAX, 0)
            \o SaveEscape(1) \o SaveEscape(2) \o SaveEscape(3) \o SaveEscape(4)
            \o SaveEscape(5), 0, 56)
  BY <1>5, <1>7 DEF Piece
<1>9. Piece(x64_map_move_imm2reg(RAX, Host.state) \o x64_map_pop(RSI) \o x64_map_push(RSI)
            \o x64_map_mov_reg2indirect64(RSI, RAX, 0)
            \o SaveEscape(1) \o SaveEscape(2) \o SaveEscape(3) \o SaveEscape(4)
            \o SaveEscape(5) \o SaveEscape(6) \o SaveEscape(7), 0, 70)
  BY <1>5, <1>8 DEF Piece
<1> QED
  BY <1>9 DEF EscapeHatch

LEMMA PreamblePiece == Piece(Preamble, 0, 13)
<1>1. /\ Piece(x64_map_push(RBX), 1, 2) /\ Piece(x64_map_push(12), 1, 2)
      /\ Piece(x64_map_push(13), 1, 2) /\ Piece(x64_map_push(14), 1, 2)
      /\ Piece(x64_map_push(15), 1, 2)
  BY FlowPieces, Named
<1>2. Piece(Imm32(0), 4, 4)
  BY Imm32Piece
<1>3. Piece(x64_map_mov_reg2reg(RDI, CPU_STATE_REG), 3, 3)
  BY <1>2, MovePieces, Named
<1> QED
  BY <1>1, <1>3 DEF Piece, Preamble

\* A longer beginning is not padded.
LEMMA PaddedPiece ==
    ASSUME NEW s, Piece(s, 0, 83)
    PROVE  Piece(Padded(s), 0, 83)
<1> DEFINE n == IF Len(s) < PREAMBLE_LENGTH THEN PREAMBLE_LENGTH - Len(s) ELSE 0
<1>1. n \in Nat /\ Len(s) + n <= 83
  BY DEF Piece, PREAMBLE_LENGTH
<1>2. Padded(s) = s \o Nops(n)
  BY DEF Padded, Nops
<1> HIDE DEF n
<1>3. Piece(Nops(n), n, n)
  BY <1>1, NopsPiece
<1> QED
  BY <1>1, <1>2, <1>3 DEF Piece

LEMMA ProloguePiece ==
    ASSUME pc \in Word
    PROVE  Piece(PrologueCode, 0, 156)
<1> DEFINE start == (IF is_entrypoint THEN EscapeHatch ELSE <<>>) \o Preamble
<1>1. Piece(start, 0, 83)
  <2>1. Piece(EscapeHatch \o Preamble, 0, 83) /\ Piece(<<>> \o Preamble, 0, 83)
    BY EscapeHatchPiece, PreamblePiece, FixedPieces DEF Piece
  <2> QED
    BY <2>1
<1>2. Piece(Padded(start), 0, 83)
  BY <1>1, PaddedPiece
<1>3. Host.program \in Nat /\ pc \in Int
  BY HostType, InWord DEF HostNames
<1>4. Piece(Imm32(0), 4, 4)
  BY Imm32Piece
<1>5. Piece(x64_map_move_imm2reg(VMEM_BASE_REG, Host.program), 10, 10)
  BY <1>3, <1>4, MovePieces, Named
<1>6. Piece(SetPc(pc), 6, 7)
  BY <1>3, CallPieces
<1>7. Piece(LoadAll, 0, 56)
  BY TablePieces
<1>8. PrologueCode = Padded(start) \o x64_map_move_imm2reg(VMEM_BASE_REG, Host.program)
                     \o SetPc(pc) \o LoadAll
  BY DEF PrologueCode, LoadAll
<1> HIDE DEF start
<1>a. Piece(Padded(start) \o x64_map_move_imm2reg(VMEM_BASE_REG, Host.program), 0, 93)
  BY <1>2, <1>5 DEF Piece
<1>b. Piece(Padded(start) \o x64_map_move_imm2reg(VMEM_BASE_REG, Host.program) \o SetPc(pc), 0, 100)
  BY <1>6, <1>a DEF Piece
<1>9. Piece(Padded(start) \o x64_map_move_imm2reg(VMEM_BASE_REG, Host.program)
            \o SetPc(pc) \o LoadAll, 0, 156)
  BY <1>7, <1>b DEF Piece
<1> QED
  BY <1>8, <1>9

-----------------------------------------------------------------------------
(* The code of an instruction without a transfer of control. *)
LEMMA SetFlagPiece ==
    ASSUME NEW s, NEW t, Piece(s, 3, 4), Piece(t, 3, 3)
    PROVE  Piece(SetFlag(s, t), 2, 19)
<1>1. Piece(x64_map_xor_reg2reg64(RAX, RAX), 3, 4)
  BY ArithPieces, Named
<1>2. Piece(Imm32(2 * FLAGS_INDEX), 4, 4)
  BY Imm32Piece DEF FLAGS_INDEX
<1>3. Piece(x64_map_mov_reg2indirect(RAX, CPU_STATE_REG, 2 * FLAGS_INDEX), 8, 8)
  BY <1>2, MovePieces, Named
<1> QED
  BY <1>1, <1>3 DEF Piece, SetFlag

LEMMA ThroughRAXPiece ==
    ASSUME NEW r \in Reg, NEW s, Piece(s, 3, 4)
    PROVE  Piece(ThroughRAX(r, s), 2, 14)
<1>1. Piece(x64_map_xor_reg2reg64(RDX, RDX), 3, 4)
  BY ArithPieces, Named
<1>2. Piece(Imm32(0), 4, 4)
  BY Imm32Piece
<1>3. Piece(x64_map_mov_reg2reg(r, RAX), 3, 3) /\ Piece(x64_map_mov_reg2reg(RAX, r), 3, 3)
  BY <1>2, MovePieces, Named
<1> QED
  BY <1>1, <1>3 DEF Piece, ThroughRAX

\* A piece is one of any larger size.
LEMMA Widened ==
    ASSUME NEW s, NEW a \in Int, NEW b \in Int, NEW c \in Int, NEW d \in Int,
           Piece(s, a, b), c <= a, b <= d
    PROVE  Piece(s, c, d)
BY DEF Piece

\* The operations of two registers that have code of their own; that of cmp is that of
\* the comparison.
TwoOperands ==
    ArithOps \cup {I_EQU, I_TEST, I_MOV, I_LOAD, I_STOR, I_LOADB, I_STORB}

LEMMA BinaryPiece ==
    ASSUME NEW r \in Reg, NEW s \in Reg
    PROVE  /\ Piece(Binary(r, s), 0, 19)
           /\ Op \in TwoOperands => Piece(Binary(r, s), 2, 19)
<1>1. Piece(Imm32(0), 4, 4)
  BY Imm32Piece
<1>2. Piece(x64_map_mov_reg2reg(r, s), 3, 3) /\ Piece(x64_map_mov_reg2reg(r, RCX), 3, 3)
  BY <1>1, MovePieces, Named
<1>3. /\ Piece(x64_map_add_reg2reg(s, r), 2, 3) /\ Piece(x64_map_sub_reg2reg16(r, s), 3, 4)
      /\ Piece(x64_map_and_reg2reg16(r, s), 3, 4) /\ Piece(x64_map_or_reg2reg16(r, s), 3, 4)
      /\ Piece(x64_map_xor_reg2reg64(r, s), 3, 4) /\ Piece(x64_map_xor_reg2reg64(s, s), 3, 4)
  BY ArithPieces
<1>4. /\ Piece(x64_map_shr_reg2reg16(s), 3, 4) /\ Piece(x64_map_shl_reg2reg16(s), 3, 4)
      /\ Piece(x64_map_ror_rm16_imm8(s, 8), 4, 5)
  BY OneOperandPieces
<1>5. /\ Piece(ThroughRAX(s, x64_map_mul_reg2ax16(r)), 2, 14)
      /\ Piece(ThroughRAX(s, x64_map_div_reg2ax16(r)), 2, 14)
  BY OneOperandPieces, ThroughRAXPiece
<1>6. /\ Piece(SetFlag(x64_map_cmp_reg2reg16(s, r), x64_map_setz(AL)), 2, 19)
      /\ Piece(SetFlag(x64_map_test_reg2reg16(s, r), x64_map_setne(AL)), 2, 19)
  <2>1. Piece(x64_map_cmp_reg2reg16(s, r), 3, 4) /\ Piece(x64_map_test_reg2reg16(s, r), 3, 4)
    BY ArithPieces
  <2>2. Piece(x64_map_setz(AL), 3, 3) /\ Piece(x64_map_setne(AL), 3, 3)
    BY FixedPieces
  <2> QED
    BY <2>1, <2>2, SetFlagPiece
<1>7. /\ Piece(x64_map_mov_8_16_scaled2reg(s, VMEM_BASE_REG, r, MOV_SCALE_16), 6, 7)
      /\ Piece(x64_map_mov_8_16_scaled2reg(s, VMEM_BASE_REG, r, MOV_SCALE_8), 6, 7)
      /\ Piece(x64_map_mov_8_16_reg2scaled(r, VMEM_BASE_REG, s, MOV_SCALE_16), 5, 6)
      /\ Piece(x64_map_mov_8_16_reg2scaled(r, VMEM_BASE_REG, s, MOV_SCALE_8), 5, 6)
  BY GuestMemoryPieces, Named
<1>8. Piece(x64_map_mov_reg2reg(r, RCX) \o x64_map_shr_reg2reg16(s), 2, 19)
      /\ Piece(x64_map_mov_reg2reg(r, RCX) \o x64_map_shl_reg2reg16(s), 2, 19)
  BY <1>2, <1>4 DEF Piece
<1>a. Piece(x64_map_mov_8_16_scaled2reg(s, VMEM_BASE_REG, r, MOV_SCALE_16)
            \o x64_map_ror_rm16_imm8(s, 8), 2, 19)
  BY <1>4, <1>7 DEF Piece
<1>b. Piece(x64_map_xor_reg2reg64(s, s)
            \o x64_map_mov_8_16_scaled2reg(s, VMEM_BASE_REG, r, MOV_SCALE_8), 2, 19)
  BY <1>3, <1>7 DEF Piece
<1>9. /\ Piece(x64_map_add_reg2reg(s, r), 2, 19) /\ Piece(x64_map_sub_reg2reg16(r, s), 2, 19)
      /\ Piece(x64_map_and_reg2reg16(r, s), 2, 19) /\ Piece(x64_map_or_reg2reg16(r, s), 2, 19)
      /\ Piece(x64_map_xor_reg2reg64(r, s), 2, 19) /\ Piece(x64_map_mov_reg2reg(r, s), 2, 19)
      /\ Piece(x64_map_mov_8_16_reg2scaled(r, VMEM_BASE_REG, s, MOV_SCALE_16), 2, 19)
      /\ Piece(x64_map_mov_8_16_reg2scaled(r, VMEM_BASE_REG, s, MOV_SCALE_8), 2, 19)
      /\ Piece(ThroughRAX(s, x64_map_mul_reg2ax16(r)), 2, 19)
      /\ Piece(ThroughRAX(s, x64_map_div_reg2ax16(r)), 2, 19)
  BY <1>2, <1>3, <1>5, <1>7, Widened
<1>c. ASSUME Op \in TwoOperands
      PROVE  Piece(Binary(r, s), 2, 19)
  BY <1>6, <1>8, <1>9, <1>a, <1>b, <1>c
     DEF Binary, TwoOperands, ArithOps, I_ADD, I_SUB, I_MUL, I_DIV, I_AND, I_OR, I_XOR, I_SHR,
         I_SHL, I_EQU, I_TEST, I_MOV, I_LOAD, I_STOR, I_LOADB, I_STORB
<1>d. ASSUME Op \notin TwoOperands
      PROVE  Binary(r, s) = <<>>
  BY <1>d DEF Binary, TwoOperands, ArithOps
<1>e. Piece(<<>>, 0, 19)
  BY FixedPieces, Widened
<1> QED
  BY <1>c, <1>d, <1>e, Widened

LEMMA ComparedPiece ==
    ASSUME NEW r \in Reg, NEW s \in Reg
    PROVE  /\ Piece(Compared(r, s), 0, 19)
           /\ Op = I_CMP => Piece(Compared(r, s), 2, 19)
<1>1. Piece(x64_map_cmp_reg2reg16(r, s), 3, 4)
  BY ArithPieces
<1>2. Piece(SetFlag(x64_map_cmp_reg2reg16(r, s), x64_map_setb(AL)), 2, 19)
  BY <1>1, FixedPieces, SetFlagPiece
<1>3. Piece(SetFlag(x64_map_cmp_reg2reg16(r, s), x64_map_setb(AL)), 0, 19) /\ Piece(<<>>, 0, 19)
  BY <1>2, FixedPieces, Widened
<1> QED
  BY <1>2, <1>3 DEF Compared

\* The numbers of guest registers are among those of the words of the struct.
LEMMA RegisterNumbers == RegId \subseteq 0 .. 17 /\ SP \in 0 .. 17 /\ FLAGS_INDEX \in 0 .. 17
BY DEF RegId, SP, FLAGS_INDEX

LEMMA TwoRegistersPiece ==
    ASSUME Src \in RegId, Dst \in RegId
    PROVE  /\ Piece(TwoRegisters, 0, 62)
           /\ Op \in TwoOperands \cup {I_CMP} => Len(TwoRegisters) > 0
<1> DEFINE src  == Holds(Src, SCRATCH_REG)
           dest == Holds(Dst, SCRATCH_REG_2)
           save == IF Op \in ArithOps \cup {I_MOV, I_LOAD, I_LOADB} THEN STORE_IF_NEEDED(dest, Dst)
                   ELSE <<>>
<1>1. src \in Reg /\ dest \in Reg
  BY HoldsType, Named
<1>2. TwoRegisters = Load(Src, SCRATCH_REG) \o Load(Dst, SCRATCH_REG_2) \o Binary(src, dest)
                     \o save \o Compared(src, dest)
  BY DEF TwoRegisters
<1> HIDE DEF src, dest
<1>3. Piece(Load(Src, SCRATCH_REG), 0, 8) /\ Piece(Load(Dst, SCRATCH_REG_2), 0, 8)
  BY RegisterPieces, RegisterNumbers, Named
<1>4. Piece(save, 0, 8)
  <2>1. Piece(STORE_IF_NEEDED(dest, Dst), 0, 8)
    BY <1>1, RegisterPieces, RegisterNumbers
  <2>2. Piece(<<>>, 0, 8)
    BY FixedPieces, Widened
  <2> QED
    BY <2>1, <2>2
<1>5. /\ Piece(Binary(src, dest), 0, 19) /\ Piece(Compared(src, dest), 0, 19)
      /\ Op \in TwoOperands => Piece(Binary(src, dest), 2, 19)
      /\ Op = I_CMP => Piece(Compared(src, dest), 2, 19)
  BY <1>1, BinaryPiece, ComparedPiece
<1> HIDE DEF save
<1>6. Piece(Load(Src, SCRATCH_REG) \o Load(Dst, SCRATCH_REG_2) \o Binary(src, dest)
            \o save \o Compared(src, dest), 0, 62)
  BY <1>3, <1>4, <1>5 DEF Piece
<1>7. ASSUME Op \in TwoOperands \cup {I_CMP}
      PROVE  Len(Load(Src, SCRATCH_REG) \o Load(Dst, SCRATCH_REG_2) \o Binary(src, dest)
                 \o save \o Compared(src, dest)) > 0
  <2>1. Len(Binary(src, dest)) + Len(Compared(src, dest)) > 0
    BY <1>5, <1>7 DEF Piece
  <2> QED
    BY <1>3, <1>4, <1>5, <2>1 DEF Piece
<1> QED
  BY <1>2, <1>6, <1>7

LEMMA StepTwicePiece ==
    ASSUME NEW r \in Reg, NEW mode \in {MODE_INC, MODE_DEC}
    PROVE  Piece(StepTwice(mode, r), 6, 8)
<1>1. Piece(x64_map_inc_dec_reg16(mode, r), 3, 4)
  BY OneOperandPieces
<1> QED
  BY <1>1 DEF Piece, StepTwice

\* What push, pop, ret and the calls do with the guest's stack pointer.
LEMMA StackPieces ==
    ASSUME NEW t \in Reg
    PROVE  LET sp == Holds(SP, t)
           IN  /\ sp \in Reg /\ Piece(Load(SP, t), 0, 8)
               /\ Piece(StepTwice(MODE_DEC, sp), 6, 8) /\ Piece(StepTwice(MODE_INC, sp), 6, 8)
               /\ Piece(STORE_IF_NEEDED(sp, SP), 0, 8) /\ Piece(STORE_ALWAYS(sp, SP), 8, 8)
               /\ \A r \in Reg :
                     /\ Piece(x64_map_mov_8_16_reg2scaled(r, VMEM_BASE_REG, sp, MOV_SCALE_16), 5, 6)
                     /\ Piece(x64_map_mov_8_16_scaled2reg(r, VMEM_BASE_REG, sp, MOV_SCALE_16), 6, 7)
<1> DEFINE sp == Holds(SP, t)
<1>1. sp \in Reg
  BY HoldsType
<1> HIDE DEF sp
<1>2. /\ Piece(Load(SP, t), 0, 8) /\ Piece(STORE_IF_NEEDED(sp, SP), 0, 8)
      /\ Piece(STORE_ALWAYS(sp, SP), 8, 8)
  BY <1>1, RegisterPieces, RegisterNumbers
<1>3. Piece(StepTwice(MODE_DEC, sp), 6, 8) /\ Piece(StepTwice(MODE_INC, sp), 6, 8)
  BY <1>1, StepTwicePiece
<1>4. \A r \in Reg :
         /\ Piece(x64_map_mov_8_16_reg2scaled(r, VMEM_BASE_REG, sp, MOV_SCALE_16), 5, 6)
         /\ Piece(x64_map_mov_8_16_scaled2reg(r, VMEM_BASE_REG, sp, MOV_SCALE_16), 6, 7)
  BY <1>1, GuestMemoryPieces, Named
<1> QED
  BY <1>1, <1>2, <1>3, <1>4 DEF sp

LEMMA PushPopPieces ==
    ASSUME NEW r \in Reg, Src \in RegId
    PROVE  Piece(PushCode(r), 2, 97) /\ Piece(PopCode(r), 2, 97)
<1> DEFINE sp == Holds(SP, SCRATCH_REG_2)
<1>1. PushCode(r) = x64_map_ror_rm16_imm8(r, 8) \o Load(SP, SCRATCH_REG_2) \o StepTwice(MODE_DEC, sp)
        \o x64_map_mov_8_16_reg2scaled(r, VMEM_BASE_REG, sp, MOV_SCALE_16)
        \o x64_map_ror_rm16_imm8(r, 8) \o STORE_IF_NEEDED(sp, SP)
  BY DEF PushCode
<1>2. PopCode(r) = Load(SP, SCRATCH_REG_2)
        \o x64_map_mov_8_16_scaled2reg(r, VMEM_BASE_REG, sp, MOV_SCALE_16)
        \o x64_map_ror_rm16_imm8(r, 8) \o StepTwice(MODE_INC, sp)
        \o STORE_IF_NEEDED(sp, SP) \o STORE_IF_NEEDED(r, Src)
  BY DEF PopCode
<1>3. /\ Piece(Load(SP, SCRATCH_REG_2), 0, 8)
      /\ Piece(StepTwice(MODE_DEC, sp), 6, 8) /\ Piece(StepTwice(MODE_INC, sp), 6, 8)
      /\ Piece(STORE_IF_NEEDED(sp, SP), 0, 8)
      /\ Piece(x64_map_mov_8_16_reg2scaled(r, VMEM_BASE_REG, sp, MOV_SCALE_16), 5, 6)
      /\ Piece(x64_map_mov_8_16_scaled2reg(r, VMEM_BASE_REG, sp, MOV_SCALE_16), 6, 7)
  BY StackPieces, Named
<1>4. Piece(x64_map_ror_rm16_imm8(r, 8), 4, 5)
  BY OneOperandPieces
<1>5. Piece(STORE_IF_NEEDED(r, Src), 0, 8)
  BY RegisterPieces, RegisterNumbers
<1> HIDE DEF sp
<1>6. Piece(x64_map_ror_rm16_imm8(r, 8) \o Load(SP, SCRATCH_REG_2) \o StepTwice(MODE_DEC, sp)
            \o x64_map_mov_8_16_reg2scaled(r, VMEM_BASE_REG, sp, MOV_SCALE_16)
            \o x64_map_ror_rm16_imm8(r, 8) \o STORE_IF_NEEDED(sp, SP), 2, 97)
  BY <1>3, <1>4 DEF Piece
<1>7. Piece(Load(SP, SCRATCH_REG_2)
            \o x64_map_mov_8_16_scaled2reg(r, VMEM_BASE_REG, sp, MOV_SCALE_16)
            \o x64_map_ror_rm16_imm8(r, 8) \o StepTwice(MODE_INC, sp)
            \o STORE_IF_NEEDED(sp, SP) \o STORE_IF_NEEDED(r, Src), 2, 97)
  BY <1>3, <1>4, <1>5 DEF Piece
<1> QED
  BY <1>1, <1>2, <1>6, <1>7

LEMMA OutPiece ==
    ASSUME NEW r \in Reg
    PROVE  Piece(OutCode(r), 2, 97)
<1>1. Host.putchar \in Nat /\ Host.program \in Nat
  BY HostType DEF HostNames
<1>2. Piece(Imm32(0), 4, 4)
  BY Imm32Piece
<1>3. Piece(x64_map_mov_reg2reg(r, RDI), 3, 3)
  BY <1>2, MovePieces, Named
<1>4. Piece(x64_map_move_imm2reg(VMEM_BASE_REG, Host.program), 10, 10)
  BY <1>1, <1>2, MovePieces, Named
<1>5. Piece(FunctionCall(Host.putchar), 12, 12)
  <2>1. 0 \in Int
    OBVIOUS
  <2> QED
    BY <1>1, <2>1, CallPieces
<1>6. Piece(StoreSaved, 0, 32) /\ Piece(LoadSaved, 0, 32)
  BY TablePieces
<1>7. Piece(StoreSaved \o x64_map_mov_reg2reg(r, RDI), 0, 35)
  BY <1>3, <1>6 DEF Piece
<1>8. Piece(StoreSaved \o x64_map_mov_reg2reg(r, RDI)
            \o FunctionCall(Host.putchar) \o LoadSaved, 0, 79)
  BY <1>5, <1>6, <1>7 DEF Piece
<1>9. Piece(StoreSaved \o x64_map_mov_reg2reg(r, RDI)
            \o FunctionCall(Host.putchar) \o LoadSaved
            \o x64_map_move_imm2reg(VMEM_BASE_REG, Host.program), 2, 97)
  BY <1>4, <1>8 DEF Piece
<1> QED
  BY <1>9 DEF OutCode, StoreSaved, LoadSaved

LEMMA UnaryPiece ==
    ASSUME NEW r \in Reg, Op \in UnaryOps, Src \in RegId
    PROVE  Piece(UnaryCode(r) \o STORE_IF_NEEDED(r, Src), 2, 97)
<1>1. /\ Piece(x64_map_neg_reg16(r), 3, 4) /\ Piece(x64_map_inc_dec_reg16(MODE_INC, r), 3, 4)
      /\ Piece(x64_map_inc_dec_reg16(MODE_DEC, r), 3, 4)
  BY OneOperandPieces
<1>2. Piece(x64_map_xor_reg2reg64(RAX, RAX), 3, 4) /\ Piece(x64_map_test_reg2reg16(r, r), 3, 4)
  BY ArithPieces, Named
<1>3. Piece(Imm32(0), 4, 4)
  BY Imm32Piece
<1>4. Piece(x64_map_mov_reg2reg(RAX, r), 3, 3)
  BY <1>3, MovePieces, Named
<1>5. Piece(x64_map_xor_reg2reg64(RAX, RAX) \o x64_map_test_reg2reg16(r, r)
            \o x64_map_setz(AL) \o x64_map_mov_reg2reg(RAX, r), 2, 14)
  BY <1>2, <1>4, FixedPieces DEF Piece
<1>6. /\ Piece(x64_map_neg_reg16(r), 2, 14) /\ Piece(x64_map_inc_dec_reg16(MODE_INC, r), 2, 14)
      /\ Piece(x64_map_inc_dec_reg16(MODE_DEC, r), 2, 14)
  BY <1>1, Widened
<1>7. Piece(UnaryCode(r), 2, 14)
  BY <1>5, <1>6 DEF UnaryCode, UnaryOps
<1>8. Piece(STORE_IF_NEEDED(r, Src), 0, 8)
  BY RegisterPieces, RegisterNumbers
<1> QED
  BY <1>7, <1>8 DEF Piece

LEMMA OneRegisterPiece ==
    ASSUME Src \in RegId
    PROVE  /\ Piece(OneRegister, 0, 105)
           /\ Op \in UnaryOps \cup {I_PUSH, I_POP, I_OUT} => Len(OneRegister) > 0
<1> DEFINE reg == Holds(Src, SCRATCH_REG)
           rest == CASE Op = I_PUSH -> PushCode(reg)
                     [] Op = I_POP  -> PopCode(reg)
                     [] Op = I_OUT  -> OutCode(reg)
                     [] Op \in UnaryOps -> UnaryCode(reg) \o STORE_IF_NEEDED(reg, Src)
                     [] OTHER       -> <<>>
<1>1. reg \in Reg
  BY HoldsType, Named
<1>2. OneRegister = Load(Src, SCRATCH_REG) \o rest
  BY DEF OneRegister
<1> HIDE DEF reg
<1>3. /\ Piece(rest, 0, 97)
      /\ Op \in UnaryOps \cup {I_PUSH, I_POP, I_OUT} => Piece(rest, 2, 97)
  <2>1. Piece(PushCode(reg), 2, 97) /\ Piece(PopCode(reg), 2, 97) /\ Piece(OutCode(reg), 2, 97)
    BY <1>1, PushPopPieces, OutPiece
  <2>2. Op \in UnaryOps => Piece(UnaryCode(reg) \o STORE_IF_NEEDED(reg, Src), 2, 97)
    BY <1>1, UnaryPiece
  <2>3. Op \in UnaryOps \cup {I_PUSH, I_POP, I_OUT} => Piece(rest, 2, 97)
    BY <2>1, <2>2
  <2>4. Op \notin UnaryOps \cup {I_PUSH, I_POP, I_OUT} => rest = <<>>
    OBVIOUS
  <2>5. Piece(<<>>, 0, 97)
    BY FixedPieces, Widened
  <2> HIDE DEF rest
  <2> QED
    BY <2>3, <2>4, <2>5, Widened
<1>4. Piece(Load(Src, SCRATCH_REG), 0, 8)
  BY RegisterPieces, RegisterNumbers, Named
<1> HIDE DEF rest
<1> QED
  BY <1>2, <1>3, <1>4 DEF Piece

\* jr, br, jmpr and callr only load their operand.
LEMMA OperandPiece ==
    ASSUME Src \in RegId, Op \in {I_JR, I_BR, I_JMPR, I_CALLR}
    PROVE  Piece(OneRegister, 0, 8)
<1>1. Op \notin {I_PUSH, I_POP, I_OUT} /\ Op \notin UnaryOps
  BY DEF I_JR, I_BR, I_JMPR, I_CALLR, I_PUSH, I_POP, I_OUT, UnaryOps, I_NEG, I_NOT, I_INC, I_DEC
<1>2. OneRegister = Load(Src, SCRATCH_REG) \o <<>>
  BY <1>1 DEF OneRegister
<1>3. Piece(Load(Src, SCRATCH_REG), 0, 8) /\ Piece(<<>>, 0, 0)
  BY RegisterPieces, RegisterNumbers, Named, FixedPieces
<1> QED
  BY <1>2, <1>3 DEF Piece

LEMMA LoadImmediatePiece ==
    ASSUME Src \in RegId, Ext \in Int
    PROVE  Piece(LoadImmediate, 10, 26)
<1> DEFINE reg == Holds(Src, SCRATCH_REG)
<1>1. reg \in Reg
  BY HoldsType, Named
<1>2. LoadImmediate = Load(Src, SCRATCH_REG) \o x64_map_move_imm2reg(reg, Ext)
                      \o STORE_IF_NEEDED(reg, Src)
  BY DEF LoadImmediate
<1> HIDE DEF reg
<1>3. Piece(Load(Src, SCRATCH_REG), 0, 8) /\ Piece(STORE_IF_NEEDED(reg, Src), 0, 8)
  BY <1>1, RegisterPieces, RegisterNumbers, Named
<1>4. Piece(Imm32(0), 4, 4)
  BY Imm32Piece
<1>5. Piece(x64_map_move_imm2reg(reg, Ext), 10, 10)
  BY <1>1, <1>4, MovePieces
<1>6. Piece(Load(Src, SCRATCH_REG) \o x64_map_move_imm2reg(reg, Ext)
            \o STORE_IF_NEEDED(reg, Src), 10, 26)
  BY <1>3, <1>5 DEF Piece
<1> QED
  BY <1>2, <1>6

\* What an instruction with operands, or an operation that the translator does not know, becomes.
LEMMA StraightPiece ==
    ASSUME Src \in RegId, Dst \in RegId, Ext \in Int
    PROVE  /\ Piece(StraightCode, 0, 193) /\ Piece(TwoRegisters, 0, 193)
           /\ Piece(OneRegister, 0, 193)
           /\ Op \in Straight => Len(StraightCode) > 0
<1>1. Piece(LoadImmediate, 0, 193)
  BY LoadImmediatePiece, Widened
<1>2. Piece(TwoRegisters, 0, 193)
  BY TwoRegistersPiece, Widened
<1>3. Piece(OneRegister, 0, 193)
  BY OneRegisterPiece, Widened
<1>4. Piece(StraightCode, 0, 193)
  BY <1>1, <1>2, <1>3 DEF StraightCode
<1>5. ASSUME Op \in Straight
      PROVE  Len(StraightCode) > 0
  <2>1. CASE Op = I_LOADI
    <3>1. StraightCode = LoadImmediate
      BY <2>1 DEF StraightCode
    <3> QED
      BY <3>1, LoadImmediatePiece DEF Piece
  <2>2. CASE Op \in TwoOperands \cup {I_CMP}
    <3>1. Op # I_LOADI /\ XIS_NUM_OPS(Op) = 2
      BY <2>2 DEF TwoOperands, ArithOps, I_ADD, I_SUB, I_MUL, I_DIV, I_AND, I_OR, I_XOR, I_SHR,
         I_SHL, I_EQU, I_TEST, I_MOV, I_LOAD, I_STOR, I_LOADB, I_STORB, I_CMP, I_LOADI, XIS_NUM_OPS
    <3>2. StraightCode = TwoRegisters
      BY <3>1 DEF StraightCode
    <3> QED
      BY <2>2, <3>2, TwoRegistersPiece
  <2>3. CASE Op \in UnaryOps \cup {I_PUSH, I_POP, I_OUT}
    <3>1. Op # I_LOADI /\ XIS_NUM_OPS(Op) = 1
      BY <2>3 DEF UnaryOps, I_NEG, I_NOT, I_INC, I_DEC, I_PUSH, I_POP, I_OUT, I_LOADI, XIS_NUM_OPS
    <3>2. StraightCode = OneRegister
      BY <3>1 DEF StraightCode
    <3> QED
      BY <2>3, <3>2, OneRegisterPiece
  <2> QED
    BY <1>5, <2>1, <2>2, <2>3 DEF Straight, TwoOperands, CompareOps
<1> QED
  BY <1>2, <1>3, <1>4, <1>5

-----------------------------------------------------------------------------
(* The code of a transfer of control. *)
LEMMA JumpPiece ==
    ASSUME Ext \in Int
    PROVE  Piece(JumpCode, 0, 193) /\ Len(JumpCode) > 0
<1>1. Host.jump_dynamic \in Nat
  BY HostType DEF HostNames
<1>2. Piece(CallRuntime(Host.jump_dynamic, Ext), 25, 25)
  BY <1>1, CallPieces
<1>3. Piece(x64_map_absolute_jmp(RAX), 2, 3)
  BY FlowPieces, Named
<1>4. JumpCode = CallRuntime(Host.jump_dynamic, Ext) \o StoreAll \o x64_map_absolute_jmp(RAX)
  BY DEF JumpCode, StoreAll
<1>5. Piece(CallRuntime(Host.jump_dynamic, Ext) \o StoreAll \o x64_map_absolute_jmp(RAX), 25, 193)
  BY <1>2, <1>3, TablePieces DEF Piece
<1> QED
  BY <1>4, <1>5 DEF Piece

LEMMA ReturnPiece == Piece(ReturnCode, 0, 193)
<1> DEFINE sp == Holds(SP, SCRATCH_REG)
<1>1. ReturnCode = Load(SP, SCRATCH_REG)
        \o x64_map_mov_8_16_scaled2reg(SCRATCH_REG_2, VMEM_BASE_REG, sp, MOV_SCALE_16)
        \o StepTwice(MODE_INC, sp) \o STORE_IF_NEEDED(sp, SP)
        \o x64_map_ror_rm16_imm8(SCRATCH_REG_2, 8)
        \o x64_map_mov_reg2indirect(SCRATCH_REG_2, CPU_STATE_REG, 2 * PC_INDEX)
  BY DEF ReturnCode
<1>2. /\ Piece(Load(SP, SCRATCH_REG), 0, 8) /\ Piece(StepTwice(MODE_INC, sp), 6, 8)
      /\ Piece(STORE_IF_NEEDED(sp, SP), 0, 8)
      /\ Piece(x64_map_mov_8_16_scaled2reg(SCRATCH_REG_2, VMEM_BASE_REG, sp, MOV_SCALE_16), 6, 7)
  BY StackPieces, Named
<1>3. Piece(x64_map_ror_rm16_imm8(SCRATCH_REG_2, 8), 4, 5)
  BY OneOperandPieces, Named
<1>4. Piece(Imm32(2 * PC_INDEX), 4, 4)
  BY Imm32Piece DEF PC_INDEX
<1>5. Piece(x64_map_mov_reg2indirect(SCRATCH_REG_2, CPU_STATE_REG, 2 * PC_INDEX), 8, 8)
  BY <1>4, MovePieces, Named
<1> HIDE DEF sp
<1>6. Piece(Load(SP, SCRATCH_REG)
        \o x64_map_mov_8_16_scaled2reg(SCRATCH_REG_2, VMEM_BASE_REG, sp, MOV_SCALE_16)
        \o StepTwice(MODE_INC, sp), 0, 23)
  BY <1>2 DEF Piece
<1>7. Piece(Load(SP, SCRATCH_REG)
        \o x64_map_mov_8_16_scaled2reg(SCRATCH_REG_2, VMEM_BASE_REG, sp, MOV_SCALE_16)
        \o StepTwice(MODE_INC, sp) \o STORE_IF_NEEDED(sp, SP)
        \o x64_map_ror_rm16_imm8(SCRATCH_REG_2, 8)
        \o x64_map_mov_reg2indirect(SCRATCH_REG_2, CPU_STATE_REG, 2 * PC_INDEX), 0, 193)
  BY <1>2, <1>3, <1>5, <1>6 DEF Piece
<1> QED
  BY <1>1, <1>7

LEMMA DebugPiece == Piece(DebugCode, 0, 193)
<1> DEFINE reg == Holds(FLAGS_INDEX, SCRATCH_REG)
<1>1. reg \in Reg
  BY HoldsType, Named
<1>2. DebugCode = Load(FLAGS_INDEX, SCRATCH_REG) \o x64_map_or_imm16(reg, 2)
                  \o STORE_IF_NEEDED(reg, FLAGS_INDEX)
  BY DEF DebugCode
<1> HIDE DEF reg
<1>3. Piece(Load(FLAGS_INDEX, SCRATCH_REG), 0, 8) /\ Piece(STORE_IF_NEEDED(reg, FLAGS_INDEX), 0, 8)
  BY <1>1, RegisterPieces, RegisterNumbers, Named
<1>4. Piece(x64_map_or_imm16(reg, 2), 5, 6)
  BY <1>1, OneOperandPieces
<1>5. Piece(Load(FLAGS_INDEX, SCRATCH_REG) \o x64_map_or_imm16(reg, 2)
            \o STORE_IF_NEEDED(reg, FLAGS_INDEX), 0, 193)
  BY <1>3, <1>4 DEF Piece
<1> QED
  BY <1>2, <1>5

LEMMA BeforeSitePiece ==
    ASSUME switch_endianness(After) \in Int
    PROVE  Piece(BeforeSite, 0, 96)
<1> DEFINE sp == Holds(SP, SCRATCH_REG)
           ret == x64_map_move_imm2reg(SCRATCH_REG_2, switch_endianness(After))
           put == x64_map_mov_8_16_reg2scaled(SCRATCH_REG_2, VMEM_BASE_REG, sp, MOV_SCALE_16)
<1>1. BeforeSite = Load(SP, SCRATCH_REG) \o StoreAll \o StepTwice(MODE_DEC, sp) \o ret \o put
                   \o STORE_ALWAYS(sp, SP)
  BY DEF BeforeSite, StoreAll
<1>2. /\ Piece(Load(SP, SCRATCH_REG), 0, 8) /\ Piece(StepTwice(MODE_DEC, sp), 6, 8)
      /\ Piece(STORE_ALWAYS(sp, SP), 8, 8) /\ Piece(put, 5, 6)
  BY StackPieces, Named
<1>3. Piece(Imm32(0), 4, 4)
  BY Imm32Piece
<1>4. Piece(ret, 10, 10)
  BY <1>3, MovePieces, Named
<1> HIDE DEF sp, ret, put
<1>5. Piece(Load(SP, SCRATCH_REG) \o StoreAll \o StepTwice(MODE_DEC, sp), 0, 72)
  BY <1>2, TablePieces DEF Piece
<1>6. Piece(Load(SP, SCRATCH_REG) \o StoreAll \o StepTwice(MODE_DEC, sp) \o ret \o put
            \o STORE_ALWAYS(sp, SP), 0, 96)
  BY <1>2, <1>4, <1>5 DEF Piece
<1> QED
  BY <1>1, <1>6

\* The code that call_static overwrites has the size that it takes it to have.
LEMMA SitePiece ==
    ASSUME NEW at \in Nat, Ext \in Int
    PROVE  Piece(SiteCode(at), CALL_STATIC_OVERWRITE_SIZE, CALL_STATIC_OVERWRITE_SIZE)
<1>1. Host.call_static \in Nat /\ Host.memory + at \in Int
  BY HostType DEF HostNames
<1>2. Piece(Imm32(0), 4, 4)
  BY Imm32Piece
<1>3. Piece(x64_map_mov_reg2reg(VMEM_BASE_REG, RDI), 3, 3)
  BY <1>2, MovePieces, Named
<1>4. Piece(x64_map_move_imm2reg(RSI, Ext), 10, 10)
  BY <1>2, MovePieces, Named
<1>5. Piece(x64_map_move_imm2reg(RDX, Host.memory + at), 10, 10)
  BY <1>1, <1>2, MovePieces, Named
<1>6. Piece(FunctionCall(Host.call_static), 12, 12)
  BY <1>1, CallPieces
<1>7. Piece(x64_map_mov_reg2reg(VMEM_BASE_REG, RDI) \o x64_map_move_imm2reg(RSI, Ext)
            \o x64_map_move_imm2reg(RDX, Host.memory + at) \o FunctionCall(Host.call_static), 35, 35)
  BY <1>3, <1>4, <1>5, <1>6 DEF Piece
<1> QED
  BY <1>7 DEF SiteCode, CALL_STATIC_OVERWRITE_SIZE

LEMMA AfterSitePiece == Piece(AfterSite, 0, 62)
<1>1. Piece(Imm32(0), 4, 4)
  BY Imm32Piece
<1>2. Piece(x64_map_mov_reg2reg(CPU_STATE_REG, RDI), 3, 3)
  BY <1>1, MovePieces, Named
<1>3. Piece(x64_map_call(RAX), 2, 3)
  BY FlowPieces, Named
<1>4. AfterSite = x64_map_mov_reg2reg(CPU_STATE_REG, RDI) \o x64_map_call(RAX) \o LoadAll
  BY DEF AfterSite, LoadAll
<1>5. Piece(x64_map_mov_reg2reg(CPU_STATE_REG, RDI) \o x64_map_call(RAX) \o LoadAll, 0, 62)
  BY <1>2, <1>3, TablePieces DEF Piece
<1> QED
  BY <1>4, <1>5

\* A call is the longest code there is.
LEMMA CallCodePiece ==
    ASSUME NEW at \in Nat, Ext \in Int, switch_endianness(After) \in Int
    PROVE  LET code == BeforeSite \o SiteCode(at) \o AfterSite
           IN  Piece(code, 0, 193) /\ Len(BeforeSite) + CALL_STATIC_OVERWRITE_SIZE <= Len(code)
<1>1. Piece(SiteCode(at), 35, 35)
  BY SitePiece DEF CALL_STATIC_OVERWRITE_SIZE
<1> QED
  BY <1>1, BeforeSitePiece, AfterSitePiece DEF Piece, CALL_STATIC_OVERWRITE_SIZE

LEMMA RecursionPiece == Piece(RecursiveCall, 0, 193) /\ Len(RecursiveCall) > 0
<1> DEFINE sp   == Holds(SP, SCRATCH_REG)
           self == IF internal_abi THEN Host.memory ELSE Host.internal
<1>1. RecursiveCall = Load(SP, SCRATCH_REG) \o StepTwice(MODE_DEC, sp) \o STORE_ALWAYS(sp, SP)
                      \o FunctionCall(self)
  BY DEF RecursiveCall
<1>2. /\ Piece(Load(SP, SCRATCH_REG), 0, 8) /\ Piece(StepTwice(MODE_DEC, sp), 6, 8)
      /\ Piece(STORE_ALWAYS(sp, SP), 8, 8)
  BY StackPieces, Named
<1>3. self \in Nat /\ 0 \in Int
  BY HostType DEF HostNames
<1> HIDE DEF sp, self
<1>4. Piece(FunctionCall(self), 12, 12)
  BY <1>3, CallPieces
<1>5. Piece(Load(SP, SCRATCH_REG) \o StepTwice(MODE_DEC, sp) \o STORE_ALWAYS(sp, SP)
            \o FunctionCall(self), 8, 193)
  BY <1>2, <1>4 DEF Piece
<1> QED
  BY <1>1, <1>5 DEF Piece

LEMMA JumpRelativePiece ==
    ASSUME target \in Int
    PROVE  Piece(JumpRelative, 5, 121)
<1> DEFINE jump == CallRuntime(Host.jump_dynamic, target)
<1>1. JumpRelative = x64_map_push(CPU_STATE_REG) \o StoreAll \o jump \o x64_map_pop(CPU_STATE_REG)
                     \o LoadSaved \o x64_map_absolute_jmp(RAX)
  BY DEF JumpRelative, StoreAll, LoadSaved
<1>2. Host.jump_dynamic \in Nat
  BY HostType DEF HostNames
<1>3. Piece(jump, 25, 25)
  BY <1>2, CallPieces
<1>4. /\ Piece(x64_map_push(CPU_STATE_REG), 1, 2) /\ Piece(x64_map_pop(CPU_STATE_REG), 1, 2)
      /\ Piece(x64_map_absolute_jmp(RAX), 2, 3)
  BY FlowPieces, Named
<1> HIDE DEF jump
<1>5. Piece(x64_map_push(CPU_STATE_REG) \o StoreAll \o jump, 26, 83)
  BY <1>3, <1>4, TablePieces DEF Piece
<1>6. Piece(x64_map_push(CPU_STATE_REG) \o StoreAll \o jump \o x64_map_pop(CPU_STATE_REG)
            \o LoadSaved \o x64_map_absolute_jmp(RAX), 5, 121)
  BY <1>4, <1>5, TablePieces DEF Piece
<1> QED
  BY <1>1, <1>6

LEMMA ConditionalPiece ==
    ASSUME target \in Int
    PROVE  Piece(ConditionalBlock, 43, 133)
<1> DEFINE jump == CallRuntime(Host.jump_dynamic, target)
           base == x64_map_move_imm2reg(VMEM_BASE_REG, Host.program)
<1>1. ConditionalBlock = StoreAll \o SetPc(target) \o jump \o LoadSaved \o base
                         \o x64_map_absolute_jmp(RAX)
  BY DEF ConditionalBlock, StoreAll, LoadSaved
<1>2. Host.jump_dynamic \in Nat /\ Host.program \in Nat
  BY HostType DEF HostNames
<1>3. Piece(jump, 25, 25) /\ Piece(SetPc(target), 6, 7)
  BY <1>2, CallPieces
<1>4. Piece(x64_map_absolute_jmp(RAX), 2, 3)
  BY FlowPieces, Named
<1>5. Piece(Imm32(0), 4, 4)
  BY Imm32Piece
<1>6. Piece(base, 10, 10)
  BY <1>2, <1>5, MovePieces, Named
<1> HIDE DEF jump, base
<1>7. Piece(StoreAll \o SetPc(target) \o jump, 31, 88)
  BY <1>3, TablePieces DEF Piece
<1>8. Piece(StoreAll \o SetPc(target) \o jump \o LoadSaved \o base \o x64_map_absolute_jmp(RAX),
            43, 133)
  BY <1>4, <1>6, <1>7, TablePieces DEF Piece
<1> QED
  BY <1>1, <1>8

LEMMA TestFlagPiece == Piece(TestFlag, 13, 13)
<1>1. Piece(Imm32(2 * FLAGS_INDEX), 4, 4)
  BY Imm32Piece DEF FLAGS_INDEX
<1>2. Piece(x64_map_movzx_indirect2reg(RAX, CPU_STATE_REG, 2 * FLAGS_INDEX), 8, 8)
  BY <1>1, MovePieces, Named
<1>3. Piece(x64_map_and_imm16(RAX, 1), 5, 5)
  <2>1. Piece(x64_map_and_imm16(RAX, 1), 5, 6)
    BY OneOperandPieces, Named
  <2>2. ExtendedOp16(129, 4, RAX) = OPERAND16 \o <<>> \o <<129, MODRM(3, 4, RAX)>>
    BY DEF ExtendedOp16, OptionalREX, RAX
  <2>3. Piece(Imm16(1), 2, 2)
    BY Imm16Piece
  <2>4. MODRM(3, 4, RAX) \in CodeBytes /\ 129 \in CodeBytes /\ 102 \in CodeBytes
    BY ModrmByte, Named, Bytes
  <2>5. Piece(OPERAND16 \o <<>> \o <<129, MODRM(3, 4, RAX)>>, 3, 3)
    BY <2>4 DEF Piece, OPERAND16
  <2>6. Piece(ExtendedOp16(129, 4, RAX), 3, 3)
    BY <2>2, <2>5
  <2>7. Piece(ExtendedOp16(129, 4, RAX) \o Imm16(1), 5, 5)
    BY <2>3, <2>6 DEF Piece
  <2> QED
    BY <2>7 DEF x64_map_and_imm16
<1> QED
  BY <1>2, <1>3 DEF Piece, TestFlag

LEMMA BranchPiece ==
    ASSUME target \in Int
    PROVE  Piece(Branch, 24, 148)
<1>1. Piece(ConditionalBlock, 43, 133) /\ Len(ConditionalBlock) \in Int
  BY ConditionalPiece DEF Piece
<1>2. Piece(x64_map_jz_rel8(Len(ConditionalBlock)), 2, 2)
  BY <1>1, RelativePieces
<1> QED
  BY <1>1, <1>2, TestFlagPiece DEF Piece, Branch

LEMMA ByRegisterPiece ==
    ASSUME NEW func \in Nat
    PROVE  Piece(ByRegister(func), 18, 18)
<1>1. Holds(Src, SCRATCH_REG) \in Reg
  BY HoldsType, Named
<1>2. Piece(Imm32(0), 4, 4) /\ 0 \in Int
  BY Imm32Piece
<1>3. /\ Piece(x64_map_mov_reg2reg(VMEM_BASE_REG, RDI), 3, 3)
      /\ Piece(x64_map_mov_reg2reg(Holds(Src, SCRATCH_REG), RSI), 3, 3)
  BY <1>1, <1>2, MovePieces, Named
<1>4. Piece(FunctionCall(func), 12, 12)
  BY <1>2, CallPieces
<1> QED
  BY <1>3, <1>4 DEF Piece, ByRegister

-----------------------------------------------------------------------------
(* The epilogue, and what the linker writes. *)
LEMMA EscapeCodePiece ==
    ASSUME pc \in Word
    PROVE  Piece(EscapeCode, 0, 77)
<1> DEFINE flag == IF emitted_ret THEN 1 ELSE 0
           done == x64_map_move_imm2reg(RAX, flag)
<1>1. Host.state \in Nat /\ pc \in Int /\ flag \in Int
  BY HostType, InWord DEF HostNames
<1>2. Piece(Imm32(0), 4, 4)
  BY Imm32Piece
<1>3. EscapeCode =
        SetPc(pc) \o x64_map_move_imm2reg(RAX, Host.state)
        \o RestoreEscape(1) \o RestoreEscape(2) \o RestoreEscape(3) \o RestoreEscape(4)
        \o RestoreEscape(5) \o RestoreEscape(6) \o RestoreEscape(7) \o done \o x64_map_ret
  BY DEF EscapeCode
<1> HIDE DEF flag
<1>4. Piece(x64_map_move_imm2reg(RAX, Host.state), 10, 10)
  BY <1>1, <1>2, MovePieces, Named
<1>5. Piece(done, 10, 10)
  BY <1>1, <1>2, MovePieces, Named
<1>6. Piece(SetPc(pc), 6, 7)
  BY <1>1, CallPieces
<1>7. /\ Piece(RestoreEscape(1), 7, 7) /\ Piece(RestoreEscape(2), 7, 7)
      /\ Piece(RestoreEscape(3), 7, 7) /\ Piece(RestoreEscape(4), 7, 7)
      /\ Piece(RestoreEscape(5), 7, 7) /\ Piece(RestoreEscape(6), 7, 7)
      /\ Piece(RestoreEscape(7), 7, 7)
  BY SavePieces
<1> HIDE DEF done
<1>8. Piece(SetPc(pc) \o x64_map_move_imm2reg(RAX, Host.state)
            \o RestoreEscape(1) \o RestoreEscape(2) \o RestoreEscape(3), 0, 38)
  BY <1>4, <1>6, <1>7 DEF Piece
<1>b. Piece(SetPc(pc) \o x64_map_move_imm2reg(RAX, Host.state)
            \o RestoreEscape(1) \o RestoreEscape(2) \o RestoreEscape(3) \o RestoreEscape(4)
            \o RestoreEscape(5), 0, 52)
  BY <1>7, <1>8 DEF Piece
<1>9. Piece(SetPc(pc) \o x64_map_move_imm2reg(RAX, Host.state)
            \o RestoreEscape(1) \o RestoreEscape(2) \o RestoreEscape(3) \o RestoreEscape(4)
            \o RestoreEscape(5) \o RestoreEscape(6) \o RestoreEscape(7), 0, 66)
  BY <1>7, <1>b DEF Piece
<1>a. Piece(SetPc(pc) \o x64_map_move_imm2reg(RAX, Host.state)
            \o RestoreEscape(1) \o RestoreEscape(2) \o RestoreEscape(3) \o RestoreEscape(4)
            \o RestoreEscape(5) \o RestoreEscape(6) \o RestoreEscape(7) \o done \o x64_map_ret, 0, 77)
  <2>1. Piece(SetPc(pc) \o x64_map_move_imm2reg(RAX, Host.state)
              \o RestoreEscape(1) \o RestoreEscape(2) \o RestoreEscape(3) \o RestoreEscape(4)
              \o RestoreEscape(5) \o RestoreEscape(6) \o RestoreEscape(7) \o done, 0, 76)
    BY <1>5, <1>9, Joined
  <2> QED
    BY <2>1, FixedPieces, Joined
<1> QED
  BY <1>3, <1>a

LEMMA EpiloguePiece ==
    ASSUME pc \in Word
    PROVE  Piece(EpilogueCode, 0, 161)
<1> DEFINE setpc  == IF emitted_ret THEN <<>> ELSE SetPc(pc)
           store  == IF internal_abi THEN <<>> ELSE store_mapped_virtual_registers(FALSE)
           escape == IF invalid_op THEN EscapeCode ELSE <<>>
           saved  == IF internal_abi THEN <<>> ELSE RestoreSaved
           zero   == x64_map_move_imm2reg(RAX, 0)
<1>1. EpilogueCode = setpc \o store \o escape \o saved \o zero \o x64_map_ret
  BY DEF EpilogueCode
<1>2. Piece(<<>>, 0, 7) /\ Piece(<<>>, 0, 56) /\ Piece(<<>>, 0, 77) /\ Piece(<<>>, 0, 10)
  BY FixedPieces, Widened
<1>3. pc \in Int /\ 0 \in Int /\ 0 \in Nat
  BY InWord
<1>4. Piece(setpc, 0, 7)
  <2>1. Piece(SetPc(pc), 6, 7)
    BY <1>3, CallPieces
  <2>2. Piece(SetPc(pc), 0, 7)
    BY <2>1, Widened
  <2> QED
    BY <1>2, <2>2
<1>5. Piece(store, 0, 56)
  <2>1. Piece(store_mapped_virtual_registers(FALSE), 0, 56)
    BY TablePieces DEF StoreAll
  <2> QED
    BY <1>2, <2>1
<1>6. Piece(escape, 0, 77)
  BY <1>2, EscapeCodePiece
<1>7. Piece(saved, 0, 10)
  <2>1. /\ Piece(x64_map_pop(RBX), 1, 2) /\ Piece(x64_map_pop(12), 1, 2)
        /\ Piece(x64_map_pop(13), 1, 2) /\ Piece(x64_map_pop(14), 1, 2)
        /\ Piece(x64_map_pop(15), 1, 2)
    BY FlowPieces, Named
  <2>2. Piece(RestoreSaved, 0, 10)
    BY <2>1 DEF Piece, RestoreSaved
  <2> QED
    BY <1>2, <2>2
<1>8. Piece(zero, 10, 10)
  <2>1. Piece(Imm32(0), 4, 4)
    BY Imm32Piece
  <2> QED
    BY <1>3, <2>1, MovePieces, Named
<1> HIDE DEF setpc, store, escape, saved, zero
<1>9. Piece(setpc \o store \o escape, 0, 140)
  BY <1>4, <1>5, <1>6 DEF Piece
<1>a. Piece(setpc \o store \o escape \o saved \o zero \o x64_map_ret, 0, 161)
  BY <1>7, <1>8, <1>9, FixedPieces DEF Piece
<1> QED
  BY <1>1, <1>a

\* The bytes that the linker needs for a request.
Needed(req) == IF req.type = "LINK_JUMP_REL" THEN 5 ELSE 24

LEMMA LinkedPiece ==
    ASSUME NEW req \in LinkRequests, NEW to \in Int
    PROVE  Piece(Linked(req, to), Needed(req), Needed(req))
<1> DEFINE first == req.from
           bytes == req.length
           test  == Len(TestFlag)
           over  == to - (first + test) - 6
           skip  == bytes - (test + 6) - 5
           there == to - first - 5
<1>1. first \in Int /\ bytes \in Int
  BY DEF LinkRequests
<1>2. Piece(TestFlag, 13, 13) /\ test \in Int
  BY TestFlagPiece DEF Piece
<1>3. over \in Int /\ skip \in Int /\ there \in Int
  <2> HIDE DEF first, bytes, test
  <2> QED
    BY <1>1, <1>2
<1>4. Linked(req, to) = IF req.type = "LINK_JUMP_REL" THEN x64_map_jmp_rel32(there)
                        ELSE TestFlag \o x64_map_jnz_rel32(over) \o x64_map_jmp_rel32(skip)
  BY DEF Linked
<1> HIDE DEF over, skip, there
<1>5. Piece(x64_map_jmp_rel32(there), 5, 5) /\ Piece(x64_map_jmp_rel32(skip), 5, 5)
      /\ Piece(x64_map_jnz_rel32(over), 6, 6)
  BY <1>3, RelativePieces
<1>6. Piece(TestFlag \o x64_map_jnz_rel32(over) \o x64_map_jmp_rel32(skip), 24, 24)
  BY <1>2, <1>5 DEF Piece
<1> QED
  BY <1>4, <1>5, <1>6 DEF Needed

-----------------------------------------------------------------------------
(* Writing into the buffer.  What is written replaces what was there, and   *)
(* what lies behind it stays.                                              *)
LEMMA ThreeParts ==
    ASSUME NEW S, NEW x \in Seq(S), NEW y \in Seq(S), NEW z \in Seq(S)
    PROVE  x \o y \o z \in Seq(S) /\ Len(x \o y \o z) = Len(x) + Len(y) + Len(z)
OBVIOUS

LEMMA PutPiece ==
    ASSUME NEW S, NEW m \in Seq(S), NEW p \in Nat, p <= Len(m), NEW b \in Seq(S)
    PROVE  /\ Put(m, p, b) \in Seq(S)
           /\ Len(Put(m, p, b)) = IF p + Len(b) < Len(m) THEN Len(m) ELSE p + Len(b)
<1> DEFINE head == SubSeq(m, 1, p)
           last == SubSeq(m, p + Len(b) + 1, Len(m))
<1>0. Len(m) \in Nat /\ Len(b) \in Nat
  OBVIOUS
<1>1. head \in Seq(S) /\ Len(head) = p
  <2>1. CASE p = 0
    BY <2>1, SubSeqProperties
  <2>2. CASE p # 0
    BY <2>2, <1>0, SubSeqProperties
  <2> QED
    BY <2>1, <2>2
<1>2. /\ last \in Seq(S)
      /\ Len(last) = IF p + Len(b) < Len(m) THEN Len(m) - p - Len(b) ELSE 0
  <2>1. CASE p + Len(b) < Len(m)
    BY <2>1, <1>0, SubSeqProperties
  <2>2. CASE ~(p + Len(b) < Len(m))
    BY <2>2, <1>0, SubSeqProperties
  <2> QED
    BY <2>1, <2>2
<1>3. Put(m, p, b) = head \o b \o last
  BY DEF Put
<1> DEFINE lm == Len(m)
           lb == Len(b)
           n  == Len(last)
<1>4. n \in Nat /\ n = IF p + lb < lm THEN lm - p - lb ELSE 0
  BY <1>0, <1>2
<1> HIDE DEF head, last
<1>5. head \o b \o last \in Seq(S) /\ Len(head \o b \o last) = Len(head) + lb + n
  <2>1. head \in Seq(S) /\ last \in Seq(S)
    BY <1>1, <1>2
  <2>2. head \o b \o last \in Seq(S) /\ Len(head \o b \o last) = Len(head) + Len(b) + Len(last)
    BY ONLY <2>1, b \in Seq(S), ThreeParts
  <2> QED
    BY <2>2
<1>6. Len(head) = p /\ lm \in Nat /\ lb \in Nat
  BY <1>0, <1>1
<1> HIDE DEF n, lm, lb
<1>7. p + lb + n = IF p + lb < lm THEN lm ELSE p + lb
  BY <1>4, <1>6
<1>8. Len(head \o b \o last) = IF p + lb < lm THEN lm ELSE p + lb
  BY <1>5, <1>6, <1>7
<1> QED
  BY <1>3, <1>5, <1>8 DEF lm, lb

\* What is overwritten within the buffer does not make it longer.
LEMMA OverwritePiece ==
    ASSUME NEW m \in Seq(CodeBytes), NEW from \in Nat, NEW length \in Nat, from + length <= Len(m),
           NEW code, NEW n \in Nat, Piece(code, n, n), n <= length
    PROVE  /\ Overwrite(m, from, length, code) \in Seq(CodeBytes)
           /\ Len(Overwrite(m, from, length, code)) = Len(m)
<1>0. Len(m) \in Nat /\ from <= Len(m)
  OBVIOUS
<1>1. Nops(length) \in Seq(CodeBytes) /\ Len(Nops(length)) = length
  BY NopsPiece DEF Piece
<1>2. Put(m, from, Nops(length)) \in Seq(CodeBytes) /\ Len(Put(m, from, Nops(length))) = Len(m)
  <2>1. /\ Put(m, from, Nops(length)) \in Seq(CodeBytes)
        /\ Len(Put(m, from, Nops(length))) =
             IF from + Len(Nops(length)) < Len(m) THEN Len(m) ELSE from + Len(Nops(length))
    BY <1>0, <1>1, PutPiece
  <2> QED
    BY <1>0, <1>1, <2>1
<1>3. code \in Seq(CodeBytes) /\ Len(code) = n
  BY DEF Piece
<1> DEFINE blank == Put(m, from, Nops(length))
<1> HIDE DEF blank
<1>4. blank \in Seq(CodeBytes) /\ Len(blank) = Len(m)
  BY <1>2 DEF blank
<1>5. /\ Put(blank, from, code) \in Seq(CodeBytes)
      /\ Len(Put(blank, from, code)) =
           IF from + Len(code) < Len(blank) THEN Len(blank) ELSE from + Len(code)
  BY <1>0, <1>3, <1>4, PutPiece
<1>6. Overwrite(m, from, length, code) = Put(blank, from, code)
  BY DEF Overwrite, blank
<1> QED
  BY <1>0, <1>3, <1>4, <1>5, <1>6

-----------------------------------------------------------------------------
(* The inductive invariant: the code grows by at most 193 bytes for an      *)
(* instruction, 156 for the prologue and 161 for the epilogue, and the      *)
(* requests and the call sites that wait for their overwriting lie inside   *)
(* of it and are long enough.                                               *)
SafeRequests(n) == {r \in LinkRequests : r.from + r.length <= n /\ Needed(r) <= r.length}
SafeSites(n)    == {p \in Nat : p + CALL_STATIC_OVERWRITE_SIZE <= n}

CodeInside ==
    /\ IsMemory(program) /\ address \in Word /\ pc \in Word
    /\ memory \in Seq(CodeBytes)
    /\ gen_ptr \in Nat /\ gen_ptr <= Len(memory)
    /\ instr_mapping \in Seq(0 .. gen_ptr)
    /\ link_requests \in Seq(SafeRequests(Len(memory)))
    /\ sites \in Seq(SafeSites(Len(memory))) /\ sites \in Seq(0 .. gen_ptr)

CodeBounded ==
    /\ count \in Nat
    /\ phase \in {"prologue", "translating", "epilogue", "linking", "ready"}
    /\ phase = "prologue" => count = 0 /\ gen_ptr = 0 /\ Len(memory) = 0
    /\ phase \in {"translating", "epilogue"} => Len(memory) <= 156 + 193 * count
    /\ phase \in {"linking", "ready"} => Len(memory) <= 317 + 193 * count

CodeInv == CodeInside /\ CodeBounded

LEMMA Longer ==
    ASSUME NEW n \in Nat, NEW k \in Nat, n <= k
    PROVE  /\ Seq(SafeRequests(n)) \subseteq Seq(SafeRequests(k))
           /\ Seq(SafeSites(n)) \subseteq Seq(SafeSites(k))
<1>1. SafeRequests(n) \subseteq SafeRequests(k)
  <2> SUFFICES ASSUME NEW r \in SafeRequests(n)
               PROVE  r \in SafeRequests(k)
    OBVIOUS
  <2>1. r \in LinkRequests /\ r.from + r.length <= n /\ Needed(r) <= r.length
    BY DEF SafeRequests
  <2>2. r.from \in Nat /\ r.length \in Nat
    BY <2>1 DEF LinkRequests
  <2>3. r.from + r.length <= k
    BY <2>1, <2>2
  <2> QED
    BY <2>1, <2>3 DEF SafeRequests
<1>2. SafeSites(n) \subseteq SafeSites(k)
  BY DEF SafeSites, CALL_STATIC_OVERWRITE_SIZE
<1> QED
  BY <1>1, <1>2

\* The table does not change, nor the bytes that its entries become.
LEMMA SameBytes ==
    ASSUME mapped' = mapped
    PROVE  CodeBytes' = CodeBytes
BY DEF CodeBytes, Imm32, Imm16, Byte, Slot

LEMMA WriteStep ==
    ASSUME CodeInside, NEW before, NEW wasted, NEW code, before \in Seq(CodeBytes),
           code \in Seq(CodeBytes),
           Piece(before \o code, 0, 193), Piece(before \o wasted, 0, 193),
           Write(before, wasted, code)
    PROVE  /\ memory' \in Seq(CodeBytes)
           /\ gen_ptr' \in Nat /\ gen_ptr' = gen_ptr + Len(before) + Len(code)
           /\ gen_ptr <= gen_ptr'
           /\ gen_ptr' <= Len(memory') /\ Len(memory) <= Len(memory')
           /\ Len(memory') <= Len(memory) + 193
<1> DEFINE s == before \o wasted
           t == before \o code
           m == Put(memory, gen_ptr, s)
<1>1. /\ s \in Seq(CodeBytes) /\ Len(s) \in Nat /\ Len(s) <= 193
      /\ t \in Seq(CodeBytes) /\ Len(t) \in Nat /\ Len(t) <= 193
  BY DEF Piece
<1>2. /\ memory \in Seq(CodeBytes) /\ gen_ptr \in Nat /\ gen_ptr <= Len(memory)
      /\ Len(memory) \in Nat
  BY DEF CodeInside
<1>3. /\ memory' = Put(m, gen_ptr, t) /\ gen_ptr' = gen_ptr + Len(t)
      /\ Len(t) = Len(before) + Len(code)
  BY DEF Write
<1> HIDE DEF s, t
<1>4. /\ m \in Seq(CodeBytes)
      /\ Len(m) = IF gen_ptr + Len(s) < Len(memory) THEN Len(memory) ELSE gen_ptr + Len(s)
  BY <1>1, <1>2, PutPiece
<1> HIDE DEF m
<1>5. gen_ptr <= Len(m) /\ Len(memory) <= Len(m) /\ Len(m) <= Len(memory) + 193 /\ Len(m) \in Nat
  BY <1>1, <1>2, <1>4
<1>6. /\ Put(m, gen_ptr, t) \in Seq(CodeBytes)
      /\ Len(Put(m, gen_ptr, t)) = IF gen_ptr + Len(t) < Len(m) THEN Len(m) ELSE gen_ptr + Len(t)
  BY <1>1, <1>2, <1>4, <1>5, PutPiece
<1>7. /\ memory' \in Seq(CodeBytes)
      /\ Len(memory') = IF gen_ptr + Len(t) < Len(m) THEN Len(m) ELSE gen_ptr + Len(t)
  BY <1>3, <1>6
<1>8. /\ gen_ptr' \in Nat /\ gen_ptr' = gen_ptr + Len(before) + Len(code)
      /\ gen_ptr <= gen_ptr'
  <2>1. Len(before) \in Nat /\ Len(code) \in Nat
    OBVIOUS
  <2> QED
    BY <1>1, <1>2, <1>3, <2>1
<1>9. /\ gen_ptr' <= Len(memory') /\ Len(memory) <= Len(memory')
      /\ Len(memory') <= Len(memory) + 193
  BY <1>1, <1>2, <1>3, <1>5, <1>7
<1> QED
  BY <1>7, <1>8, <1>9

\* The entries and the sites made so far stay behind the end of the code.
LEMMA Behind ==
    ASSUME NEW n \in Nat, NEW k \in Nat, n <= k
    PROVE  Seq(0 .. n) \subseteq Seq(0 .. k)
<1>1. 0 .. n \subseteq 0 .. k
  OBVIOUS
<1> QED
  BY <1>1

\* An instruction that leaves the requests and the sites inside of the code keeps the
\* invariant.
LEMMA InstructionStep ==
    ASSUME CodeInv, phase = "translating", NEW before, NEW wasted, NEW code,
           before \in Seq(CodeBytes), code \in Seq(CodeBytes),
           Piece(before \o code, 0, 193), Piece(before \o wasted, 0, 193),
           Write(before, wasted, code), Push, count' = count + 1, pc' \in Word,
           phase' \in {"translating", "epilogue"}, UNCHANGED parameters,
           link_requests' \in Seq(SafeRequests(Len(memory'))),
           sites' \in Seq(SafeSites(Len(memory'))),
           \/ sites' = sites
           \/ \E at \in Nat : at <= gen_ptr' /\ sites' = Append(sites, at)
    PROVE  CodeInv'
<1>1. CodeInside /\ CodeBounded
  BY DEF CodeInv
<1>2. /\ memory' \in Seq(CodeBytes)
      /\ gen_ptr' \in Nat /\ gen_ptr <= gen_ptr' /\ gen_ptr' <= Len(memory') /\ Len(memory') <= Len(memory) + 193
  BY <1>1, WriteStep
<1>3. /\ program' = program /\ address' = address /\ mapped' = mapped
  BY DEF parameters
<1>4. memory' \in Seq(CodeBytes')
  BY <1>2, <1>3, SameBytes
<1>5. instr_mapping' \in Seq(0 .. gen_ptr') /\ sites' \in Seq(0 .. gen_ptr')
  <2> DEFINE S == 0 .. gen_ptr'
  <2>1. instr_mapping \in Seq(0 .. gen_ptr) /\ sites \in Seq(0 .. gen_ptr) /\ gen_ptr \in Nat
    BY <1>1 DEF CodeInside
  <2>2. instr_mapping \in Seq(S) /\ sites \in Seq(S) /\ gen_ptr \in S
    BY <1>2, <2>1, Behind
  <2>3. \A at \in Nat : at <= gen_ptr' => at \in S
    BY <1>2
  <2> HIDE DEF S
  <2>4. <<gen_ptr, gen_ptr>> \in Seq(S) /\ <<gen_ptr>> \in Seq(S)
    BY <2>2
  <2>5. instr_mapping' \in Seq(S)
    <3>1. CASE XIS_NUM_OPS(Op) = XIS_EXTENDED
      <4>1. instr_mapping' = instr_mapping \o <<gen_ptr, gen_ptr>>
        BY <3>1 DEF Push
      <4> QED
        BY <2>2, <2>4, <4>1
    <3>2. CASE XIS_NUM_OPS(Op) # XIS_EXTENDED
      <4>1. instr_mapping' = instr_mapping \o <<gen_ptr>>
        BY <3>2 DEF Push
      <4> QED
        BY <2>2, <2>4, <4>1
    <3> QED
      BY <3>1, <3>2
  <2>6. sites' \in Seq(S)
    <3>1. CASE sites' = sites
      BY <2>2, <3>1
    <3>2. CASE \E at \in Nat : at <= gen_ptr' /\ sites' = Append(sites, at)
      <4>1. PICK at \in S : sites' = Append(sites, at)
        BY <2>3, <3>2
      <4> QED
        BY <2>2, <4>1
    <3> QED
      BY <3>1, <3>2
  <2> QED
    BY <2>5, <2>6 DEF S
<1>6. CodeInside'
  BY <1>1, <1>2, <1>3, <1>4, <1>5 DEF CodeInside
<1>7. CodeBounded'
  <2>1. count \in Nat /\ Len(memory) <= 156 + 193 * count
    BY <1>1 DEF CodeBounded
  <2>2. Len(memory) \in Nat /\ Len(memory') \in Nat
    BY <1>1, <1>2 DEF CodeInside
  <2>3. count' \in Nat /\ Len(memory') <= 156 + 193 * count'
    BY <1>2, <2>1, <2>2
  <2>4. phase' \notin {"prologue", "linking", "ready"}
    OBVIOUS
  <2> QED
    BY <2>3, <2>4 DEF CodeBounded
<1> QED
  BY <1>6, <1>7 DEF CodeInv

\* How an instruction goes on.
Advances ==
    /\ Push /\ count' = count + 1 /\ pc' \in Word
    /\ phase' \in {"translating", "epilogue"} /\ UNCHANGED parameters

LEMMA Operands ==
    ASSUME CodeInv
    PROVE  /\ Src \in RegId /\ Dst \in RegId /\ Ext \in Int /\ target \in Word /\ target \in Int
           /\ After \in Word /\ switch_endianness(After) \in Int
BY OperandTypes, InWord DEF CodeInv, CodeInside

LEMMA GoOnAdvances ==
    ASSUME CodeInv, NEW ret \in BOOLEAN, GoOn(ret)
    PROVE  Advances
BY Operands DEF GoOn, Advances

LEMMA StopAdvances ==
    ASSUME CodeInv, NEW ret \in BOOLEAN, NEW back \in {2, 4}, Stop(ret, back)
    PROVE  Advances
<1>1. After \in Int
  BY Operands, InWord
<1>2. Wrap(After - back) \in Word
  BY <1>1, WrapWord
<1> QED
  BY <1>2 DEF Stop, Advances

\* Instructions that are written as a whole and leave no request and no call site.
LEMMA WholeStep ==
    ASSUME CodeInv, NEW code, Piece(code, 0, 193), Write(<<>>, <<>>, code), Advances,
           UNCHANGED <<link_requests, sites>>
    PROVE  CodeInv'
<1>1. CodeInside /\ phase = "translating"
  BY DEF CodeInv, Write
<1>2. /\ <<>> \in Seq(CodeBytes) /\ code \in Seq(CodeBytes)
      /\ Piece(<<>> \o code, 0, 193) /\ Piece(<<>> \o <<>>, 0, 193)
  BY DEF Piece
<1> DEFINE none == <<>>
<1>3. /\ memory' \in Seq(CodeBytes) /\ Len(memory) <= Len(memory')
  <2>1. none \in Seq(CodeBytes) /\ Piece(none \o code, 0, 193) /\ Piece(none \o none, 0, 193)
    BY <1>2
  <2>2. Write(none, none, code)
    OBVIOUS
  <2> HIDE DEF none
  <2> QED
    BY <1>1, <1>2, <2>1, <2>2, WriteStep
<1>4. /\ link_requests' \in Seq(SafeRequests(Len(memory')))
      /\ sites' \in Seq(SafeSites(Len(memory')))
  <2>1. Len(memory) \in Nat /\ Len(memory') \in Nat
    BY <1>1, <1>3 DEF CodeInside
  <2>2. /\ Seq(SafeRequests(Len(memory))) \subseteq Seq(SafeRequests(Len(memory')))
        /\ Seq(SafeSites(Len(memory))) \subseteq Seq(SafeSites(Len(memory')))
    BY <1>3, <2>1, Longer
  <2> QED
    BY <1>1, <2>2 DEF CodeInside
<1> QED
  <2>1. none \in Seq(CodeBytes) /\ Piece(none \o code, 0, 193) /\ Piece(none \o none, 0, 193)
    BY <1>2
  <2>2. Write(none, none, code)
    OBVIOUS
  <2> HIDE DEF none
  <2> QED
    BY <1>1, <1>2, <1>4, <2>1, <2>2, InstructionStep DEF Advances

\* Instructions of one operand whose transfer of control is written after its load.
LEMMA AfterOperandStep ==
    ASSUME CodeInv, NEW wasted, NEW code, Piece(code, 0, 148), Piece(wasted, 0, 56),
           Op \in {I_JR, I_BR, I_JMPR, I_CALLR}, Write(OneRegister, wasted, code)
    PROVE  /\ OneRegister \in Seq(CodeBytes) /\ code \in Seq(CodeBytes)
           /\ Piece(OneRegister \o code, 0, 193) /\ Piece(OneRegister \o wasted, 0, 193)
           /\ gen_ptr + Len(OneRegister) \in Nat
           /\ gen_ptr + Len(OneRegister) + Len(code) <= Len(memory')
           /\ Seq(SafeRequests(Len(memory))) \subseteq Seq(SafeRequests(Len(memory')))
           /\ Seq(SafeSites(Len(memory))) \subseteq Seq(SafeSites(Len(memory')))
<1>1. Piece(OneRegister, 0, 8)
  BY Operands, OperandPiece
<1>2. /\ OneRegister \in Seq(CodeBytes) /\ code \in Seq(CodeBytes)
      /\ Piece(OneRegister \o code, 0, 193) /\ Piece(OneRegister \o wasted, 0, 193)
  BY <1>1 DEF Piece
<1>3. CodeInside
  BY DEF CodeInv
<1>4. /\ memory' \in Seq(CodeBytes) /\ gen_ptr' = gen_ptr + Len(OneRegister) + Len(code)
      /\ gen_ptr' <= Len(memory') /\ Len(memory) <= Len(memory')
  BY <1>2, <1>3, WriteStep
<1>5. Len(memory) \in Nat /\ Len(memory') \in Nat /\ gen_ptr \in Nat /\ Len(OneRegister) \in Nat
  BY <1>2, <1>3, <1>4 DEF CodeInside
<1>6. gen_ptr + Len(OneRegister) \in Nat
  BY <1>5
<1>7. /\ Seq(SafeRequests(Len(memory))) \subseteq Seq(SafeRequests(Len(memory')))
      /\ Seq(SafeSites(Len(memory))) \subseteq Seq(SafeSites(Len(memory')))
  BY <1>4, <1>5, Longer
<1> QED
  BY <1>2, <1>4, <1>6, <1>7

\* The request of a jr or br.
LEMMA RequestStep ==
    ASSUME CodeInv, NEW type \in {"LINK_JUMP_REL", "LINK_BRANCH_REL"}, NEW code,
           Piece(code, 5, 148), type = "LINK_BRANCH_REL" => 24 <= Len(code), Op \in {I_JR, I_BR},
           Write(OneRegister, <<>>, code), Advances, Requests(type, OneRegister, code),
           UNCHANGED sites
    PROVE  CodeInv'
<1> DEFINE req == [type |-> type, from |-> gen_ptr + Len(OneRegister), target |-> target,
                   length |-> Len(code)]
           none == <<>>
<1>1. Piece(code, 0, 148) /\ Piece(none, 0, 56) /\ Len(code) \in Nat /\ 5 <= Len(code)
  BY FixedPieces, Widened DEF Piece
<1>2. Write(OneRegister, none, code) /\ Op \in {I_JR, I_BR, I_JMPR, I_CALLR}
  OBVIOUS
<1>3. link_requests' = <<req>> \o link_requests
  BY DEF Requests
<1> HIDE DEF none
<1>4. /\ OneRegister \in Seq(CodeBytes) /\ code \in Seq(CodeBytes)
      /\ Piece(OneRegister \o code, 0, 193) /\ Piece(OneRegister \o none, 0, 193)
      /\ gen_ptr + Len(OneRegister) \in Nat
      /\ gen_ptr + Len(OneRegister) + Len(code) <= Len(memory')
      /\ Seq(SafeRequests(Len(memory))) \subseteq Seq(SafeRequests(Len(memory')))
      /\ Seq(SafeSites(Len(memory))) \subseteq Seq(SafeSites(Len(memory')))
  BY <1>1, <1>2, AfterOperandStep
<1>5. req \in LinkRequests
  BY <1>1, <1>4, Operands DEF LinkRequests
<1>6. req.from + req.length <= Len(memory') /\ Needed(req) <= req.length
  BY <1>1, <1>4 DEF Needed
<1>7. req \in SafeRequests(Len(memory'))
  BY <1>5, <1>6 DEF SafeRequests
<1> HIDE DEF req
<1>8. link_requests \in Seq(SafeRequests(Len(memory'))) /\ sites \in Seq(SafeSites(Len(memory')))
  BY <1>4 DEF CodeInv, CodeInside
<1>9. link_requests' \in Seq(SafeRequests(Len(memory')))
  BY <1>3, <1>7, <1>8
<1> QED
  BY <1>2, <1>4, <1>8, <1>9, InstructionStep DEF Advances, Write

\* A jump or a call through a register.
LEMMA ByRegisterStep ==
    ASSUME CodeInv, NEW code, Piece(code, 0, 148), Op \in {I_JMPR, I_CALLR},
           Write(OneRegister, store_mapped_virtual_registers(FALSE), code), Advances,
           UNCHANGED <<link_requests, sites>>
    PROVE  CodeInv'
<1> DEFINE wasted == store_mapped_virtual_registers(FALSE)
<1>1. Piece(wasted, 0, 56)
  BY TablePieces DEF StoreAll
<1>2. Write(OneRegister, wasted, code) /\ Op \in {I_JR, I_BR, I_JMPR, I_CALLR}
  OBVIOUS
<1> HIDE DEF wasted
<1>3. /\ OneRegister \in Seq(CodeBytes) /\ code \in Seq(CodeBytes)
      /\ Piece(OneRegister \o code, 0, 193) /\ Piece(OneRegister \o wasted, 0, 193)
      /\ Seq(SafeRequests(Len(memory))) \subseteq Seq(SafeRequests(Len(memory')))
      /\ Seq(SafeSites(Len(memory))) \subseteq Seq(SafeSites(Len(memory')))
  BY <1>1, <1>2, AfterOperandStep
<1>4. /\ link_requests' \in Seq(SafeRequests(Len(memory')))
      /\ sites' \in Seq(SafeSites(Len(memory')))
  BY <1>3 DEF CodeInv, CodeInside
<1> QED
  BY <1>2, <1>3, <1>4, InstructionStep DEF Advances, Write

LEMMA CallStep ==
    ASSUME CodeInv, TranslateCall
    PROVE  CodeInv'
<1> DEFINE at   == gen_ptr + Len(BeforeSite)
           code == BeforeSite \o SiteCode(at) \o AfterSite
           none == <<>>
<1>1. /\ Write(none, none, code) /\ sites' = Append(sites, at) /\ link_requests' = link_requests
      /\ GoOn(FALSE)
  BY DEF TranslateCall
<1>2. Advances
  BY <1>1, GoOnAdvances
<1>3. CodeInside /\ gen_ptr \in Nat /\ memory \in Seq(CodeBytes) /\ Len(memory) \in Nat
  BY DEF CodeInv, CodeInside
<1>4. Piece(BeforeSite, 0, 96)
  BY Operands, BeforeSitePiece
<1>5. at \in Nat
  BY <1>3, <1>4 DEF Piece
<1>6. Piece(code, 0, 193) /\ Len(BeforeSite) + CALL_STATIC_OVERWRITE_SIZE <= Len(code)
  BY <1>5, Operands, CallCodePiece
<1> DEFINE before == Len(BeforeSite)
<1>7. before \in Nat /\ at = gen_ptr + before
  BY <1>4 DEF Piece
<1> HIDE DEF code
<1>8. /\ none \in Seq(CodeBytes) /\ code \in Seq(CodeBytes) /\ Len(none) = 0 /\ Len(code) \in Nat
      /\ Piece(none \o code, 0, 193) /\ Piece(none \o none, 0, 193)
  BY <1>6 DEF Piece
<1> HIDE DEF none
<1>9. /\ memory' \in Seq(CodeBytes) /\ gen_ptr' = gen_ptr + Len(none) + Len(code)
      /\ gen_ptr' <= Len(memory') /\ Len(memory) <= Len(memory')
  <2>1. /\ CodeInside /\ none \in Seq(CodeBytes) /\ code \in Seq(CodeBytes)
        /\ Piece(none \o code, 0, 193) /\ Piece(none \o none, 0, 193) /\ Write(none, none, code)
    BY <1>1, <1>3, <1>8
  <2> QED
    BY ONLY <2>1, WriteStep
<1>a. before + 35 <= Len(code) /\ gen_ptr + Len(code) <= Len(memory') /\ Len(memory') \in Nat
  BY <1>3, <1>6, <1>8, <1>9 DEF CALL_STATIC_OVERWRITE_SIZE
<1>b. at \in SafeSites(Len(memory'))
  <2> HIDE DEF before, at
  <2>1. at + 35 <= Len(memory')
    BY <1>3, <1>7, <1>8, <1>a
  <2> QED
    BY <1>5, <2>1 DEF SafeSites, CALL_STATIC_OVERWRITE_SIZE
<1> HIDE DEF at
<1>c. /\ Seq(SafeRequests(Len(memory))) \subseteq Seq(SafeRequests(Len(memory')))
      /\ Seq(SafeSites(Len(memory))) \subseteq Seq(SafeSites(Len(memory')))
  BY <1>3, <1>9, <1>a, Longer
<1>d. link_requests \in Seq(SafeRequests(Len(memory'))) /\ sites \in Seq(SafeSites(Len(memory')))
  BY <1>3, <1>c DEF CodeInside
<1>e. /\ link_requests' \in Seq(SafeRequests(Len(memory')))
      /\ sites' \in Seq(SafeSites(Len(memory')))
  BY <1>1, <1>b, <1>d
<1>f. \E p \in Nat : p <= gen_ptr' /\ sites' = Append(sites, p)
  <2>1. at <= gen_ptr'
    <3> HIDE DEF before
    <3> QED
      BY <1>3, <1>7, <1>8, <1>9, <1>a
  <2> QED
    BY <1>1, <1>5, <2>1
<1> QED
  BY <1>1, <1>2, <1>8, <1>e, <1>f, InstructionStep DEF Advances, Write

LEMMA TranslateStep ==
    ASSUME CodeInv, Translate1
    PROVE  CodeInv'
<1>0. /\ Src \in RegId /\ Dst \in RegId /\ Ext \in Int /\ target \in Int /\ TRUE \in BOOLEAN
      /\ FALSE \in BOOLEAN
  BY Operands
<1>1. CASE TranslateStraight
  <2>1. Write(<<>>, <<>>, StraightCode) /\ GoOn(FALSE) /\ UNCHANGED <<link_requests, sites>>
    BY <1>1 DEF TranslateStraight
  <2>2. Advances
    BY <2>1, GoOnAdvances
  <2>3. Piece(StraightCode, 0, 193)
    BY <1>0, StraightPiece
  <2> QED
    BY <2>1, <2>2, <2>3, WholeStep
<1>2. CASE TranslateJmp
  <2>1. Write(<<>>, <<>>, JumpCode) /\ GoOn(FALSE) /\ UNCHANGED <<link_requests, sites>>
    BY <1>2 DEF TranslateJmp
  <2>2. Advances
    BY <2>1, GoOnAdvances
  <2>3. Piece(JumpCode, 0, 193)
    BY <1>0, JumpPiece
  <2> QED
    BY <2>1, <2>2, <2>3, WholeStep
<1>3. CASE TranslateCall
  BY <1>3, CallStep
<1>4. CASE TranslateRecursion
  <2>1. Write(<<>>, <<>>, RecursiveCall) /\ GoOn(FALSE) /\ UNCHANGED <<link_requests, sites>>
    BY <1>4 DEF TranslateRecursion
  <2>2. Advances
    BY <2>1, GoOnAdvances
  <2> QED
    BY <2>1, <2>2, RecursionPiece, WholeStep
<1>5. CASE TranslateRet
  <2>1. Write(<<>>, <<>>, ReturnCode) /\ GoOn(TRUE) /\ UNCHANGED <<link_requests, sites>>
    BY <1>5 DEF TranslateRet
  <2>2. Advances
    BY <2>1, GoOnAdvances
  <2> QED
    BY <2>1, <2>2, ReturnPiece, WholeStep
<1>6. CASE TranslatePanic
  <2> DEFINE code == IF Op = I_STD THEN DebugCode ELSE <<>>
  <2>1. Write(<<>>, <<>>, code) /\ Stop(TRUE, 2) /\ UNCHANGED <<link_requests, sites>>
    BY <1>6 DEF TranslatePanic
  <2>2. Advances
    BY <2>1, StopAdvances
  <2>3. Piece(<<>>, 0, 193)
    BY FixedPieces, Widened
  <2>4. Piece(code, 0, 193)
    BY <2>3, DebugPiece
  <2> HIDE DEF code
  <2> QED
    BY <2>1, <2>2, <2>4, WholeStep
<1>7. CASE TranslateJr
  <2>1. /\ Op = I_JR /\ Write(OneRegister, <<>>, JumpRelative) /\ GoOn(FALSE)
        /\ Requests("LINK_JUMP_REL", OneRegister, JumpRelative) /\ UNCHANGED sites
    BY <1>7 DEF TranslateJr
  <2>2. Advances
    BY <2>1, GoOnAdvances
  <2>3. Piece(JumpRelative, 5, 121)
    BY <1>0, JumpRelativePiece
  <2>4. Piece(JumpRelative, 5, 148)
    BY <2>3, Widened
  <2> QED
    BY <2>1, <2>2, <2>4, RequestStep
<1>8. CASE TranslateBr
  <2>1. /\ Op = I_BR /\ Write(OneRegister, <<>>, Branch) /\ GoOn(FALSE)
        /\ Requests("LINK_BRANCH_REL", OneRegister, Branch) /\ UNCHANGED sites
    BY <1>8 DEF TranslateBr
  <2>2. Advances
    BY <2>1, GoOnAdvances
  <2>3. Piece(Branch, 24, 148)
    BY <1>0, BranchPiece
  <2>4. Piece(Branch, 5, 148) /\ 24 <= Len(Branch)
    BY <2>3, Widened DEF Piece
  <2> QED
    BY <2>1, <2>2, <2>4, RequestStep
<1>9. CASE TranslateJmpR
  <2> DEFINE code == ByRegister(Host.jump_dynamic) \o x64_map_absolute_jmp(RAX)
  <2>1. /\ Op = I_JMPR /\ Write(OneRegister, store_mapped_virtual_registers(FALSE), code)
        /\ GoOn(FALSE) /\ UNCHANGED <<link_requests, sites>>
    BY <1>9 DEF TranslateJmpR
  <2>2. Advances
    BY <2>1, GoOnAdvances
  <2>3. Host.jump_dynamic \in Nat
    BY HostType DEF HostNames
  <2>4. Piece(ByRegister(Host.jump_dynamic), 18, 18) /\ Piece(x64_map_absolute_jmp(RAX), 2, 3)
    BY <2>3, ByRegisterPiece, FlowPieces, Named
  <2>5. Piece(code, 0, 148)
    BY <2>4 DEF Piece
  <2> HIDE DEF code
  <2> QED
    BY <2>1, <2>2, <2>5, ByRegisterStep
<1>10. CASE TranslateCallR
  <2> DEFINE code == ByRegister(Host.call_dynamic) \o AfterSite
  <2>1. /\ Op = I_CALLR /\ Write(OneRegister, store_mapped_virtual_registers(FALSE), code)
        /\ GoOn(FALSE) /\ UNCHANGED <<link_requests, sites>>
    BY <1>10 DEF TranslateCallR
  <2>2. Advances
    BY <2>1, GoOnAdvances
  <2>3. Host.call_dynamic \in Nat
    BY HostType DEF HostNames
  <2>4. Piece(ByRegister(Host.call_dynamic), 18, 18)
    BY <2>3, ByRegisterPiece
  <2>5. Piece(code, 0, 148)
    BY <2>4, AfterSitePiece DEF Piece
  <2> HIDE DEF code
  <2> QED
    BY <2>1, <2>2, <2>5, ByRegisterStep
<1>11. CASE TranslateInvalid
  <2> DEFINE code == IF XIS_NUM_OPS(Op) = 2 THEN TwoRegisters
                     ELSE IF XIS_NUM_OPS(Op) = 1 THEN OneRegister ELSE <<>>
             back == IF XIS_NUM_OPS(Op) = 2 THEN 4 ELSE 2
  <2>1. Write(<<>>, <<>>, code) /\ Stop(FALSE, back) /\ UNCHANGED <<link_requests, sites>>
    BY <1>11 DEF TranslateInvalid
  <2>2. back \in {2, 4}
    OBVIOUS
  <2>3. Piece(<<>>, 0, 193)
    BY FixedPieces, Widened
  <2>4. Piece(code, 0, 193)
    BY <1>0, <2>3, StraightPiece
  <2> HIDE DEF code, back
  <2>5. Advances
    BY <1>0, <2>1, <2>2, StopAdvances
  <2> QED
    BY <2>1, <2>4, <2>5, WholeStep
<1> QED
  BY <1>1, <1>2, <1>3, <1>4, <1>5, <1>6, <1>7, <1>8, <1>9, <1>10, <1>11 DEF Translate1

-----------------------------------------------------------------------------
(* The steps around the translation. *)
\* The prologue and the epilogue are appended at gen_ptr, and nothing else changes.
LEMMA EmitStep ==
    ASSUME CodeInside, NEW code, NEW n \in Nat, Piece(code, 0, n), Emit(code),
           UNCHANGED <<parameters, pc, instr_mapping, link_requests, sites>>
    PROVE  CodeInside' /\ Len(memory') \in Nat /\ Len(memory') <= Len(memory) + n
<1>1. /\ memory \in Seq(CodeBytes) /\ gen_ptr \in Nat /\ gen_ptr <= Len(memory)
      /\ Len(memory) \in Nat
  BY DEF CodeInside
<1>2. code \in Seq(CodeBytes) /\ Len(code) \in Nat /\ Len(code) <= n
  BY DEF Piece
<1>3. memory' = Put(memory, gen_ptr, code) /\ gen_ptr' = gen_ptr + Len(code)
  BY DEF Emit
<1>4. /\ memory' \in Seq(CodeBytes)
      /\ Len(memory') = IF gen_ptr + Len(code) < Len(memory) THEN Len(memory)
                        ELSE gen_ptr + Len(code)
  BY <1>1, <1>2, <1>3, PutPiece
<1>5. /\ gen_ptr' \in Nat /\ gen_ptr' <= Len(memory') /\ Len(memory) <= Len(memory')
      /\ gen_ptr <= gen_ptr'
      /\ Len(memory') \in Nat /\ Len(memory') <= Len(memory) + n
  BY <1>1, <1>2, <1>3, <1>4
<1>6. memory' \in Seq(CodeBytes')
  BY <1>4, SameBytes DEF parameters
<1>7. /\ Seq(SafeRequests(Len(memory))) \subseteq Seq(SafeRequests(Len(memory')))
      /\ Seq(SafeSites(Len(memory))) \subseteq Seq(SafeSites(Len(memory')))
  BY <1>1, <1>5, Longer
<1>8. /\ link_requests' \in Seq(SafeRequests(Len(memory')))
      /\ sites' \in Seq(SafeSites(Len(memory')))
      /\ instr_mapping' \in Seq(0 .. gen_ptr') /\ sites' \in Seq(0 .. gen_ptr')
  BY <1>1, <1>5, <1>7, Behind DEF CodeInside
<1> QED
  BY <1>5, <1>6, <1>8 DEF CodeInside, parameters

LEMMA PrologueStep ==
    ASSUME CodeInv, Prologue
    PROVE  CodeInv'
<1> DEFINE code == IF internal_abi THEN <<>> ELSE PrologueCode
<1>1. /\ Emit(code) /\ phase = "prologue" /\ phase' = "translating" /\ count' = count
      /\ UNCHANGED <<parameters, pc, instr_mapping, link_requests, sites>>
  BY DEF Prologue
<1>2. Piece(code, 0, 156)
  <2>1. Piece(<<>>, 0, 156)
    BY FixedPieces, Widened
  <2>2. Piece(PrologueCode, 0, 156)
    BY ProloguePiece DEF CodeInv, CodeInside
  <2> QED
    BY <2>1, <2>2
<1> HIDE DEF code
<1>3. CodeInside' /\ Len(memory') \in Nat /\ Len(memory') <= Len(memory) + 156
  BY <1>1, <1>2, EmitStep DEF CodeInv
<1>4. count = 0 /\ Len(memory) = 0
  BY <1>1 DEF CodeInv, CodeBounded
<1>5. CodeBounded'
  BY <1>1, <1>3, <1>4 DEF CodeBounded
<1> QED
  BY <1>3, <1>5 DEF CodeInv

LEMMA EpilogueStep ==
    ASSUME CodeInv, Epilogue
    PROVE  CodeInv'
<1>1. /\ Emit(EpilogueCode) /\ phase = "epilogue" /\ phase' = "linking" /\ count' = count
      /\ UNCHANGED <<parameters, pc, instr_mapping, link_requests, sites>>
  BY DEF Epilogue
<1>2. Piece(EpilogueCode, 0, 161)
  BY EpiloguePiece DEF CodeInv, CodeInside
<1>3. CodeInside' /\ Len(memory') \in Nat /\ Len(memory') <= Len(memory) + 161
  BY <1>1, <1>2, EmitStep DEF CodeInv
<1>4. count \in Nat /\ Len(memory) <= 156 + 193 * count /\ Len(memory) \in Nat
  BY <1>1 DEF CodeInv, CodeBounded, CodeInside
<1>5. Len(memory') <= 317 + 193 * count
  BY <1>3, <1>4
<1>6. CodeBounded'
  BY <1>1, <1>4, <1>5 DEF CodeBounded
<1> QED
  BY <1>3, <1>6 DEF CodeInv

\* The linker and call_static overwrite code and add none.
LinkingKeepsLength == phase \in {"linking", "ready"} => Len(memory') = Len(memory)

LEMMA LinkStep ==
    ASSUME CodeInv, LinkNext
    PROVE  CodeInv' /\ LinkingKeepsLength
<1> DEFINE req == Head(link_requests)
<1>1. /\ link_requests # <<>> /\ link_requests' = Tail(link_requests) /\ count' = count
      /\ phase' = phase
      /\ UNCHANGED <<parameters, pc, gen_ptr, instr_mapping, sites>>
  BY DEF LinkNext
<1>2. /\ memory \in Seq(CodeBytes) /\ Len(memory) \in Nat /\ instr_mapping \in Seq(0 .. gen_ptr)
      /\ link_requests \in Seq(SafeRequests(Len(memory))) /\ address \in Word
  BY DEF CodeInv, CodeInside
<1>3. req \in SafeRequests(Len(memory)) /\ link_requests' \in Seq(SafeRequests(Len(memory)))
  BY <1>1, <1>2
<1>4. \/ memory' = memory
      \/ \E to \in Int : memory' = Overwrite(memory, req.from, req.length, Linked(req, to))
  <2> DEFINE relative == req.target - address
             entry    == relative \div 2
             found    == IF entry < Len(instr_mapping) THEN {instr_mapping[entry + 1]} ELSE Unwritten
  <2>1. IF relative < 0 \/ relative > 2 * Len(instr_mapping)
        THEN UNCHANGED memory
        ELSE \E to \in found :
                memory' = Overwrite(memory, req.from, req.length, Linked(req, to))
    BY DEF LinkNext
  <2>2. relative \in Int
    BY <1>2, <1>3, InWord DEF SafeRequests, LinkRequests
  <2>3. ASSUME ~(relative < 0) PROVE found \subseteq Int
    <3> HIDE DEF relative
    <3>1. entry \in Nat
      BY <2>2, <2>3
    <3> HIDE DEF entry
    <3>2. CASE entry < Len(instr_mapping)
      <4>1. PICK S : S = 0 .. gen_ptr
        OBVIOUS
      <4>2. instr_mapping \in Seq(S)
        BY <1>2, <4>1
      <4>3. instr_mapping[entry + 1] \in S
        BY <3>1, <3>2, <4>2
      <4>4. S \subseteq Int
        BY <4>1
      <4> QED
        BY <3>2, <4>3, <4>4
    <3>3. CASE ~(entry < Len(instr_mapping))
      BY <3>3, EmitAssumption
    <3> QED
      BY <3>2, <3>3
  <2> HIDE DEF relative, found
  <2> QED
    BY <2>1, <2>3
<1> HIDE DEF req
<1>5. /\ req \in LinkRequests /\ req.from \in Nat /\ req.length \in Nat
      /\ req.from + req.length <= Len(memory) /\ Needed(req) <= req.length /\ Needed(req) \in Nat
  BY <1>3 DEF SafeRequests, LinkRequests, Needed
<1>6. memory' \in Seq(CodeBytes) /\ Len(memory') = Len(memory)
  <2>1. CASE memory' = memory
    BY <1>2, <2>1
  <2>2. ASSUME NEW to \in Int,
               memory' = Overwrite(memory, req.from, req.length, Linked(req, to))
        PROVE  memory' \in Seq(CodeBytes) /\ Len(memory') = Len(memory)
    <3>1. Piece(Linked(req, to), Needed(req), Needed(req))
      BY <1>5, LinkedPiece
    <3> DEFINE code == Linked(req, to)
               n    == Needed(req)
    <3>2. Piece(code, n, n) /\ n \in Nat /\ n <= req.length
      BY <1>5, <3>1
    <3> HIDE DEF code, n
    <3>3. /\ Overwrite(memory, req.from, req.length, code) \in Seq(CodeBytes)
          /\ Len(Overwrite(memory, req.from, req.length, code)) = Len(memory)
      BY <1>2, <1>5, <3>2, OverwritePiece
    <3> QED
      BY <2>2, <3>3 DEF code
  <2> QED
    BY <1>4, <2>1, <2>2
<1>7. memory' \in Seq(CodeBytes')
  BY <1>1, <1>6, SameBytes DEF parameters
<1>8. CodeInside'
  BY <1>1, <1>3, <1>6, <1>7 DEF CodeInv, CodeInside, parameters
<1>9. CodeBounded'
  BY <1>1, <1>6 DEF CodeInv, CodeBounded, LinkNext
<1> QED
  BY <1>6, <1>8, <1>9 DEF CodeInv, LinkingKeepsLength

LEMMA CallStaticStep ==
    ASSUME CodeInv, CallStatic
    PROVE  CodeInv' /\ LinkingKeepsLength
<1> DEFINE at   == Head(sites)
           code == x64_map_move_imm2reg(RAX, Host.callee)
<1>1. /\ sites # <<>> /\ sites' = Tail(sites) /\ phase' = phase /\ count' = count
      /\ memory' = Overwrite(memory, at, CALL_STATIC_OVERWRITE_SIZE, code)
      /\ UNCHANGED <<parameters, pc, gen_ptr, instr_mapping, link_requests>>
  BY DEF CallStatic
<1>2. /\ memory \in Seq(CodeBytes) /\ Len(memory) \in Nat /\ sites \in Seq(SafeSites(Len(memory)))
  BY DEF CodeInv, CodeInside
<1>3. at \in SafeSites(Len(memory)) /\ sites' \in Seq(SafeSites(Len(memory)))
  BY <1>1, <1>2
<1>4. Piece(code, 10, 10)
  <2>1. Host.callee \in Nat
    BY HostType DEF HostNames
  <2>2. Piece(Imm32(0), 4, 4)
    BY Imm32Piece
  <2> QED
    BY <2>1, <2>2, MovePieces, Named
<1> HIDE DEF at, code
<1>5. at \in Nat /\ at + 35 <= Len(memory) /\ 35 \in Nat /\ 10 \in Nat /\ 10 <= 35
  BY <1>3 DEF SafeSites, CALL_STATIC_OVERWRITE_SIZE
<1>6. /\ Overwrite(memory, at, 35, code) \in Seq(CodeBytes)
      /\ Len(Overwrite(memory, at, 35, code)) = Len(memory)
  BY <1>2, <1>4, <1>5, OverwritePiece
<1>7. memory' \in Seq(CodeBytes) /\ Len(memory') = Len(memory)
  BY <1>1, <1>6 DEF CALL_STATIC_OVERWRITE_SIZE
<1>8. memory' \in Seq(CodeBytes')
  BY <1>1, <1>7, SameBytes DEF parameters
<1>9. CodeInside'
  BY <1>1, <1>3, <1>7, <1>8 DEF CodeInv, CodeInside, parameters
<1>10. CodeBounded'
  BY <1>1, <1>7 DEF CodeInv, CodeBounded, CallStatic
<1> QED
  BY <1>7, <1>9, <1>10 DEF CodeInv, LinkingKeepsLength

LEMMA UnchangedStep ==
    ASSUME CodeInv, UNCHANGED emitVars
    PROVE  CodeInv' /\ LinkingKeepsLength
<1>1. CodeBytes' = CodeBytes
  BY SameBytes DEF emitVars, parameters
<1> QED
  BY <1>1 DEF CodeInv, CodeInside, CodeBounded, LinkingKeepsLength, emitVars, parameters

LEMMA ReturnStep ==
    ASSUME CodeInv, Return
    PROVE  CodeInv' /\ LinkingKeepsLength
<1>1. CodeBytes' = CodeBytes
  BY SameBytes DEF Return, parameters
<1>2. CodeInside'
  BY <1>1 DEF CodeInv, CodeInside, Return, parameters
<1>3. CodeBounded'
  BY DEF CodeInv, CodeBounded, Return
<1> QED
  BY <1>2, <1>3 DEF CodeInv, LinkingKeepsLength, Return

LEMMA CodeStart == EmitInit => CodeInv
<1> SUFFICES ASSUME EmitInit
             PROVE  CodeInv
  OBVIOUS
<1>1. IsMemory(program) /\ address \in Word /\ pc \in Word
  BY EmitAssumption DEF EmitInit
<1>2. memory = <<>> /\ link_requests = <<>> /\ sites = <<>> /\ instr_mapping = <<>>
      /\ gen_ptr = 0 /\ count = 0 /\ phase = "prologue"
  BY DEF EmitInit
<1>3. CodeInside
  BY <1>1, <1>2 DEF CodeInside
<1>4. CodeBounded
  BY <1>2 DEF CodeBounded
<1> QED
  BY <1>3, <1>4 DEF CodeInv

LEMMA CodeStep == CodeInv /\ [EmitNext]_emitVars => CodeInv' /\ LinkingKeepsLength
<1> SUFFICES ASSUME CodeInv, [EmitNext]_emitVars
             PROVE  CodeInv' /\ LinkingKeepsLength
  OBVIOUS
<1>1. CASE Prologue
  BY <1>1, PrologueStep DEF LinkingKeepsLength, Prologue
<1>2. CASE Translate1
  <2>1. phase = "translating"
    BY <1>2 DEF Translate1, TranslateStraight, TranslateJmp, TranslateCall, TranslateRecursion,
       TranslateRet, TranslatePanic, TranslateJr, TranslateBr, TranslateJmpR, TranslateCallR,
       TranslateInvalid, Write
  <2> QED
    BY <1>2, <2>1, TranslateStep DEF LinkingKeepsLength
<1>3. CASE Epilogue
  BY <1>3, EpilogueStep DEF LinkingKeepsLength, Epilogue
<1>4. CASE LinkNext
  BY <1>4, LinkStep
<1>5. CASE Return
  BY <1>5, ReturnStep
<1>6. CASE CallStatic
  BY <1>6, CallStaticStep
<1>7. CASE UNCHANGED emitVars
  BY <1>7, UnchangedStep
<1>8. CASE Finished
  BY <1>8, UnchangedStep DEF Finished
<1> QED
  BY <1>1, <1>2, <1>3, <1>4, <1>5, <1>6, <1>7, <1>8 DEF EmitNext

\* jit.c:113: the code of at most 81 guest instructions fits into the 16000 bytes of its
\* buffer, for every program and every function in it, with or without the escape hatch and
\* the preamble, whichever registers the table maps, and after every overwriting by the
\* linker and by call_static.
THEOREM CodeFitsSafe == EmitSpec => []CodeFitsBuffer
<1>1. CodeInv => CodeFitsBuffer
  <2> SUFFICES ASSUME CodeInv, count <= MaxInstructions
               PROVE  Len(memory) <= BufferSize
    BY DEF CodeFitsBuffer
  <2>1. count \in Nat /\ Len(memory) \in Nat /\ Len(memory) <= 317 + 193 * count
    <3>1. count \in Nat /\ Len(memory) \in Nat
      BY DEF CodeInv, CodeInside, CodeBounded
    <3>2. CASE phase = "prologue"
      BY <3>1, <3>2 DEF CodeInv, CodeBounded
    <3>3. CASE phase \in {"translating", "epilogue"}
      <4>1. Len(memory) <= 156 + 193 * count
        BY <3>3 DEF CodeInv, CodeBounded
      <4> QED
        BY <3>1, <4>1
    <3>4. CASE phase \in {"linking", "ready"}
      BY <3>1, <3>4 DEF CodeInv, CodeBounded
    <3> QED
      BY <3>2, <3>3, <3>4 DEF CodeInv, CodeBounded
  <2> QED
    BY <2>1 DEF MaxInstructions, BufferSize
<1> QED
  BY <1>1, CodeStart, CodeStep, PTL DEF EmitSpec

\* linker.c, jit_runtime.c: once the code is generated, neither a resolved link request nor
\* the overwriting of a call site writes behind its end, wherever in the code they lie.
THEOREM OverwritesInside == EmitSpec => [][LinkingKeepsLength]_emitVars
BY CodeStart, CodeStep, PTL DEF EmitSpec

-----------------------------------------------------------------------------
(* The types. *)

\* What the steps of the translation do not touch, or set to a truth value.
TableTyped ==
    /\ mapped \in [Slot -> RegId \cup {Unused}]
    /\ invalid_op \in BOOLEAN /\ emitted_ret \in BOOLEAN

\* vreg_table.c: the table that is translated with holds registers.
LEMMA TableStart == EmitInit => TableTyped
<1> SUFFICES ASSUME EmitInit
             PROVE  TableTyped
  OBVIOUS
<1>1. IsMemory(program) /\ address \in Nat /\ invalid_op \in BOOLEAN /\ emitted_ret \in BOOLEAN
  <2>1. IsMemory(program) /\ address \in Word
    BY EmitAssumption DEF EmitInit
  <2>2. invalid_op \in BOOLEAN /\ emitted_ret \in BOOLEAN
    BY DEF EmitInit
  <2> QED
    BY <2>1, <2>2, InWord
<1> DEFINE f == [order |-> SolveRegion(program, address)]
<1>2. IsOrder(f.order)
  BY <1>1, SolveRegionType
<1>3. mapped = [i \in Slot |-> RegIn(f, i)]
  <2>1. mapped = TableOf(f.order)
    BY DEF EmitInit
  <2> HIDE DEF f
  <2> QED
    BY <2>1 DEF RegIn, TableOf
<1>4. \A i \in Slot : RegIn(f, i) \in RegId \cup {Unused}
  <2> HIDE DEF f
  <2> QED
    BY <1>2, TableSlots
<1> DEFINE table == [i \in Slot |-> RegIn(f, i)]
<1>5. table \in [Slot -> RegId \cup {Unused}]
  <2> HIDE DEF f
  <2> QED
    BY <1>4
<1> HIDE DEF table
<1> QED
  BY <1>1, <1>3, <1>5 DEF TableTyped, table

LEMMA TableStep == TableTyped /\ [EmitNext]_emitVars => TableTyped'
<1> SUFFICES ASSUME TableTyped, [EmitNext]_emitVars
             PROVE  TableTyped'
  OBVIOUS
<1>1. \A ret \in BOOLEAN : GoOn(ret) => TableTyped'
  BY DEF GoOn, TableTyped, parameters
<1>2. \A back : \A ret \in BOOLEAN : Stop(ret, back) => TableTyped'
  BY DEF Stop, TableTyped, parameters
<1>3. CASE Translate1
  BY <1>1, <1>2, <1>3
  DEF Translate1, TranslateStraight, TranslateJmp, TranslateCall, TranslateRecursion,
      TranslateRet, TranslatePanic, TranslateJr, TranslateBr, TranslateJmpR, TranslateCallR,
      TranslateInvalid
<1>4. CASE Prologue \/ Epilogue \/ LinkNext \/ Return \/ CallStatic
  BY <1>4 DEF Prologue, Epilogue, LinkNext, Return, CallStatic, TableTyped, parameters
<1>5. CASE Finished \/ UNCHANGED emitVars
  BY <1>5 DEF Finished, emitVars, parameters, TableTyped
<1> QED
  BY <1>3, <1>4, <1>5 DEF EmitNext

\* The entries of a table of registers become bytes.
LEMMA TableBytes ==
    ASSUME TableTyped
    PROVE  CodeBytes = Byte
<1>1. \A i \in Slot : 2 * mapped[i] \in Int
  BY DEF TableTyped, RegId, Unused
<1>2. \A v \in Int : v % 256 \in Byte /\ v \div 256 \in Int /\ v \div 65536 \in Int
                     /\ v \div 16777216 \in Int
  BY DEF Byte
<1>3. \A v \in Int, j \in 1 .. 4 : Imm32(v)[j] \in Byte
  <2> SUFFICES ASSUME NEW v \in Int, NEW j \in 1 .. 4
               PROVE  Imm32(v)[j] \in Byte
    OBVIOUS
  <2> DEFINE a == v % 256
             b == (v \div 256) % 256
             c == (v \div 65536) % 256
             d == (v \div 16777216) % 256
  <2>1. a \in Byte /\ b \in Byte /\ c \in Byte /\ d \in Byte
    BY <1>2
  <2>2. Imm32(v) = <<a, b, c, d>>
    BY DEF Imm32
  <2> HIDE DEF a, b, c, d
  <2>3. j = 1 \/ j = 2 \/ j = 3 \/ j = 4
    OBVIOUS
  <2> QED
    BY <2>1, <2>2, <2>3
<1> QED
  BY <1>1, <1>3 DEF CodeBytes

\* jit.c: the parameters and the state of the translation are of their types for every
\* program and every function in it: the code is a sequence of bytes, and the entries of the
\* container, the call sites and gen_ptr are positions in it that were written.
THEOREM EmitTypeCorrect == EmitSpec => []EmitTypeOK
<1>1. CodeInv /\ TableTyped => EmitTypeOK
  <2> SUFFICES ASSUME CodeInv, TableTyped
               PROVE  EmitTypeOK
    OBVIOUS
  <2>1. CodeInside /\ CodeBounded
    BY DEF CodeInv
  <2>2. memory \in Seq(Byte)
    BY <2>1, TableBytes DEF CodeInside
  <2>3. gen_ptr \in 0 .. Len(memory)
    BY <2>1 DEF CodeInside
  <2>4. link_requests \in Seq(LinkRequests)
    <3>1. SafeRequests(Len(memory)) \subseteq LinkRequests
      BY DEF SafeRequests
    <3> QED
      BY <2>1, <3>1 DEF CodeInside
  <2>5. count \in Nat /\ phase \in {"prologue", "translating", "epilogue", "linking", "ready"}
    BY <2>1 DEF CodeBounded
  <2> QED
    BY <2>1, <2>2, <2>3, <2>4, <2>5 DEF EmitTypeOK, CodeInside, TableTyped
<1> QED
  BY <1>1, CodeStart, CodeStep, TableStart, TableStep, PTL DEF EmitSpec

\* How the translation loop goes on after an instruction: it ends with one that ends the
\* function, and every other one has code.
Goes ==
    /\ phase = "translating" /\ Push /\ count' = count + 1 /\ UNCHANGED parameters
    /\ \/ phase' = "translating" /\ ~EndsFunction(Op) /\ pc' = After /\ gen_ptr' > gen_ptr
       \/ phase' = "epilogue" /\ EndsFunction(Op)

\* An instruction that does not end the function, of n bytes.
LEMMA GoOnGoes ==
    ASSUME GoOn(FALSE), phase = "translating", ~EndsFunction(Op), NEW n \in Nat, n > 0,
           gen_ptr \in Nat, gen_ptr' = gen_ptr + n
    PROVE  Goes
<1>1. /\ Push /\ count' = count + 1 /\ UNCHANGED parameters
      /\ phase' = "translating" /\ pc' = After
  BY DEF GoOn
<1>2. gen_ptr' > gen_ptr
  OBVIOUS
<1> QED
  BY <1>1, <1>2 DEF Goes

\* Instructions that are written as a whole.
LEMMA WholeGoes ==
    ASSUME CodeInv, GoOn(FALSE), ~EndsFunction(Op), NEW code, Piece(code, 0, 193), Len(code) > 0,
           Write(<<>>, <<>>, code)
    PROVE  Goes
<1>1. gen_ptr \in Nat
  BY DEF CodeInv, CodeInside
<1>2. <<>> \o code = code /\ Len(code) \in Nat
  BY DEF Piece
<1>3. gen_ptr' = gen_ptr + Len(code) /\ phase = "translating"
  BY <1>2 DEF Write
<1> QED
  BY <1>1, <1>2, <1>3, GoOnGoes

\* Instructions of one operand whose transfer of control is written after its load.
LEMMA OperandGoes ==
    ASSUME CodeInv, GoOn(FALSE), NEW code, Piece(code, 5, 148), NEW wasted,
           Op \in {I_JR, I_BR, I_JMPR, I_CALLR}, Write(OneRegister, wasted, code)
    PROVE  Goes
<1>1. gen_ptr \in Nat
  BY DEF CodeInv, CodeInside
<1>2. ~EndsFunction(Op)
  BY DEF EndsFunction, Implemented, BranchOps, I_JR, I_BR, I_JMPR, I_CALLR, I_RET, I_STD, I_CLD
<1>3. Piece(OneRegister, 0, 8)
  BY Operands, OperandPiece
<1>4. Len(OneRegister \o code) \in Nat /\ Len(OneRegister \o code) > 0
  BY <1>3 DEF Piece
<1>5. gen_ptr' = gen_ptr + Len(OneRegister \o code) /\ phase = "translating"
  BY DEF Write
<1> QED
  BY <1>1, <1>2, <1>4, <1>5, GoOnGoes

\* Every action of the loop goes on in that way.
LEMMA TranslateGoes ==
    ASSUME CodeInv, Translate1
    PROVE  Goes
<1>1. CASE TranslateStraight
  <2>1. ~EndsFunction(Op)
    BY <1>1 DEF TranslateStraight, EndsFunction, Implemented, Straight, ArithOps, CompareOps,
       UnaryOps, I_ADD, I_SUB, I_MUL, I_DIV, I_AND, I_OR, I_XOR, I_SHR, I_SHL, I_TEST, I_CMP, I_EQU,
       I_NEG, I_NOT, I_INC, I_DEC, I_LOADI, I_MOV, I_LOAD, I_LOADB, I_STOR, I_STORB, I_PUSH, I_POP,
       I_OUT, I_RET, I_STD, I_CLD
  <2>2. Piece(StraightCode, 0, 193) /\ Len(StraightCode) > 0
    BY <1>1, Operands, StraightPiece DEF TranslateStraight
  <2> QED
    BY <1>1, <2>1, <2>2, WholeGoes DEF TranslateStraight
<1>2. CASE TranslateJmp
  <2>1. ~EndsFunction(Op)
    BY <1>2 DEF TranslateJmp, EndsFunction, Implemented, I_JMP, I_RET, I_STD, I_CLD
  <2>2. Piece(JumpCode, 0, 193) /\ Len(JumpCode) > 0
    BY Operands, JumpPiece
  <2> QED
    BY <1>2, <2>1, <2>2, WholeGoes DEF TranslateJmp
<1>3. CASE TranslateCall
  <2> DEFINE at == gen_ptr + Len(BeforeSite)
             code == BeforeSite \o SiteCode(at) \o AfterSite
  <2>1. ~EndsFunction(Op)
    BY <1>3 DEF TranslateCall, EndsFunction, Implemented, I_CALL, I_RET, I_STD, I_CLD
  <2>2. at \in Nat
    BY Operands, BeforeSitePiece DEF CodeInv, CodeInside, Piece
  <2>3. Piece(code, 0, 193) /\ Len(BeforeSite) + CALL_STATIC_OVERWRITE_SIZE <= Len(code)
    <3> HIDE DEF at
    <3> QED
      BY <2>2, Operands, CallCodePiece
  <2>4. Write(<<>>, <<>>, code) /\ GoOn(FALSE)
    BY <1>3 DEF TranslateCall
  <2> HIDE DEF code
  <2>5. Len(code) > 0
    BY <2>3, Operands, BeforeSitePiece DEF Piece, CALL_STATIC_OVERWRITE_SIZE
  <2> QED
    BY <2>1, <2>3, <2>4, <2>5, WholeGoes
<1>4. CASE TranslateRecursion
  <2>1. ~EndsFunction(Op)
    BY <1>4 DEF TranslateRecursion, EndsFunction, Implemented, I_CALL, I_RET, I_STD, I_CLD
  <2>2. Piece(RecursiveCall, 0, 193) /\ Len(RecursiveCall) > 0
    BY RecursionPiece
  <2> QED
    BY <1>4, <2>1, <2>2, WholeGoes DEF TranslateRecursion
<1>5. CASE TranslateRet
  BY <1>5 DEF TranslateRet, GoOn, Write, Goes, EndsFunction
<1>6. CASE TranslatePanic
  BY <1>6 DEF TranslatePanic, Stop, Write, Goes, EndsFunction
<1>7. CASE TranslateInvalid
  BY <1>7 DEF TranslateInvalid, Stop, Write, Goes, EndsFunction
<1>8. CASE TranslateJr
  <2>1. Piece(JumpRelative, 5, 148)
    BY Operands, JumpRelativePiece, Widened
  <2>2. GoOn(FALSE) /\ Write(OneRegister, <<>>, JumpRelative) /\ Op = I_JR
    BY <1>8 DEF TranslateJr
  <2> QED
    BY <2>1, <2>2, OperandGoes
<1>9. CASE TranslateBr
  <2>1. Piece(Branch, 5, 148)
    BY Operands, BranchPiece, Widened
  <2>2. GoOn(FALSE) /\ Write(OneRegister, <<>>, Branch) /\ Op = I_BR
    BY <1>9 DEF TranslateBr
  <2> QED
    BY <2>1, <2>2, OperandGoes
<1>10. CASE TranslateJmpR
  <2> DEFINE code == ByRegister(Host.jump_dynamic) \o x64_map_absolute_jmp(RAX)
             wasted == store_mapped_virtual_registers(FALSE)
  <2>1. Piece(code, 5, 148)
    <3>1. Piece(ByRegister(Host.jump_dynamic), 18, 18)
      BY HostType, ByRegisterPiece DEF HostNames
    <3>2. Piece(x64_map_absolute_jmp(RAX), 2, 3)
      BY FlowPieces, Named
    <3> QED
      BY <3>1, <3>2 DEF Piece
  <2>2. /\ GoOn(FALSE) /\ Op = I_JMPR
        /\ Write(OneRegister, wasted, code)
    BY <1>10 DEF TranslateJmpR
  <2> HIDE DEF code, wasted
  <2> QED
    BY <2>1, <2>2, OperandGoes
<1>11. CASE TranslateCallR
  <2> DEFINE code == ByRegister(Host.call_dynamic) \o AfterSite
             wasted == store_mapped_virtual_registers(FALSE)
  <2>1. Piece(code, 5, 148)
    <3>1. Piece(ByRegister(Host.call_dynamic), 18, 18)
      BY HostType, ByRegisterPiece DEF HostNames
    <3> QED
      BY <3>1, AfterSitePiece DEF Piece
  <2>2. /\ GoOn(FALSE) /\ Op = I_CALLR
        /\ Write(OneRegister, wasted, code)
    BY <1>11 DEF TranslateCallR
  <2> HIDE DEF code, wasted
  <2> QED
    BY <2>1, <2>2, OperandGoes
<1> QED
  BY <1>1, <1>2, <1>3, <1>4, <1>5, <1>6, <1>7, <1>8, <1>9, <1>10, <1>11 DEF Translate1

-----------------------------------------------------------------------------
(* The container of the translation is that of the generated code. *)

\* The entries e and m tell the same instructions apart, and those of e are at most n.
SameEntries(e, m, n) ==
    /\ Len(m) = Len(e)
    /\ \A j \in 1 .. Len(e) : e[j] \in 1 .. n
    /\ \A j, k \in 1 .. Len(e) : e[j] = e[k] <=> m[j] = m[k]

\* They still do after those of the next instruction, when its code is behind the others'.
LEMMA EntriesJoin ==
    ASSUME NEW n \in Nat, NEW p \in Int, NEW e \in Seq(Nat), NEW m \in Seq(Int),
           SameEntries(e, m, n), \A j \in 1 .. Len(m) : m[j] < p,
           NEW f \in Seq(Nat), \A w \in 1 .. Len(f) : f[w] = n + 1,
           NEW q \in Seq(Int), Len(q) = Len(f), \A w \in 1 .. Len(q) : q[w] = p
    PROVE  /\ SameEntries(e \o f, m \o q, n + 1)
           /\ \A j \in 1 .. Len(m \o q) : (m \o q)[j] <= p
<1>1. /\ Len(m) = Len(e) /\ Len(e) \in Nat /\ Len(f) \in Nat
      /\ \A j \in 1 .. Len(e) : e[j] \in Nat /\ 1 <= e[j] /\ e[j] <= n /\ m[j] \in Int /\ m[j] < p
      /\ \A j, k \in 1 .. Len(e) : e[j] = e[k] <=> m[j] = m[k]
  BY DEF SameEntries
<1> DEFINE E == e \o f
           M == m \o q
<1>2. Len(E) = Len(e) + Len(f) /\ Len(M) = Len(E)
  <2>1. Len(E) = Len(e) + Len(f)
    OBVIOUS
  <2>2. Len(M) = Len(m) + Len(q)
    BY ONLY m \in Seq(Int), q \in Seq(Int)
  <2> QED
    BY <1>1, <2>1, <2>2
<1>3. ASSUME NEW j \in 1 .. Len(E)
      PROVE  \/ j \in 1 .. Len(e) /\ E[j] = e[j] /\ M[j] = m[j]
             \/ j \notin 1 .. Len(e) /\ E[j] = n + 1 /\ M[j] = p
  <2>1. CASE j \in 1 .. Len(e)
    BY <1>1, <2>1
  <2>2. CASE j \notin 1 .. Len(e)
    <3>1. j - Len(e) \in 1 .. Len(f) /\ j > Len(e) /\ j \in 1 .. Len(e) + Len(f)
      BY <1>1, <1>2, <2>2
    <3>2. E[j] = f[j - Len(e)] /\ M[j] = q[j - Len(e)]
      BY <1>1, <3>1
    <3> QED
      BY <2>2, <3>1, <3>2
  <2> QED
    BY <2>1, <2>2
<1> HIDE DEF E, M
<1>4. ASSUME NEW j \in 1 .. Len(E)
      PROVE  E[j] \in 1 .. n + 1 /\ M[j] <= p
  <2>1. CASE j \in 1 .. Len(e) /\ E[j] = e[j] /\ M[j] = m[j]
    <3>1. e[j] \in Nat /\ 1 <= e[j] /\ e[j] <= n /\ m[j] \in Int /\ m[j] < p
      BY <1>1, <2>1
    <3> QED
      BY <2>1, <3>1
  <2>2. CASE E[j] = n + 1 /\ M[j] = p
    BY <2>2
  <2> QED
    BY <1>3, <2>1, <2>2
<1>5. ASSUME NEW j \in 1 .. Len(E), NEW k \in 1 .. Len(E)
      PROVE  E[j] = E[k] <=> M[j] = M[k]
  <2>1. CASE j \in 1 .. Len(e) /\ k \in 1 .. Len(e)
    BY <1>1, <1>3, <2>1
  <2>2. CASE j \in 1 .. Len(e) /\ k \notin 1 .. Len(e)
    <3>1. E[j] <= n /\ E[j] \in Nat /\ E[k] = n + 1 /\ M[j] < p /\ M[k] = p /\ M[j] \in Int
      BY <1>1, <1>3, <2>2
    <3> QED
      BY <3>1
  <2>3. CASE j \notin 1 .. Len(e) /\ k \in 1 .. Len(e)
    <3>1. E[k] <= n /\ E[k] \in Nat /\ E[j] = n + 1 /\ M[k] < p /\ M[j] = p /\ M[k] \in Int
      BY <1>1, <1>3, <2>3
    <3> QED
      BY <3>1
  <2>4. CASE j \notin 1 .. Len(e) /\ k \notin 1 .. Len(e)
    BY <1>3, <2>4
  <2> QED
    BY <2>1, <2>2, <2>3, <2>4
<1>6. SameEntries(E, M, n + 1)
  BY <1>2, <1>4, <1>5 DEF SameEntries
<1> QED
  BY <1>2, <1>4, <1>6 DEF E, M

\* The loop is where Fetches says, and has not come to an instruction that ends the function
\* before it has.
LoopInv ==
    /\ phase \in {"prologue", "translating"} =>
          /\ pc = Fetches(program, address)[count]
          /\ \A k \in 0 .. count - 1 : ~EndsAt(program, address, k)
    /\ phase \in {"epilogue", "linking", "ready"} =>
          /\ count > 0 /\ EndsAt(program, address, count - 1)
          /\ \A k \in 0 .. count - 2 : ~EndsAt(program, address, k)

ContainerInv ==
    /\ SameEntries(Entries(program, address)[count], instr_mapping, count)
    /\ phase \in {"prologue", "translating"} =>
          \A j \in 1 .. Len(instr_mapping) : instr_mapping[j] < gen_ptr

\* What an instruction does to both.
LEMMA LoopStep ==
    ASSUME CodeInv, LoopInv, Goes
    PROVE  LoopInv'
<1>1. /\ address \in Word /\ IsMemory(program) /\ count \in Nat
      /\ phase = "translating" /\ count' = count + 1 /\ program' = program /\ address' = address
  BY DEF CodeInv, CodeInside, CodeBounded, Goes, parameters
<1>2. PICK g \in [Nat -> Word] :
          /\ g = Fetches(program, address)
          /\ \A n \in Nat : g[n + 1] = Wrap(g[n] + SizeAt(program, g[n]))
  BY <1>1, FetchesStep
<1>3. pc = g[count] /\ \A k \in 0 .. count - 1 : ~EndsAt(program, address, k)
  BY <1>1, <1>2 DEF LoopInv
<1>4. Op = Peek(program, pc)
  BY <1>1, OpcodeAt DEF Op, Instr
<1>5. EndsAt(program, address, count) <=> EndsFunction(Op)
  BY <1>2, <1>3, <1>4 DEF EndsAt
<1>6. CASE phase' = "translating" /\ ~EndsFunction(Op) /\ pc' = After
  <2>1. pc' = g[count + 1]
    BY <1>1, <1>2, <1>3, <1>6 DEF After
  <2>2. \A k \in 0 .. (count + 1) - 1 : k \in 0 .. count - 1 \/ k = count
    BY <1>1
  <2>3. \A k \in 0 .. (count + 1) - 1 : ~EndsAt(program, address, k)
    BY <1>3, <1>5, <1>6, <2>2
  <2> QED
    BY <1>1, <1>2, <1>6, <2>1, <2>3 DEF LoopInv
<1>7. CASE phase' = "epilogue" /\ EndsFunction(Op)
  <2>1. count + 1 > 0 /\ (count + 1) - 1 = count /\ (count + 1) - 2 = count - 1
    BY <1>1
  <2> QED
    BY <1>1, <1>3, <1>5, <1>7, <2>1 DEF LoopInv
<1> QED
  BY <1>6, <1>7 DEF Goes

\* The entries of the next instruction join those of the others in both containers.
LEMMA ContainerStep ==
    ASSUME CodeInv, CodeInv', LoopInv, ContainerInv, Goes
    PROVE  ContainerInv'
<1>1. /\ address \in Word /\ IsMemory(program) /\ count \in Nat
      /\ phase = "translating" /\ count' = count + 1 /\ program' = program /\ address' = address
  BY DEF CodeInv, CodeInside, CodeBounded, Goes, parameters
<1>2. pc = Fetches(program, address)[count]
  BY <1>1 DEF LoopInv
<1> DEFINE e == Entries(program, address)[count]
           f == EntriesFor(program, address, count + 1)
           q == IF XIS_NUM_OPS(Op) = XIS_EXTENDED THEN <<gen_ptr, gen_ptr>> ELSE <<gen_ptr>>
<1>3. gen_ptr \in Int /\ instr_mapping \in Seq(Int)
  <2>1. gen_ptr \in Nat /\ instr_mapping \in Seq(0 .. gen_ptr)
    BY DEF CodeInv, CodeInside
  <2>2. 0 .. gen_ptr \subseteq Int
    OBVIOUS
  <2> QED
    BY <2>1, <2>2
<1>4. e \in Seq(Nat) /\ Entries(program, address)[count + 1] = e \o f
  BY <1>1, EntriesStep
<1>5. /\ f \in Seq(Nat) /\ \A w \in 1 .. Len(f) : f[w] = count + 1
      /\ Len(f) = IF XIS_NUM_OPS(Op) = XIS_EXTENDED THEN 2 ELSE 1
  <2>1. count + 1 \in Nat /\ (count + 1) - 1 = count
    BY <1>1
  <2>2. Words(TranslatedAt(program, address, count)) =
            IF XIS_NUM_OPS(Op) = XIS_EXTENDED THEN 2 ELSE 1
    BY <1>2 DEF Words, TranslatedAt, Translated, Op, Instr
  <2> QED
    BY <2>1, <2>2, EntriesForType
<1>6. q \in Seq(Int) /\ Len(q) = Len(f) /\ \A w \in 1 .. Len(q) : q[w] = gen_ptr
  BY <1>3, <1>5
<1>7. instr_mapping' = instr_mapping \o q
  BY DEF Goes, Push
<1>8. /\ SameEntries(e, instr_mapping, count)
      /\ \A j \in 1 .. Len(instr_mapping) : instr_mapping[j] < gen_ptr
  BY <1>1 DEF ContainerInv
<1> HIDE DEF e, f, q
<1>9. /\ SameEntries(e \o f, instr_mapping \o q, count + 1)
      /\ \A j \in 1 .. Len(instr_mapping \o q) : (instr_mapping \o q)[j] <= gen_ptr
  BY <1>1, <1>3, <1>4, <1>5, <1>6, <1>8, EntriesJoin
<1>10. SameEntries(Entries(program', address')[count'], instr_mapping', count')
  BY <1>1, <1>4, <1>7, <1>9
<1>11. ASSUME phase' \in {"prologue", "translating"}, NEW j \in 1 .. Len(instr_mapping')
       PROVE  instr_mapping'[j] < gen_ptr'
  <2>1. gen_ptr' > gen_ptr
    BY <1>11 DEF Goes
  <2>2. instr_mapping'[j] <= gen_ptr
    BY <1>7, <1>9
  <2>3. gen_ptr' \in Int /\ instr_mapping'[j] \in Int
    <3>1. instr_mapping \o q \in Seq(Int)
      BY <1>3, <1>6
    <3>2. gen_ptr' \in Int
      BY DEF CodeInv, CodeInside
    <3> QED
      BY <1>7, <3>1, <3>2
  <2> QED
    BY <1>3, <2>1, <2>2, <2>3
<1> QED
  BY <1>10, <1>11 DEF ContainerInv

-----------------------------------------------------------------------------
(* The size of a conditional block, to the byte. *)
In(S, i) == IF i \in S THEN 1 ELSE 0

\* One more slot.
LEMMA CountNext ==
    ASSUME NEW S, IsFiniteSet(S), NEW k \in Nat
    PROVE  /\ Cardinality(S \cap 0 .. k) = Cardinality(S \cap 0 .. k - 1) + In(S, k)
           /\ Cardinality(S \cap 0 .. k - 1) \in Nat
<1> DEFINE T == S \cap 0 .. k - 1
<1>1. IsFiniteSet(T) /\ k \notin T
  <2>1. T \in SUBSET S
    OBVIOUS
  <2> QED
    BY <2>1, FS_Subset
<1>2. S \cap 0 .. k = IF k \in S THEN T \cup {k} ELSE T
  OBVIOUS
<1> HIDE DEF T
<1>3. Cardinality(T \cup {k}) = Cardinality(T) + 1 /\ Cardinality(T) \in Nat
  BY <1>1, FS_AddElement, FS_CardinalityType
<1>4. Cardinality(S \cap 0 .. k) = Cardinality(T) + In(S, k)
  <2>1. CASE k \in S
    <3>1. Cardinality(S \cap 0 .. k) = Cardinality(T) + 1
      BY <1>2, <1>3, <2>1
    <3> QED
      BY <2>1, <3>1 DEF In
  <2>2. CASE k \notin S
    <3>1. Cardinality(S \cap 0 .. k) = Cardinality(T) /\ In(S, k) = 0
      BY <1>2, <2>2 DEF In
    <3> QED
      BY <1>3, <3>1
  <2> QED
    BY <2>1, <2>2
<1> QED
  BY <1>3, <1>4 DEF T

\* The slots in a set, one by one.
LEMMA CountSlots ==
    ASSUME NEW S \in SUBSET Slot
    PROVE  /\ Cardinality(S \cap CallerSaved) = In(S, 0) + In(S, 1) + In(S, 2) + In(S, 3)
           /\ Cardinality(S) = In(S, 0) + In(S, 1) + In(S, 2) + In(S, 3) + In(S, 4) + In(S, 5)
                               + In(S, 6)
<1>1. IsFiniteSet(S)
  <2>1. IsFiniteSet(Slot)
    <3>1. 0 \in Int /\ 6 \in Int
      OBVIOUS
    <3> QED
      BY <3>1, FS_Interval DEF Slot
  <2> QED
    BY <2>1, FS_Subset
<1> DEFINE C(k) == Cardinality(S \cap 0 .. k)
<1>2. \A k \in Nat : C(k) = C(k - 1) + In(S, k) /\ C(k - 1) \in Nat
  BY <1>1, CountNext
<1>3. C(0 - 1) = 0
  <2>1. S \cap 0 .. (0 - 1) = {}
    OBVIOUS
  <2> QED
    BY <2>1, FS_EmptySet
<1>4. S \cap CallerSaved = S \cap 0 .. 3 /\ S = S \cap 0 .. 6
  BY DEF CallerSaved, Slot
<1>5. \A k \in Nat : In(S, k) \in {0, 1}
  BY DEF In
<1> HIDE DEF C
<1>6. C(0) = In(S, 0)
  BY <1>2, <1>3, <1>5
<1>7. C(1) = C(0) + In(S, 1) /\ C(2) = C(1) + In(S, 2) /\ C(3) = C(2) + In(S, 3)
  <2>1. C(1) = C(1 - 1) + In(S, 1) /\ C(2) = C(2 - 1) + In(S, 2) /\ C(3) = C(3 - 1) + In(S, 3)
    BY <1>2
  <2> QED
    BY <2>1
<1>8. C(4) = C(3) + In(S, 4) /\ C(5) = C(4) + In(S, 5) /\ C(6) = C(5) + In(S, 6)
  <2>1. C(4) = C(4 - 1) + In(S, 4) /\ C(5) = C(5 - 1) + In(S, 5) /\ C(6) = C(6 - 1) + In(S, 6)
    BY <1>2
  <2> QED
    BY <2>1
<1>9. C(3) = In(S, 0) + In(S, 1) + In(S, 2) + In(S, 3)
  BY <1>6, <1>7
<1>10. C(6) = In(S, 0) + In(S, 1) + In(S, 2) + In(S, 3) + In(S, 4) + In(S, 5) + In(S, 6)
  BY <1>8, <1>9
<1> QED
  BY <1>4, <1>9, <1>10 DEF C

\* The slots that hold a guest register.
InUse == {i \in Slot : mapped[i] # Unused}

\* Eight bytes store the register of a slot in use, and eight load it.
LEMMA SlotLengths ==
    ASSUME NEW i \in Slot
    PROVE  /\ Piece(LoadSlot(i), 8 * In(InUse, i), 8 * In(InUse, i))
           /\ Piece(StoreSlot(i), 8 * In(InUse, i), 8 * In(InUse, i))
<1>1. Piece(Imm32(2 * mapped[i]), 4, 4)
  BY SlotPiece
<1>2. 8 + i \in Reg
  BY DEF Slot, Reg
<1>3. Piece(x64_map_movzx_indirect2reg(8 + i, CPU_STATE_REG, 2 * mapped[i]), 8, 8)
      /\ Piece(x64_map_mov_reg2indirect(8 + i, CPU_STATE_REG, 2 * mapped[i]), 8, 8)
  BY <1>1, <1>2, MovePieces, Named
<1>4. Piece(<<>>, 0, 0)
  BY FixedPieces
<1>5. CASE mapped[i] = Unused
  <2>1. In(InUse, i) = 0 /\ LoadSlot(i) = <<>> /\ StoreSlot(i) = <<>>
    BY <1>5 DEF In, InUse, LoadSlot, StoreSlot
  <2> QED
    BY <1>4, <2>1
<1>6. CASE mapped[i] # Unused
  <2>1. /\ In(InUse, i) = 1
        /\ LoadSlot(i) = x64_map_movzx_indirect2reg(8 + i, CPU_STATE_REG, 2 * mapped[i])
        /\ StoreSlot(i) = x64_map_mov_reg2indirect(8 + i, CPU_STATE_REG, 2 * mapped[i])
    BY <1>6 DEF In, InUse, LoadSlot, StoreSlot, STORE_ALWAYS
  <2> QED
    BY <1>3, <2>1
<1> QED
  BY <1>5, <1>6

\* The length of two pieces whose lengths are known.
LEMMA JoinedLength ==
    ASSUME NEW s, NEW t, NEW a \in Int, NEW b \in Int, Piece(s, a, a), Piece(t, b, b)
    PROVE  Piece(s \o t, a + b, a + b)
BY DEF Piece

SavedBytes == 8 * Cardinality(InUse \cap CallerSaved)
AllBytes   == 8 * Cardinality(InUse)

\* The bytes that load the caller-saved registers and those that store them all.
LEMMA TableLengths ==
    /\ SavedBytes \in Int /\ AllBytes \in Int
    /\ Piece(LoadSaved, SavedBytes, SavedBytes) /\ Piece(StoreAll, AllBytes, AllBytes)
<1> DEFINE n(i) == 8 * In(InUse, i)
<1>1. \A i \in Slot : /\ n(i) \in Int /\ Piece(LoadSlot(i), n(i), n(i))
                      /\ Piece(StoreSlot(i), n(i), n(i))
  <2>1. \A i \in Slot : n(i) \in Int
    BY DEF In
  <2> QED
    BY <2>1, SlotLengths
<1>2. /\ 0 \in Slot /\ 1 \in Slot /\ 2 \in Slot /\ 3 \in Slot
      /\ 4 \in Slot /\ 5 \in Slot /\ 6 \in Slot
  BY DEF Slot
<1>3. /\ SavedBytes = n(0) + n(1) + n(2) + n(3)
      /\ AllBytes = n(0) + n(1) + n(2) + n(3) + n(4) + n(5) + n(6)
  <2>1. \A i \in Slot : In(InUse, i) \in Int
    BY DEF In
  <2>2. InUse \in SUBSET Slot
    BY DEF InUse
  <2>3. /\ Cardinality(InUse \cap CallerSaved) =
              In(InUse, 0) + In(InUse, 1) + In(InUse, 2) + In(InUse, 3)
        /\ Cardinality(InUse) = In(InUse, 0) + In(InUse, 1) + In(InUse, 2) + In(InUse, 3)
                                + In(InUse, 4) + In(InUse, 5) + In(InUse, 6)
    BY <2>2, CountSlots
  <2>4. PICK a \in Int, b \in Int, c \in Int, d \in Int, e \in Int, f \in Int, g \in Int :
           /\ a = In(InUse, 0) /\ b = In(InUse, 1) /\ c = In(InUse, 2) /\ d = In(InUse, 3)
           /\ e = In(InUse, 4) /\ f = In(InUse, 5) /\ g = In(InUse, 6)
    BY <1>2, <2>1
  <2>5. SavedBytes = 8 * (a + b + c + d) /\ AllBytes = 8 * (a + b + c + d + e + f + g)
    BY <2>3, <2>4 DEF SavedBytes, AllBytes
  <2>6. /\ n(0) = 8 * a /\ n(1) = 8 * b /\ n(2) = 8 * c /\ n(3) = 8 * d /\ n(4) = 8 * e
        /\ n(5) = 8 * f /\ n(6) = 8 * g
    BY <2>4
  <2> HIDE DEF n
  <2> QED
    BY <2>5, <2>6
<1> HIDE DEF n
<1>4. Piece(LoadSlot(0) \o LoadSlot(1) \o LoadSlot(2) \o LoadSlot(3),
            n(0) + n(1) + n(2) + n(3), n(0) + n(1) + n(2) + n(3))
  <2>1. Piece(LoadSlot(0) \o LoadSlot(1), n(0) + n(1), n(0) + n(1))
    BY <1>1, <1>2, JoinedLength
  <2>2. Piece(LoadSlot(0) \o LoadSlot(1) \o LoadSlot(2), n(0) + n(1) + n(2), n(0) + n(1) + n(2))
    BY <1>1, <1>2, <2>1, JoinedLength
  <2> QED
    BY <1>1, <1>2, <2>2, JoinedLength
<1>5. Piece(StoreSlot(0) \o StoreSlot(1) \o StoreSlot(2) \o StoreSlot(3),
            n(0) + n(1) + n(2) + n(3), n(0) + n(1) + n(2) + n(3))
  <2>1. Piece(StoreSlot(0) \o StoreSlot(1), n(0) + n(1), n(0) + n(1))
    BY <1>1, <1>2, JoinedLength
  <2>2. Piece(StoreSlot(0) \o StoreSlot(1) \o StoreSlot(2), n(0) + n(1) + n(2), n(0) + n(1) + n(2))
    BY <1>1, <1>2, <2>1, JoinedLength
  <2> QED
    BY <1>1, <1>2, <2>2, JoinedLength
<1>6. Piece(StoreSlot(4) \o StoreSlot(5) \o StoreSlot(6), n(4) + n(5) + n(6), n(4) + n(5) + n(6))
  <2>1. Piece(StoreSlot(4) \o StoreSlot(5), n(4) + n(5), n(4) + n(5))
    BY <1>1, <1>2, JoinedLength
  <2> QED
    BY <1>1, <1>2, <2>1, JoinedLength
<1>7. LoadSaved = LoadSlot(0) \o LoadSlot(1) \o LoadSlot(2) \o LoadSlot(3) \o <<>>
  BY DEF LoadSaved, load_virtual_registers
<1>8. StoreAll = StoreSlot(0) \o StoreSlot(1) \o StoreSlot(2) \o StoreSlot(3)
                 \o (StoreSlot(4) \o StoreSlot(5) \o StoreSlot(6))
  BY DEF StoreAll, store_mapped_virtual_registers
<1>9. SavedBytes \in Int /\ AllBytes \in Int
  BY <1>1, <1>2, <1>3
<1>10. Piece(LoadSaved, SavedBytes, SavedBytes)
  <2>1. Piece(<<>>, 0, 0)
    BY FixedPieces
  <2>2. SavedBytes + 0 = SavedBytes
    BY <1>9
  <2> DEFINE none == <<>>
  <2>3. /\ LoadSaved = LoadSlot(0) \o LoadSlot(1) \o LoadSlot(2) \o LoadSlot(3) \o none
        /\ Piece(none, 0, 0)
    BY <1>7, <2>1
  <2> HIDE DEF none
  <2> QED
    BY <1>3, <1>4, <1>9, <2>2, <2>3, JoinedLength
<1>11. Piece(StoreAll, AllBytes, AllBytes)
  <2> DEFINE a == n(0) + n(1) + n(2) + n(3)
             b == n(4) + n(5) + n(6)
  <2>1. AllBytes = a + b /\ a \in Int /\ b \in Int
    BY <1>1, <1>2, <1>3
  <2>2. Piece(StoreAll, a + b, a + b)
    <3>1. a \in Int /\ b \in Int
      BY <2>1
    <3> HIDE DEF a, b
    <3> QED
      BY <1>5, <1>6, <1>8, <3>1, JoinedLength DEF a, b
  <2> QED
    BY <2>1, <2>2
<1> QED
  BY <1>9, <1>10, <1>11

\* The length of two sequences of numbers.
LEMMA JoinedSize ==
    ASSUME NEW s \in Seq(Int), NEW t \in Seq(Int)
    PROVE  s \o t \in Seq(Int) /\ Len(s \o t) = Len(s) + Len(t)
OBVIOUS

\* Neither RBX nor RAX needs a prefix.
LEMMA ShortPieces ==
    ASSUME NEW to \in Int
    PROVE  Piece(SetPc(to), 6, 6) /\ Piece(x64_map_absolute_jmp(RAX), 2, 2)
<1>1. OptionalREX(0, CPU_STATE_REG) = <<>> /\ OptionalREX(0, RAX) = <<>>
  BY DEF OptionalREX, CPU_STATE_REG, RBX, RAX
<1>2. Piece(SetPc(to), 6, 7) /\ Piece(x64_map_absolute_jmp(RAX), 2, 3)
  <2>1. Host.putchar \in Nat
    BY HostType DEF HostNames
  <2> QED
    BY <2>1, CallPieces, FlowPieces, Named
<1> DEFINE rest == <<199, MODRM(1, 0, CPU_STATE_REG), 2 * PC_INDEX>>
           jmp == <<255, 224 + (RAX % 8)>>
           none == <<>>
           imm == Imm16(to)
<1>3. Len(imm) = 2 /\ Len(rest) = 3 /\ Len(jmp) = 2 /\ Len(none) = 0 /\ Len(OPERAND16) = 1
  BY DEF Imm16, OPERAND16
<1>4. /\ rest \in Seq(Int) /\ jmp \in Seq(Int) /\ none \in Seq(Int) /\ imm \in Seq(Int)
      /\ OPERAND16 \in Seq(Int)
  <2>1. MODRM(1, 0, CPU_STATE_REG) \in Int /\ 2 * PC_INDEX \in Int /\ 224 + (RAX % 8) \in Int
    BY DEF MODRM, CPU_STATE_REG, RBX, PC_INDEX, RAX
  <2>2. to % 256 \in Int /\ (to \div 256) % 256 \in Int
    OBVIOUS
  <2> QED
    BY <2>1, <2>2 DEF Imm16, OPERAND16
<1>5. SetPc(to) = OPERAND16 \o none \o rest \o imm /\ x64_map_absolute_jmp(RAX) = none \o jmp
  BY <1>1 DEF SetPc, x64_map_mov_imm2indirect, x64_map_absolute_jmp
<1> HIDE DEF rest, jmp, none, imm
<1>6. Len(SetPc(to)) = 6 /\ Len(x64_map_absolute_jmp(RAX)) = 2
  <2>1. Len(none \o jmp) = 2
    BY <1>3, <1>4
  <2>2. Len(OPERAND16 \o none \o rest \o imm) = 6
    <3>1. OPERAND16 \o none \in Seq(Int) /\ Len(OPERAND16 \o none) = Len(OPERAND16) + Len(none)
      BY <1>4, JoinedSize
    <3>2. /\ OPERAND16 \o none \o rest \in Seq(Int)
          /\ Len(OPERAND16 \o none \o rest) = Len(OPERAND16 \o none) + Len(rest)
      BY <1>4, <3>1, JoinedSize
    <3>3. Len(OPERAND16 \o none \o rest \o imm) = Len(OPERAND16 \o none \o rest) + Len(imm)
      BY <1>4, <3>2, JoinedSize
    <3> QED
      BY <1>3, <3>1, <3>2, <3>3
  <2> QED
    BY <1>5, <2>1, <2>2
<1> QED
  BY <1>2, <1>6 DEF Piece

\* The block that a branch jumps over.
LEMMA BlockLength ==
    ASSUME target \in Int
    PROVE  Len(ConditionalBlock) = 43 + AllBytes + SavedBytes /\ ConditionalBlock \in Seq(CodeBytes)
<1> DEFINE jump == CallRuntime(Host.jump_dynamic, target)
           base == x64_map_move_imm2reg(VMEM_BASE_REG, Host.program)
           set == SetPc(target)
           jmp == x64_map_absolute_jmp(RAX)
<1>1. ConditionalBlock = StoreAll \o set \o jump \o LoadSaved \o base \o jmp
  BY DEF ConditionalBlock, StoreAll, LoadSaved
<1>2. Host.jump_dynamic \in Nat /\ Host.program \in Nat
  BY HostType DEF HostNames
<1>3. Piece(jump, 25, 25) /\ Piece(set, 6, 6) /\ Piece(jmp, 2, 2)
  BY <1>2, CallPieces, ShortPieces
<1>4. Piece(Imm32(0), 4, 4)
  BY Imm32Piece
<1>5. Piece(base, 10, 10)
  BY <1>2, <1>4, MovePieces, Named
<1> HIDE DEF jump, base, set, jmp
<1>6. PICK a \in Int, s \in Int : /\ a = AllBytes /\ s = SavedBytes
                                  /\ Piece(StoreAll, a, a) /\ Piece(LoadSaved, s, s)
  BY TableLengths
<1>7. Piece(StoreAll \o set \o jump, a + 6 + 25, a + 6 + 25)
  <2>1. Piece(StoreAll \o set, a + 6, a + 6)
    BY <1>3, <1>6, JoinedLength
  <2> QED
    BY <1>3, <2>1, JoinedLength
<1>8. Piece(StoreAll \o set \o jump \o LoadSaved, a + 6 + 25 + s, a + 6 + 25 + s)
  BY <1>6, <1>7, JoinedLength
<1>9. Piece(StoreAll \o set \o jump \o LoadSaved \o base \o jmp,
            a + 6 + 25 + s + 10 + 2, a + 6 + 25 + s + 10 + 2)
  <2>1. Piece(StoreAll \o set \o jump \o LoadSaved \o base, a + 6 + 25 + s + 10,
              a + 6 + 25 + s + 10)
    BY <1>5, <1>8, JoinedLength
  <2> QED
    BY <1>3, <2>1, JoinedLength
<1>10. PICK n \in Int : n = a + 6 + 25 + s + 10 + 2 /\ n = 43 + AllBytes + SavedBytes
  BY <1>6
<1>11. Piece(ConditionalBlock, n, n)
  BY <1>1, <1>9, <1>10
<1>12. Len(ConditionalBlock) = n /\ ConditionalBlock \in Seq(CodeBytes)
  BY <1>11 DEF Piece
<1> QED
  BY <1>10, <1>12

\* The code of a branch: the test of the flag, the jz and the block.
LEMMA BranchLength ==
    ASSUME target \in Int
    PROVE  Len(Branch) = Len(TestFlag) + 2 + (43 + AllBytes + SavedBytes)
<1> DEFINE skip == x64_map_jz_rel8(Len(ConditionalBlock))
<1>1. Len(ConditionalBlock) = 43 + AllBytes + SavedBytes /\ ConditionalBlock \in Seq(CodeBytes)
  BY BlockLength
<1>2. Piece(skip, 2, 2)
  <2>1. Len(ConditionalBlock) \in Int
    BY <1>1, TableLengths
  <2> QED
    BY <2>1, RelativePieces
<1>3. Branch = TestFlag \o skip \o ConditionalBlock
  BY DEF Branch
<1> HIDE DEF skip
<1>4. Len(TestFlag \o skip \o ConditionalBlock) = Len(TestFlag) + 2 + Len(ConditionalBlock)
  BY <1>1, <1>2, TestFlagPiece DEF Piece
<1> QED
  BY <1>1, <1>3, <1>4

\* The registers that SolveRegion maps are in the table.
TableIs == mapped = TableOf(SolveRegion(program, address))

\* It is the size that decides in JitCode whether the jz reaches over the block.
LEMMA BlockSize ==
    ASSUME TableIs, IsMemory(program), address \in Word
    PROVE  CondBlockSize(Prepare(program, address)) = 43 + AllBytes + SavedBytes
<1> DEFINE f == Prepare(program, address)
<1>1. f.order = SolveRegion(program, address) /\ IsOrder(f.order)
  <2>1. address \in Nat
    BY InWord
  <2> QED
    BY <2>1, SolveRegionType DEF Prepare
<1>2. \A i \in Slot : RegIn(f, i) = mapped[i]
  BY <1>1 DEF RegIn, TableIs
<1> HIDE DEF f
<1>3. /\ MappedSlots(f) \subseteq Slot
      /\ \A i \in Slot : RegIn(f, i) = Unused <=> i \notin MappedSlots(f)
  BY <1>1, TableSlots
<1>4. MappedSlots(f) = InUse
  BY <1>2, <1>3 DEF InUse
<1> QED
  BY <1>4 DEF CondBlockSize, AllBytes, SavedBytes, f

\* The length of the code of every branch.
BranchSize == Len(TestFlag) + 2 + CondBlockSize(Prepare(program, address))

SizedRequests ==
    {r \in LinkRequests : r.type = "LINK_BRANCH_REL" => r.length = BranchSize}

RequestInv == link_requests \in Seq(SizedRequests)

MatchInv == CodeInv /\ TableIs /\ LoopInv /\ ContainerInv /\ RequestInv

\* That size depends on the guest code alone.
LEMMA SameRequests ==
    ASSUME program' = program, address' = address
    PROVE  SizedRequests' = SizedRequests
BY DEF SizedRequests, BranchSize, LinkRequests

\* The request of a jr or br has the length of its code.
LEMMA NewRequest ==
    ASSUME CodeInv, TableIs, RequestInv,
           NEW type \in {"LINK_JUMP_REL", "LINK_BRANCH_REL"}, NEW code,
           Piece(code, 5, 148), type = "LINK_BRANCH_REL" => Len(code) = Len(Branch),
           Op \in {I_JR, I_BR}, Requests(type, OneRegister, code), UNCHANGED parameters
    PROVE  RequestInv'
<1>1. IsMemory(program) /\ address \in Word /\ gen_ptr \in Nat
  BY DEF CodeInv, CodeInside
<1>2. program' = program /\ address' = address
  BY DEF parameters
<1>3. target \in Word /\ target \in Int
  BY Operands
<1>4. Len(Branch) = BranchSize
  BY <1>1, <1>3, BranchLength, BlockSize DEF BranchSize
<1> DEFINE req == [type |-> type, from |-> gen_ptr + Len(OneRegister), target |-> target,
                   length |-> Len(code)]
<1>5. req \in LinkRequests
  <2>1. Len(code) \in Nat
    BY DEF Piece
  <2>2. Piece(OneRegister, 0, 8)
    BY Operands, OperandPiece
  <2>3. gen_ptr + Len(OneRegister) \in Nat
    BY <1>1, <2>2 DEF Piece
  <2> QED
    BY <1>3, <2>1, <2>3 DEF LinkRequests
<1>6. req \in SizedRequests
  BY <1>4, <1>5 DEF SizedRequests
<1>7. link_requests' = <<req>> \o link_requests
  BY DEF Requests
<1> HIDE DEF req
<1>8. link_requests' \in Seq(SizedRequests)
  BY <1>6, <1>7 DEF RequestInv
<1> QED
  BY <1>2, <1>8, SameRequests DEF RequestInv

\* The other instructions make none.
LEMMA RequestsStep ==
    ASSUME CodeInv, TableIs, RequestInv, Translate1, UNCHANGED parameters
    PROVE  RequestInv'
<1>1. CASE TranslateJr
  <2>1. /\ Requests("LINK_JUMP_REL", OneRegister, JumpRelative) /\ Op \in {I_JR, I_BR}
    BY <1>1 DEF TranslateJr
  <2>2. Piece(JumpRelative, 5, 148)
    BY Operands, JumpRelativePiece, Widened
  <2> QED
    BY <2>1, <2>2, NewRequest
<1>2. CASE TranslateBr
  <2>1. /\ Requests("LINK_BRANCH_REL", OneRegister, Branch) /\ Op \in {I_JR, I_BR}
    BY <1>2 DEF TranslateBr
  <2>2. Piece(Branch, 5, 148)
    BY Operands, BranchPiece, Widened
  <2> QED
    BY <2>1, <2>2, NewRequest
<1>3. CASE link_requests' = link_requests
  <2>1. program' = program /\ address' = address
    BY DEF parameters
  <2> QED
    BY <1>3, <2>1, SameRequests DEF RequestInv
<1> QED
  BY <1>1, <1>2, <1>3 DEF Translate1, TranslateStraight, TranslateJmp, TranslateCall,
     TranslateRecursion, TranslateRet, TranslatePanic, TranslateJmpR, TranslateCallR,
     TranslateInvalid

\* jit_prepare starts with an empty container and no request.
LEMMA MatchStart == EmitInit => MatchInv
<1> SUFFICES ASSUME EmitInit
             PROVE  MatchInv
  OBVIOUS
<1>1. CodeInv /\ TableIs
  BY CodeStart DEF EmitInit, TableIs
<1>2. /\ count = 0 /\ phase = "prologue" /\ pc = address /\ instr_mapping = <<>>
      /\ link_requests = <<>>
  BY DEF EmitInit
<1>3. IsMemory(program) /\ address \in Word
  BY <1>1 DEF CodeInv, CodeInside
<1>4. LoopInv
  <2>1. Fetches(program, address)[0] = address
    BY <1>3, FetchesStep
  <2> QED
    BY <1>2, <2>1 DEF LoopInv
<1>5. ContainerInv
  <2>1. Entries(program, address)[0] = <<>>
    BY EntriesStep
  <2> QED
    BY <1>2, <2>1 DEF ContainerInv, SameEntries
<1>6. RequestInv
  BY <1>2 DEF RequestInv
<1> QED
  BY <1>1, <1>4, <1>5, <1>6 DEF MatchInv

\* What every step but that of an instruction leaves alone.
LEMMA QuietStep ==
    ASSUME MatchInv, CodeInv', UNCHANGED <<parameters, instr_mapping, count>>,
           \/ UNCHANGED <<phase, pc, gen_ptr>>
           \/ phase = "prologue" /\ phase' = "translating" /\ UNCHANGED pc
           \/ phase = "epilogue" /\ phase' = "linking"
           \/ phase = "linking" /\ phase' \in {"linking", "ready"}
           \/ phase = "ready" /\ phase' = "ready",
           link_requests' \in Seq(SizedRequests)
    PROVE  MatchInv'
<1>1. program' = program /\ address' = address /\ mapped' = mapped
  BY DEF parameters
<1>2. TableIs'
  BY <1>1 DEF TableIs, MatchInv
<1>3. LoopInv'
  BY <1>1 DEF LoopInv, MatchInv
<1>4. ContainerInv'
  <2>1. SameEntries(Entries(program', address')[count'], instr_mapping', count')
    BY <1>1 DEF ContainerInv, MatchInv
  <2>2. ASSUME phase' \in {"prologue", "translating"}, NEW j \in 1 .. Len(instr_mapping')
        PROVE  instr_mapping'[j] < gen_ptr'
    <3>1. CASE UNCHANGED <<phase, pc, gen_ptr>>
      BY <2>2, <3>1 DEF ContainerInv, MatchInv
    <3>2. CASE phase = "prologue" /\ phase' = "translating"
      <4>1. count = 0 /\ address \in Word
        BY <3>2 DEF MatchInv, CodeInv, CodeBounded, CodeInside
      <4>2. Len(instr_mapping) = 0
        BY <4>1, EntriesStep DEF MatchInv, ContainerInv, SameEntries
      <4> QED
        BY <2>2, <4>2
    <3> QED
      BY <2>2, <3>1, <3>2
  <2> QED
    BY <2>1, <2>2 DEF ContainerInv
<1>5. RequestInv'
  BY <1>1, SameRequests DEF RequestInv
<1> QED
  BY <1>2, <1>3, <1>4, <1>5 DEF MatchInv

\* Every step keeps the invariant.
LEMMA MatchStep == MatchInv /\ [EmitNext]_emitVars => MatchInv'
<1> SUFFICES ASSUME MatchInv, [EmitNext]_emitVars
             PROVE  MatchInv'
  OBVIOUS
<1>1. CodeInv /\ CodeInv'
  BY CodeStep DEF MatchInv
<1>2. link_requests \in Seq(SizedRequests)
  BY DEF MatchInv, RequestInv
<1>3. CASE Translate1
  <2>1. Goes
    BY <1>1, <1>3, TranslateGoes
  <2>2. UNCHANGED parameters
    BY <2>1 DEF Goes
  <2>3. TableIs'
    BY <2>2 DEF TableIs, MatchInv, parameters
  <2> QED
    BY <1>1, <1>3, <2>1, <2>2, <2>3, LoopStep, ContainerStep, RequestsStep DEF MatchInv
<1>4. CASE Prologue
  BY <1>1, <1>2, <1>4, QuietStep DEF Prologue
<1>5. CASE Epilogue
  BY <1>1, <1>2, <1>5, QuietStep DEF Epilogue
<1>6. CASE LinkNext
  <2>1. Tail(link_requests) \in Seq(SizedRequests)
    BY <1>2, <1>6 DEF LinkNext
  <2> QED
    BY <1>1, <1>6, <2>1, QuietStep DEF LinkNext
<1>7. CASE Return
  BY <1>1, <1>2, <1>7, QuietStep DEF Return
<1>8. CASE CallStatic
  BY <1>1, <1>2, <1>8, QuietStep DEF CallStatic
<1>9. CASE UNCHANGED emitVars
  BY <1>1, <1>2, <1>9, QuietStep DEF emitVars
<1> QED
  BY <1>3, <1>4, <1>5, <1>6, <1>7, <1>8, <1>9 DEF EmitNext, Finished

\* Once the loop has ended, Translate is the list of the instructions it came to, since the
\* first that ends the function is the last one.
LEMMA MatchInside == MatchInv => MatchesJitCode
<1> SUFFICES ASSUME MatchInv, phase = "linking"
             PROVE  \A f \in {Prepare(program, address)} : \A entries \in {ContainerOf(f)} :
                      /\ Len(f.code) = count
                      /\ DOMAIN entries = DOMAIN instr_mapping
                      /\ \A j, k \in DOMAIN entries :
                            entries[j] = entries[k] <=> instr_mapping[j] = instr_mapping[k]
                      /\ \A k \in DOMAIN link_requests :
                            link_requests[k].type = "LINK_BRANCH_REL" =>
                                link_requests[k].length = Len(TestFlag) + 2 + CondBlockSize(f)
  BY DEF MatchesJitCode
<1> DEFINE f == Prepare(program, address)
<1>1. address \in Word /\ count \in Nat /\ \E S : instr_mapping \in Seq(S)
  BY DEF MatchInv, CodeInv, CodeInside, CodeBounded
<1>2. /\ count > 0 /\ EndsAt(program, address, count - 1)
      /\ \A k \in 0 .. count - 2 : ~EndsAt(program, address, k)
  BY DEF MatchInv, LoopInv
<1>3. f.code = [i \in 1 .. count |-> TranslatedAt(program, address, i - 1)]
  <2>1. PICK n \in Nat : n = count - 1 /\ n + 1 = count /\ n - 1 = count - 2
    BY <1>1, <1>2
  <2>2. Translate(program, address) =
            [i \in 1 .. n + 1 |-> Translated(program, Fetches(program, address)[i - 1])]
    BY <1>1, <1>2, <2>1, TranslateIs
  <2> QED
    BY <2>1, <2>2 DEF Prepare, TranslatedAt
<1>4. Len(f.code) = count /\ \A k \in 1 .. count : f.code[k] = TranslatedAt(program, address, k - 1)
  <2> HIDE DEF f
  <2> QED
    BY <1>1, <1>3
<1>5. ContainerOf(f) = Entries(program, address)[count]
  <2> HIDE DEF f
  <2> QED
    BY <1>1, <1>4, ContainerIs
<1>6. SameEntries(Entries(program, address)[count], instr_mapping, count)
  BY DEF MatchInv, ContainerInv
<1>7. Entries(program, address)[count] \in Seq(Nat)
  BY <1>1, EntriesStep
<1>8. BranchSize = Len(TestFlag) + 2 + CondBlockSize(f)
  BY DEF BranchSize
<1> HIDE DEF f
<1>9. \A k \in DOMAIN link_requests :
         link_requests[k].type = "LINK_BRANCH_REL" => link_requests[k].length = BranchSize
  BY DEF MatchInv, RequestInv, SizedRequests
<1>10. /\ DOMAIN ContainerOf(f) = DOMAIN instr_mapping
       /\ \A j, k \in DOMAIN ContainerOf(f) :
             ContainerOf(f)[j] = ContainerOf(f)[k] <=> instr_mapping[j] = instr_mapping[k]
  <2>1. PICK e : e = ContainerOf(f)
    OBVIOUS
  <2>2. e \in Seq(Nat) /\ SameEntries(e, instr_mapping, count)
    BY <1>5, <1>6, <1>7, <2>1
  <2>3. DOMAIN e = 1 .. Len(e) /\ DOMAIN instr_mapping = 1 .. Len(e)
    BY <1>1, <2>2 DEF SameEntries
  <2> QED
    BY <2>1, <2>2, <2>3 DEF SameEntries
<1> QED
  BY <1>4, <1>8, <1>9, <1>10 DEF f

\* jit.h, linker.h: the translation that JitMachine executes agrees with the generated code.
THEOREM MatchesJitCodeSafe == EmitSpec => []MatchesJitCode
<1>1. EmitInit => MatchInv
  BY MatchStart
<1>2. MatchInv /\ [EmitNext]_emitVars => MatchInv'
  BY MatchStep
<1>3. MatchInv => MatchesJitCode
  BY MatchInside
<1> QED
  BY <1>1, <1>2, <1>3, PTL DEF EmitSpec
=============================================================================
