-------------------------------- MODULE X64 --------------------------------
(***************************************************************************)
(* x64_codegen.c: the encoders of x64 instructions that jit.c and linker.c *)
(* call.  The result of an encoder is the sequence of the bytes it writes; *)
(* the number it returns is their number.  Register numbers and bytes are  *)
(* those of the processor's manual; opcodes are in decimal.                *)
(***************************************************************************)
EXTENDS Integers, Sequences

RAX == 0
RCX == 1
RDX == 2
RBX == 3
RSP == 4
RBP == 5
RSI == 6
RDI == 7
AL  == 0

MODE_INC == 0
MODE_DEC == 1
MOV_SCALE_8  == 0
MOV_SCALE_16 == 1

NOP      == <<144>>
OPERAND16 == <<102>>           \* 66: 16 bit operands

-----------------------------------------------------------------------------
(* The parts of an instruction. *)
REXI(w, reg, index, rm) ==
    64 + 8 * w + 4 * ((reg \div 8) % 2) + 2 * ((index \div 8) % 2) + ((rm \div 8) % 2)
REX(w, reg, rm)      == REXI(w, reg, 0, rm)
MODRM(mode, reg, rm) == 64 * mode + 8 * (reg % 8) + (rm % 8)
SIB(scale, index, base) == MODRM(scale, index, base)

\* Mutant: the prefix is left out when only the second register needs it.
OptionalREX_First(reg, rm) == IF reg > 7 THEN <<REX(0, reg, rm)>> ELSE <<>>

\* The prefix is left out when no register needs it.
OptionalREX(reg, rm) == IF reg > 7 \/ rm > 7 THEN <<REX(0, reg, rm)>> ELSE <<>>

\* Little-endian numbers; those of 64 bits are below 2^31.
Imm16(v) == <<v % 256, (v \div 256) % 256>>

\* Mutant: a number is not cut into bytes.
Imm32_Wide(v) == <<v % 256, v \div 256, v \div 65536, v \div 16777216>>

Imm32(v) == <<v % 256, (v \div 256) % 256, (v \div 65536) % 256, (v \div 16777216) % 256>>

Imm64(v) == Imm32(v) \o <<0, 0, 0, 0>>

-----------------------------------------------------------------------------
(* Moves. *)
x64_map_mov_reg2reg(reg1, reg2) == <<REX(1, reg1, reg2), 137, MODRM(3, reg1, reg2)>>

x64_map_move_imm2reg(reg, imm) == <<REX(1, 0, reg), 184 + (reg % 8)>> \o Imm64(imm)

x64_map_movzx_indirect2reg(reg, base, offset) ==
    <<REX(1, reg, base), 15, 183, MODRM(2, reg, base)>> \o Imm32(offset)

x64_map_mov_indirect2reg64(target, source, offset) ==
    <<REX(1, target, source), 139, MODRM(2, target, source)>> \o Imm32(offset)

x64_map_mov_reg2indirect(source, target, offset) ==
    OPERAND16 \o <<REX(0, source, target), 137, MODRM(2, source, target)>> \o Imm32(offset)

x64_map_mov_reg2indirect64(source, target, offset) ==
    <<REX(1, source, target), 137, MODRM(2, source, target)>> \o Imm32(offset)

x64_map_mov_imm2indirect(value, target, offset) ==
    OPERAND16 \o OptionalREX(0, target) \o <<199, MODRM(1, 0, target), offset>> \o Imm16(value)

x64_map_mov_8_16_scaled2reg(reg, base, index, mode) ==
    (IF mode = MOV_SCALE_16 THEN OPERAND16 ELSE <<>>)
    \o <<REXI(0, reg, index, base), 15, IF mode = MOV_SCALE_16 THEN 183 ELSE 182,
         MODRM(1, reg, 4), SIB(0, index, base), 0>>

x64_map_mov_8_16_reg2scaled(reg, base, index, mode) ==
    (IF mode = MOV_SCALE_16 THEN OPERAND16 ELSE <<>>)
    \o <<REXI(0, reg, index, base), IF mode = MOV_SCALE_16 THEN 137 ELSE 136,
         MODRM(1, reg, 4), SIB(0, index, base), 0>>

-----------------------------------------------------------------------------
(* Arithmetic. *)
REG2REG_OP_16(opcode, reg, rm) ==
    OPERAND16 \o OptionalREX(reg, rm) \o <<opcode, MODRM(3, reg, rm)>>

\* An opcode whose operation is in the reg field.
ExtendedOp16(opcode, extension, rm) ==
    OPERAND16 \o OptionalREX(0, rm) \o <<opcode, MODRM(3, extension, rm)>>

\* Of 64 bits with an extended register, of 32 without.
x64_map_add_reg2reg(rm, reg) ==
    (IF rm > 7 \/ reg > 7 THEN <<REX(1, reg, rm)>> ELSE <<>>) \o <<1, MODRM(3, reg, rm)>>

x64_map_sub_reg2reg16(reg, rm)  == REG2REG_OP_16(41, reg, rm)
x64_map_and_reg2reg16(reg, rm)  == REG2REG_OP_16(33, reg, rm)
x64_map_or_reg2reg16(reg, rm)   == REG2REG_OP_16(9, reg, rm)
x64_map_xor_reg2reg64(reg, rm)  == REG2REG_OP_16(49, reg, rm)
x64_map_cmp_reg2reg16(reg, rm)  == REG2REG_OP_16(59, reg, rm)
x64_map_test_reg2reg16(reg, rm) == REG2REG_OP_16(133, reg, rm)

x64_map_mul_reg2ax16(rm)        == ExtendedOp16(247, 4, rm)
x64_map_div_reg2ax16(rm)        == ExtendedOp16(247, 6, rm)
x64_map_neg_reg16(target)       == ExtendedOp16(247, 3, target)
x64_map_shr_reg2reg16(rm)       == ExtendedOp16(211, 5, rm)
x64_map_shl_reg2reg16(rm)       == ExtendedOp16(211, 4, rm)
x64_map_inc_dec_reg16(mode, rm) == ExtendedOp16(255, mode, rm)
x64_map_and_imm16(rm, imm)      == ExtendedOp16(129, 4, rm) \o Imm16(imm)
x64_map_or_imm16(rm, imm)       == ExtendedOp16(129, 1, rm) \o Imm16(imm)
x64_map_ror_rm16_imm8(rm, amount) == ExtendedOp16(193, 1, rm) \o <<amount>>

x64_map_setz(rm)  == <<15, 148, MODRM(3, 0, rm)>>
x64_map_setb(rm)  == <<15, 146, MODRM(3, 0, rm)>>
x64_map_setne(rm) == <<15, 149, MODRM(3, 0, rm)>>

-----------------------------------------------------------------------------
(* Stack and control flow. *)
x64_map_ret               == <<195>>
x64_map_push(reg)         == OptionalREX(0, reg) \o <<80 + (reg % 8)>>
x64_map_pop(reg)          == OptionalREX(0, reg) \o <<88 + (reg % 8)>>
x64_map_call(reg)         == OptionalREX(0, reg) \o <<255, 208 + (reg % 8)>>
x64_map_absolute_jmp(reg) == OptionalREX(0, reg) \o <<255, 224 + (reg % 8)>>
x64_map_jz_rel8(offset)    == <<116, offset % 256>>
x64_map_jmp_rel32(offset)  == <<233>> \o Imm32(offset)
x64_map_jnz_rel32(offset)  == <<15, 133>> \o Imm32(offset)
=============================================================================
