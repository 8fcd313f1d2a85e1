------------------------------ MODULE JitEmit ------------------------------
(***************************************************************************)
(* jit_prepare (jit.c) down to the bytes it generates, jit_link            *)
(* (linker.c), which overwrites the relative jumps that stay inside the    *)
(* function, and call_static (jit_runtime.c), which overwrites a call site *)
(* when its code runs for the first time.                                  *)
(*                                                                         *)
(* memory is the buffer as far as it was written.  Positions in it are     *)
(* offsets from Host.memory; gen_ptr is the next one.                      *)
(***************************************************************************)
EXTENDS JitCode, X64

CONSTANTS
    Requested,                 \* the arguments of jit_prepare
    Host,                      \* addresses in the host process
    Unwritten                  \* what an entry of the container may hold before it is written

HostNames == {"memory", "internal", "state", "program", "cpu", "stack", "callee",
              "jump_dynamic", "call_dynamic", "call_static", "putchar"}

ASSUME EmitAssumption ==
    /\ \A q \in Requested :
          /\ IsMemory(q.program) /\ q.address \in Word
          /\ q.is_entrypoint \in BOOLEAN /\ q.internal_abi \in BOOLEAN
    /\ Host \in [HostNames -> Nat]
    /\ Unwritten \subseteq Int /\ Unwritten # {}
    /\ PhysSize = 65536

BufferSize_Small == 14000      \* Mutant: the buffer is smaller.

BufferSize == 16000

CPU_STATE_REG  == RBX
VMEM_BASE_REG  == 15
SCRATCH_REG    == RSI
SCRATCH_REG_2  == RDI
PC_INDEX       == 16
FLAGS_INDEX    == 17
PREAMBLE_LENGTH == 20

CALL_STATIC_OVERWRITE_SIZE_More == 36      \* Mutant: as the comment of jit.c:264 says.

CALL_STATIC_OVERWRITE_SIZE == 35

VARIABLES
    program, address, is_entrypoint, internal_abi,   \* jit_prepare's parameters
    mapped,                    \* the register table
    pc, gen_ptr, memory,
    instr_mapping,             \* the instruction container
    link_requests,             \* the last one made first
    sites,                     \* the code that call_static will overwrite
    count,                     \* instructions processed
    invalid_op, emitted_ret,
    phase

parameters == <<program, address, is_entrypoint, internal_abi, mapped>>
emitVars   == <<parameters, pc, gen_ptr, memory, instr_mapping, link_requests, sites, count,
                invalid_op, emitted_ret, phase>>

EmitInit ==
    /\ \E q \in Requested :
          /\ program = q.program /\ address = q.address
          /\ is_entrypoint = q.is_entrypoint /\ internal_abi = q.internal_abi
    /\ mapped = TableOf(SolveRegion(program, address))
    /\ pc = address
    /\ gen_ptr = 0 /\ memory = <<>>
    /\ instr_mapping = <<>> /\ link_requests = <<>> /\ sites = <<>>
    /\ count = 0 /\ invalid_op = FALSE /\ emitted_ret = FALSE
    /\ phase = "prologue"

-----------------------------------------------------------------------------
(* The registers' places. *)
Mapped(v) == \E i \in Slot : mapped[i] = v

\* GET_OR_LOAD_VREG: the register that holds v, and the code that brings it there.
Holds(v, loadtarget) == IF Mapped(v) THEN 8 + (CHOOSE i \in Slot : mapped[i] = v) ELSE loadtarget
Load(v, loadtarget)  == IF Mapped(v) THEN <<>>
                        ELSE x64_map_movzx_indirect2reg(loadtarget, CPU_STATE_REG, 2 * v)

STORE_ALWAYS(physreg, v)    == x64_map_mov_reg2indirect(physreg, CPU_STATE_REG, 2 * v)
STORE_IF_NEEDED(physreg, v) == IF physreg < 8 THEN STORE_ALWAYS(physreg, v) ELSE <<>>

LoadSlot(i)  == IF mapped[i] = Unused THEN <<>>
                ELSE x64_map_movzx_indirect2reg(8 + i, CPU_STATE_REG, 2 * mapped[i])
StoreSlot(i) == IF mapped[i] = Unused THEN <<>> ELSE STORE_ALWAYS(8 + i, mapped[i])

load_virtual_registers(only_caller_save) ==
    LoadSlot(0) \o LoadSlot(1) \o LoadSlot(2) \o LoadSlot(3)
    \o (IF only_caller_save THEN <<>> ELSE LoadSlot(4) \o LoadSlot(5) \o LoadSlot(6))

store_mapped_virtual_registers(only_caller_save) ==
    StoreSlot(0) \o StoreSlot(1) \o StoreSlot(2) \o StoreSlot(3)
    \o (IF only_caller_save THEN <<>> ELSE StoreSlot(4) \o StoreSlot(5) \o StoreSlot(6))

FunctionCall(func) == x64_map_move_imm2reg(RAX, func) \o x64_map_call(RAX)
SetPc(value)       == x64_map_mov_imm2indirect(value, CPU_STATE_REG, 2 * PC_INDEX)

-----------------------------------------------------------------------------
(* Before the first instruction. *)
escape_registers == <<RBX, RSP, RBP, 12, 13, 14, 15>>

SaveEscape(k) == x64_map_mov_reg2indirect64(escape_registers[k], RAX, 8 * k)

EscapeHatch ==
    x64_map_move_imm2reg(RAX, Host.state)
    \o x64_map_pop(RSI) \o x64_map_push(RSI)
    \o x64_map_mov_reg2indirect64(RSI, RAX, 0)
    \o SaveEscape(1) \o SaveEscape(2) \o SaveEscape(3) \o SaveEscape(4) \o SaveEscape(5)
    \o SaveEscape(6) \o SaveEscape(7)

Preamble ==
    x64_map_push(RBX) \o x64_map_push(12) \o x64_map_push(13) \o x64_map_push(14)
    \o x64_map_push(15) \o x64_map_mov_reg2reg(RDI, CPU_STATE_REG)

\* Mutant: the preamble is not padded.
Padded_Not(bytes) == bytes

\* With the escape hatch the preamble is longer than PREAMBLE_LENGTH already.
Padded(bytes) ==
    bytes \o [i \in 1 .. (IF Len(bytes) < PREAMBLE_LENGTH THEN PREAMBLE_LENGTH - Len(bytes) ELSE 0)
                |-> NOP[1]]

PrologueCode ==
    Padded((IF is_entrypoint THEN EscapeHatch ELSE <<>>) \o Preamble)
    \o x64_map_move_imm2reg(VMEM_BASE_REG, Host.program)
    \o SetPc(pc)
    \o load_virtual_registers(FALSE)

\* The bytes at position p replaced.
Put(m, p, bytes) == SubSeq(m, 1, p) \o bytes \o SubSeq(m, p + Len(bytes) + 1, Len(m))

Emit(bytes) ==
    /\ memory' = Put(memory, gen_ptr, bytes)
    /\ gen_ptr' = gen_ptr + Len(bytes)

Prologue ==
    /\ phase = "prologue"
    /\ Emit(IF internal_abi THEN <<>> ELSE PrologueCode)
    /\ phase' = "translating"
    /\ UNCHANGED <<parameters, pc, instr_mapping, link_requests, sites, count, invalid_op, emitted_ret>>

-----------------------------------------------------------------------------
(* The code of one guest instruction, at pc. *)
Instr == LoadShort(program, pc)
Op    == OpcodeOf(Instr)
Src   == XIS_REG1(Instr)
Dst   == XIS_REG2(Instr)
Ext   == LoadShort(program, Wrap(pc + 2))
After == Wrap(pc + SizeAt(program, pc))

\* The target of jr and br.
target == Wrap(After + SignedLow(Instr) - 2)

switch_endianness(i) == 256 * (i % 256) + (i \div 256)

LoadImmediate ==
    LET reg == Holds(Src, SCRATCH_REG)
    IN  Load(Src, SCRATCH_REG) \o x64_map_move_imm2reg(reg, Ext) \o STORE_IF_NEEDED(reg, Src)

\* The condition flag becomes what compare and set leave in AL.
SetFlag(compare, set) ==
    x64_map_xor_reg2reg64(RAX, RAX) \o compare \o set
    \o x64_map_mov_reg2indirect(RAX, CPU_STATE_REG, 2 * FLAGS_INDEX)

\* rax = dest, rdx = 0, op on both, dest = rax.
ThroughRAX(dest, op) ==
    x64_map_mov_reg2reg(dest, RAX) \o x64_map_xor_reg2reg64(RDX, RDX) \o op
    \o x64_map_mov_reg2reg(RAX, dest)

Binary(src, dest) ==
    CASE Op = I_ADD   -> x64_map_add_reg2reg(dest, src)
      [] Op = I_SUB   -> x64_map_sub_reg2reg16(src, dest)
      [] Op = I_MUL   -> ThroughRAX(dest, x64_map_mul_reg2ax16(src))
      [] Op = I_DIV   -> ThroughRAX(dest, x64_map_div_reg2ax16(src))
      [] Op = I_AND   -> x64_map_and_reg2reg16(src, dest)
      [] Op = I_OR    -> x64_map_or_reg2reg16(src, dest)
      [] Op = I_XOR   -> x64_map_xor_reg2reg64(src, dest)
      [] Op = I_SHR   -> x64_map_mov_reg2reg(src, RCX) \o x64_map_shr_reg2reg16(dest)
      [] Op = I_SHL   -> x64_map_mov_reg2reg(src, RCX) \o x64_map_shl_reg2reg16(dest)
      [] Op = I_EQU   -> SetFlag(x64_map_cmp_reg2reg16(dest, src), x64_map_setz(AL))
      [] Op = I_TEST  -> SetFlag(x64_map_test_reg2reg16(dest, src), x64_map_setne(AL))
      [] Op = I_MOV   -> x64_map_mov_reg2reg(src, dest)
      [] Op = I_LOAD  -> x64_map_mov_8_16_scaled2reg(dest, VMEM_BASE_REG, src, MOV_SCALE_16)
                         \o x64_map_ror_rm16_imm8(dest, 8)
      [] Op = I_STOR  -> x64_map_mov_8_16_reg2scaled(src, VMEM_BASE_REG, dest, MOV_SCALE_16)
      [] Op = I_LOADB -> x64_map_xor_reg2reg64(dest, dest)
                         \o x64_map_mov_8_16_scaled2reg(dest, VMEM_BASE_REG, src, MOV_SCALE_8)
      [] Op = I_STORB -> x64_map_mov_8_16_reg2scaled(src, VMEM_BASE_REG, dest, MOV_SCALE_8)
      [] OTHER        -> <<>>

\* shl goes on into cmp.
Compared(src, dest) ==
    IF Op \in {I_SHL, I_CMP} THEN SetFlag(x64_map_cmp_reg2reg16(src, dest), x64_map_setb(AL))
    ELSE <<>>

TwoRegisters ==
    LET src  == Holds(Src, SCRATCH_REG)
        dest == Holds(Dst, SCRATCH_REG_2)
    IN  Load(Src, SCRATCH_REG) \o Load(Dst, SCRATCH_REG_2) \o Binary(src, dest)
        \o (IF Op \in ArithOps \cup {I_MOV, I_LOAD, I_LOADB} THEN STORE_IF_NEEDED(dest, Dst) ELSE <<>>)
        \o Compared(src, dest)

StepTwice(mode, reg) == x64_map_inc_dec_reg16(mode, reg) \o x64_map_inc_dec_reg16(mode, reg)

PushCode(reg) ==
    LET sp == Holds(SP, SCRATCH_REG_2)
    IN  x64_map_ror_rm16_imm8(reg, 8) \o Load(SP, SCRATCH_REG_2) \o StepTwice(MODE_DEC, sp)
        \o x64_map_mov_8_16_reg2scaled(reg, VMEM_BASE_REG, sp, MOV_SCALE_16)
        \o x64_map_ror_rm16_imm8(reg, 8) \o STORE_IF_NEEDED(sp, SP)

PopCode(reg) ==
    LET sp == Holds(SP, SCRATCH_REG_2)
    IN  Load(SP, SCRATCH_REG_2)
        \o x64_map_mov_8_16_scaled2reg(reg, VMEM_BASE_REG, sp, MOV_SCALE_16)
        \o x64_map_ror_rm16_imm8(reg, 8) \o StepTwice(MODE_INC, sp)
        \o STORE_IF_NEEDED(sp, SP) \o STORE_IF_NEEDED(reg, Src)

OutCode(reg) ==
    store_mapped_virtual_registers(TRUE) \o x64_map_mov_reg2reg(reg, RDI)
    \o FunctionCall(Host.putchar) \o load_virtual_registers(TRUE)
    \o x64_map_move_imm2reg(VMEM_BASE_REG, Host.program)

UnaryCode(reg) ==
    CASE Op = I_NEG -> x64_map_neg_reg16(reg)
      [] Op = I_NOT -> x64_map_xor_reg2reg64(RAX, RAX) \o x64_map_test_reg2reg16(reg, reg)
                       \o x64_map_setz(AL) \o x64_map_mov_reg2reg(RAX, reg)
      [] Op = I_INC -> x64_map_inc_dec_reg16(MODE_INC, reg)
      [] Op = I_DEC -> x64_map_inc_dec_reg16(MODE_DEC, reg)

\* Every instruction with one operand loads it, jr and br too.
OneRegister ==
    LET reg == Holds(Src, SCRATCH_REG)
    IN  Load(Src, SCRATCH_REG)
        \o (CASE Op = I_PUSH -> PushCode(reg)
              [] Op = I_POP  -> PopCode(reg)
              [] Op = I_OUT  -> OutCode(reg)
              [] Op \in UnaryOps -> UnaryCode(reg) \o STORE_IF_NEEDED(reg, Src)
              [] OTHER       -> <<>>)

-----------------------------------------------------------------------------
(* Control transfers. *)
CallRuntime(func, to) ==
    x64_map_mov_reg2reg(VMEM_BASE_REG, RDI) \o x64_map_move_imm2reg(RSI, to) \o FunctionCall(func)

\* The registers are stored after jump_dynamic has returned.
JumpCode ==
    CallRuntime(Host.jump_dynamic, Ext) \o store_mapped_virtual_registers(FALSE)
    \o x64_map_absolute_jmp(RAX)

ReturnCode ==
    LET sp == Holds(SP, SCRATCH_REG)
    IN  Load(SP, SCRATCH_REG)
        \o x64_map_mov_8_16_scaled2reg(SCRATCH_REG_2, VMEM_BASE_REG, sp, MOV_SCALE_16)
        \o StepTwice(MODE_INC, sp) \o STORE_IF_NEEDED(sp, SP)
        \o x64_map_ror_rm16_imm8(SCRATCH_REG_2, 8)
        \o x64_map_mov_reg2indirect(SCRATCH_REG_2, CPU_STATE_REG, 2 * PC_INDEX)

DebugCode ==
    Load(FLAGS_INDEX, SCRATCH_REG) \o x64_map_or_imm16(Holds(FLAGS_INDEX, SCRATCH_REG), 2)
    \o STORE_IF_NEEDED(Holds(FLAGS_INDEX, SCRATCH_REG), FLAGS_INDEX)

\* A static call: up to the code that call_static overwrites, that code, and the rest.
BeforeSite ==
    LET sp == Holds(SP, SCRATCH_REG)
    IN  Load(SP, SCRATCH_REG) \o store_mapped_virtual_registers(FALSE) \o StepTwice(MODE_DEC, sp)
        \o x64_map_move_imm2reg(SCRATCH_REG_2, switch_endianness(After))
        \o x64_map_mov_8_16_reg2scaled(SCRATCH_REG_2, VMEM_BASE_REG, sp, MOV_SCALE_16)
        \o STORE_ALWAYS(sp, SP)

SiteCode(at) ==
    x64_map_mov_reg2reg(VMEM_BASE_REG, RDI) \o x64_map_move_imm2reg(RSI, Ext)
    \o x64_map_move_imm2reg(RDX, Host.memory + at) \o FunctionCall(Host.call_static)

\* Mutant: only the registers that a C function may overwrite are loaded again.
AfterSite_CallerSaved ==
    x64_map_mov_reg2reg(CPU_STATE_REG, RDI) \o x64_map_call(RAX) \o load_virtual_registers(TRUE)

AfterSite ==
    x64_map_mov_reg2reg(CPU_STATE_REG, RDI) \o x64_map_call(RAX) \o load_virtual_registers(FALSE)

\* A recursive call goes to the version of the function without preamble.
RecursiveCall ==
    LET sp == Holds(SP, SCRATCH_REG)
    IN  Load(SP, SCRATCH_REG) \o StepTwice(MODE_DEC, sp) \o STORE_ALWAYS(sp, SP)
        \o FunctionCall(IF internal_abi THEN Host.memory ELSE Host.internal)

JumpRelative ==
    x64_map_push(CPU_STATE_REG) \o store_mapped_virtual_registers(FALSE)
    \o CallRuntime(Host.jump_dynamic, target) \o x64_map_pop(CPU_STATE_REG)
    \o load_virtual_registers(TRUE) \o x64_map_absolute_jmp(RAX)

ConditionalBlock ==
    store_mapped_virtual_registers(FALSE) \o SetPc(target)
    \o CallRuntime(Host.jump_dynamic, target) \o load_virtual_registers(TRUE)
    \o x64_map_move_imm2reg(VMEM_BASE_REG, Host.program) \o x64_map_absolute_jmp(RAX)

TestFlag ==
    x64_map_movzx_indirect2reg(RAX, CPU_STATE_REG, 2 * FLAGS_INDEX) \o x64_map_and_imm16(RAX, 1)

\* Mutant: the distance is counted from the jz.
Branch_FromJz == TestFlag \o x64_map_jz_rel8(Len(ConditionalBlock) + 2) \o ConditionalBlock

\* The distance is cut to a char.
Branch == TestFlag \o x64_map_jz_rel8(Len(ConditionalBlock)) \o ConditionalBlock

\* jmpr and callr: the stores before the call are written where the rest of the
\* code is written next.
ByRegister(func) ==
    x64_map_mov_reg2reg(VMEM_BASE_REG, RDI) \o x64_map_mov_reg2reg(Holds(Src, SCRATCH_REG), RSI)
    \o FunctionCall(func)

-----------------------------------------------------------------------------
(* The translation loop: one action for each way an instruction goes on.   *)

\* The code written at gen_ptr: before and code; in between the bytes wasted were
\* written where code is.
Write(before, wasted, code) ==
    /\ phase = "translating"
    /\ memory' = Put(Put(memory, gen_ptr, before \o wasted), gen_ptr, before \o code)
    /\ gen_ptr' = gen_ptr + Len(before \o code)

\* Mutant: an extended instruction gets one entry.
Push_Once == instr_mapping' = instr_mapping \o <<gen_ptr>>

\* istr_container_push, once for each word of the instruction.
Push ==
    instr_mapping' = instr_mapping \o
        (IF XIS_NUM_OPS(Op) = XIS_EXTENDED THEN <<gen_ptr, gen_ptr>> ELSE <<gen_ptr>>)

GoOn(ret) ==
    /\ Push
    /\ count' = count + 1
    /\ pc' = After
    /\ invalid_op' = FALSE /\ emitted_ret' = ret
    /\ phase' = IF ret THEN "epilogue" ELSE "translating"
    /\ UNCHANGED parameters

Stop(ret, back) ==
    /\ Push
    /\ count' = count + 1
    /\ pc' = Wrap(After - back)
    /\ invalid_op' = TRUE /\ emitted_ret' = ret
    /\ phase' = "epilogue"
    /\ UNCHANGED parameters

Requests(type, before, code) ==
    link_requests' = <<[type |-> type, from |-> gen_ptr + Len(before), target |-> target,
                        length |-> Len(code)]>> \o link_requests

Straight ==
    ArithOps \cup CompareOps \cup UnaryOps
    \cup {I_LOADI, I_MOV, I_LOAD, I_LOADB, I_STOR, I_STORB, I_PUSH, I_POP, I_OUT}

StraightCode ==
    IF Op = I_LOADI THEN LoadImmediate
    ELSE IF XIS_NUM_OPS(Op) = 2 THEN TwoRegisters ELSE OneRegister

TranslateStraight ==
    /\ Op \in Straight
    /\ Write(<<>>, <<>>, StraightCode) /\ GoOn(FALSE)
    /\ UNCHANGED <<link_requests, sites>>

TranslateJmp ==
    /\ Op = I_JMP
    /\ Write(<<>>, <<>>, JumpCode) /\ GoOn(FALSE)
    /\ UNCHANGED <<link_requests, sites>>

TranslateCall ==
    /\ Op = I_CALL /\ Ext # address
    /\ LET at == gen_ptr + Len(BeforeSite)
       IN  /\ Write(<<>>, <<>>, BeforeSite \o SiteCode(at) \o AfterSite)
           /\ sites' = Append(sites, at)
    /\ GoOn(FALSE)
    /\ UNCHANGED link_requests

TranslateRecursion ==
    /\ Op = I_CALL /\ Ext = address
    /\ Write(<<>>, <<>>, RecursiveCall) /\ GoOn(FALSE)
    /\ UNCHANGED <<link_requests, sites>>

TranslateRet ==
    /\ Op = I_RET
    /\ Write(<<>>, <<>>, ReturnCode) /\ GoOn(TRUE)
    /\ UNCHANGED <<link_requests, sites>>

TranslatePanic ==
    /\ Op \in {I_STD, I_CLD}
    /\ Write(<<>>, <<>>, IF Op = I_STD THEN DebugCode ELSE <<>>) /\ Stop(TRUE, 2)
    /\ UNCHANGED <<link_requests, sites>>

TranslateJr ==
    /\ Op = I_JR
    /\ Write(OneRegister, <<>>, JumpRelative) /\ GoOn(FALSE)
    /\ Requests("LINK_JUMP_REL", OneRegister, JumpRelative)
    /\ UNCHANGED sites

TranslateBr ==
    /\ Op = I_BR
    /\ Write(OneRegister, <<>>, Branch) /\ GoOn(FALSE)
    /\ Requests("LINK_BRANCH_REL", OneRegister, Branch)
    /\ UNCHANGED sites

TranslateJmpR ==
    /\ Op = I_JMPR
    /\ Write(OneRegister, store_mapped_virtual_registers(FALSE),
             ByRegister(Host.jump_dynamic) \o x64_map_absolute_jmp(RAX))
    /\ GoOn(FALSE)
    /\ UNCHANGED <<link_requests, sites>>

TranslateCallR ==
    /\ Op = I_CALLR
    /\ Write(OneRegister, store_mapped_virtual_registers(FALSE),
             ByRegister(Host.call_dynamic) \o AfterSite)
    /\ GoOn(FALSE)
    /\ UNCHANGED <<link_requests, sites>>

\* The registers that an instruction with such operands has were loaded already; one
\* with two moves pc back twice.
TranslateInvalid ==
    /\ Op \notin Implemented
    /\ Write(<<>>, <<>>, IF XIS_NUM_OPS(Op) = 2 THEN TwoRegisters
                        ELSE IF XIS_NUM_OPS(Op) = 1 THEN OneRegister ELSE <<>>)
    /\ Stop(FALSE, IF XIS_NUM_OPS(Op) = 2 THEN 4 ELSE 2)
    /\ UNCHANGED <<link_requests, sites>>

Translate1 ==
    \/ TranslateStraight \/ TranslateJmp \/ TranslateCall \/ TranslateRecursion
    \/ TranslateRet \/ TranslatePanic \/ TranslateJr \/ TranslateBr
    \/ TranslateJmpR \/ TranslateCallR \/ TranslateInvalid

-----------------------------------------------------------------------------
(* After the last instruction. *)
RestoreEscape(k) == x64_map_mov_indirect2reg64(escape_registers[k], RAX, 8 * k)

EscapeCode ==
    SetPc(pc) \o x64_map_move_imm2reg(RAX, Host.state)
    \o RestoreEscape(1) \o RestoreEscape(2) \o RestoreEscape(3) \o RestoreEscape(4)
    \o RestoreEscape(5) \o RestoreEscape(6) \o RestoreEscape(7)
    \o x64_map_move_imm2reg(RAX, IF emitted_ret THEN 1 ELSE 0) \o x64_map_ret

\* Mutant: two registers are popped in the order they were pushed in.
RestoreSaved_Swapped ==
    x64_map_pop(15) \o x64_map_pop(14) \o x64_map_pop(12) \o x64_map_pop(13) \o x64_map_pop(RBX)

RestoreSaved ==
    x64_map_pop(15) \o x64_map_pop(14) \o x64_map_pop(13) \o x64_map_pop(12) \o x64_map_pop(RBX)

EpilogueCode ==
    (IF emitted_ret THEN <<>> ELSE SetPc(pc))
    \o (IF internal_abi THEN <<>> ELSE store_mapped_virtual_registers(FALSE))
    \o (IF invalid_op THEN EscapeCode ELSE <<>>)
    \o (IF internal_abi THEN <<>> ELSE RestoreSaved)
    \o x64_map_move_imm2reg(RAX, 0) \o x64_map_ret

Epilogue ==
    /\ phase = "epilogue"
    /\ Emit(EpilogueCode)
    /\ phase' = "linking"
    /\ UNCHANGED <<parameters, pc, instr_mapping, link_requests, sites, count, invalid_op, emitted_ret>>

-----------------------------------------------------------------------------
(* jit_link, one request at a time. *)
Nops(n) == [i \in 1 .. n |-> NOP[1]]

Overwrite(m, from, length, code) == Put(Put(m, from, Nops(length)), from, code)

\* Mutant: the distance of the jnz is not counted from its end.
Linked_FromStart(req, to) ==
    IF req.type = "LINK_JUMP_REL" THEN x64_map_jmp_rel32(to - req.from - 5)
    ELSE TestFlag
         \o x64_map_jnz_rel32(to - (req.from + Len(TestFlag)))
         \o x64_map_jmp_rel32(req.length - (Len(TestFlag) + 6) - 5)

Linked(req, to) ==
    IF req.type = "LINK_JUMP_REL" THEN x64_map_jmp_rel32(to - req.from - 5)
    ELSE TestFlag
         \o x64_map_jnz_rel32(to - (req.from + Len(TestFlag)) - 6)
         \o x64_map_jmp_rel32(req.length - (Len(TestFlag) + 6) - 5)

LinkNext ==
    /\ phase = "linking" /\ link_requests # <<>>
    /\ LET req      == Head(link_requests)
           relative == req.target - address
           entry    == relative \div 2
       IN  IF relative < 0 \/ relative > 2 * Len(instr_mapping)
           THEN UNCHANGED memory
           ELSE \E to \in IF entry < Len(instr_mapping) THEN {instr_mapping[entry + 1]} ELSE Unwritten :
                   memory' = Overwrite(memory, req.from, req.length, Linked(req, to))
    /\ link_requests' = Tail(link_requests)
    /\ UNCHANGED <<parameters, pc, gen_ptr, instr_mapping, sites, count, invalid_op, emitted_ret, phase>>

Return ==
    /\ phase = "linking" /\ link_requests = <<>>
    /\ phase' = "ready"
    /\ UNCHANGED <<parameters, pc, gen_ptr, memory, instr_mapping, link_requests, sites, count,
                   invalid_op, emitted_ret>>

\* call_static, when the code of a call site runs for the first time.
CallStatic ==
    /\ phase = "ready" /\ sites # <<>>
    /\ memory' = Overwrite(memory, Head(sites), CALL_STATIC_OVERWRITE_SIZE,
                           x64_map_move_imm2reg(RAX, Host.callee))
    /\ sites' = Tail(sites)
    /\ UNCHANGED <<parameters, pc, gen_ptr, instr_mapping, link_requests, count, invalid_op,
                   emitted_ret, phase>>

Finished == phase = "ready" /\ sites = <<>> /\ UNCHANGED emitVars

EmitNext ==
    Prologue \/ Translate1 \/ Epilogue \/ LinkNext \/ Return \/ CallStatic \/ Finished

EmitSpec == EmitInit /\ [][EmitNext]_emitVars

-----------------------------------------------------------------------------
LinkRequests ==
    [type : {"LINK_JUMP_REL", "LINK_BRANCH_REL"}, from : Nat, target : Word, length : Nat]

EmitTypeOK ==
    /\ mapped \in [Slot -> RegId \cup {Unused}]
    /\ pc \in Word /\ count \in Nat
    /\ memory \in Seq(Byte) /\ gen_ptr \in 0 .. Len(memory)
    /\ instr_mapping \in Seq(0 .. gen_ptr)
    /\ link_requests \in Seq(LinkRequests)
    /\ sites \in Seq(0 .. gen_ptr)
    /\ invalid_op \in BOOLEAN /\ emitted_ret \in BOOLEAN
    /\ phase \in {"prologue", "translating", "epilogue", "linking", "ready"}

MaxInstructions == 81

\* jit.c:113: nothing checks that the code fits into the 16000 bytes it has; that of 81
\* guest instructions does, whatever they are and whatever is written over it later.
CodeFitsBuffer == count <= MaxInstructions => Len(memory) <= BufferSize

\* jit.h, linker.h: the translation that JitMachine executes has as many instructions and
\* container entries, two entries for one instruction in the same places, and blocks of
\* the size that decides whether the jump over them reaches.
MatchesJitCode ==
    phase = "linking" =>
        \A f \in {Prepare(program, address)} : \A entries \in {ContainerOf(f)} :
            /\ Len(f.code) = count
            /\ DOMAIN entries = DOMAIN instr_mapping
            /\ \A j, k \in DOMAIN entries :
                  entries[j] = entries[k] <=> instr_mapping[j] = instr_mapping[k]
            /\ \A k \in DOMAIN link_requests :
                  link_requests[k].type = "LINK_BRANCH_REL" =>
                      link_requests[k].length = Len(TestFlag) + 2 + CondBlockSize(f)
=============================================================================
