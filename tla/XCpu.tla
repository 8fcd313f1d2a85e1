-------------------------------- MODULE XCpu --------------------------------
(***************************************************************************)
(* The interpreter of xcpu.c: one call of xcpu_execute is one step.  A     *)
(* step fetches and decodes at pc, performs the instruction and, when the  *)
(* debug bit is set afterwards, prints the processor (xcpuprnt.c).         *)
(***************************************************************************)
EXTENDS XMem, Sequences

VARIABLES
    regs,      \* the sixteen registers
    pc,        \* the program counter
    state,     \* bit 0: the condition flag, bit 1: the debug bit
    mem,       \* guest memory
    out,       \* what was written to stdout, as a sequence of records
    result     \* "ok": xcpu_execute returned 1 (or was not called yet);
               \* "invalid": it returned 0; "exit": xmem called exit(1);
               \* "fpe": the host division trapped; "refused": see XSim

cpuVars == <<regs, pc, state, mem, out, result>>

Results == {"ok", "invalid", "exit", "fpe", "refused"}

\* What is printed: a character, the processor, the message of a failed access.
Char(w)       == [kind |-> "char", char |-> w % 256]
Dump(r, p, s) == [kind |-> "dump", pc |-> p, state |-> s, regs |-> r]
MemoryError   == [kind |-> "memory error"]

Outputs ==
    [kind : {"char"}, char : Byte]
    \cup [kind : {"dump"}, pc : Word, state : 0 .. 3, regs : [RegId -> Word]]
    \cup {MemoryError}

CpuTypeOK ==
    /\ regs \in [RegId -> Word]
    /\ pc \in Word
    /\ state \in 0 .. 3
    /\ IsMemory(mem)
    /\ out \in Seq(Outputs)
    /\ result \in Results

CpuInit ==                     \* calloc(sizeof(xcpu), 1)
    /\ regs = [r \in RegId |-> 0]
    /\ pc = 0
    /\ state = 0

-----------------------------------------------------------------------------
(* Fetch and decode. *)
Instr  == LoadShort(mem, pc)
Opcode == OpcodeOf(Instr)
Src    == XIS_REG1(Instr)
Dest   == XIS_REG2(Instr)
NextPc == Wrap(pc + 2)

IsExtended == XIS_NUM_OPS(Opcode) = XIS_EXTENDED
Extended   == LoadShort(mem, NextPc)

\* The addresses an instruction gives to xmem once it is fetched.
Touched ==
    UNION {IF IsExtended THEN {NextPc} ELSE {},
           IF Opcode \in {I_LOAD, I_LOADB} THEN {regs[Src]} ELSE {},
           IF Opcode \in {I_STOR, I_STORB} THEN {regs[Dest]} ELSE {},
           IF Opcode \in {I_RET, I_POP} THEN {regs[SP]} ELSE {},
           IF Opcode \in {I_PUSH, I_CALL, I_CALLR} THEN {Wrap(regs[SP] - 2)} ELSE {}}

Faults == ~Accessible(pc) \/ \E a \in Touched : ~Accessible(a)

Fetched(ops) ==
    /\ result = "ok"
    /\ Opcode \in ops
    /\ ~Faults

-----------------------------------------------------------------------------
(* The end of xcpu_execute. *)
Debug(s) == s \div 2 = 1
Flag(b)  == 2 * (state \div 2) + (IF b THEN 1 ELSE 0)

\* xcpu_print loads the next instruction and, if it is extended, its operand.
PrintFaults(m, p) ==
    \/ ~Accessible(p)
    \/ /\ XIS_NUM_OPS(Peek(m, p)) = XIS_EXTENDED
       /\ ~Accessible(Wrap(p + 2))

Retire(r, p, s, m, o) ==
    /\ regs' = r
    /\ pc' = p
    /\ state' = s
    /\ mem' = m
    /\ \/ /\ ~Debug(s)
          /\ out' = o
          /\ UNCHANGED result
       \/ /\ Debug(s)
          /\ ~PrintFaults(m, p)
          /\ out' = Append(o, Dump(r, p, s))
          /\ UNCHANGED result
       \/ /\ Debug(s)
          /\ PrintFaults(m, p)
          /\ out' = o \o <<Dump(r, p, s), MemoryError>>
          /\ result' = "exit"

SetReg(r, v)  == Retire([regs EXCEPT ![r] = v], NextPc, state, mem, out)
SetState(s)   == Retire(regs, NextPc, s, mem, out)
SetMem(m)     == Retire(regs, NextPc, state, m, out)
JumpTo(p)     == Retire(regs, p, state, mem, out)

-----------------------------------------------------------------------------
(* Two register operands. *)
TwoRegArith ==
    /\ Fetched(ArithOps)
    /\ Opcode = I_DIV => regs[Src] # 0
    /\ SetReg(Dest, Arith(Opcode, regs[Dest], regs[Src]))

DivByZero ==                   \* SIGFPE
    /\ Fetched({I_DIV})
    /\ regs[Src] = 0
    /\ result' = "fpe"
    /\ UNCHANGED <<regs, pc, state, mem, out>>

TwoRegCompare ==
    /\ Fetched(CompareOps)
    /\ SetState(Flag(Compare(Opcode, regs[Src], regs[Dest])))

Mov   == Fetched({I_MOV})   /\ SetReg(Dest, regs[Src])
Load  == Fetched({I_LOAD})  /\ SetReg(Dest, LoadShort(mem, regs[Src]))
LoadB == Fetched({I_LOADB}) /\ SetReg(Dest, Peek(mem, regs[Src]))
Stor  == Fetched({I_STOR})  /\ SetMem(WriteShort(mem, regs[Dest], regs[Src]))

StorB ==                       \* loads two bytes, replaces the first, stores both
    /\ Fetched({I_STORB})
    /\ LET a == regs[Dest]
       IN  SetMem(XmemStore(mem, a, regs[Src] % 256, Peek(mem, a + 1)))

-----------------------------------------------------------------------------
(* No operands. *)
Ret ==
    /\ Fetched({I_RET})
    /\ Retire([regs EXCEPT ![SP] = Wrap(@ + 2)], LoadShort(mem, regs[SP]),
              state, mem, out)

Cld == Fetched({I_CLD}) /\ SetState(state % 2)
Std == Fetched({I_STD}) /\ SetState(2 + (state % 2))

-----------------------------------------------------------------------------
(* One register operand. *)
OneReg ==
    /\ Fetched(UnaryOps)
    /\ SetReg(Src, Unary(Opcode, regs[Src]))

Pushed == [regs EXCEPT ![SP] = Wrap(@ - 2)]

Push ==                        \* sp moves first: "push r15" stores the new sp
    /\ Fetched({I_PUSH})
    /\ Retire(Pushed, NextPc, state, WriteShort(mem, Pushed[SP], Pushed[Src]), out)

Pop ==                         \* sp moves last: "pop r15" leaves the value + 2
    /\ Fetched({I_POP})
    /\ LET r == [regs EXCEPT ![Src] = LoadShort(mem, regs[SP])]
       IN  Retire([r EXCEPT ![SP] = Wrap(@ + 2)], NextPc, state, mem, out)

JmpR == Fetched({I_JMPR}) /\ JumpTo(regs[Src])

CallR ==
    /\ Fetched({I_CALLR})
    /\ Retire(Pushed, Pushed[Src], state, WriteShort(mem, Pushed[SP], NextPc), out)

Out ==
    /\ Fetched({I_OUT})
    /\ Retire(regs, NextPc, state, mem, Append(out, Char(regs[Src])))

-----------------------------------------------------------------------------
(* Branches are relative to their own address; extended instructions. *)
Br == /\ Fetched({I_BR})
      /\ JumpTo(IF (state % 2) = 1 THEN Wrap(pc + SignedLow(Instr)) ELSE NextPc)

\* Mutant: the jump returns before the debug output.
Jr_Silent ==
    /\ Fetched({I_JR})
    /\ pc' = Wrap(pc + SignedLow(Instr))
    /\ UNCHANGED <<regs, state, mem, out, result>>

Jr == Fetched({I_JR}) /\ JumpTo(Wrap(pc + SignedLow(Instr)))

Jmp == Fetched({I_JMP}) /\ JumpTo(Extended)

Call ==
    /\ Fetched({I_CALL})
    /\ Retire(Pushed, Extended, state,
              WriteShort(mem, Pushed[SP], Wrap(NextPc + 2)), out)

LoadI ==
    /\ Fetched({I_LOADI})
    /\ Retire([regs EXCEPT ![Src] = Extended], Wrap(NextPc + 2), state, mem, out)

-----------------------------------------------------------------------------
(* The ways out. *)
Invalid ==
    /\ result = "ok"
    /\ ~Faults
    /\ Opcode \notin Implemented
    /\ result' = "invalid"
    /\ pc' = NextPc
    /\ UNCHANGED <<regs, state, mem, out>>

MemFault ==
    /\ result = "ok"
    /\ Faults
    /\ result' = "exit"
    /\ out' = Append(out, MemoryError)
    /\ UNCHANGED <<regs, pc, state, mem>>

XcpuExecute ==
    \/ TwoRegArith \/ DivByZero \/ TwoRegCompare
    \/ Mov \/ Load \/ LoadB \/ Stor \/ StorB
    \/ Ret \/ Cld \/ Std
    \/ OneReg \/ Push \/ Pop \/ JmpR \/ CallR \/ Out
    \/ Br \/ Jr \/ Jmp \/ Call \/ LoadI
    \/ Invalid \/ MemFault
=============================================================================
