----------------------------- MODULE XSimProofs -----------------------------
(***************************************************************************)
(* The interpreter and the loop of main.c keep their types, respect the    *)
(* limit and print the processor as it is, for every executable, every     *)
(* limit and every size of memory.                                         *)
(***************************************************************************)
EXTENDS XSim, XMemProofs

-----------------------------------------------------------------------------
(* Decoding. *)

\* What xcpu_execute takes from an instruction has the right types.
LEMMA Decoded ==
    ASSUME CpuTypeOK
    PROVE  /\ Instr \in Word /\ Extended \in Word
           /\ Src \in RegId /\ Dest \in RegId /\ SP \in RegId
           /\ NextPc \in Word /\ Wrap(NextPc + 2) \in Word
           /\ Wrap(pc + SignedLow(Instr)) \in Word
<1>1. Instr \in Word /\ Extended \in Word
  BY LoadShortWord DEF Instr, Extended, CpuTypeOK
<1>2. Src \in RegId /\ Dest \in RegId /\ SignedLow(Instr) \in Int
  BY <1>1, InstructionParts DEF Src, Dest
<1>3. pc + 2 \in Int /\ pc + SignedLow(Instr) \in Int
  BY <1>2, InWord DEF CpuTypeOK
<1>4. NextPc \in Word
  BY <1>3, WrapWord DEF NextPc
<1>5. NextPc + 2 \in Int
  BY <1>4, InWord
<1>6. SP \in RegId
  BY InRegId DEF SP
<1> QED
  BY <1>1, <1>2, <1>3, <1>4, <1>5, <1>6, WrapWord

\* A register changed to a word leaves sixteen registers.
LEMMA RegsExcept ==
    ASSUME NEW r \in [RegId -> Word], NEW i \in RegId, NEW w \in Word
    PROVE  [r EXCEPT ![i] = w] \in [RegId -> Word]
OBVIOUS

\* Moving the stack pointer leaves sixteen registers.
LEMMA MovedSP ==
    ASSUME NEW r \in [RegId -> Word]
    PROVE  /\ [r EXCEPT ![SP] = Wrap(@ + 2)] \in [RegId -> Word]
           /\ [r EXCEPT ![SP] = Wrap(@ - 2)] \in [RegId -> Word]
<1>1. SP \in RegId
  BY InRegId DEF SP
<1>2. r[SP] + 2 \in Int /\ r[SP] - 2 \in Int
  BY <1>1, InWord
<1>3. Wrap(r[SP] + 2) \in Word /\ Wrap(r[SP] - 2) \in Word
  BY <1>2, WrapWord
<1> QED
  BY <1>1, <1>3, RegsExcept

\* The addresses an instruction stores to have passed the check of xmem.c.
LEMMA StoresAllowed ==
    ASSUME CpuTypeOK, ~Faults
    PROVE  /\ Opcode \in {I_STOR, I_STORB} => Accessible(regs[Dest])
           /\ Opcode \in {I_PUSH, I_CALL, I_CALLR} => Accessible(Pushed[SP])
<1>1. Pushed[SP] = Wrap(regs[SP] - 2)
  BY Decoded DEF Pushed, CpuTypeOK
<1>2. Opcode \in {I_STOR, I_STORB} => regs[Dest] \in Touched
  BY DEF Touched
<1>3. Opcode \in {I_PUSH, I_CALL, I_CALLR} => Wrap(regs[SP] - 2) \in Touched
  BY DEF Touched
<1> QED
  BY <1>1, <1>2, <1>3 DEF Faults

\* The flag and the debug bit make a state.
LEMMA StateBits ==
    ASSUME NEW s \in 0 .. 3
    PROVE  /\ s % 2 \in 0 .. 3
           /\ 2 + (s % 2) \in 0 .. 3
           /\ 2 * (s \div 2) \in 0 .. 3
           /\ 2 * (s \div 2) + 1 \in 0 .. 3
OBVIOUS

-----------------------------------------------------------------------------
(* The end of xcpu_execute. *)

\* Whatever a case hands to the end of the function, the types are kept.
LEMMA RetireType ==
    ASSUME CpuTypeOK,
           NEW r \in [RegId -> Word], NEW p \in Word, NEW s \in 0 .. 3,
           NEW m, IsMemory(m), NEW o \in Seq(Outputs),
           Retire(r, p, s, m, o)
    PROVE  CpuTypeOK'
<1>1. Dump(r, p, s) \in Outputs /\ MemoryError \in Outputs
  BY DEF Dump, Outputs
<1>2. Append(o, Dump(r, p, s)) \in Seq(Outputs) /\ o \o <<Dump(r, p, s), MemoryError>> \in Seq(Outputs)
  BY <1>1
<1>3. out' \in Seq(Outputs)
  BY <1>2 DEF Retire
<1>4. result' \in Results
  BY DEF Retire, CpuTypeOK, Results
<1> QED
  BY <1>3, <1>4 DEF Retire, CpuTypeOK

\* The end of xcpu_execute was reached with values of the right types.
Retires ==
    \E r \in [RegId -> Word], p \in Word, s \in 0 .. 3, o \in Seq(Outputs) :
        \E m : IsMemory(m) /\ Retire(r, p, s, m, o)

\* An instruction that changes one register and goes to the next one.
LEMMA SetRegRetires ==
    ASSUME CpuTypeOK, NEW i \in RegId, NEW w \in Word, SetReg(i, w)
    PROVE  Retires
<1>1. [regs EXCEPT ![i] = w] \in [RegId -> Word]
  BY RegsExcept DEF CpuTypeOK
<1> QED
  BY <1>1, Decoded DEF SetReg, Retires, CpuTypeOK

\* One that changes the flags.
LEMMA SetStateRetires ==
    ASSUME CpuTypeOK, NEW s \in 0 .. 3, SetState(s)
    PROVE  Retires
BY Decoded DEF SetState, Retires, CpuTypeOK

\* One that changes memory.
LEMMA SetMemRetires ==
    ASSUME CpuTypeOK, NEW m, IsMemory(m), SetMem(m)
    PROVE  Retires
BY Decoded DEF SetMem, Retires, CpuTypeOK

\* A jump.
LEMMA JumpRetires ==
    ASSUME CpuTypeOK, NEW p \in Word, JumpTo(p)
    PROVE  Retires
BY DEF JumpTo, Retires, CpuTypeOK

-----------------------------------------------------------------------------
(* The instructions. *)

\* Two register operands.
LEMMA TwoRegRetires ==
    ASSUME CpuTypeOK, TwoRegArith \/ TwoRegCompare \/ Mov \/ Load \/ LoadB
    PROVE  Retires
<1>1. regs[Src] \in Word /\ regs[Dest] \in Word /\ state \in 0 .. 3 /\ IsMemory(mem)
  BY Decoded DEF CpuTypeOK
<1>2. CASE TwoRegArith
  <2>1. Opcode \in ArithOps /\ (Opcode = I_DIV => regs[Src] # 0)
    BY <1>2 DEF TwoRegArith, Fetched
  <2>2. Arith(Opcode, regs[Dest], regs[Src]) \in Word
    BY <1>1, <2>1, ArithWord
  <2> QED
    BY <1>2, <2>2, Decoded, SetRegRetires DEF TwoRegArith
<1>3. CASE TwoRegCompare
  <2>1. \A b : Flag(b) \in 0 .. 3
    BY <1>1, StateBits DEF Flag
  <2> QED
    BY <1>3, <2>1, SetStateRetires DEF TwoRegCompare
<1>4. CASE Mov
  BY <1>1, <1>4, Decoded, SetRegRetires DEF Mov
<1>5. CASE Load
  BY <1>1, <1>5, Decoded, LoadShortWord, SetRegRetires DEF Load
<1>6. CASE LoadB
  <2>1. Peek(mem, regs[Src]) \in Word
    BY <1>1, PeekByte, InByte, InWord
  <2> QED
    BY <1>6, <2>1, Decoded, SetRegRetires DEF LoadB
<1> QED
  BY <1>2, <1>3, <1>4, <1>5, <1>6

\* The stores.
LEMMA StoreRetires ==
    ASSUME CpuTypeOK, Stor \/ StorB
    PROVE  Retires
<1>1. regs[Src] \in Word /\ regs[Dest] \in Word /\ IsMemory(mem)
  BY Decoded DEF CpuTypeOK
<1>2. Accessible(regs[Dest])
  BY StoresAllowed DEF Stor, StorB, Fetched
<1>3. CASE Stor
  <2>1. IsMemory(WriteShort(mem, regs[Dest], regs[Src]))
    BY <1>1, <1>2, WriteShortMemory
  <2> QED
    BY <1>3, <2>1, SetMemRetires DEF Stor
<1>4. CASE StorB
  <2>1. regs[Src] % 256 \in Byte /\ Peek(mem, regs[Dest] + 1) \in Byte
    BY <1>1, InstructionParts, PeekByte
  <2>2. IsMemory(XmemStore(mem, regs[Dest], regs[Src] % 256, Peek(mem, regs[Dest] + 1)))
    BY <1>1, <1>2, <2>1, XmemStoreMemory
  <2> QED
    BY <1>4, <2>2, SetMemRetires DEF StorB
<1> QED
  BY <1>3, <1>4

\* No operands or one that is changed.
LEMMA PlainRetires ==
    ASSUME CpuTypeOK, Ret \/ Cld \/ Std \/ OneReg \/ JmpR \/ Out
    PROVE  Retires
<1>1. regs[Src] \in Word /\ state \in 0 .. 3 /\ IsMemory(mem)
  BY Decoded DEF CpuTypeOK
<1>2. CASE Ret
  <2>1. LoadShort(mem, regs[SP]) \in Word
    BY <1>1, LoadShortWord
  <2>2. [regs EXCEPT ![SP] = Wrap(@ + 2)] \in [RegId -> Word]
    BY MovedSP DEF CpuTypeOK
  <2> QED
    BY <1>2, <2>1, <2>2 DEF Ret, Retires, CpuTypeOK
<1>3. CASE Cld
  BY <1>1, <1>3, StateBits, SetStateRetires DEF Cld
<1>4. CASE Std
  BY <1>1, <1>4, StateBits, SetStateRetires DEF Std
<1>5. CASE OneReg
  <2>1. Opcode \in UnaryOps
    BY <1>5 DEF OneReg, Fetched
  <2>2. Unary(Opcode, regs[Src]) \in Word
    BY <1>1, <2>1, UnaryWord
  <2> QED
    BY <1>5, <2>2, Decoded, SetRegRetires DEF OneReg
<1>6. CASE JmpR
  BY <1>1, <1>6, JumpRetires DEF JmpR
<1>7. CASE Out
  <2>1. Char(regs[Src]) \in Outputs
    BY <1>1, InstructionParts DEF Char, Outputs
  <2>2. Append(out, Char(regs[Src])) \in Seq(Outputs)
    BY <2>1 DEF CpuTypeOK
  <2> QED
    BY <1>7, <2>2, Decoded DEF Out, Retires, CpuTypeOK
<1> QED
  BY <1>2, <1>3, <1>4, <1>5, <1>6, <1>7

\* The guest's stack and calls.
LEMMA StackRetires ==
    ASSUME CpuTypeOK, Push \/ Pop \/ CallR \/ Call
    PROVE  Retires
<1>1. Pushed \in [RegId -> Word]
  BY MovedSP DEF Pushed, CpuTypeOK
<1>2. Pushed[SP] \in Word /\ Pushed[Src] \in Word /\ IsMemory(mem)
  BY <1>1, Decoded DEF CpuTypeOK
<1>3. \A v \in Word :
        Accessible(Pushed[SP]) => IsMemory(WriteShort(mem, Pushed[SP], v))
  BY <1>2, WriteShortMemory
<1>4. Push \/ CallR \/ Call => Accessible(Pushed[SP])
  BY StoresAllowed DEF Push, CallR, Call, Fetched
<1>5. CASE Push
  BY <1>1, <1>2, <1>3, <1>4, <1>5, Decoded DEF Push, Retires, CpuTypeOK
<1>6. CASE Pop
  <2> DEFINE r == [regs EXCEPT ![Src] = LoadShort(mem, regs[SP])]
  <2>1. r \in [RegId -> Word]
    BY <1>2, LoadShortWord, Decoded, RegsExcept DEF CpuTypeOK
  <2>2. [r EXCEPT ![SP] = Wrap(@ + 2)] \in [RegId -> Word]
    BY <2>1, MovedSP
  <2>3. Retire([r EXCEPT ![SP] = Wrap(@ + 2)], NextPc, state, mem, out)
    BY <1>6 DEF Pop
  <2> QED
    BY <2>2, <2>3, Decoded DEF Retires, CpuTypeOK
<1>7. CASE CallR
  BY <1>1, <1>2, <1>3, <1>4, <1>7, Decoded DEF CallR, Retires, CpuTypeOK
<1>8. CASE Call
  BY <1>1, <1>2, <1>3, <1>4, <1>8, Decoded DEF Call, Retires, CpuTypeOK
<1> QED
  BY <1>5, <1>6, <1>7, <1>8

\* Branches and extended instructions.
LEMMA JumpsRetire ==
    ASSUME CpuTypeOK, Br \/ Jr \/ Jmp \/ LoadI
    PROVE  Retires
<1>1. CASE Br
  BY <1>1, Decoded, JumpRetires DEF Br
<1>2. CASE Jr
  BY <1>2, Decoded, JumpRetires DEF Jr
<1>3. CASE Jmp
  BY <1>3, Decoded, JumpRetires DEF Jmp
<1>4. CASE LoadI
  <2>1. [regs EXCEPT ![Src] = Extended] \in [RegId -> Word]
    BY Decoded, RegsExcept DEF CpuTypeOK
  <2> QED
    BY <1>4, <2>1, Decoded DEF LoadI, Retires, CpuTypeOK
<1> QED
  BY <1>1, <1>2, <1>3, <1>4

\* The ways out change little and go to a result other than "ok".
LEMMA WaysOut ==
    ASSUME CpuTypeOK, DivByZero \/ Invalid \/ MemFault
    PROVE  CpuTypeOK' /\ result' # "ok"
<1>1. NextPc \in Word
  BY Decoded
<1>2. Append(out, MemoryError) \in Seq(Outputs)
  BY DEF CpuTypeOK, Outputs
<1> QED
  BY <1>1, <1>2 DEF DivByZero, Invalid, MemFault, CpuTypeOK, Results

\* A call of xcpu_execute reaches its end or takes a way out.
LEMMA ExecuteRetires ==
    ASSUME CpuTypeOK, XcpuExecute
    PROVE  Retires \/ (CpuTypeOK' /\ result' # "ok")
BY TwoRegRetires, StoreRetires, PlainRetires, StackRetires, JumpsRetire, WaysOut
DEF XcpuExecute

\* A call of xcpu_execute keeps the types.
LEMMA ExecuteType ==
    ASSUME CpuTypeOK, XcpuExecute
    PROVE  CpuTypeOK'
BY ExecuteRetires, RetireType DEF Retires

-----------------------------------------------------------------------------
(* The simulator. *)

\* An executable that fits into memory is loaded as one.
LEMMA LoadedMemory ==
    ASSUME NEW img \in Images, ~TooLarge(img)
    PROVE  IsMemory(Loaded(img))
<1>1. img \in Seq(Byte) /\ PhysSize \in Int
  BY XSimAssumption, PhysSizeAssumption
<1>2. Len(img) \in Int /\ Len(img) <= PhysSize /\ DOMAIN img = 1 .. Len(img)
  BY <1>1 DEF TooLarge
<1>3. \A a \in DOMAIN Loaded(img) : a + 1 \in DOMAIN img /\ a \in 0 .. PhysSize - 1
  BY <1>1, <1>2 DEF Loaded
<1>4. \A a \in DOMAIN Loaded(img) : Loaded(img)[a] \in Byte
  BY <1>1, <1>2, <1>3 DEF Loaded
<1>5. Loaded(img) = [a \in DOMAIN Loaded(img) |-> Loaded(img)[a]]
  BY DEF Loaded
<1> QED
  BY <1>3, <1>4, <1>5 DEF IsMemory, Address

\* The simulator starts with the right types.
LEMMA InitType ==
    ASSUME Init
    PROVE  TypeOK
<1>1. 0 \in Word /\ \A r \in RegId : [q \in RegId |-> 0] \in [RegId -> Word]
  BY InWord
<1>2. IsMemory(ZeroMemory)
  BY DEF IsMemory, ZeroMemory
<1>3. IsMemory(mem) /\ result \in Results
  BY <1>2, LoadedMemory DEF Init, Results
<1> QED
  BY <1>1, <1>3 DEF Init, CpuInit, TypeOK, CpuTypeOK

\* And a step keeps them.
LEMMA NextType ==
    ASSUME TypeOK, [Next]_simVars
    PROVE  TypeOK'
<1>1. CASE Next
  <2>1. CpuTypeOK'
    BY <1>1, ExecuteType DEF Next, Execute, TypeOK
  <2>2. limit' \in Limits /\ count' \in Nat
    BY <1>1 DEF Next, Execute, TypeOK
  <2> QED
    BY <2>1, <2>2 DEF TypeOK
<1>2. CASE UNCHANGED simVars
  BY <1>2 DEF simVars, TypeOK, CpuTypeOK
<1> QED
  BY <1>1, <1>2

\* xcpu.c and xmem.c: the registers and the program counter stay 16 bits wide
\* and memory keeps its size, whatever program is run.
THEOREM TypeCorrect == Spec => []TypeOK
<1>1. Init => TypeOK
  BY InitType
<1>2. TypeOK /\ [Next]_simVars => TypeOK'
  BY NextType
<1> QED
  BY <1>1, <1>2, PTL DEF Spec

\* main.c:63: the loop stops at its limit, for every executable and every
\* limit, a negative one included.
THEOREM LimitSafe == Spec => []LimitRespected
<1>1. Init => LimitRespected
  BY XSimAssumption DEF Init, LimitRespected
<1>2. TypeOK /\ LimitRespected /\ [Next]_simVars => LimitRespected'
  <2> SUFFICES ASSUME TypeOK, LimitRespected, [Next]_simVars
               PROVE  LimitRespected'
    OBVIOUS
  <2>1. limit \in Int /\ count \in Nat
    BY XSimAssumption DEF TypeOK
  <2>2. CASE Next
    BY <2>1, <2>2 DEF Next, Execute, WithinLimit, LimitRespected
  <2>3. CASE UNCHANGED simVars
    BY <2>3 DEF simVars, LimitRespected
  <2> QED
    BY <2>2, <2>3
<1> QED
  BY <1>1, <1>2, TypeCorrect, PTL DEF Spec

-----------------------------------------------------------------------------
(* The debug output. *)

\* What reaches the end of xcpu_execute prints the processor it leaves.
LEMMA RetirePrints ==
    ASSUME Retires
    PROVE  DumpIsCurrent'
<1>1. PICK r \in [RegId -> Word], p \in Word, s \in 0 .. 3, o \in Seq(Outputs) :
         \E m : Retire(r, p, s, m, o)
  BY DEF Retires
<1>2. regs' = r /\ pc' = p /\ state' = s
  BY <1>1 DEF Retire
<1>3. CASE Debug(s) /\ result' = "ok"
  <2>1. Dump(r, p, s) \in Outputs
    BY DEF Dump, Outputs
  <2>2. out' = Append(o, Dump(r, p, s))
    BY <1>1, <1>3 DEF Retire
  <2>3. out' # <<>> /\ out'[Len(out')] = Dump(r, p, s)
    BY <2>1, <2>2
  <2> QED
    BY <1>2, <2>3 DEF DumpIsCurrent, Dump
<1>4. CASE ~(Debug(s) /\ result' = "ok")
  BY <1>2, <1>4 DEF DumpIsCurrent, Debug
<1> QED
  BY <1>3, <1>4

\* xcpu.c:196: no instruction returns early from the debug output, however
\* it was reached.
THEOREM DumpSafe == Spec => []DumpIsCurrent
<1>1. Init => DumpIsCurrent
  BY DEF Init, CpuInit, DumpIsCurrent, Debug
<1>2. TypeOK /\ DumpIsCurrent /\ [Next]_simVars => DumpIsCurrent'
  <2> SUFFICES ASSUME TypeOK, DumpIsCurrent, [Next]_simVars
               PROVE  DumpIsCurrent'
    OBVIOUS
  <2>1. CASE Next
    <3>1. Retires \/ result' # "ok"
      BY <2>1, ExecuteRetires DEF Next, Execute, TypeOK
    <3> QED
      BY <3>1, RetirePrints DEF DumpIsCurrent
  <2>2. CASE UNCHANGED simVars
    BY <2>2 DEF simVars, DumpIsCurrent, Debug, Dump
  <2> QED
    BY <2>1, <2>2
<1> QED
  BY <1>1, <1>2, TypeCorrect, PTL DEF Spec
=============================================================================
