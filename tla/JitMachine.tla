----------------------------- MODULE JitMachine -----------------------------
(***************************************************************************)
(* The simulator with its JIT: main.c, the functions jit.c compiles, the   *)
(* runtime they call (jit_runtime.c) and the interpreter that takes over   *)
(* at a std or cld instruction.  One step is the generated code of one     *)
(* guest instruction, calls into the runtime included.  Guest registers    *)
(* live in the cpu struct (regs) or in a host register (phys), as the      *)
(* table of the running function says.                                     *)
(***************************************************************************)
EXTENDS XSim, JitCode

CONSTANT Junk                  \* what a C function may leave in r8..r11

ASSUME JitAssumption == Junk \subseteq Word /\ Junk # {} /\ PhysSize = 65536

VARIABLES
    mode,      \* "jit": compiled code runs; "handoff": main is about to call
               \* the interpreter for it; "interp": the interpreter runs
    fns,       \* the compiled functions; the first is main's, the others are
               \* the function cache
    fn, ip,    \* the running function and the instruction it is at
    inst,      \* 0, or the recursive call site whose internal version runs
    phys,      \* r8..r14: the 16 low bits v, and whether a higher bit is set
    raxDirty,  \* the bits of rax above the low 16 are not all zero
    hstack,    \* the host stack above main's frame
    patched    \* call sites that call_static has overwritten -> function

jitVars  == <<mode, fns, fn, ip, inst, phys, raxDirty, hstack, patched>>
vars     == <<simVars, jitVars>>

-----------------------------------------------------------------------------
(* Host registers hold 64 bits, a guest register 16. *)
Clean(w)   == [v |-> w, d |-> FALSE]
Wide(w, d) == [v |-> w, d |-> d]

Nothing == [i \in Slot |-> Clean(0)]

F == fns[fn]
C == F.code[ip]

OpC  == OpcodeOf(C.instr)
SrcC == XIS_REG1(C.instr)
DstC == XIS_REG2(C.instr)
Mapped(r) == IsMappedIn(F, r)

\* GET_OR_LOAD_VREG: the host register, or the struct's value zero-extended.
Get(r) == IF Mapped(r) THEN phys[SlotOf(F, r)] ELSE Clean(regs[r])

\* The struct after store_mapped_virtual_registers, for some of the slots.
Stored(slots) ==
    [r \in RegId |-> IF Mapped(r) /\ SlotOf(F, r) \in slots THEN Get(r).v ELSE regs[r]]

\* The host registers after load_virtual_registers from struct r; those that a
\* function does not map are never read and are kept at 0 here.
LoadedFor(f, r) ==
    [i \in Slot |-> IF i \in MappedSlots(f) THEN Clean(r[RegIn(f, i)]) ELSE Clean(0)]

\* Write a host value to each guest register in DOMAIN g.
Write(g) ==
    /\ phys' = [i \in Slot |-> IF RegIn(F, i) \in DOMAIN g THEN g[RegIn(F, i)] ELSE phys[i]]
    /\ regs' = [r \in RegId |-> IF r \in DOMAIN g /\ ~Mapped(r) THEN g[r].v ELSE regs[r]]

Set(r, w) == Write([x \in {r} |-> w])

-----------------------------------------------------------------------------
(* Guest memory is read and written at base + a 64-bit register, unchecked. *)
InGuest(w, size) == ~w.d /\ w.v + size <= PhysSize

Swap(w) == 256 * (w % 256) + (w \div 256)

SPDown == Wide(Wrap(Get(SP).v - 2), Get(SP).d)
SPUp   == Wide(Wrap(Get(SP).v + 2), Get(SP).d)

\* jit.c:582: push rotates its register before it moves the stack pointer,
\* which is the same register when r15 is mapped and pushed.
PushAt == IF SrcC = SP /\ Mapped(SP)
          THEN Wide(Wrap(Swap(Get(SP).v) - 2), Get(SP).d) ELSE SPDown

\* jit.c:508: loadb zeroes its destination before it forms the address.
LoadBAt == IF SrcC = DstC /\ Mapped(SrcC) THEN Wide(0, Get(SrcC).d) ELSE Get(SrcC)

IsRecursion == OpC = I_CALL /\ C.ext = F.addr

\* The accesses of an instruction to guest memory: address and size.
Accesses ==
    CASE OpC = I_LOAD  -> {<<Get(SrcC), 2>>}
      [] OpC = I_STOR  -> {<<Get(DstC), 2>>}
      [] OpC = I_LOADB -> {<<LoadBAt, 1>>}
      [] OpC = I_STORB -> {<<Get(DstC), 1>>}
      [] OpC = I_PUSH  -> {<<PushAt, 2>>}
      [] OpC \in {I_POP, I_RET}          -> {<<Get(SP), 2>>}
      [] OpC = I_CALL /\ ~IsRecursion    -> {<<SPDown, 2>>}
      [] OTHER -> {}

\* There is a function to execute, and it stays inside guest memory.
Sound == F.code # <<>> /\ \A a \in Accesses : InGuest(a[1], a[2])

Jitting(ops) ==
    /\ mode = "jit"
    /\ result = "ok"
    /\ OpC \in ops
    /\ Sound

Advance ==
    /\ ip' = ip + 1
    /\ UNCHANGED <<mode, fns, fn, inst, hstack, patched, result, limit, count>>

-----------------------------------------------------------------------------
(* jit_runtime.c *)
Cached(t) == {i \in 2 .. Len(fns) : fns[i].addr = t}

\* Mutants: the cache is not searched; its first function is taken.
CompileOrGetCached_Compile(t, k) ==
    /\ fns' = Append(fns, Prepare(mem, t))
    /\ k = Len(fns) + 1
CompileOrGetCached_Any(t, k) ==
    \/ k \in 2 .. Len(fns) /\ UNCHANGED fns
    \/ Cached(t) = {} /\ CompileOrGetCached_Compile(t, k)

\* compile_or_get_cached_addr: k is the function for address t.
CompileOrGetCached(t, k) ==
    \/ /\ k \in Cached(t)
       /\ UNCHANGED fns
    \/ /\ Cached(t) = {}
       /\ fns' = Append(fns, Prepare(mem, t))
       /\ k = Len(fns) + 1

\* Some function of the cache, or the next one to be compiled.
Targets == 1 .. Len(fns) + 1

\* A compiled function starts: after its preamble, with the struct's registers.
Start(k) ==
    /\ fn' = k /\ ip' = 1 /\ inst' = 0
    /\ pc' = fns'[k].addr
    /\ phys' = LoadedFor(fns'[k], regs')
    /\ raxDirty' = TRUE        \* rax holds its address

Frame(reload) ==
    [kind |-> "ret", fn |-> fn, ip |-> ip + 1, inst |-> inst, reload |-> reload]
SavedRegs == [kind |-> "saved"]

\* Mutant: the jump does not skip the preamble.
JumpDynamic_ToStart(t) ==
    \E k \in Targets :
        /\ CompileOrGetCached(t, k)
        /\ Start(k)
        /\ hstack' = Append(hstack, SavedRegs)

\* jump_dynamic and the jump: the preamble, and what it pushes, is skipped.
JumpDynamic(t) ==
    \E k \in Targets :
        /\ CompileOrGetCached(t, k)
        /\ Start(k)
        /\ UNCHANGED hstack

\* Mutant: the version without preamble has one all the same.
CallInternal_Preamble == hstack' = hstack \o <<Frame(FALSE), SavedRegs>>

CallInternal == hstack' = Append(hstack, Frame(FALSE))

CallThrough == hstack' = hstack \o <<Frame(TRUE), SavedRegs>>

-----------------------------------------------------------------------------
(* Instructions with no effect outside the registers. *)
JLoadI ==
    /\ Jitting({I_LOADI})
    /\ Set(SrcC, Clean(C.ext))
    /\ Advance /\ UNCHANGED <<pc, state, mem, out, raxDirty>>

JMov ==
    /\ Jitting({I_MOV})
    /\ Set(DstC, Get(SrcC))
    /\ Advance /\ UNCHANGED <<pc, state, mem, out, raxDirty>>

\* The 64-bit add carries into the high bits; the 16-bit operations leave them.
ArithDirty(op, d, s) ==
    IF op = I_ADD THEN d.d \/ s.d \/ d.v + s.v > 65535 ELSE d.d

JArith ==
    /\ Jitting(ArithOps \ {I_SHL})
    /\ OpC = I_DIV => Get(SrcC).v # 0
    /\ LET d == Get(DstC)
           s == Get(SrcC)
       IN  /\ Set(DstC, Wide(Arith(OpC, d.v, s.v), ArithDirty(OpC, d, s)))
           /\ raxDirty' = IF OpC \in {I_MUL, I_DIV} THEN d.d ELSE raxDirty
    /\ Advance /\ UNCHANGED <<pc, state, mem, out>>

JDivByZero ==
    /\ Jitting({I_DIV})
    /\ Get(SrcC).v = 0
    /\ result' = "fpe"
    /\ UNCHANGED <<regs, pc, state, mem, out, limit, count, jitVars>>

\* jit.c:427: the case for shl runs on into the one for cmp.
JShl ==
    /\ Jitting({I_SHL})
    /\ LET d == Get(DstC)
           s == Get(SrcC)
           shifted == ShlW(d.v, s.v)
           source  == IF SrcC = DstC /\ Mapped(SrcC) THEN shifted ELSE s.v
       IN  /\ Set(DstC, Wide(shifted, d.d))
           /\ state' = IF source < shifted THEN 1 ELSE 0
    /\ Advance /\ UNCHANGED <<pc, mem, out, raxDirty>>

\* The state word is overwritten: compiled code runs with the debug bit clear.
JCompare ==
    /\ Jitting(CompareOps)
    /\ state' = IF Compare(OpC, Get(SrcC).v, Get(DstC).v) THEN 1 ELSE 0
    /\ Advance /\ UNCHANGED <<regs, phys, pc, mem, out, raxDirty>>

\* "not" is made in rax, of which only the low 16 bits were cleared.
JUnary ==
    /\ Jitting(UnaryOps)
    /\ Set(SrcC, Wide(Unary(OpC, Get(SrcC).v),
                      IF OpC = I_NOT THEN raxDirty ELSE Get(SrcC).d))
    /\ Advance /\ UNCHANGED <<pc, state, mem, out, raxDirty>>

-----------------------------------------------------------------------------
(* Instructions on guest memory. *)
JLoad ==
    /\ Jitting({I_LOAD})
    /\ Set(DstC, Wide(LoadShort(mem, Get(SrcC).v), Get(DstC).d))
    /\ Advance /\ UNCHANGED <<pc, state, mem, out, raxDirty>>

JLoadB ==
    /\ Jitting({I_LOADB})
    /\ Set(DstC, Clean(Peek(mem, LoadBAt.v)))
    /\ Advance /\ UNCHANGED <<pc, state, mem, out, raxDirty>>

\* jit.c:500: the register is stored as the host orders its bytes.
JStor ==
    /\ Jitting({I_STOR})
    /\ mem' = WriteShort(mem, Get(DstC).v, Swap(Get(SrcC).v))
    /\ Advance /\ UNCHANGED <<regs, phys, pc, state, out, raxDirty>>

JStorB ==
    /\ Jitting({I_STORB})
    /\ mem' = Poke(mem, Get(DstC).v, Get(SrcC).v % 256)
    /\ Advance /\ UNCHANGED <<regs, phys, pc, state, out, raxDirty>>

JPush ==
    /\ Jitting({I_PUSH})
    /\ IF SrcC = SP /\ Mapped(SP)
       THEN /\ mem' = WriteShort(mem, PushAt.v, Swap(PushAt.v))
            /\ Set(SP, Wide(Swap(PushAt.v), PushAt.d))
       ELSE /\ mem' = WriteShort(mem, PushAt.v, Get(SrcC).v)
            /\ Set(SP, SPDown)
    /\ Advance /\ UNCHANGED <<pc, state, out, raxDirty>>

\* jit.c:648: the stack pointer is written back first, the register after it.
JPop ==
    /\ Jitting({I_POP})
    /\ LET value == Wide(LoadShort(mem, Get(SP).v), Get(SrcC).d)
       IN  IF SrcC = SP
           THEN Set(SP, IF Mapped(SP) THEN Wide(Wrap(value.v + 2), value.d) ELSE value)
           ELSE Write([r \in {SP, SrcC} |-> IF r = SP THEN SPUp ELSE value])
    /\ Advance /\ UNCHANGED <<pc, state, mem, out, raxDirty>>

\* putchar may change r8..r11: they are stored before and loaded after.
JOut ==
    /\ Jitting({I_OUT})
    /\ out' = Append(out, Char(Get(SrcC).v))
    /\ regs' = Stored(CallerSaved)
    /\ \E j \in Junk :
          phys' = [i \in Slot |-> CASE i \in CallerSaved -> LoadedFor(F, regs')[i]
                                   [] i \in HostScratch \ CallerSaved -> Clean(j)
                                   [] OTHER -> phys[i]]
    /\ raxDirty' = FALSE       \* the character putchar returns
    /\ Advance /\ UNCHANGED <<pc, state, mem>>

-----------------------------------------------------------------------------
(* Relative jumps. *)
RelTarget == Wrap(C.at + SignedLow(C.instr))
Link      == LinkKind(F, RelTarget)

Goto(n) ==
    /\ ip' = n
    /\ UNCHANGED <<mode, fns, fn, inst, hstack, patched, result, limit, count>>

JrLinked ==
    /\ Jitting({I_JR})
    /\ Link = "linked"
    /\ Goto(LinkedTo(F, RelTarget))
    /\ UNCHANGED <<regs, phys, pc, state, mem, out, raxDirty>>

BrLinked ==
    /\ Jitting({I_BR})
    /\ Link = "linked" \/ (Link = "stray" /\ state % 2 = 0)
    /\ Goto(IF state % 2 = 1 THEN LinkedTo(F, RelTarget) ELSE ip + 1)
    /\ raxDirty' = FALSE       \* rax holds the state word
    /\ UNCHANGED <<regs, phys, pc, state, mem, out>>

JumpAway(t, stored) ==
    /\ regs' = stored
    /\ JumpDynamic(t)
    /\ UNCHANGED <<mode, patched, result, limit, count, state, mem, out>>

JrDynamic ==
    /\ Jitting({I_JR})
    /\ Link = "dynamic"
    /\ JumpAway(RelTarget, Stored(Slot))

BrDynamic ==
    /\ Jitting({I_BR})
    /\ Link = "dynamic"
    /\ state % 2 = 1
    /\ JumpAway(RelTarget, Stored(Slot))

BrNotTaken ==
    /\ Jitting({I_BR})
    /\ Link = "dynamic"
    /\ state % 2 = 0
    /\ SkipsCondBlock(F)
    /\ Advance
    /\ raxDirty' = FALSE
    /\ UNCHANGED <<regs, phys, pc, state, mem, out>>

-----------------------------------------------------------------------------
(* Absolute jumps and calls. *)

\* jit.c:252: the registers are stored after jump_dynamic returned, when those
\* among r8..r11 hold whatever it left in them.
JJmp ==
    /\ Jitting({I_JMP})
    /\ \E j \in Junk :
          JumpAway(C.ext, [r \in RegId |->
              IF Mapped(r) /\ SlotOf(F, r) \in HostScratch THEN j ELSE Stored(Slot)[r]])

\* jit.c:739: gen_ptr is not advanced over the stores, so they are overwritten.
JJmpR ==
    /\ Jitting({I_JMPR})
    /\ JumpAway(Get(SrcC).v, regs)

\* jit.c:755: as above, and nothing is pushed on the guest's stack.
JCallR ==
    /\ Jitting({I_CALLR})
    /\ regs' = regs
    /\ \E k \in Targets : CompileOrGetCached(Get(SrcC).v, k) /\ Start(k)
    /\ CallThrough
    /\ UNCHANGED <<mode, patched, result, limit, count, state, mem, out>>

\* The first time through a call site call_static looks the function up and
\* overwrites the site with its address; after that it is called directly.
Site == <<fn, inst, ip>>

CallSite(t, k) ==
    \/ /\ Site \in DOMAIN patched
       /\ k = patched[Site]
       /\ UNCHANGED <<fns, patched>>
    \/ /\ Site \notin DOMAIN patched
       /\ CompileOrGetCached(t, k)
       /\ patched' = [s \in DOMAIN patched \cup {Site} |->
                         IF s = Site THEN k ELSE patched[s]]

JCall ==
    /\ Jitting({I_CALL})
    /\ ~IsRecursion
    /\ mem' = WriteShort(mem, SPDown.v, Wrap(C.at + 4))
    /\ regs' = [Stored(Slot) EXCEPT ![SP] = SPDown.v]
    /\ \E k \in Targets : CallSite(C.ext, k) /\ Start(k)
    /\ CallThrough
    /\ UNCHANGED <<mode, result, limit, count, state, out>>

\* jit.c:313: a function calls itself in a version without preamble, with its
\* registers where they are; the return address is not written to the guest.
JCallRecursive ==
    /\ Jitting({I_CALL})
    /\ IsRecursion
    /\ phys' = [i \in Slot |-> IF RegIn(F, i) = SP THEN SPDown ELSE phys[i]]
    /\ regs' = [regs EXCEPT ![SP] = SPDown.v]
    /\ inst' = IF inst = 0 THEN ip ELSE inst
    /\ ip' = 1
    /\ CallInternal
    /\ raxDirty' = TRUE
    /\ UNCHANGED <<mode, fns, fn, patched, result, limit, count, pc, state, mem, out>>

-----------------------------------------------------------------------------
(* Ret pops the guest's return address into the struct, and returns to the *)
(* caller on the host stack all the same.                                  *)
Unwound == SubSeq(hstack, 1, Len(hstack) - (IF inst = 0 THEN 1 ELSE 0))

\* What the epilogue pops is there, and under it a return address.
Balanced ==
    /\ inst = 0 => hstack # <<>> /\ hstack[Len(hstack)].kind = "saved"
    /\ Unwound # <<>> => Unwound[Len(Unwound)].kind = "ret"

Popped == LoadShort(mem, Get(SP).v)

RetInto ==
    LET top  == Unwound[Len(Unwound)]
        rest == SubSeq(Unwound, 1, Len(Unwound) - 1)
        up   == [i \in Slot |-> IF RegIn(F, i) = SP THEN SPUp ELSE phys[i]]
    IN  /\ Jitting({I_RET})
        /\ Balanced
        /\ Unwound # <<>>
        /\ regs' = [IF inst = 0 THEN Stored(Slot) ELSE regs
                      EXCEPT ![SP] = IF inst = 0 \/ ~Mapped(SP) THEN SPUp.v ELSE @]
        /\ pc' = Popped
        /\ fn' = top.fn /\ ip' = top.ip /\ inst' = top.inst
        /\ phys' = IF top.reload THEN LoadedFor(fns[top.fn], regs') ELSE up
        /\ raxDirty' = FALSE   \* rax is 0
        /\ hstack' = rest
        /\ UNCHANGED <<mode, fns, patched, result, limit, count, state, mem, out>>

\* A ret of the function main called ends the program.
RetToMain ==
    /\ Jitting({I_RET})
    /\ Balanced
    /\ Unwound = <<>>
    /\ regs' = [Stored(Slot) EXCEPT ![SP] = SPUp.v]
    /\ pc' = Popped
    /\ hstack' = <<>>
    /\ result' = "returned"
    /\ UNCHANGED <<mode, fns, fn, ip, inst, phys, raxDirty, patched, limit, count,
                   state, mem, out>>

-----------------------------------------------------------------------------
(* The escape hatch of the entry point: the stack pointer is restored and  *)
(* main gets a result.  The internal version of a function does not store  *)
(* its mapped registers first.                                             *)

\* Mutant: no function stores its registers.
Escape_NoStore ==
    /\ hstack' = <<>>
    /\ UNCHANGED <<regs, fns, fn, ip, inst, phys, raxDirty, patched, limit, count, mem, out>>

Escape ==
    /\ regs' = IF inst = 0 THEN Stored(Slot) ELSE regs
    /\ hstack' = <<>>
    /\ UNCHANGED <<fns, fn, ip, inst, phys, raxDirty, patched, limit, count, mem, out>>

PanicAt == C.at

JPanic ==                      \* std or cld: main goes on with the interpreter
    /\ Jitting({I_STD, I_CLD})
    /\ Escape
    /\ pc' = PanicAt
    /\ state' = IF OpC = I_STD THEN 2 + (state % 2) ELSE state
    /\ mode' = "handoff"
    /\ UNCHANGED result

\* The pc of the struct after an invalid opcode, which nothing reads any more:
\* jit.c:521 moves it back once for two operands, jit.c:781 for every opcode.
PcAfterInvalid ==
    Wrap(C.at + (CASE XIS_NUM_OPS(OpC) = 3 -> 2
                   [] XIS_NUM_OPS(OpC) = 2 -> -2
                   [] OTHER -> 0))

JInvalid ==                    \* main returns
    /\ mode = "jit" /\ result = "ok" /\ Sound
    /\ OpC \notin Implemented
    /\ Escape
    /\ pc' = PcAfterInvalid
    /\ result' = "invalid"
    /\ UNCHANGED <<mode, state>>

\* What follows is not defined by the program: a translation without end, an
\* access outside guest memory, a jump through an entry that was never written,
\* a conditional jump whose displacement changed sign, a return through
\* something else than an address.
JWild ==
    /\ mode = "jit" /\ result = "ok"
    /\ \/ ~Sound
       \/ OpC = I_JR /\ Link = "stray"
       \/ OpC = I_BR /\ Link = "stray" /\ state % 2 = 1
       \/ OpC = I_BR /\ Link = "dynamic" /\ state % 2 = 0 /\ ~SkipsCondBlock(F)
       \/ OpC = I_RET /\ ~Balanced
    /\ result' = "wild"
    /\ UNCHANGED <<regs, pc, state, mem, out, limit, count, jitVars>>

-----------------------------------------------------------------------------
\* main.c:43: without a limit, and unless DISABLE_JIT is set, the code at
\* address 0 is compiled and called.
JitInit ==
    /\ Init
    /\ inst = 0 /\ patched = [s \in {} |-> 0] /\ raxDirty = TRUE
    /\ fn = 1 /\ ip = 1 /\ phys = Nothing
    /\ \/ /\ limit = 0 /\ result = "ok"
          /\ mode = "jit"
          /\ fns = <<Prepare(mem, 0)>>
          /\ hstack = <<SavedRegs>>
       \/ /\ limit # 0 \/ result # "ok"
          /\ mode = "interp"
          /\ fns = <<>>
          /\ hstack = <<>>

JitCompiled ==
    \/ JLoadI \/ JMov \/ JArith \/ JDivByZero \/ JShl \/ JCompare \/ JUnary
    \/ JLoad \/ JLoadB \/ JStor \/ JStorB \/ JPush \/ JPop \/ JOut
    \/ JrLinked \/ BrLinked \/ JrDynamic \/ BrDynamic \/ BrNotTaken
    \/ JJmp \/ JJmpR \/ JCallR \/ JCall \/ JCallRecursive \/ RetInto \/ RetToMain
    \/ JPanic \/ JInvalid \/ JWild

Interpret ==
    /\ mode # "jit"
    /\ Execute
    /\ mode' = "interp"
    /\ UNCHANGED <<fns, fn, ip, inst, phys, raxDirty, hstack, patched>>

JitNext == JitCompiled \/ Interpret

JitSpec == JitInit /\ [][JitNext]_vars

\* The same with a step for a simulator that has ended, so that TLC's deadlock
\* check finds a compiled program that stops with no result.
Ended   == ~Running /\ UNCHANGED vars
EndSpec == JitInit /\ [][JitNext \/ Ended]_vars

-----------------------------------------------------------------------------
(* What the interpreter would be doing. *)
InJit == mode = "jit" /\ result # "returned"

GuestRegs   == IF InJit THEN [r \in RegId |-> Get(r).v] ELSE regs
GuestPc     == IF ~InJit THEN pc ELSE IF result = "invalid" THEN Wrap(C.at + 2) ELSE C.at
GuestState  == IF mode = "handoff" THEN state % 2 ELSE state
GuestResult == IF result = "returned" THEN "ok" ELSE result

Interpreter == INSTANCE XSim WITH
    regs <- GuestRegs, pc <- GuestPc, state <- GuestState, result <- GuestResult

\* jit.h:8, "emulates running some X-CPU instructions on a given cpu state": at
\* every instruction the compiled program has the registers, the memory, the
\* flag and the output that the interpreter has at that instruction.  (This is
\* Interpreter!Spec; its memory is this module's, so that JitInit implies the
\* rest of its initial predicate.)
JitEmulates == Interpreter!CpuInit /\ [][Interpreter!Next]_(Interpreter!simVars)

\* main.c:56, "guest code ran to completion": the simulator only stops after a
\* ret where the interpreter would stop too.
StopsWithInterpreter ==
    result = "returned" => OpcodeOf(LoadShort(mem, pc)) \notin Implemented

\* jit.h:11, "the caller should then use an interpreter": when main hands the
\* program over, the struct holds the registers the compiled code had.
HandoffKeepsRegisters == [][mode' = "handoff" => regs' = GuestRegs]_vars

-----------------------------------------------------------------------------
(* Where compiled code does what the interpreter does, whatever the        *)
(* program: it is at an instruction that is none of the following.         *)

\* jit.c:219: guest memory still holds the instruction that was translated.
UpToDate == C = Translated(mem, C.at)

\* Neither of the two accesses anything outside guest memory.
StaysInside == Sound /\ ~Interpreter!Faults

\* jit.c:427, the source of the comparison that shl runs on into.
ShiftSource ==
    IF SrcC = DstC /\ Mapped(SrcC) THEN ShlW(Get(DstC).v, Get(SrcC).v) ELSE Get(SrcC).v

\* jit.c:502, 427, 508, 583 and 648: the byte order of stor, the flag after shl,
\* loadb into its address register, the stack pointer pushed or popped.
DataAgrees ==
    /\ OpC = I_STOR  => Swap(Get(SrcC).v) = Get(SrcC).v
    /\ OpC = I_SHL   => state = IF ShiftSource < ShlW(Get(DstC).v, Get(SrcC).v) THEN 1 ELSE 0
    /\ OpC = I_LOADB => LoadBAt.v = Get(SrcC).v
    /\ OpC = I_PUSH  => SrcC # SP
    /\ OpC = I_POP /\ SrcC = SP => Mapped(SP)

\* linker.c:45 and jit.c:731: a relative jump inside the function goes to the
\* beginning of an instruction, and the distance over a conditional block fits.
BranchAgrees ==
    /\ OpC = I_JR \/ (OpC = I_BR /\ state = 1) =>
          /\ Link # "stray"
          /\ Link = "linked" => F.code[LinkedTo(F, RelTarget)].at = RelTarget
    /\ OpC = I_BR /\ state = 0 /\ Link = "dynamic" => SkipsCondBlock(F)

\* jit.c:254, 739, 755, 316 and 528: the registers that jmp and jmpr lose, callr,
\* the return address that a recursion does not push and ret does not use.
CallAgrees ==
    /\ OpC = I_JMP  => \A r \in RegId : Mapped(r) => SlotOf(F, r) \notin HostScratch
    /\ OpC = I_JMPR => regs = GuestRegs
    /\ OpC # I_CALLR
    /\ OpC = I_CALL /\ IsRecursion => LoadShort(mem, SPDown.v) = Wrap(C.at + 4)
    /\ OpC = I_RET /\ Unwound # <<>> =>
          LET top == Unwound[Len(Unwound)] IN fns[top.fn].code[top.ip].at = Popped

\* jit.c:841 and 802: a version without preamble is not left by a jump to another
\* function, and by an std or cld only with its registers in the struct.
RecursionAgrees ==
    inst # 0 => /\ OpC \notin {I_JMP, I_JMPR}
                /\ OpC \in {I_STD, I_CLD} => regs = GuestRegs
                /\ OpC = I_JR \/ (OpC = I_BR /\ state = 1) => Link # "dynamic"

\* Compiled code that runs is at none of these exceptions: no store has
\* overwritten the instruction, and registers, jumps, calls and returns are
\* where jit.c and linker.c do for them what xcpu.c does.
Regular ==
    mode = "jit" /\ result = "ok" =>
        /\ StaysInside /\ UpToDate
        /\ DataAgrees /\ BranchAgrees /\ CallAgrees /\ RecursionAgrees

-----------------------------------------------------------------------------
Wides == [v : Word, d : BOOLEAN]

JitTypeOK ==
    /\ regs \in [RegId -> Word] /\ pc \in Word /\ state \in 0 .. 3
    /\ IsMemory(mem)
    /\ result \in Results \cup {"returned", "wild"}
    /\ mode \in {"jit", "handoff", "interp"}
    /\ phys \in [Slot -> Wides]
    /\ raxDirty \in BOOLEAN
    /\ mode = "jit" => fn \in DOMAIN fns /\ ip \in {1} \cup DOMAIN F.code

\* jit_runtime.c:8: an address is compiled once, whatever calls and jumps lead
\* to it and in whatever order; the entry point alone is not in the cache.
CompiledOnce ==
    \A i, j \in 2 .. Len(fns) : fns[i].addr = fns[j].addr => i = j

\* jit_runtime.c:50: a call site that was overwritten goes where call_static
\* would still send it.
PatchedSitesAgree ==
    \A s \in DOMAIN patched : patched[s] \in Cached(fns[s[1]].code[s[3]].ext)

\* jit.c:167 and 842: what a function pops before its ret is what the preamble
\* of some function pushed, through any chain of calls, jumps and recursion; and
\* jit.c:314, "register mapping is guaranteed to be the same": the version of a
\* function without preamble only ever returns into that function.
HostStackBalanced ==
    mode = "jit" /\ result = "ok" =>
        /\ Balanced
        /\ inst # 0 => LET top == hstack[Len(hstack)] IN top.fn = fn /\ ~top.reload
=============================================================================
