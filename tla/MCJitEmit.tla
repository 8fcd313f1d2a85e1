----------------------------- MODULE MCJitEmit -----------------------------
(***************************************************************************)
(* Functions to translate, and what the bytes generated for them do when   *)
(* the processor of X64Machine executes them.  A machine that a property   *)
(* looks at several times is bound by \A over a set of one, which TLC      *)
(* evaluates once.                                                         *)
(***************************************************************************)
EXTENDS JitEmit, X64Machine
LOCAL INSTANCE TLC

R1(op, r)    == op * 256 + r * 16
R2(op, s, d) == op * 256 + s * 16 + d
Rel(op, d)   == op * 256 + (d % 256)

Bytes(ws) ==
    [i \in 1 .. 2 * Len(ws) |->
        IF (i % 2) = 1 THEN ws[(i + 1) \div 2] \div 256 ELSE ws[i \div 2] % 256]

\* jit_prepare for the words ws at an address; version is <<is_entrypoint, internal_abi>>.
Request(ws, at, version) ==
    LET b == Bytes(ws)
    IN  [program |-> [a \in {at + i - 1 : i \in {j \in DOMAIN b : b[j] # 0}} |-> b[a - at + 1]],
         address |-> at, is_entrypoint |-> version[1], internal_abi |-> version[2]]

Ordinary == <<FALSE, FALSE>>
Entry    == <<TRUE, FALSE>>
Internal == <<FALSE, TRUE>>
Versions == {Ordinary, Entry, Internal, <<TRUE, TRUE>>}

\* r1 = 1, ..., rn = n, twice over.
Fill(n)  == [i \in 1 .. 2 * n |-> IF (i % 2) = 1 THEN R1(I_LOADI, (i + 1) \div 2) ELSE i \div 2]
Again(n) == [i \in 1 .. n |-> R1(I_INC, i)]

\* Seven registers are used more than the others, or none is.
Heads == {<<>>, [i \in 1 .. 7 |-> R2(I_MOV, i, (i % 7) + 1)]}

\* The straight instructions on registers in the table, in the struct, or one in each.
TwoOps == {I_ADD, I_SUB, I_MUL, I_DIV, I_AND, I_OR, I_XOR, I_SHR, I_SHL, I_EQU, I_TEST, I_CMP, I_MOV,
           I_LOAD, I_STOR, I_LOADB, I_STORB}
OneOps == {I_NEG, I_NOT, I_INC, I_DEC, I_PUSH, I_POP, I_OUT}
Pairs  == {<<1, 2>>, <<7, 9>>, <<8, 3>>, <<10, 11>>, <<5, 5>>, <<12, 12>>}
Ends   == {R1(I_RET, 0), R1(I_STD, 0), R1(I_CLD, 0), 0, R2(191, 1, 2), R1(127, 3), R1(255, 0)}

StraightRequests ==
    {Request(h \o <<R2(op, p[1], p[2]), R1(I_RET, 0)>>, 0, Ordinary) :
        h \in Heads, op \in TwoOps, p \in Pairs}
    \cup {Request(h \o <<R1(op, r), 513, R1(I_RET, 0)>>, 0, Ordinary) :
        h \in Heads, op \in OneOps \cup {I_LOADI}, r \in {2, 7, 9, 15}}
    \cup {Request(h \o <<R1(I_PUSH, 2), e>>, 0, v) : h \in Heads, e \in Ends, v \in Versions}

\* A jump and a branch in every direction, with n registers in the table.
Flow(n, op, d, e) ==
    Fill(n) \o <<R2(I_TEST, 1, 2), Rel(op[1], d), R1(I_INC, 1), R1(I_OUT, 1), Rel(op[2], 4), R1(I_DEC, 2), e>>

FlowRequests ==
    {Request(Flow(n, op, d, v[1]), v[2], v[3]) :
        n \in {0, 3, 6, 7}, op \in {<<I_BR, I_JR>>, <<I_JR, I_BR>>}, d \in {252, 254, 0, 2, 6, 10, 12, 100},
        v \in {<<R1(I_RET, 0), 0, Entry>>, <<R1(I_RET, 0), 64, Internal>>, <<0, 64, Ordinary>>}}

\* Calls, jumps and recursion.
Calling(n, t, op, r, e) ==
    Fill(n) \o <<R1(I_CALL, 0), t, R1(op, 3), 80, R1(I_CALL, 0), 80, R1(r, 4), e>>

CallRequests ==
    {Request(Calling(n, t, op, r, v[1]), 0, v[2]) :
        n \in {0, 4, 7}, t \in {0, 64}, op \in {I_CALL, I_JMP}, r \in {I_JMPR, I_CALLR, I_INC},
        v \in {<<R1(I_RET, 0), Ordinary>>, <<R1(I_RET, 0), Internal>>, <<R1(I_CLD, 0), Entry>>}}

\* As much code as 81 instructions can have: calls with seven registers in the table,
\* the stack pointer not among them.
Longest ==
    Request(Fill(7) \o [i \in 1 .. 146 |-> IF (i % 2) = 1 THEN R1(I_CALL, 0) ELSE 80] \o <<0>>, 0, Entry)

MCRequested == StraightRequests \cup FlowRequests \cup CallRequests \cup {Longest}

MCHost == [memory |-> 1048576, internal |-> 2097152, state |-> 3145728, program |-> 4194304,
           cpu |-> 5242880, stack |-> 6291464, callee |-> 7340032, jump_dynamic |-> 8388608,
           call_dynamic |-> 9437184, call_static |-> 10485760, putchar |-> 11534336]

-----------------------------------------------------------------------------
\* The function as JitMachine sees it.
Function == Prepare(program, address)

(* Guests, and the machine that holds one at a position of the code. *)
Guest(regs, flag) == [regs |-> regs, flag |-> flag, mem |-> program]

Guests ==
    {Guest([r \in RegId |-> 258 * r + 3], 0),
     Guest([r \in RegId |-> IF (r % 2) = 0 THEN 65534 - r ELSE r], 1),
     Guest([r \in RegId |-> 513], 0)}

OfCpu(v) == Host.cpu + 2 * v
Stale    == 48879
Anything == 1118481

\* The struct holds the flag and the registers that the table does not hold.
CpuBytes(g) ==
    LET word(v) == IF v = FLAGS_INDEX THEN g.flag ELSE IF v = PC_INDEX \/ Mapped(v) THEN Stale
                   ELSE g.regs[v]
    IN  [a \in Host.cpu .. Host.cpu + 35 |->
            LET w == word((a - Host.cpu) \div 2)
            IN  IF ((a - Host.cpu) % 2) = 0 THEN w % 256 ELSE w \div 256]

GuestBytes(g) == [a \in {Host.program + x : x \in DOMAIN g.mem} |-> g.mem[a - Host.program]]

Machine(r, m, at) ==
    [r |-> r, m |-> m, zf |-> FALSE, cf |-> FALSE, ip |-> at, calls |-> <<>>, end |-> "", out |-> 0]

Holding(g, at) ==
    Machine([k \in 0 .. 15 |-> CASE k = RBX -> Host.cpu
                                 [] k = RSP -> Host.stack
                                 [] k = VMEM_BASE_REG -> Host.program
                                 [] k \in 8 .. 14 /\ mapped[k - 8] # Unused -> g.regs[mapped[k - 8]]
                                 [] OTHER -> Anything],
            GuestBytes(g) @@ CpuBytes(g), at)

\* What a machine holds for the guest: its registers, in the table or all in the struct.
InStruct(m)    == [v \in RegId |-> MemRead(m, OfCpu(v), 16)]
RegistersOf(s) == [v \in RegId |-> IF Mapped(v) THEN s.r[Holds(v, RAX)] % 65536
                                   ELSE MemRead(s.m, OfCpu(v), 16)]
FlagOf(s)      == MemRead(s.m, OfCpu(FLAGS_INDEX), 16)
HoldsMemory(m, mem) ==
    /\ \A a \in DOMAIN mem : MemByte(m, Host.program + a) = mem[a]
    /\ \A b \in DOMAIN m :
          b >= Host.program /\ b < Host.program + PhysSize => m[b] = Peek(mem, b - Host.program)

\* What generated code keeps for its caller and for itself.
KeepsFrame(s, rsp) ==
    s.end = "" /\ s.r[RBX] = Host.cpu /\ s.r[VMEM_BASE_REG] = Host.program /\ s.r[RBP] = Anything
    /\ s.r[RSP] = rsp

Fuel == 400

\* From at to the end of the code just written, in at most so many calls.
Through(g, at, end, code) == Run(Holding(g, at), code, {end}, 3, Fuel)

-----------------------------------------------------------------------------
(* Straight code. *)

\* What xcpu.c makes of a guest; stor in the order of bytes that the compiled one has.
Interpreted(g) ==
    LET s  == g.regs[Src]
        d  == g.regs[Dst]
        sp == g.regs[SP]
        set(r, v)  == [g EXCEPT !.regs[r] = v]
    IN  CASE Op = I_LOADI      -> set(Src, Ext)
          [] Op \in ArithOps   -> set(Dst, Arith(Op, d, s))
          [] Op \in CompareOps -> [g EXCEPT !.flag = IF Compare(Op, s, d) THEN 1 ELSE 0]
          [] Op \in UnaryOps   -> set(Src, Unary(Op, s))
          [] Op = I_MOV        -> set(Dst, s)
          [] Op = I_LOAD       -> set(Dst, LoadShort(g.mem, s))
          [] Op = I_LOADB      -> set(Dst, Peek(g.mem, s))
          [] Op = I_STOR       -> [g EXCEPT !.mem = WriteShort(@, d, switch_endianness(s))]
          [] Op = I_STORB      -> [g EXCEPT !.mem = Poke(@, d, s % 256)]
          [] Op = I_PUSH       -> [g EXCEPT !.regs[SP] = sp - 2, !.mem = WriteShort(@, sp - 2, s)]
          [] Op = I_POP        -> LET p == set(Src, LoadShort(g.mem, sp)) IN [p EXCEPT !.regs[SP] = @ + 2]
          [] OTHER             -> g

\* Where the two are known to differ, and what no guest may do.
Excluded(g) ==
    \/ Op = I_LOADB /\ Src = Dst /\ Mapped(Src)
    \/ Op = I_PUSH /\ Src = SP
    \/ Op = I_POP /\ Src = SP /\ ~Mapped(SP)
    \/ Op = I_DIV /\ g.regs[Src] = 0

\* jit.c:216: the bytes written for an instruction, executed with any registers in the
\* table, in the struct or in both, leave in them, in the flag and in guest memory what
\* the interpreter leaves; out hands the character to putchar; and nothing else that
\* the generated code relies on is lost.
StraightCodeAgrees ==
    [][TranslateStraight =>
        \A g \in Guests :
            \A s \in {Through(g, gen_ptr, gen_ptr', memory')}, i \in {Interpreted(g)} :
                ~Excluded(g) =>
                    /\ s.ip = gen_ptr' /\ KeepsFrame(s, Host.stack)
                    /\ RegistersOf(s) = i.regs
                    /\ Op # I_SHL => FlagOf(s) = i.flag
                    /\ HoldsMemory(s.m, i.mem)
                    /\ [k \in DOMAIN s.calls |-> <<s.calls[k].to, s.calls[k].r[RDI] % 256>>] =
                           (IF Op = I_OUT THEN <<<<Host.putchar, g.regs[Src] % 256>>>> ELSE <<>>)]_emitVars

-----------------------------------------------------------------------------
(* Control transfers. *)
Called(s, k)      == s.calls[k]
WithReturn(g, sp) == WriteShort(g.mem, sp, After)

\* What another function may leave in the struct.
Changed(m) == [a \in Host.cpu .. Host.cpu + 31 |-> 255 - MemByte(m, a)] @@ m

\* The callee is given the struct with all the guest's registers in it, and the return
\* address on the guest's stack.
ReceivesGuest(c, g) ==
    LET sp == Wrap(g.regs[SP] - 2)
    IN  /\ c.r[RDI] = Host.cpu /\ c.r[RSP] = Host.stack
        /\ InStruct(c.m) = [g.regs EXCEPT ![SP] = sp]
        /\ HoldsMemory(c.m, WithReturn(g, sp))

\* What the callee leaves is what goes on with.
Resumes(s, end, code) ==
    \A after \in {Run([s EXCEPT !.m = Changed(@), !.calls = <<>>], code, {end}, 1, Fuel)} :
        after.ip = end /\ KeepsFrame(after, Host.stack) /\ RegistersOf(after) = InStruct(after.m)

AsksFor(c, func, to) == c.to = func /\ c.r[RDI] = Host.program /\ c.r[RSI] = to

\* jit.c:260: a call asks the runtime for its target, and where to write it down; then
\* it is made with the whole guest in the struct, and goes on with what the callee left
\* there.  A function that calls itself keeps its registers.
CallsHandOver ==
    [][\A g \in Guests :
        /\ TranslateCall =>
             \A s \in {Run(Holding(g, gen_ptr), memory', {gen_ptr'}, 2, Fuel)} :
                 /\ Len(s.calls) = 2 /\ AsksFor(Called(s, 1), Host.call_static, Ext)
                 /\ Called(s, 1).r[RDX] = Host.memory + sites'[Len(sites')]
                 /\ Called(s, 2).to = Leavings /\ ReceivesGuest(Called(s, 2), g)
                 /\ Resumes(s, gen_ptr', memory')
        /\ TranslateRecursion =>
             \A s \in {Run(Holding(g, gen_ptr), memory', {gen_ptr'}, 1, Fuel)} :
                 /\ Len(s.calls) = 1
                 /\ Called(s, 1).to = IF internal_abi THEN Host.memory ELSE Host.internal
                 /\ RegistersOf(Called(s, 1)) = [g.regs EXCEPT ![SP] = Wrap(@ - 2)]
                 /\ MemRead(s.m, OfCpu(SP), 16) = Wrap(g.regs[SP] - 2)]_emitVars

\* jit_runtime.c:53: a call site that call_static has overwritten makes the same call
\* without asking, goes on where it did, and no byte outside of it has changed.
SitesKeepTheirSize ==
    [][CallStatic =>
        \A at \in {Head(sites)}, g \in {CHOOSE h \in Guests : TRUE} :
        \A old \in {Run(Holding(g, at), memory, {}, 2, Fuel)},
           new \in {Run(Holding(g, at), memory', {}, 1, Fuel)} :
            /\ Len(memory') = Len(memory)
            /\ \A p \in DOMAIN memory : p \notin at + 1 .. at + 35 => memory'[p] = memory[p]
            /\ new.ip = old.ip /\ Called(new, 1).to = Host.callee
            /\ Called(new, 1).r[RDI] = Called(old, 2).r[RDI]]_emitVars

\* A jump leaves with the address that the runtime gave it.  The table's first four
\* registers, which the runtime may overwrite, are loaded again.
LeavesFor(s, g, to) ==
    /\ s.end = "jmp" /\ s.out = Leavings
    /\ Len(s.calls) = 1 /\ AsksFor(Called(s, 1), Host.jump_dynamic, to)
    /\ InStruct(Called(s, 1).m) = g.regs
    /\ KeepsFrame([s EXCEPT !.end = ""], Host.stack)
    /\ RegistersOf(s) = g.regs

\* jit.c:664 and 690: as long as they are not linked, jr and a taken br leave with the
\* whole guest in the struct and the stack as it was; a br that is not taken goes on
\* after its code, if that is short enough for the jump over it.
JumpsHandOver ==
    [][TranslateJr \/ TranslateBr => \A g \in Guests :
        \A s \in {Through(g, gen_ptr, gen_ptr', memory')} :
            /\ TranslateJr => LeavesFor(s, g, target)
            /\ TranslateBr /\ g.flag = 1 => LeavesFor(s, g, target)
            /\ TranslateBr /\ g.flag = 0 /\ SkipsCondBlock(Function) =>
                   s.ip = gen_ptr' /\ s.calls = <<>> /\ RegistersOf(s) = g.regs]_emitVars

\* linker.c:53: a jump or a branch that the linker overwrites goes to the code of its
\* target, or on after the code it replaced, by no way but relative jumps, and with all
\* registers as they are; no byte outside of the replaced code changes.
LinkedJumpsArrive ==
    [][LinkNext =>
        LET req    == Head(link_requests)
            k      == ((req.target - address) \div 2) + 1
            end    == req.from + req.length
            linked == req.target >= address /\ k \in DOMAIN instr_mapping
        IN  /\ Len(memory') = Len(memory)
            /\ \A p \in DOMAIN memory : p \notin req.from + 1 .. end => memory'[p] = memory[p]
            /\ linked => \A g \in Guests :
                   \A s \in {Run(Holding(g, req.from), memory', {instr_mapping[k], end}, 1, Fuel)} :
                       /\ req.from # instr_mapping[k] /\ s.calls = <<>> /\ KeepsFrame(s, Host.stack)
                       /\ RegistersOf(s) = g.regs
                       /\ s.ip = IF req.type = "LINK_BRANCH_REL" /\ g.flag = 0 THEN end
                                 ELSE instr_mapping[k]]_emitVars

-----------------------------------------------------------------------------
(* The generated function. *)
MaxSwept == 40                 \* translated instructions of a function that is read whole

Ready == phase = "ready" /\ count <= MaxSwept

\* The positions where the code of an instruction, the prologue or the epilogue begins.
Parts == {0, gen_ptr} \cup {instr_mapping[k] : k \in DOMAIN instr_mapping}

\* The instructions of the code, read part by part.
Begins ==
    LET next(p) == CHOOSE q \in Parts : q > p /\ \A o \in Parts : o > p => q <= o
    IN  UNION {StartsFrom(SubSeq(memory, 1, next(p)), p) : p \in Parts \ {gen_ptr}}

\* A jump to the word after the last one.
Strays ==
    LET f == Function
    IN  \E k \in DOMAIN f.code :
            /\ OpcodeOf(f.code[k].instr) \in BranchOps
            /\ LinkKind(f, Wrap(f.code[k].at + SignedLow(f.code[k].instr))) = "stray"

\* jit.c:179 and 731, linker.c:66 and 82, jit_runtime.c:45: the bytes of a function are one
\* sequence of instructions, in which every relative jump, every entry of the container
\* and the point behind the preamble that jumps from other functions go to is the
\* beginning of one.  (A branch over the code of seven registers is not linked only when
\* it leaves the function; an entry that was never written leads anywhere.)
FlowStaysOnInstructions ==
    Ready /\ SkipsCondBlock(Function) /\ ~Strays =>
        LET begins == Begins
        IN  /\ gen_ptr \in begins
            /\ internal_abi \/ is_entrypoint \/ PREAMBLE_LENGTH \in begins
            /\ \A p \in begins \ {gen_ptr} : RelativeTargets(memory, p) \subseteq begins

\* Unless the function is the entry point, the state struct is as the code of one with
\* this caller leaves it.
Earlier(caller) ==
    [a \in IF is_entrypoint THEN {} ELSE Host.state + 8 .. Host.state + 63 |->
        LET k == (a - Host.state) \div 8
            b == (a - Host.state) % 8
        IN  IF b > 3 THEN 0 ELSE (caller[escape_registers[k]] \div (256 ^ b)) % 256]

\* C functions are called with the stack aligned to 16 bytes.
Aligned(s) ==
    \A k \in DOMAIN s.calls : s.calls[k].to # Host.jump_dynamic => s.calls[k].r[RSP] % 16 = 0

\* jit.c:167 and 811: a function that returns, through the escape hatch or not, gives its
\* caller the registers it has to keep and the right result, whatever calls it made; one
\* that jumps out leaves the five registers that its preamble saved on the stack, for the
\* other function to restore.  All but the jumps call with an aligned stack (a jr has
\* pushed a register).
FrameSurvives ==
    Ready /\ ~internal_abi /\ count <= 14 /\ SkipsCondBlock(Function) /\ ~Strays =>
        \A g \in Guests :
        \A caller \in {[k \in 0 .. 15 |-> CASE k = RSP -> Host.stack
                                            [] k = RDI -> Host.cpu
                                            [] OTHER   -> Anything + k]} :
        \A s \in {Run(Machine(caller, GuestBytes(g) @@ CpuBytes(g) @@ Earlier(caller), 0),
                      memory, {}, 40, 700)} :
            /\ s.end # "fault" /\ Aligned(s)
            /\ s.end = "ret" =>
                   /\ \A k \in {RBX, RBP, 12, 13, 14, 15} : s.r[k] = caller[k]
                   /\ s.r[RSP] = Host.stack + 8
                   /\ s.r[RAX] = IF invalid_op /\ emitted_ret THEN 1 ELSE 0
            /\ s.end = "jmp" => s.r[RBX] = Host.cpu /\ s.r[RSP] = Host.stack - 40
=============================================================================
