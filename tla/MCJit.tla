------------------------------- MODULE MCJit -------------------------------
(***************************************************************************)
(* Families of programs for the compiled simulator, with every choice of   *)
(* instructions in the places each family leaves open.                     *)
(***************************************************************************)
EXTENDS JitMachine

R1(op, r)    == op * 256 + r * 16
R2(op, s, d) == op * 256 + s * 16 + d
Rel(op, d)   == op * 256 + (d % 256)
LoadImm(v, r) == <<R1(I_LOADI, r), v>>

Bytes(ws) ==
    [i \in 1 .. 2 * Len(ws) |->
        IF (i % 2) = 1 THEN ws[(i + 1) \div 2] \div 256 ELSE ws[i \div 2] % 256]

\* Instructions that compiled code and interpreter agree on: r5 holds addresses
\* below the return address, and is never the destination of an add or a not.
Plain ==
    {R2(op, 1, 2) : op \in {I_ADD, I_SUB, I_MUL, I_DIV, I_AND, I_OR, I_XOR, I_SHR,
                             I_TEST, I_CMP, I_EQU, I_MOV}}
    \cup {R2(I_ADD, 2, 2), R2(I_LOAD, 5, 1), R2(I_LOAD, 15, 2), R2(I_LOADB, 5, 2),
          R2(I_STORB, 2, 5), R2(I_MOV, 15, 3), R2(I_DIV, 4, 2), R2(I_SUB, 1, 5)}
    \cup {R1(I_NEG, 2), R1(I_DEC, 5), R1(I_INC, 3), R1(I_OUT, 2), R1(I_NOT, 3)}

Forward == {Rel(I_BR, 4), Rel(I_JR, 2), Rel(I_JR, 4)}

\* main: sp, two registers and an address, a, call f, b, call f, stop.
\* f: push, c, d, pop, ret.
Program(a, b, c, d) ==
    LoadImm(1024, 15) \o LoadImm(3, 1) \o LoadImm(1020, 5)
    \o <<a, R1(I_INC, 4), R1(I_CALL, 0), 30, b, R1(I_CALL, 0), 30, 0, 0>>
    \o <<R1(I_PUSH, 1), c, d, R1(I_POP, 1), R1(I_RET, 0)>>

MCPrograms ==
    {Bytes(Program(a, R1(I_INC, 2), c, d)) :
        a \in Plain \cup Forward, c \in Plain \cup Forward, d \in Plain}

-----------------------------------------------------------------------------
(* Control flow between three blocks that are compiled apart, with every   *)
(* way to pass control on.  Block B counts r1 down and is only reached     *)
(* while r1 is above 0, so every loop ends.  No block maps more than three *)
(* registers.                                                              *)
At(ws, n) == ws \o [i \in 1 .. n \div 2 - Len(ws) |-> 0]

Jump(op, from, to) == <<Rel(op, to - from + 256)>>
CallTo(t)            == <<R1(I_CALL, 0), t>>
WhileR1(from, to)  == <<R2(I_TEST, 1, 1)>> \o Jump(I_BR, from + 2, to)

\* At 0: sp, r1 = n, flow, count up r2, stop.  The flow is at 8.
BlockA(n, flow) == LoadImm(1024, 15) \o LoadImm(n, 1) \o flow \o <<R1(I_INC, 2), 0>>
FlowA == {<<R1(I_JMP, 0), 64>>, CallTo(64), Jump(I_JR, 8, 64), CallTo(96), WhileR1(8, 64)}

\* At 64: count r1 down, flow, print r1, return.  The flow is at 66.
BlockB(flow) == <<R1(I_DEC, 1)>> \o flow \o <<R1(I_OUT, 1), R1(I_RET, 0)>>
FlowB == {WhileR1(66, 64), WhileR1(66, 96), WhileR1(66, 8), WhileR1(66, 72) \o <<R1(I_INC, 2)>>,
          Jump(I_JR, 66, 96), <<R1(I_JMP, 0), 96>>, CallTo(96), CallTo(96) \o CallTo(96)}

\* At 96: print r2, flow, return.
BlockC(flow) == <<R1(I_OUT, 2)>> \o flow \o <<R1(I_INC, 2), R1(I_RET, 0)>>
FlowC == {<<>>, WhileR1(98, 64)}

MCFlow == {Bytes(At(BlockA(n, a), 64) \o At(BlockB(b), 32) \o BlockC(c)) :
               n \in 1 .. 4, a \in FlowA, b \in FlowB, c \in FlowC}

-----------------------------------------------------------------------------
(* A function that calls itself n times, with any instruction of Odd in    *)
(* three places, those the interpreter disagrees with included: so only    *)
(* what does not depend on the guest's values is checked of them.  A callr *)
(* would bring an old count back in the place before the recursive call.   *)
Odd == {<<R2(I_SHL, 1, 2)>>, <<R2(I_STOR, 1, 15)>>, <<R1(I_INC, 2)>>, CallTo(80),
        <<R2(I_LOADB, 2, 2)>>, <<R1(I_POP, 15)>>, <<R1(I_NOT, 15)>>}
ByRegister == <<R1(I_CALLR, 6)>>

\* At 0: sp, address 80, x, r1 = n, call 40, then stop or jump to 80.
Caller(n, x, y) ==
    LoadImm(1024, 15) \o LoadImm(80, 6) \o x \o LoadImm(n, 1) \o CallTo(40) \o y
Stop == <<0>>
Leave == LoadImm(80, 6) \o <<R1(I_JMPR, 6)>>

\* At 40: push r1, count it down, p, and unless it is 0 call 40; q, pop, ret.
Recursive(p, q) ==
    <<R1(I_PUSH, 1), R1(I_DEC, 1)>> \o p \o <<R2(I_TEST, 1, 1)>>
    \o Jump(I_BR, 6, 10) \o Jump(I_JR, 8, 14) \o CallTo(40)
    \o q \o <<R1(I_POP, 1), R1(I_RET, 0)>>

MCRecursion ==
    {Bytes(At(Caller(n, x, y), 40) \o At(Recursive(p, q), 40) \o <<R1(I_INC, 2), R1(I_RET, 0)>>) :
        n \in 1 .. 3, x \in Odd \cup {ByRegister}, p \in Odd, q \in Odd \cup {ByRegister},
        y \in {Stop, Leave}}

-----------------------------------------------------------------------------
(* The flows of MCFlow between calls, with an std or a cld in any of the   *)
(* blocks: the interpreter takes over in the middle of a call, a jump or a *)
(* loop.                                                                   *)
Panics == {<<>>, <<R1(I_STD, 0)>>, <<R1(I_CLD, 0)>>}

MCHandoff ==
    {Bytes(At(BlockA(n, a \o pa), 64) \o At(BlockB(b \o pb), 32) \o BlockC(pc1)) :
        n \in 1 .. 2, a \in {CallTo(64), CallTo(96)}, b \in FlowB,
        pa \in Panics, pb \in Panics, pc1 \in Panics}

\* The programs that compiled code and interpreter agree on.
MCCompiled == MCPrograms \cup MCFlow \cup MCHandoff

-----------------------------------------------------------------------------
(* Programs at the edges of the translation, where the generated code does *)
(* something the program does not define: jumps to the word after the last *)
(* one and branches over blocks of every size.                             *)

\* r1 = 1, ..., rn = n.
Fill(n) ==
    [i \in 1 .. 2 * n |-> IF (i % 2) = 1 THEN R1(I_LOADI, (i + 1) \div 2) ELSE i \div 2]

Astray(op) == <<R2(I_TEST, 1, 2), Rel(op, 4), 0, R1(I_OUT, 1), 0>>

PastTheEnd(n, op) == Bytes(Fill(n) \o Astray(op))

\* The same after two calls of the function at 40.
AfterCalls(n, op) ==
    Bytes(At(LoadImm(1024, 15) \o Fill(n) \o CallTo(40) \o CallTo(40) \o Astray(op), 40)
          \o <<R1(I_INC, 2), R1(I_RET, 0)>>)

LongBranch(n, flag) ==
    Bytes(Fill(n) \o <<R2(I_EQU, 1, flag), Rel(I_BR, 100), 0>>)

\* The function at 40 counts r1 down and calls itself until it is 0, when it
\* leaves for the function at 80.
LeaveRecursion(n) ==
    Bytes(At(At(Caller(n, <<>>, Stop), 40)
             \o <<R1(I_DEC, 1), R2(I_TEST, 1, 1)>> \o Jump(I_BR, 44, 48) \o Jump(I_JR, 46, 80)
             \o CallTo(40) \o <<R1(I_RET, 0)>>, 80)
          \o <<R1(I_INC, 2), R1(I_RET, 0)>>)

MCEdges ==
    {PastTheEnd(n, op) : n \in 1 .. 4, op \in {I_JR, I_BR}}
    \cup {AfterCalls(n, op) : n \in 1 .. 4, op \in {I_JR, I_BR}}
    \cup {LongBranch(n, flag) : n \in 1 .. 7, flag \in {1, 2}}

\* The programs that only what does not depend on the guest's values is checked of.
MCUncompared == MCRecursion \cup MCEdges
=============================================================================
