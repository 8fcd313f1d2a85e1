------------------------------- MODULE MCXSim -------------------------------
(***************************************************************************)
(* Every program of MCLength instructions over a small alphabet.           *)
(***************************************************************************)
EXTENDS XSim, FiniteSets

CONSTANT MCLength

Word2(w) == <<w \div 256, w % 256>>
R1(op, r)   == op * 256 + r * 16
R2(op, s, d) == op * 256 + s * 16 + d

\* One instruction as a sequence of words.
Alphabet ==
    {<<R2(op, 1, 2)>> : op \in {I_ADD, I_SUB, I_MUL, I_DIV, I_AND, I_XOR, I_SHL, I_SHR,
                                 I_TEST, I_CMP, I_EQU, I_MOV, I_LOAD, I_LOADB, I_STOR, I_STORB}}
    \cup {<<R1(op, 1)>> : op \in {I_NEG, I_NOT, I_INC, I_PUSH, I_POP, I_JMPR, I_CALLR, I_OUT}}
    \cup {<<op * 256>> : op \in {I_RET, I_CLD, I_STD, I_BAD}}
    \cup {<<R1(I_DEC, 15)>>, <<R2(I_OR, 15, 1)>>, <<R1(I_PUSH, 15)>>, <<R1(I_POP, 15)>>}
    \cup {<<I_BR * 256 + 4>>, <<I_JR * 256 + 254>>, <<I_JR * 256 + 5>>}
    \cup {<<I_JMP * 256, 65535>>, <<I_CALL * 256, 2>>, <<R1(I_LOADI, 1), 65535>>, <<192 * 256, 7>>}

Bytes(ws) == [i \in 1 .. 2 * Len(ws) |-> Word2(ws[(i + 1) \div 2])[((i + 1) % 2) + 1]]

Programs[n \in Nat] ==
    IF n = 0 THEN {<<>>} ELSE {p \o i : p \in Programs[n - 1], i \in Alphabet}

\* Larger than memory.
Oversized == [i \in 1 .. 65537 |-> 1]

MCImages == {Bytes(p) : p \in Programs[MCLength]} \cup {<<97>>, Oversized}
MCLimits == {-1, 3}
=============================================================================
