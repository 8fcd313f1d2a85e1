---------------------------- MODULE MCJitFindings ----------------------------
(***************************************************************************)
(* One small program for every way in which the compiled code was found to *)
(* leave what the interpreter does.                                        *)
(***************************************************************************)
EXTENDS MCJit

\* r1..r5 fill five host registers, two of which jump_dynamic may change.
JumpProgram ==
    {Bytes(At(Fill(5) \o <<R1(I_JMP, 0), 64>>, 64) \o <<R1(I_INC, 4), 0>>)}

\* r1 is only in its host register when the program jumps to 64.
JumpRegisterProgram ==
    {Bytes(At(LoadImm(5, 1) \o LoadImm(64, 2) \o <<R1(I_JMPR, 2)>>, 64) \o <<R1(I_INC, 1), 0>>)}

\* The function at 64 returns to where the guest's stack says.
CallRegisterProgram ==
    {Bytes(At(LoadImm(1024, 15) \o LoadImm(64, 2) \o <<R1(I_CALLR, 2), 0>>, 64)
           \o <<R1(I_RET, 0)>>)}

StoreProgram ==
    {Bytes(LoadImm(258, 1) \o LoadImm(1000, 2) \o <<R2(I_STOR, 1, 2), 0>>)}

ShiftProgram ==
    {Bytes(LoadImm(1, 1) \o LoadImm(2, 2) \o <<R2(I_SHL, 1, 2), 0>>)}

\* A jump to the word that follows the function's last one.
PastTheEndProgram == {PastTheEnd(2, I_JR)}

\* Seven mapped registers and a branch, not taken, out of the function.
LongBranchProgram == {LongBranch(7, 2)}

\* The function at 40 counts r1 down and calls itself until it is 0.
RecursionProgram ==
    {Bytes(At(Caller(2, <<>>, Stop), 40) \o Recursive(<<>>, <<>>))}

LeaveRecursionProgram == {LeaveRecursion(2)}

\* The same function with an std where the recursion ends.
StdInRecursionProgram ==
    {Bytes(At(Caller(2, <<>>, Stop), 40)
           \o <<R1(I_INC, 3), R1(I_DEC, 1), R2(I_TEST, 1, 1)>> \o Jump(I_BR, 46, 50)
           \o Jump(I_JR, 48, 54) \o CallTo(40) \o <<R1(I_STD, 0)>>)}

\* 2 + 65535 in a host register, used as an address; and a "not", used as one.
HighBitsPrograms ==
    {Bytes(LoadImm(65535, 1) \o LoadImm(2, 2) \o <<R2(I_ADD, 1, 2), R2(I_LOADB, 2, 3), 0>>),
     Bytes(<<R1(I_NOT, 1), R2(I_LOADB, 1, 2), 0>>)}

LoadByteProgram == {Bytes(LoadImm(1, 1) \o <<R2(I_LOADB, 1, 1), 0>>)}

PushProgram == {Bytes(LoadImm(1000, 15) \o <<R1(I_PUSH, 15), 0>>)}

\* Its ret finds 0 on the guest's stack, the address the program starts at.
ReturnProgram == {Bytes(LoadImm(1000, 15) \o <<R1(I_RET, 0)>>)}

\* Overwrites the inc that comes next with a dec.
SelfModifyingProgram ==
    {Bytes(LoadImm(I_DEC, 1) \o LoadImm(10, 2) \o <<R2(I_STORB, 1, 2), R1(I_INC, 1), 0>>)}
=============================================================================
