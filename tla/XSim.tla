-------------------------------- MODULE XSim --------------------------------
(***************************************************************************)
(* main.c without the JIT: load an executable into zeroed memory, then     *)
(* call xcpu_execute until it fails or the instruction limit is reached.   *)
(* A limit of 0 means no limit; the value main.c starts from, and keeps    *)
(* when its argument is not a number, is -1.                               *)
(***************************************************************************)
EXTENDS XCpu

CONSTANTS
    Images,    \* the executables: sequences of bytes
    Limits     \* the values of max_instruction_count

ASSUME XSimAssumption ==
    /\ Images \subseteq Seq(Byte)
    /\ Limits \subseteq Int

VARIABLES
    limit,     \* max_instruction_count
    count      \* instruction_count, kept at 0 when there is no limit to reach

simVars == <<regs, pc, state, mem, out, result, limit, count>>

\* An executable larger than memory is refused before anything is stored.
TooLarge(img) == Len(img) > PhysSize

Loaded(img) ==
    [a \in {i - 1 : i \in {j \in DOMAIN img : img[j] # 0}} |-> img[a + 1]]

Init ==
    /\ CpuInit
    /\ limit \in Limits
    /\ count = 0
    /\ out = <<>>
    /\ \E img \in Images :
         \/ TooLarge(img)  /\ mem = ZeroMemory  /\ result = "refused"
         \/ ~TooLarge(img) /\ mem = Loaded(img) /\ result = "ok"

\* Mutant: the limit is passed by one instruction.
WithinLimit_Late == count = 0 \/ limit = 0 \/ count <= limit

\* The loop tests its limit after an instruction, so one is always executed.
WithinLimit == count = 0 \/ limit = 0 \/ count < limit

Running == result = "ok" /\ WithinLimit

Execute ==
    /\ WithinLimit
    /\ XcpuExecute
    /\ count' = IF limit = 0 THEN 0 ELSE count + 1
    /\ UNCHANGED limit

Next == Execute

Spec     == Init /\ [][Next]_simVars
FairSpec == Spec /\ WF_simVars(Next)

-----------------------------------------------------------------------------
\* Types, of the processor and of the loop around it.
TypeOK ==
    /\ CpuTypeOK
    /\ limit \in Limits
    /\ count \in Nat

\* main.c:63: the loop never executes more than the limit, and never more than
\* the one instruction its do-while form costs when the limit is negative.
LimitRespected == limit # 0 => count <= (IF limit < 1 THEN 1 ELSE limit)

\* xcpu.c:196: when the debug bit is set, what was printed last is the
\* processor as the next instruction finds it, whatever instruction came before.
DumpIsCurrent ==
    Debug(state) /\ result = "ok" =>
        out # <<>> /\ out[Len(out)] = Dump(regs, pc, state)

\* main.c:63: with a limit the program comes to an end, also when it loops.
Terminates == limit # 0 => <>~Running
=============================================================================
