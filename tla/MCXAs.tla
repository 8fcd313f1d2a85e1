------------------------------- MODULE MCXAs -------------------------------
(***************************************************************************)
(* Sources for the assembler: every sequence of up to MaxLines lines of a  *)
(* small repertoire, every malformed line behind a good one, and programs  *)
(* at the limits of a branch's reach and of the memory.                    *)
(***************************************************************************)
EXTENDS Assembly

CONSTANT MaxLines

A == <<97>>                                    \* a name of one letter
F == <<102, 110>>                              \* the library's function
M == <<109>>                                   \* what the library calls
R == <<114, 50, 48>>                            \* r20, a name and no register
N == [i \in 1 .. 80 |-> 110]                   \* the longest name that is always stored

Lab(name)    == [kind |-> "LABEL", value |-> name]
Op(op)       == [kind |-> "INSTRUCTION", value |-> op]
Reg(r)       == [kind |-> "REGISTER", value |-> r]
Num(v)       == [kind |-> "INT", value |-> v]
Dir(d)       == [kind |-> "DIRECTIVE", value |-> d]
Str(bytes)   == [kind |-> "LITERAL", value |-> bytes]
Mark(kind)   == [kind |-> kind, value |-> ""]
Colon        == Mark("COLON")
Comma        == Mark("COMMA")

Jump(name)   == <<Op(I_JMP), Lab(name)>>
Call(name)   == <<Op(I_CALL), Lab(name)>>
Branch(name) == <<Op(I_BR), Lab(name)>>
Gap(n)       == <<Dir(".words"), Num(n)>>
At(name, statement) == <<Lab(name), Colon>> \o statement
Export(name) == <<Dir(".glob"), Lab(name)>>

Repertoire ==
    {At(A, <<>>), At(A, <<Op(I_RET)>>), Branch(A), Jump(A), Export(A),
     <<Op(I_LOADI), Lab(A), Comma, Reg(1)>>, <<Op(I_LOADI), Num(-1000), Comma, Reg(15)>>,
     <<Op(I_ADD), Reg(2), Comma, Reg(3)>>, At(M, Call(F)), Export(M), Export(F),
     <<Dir(".literal"), Str(<<120, 121>>)>>, <<Dir(".literal"), Num(-65536)>>, Gap(2)}

Malformed ==
    {<<Lab(A)>>, <<Lab(A), Op(I_RET)>>, At(A, At(A, <<>>)), <<Op(I_RET), Comma>>,
     <<Op(I_PUSH)>>, <<Op(I_PUSH), Num(1)>>, <<Op(I_ADD), Reg(1), Reg(2)>>,
     <<Op(I_BR), Num(4)>>, Branch(A) \o <<Comma>>, <<Op(I_LOADI), Lab(A), Comma>>,
     <<Op(I_LOADI), Num(1), Comma, Reg(1), Mark("BAD_TOKEN")>>, <<Op(I_JMP), Mark("BAD_INT")>>,
     <<Dir(".literal")>>, <<Dir(".literal"), Mark("BAD_LITERAL")>>,
     <<Dir(".literal"), Num(65536)>>, <<Dir(".words"), Reg(1)>>, Gap(0), Gap(-3),
     <<Dir(".glob"), Num(1)>>, <<Num(1)>>, <<Comma>>}

UpTo(n) == UNION {[1 .. k -> Repertoire] : k \in 0 .. n}

Limits ==
    {<<At(A, <<>>), Gap(64), Branch(A)>>, <<At(A, <<>>), Gap(65), Branch(A)>>,
     <<Branch(A), Gap(62), At(A, <<>>)>>, <<Branch(A), Gap(63), At(A, <<>>)>>,
     <<Gap(32760), Gap(1)>>, <<Gap(32760), <<Op(I_RET)>>, Gap(1)>>,
     <<Gap(32750), At(A, Jump(A))>>, <<Gap(32760), Jump(A)>>, <<Gap(32767), Gap(1)>>,
     <<Gap(32767), Gap(1), Jump(A)>>, <<Gap(32767), Gap(2), <<Comma>>>>,
     <<Gap(32746), Export(A), At(A, Jump(A))>>, <<Gap(32764), Export(N)>>,
     <<Export(R), Jump(R), At(R, Call(R)), Branch(R)>>, <<Jump(R), At(R, <<>>)>>,
     <<Export(M), Export(F), At(M, Call(F)), Branch(M), At(A, Jump(A))>>,
     <<Export(M), Export(F), Gap(56), Branch(F), At(M, <<Op(I_RET)>>)>>,
     <<Export(M), Export(F), Branch(F), Gap(62), At(M, <<Op(I_RET)>>)>>}

MCPrograms ==
    UpTo(MaxLines) \cup Limits
    \cup {<<At(A, <<>>), bad>> : bad \in Malformed} \cup {<<bad>> : bad \in Malformed}

-----------------------------------------------------------------------------
(* The library: "jmp fn; fn: call m; call fn", with fn and m global.       *)
LibraryTable ==
    LET named  == xreloc_global(xreloc_global(xreloc_symbol(EmptyTable, 4, F).table, F), M)
        inner  == xreloc_symbol(named, 4, A).table
        jump   == xreloc_reloc(inner, 2, 16, A, XRELOC_ABSOLUTE).table
        call   == xreloc_reloc(jump, 6, 16, M, XRELOC_ABSOLUTE).table
    IN  xreloc_reloc(call, 10, 16, F, XRELOC_ABSOLUTE).table

LibraryCode ==
    Write(Nothing, 0, <<I_JMP, 0, 0, 0, I_CALL, 0, 0, 0, I_CALL, 0, 0, 0>>)

MCLibrary ==
    LET code   == xreloc_relocate(LibraryTable, LibraryCode)
        stored == xreloc_store_table(code.table, code.mem, 12, 0)
    IN  [file |-> stored.mem, size |-> stored.size,
         code_size |-> 12, function |-> F, at |-> 4, calls |-> M]

MCBases == {0, 256}

\* .words with counts whose low 16 bits have another sign.
WordsPrograms ==
    {<<<<Op(I_RET)>>, Gap(n), Jump(A), At(A, <<Op(I_RET)>>)>> : n \in {1, 32767, 32768, -65535}}
=============================================================================
