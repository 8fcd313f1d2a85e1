-------------------------------- MODULE XAs --------------------------------
(***************************************************************************)
(* xas.c: the assembler's main.  One action assembles one line of the      *)
(* source, which token() has cut into tokens; then the relocations are     *)
(* applied, the table is stored behind the code and the file is written,   *)
(* unless there were errors.                                               *)
(*                                                                         *)
(* A token is its kind and its value: the opcode of a mnemonic, the number *)
(* of a register, an integer, the bytes of a name or a string.             *)
(***************************************************************************)
EXTENDS XReloc

CONSTANT Programs              \* the sources: sequences of lines, of tokens

TokLimit == 84                 \* char tok[85]
ObjSize  == XIS_MEM_SIZE + 85  \* malloc( XIS_MEM_SIZE + 85 )
Directive == {".literal", ".words", ".glob"}

\* What token() can return with the value it comes with; a name or a string has
\* to fit in tok.
IsText(v) == v \in Seq(Byte) /\ Len(v) <= TokLimit

IsToken(tk) ==
    \/ tk.kind \in {"LABEL", "LITERAL"} /\ IsText(tk.value)
    \/ tk.kind = "INSTRUCTION" /\ tk.value \in Byte
    \/ tk.kind = "REGISTER" /\ tk.value \in RegId
    \/ tk.kind = "INT" /\ tk.value \in Int
    \/ tk.kind = "DIRECTIVE" /\ tk.value \in Directive
    \/ tk.kind \in {"COLON", "COMMA", "BAD_TOKEN", "BAD_INT", "BAD_LITERAL"}

ASSUME ProgramsAssumption ==
    \A p \in Programs :
        /\ p \in Seq(UNION {{p[i]} : i \in DOMAIN p})
        /\ \A i \in DOMAIN p : /\ p[i] \in Seq(UNION {{p[i][j]} : j \in DOMAIN p[i]})
                               /\ \A j \in DOMAIN p[i] : IsToken(p[i][j])

VARIABLES
    program,                   \* the source file
    line,                      \* lines read
    pos,                       \* current position in the object
    err,                       \* errors so far
    obj,                       \* the object under construction
    relocs,                    \* its symbols and relocations
    size,                      \* bytes to write
    phase,                     \* the part of main that comes next
    file,                      \* the output file
    status                     \* the exit status

Nothing == [a \in {} |-> 0]

vars == <<program, line, pos, err, obj, relocs, size, phase, file, status>>

Init ==
    /\ program \in Programs
    /\ line = 0 /\ pos = 0 /\ err = 0 /\ size = 0 /\ status = 0
    /\ obj = Nothing
    /\ relocs = EmptyTable
    /\ phase = "assembling"
    /\ file = [is |-> "old", bytes |-> Nothing]

-----------------------------------------------------------------------------
(* The tokens of a line: after the label and its colon, the statement. *)
Kind(toks, i) == IF i <= Len(toks) THEN toks[i].kind ELSE "NO_TOKEN"

Labelled(toks)  == Kind(toks, 1) = "LABEL"
HasColon(toks)  == Kind(toks, 2) = "COLON"
Statement(toks) == IF Labelled(toks) THEN SubSeq(toks, 3, Len(toks)) ELSE toks

Is(stmt, directive) == Kind(stmt, 1) = "DIRECTIVE" /\ stmt[1].value = directive

\* The kinds of operand tokens an instruction takes, in their order.
Operands(op) ==
    CASE XIS_NUM_OPS(op) = 0 -> <<>>
      [] XIS_NUM_OPS(op) = 1 -> IF (op \div 32) % 2 = 1 THEN <<{"LABEL"}>> ELSE <<{"REGISTER"}>>
      [] XIS_NUM_OPS(op) = 2 -> <<{"REGISTER"}, {"COMMA"}, {"REGISTER"}>>
      [] OTHER               -> IF (op \div 32) % 2 = 1
                                THEN <<{"INT", "LABEL"}, {"COMMA"}, {"REGISTER"}>>
                                ELSE <<{"INT", "LABEL"}>>

TakesLabel(op) == Operands(op) # <<>> /\ "LABEL" \in Operands(op)[1]
Extended(op)   == XIS_NUM_OPS(op) = XIS_EXTENDED

WellFormed(stmt) ==
    LET ops == Operands(stmt[1].value)
    IN  /\ Len(stmt) = Len(ops) + 1
        /\ \A i \in DOMAIN ops : stmt[i + 1].kind \in ops[i]

\* The register operands: the last token, and the token before the comma.
Registers(stmt) ==
    LET op == stmt[1].value
    IN  CASE Operands(op) \in {<<>>, <<{"LABEL"}>>, <<{"INT", "LABEL"}>>} -> 0
          [] XIS_NUM_OPS(op) = 2 -> 16 * stmt[2].value + stmt[4].value
          [] OTHER -> 16 * stmt[Len(stmt)].value

\* What getregister leaves in value of a name: r16 to r99 are no registers, but it
\* has read their number.  (r0 to r15 never come as names.)
IsDigit(c)     == c \in 48 .. 57
NumberIn(name) == IF Len(name) = 3 /\ name[1] = 114 /\ IsDigit(name[2]) /\ IsDigit(name[3])
                  THEN 10 * (name[2] - 48) + (name[3] - 48) ELSE 0

\* The value of an extended instruction until its label is relocated.
OperandValue(tk) == IF tk.kind = "INT" THEN tk.value ELSE NumberIn(tk.value)

Encode(stmt) ==
    LET op == stmt[1].value
        v  == IF Extended(op) THEN OperandValue(stmt[2]) ELSE 0
    IN  <<op, Registers(stmt)>> \o (IF Extended(op) THEN <<Hi(v), Lo(v)>> ELSE <<>>)

\* (short) v
Short(v) == ((v + 32768) % WordSize) - 32768

-----------------------------------------------------------------------------
(* One line. *)
Current  == program[line + 1]
Stmt     == Statement(Current)
Labeling == IF Labelled(Current) THEN xreloc_symbol(relocs, pos, Current[1].value)
                                 ELSE [ok |-> TRUE, table |-> relocs]

Count(bad) == IF bad THEN 1 ELSE 0

\* Mutant: pos is not checked after a line.
Line_Unchecked(bytes, advance, errors, table) ==
    /\ phase = "assembling"
    /\ line' = line + 1
    /\ obj' = Write(obj, pos, bytes)
    /\ pos' = pos + advance
    /\ err' = err + Count(~Labeling.ok) + errors + Count(pos' > XIS_MEM_SIZE)
    /\ phase' = "assembling"
    /\ relocs' = table
    /\ UNCHANGED <<program, size, file, status>>

\* What every line does: the label, the bytes at pos, pos and the check of pos.
Line(bytes, advance, errors, table) ==
    /\ phase = "assembling"
    /\ line' = line + 1
    /\ obj' = Write(obj, pos, bytes)
    /\ pos' = pos + advance
    /\ err' = err + Count(~Labeling.ok) + errors + Count(pos' > XIS_MEM_SIZE)
    /\ phase' = IF pos' > XIS_MEM_SIZE THEN "relocating" ELSE "assembling"
    /\ relocs' = table
    /\ UNCHANGED <<program, size, file, status>>

Reading == phase = "assembling" /\ line < Len(program)

MissingColon ==
    /\ Reading /\ Labelled(Current) /\ ~HasColon(Current)
    /\ Line(<<>>, 0, 1, Labeling.table)

Parsed == Reading /\ (Labelled(Current) => HasColon(Current))

Blank ==
    /\ Parsed /\ Stmt = <<>>
    /\ Line(<<>>, 0, 0, Labeling.table)

\* The relocation of a label operand is added as soon as the operand is read,
\* whatever follows it.
OperandReloc(t, st) ==
    IF ~TakesLabel(st[1].value) \/ Kind(st, 2) # "LABEL" THEN [ok |-> TRUE, table |-> t]
    ELSE IF Extended(st[1].value)
         THEN xreloc_reloc(t, pos + 2, 16, st[2].value, XRELOC_ABSOLUTE)
         ELSE xreloc_reloc(t, pos, 8, st[2].value, XRELOC_RELATIVE)

Instruction ==
    /\ Parsed /\ Kind(Stmt, 1) = "INSTRUCTION"
    /\ LET reloc == OperandReloc(Labeling.table, Stmt)
       IN  IF WellFormed(Stmt)
           THEN Line(Encode(Stmt), Len(Encode(Stmt)), Count(~reloc.ok), reloc.table)
           ELSE Line(<<>>, 0, Count(~reloc.ok) + 1, reloc.table)

\* Mutant: a string is not padded to a word.
StringAdvance_Packed(value) == value

StringAdvance(value) == value + (value % 2)

LiteralString ==
    /\ Parsed /\ Is(Stmt, ".literal") /\ Kind(Stmt, 2) = "LITERAL"
    /\ Line(Stmt[2].value \o <<0>>, StringAdvance(Len(Stmt[2].value) + 1), 0, Labeling.table)

LiteralInt ==
    /\ Parsed /\ Is(Stmt, ".literal") /\ Kind(Stmt, 2) = "INT"
    /\ LET v == Stmt[2].value
       IN  IF v < -65536 \/ v > 65535
           THEN Line(<<>>, 0, 1, Labeling.table)
           ELSE Line(<<Hi(v), Lo(v)>>, 2, 0, Labeling.table)

Words ==
    /\ Parsed /\ Is(Stmt, ".words")
    /\ IF Kind(Stmt, 2) # "INT" \/ Short(Stmt[2].value) < 1
       THEN Line(<<>>, 0, 1, Labeling.table)
       ELSE Line(<<>>, 2 * Stmt[2].value, 0, Labeling.table)

Glob ==
    /\ Parsed /\ Is(Stmt, ".glob")
    /\ IF Kind(Stmt, 2) # "LABEL"
       THEN Line(<<>>, 0, 1, Labeling.table)
       ELSE Line(<<>>, 0, 0, xreloc_global(Labeling.table, Stmt[2].value))

\* Anything else, a .literal without a literal among it.
BadStatement ==
    /\ Parsed /\ Stmt # <<>> /\ Kind(Stmt, 1) # "INSTRUCTION"
    /\ \/ Kind(Stmt, 1) # "DIRECTIVE"
       \/ Is(Stmt, ".literal") /\ Kind(Stmt, 2) \notin {"LITERAL", "INT"}
    /\ Line(<<>>, 0, 1, Labeling.table)

-----------------------------------------------------------------------------
(* After the last line. *)
EndOfFile ==
    /\ phase = "assembling" /\ line = Len(program)
    /\ phase' = "relocating"
    /\ UNCHANGED <<program, line, pos, err, obj, relocs, size, file, status>>

Relocate ==
    /\ phase = "relocating"
    /\ LET done == xreloc_relocate(relocs, obj)
       IN  /\ relocs' = done.table
           /\ obj' = done.mem
           /\ err' = err + Count(~done.ok)
    /\ phase' = "storing"
    /\ UNCHANGED <<program, line, pos, size, file, status>>

StoreTable ==
    /\ phase = "storing"
    /\ LET stored == xreloc_store_table(relocs, obj, pos, 0)
       IN  /\ obj' = stored.mem
           /\ size' = stored.size
           /\ err' = err + Count(stored.size = 0) + Count(pos > XIS_MEM_SIZE)
    /\ phase' = "reporting"
    /\ UNCHANGED <<program, line, pos, relocs, file, status>>

Exit(rc, output) ==
    /\ phase' = "exited" /\ status' = rc /\ file' = output
    /\ UNCHANGED <<program, line, pos, err, obj, relocs, size>>

ReportErrors == phase = "reporting" /\ err > 0 /\ Exit(1, file)

\* The old file is deleted before the new one is opened, and a file that could
\* not be written in full is deleted too, but the exit status stays 0.
OpenFails  == phase = "reporting" /\ err = 0 /\ Exit(1, [is |-> "none", bytes |-> Nothing])
WriteFails == phase = "reporting" /\ err = 0 /\ Exit(0, [is |-> "none", bytes |-> Nothing])
WriteFile  ==
    /\ phase = "reporting" /\ err = 0
    /\ Exit(0, [is |-> "new", bytes |-> [a \in DOMAIN obj \cap 0 .. size - 1 |-> obj[a]]])

Done == phase = "exited" /\ UNCHANGED vars

Next ==
    \/ MissingColon \/ Blank \/ Instruction \/ LiteralString \/ LiteralInt \/ Words
    \/ Glob \/ BadStatement \/ EndOfFile \/ Relocate \/ StoreTable
    \/ ReportErrors \/ OpenFails \/ WriteFails \/ WriteFile \/ Done

Spec == Init /\ [][Next]_vars

-----------------------------------------------------------------------------
(* While lines are read, pos is only checked after each line, and main     *)
(* writes at pos without a further check.                                  *)

\* No line writes behind the object: the 85 bytes that malloc was asked for beyond
\* the memory's size are enough for the longest line that starts at its end.
CodeFitsObject ==
    phase = "assembling" =>
        /\ pos \in 0 .. XIS_MEM_SIZE /\ pos % 2 = 0
        /\ DOMAIN obj \subseteq 0 .. ObjSize - 1

\* Code is only ever at even addresses: no relocation is at the odd INV_ADDR, that
\* is, the assert in add_reloc never fails and xreloc_reloc never refuses.
NoInvalidReloc ==
    phase = "assembling" =>
        \A i \in DOMAIN relocs.syms : \A k \in DOMAIN relocs.syms[i].relocs :
            LET loc == relocs.syms[i].relocs[k].loc
            IN  loc \in 0 .. XIS_MEM_SIZE + 2 /\ loc % 2 = 0 /\ loc # INV_ADDR
=============================================================================
