------------------------------ MODULE Assembly ------------------------------
(***************************************************************************)
(* What the assembler promises, said of the whole source at once: which    *)
(* programs it accepts, the bytes of every line once all labels are known, *)
(* and what whoever loads the file finds in it.                            *)
(***************************************************************************)
EXTENDS XAs

CONSTANTS
    Bases,                     \* where the file is loaded
    Library                    \* another object: [file, size, code_size, function, at, calls]

-----------------------------------------------------------------------------
(* The layout of the source. *)
StmtOf(i)   == Statement(program[i])
LabelOf(i)  == program[i][1].value
LinesWith(name) == {i \in DOMAIN program : Labelled(program[i]) /\ LabelOf(i) = name}

Length(i) ==
    LET s == StmtOf(i)
    IN  CASE Kind(s, 1) = "INSTRUCTION" -> IF Extended(s[1].value) THEN 4 ELSE 2
          [] Is(s, ".words")            -> 2 * s[2].value
          [] Is(s, ".literal")          -> IF Kind(s, 2) = "LITERAL"
                                           THEN 2 * ((Len(s[2].value) + 2) \div 2) ELSE 2
          [] OTHER                      -> 0

Address(i)  == MapThenSumSet(Length, 1 .. i - 1)
CodeSize    == Address(Len(program) + 1)

Defined(name) == LinesWith(name) # {}
Place(name)   == Address(CHOOSE i \in LinesWith(name) : TRUE)
Global(name)  == \E i \in DOMAIN program : Is(StmtOf(i), ".glob") /\ StmtOf(i)[2].value = name

\* The lines whose operand is a label, and where the operand is.
Uses == {i \in DOMAIN program : /\ Kind(StmtOf(i), 1) = "INSTRUCTION"
                                /\ TakesLabel(StmtOf(i)[1].value)
                                /\ Kind(StmtOf(i), 2) = "LABEL"}
Target(i)   == StmtOf(i)[2].value
Absolute(i) == Extended(StmtOf(i)[1].value)

-----------------------------------------------------------------------------
(* Acceptable programs. *)
Within(v, low, high) == low <= v /\ v <= high

GoodStatement(s) ==
    CASE s = <<>>                      -> TRUE
      [] Kind(s, 1) = "INSTRUCTION"    -> WellFormed(s)
      [] Is(s, ".literal")             -> \/ Kind(s, 2) = "LITERAL"
                                          \/ Kind(s, 2) = "INT" /\ Within(s[2].value, -65536, 65535)
      [] Is(s, ".words")               -> Kind(s, 2) = "INT" /\ Within(s[2].value, 1, 32767)
      [] Is(s, ".glob")                -> Kind(s, 2) = "LABEL"
      [] OTHER                         -> FALSE

GoodLines ==
    \A i \in DOMAIN program :
        /\ Labelled(program[i]) => HasColon(program[i])
        /\ GoodStatement(StmtOf(i))

GoodLabels ==
    /\ \A i \in DOMAIN program : Labelled(program[i]) => LinesWith(LabelOf(i)) = {i}
    /\ \A i \in Uses : \/ Global(Target(i))
                       \/ /\ Defined(Target(i))
                          /\ ~Absolute(i) => Within(Place(Target(i)) - Address(i), -128, 127)

\* The file: code, a zero, the entry of "$" and of every global name, a zero, the
\* trailer at an even address.
Globals  == {Target(i) : i \in {j \in Uses : Global(Target(j))}}
            \cup {StmtOf(i)[2].value : i \in {j \in DOMAIN program : Is(StmtOf(j), ".glob")}}
EntrySize(name) == Len(name) + 5 + (4 * Cardinality({i \in Uses : Target(i) = name}))
BaseSize == 6 + (4 * Cardinality({i \in Uses : Absolute(i) /\ ~Global(Target(i))}))
FileSize == LET n == CodeSize + 2 + BaseSize + MapThenSumSet(EntrySize, Globals)
            IN  n + (n % 2) + 6

Acceptable == GoodLines /\ GoodLabels /\ FileSize <= XIS_MEM_SIZE

-----------------------------------------------------------------------------
(* The bytes of line i when the code is at base and the labels Known have   *)
(* the value Value: any other label operand is as Encode left it.           *)
BytesAt(i, base, Value(_), Known(_)) ==
    LET s == StmtOf(i)
        v == IF i \in Uses /\ Known(Target(i)) THEN Value(Target(i)) ELSE OperandValue(s[2])
    IN  CASE Kind(s, 1) = "INSTRUCTION" ->
                 IF Extended(s[1].value) THEN <<s[1].value, Registers(s), Hi(v), Lo(v)>>
                 ELSE IF i \in Uses /\ Known(Target(i))
                      THEN <<s[1].value, (v - base - Address(i)) % 256>>
                      ELSE <<s[1].value, Registers(s)>>
          [] Is(s, ".literal") -> IF Kind(s, 2) = "LITERAL" THEN s[2].value \o <<0>>
                                  ELSE <<Hi(s[2].value), Lo(s[2].value)>>
          [] OTHER -> <<>>

CodeIs(m, base, Value(_), Known(_)) ==
    \A i \in DOMAIN program :
        LET bytes == BytesAt(i, base, Value, Known)
        IN  \A k \in DOMAIN bytes : Read(m, base + Address(i) + k - 1) = bytes[k]

Written == phase = "exited" /\ file.is = "new"

-----------------------------------------------------------------------------
(* What the file holds. *)

\* The types of the assembler's state.
XasTypeOK ==
    /\ program \in Programs /\ line \in 0 .. Len(program)
    /\ pos \in Nat /\ err \in Nat /\ size \in 0 .. XIS_MEM_SIZE
    /\ DOMAIN obj \subseteq 0 .. ObjSize - 1 /\ \A a \in DOMAIN obj : obj[a] \in Byte
    /\ \A i, j \in DOMAIN relocs.syms : relocs.syms[i].name = relocs.syms[j].name => i = j
    /\ phase \in {"assembling", "relocating", "storing", "reporting", "exited"}
    /\ status \in {0, 1}

\* The assembler's errors, counted line by line, by relocate and by store_table,
\* reject exactly the programs that are not acceptable: then the exit status is 1
\* and the old output stays; otherwise it stays only until the new one is opened.
AcceptsExactly ==
    phase = "exited" => IF Acceptable THEN file.is # "old" ELSE file.is = "old" /\ status = 1

\* In the file every line has the bytes it has when all labels are known, at its
\* address: forward references, backward references, strings that are padded and
\* .words that are skipped.  Labels that are global are left to the loader.
FileIsTheProgram ==
    Written => /\ size = FileSize
               /\ CodeIs(file.bytes, 0, Place, LAMBDA name : Defined(name) /\ ~Global(name))

-----------------------------------------------------------------------------
(* Loading the file. *)
Placed(m, f, base) ==
    [x \in DOMAIN m \cup {base + a : a \in DOMAIN f} |->
        IF x - base \in DOMAIN f THEN f[x - base] ELSE m[x]]

Loaded(b) == xreloc_load_table(EmptyTable, Placed(Nothing, file.bytes, b), size, b)

RelocOf(i, b) ==
    IF Absolute(i) THEN [loc |-> b + Address(i) + 2, size |-> 16, flags |-> XRELOC_ABSOLUTE]
                   ELSE [loc |-> b + Address(i), size |-> 8, flags |-> XRELOC_RELATIVE]

\* What store_table writes load_table reads back: the file's checksum holds
\* whatever malloc left in its gaps, and the table has the base, each global name
\* with its place or none, and each of their uses, moved to where the file is.
TableRoundTrips ==
    Written =>
    \A b \in Bases :
        LET t == Loaded(b).table
        IN  /\ Loaded(b).code_size = CodeSize
            /\ {t.syms[k].name : k \in DOMAIN t.syms} = Globals \cup {BaseName(0)}
            /\ \A k \in DOMAIN t.syms :
                   LET sym == t.syms[k]
                       of  == IF sym.name = BaseName(0)
                              THEN {i \in Uses : Absolute(i) /\ ~Global(Target(i))}
                              ELSE {i \in Uses : Target(i) = sym.name}
                   IN  /\ sym.relocat = (sym.name = BaseName(0)) /\ ~sym.global
                       /\ sym.loc = IF sym.relocat THEN b
                                    ELSE IF Defined(sym.name) THEN b + Place(sym.name) ELSE INV_ADDR
                       /\ Len(sym.relocs) = Cardinality(of)
                       /\ ToSet(sym.relocs) = {RelocOf(i, b) : i \in of}

\* A program linked with another object runs like one program: the file and the
\* library are loaded one behind the other and relocated.  This fails exactly
\* when a name is missing or a branch does not reach; otherwise both objects find
\* their own labels and each other's.  Stored, the result can be moved again.
LibraryPlace(name) == IF name = Library.function THEN CodeSize + Library.at ELSE Place(name)
Known(name)        == name = Library.function \/ Defined(name)

\* The library jumps over to its function, which calls the program and itself.
LibraryCall(m, base) ==
    LET function == base + CodeSize + Library.at
    IN  /\ GETWORD(m, base + CodeSize + 2) = function
        /\ GETWORD(m, function + 2) = base + LibraryPlace(Library.calls)
        /\ GETWORD(m, function + 6) = function

Resolvable ==
    /\ Defined(Library.calls) /\ Global(Library.calls)
    /\ \A name \in Globals : Known(name)
    /\ \A i \in Uses : ~Absolute(i) => LibraryPlace(Target(i)) - Address(i) \in -128 .. 127

LinksWithLibrary ==
    Written /\ ~(Global(Library.function) /\ Defined(Library.function)) =>
    LET one    == Placed(Nothing, file.bytes, 0)
        two    == Placed(one, Library.file, CodeSize)
        t      == xreloc_load_table(xreloc_load_table(EmptyTable, one, size, 0).table,
                                    two, Library.size, CodeSize)
        linked == xreloc_relocate(t.table, two)
        exe    == xreloc_store_table(linked.table, linked.mem, CodeSize + Library.code_size, 0)
        bytes  == [a \in DOMAIN exe.mem \cap 0 .. exe.size - 1 |-> exe.mem[a]]
    IN  /\ t.code_size = Library.code_size
        /\ linked.ok = Resolvable
        /\ linked.ok =>
           /\ CodeIs(linked.mem, 0, LibraryPlace, Known) /\ LibraryCall(linked.mem, 0)
           /\ \A b \in Bases :
                  LET moved == Placed(Nothing, bytes, b)
                      again == xreloc_load_table(EmptyTable, moved, exe.size, b)
                      run   == xreloc_relocate(again.table, moved)
                      At(name) == b + LibraryPlace(name)
                  IN  /\ again.code_size = CodeSize + Library.code_size
                      /\ run.ok
                      /\ CodeIs(run.mem, b, At, Known) /\ LibraryCall(run.mem, b)

-----------------------------------------------------------------------------
(* Steps. *)

\* xas.c:356 says what .words wants: a positive integer.  A positive one reserves
\* that many words, any other one is an error and reserves nothing.
WordsArePositive ==
    [][ (phase = "assembling" /\ line' = line + 1 /\ Is(Stmt, ".words") /\ Kind(Stmt, 2) = "INT")
        => IF Stmt[2].value > 0 THEN pos' = pos + (2 * Stmt[2].value)
           ELSE pos' = pos /\ err' > err ]_vars
=============================================================================
