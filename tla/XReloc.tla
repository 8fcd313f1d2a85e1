------------------------------- MODULE XReloc -------------------------------
(***************************************************************************)
(* xreloc.c: the symbols and relocations of an object, how relocations are *)
(* applied to its code, and the table that follows the code in a file.     *)
(*                                                                         *)
(* A table is a record of its symbols, the newest first, and the number of *)
(* base tables it was loaded with.  A name is the sequence of its bytes    *)
(* without the final zero.  Memory is a function on the addresses written  *)
(* so far: it was allocated with malloc, and any other address holds Fill. *)
(***************************************************************************)
EXTENDS XIS, SequencesExt

CONSTANT Fill                  \* what malloc left in the memory

ASSUME FillAssumption == Fill \in Byte

XIS_MEM_SIZE     == 65536
XIS_VERSION      == 256
XIS_TRAILER_SIZE == 6
INV_ADDR         == XIS_MEM_SIZE - 1
RELOC_SIZE       == 4
REL_NAME         == <<36>>                     \* "$"
XRELOC_ABSOLUTE  == 0
XRELOC_RELATIVE  == 1

-----------------------------------------------------------------------------
(* Memory. *)
Hi(v) == (v \div 256) % 256                    \* (unsigned char) (v >> 8)
Lo(v) == v % 256                               \* (unsigned char) v

Read(m, a)    == IF a \in DOMAIN m THEN m[a] ELSE Fill
GETWORD(m, a) == 256 * Read(m, a) + Read(m, a + 1)

Write(m, a, bytes) ==
    [x \in DOMAIN m \cup a .. a + Len(bytes) - 1 |->
        IF x \in a .. a + Len(bytes) - 1 THEN bytes[x - a + 1] ELSE m[x]]

\* The sum of the words at first, first + 2, ..., below last, as a short; the
\* bytes nobody wrote are counted at once.
SumOfWords(m, first, last) ==
    LET Weight(a) == IF (a - first) % 2 = 0 THEN 256 ELSE 1
        Excess(a) == (m[a] - Fill) * Weight(a)
        words     == (last - first + 1) \div 2
    IN  (MapThenSumSet(Excess, {a \in DOMAIN m : first <= a /\ a < first + 2 * words})
          + (words * 257 * Fill)) % WordSize

-----------------------------------------------------------------------------
(* Symbols and relocations. *)
EmptyTable == [syms |-> <<>>, rel_cnt |-> 0]   \* xreloc_init

NewSymbol(name) ==
    [name |-> name, loc |-> INV_ADDR, relocs |-> <<>>, global |-> FALSE, relocat |-> FALSE]

Has(t, name)     == \E i \in DOMAIN t.syms : t.syms[i].name = name
IndexOf(t, name) == CHOOSE i \in DOMAIN t.syms : t.syms[i].name = name

\* Mutant: a name gets a new symbol each time.
findsym_New(t, name) == [t EXCEPT !.syms = <<NewSymbol(name)>> \o @]

\* The table with a symbol of that name.
findsym(t, name) ==
    IF Has(t, name) THEN t ELSE [t EXCEPT !.syms = <<NewSymbol(name)>> \o @]

Symbol(t, name) == t.syms[IndexOf(t, name)]
Size(sym)       == RELOC_SIZE * Len(sym.relocs)

add_reloc(t, name, loc, size, flags) ==
    [t EXCEPT !.syms[IndexOf(t, name)].relocs =
        <<[loc |-> loc, size |-> size, flags |-> flags]>> \o @]

xreloc_global(t, name) ==
    LET u == findsym(t, name) IN [u EXCEPT !.syms[IndexOf(u, name)].global = TRUE]

\* Mutant: a symbol may be defined twice, and the last definition counts.
xreloc_symbol_Again(t, loc, name) ==
    LET u == findsym(t, name)
    IN  [ok |-> TRUE, table |-> [u EXCEPT !.syms[IndexOf(u, name)].loc = loc]]

xreloc_symbol(t, loc, name) ==
    LET u == findsym(t, name)
    IN  IF Symbol(u, name).loc # INV_ADDR
        THEN [ok |-> FALSE, table |-> u]
        ELSE [ok |-> TRUE, table |-> [u EXCEPT !.syms[IndexOf(u, name)].loc = loc]]

xreloc_reloc(t, loc, size, name, flags) ==
    IF loc = INV_ADDR
    THEN [ok |-> FALSE, table |-> t]
    ELSE [ok |-> TRUE, table |-> add_reloc(findsym(t, name), name, loc, size, flags)]

-----------------------------------------------------------------------------
(* xreloc_relocate.  One relocation r of a symbol that is not global: the  *)
(* low r.size bits of the word at r.loc become the symbol's location, its  *)
(* distance, or their old value plus the base.                             *)
Fits(value, r, signed) ==
    IF signed THEN -(2 ^ (r.size - 1)) <= value /\ value <= 2 ^ (r.size - 1) - 1
              ELSE value <= 2 ^ r.size - 1

\* Relocations that the loader of the file has to apply again go to "$".
KeepsReloc(sym, r) == sym.relocat \/ r.flags % 2 = 0

\* Mutant: the distance is counted from the end of the instruction.
Resolved_FromNext(m, sym, r) ==
    IF sym.relocat THEN (GETWORD(m, r.loc) % 2 ^ r.size) + sym.loc
    ELSE IF r.flags % 2 = 1 THEN sym.loc - (r.loc + 2)
    ELSE sym.loc

Resolved(m, sym, r) ==
    IF sym.relocat THEN (GETWORD(m, r.loc) % 2 ^ r.size) + sym.loc
    ELSE IF r.flags % 2 = 1 THEN sym.loc - r.loc
    ELSE sym.loc

Patch(m, r, value) ==
    LET word    == GETWORD(m, r.loc)
        patched == word - (word % 2 ^ r.size) + (value % 2 ^ r.size)
    IN  Write(m, r.loc, <<Hi(patched), Lo(patched)>>)

RelocateOne(st, sym, r) ==
    LET value == Resolved(st.mem, sym, r)
        fits  == Fits(value, r, ~sym.relocat /\ r.flags % 2 = 1)
    IN  [ok    |-> st.ok /\ fits,
         mem   |-> Patch(st.mem, r, value),
         table |-> IF KeepsReloc(sym, r)
                   THEN add_reloc(st.table, REL_NAME, r.loc, r.size, XRELOC_ABSOLUTE)
                   ELSE st.table]

\* A global symbol is left to whoever loads the file; a symbol that is neither
\* global, nor a base, nor defined is an error.
RelocateSymbol(st, sym) ==
    IF sym.global THEN st
    ELSE IF ~sym.relocat /\ sym.loc = INV_ADDR THEN [st EXCEPT !.ok = FALSE]
    ELSE FoldLeft(LAMBDA s, r : RelocateOne(s, sym, r), st, sym.relocs)

xreloc_relocate(t, m) ==
    LET u   == findsym(t, REL_NAME)
        rel == [Symbol(u, REL_NAME) EXCEPT !.relocat = TRUE, !.global = TRUE, !.loc = 0]
        v   == [u EXCEPT !.syms[IndexOf(u, REL_NAME)] = rel]
    IN  FoldLeft(RelocateSymbol, [ok |-> TRUE, mem |-> m, table |-> v], v.syms)

-----------------------------------------------------------------------------
(* xreloc_store_table: after the code and a zero, every global symbol with *)
(* its location and its relocations, then a trailer whose checksum makes   *)
(* the words of the whole file add up to zero.                             *)
RelocBytes(r) == <<Hi(r.loc), Lo(r.loc), r.size, r.flags>>

EntryBytes(sym) ==
    sym.name \o <<0, Hi(sym.loc), Lo(sym.loc)>>
    \o FlattenSeq([i \in DOMAIN sym.relocs |-> RelocBytes(sym.relocs[i])]) \o <<255, 255>>

\* The space a symbol needs is checked without its name.
StoreEntry(st, sym) ==
    IF ~sym.global \/ ~st.ok THEN st
    ELSE IF st.ent + Size(sym) >= XIS_MEM_SIZE THEN [st EXCEPT !.ok = FALSE]
    ELSE [ok |-> TRUE, mem |-> Write(st.mem, st.ent, EntryBytes(sym)),
          ent |-> st.ent + Len(EntryBytes(sym))]

\* Mutant: the trailer is not moved to a word boundary.
RoundUp_Not(ent, base) == ent

RoundUp(ent, base) == ent + ((ent - base) % 2)

\* The result's size is 0 when the table does not fit.  The words are summed from
\* base + base: only at base 0 are they the words of the file.
xreloc_store_table(t, m, size, base) ==
    IF base + size >= XIS_MEM_SIZE THEN [size |-> 0, mem |-> m]
    ELSE
    LET entries == FoldLeft(StoreEntry,
                     [ok |-> TRUE, mem |-> Write(m, base + size, <<0>>), ent |-> base + size + 1],
                     t.syms)
        closed  == Write(entries.mem, entries.ent, <<0>>)
        ent     == RoundUp(entries.ent + 1, base)
        trailer == Write(closed, ent, <<Hi(size), Lo(size), Hi(XIS_VERSION), Lo(XIS_VERSION)>>)
        chksum  == -SumOfWords(trailer, base + base, ent + 4 + base)
    IN  IF ~entries.ok THEN [size |-> 0, mem |-> entries.mem]
        ELSE IF entries.ent + 1 + XIS_TRAILER_SIZE > XIS_MEM_SIZE THEN [size |-> 0, mem |-> closed]
        ELSE [size |-> ent + 6 - base, mem |-> Write(trailer, ent + 4, <<Hi(chksum), Lo(chksum)>>)]

-----------------------------------------------------------------------------
(* xreloc_load_table: the table of a file of size bytes at base, its       *)
(* symbols and relocations moved by base.                                  *)
HexDigit(n) == IF n < 10 THEN 48 + n ELSE 87 + n

\* Mutant: the bases of two objects get the same name.
BaseName_Same(n) == REL_NAME \o <<HexDigit(0)>>

\* "$%x" of rel_cnt, for a count below 16.
BaseName(n) == REL_NAME \o <<HexDigit(n)>>

NameAt(m, ent) ==
    LET len == CHOOSE n \in 0 .. XIS_MEM_SIZE :
                   Read(m, ent + n) = 0 /\ \A k \in 0 .. n - 1 : Read(m, ent + k) # 0
    IN  [i \in 1 .. len |-> Read(m, ent + i - 1)]

\* The relocations from ent to the mark 0xffff, and the entries from ent to the
\* empty name; the loop does not look further than the file.
RelocsAt(m, ent, end) ==
    LET from[a \in ent .. end] ==
            IF a > end - 4 \/ GETWORD(m, a) = INV_ADDR THEN <<>>
            ELSE <<[loc |-> GETWORD(m, a), size |-> Read(m, a + 2), flags |-> Read(m, a + 3)]>>
                 \o from[a + 4]
    IN  from[ent]

EntryAt(m, ent, end) ==
    LET name == NameAt(m, ent)
        loc  == ent + Len(name) + 1
    IN  [name |-> name, loc |-> GETWORD(m, loc), relocs |-> RelocsAt(m, loc + 2, end),
         next |-> loc + 4 + (RELOC_SIZE * Len(RelocsAt(m, loc + 2, end)))]

EntriesAt(m, ent, end) ==
    LET from[a \in ent .. end] ==
            IF a >= end \/ Read(m, a) = 0 THEN <<>>
            ELSE <<EntryAt(m, a, end)>> \o from[EntryAt(m, a, end).next]
    IN  from[ent]

Moved(r, base) == [r EXCEPT !.loc = @ + base]

\* One entry e: the relocations are added one by one, in front of each other.
LoadEntry(st, e, base) ==
    LET isBase == e.name = REL_NAME
        name   == IF isBase THEN BaseName(st.table.rel_cnt) ELSE e.name
        u      == findsym([st.table EXCEPT !.rel_cnt = IF isBase THEN @ + 1 ELSE @], name)
        sym    == Symbol(u, name)
        clash  == e.loc # INV_ADDR /\ sym.loc # INV_ADDR
        moved  == [i \in DOMAIN e.relocs |-> Moved(e.relocs[i], base)]
    IN  [code_size |-> IF clash THEN 0 ELSE st.code_size,
         table |-> [u EXCEPT !.syms[IndexOf(u, name)] =
                      [sym EXCEPT !.relocat = IF isBase THEN TRUE ELSE @,
                                  !.global  = IF isBase THEN FALSE ELSE @,
                                  !.loc     = IF e.loc # INV_ADDR /\ ~clash THEN e.loc + base ELSE @,
                                  !.relocs  = Reverse(moved) \o @]]]

\* code_size is -1 without a table, 0 for an error.
xreloc_load_table(t, m, size, base) ==
    LET code_size == GETWORD(m, size + base - 6)
    IN  IF size % 2 = 1 \/ SumOfWords(m, base, base + size) # 0
        THEN [code_size |-> -1, table |-> t]
        ELSE IF GETWORD(m, size + base - 4) # XIS_VERSION THEN [code_size |-> 0, table |-> t]
        ELSE FoldLeft(LAMBDA st, e : LoadEntry(st, e, base), [code_size |-> code_size, table |-> t],
                      EntriesAt(m, code_size + base + 1, base + size))
=============================================================================
