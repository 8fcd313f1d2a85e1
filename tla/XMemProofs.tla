----------------------------- MODULE XMemProofs -----------------------------
(***************************************************************************)
(* What the operators on words and memory return, for every word, every    *)
(* address and every size of memory.                                       *)
(***************************************************************************)
EXTENDS XMem, TLAPS

-----------------------------------------------------------------------------
(* The number sets, as bounds.  The provers spell an interval between two  *)
(* numerals out, so Word is never expanded where its size is a numeral.    *)

\* The size of a word is a number.
LEMMA WordSizeValue == WordSize = 65536
BY DEF WordSize

\* A word is a number below its size.
LEMMA InWordSize ==
    ASSUME WordSize \in Int
    PROVE  \A w : w \in Word <=> w \in Int /\ 0 <= w /\ w < WordSize
BY DEF Word

\* A word is a number of sixteen bits.
LEMMA InWord == \A w : w \in Word <=> w \in Int /\ 0 <= w /\ w <= 65535
<1>1. WordSize \in Int
  BY WordSizeValue
<1> QED
  BY <1>1, WordSizeValue, InWordSize

\* A byte is a number of eight bits.
LEMMA InByte == \A b : b \in Byte <=> b \in Int /\ 0 <= b /\ b <= 255
BY DEF Byte

\* The number of a register has four bits.
LEMMA InRegId == \A r : r \in RegId <=> r \in Int /\ 0 <= r /\ r <= 15
BY DEF RegId

-----------------------------------------------------------------------------
(* Words. *)

\* Storing an int in an unsigned short gives a word.
LEMMA WrapWord ==
    ASSUME NEW i \in Int
    PROVE  Wrap(i) \in Word
BY InWord, WordSizeValue DEF Wrap

\* The parts of an instruction word.
LEMMA InstructionParts ==
    ASSUME NEW w \in Word
    PROVE  /\ OpcodeOf(w) \in Byte
           /\ XIS_REG1(w) \in RegId
           /\ XIS_REG2(w) \in RegId
           /\ SignedLow(w) \in Int
           /\ w \div 256 \in Byte
           /\ w % 256 \in Byte
BY InWord, InByte, InRegId DEF OpcodeOf, XIS_REG1, XIS_REG2, SignedLow

\* Sixteen bits make a word.
LEMMA BitOpsWord ==
    ASSUME NEW x \in Word, NEW y \in Word
    PROVE  AndW(x, y) \in Word /\ OrW(x, y) \in Word /\ XorW(x, y) \in Word
<1>1. AndW(x, y) \in Word
  BY InWord DEF AndW, FromBits
<1>2. OrW(x, y) \in Word
  BY InWord DEF OrW, FromBits
<1>3. XorW(x, y) \in Word
  BY InWord DEF XorW, FromBits
<1> QED
  BY <1>1, <1>2, <1>3

\* The quotient of words is a word.
LEMMA QuotientWord ==
    ASSUME NEW x \in Word, NEW y \in Word, y # 0
    PROVE  x \div y \in Word
BY InWord

\* The table of powers holds words other than 0.
LEMMA Pow2Word ==
    ASSUME NEW i \in 1 .. 16
    PROVE  Pow2[i] \in Word /\ Pow2[i] # 0
<1>1. Pow2[i] \in Int /\ 1 <= Pow2[i] /\ Pow2[i] <= 32768
  BY DEF Pow2
<1> QED
  BY <1>1, InWord

\* The product of two numbers is a number.
LEMMA ProductInt ==
    ASSUME NEW x \in Int, NEW y \in Int
    PROVE  x * y \in Int
OBVIOUS

\* A word shifted by any count is a word.
LEMMA ShiftWord ==
    ASSUME NEW x \in Word, NEW n \in Word
    PROVE  ShrW(x, n) \in Word /\ ShlW(x, n) \in Word
<1>1. n % 32 \in Int /\ 0 <= n % 32 /\ n % 32 <= 31
  BY InWord
<1>2. CASE n % 32 > 15
  BY <1>1, <1>2, InWord DEF ShrW, ShlW
<1>3. CASE ~(n % 32 > 15)
  <2> DEFINE p == Pow2[(n % 32) + 1]
  <2>1. (n % 32) + 1 \in 1 .. 16
    BY <1>1, <1>3
  <2>2. p \in Word /\ p # 0
    BY <2>1, Pow2Word
  <2>3. x * p \in Int
    BY <2>2, InWord, ProductInt
  <2>4. x \div p \in Word /\ Wrap(x * p) \in Word
    BY <2>2, <2>3, QuotientWord, WrapWord
  <2> QED
    BY <1>3, <2>4 DEF ShrW, ShlW
<1> QED
  BY <1>1, <1>2, <1>3

\* A product stored in an unsigned short is a word.
LEMMA MulWord ==
    ASSUME NEW x \in Word, NEW y \in Word
    PROVE  MulW(x, y) \in Word
<1>1. x \in Int /\ y \in Int /\ x \div 256 \in Int /\ x % 256 \in Int
  BY InWord
<1>2. (x \div 256) * y \in Int /\ (x % 256) * y \in Int
  BY <1>1, ProductInt
<1>3. Wrap((x \div 256) * y) \in Int
  BY <1>2, WrapWord, InWord
<1> QED
  BY <1>2, <1>3, WrapWord DEF MulW

\* Every operation on two registers gives a word.
LEMMA ArithWord ==
    ASSUME NEW op \in ArithOps, NEW d \in Word, NEW s \in Word, op = I_DIV => s # 0
    PROVE  Arith(op, d, s) \in Word
<1>1. Wrap(d + s) \in Word /\ Wrap(d - s) \in Word
  BY WrapWord, InWord
<1>2. op # I_DIV \/ d \div s \in Word
  BY QuotientWord
<1> QED
  BY <1>1, <1>2, BitOpsWord, ShiftWord, MulWord
  DEF Arith, ArithOps, I_ADD, I_SUB, I_MUL, I_DIV, I_AND, I_OR, I_XOR, I_SHR, I_SHL

\* Every operation on one register gives a word.
LEMMA UnaryWord ==
    ASSUME NEW op \in UnaryOps, NEW x \in Word
    PROVE  Unary(op, x) \in Word
<1>1. Wrap(0 - x) \in Word /\ Wrap(x + 1) \in Word /\ Wrap(x - 1) \in Word
  BY WrapWord, InWord
<1> QED
  BY <1>1, InWord DEF Unary, UnaryOps, I_NEG, I_NOT, I_INC, I_DEC

-----------------------------------------------------------------------------
(* Memory. *)

\* A byte that is read is a byte.
LEMMA PeekByte ==
    ASSUME NEW m, IsMemory(m), NEW a
    PROVE  Peek(m, a) \in Byte
BY InByte DEF IsMemory, Peek

\* Storing a byte at an address changes that byte and no other.
LEMMA PokePeek ==
    ASSUME NEW m, NEW a, NEW b, NEW x
    PROVE  Peek(Poke(m, a, b), x) = IF x = a THEN b ELSE Peek(m, x)
<1>1. CASE b = 0
  BY <1>1 DEF Peek, Poke
<1>2. CASE b # 0
  BY <1>2 DEF Peek, Poke
<1> QED
  BY <1>1, <1>2

\* A memory remains one when a byte is stored at one of its addresses.
LEMMA PokeMemory ==
    ASSUME NEW m, IsMemory(m), NEW a \in Address, NEW b \in Byte
    PROVE  IsMemory(Poke(m, a, b))
<1> DEFINE n == Poke(m, a, b)
<1>1. n = [x \in DOMAIN n |-> n[x]] /\ DOMAIN n \subseteq DOMAIN m \cup {a}
  BY DEF Poke
<1>2. \A x \in DOMAIN n : n[x] = IF x = a THEN b ELSE m[x]
  BY DEF Poke
<1>3. DOMAIN n \subseteq Address /\ \A x \in DOMAIN n : n[x] \in Byte
  BY <1>1, <1>2 DEF IsMemory
<1> QED
  BY <1>1, <1>3 DEF IsMemory

\* An access that passes the check of xmem.c stays within the memory.
LEMMA AccessibleAddress ==
    ASSUME NEW a \in Word, Accessible(a)
    PROVE  a \in Address /\ a + 1 \in Address
<1>1. PhysSize \in Int
  BY PhysSizeAssumption
<1> QED
  BY <1>1, InWord DEF Accessible, Address

\* A word that is read is a word.
LEMMA LoadShortWord ==
    ASSUME NEW m, IsMemory(m), NEW a
    PROVE  LoadShort(m, a) \in Word
<1>1. Peek(m, a) \in Byte /\ Peek(m, a + 1) \in Byte
  BY PeekByte
<1> QED
  BY <1>1, InByte, InWord DEF LoadShort

\* A memory remains one when two bytes are stored where xmem_store allows it.
LEMMA XmemStoreMemory ==
    ASSUME NEW m, IsMemory(m), NEW a \in Word, Accessible(a), NEW b \in Byte, NEW c \in Byte
    PROVE  IsMemory(XmemStore(m, a, b, c))
BY AccessibleAddress, PokeMemory DEF XmemStore

\* And when a word is.
LEMMA WriteShortMemory ==
    ASSUME NEW m, IsMemory(m), NEW a \in Word, Accessible(a), NEW v \in Word
    PROVE  IsMemory(WriteShort(m, a, v))
BY InstructionParts, XmemStoreMemory DEF WriteShort

\* xcpu.c:15 and 23: load_short gives back what write_short stored, and every
\* other byte keeps its value: the guest's byte order is the same both ways.
THEOREM WriteThenLoad ==
    ASSUME NEW m, NEW a \in Word, NEW v \in Word
    PROVE  /\ LoadShort(WriteShort(m, a, v), a) = v
           /\ \A x : x \notin {a, a + 1} => Peek(WriteShort(m, a, v), x) = Peek(m, x)
<1> DEFINE n == Poke(m, a, v \div 256)
<1>1. \A x : Peek(n, x) = IF x = a THEN v \div 256 ELSE Peek(m, x)
  BY PokePeek
<1>2. \A x : Peek(WriteShort(m, a, v), x) = IF x = a + 1 THEN v % 256 ELSE Peek(n, x)
  BY PokePeek DEF WriteShort, XmemStore
<1>3. a # a + 1
  BY InWord
<1>4. LoadShort(WriteShort(m, a, v), a) = (256 * (v \div 256)) + (v % 256)
  BY <1>1, <1>2, <1>3 DEF LoadShort
<1>5. (256 * (v \div 256)) + (v % 256) = v
  BY InWord
<1> QED
  BY <1>1, <1>2, <1>4, <1>5
=============================================================================
