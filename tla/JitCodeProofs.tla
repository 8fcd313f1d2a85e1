---------------------------- MODULE JitCodeProofs ----------------------------
(***************************************************************************)
(* What the recursive functions of VregScan and JitCode compute: the       *)
(* register table and the translated instructions of any guest code.       *)
(***************************************************************************)
EXTENDS JitCode, XMemProofs, FiniteSetTheorems, SequenceTheorems, WellFoundedInduction,
        NaturalsInduction

-----------------------------------------------------------------------------
(* Induction and recursion over the numbers, for sets and functions. *)

\* Every set of numbers but the empty one has a least element.
LEMMA LeastNumber ==
    ASSUME NEW T \in SUBSET Nat, T # {}
    PROVE  \E n \in T : \A m \in T : n <= m
<1> DEFINE R == {p \in Nat \X Nat : p[1] < p[2]}
<1>1. IsWellFoundedOn(R, Nat)
  BY NatLessThanWellFounded DEF OpToRel
<1>2. \A a, b \in Nat : <<a, b>> \in R <=> a < b
  OBVIOUS
<1> HIDE DEF R
<1>3. PICK n \in T : \A m \in T : ~(<<m, n>> \in R)
  BY <1>1, WFMin
<1>4. \A m \in T : ~(m < n)
  BY <1>2, <1>3
<1> QED
  BY <1>4

\* A set that has 0, and the successor of each of its numbers, has them all.
LEMMA AllNumbers ==
    ASSUME NEW T \in SUBSET Nat, 0 \in T, \A n \in T : n + 1 \in T
    PROVE  T = Nat
<1> SUFFICES ASSUME Nat \ T # {}
             PROVE  FALSE
  OBVIOUS
<1>1. PICK n \in Nat \ T : \A m \in Nat \ T : n <= m
  BY LeastNumber
<1>2. n - 1 \in Nat /\ n - 1 \in T
  BY <1>1
<1> QED
  BY <1>1, <1>2

\* f goes from x to the next state by the steps s.
Follows(f, x, s) ==
    /\ f[0] = x
    /\ \A n \in Nat : f[n + 1] = s[<<n, f[n]>>]

\* Steps that do not leave a set of states lead through a sequence of them.
LEMMA Iterates ==
    ASSUME NEW S, NEW x \in S, NEW s \in [Nat \X S -> S]
    PROVE  \E f \in [Nat -> S] : Follows(f, x, s)
<1> DEFINE Runs(n) == {g \in [0 .. n -> S] :
                          /\ g[0] = x
                          /\ \A i \in 0 .. n - 1 : g[i + 1] = s[<<i, g[i]>>]}
           Possible == {n \in Nat : Runs(n) # {}}
<1>1. Possible = Nat
  <2>1. [i \in 0 .. 0 |-> x] \in Runs(0)
    OBVIOUS
  <2>2. ASSUME NEW n \in Possible
        PROVE  n + 1 \in Possible
    <3>1. PICK g \in Runs(n) : TRUE
      OBVIOUS
    <3> DEFINE h == [i \in 0 .. n + 1 |-> IF i = n + 1 THEN s[<<n, g[n]>>] ELSE g[i]]
    <3>2. /\ g \in [0 .. n -> S] /\ g[0] = x
          /\ \A i \in 0 .. n - 1 : g[i + 1] = s[<<i, g[i]>>]
      BY <3>1
    <3>3. n \in Nat /\ g[n] \in S /\ s[<<n, g[n]>>] \in S
      BY <3>2
    <3>4. h \in [0 .. n + 1 -> S] /\ h[0] = x
      BY <3>2, <3>3
    <3>5. ASSUME NEW i \in 0 .. (n + 1) - 1
          PROVE  h[i + 1] = s[<<i, h[i]>>]
      <4>1. i \in 0 .. n /\ i # n + 1 /\ h[i] = g[i]
        BY <3>3
      <4>2. CASE i = n
        BY <3>3, <4>1, <4>2
      <4>3. CASE i # n
        BY <3>2, <3>3, <4>1, <4>3
      <4> QED
        BY <4>2, <4>3
    <3>6. h \in Runs(n + 1)
      BY <3>4, <3>5
    <3> HIDE DEF Runs, h
    <3> QED
      BY <3>3, <3>6
  <2> HIDE DEF Runs
  <2>3. 0 \in Possible
    BY <2>1
  <2> QED
    BY <2>2, <2>3, AllNumbers
<1>2. ASSUME NEW n \in Nat, NEW m \in Nat, NEW g \in Runs(n), NEW h \in Runs(m)
      PROVE  \A i \in Nat : i <= n /\ i <= m => g[i] = h[i]
  <2> DEFINE Equal == {i \in Nat : i <= n /\ i <= m => g[i] = h[i]}
  <2>1. 0 \in Equal
    OBVIOUS
  <2>2. ASSUME NEW i \in Equal
        PROVE  i + 1 \in Equal
    <3>1. CASE i + 1 <= n /\ i + 1 <= m
      <4>1. i \in 0 .. n - 1 /\ i \in 0 .. m - 1 /\ g[i] = h[i]
        BY <3>1
      <4>2. g[i + 1] = s[<<i, g[i]>>] /\ h[i + 1] = s[<<i, h[i]>>]
        BY <4>1
      <4> QED
        BY <4>1, <4>2
    <3> QED
      BY <3>1
  <2> HIDE DEF Equal
  <2>3. Equal = Nat
    BY <2>1, <2>2, AllNumbers DEF Equal
  <2> QED
    BY <2>3 DEF Equal
<1> DEFINE Run(n) == CHOOSE g : g \in Runs(n)
           f == [n \in Nat |-> Run(n)[n]]
<1>3. \A n \in Nat : Run(n) \in Runs(n)
  <2> SUFFICES ASSUME NEW n \in Nat
               PROVE  Run(n) \in Runs(n)
    OBVIOUS
  <2>1. \E g : g \in Runs(n)
    BY <1>1
  <2> HIDE DEF Runs
  <2> QED
    BY <2>1
<1> HIDE DEF Run
<1>4. \A n \in Nat : /\ Run(n) \in [0 .. n -> S] /\ Run(n)[0] = x
                     /\ \A i \in 0 .. n - 1 : Run(n)[i + 1] = s[<<i, Run(n)[i]>>]
  BY <1>3
<1>5. f \in [Nat -> S] /\ f[0] = x
  BY <1>4
<1>6. ASSUME NEW n \in Nat
      PROVE  f[n + 1] = s[<<n, f[n]>>]
  <2>1. Run(n + 1)[n + 1] = s[<<n, Run(n + 1)[n]>>]
    BY <1>4
  <2>2. Run(n + 1)[n] = Run(n)[n]
    <3> HIDE DEF Runs
    <3> QED
      BY <1>2, <1>3
  <2> QED
    BY <2>1, <2>2
<1> HIDE DEF f
<1> QED
  BY <1>5, <1>6 DEF Follows

-----------------------------------------------------------------------------
(* Lists that grow. *)

IsList(s) == Len(s) \in Nat /\ s = [i \in 1 .. Len(s) |-> s[i]]

\* A list is a sequence over a set that has its elements.
LEMMA ListSeq ==
    ASSUME NEW s, IsList(s), NEW S, \A i \in 1 .. Len(s) : s[i] \in S
    PROVE  s \in Seq(S)
BY DEF IsList

\* Its indices.
LEMMA ListDomain ==
    ASSUME NEW s, IsList(s)
    PROVE  DOMAIN s = 1 .. Len(s) /\ Len(s) \in Nat
BY DEF IsList

\* A sequence is a list.
LEMMA SeqList ==
    ASSUME NEW S, NEW s \in Seq(S)
    PROVE  IsList(s)
BY LenProperties DEF IsList

\* A list with one element more.
LEMMA AppendList ==
    ASSUME NEW s, IsList(s), NEW x
    PROVE  /\ IsList(Append(s, x)) /\ Len(Append(s, x)) = Len(s) + 1
           /\ \A i \in 1 .. Len(s) : Append(s, x)[i] = s[i]
           /\ Append(s, x)[Len(s) + 1] = x
<1> DEFINE S == {s[i] : i \in 1 .. Len(s)} \cup {x}
<1>1. s \in Seq(S) /\ x \in S
  BY ListSeq
<1>2. Append(s, x) \in Seq(S) /\ Len(s) \in Nat
  BY <1>1
<1> HIDE DEF S
<1>3. IsList(Append(s, x))
  BY <1>2, SeqList
<1> QED
  BY <1>1, <1>2, <1>3, AppendProperties

\* And with two.
LEMMA AppendTwo ==
    ASSUME NEW s, IsList(s), NEW x, NEW y
    PROVE  /\ IsList(s \o <<x, y>>) /\ Len(s \o <<x, y>>) = Len(s) + 2
           /\ \A i \in 1 .. Len(s) : (s \o <<x, y>>)[i] = s[i]
           /\ (s \o <<x, y>>)[Len(s) + 1] = x
           /\ (s \o <<x, y>>)[Len(s) + 2] = y
<1> DEFINE w == Append(s, x)
           v == Append(w, y)
<1>1. s \o <<x, y>> = v
  <2> DEFINE S == {s[i] : i \in 1 .. Len(s)} \cup {x, y}
  <2>1. s \in Seq(S) /\ x \in S /\ y \in S
    BY ListSeq
  <2> HIDE DEF S
  <2> QED
    BY <2>1
<1>2. /\ IsList(w) /\ Len(w) = Len(s) + 1 /\ Len(s) \in Nat
      /\ \A i \in 1 .. Len(s) : w[i] = s[i]
      /\ w[Len(s) + 1] = x
  BY AppendList, ListDomain
<1> HIDE DEF w
<1>3. /\ IsList(v) /\ Len(v) = Len(w) + 1
      /\ \A i \in 1 .. Len(w) : v[i] = w[i]
      /\ v[Len(w) + 1] = y
  BY <1>2, AppendList
<1> HIDE DEF v
<1>4. /\ Len(v) = Len(s) + 2
      /\ \A i \in 1 .. Len(s) : v[i] = s[i]
      /\ v[Len(s) + 1] = x /\ v[Len(s) + 2] = y
  BY <1>2, <1>3
<1> QED
  BY <1>1, <1>3, <1>4

\* The first elements of a list.
LEMMA PrefixList ==
    ASSUME NEW s, IsList(s), NEW n \in Int, n <= Len(s)
    PROVE  /\ IsList(SubSeq(s, 1, n))
           /\ Len(SubSeq(s, 1, n)) = IF 1 <= n THEN n ELSE 0
           /\ \A i \in 1 .. n : SubSeq(s, 1, n)[i] = s[i]
<1> DEFINE S == {s[i] : i \in 1 .. Len(s)}
<1>1. \A i \in 1 .. n : s[i] \in S
  BY DEF IsList
<1> HIDE DEF S
<1>2. /\ SubSeq(s, 1, n) \in Seq(S)
      /\ Len(SubSeq(s, 1, n)) = IF 1 <= n THEN (n - 1) + 1 ELSE 0
      /\ \A i \in 1 .. (n - 1) + 1 : SubSeq(s, 1, n)[i] = s[(1 + i) - 1]
  BY <1>1, SubSeqProperties
<1>3. IsList(SubSeq(s, 1, n))
  BY <1>2, SeqList
<1> QED
  BY <1>2, <1>3

-----------------------------------------------------------------------------
(* The translated instructions. *)

\* The size of an instruction.
LEMMA SizeInt ==
    ASSUME NEW m, NEW a
    PROVE  SizeAt(m, a) \in {2, 4}
BY DEF SizeAt

\* The opcode is the byte at the instruction's address.
LEMMA OpcodeAt ==
    ASSUME NEW m, IsMemory(m), NEW a
    PROVE  OpcodeOf(LoadShort(m, a)) = Peek(m, a)
<1>1. \A x, y \in Int : 0 <= y /\ y <= 255 => (256 * x + y) \div 256 = x
  OBVIOUS
<1>2. Peek(m, a) \in Byte /\ Peek(m, a + 1) \in Byte
  BY PeekByte
<1>3. Peek(m, a) \in Int /\ Peek(m, a + 1) \in Int /\ 0 <= Peek(m, a + 1) /\ Peek(m, a + 1) <= 255
  BY <1>2, InByte
<1> QED
  BY <1>1, <1>3 DEF OpcodeOf, LoadShort

\* The translation loop goes from one address to the next, and never leaves memory.
LEMMA FetchesStep ==
    ASSUME NEW m, NEW address \in Word
    PROVE  /\ Fetches(m, address) \in [Nat -> Word]
           /\ Fetches(m, address)[0] = address
           /\ \A n \in Nat : LET a == Fetches(m, address)[n]
                             IN  Fetches(m, address)[n + 1] = Wrap(a + SizeAt(m, a))
<1> DEFINE s == [p \in Nat \X Word |-> Wrap(p[2] + SizeAt(m, p[2]))]
<1>1. ASSUME NEW a \in Word
      PROVE  Wrap(a + SizeAt(m, a)) \in Word
  <2>1. a + SizeAt(m, a) \in Int
    BY SizeInt, InWord
  <2> QED
    BY <2>1, WrapWord
<1>2. s \in [Nat \X Word -> Word]
  BY <1>1
<1> HIDE DEF s
<1>3. PICK g \in [Nat -> Word] : Follows(g, address, s)
  BY <1>2, Iterates
<1>4. \A n \in Nat : g[n + 1] = Wrap(g[n] + SizeAt(m, g[n]))
  BY <1>3 DEF s, Follows
<1> DEFINE Next(f, n) == IF n = 0 THEN address
                         ELSE LET a == f[n - 1] IN Wrap(a + SizeAt(m, a))
<1>5. g = [n \in Nat |-> Next(g, n)]
  <2>1. ASSUME NEW n \in Nat
        PROVE  g[n] = Next(g, n)
    <3>1. CASE n = 0
      BY <1>3, <3>1 DEF Follows
    <3>2. CASE n # 0
      <4>1. n - 1 \in Nat /\ (n - 1) + 1 = n
        BY <3>2
      <4> QED
        BY <1>4, <3>2, <4>1
    <3> QED
      BY <3>1, <3>2
  <2> HIDE DEF Next
  <2> QED
    BY <2>1
<1> DEFINE f == CHOOSE h : h = [n \in Nat |-> Next(h, n)]
<1>6. f = [n \in Nat |-> Next(f, n)]
  <2> HIDE DEF Next
  <2> QED
    BY <1>5
<1>7. f = Fetches(m, address)
  BY DEF Fetches
<1> HIDE DEF f
<1>8. f[0] = address /\ DOMAIN f = Nat /\ f = [n \in DOMAIN f |-> f[n]]
  BY <1>6
<1>9. \A n \in Nat : f[n + 1] = Wrap(f[n] + SizeAt(m, f[n]))
  <2> SUFFICES ASSUME NEW n \in Nat
               PROVE  f[n + 1] = Wrap(f[n] + SizeAt(m, f[n]))
    OBVIOUS
  <2>1. n + 1 \in Nat /\ n + 1 # 0 /\ (n + 1) - 1 = n
    OBVIOUS
  <2>2. f[n + 1] = Next(f, n + 1)
    <3> HIDE DEF Next
    <3> QED
      BY <1>6, <2>1
  <2> QED
    BY <2>1, <2>2
<1>10. \A n \in Nat : f[n] \in Word
  <2> DEFINE T == {n \in Nat : f[n] \in Word}
  <2>1. 0 \in T /\ \A n \in T : n + 1 \in T
    BY <1>1, <1>8, <1>9
  <2> HIDE DEF T
  <2>2. T = Nat
    BY <2>1, AllNumbers DEF T
  <2> QED
    BY <2>2 DEF T
<1> QED
  BY <1>7, <1>8, <1>9, <1>10

\* What the translation gives: the instructions that memory holds, each at the
\* address behind the one before it; the last one, and no other, ends the function.
IsCode(m, address, code) ==
    /\ IsList(code)
    /\ \A i \in 1 .. Len(code) :
          /\ code[i].at \in Word
          /\ code[i] = Translated(m, code[i].at)
          /\ EndsFunction(OpcodeOf(code[i].instr)) <=> i = Len(code)
    /\ Len(code) > 0 => code[1].at = address
    /\ \A i \in 1 .. Len(code) - 1 :
          code[i + 1].at = Wrap(code[i].at + SizeAt(m, code[i].at))

\* jit.c:219: the translation of any guest code at any address is the guest's
\* instructions, whole and in order, and it ends at the first that ends a function.
THEOREM TranslateCode ==
    ASSUME NEW m, IsMemory(m), NEW address \in Word
    PROVE  IsCode(m, address, Translate(m, address))
<1> DEFINE pc == Fetches(m, address)
           Ends(n) == EndsFunction(Peek(m, pc[n]))
           First(n) == Ends(n) /\ \A k \in 0 .. n - 1 : ~Ends(k)
           code == Translate(m, address)
<1> SUFFICES IsCode(m, address, code)
  OBVIOUS
<1>1. CASE \A n \in Word : ~Ends(n)
  <2>1. code = <<>>
    BY <1>1 DEF Translate
  <2>2. IsList(<<>>) /\ Len(<<>>) = 0
    BY DEF IsList
  <2> HIDE DEF code
  <2> QED
    BY <2>1, <2>2 DEF IsCode
<1>2. CASE ~ \A n \in Word : ~Ends(n)
  <2> DEFINE T == {n \in Nat : Ends(n)}
             last == CHOOSE n \in Word : First(n)
  <2>1. PICK z \in Word : Ends(z)
    BY <1>2
  <2>2. z \in T
    BY <2>1, InWord
  <2>3. PICK n \in T : \A k \in T : n <= k
    BY <2>2, LeastNumber
  <2>4. n \in Word
    BY <2>1, <2>2, <2>3, InWord
  <2>5. First(n)
    BY <2>3
  <2>6. last \in Word /\ First(last)
    <3> HIDE DEF First
    <3> QED
      BY <2>4, <2>5
  <2>7. code = [i \in 1 .. last + 1 |-> Translated(m, pc[i - 1])]
    BY <1>2 DEF Translate
  <2> HIDE DEF code, last, pc
  <2>8. last \in Nat /\ Len(code) = last + 1 /\ DOMAIN code = 1 .. last + 1
    BY <2>6, <2>7, InWord
  <2>9. IsList(code)
    BY <2>7, <2>8 DEF IsList
  <2>10. /\ pc \in [Nat -> Word] /\ pc[0] = address
         /\ \A k \in Nat : pc[k + 1] = Wrap(pc[k] + SizeAt(m, pc[k]))
    BY FetchesStep DEF pc
  <2>11. \A i \in 1 .. Len(code) :
            /\ i - 1 \in Nat /\ code[i] = Translated(m, pc[i - 1])
            /\ code[i].at = pc[i - 1] /\ code[i].instr = LoadShort(m, pc[i - 1])
    BY <2>7, <2>8 DEF Translated
  <2>12. \A i \in 1 .. Len(code) :
            /\ code[i].at \in Word /\ code[i] = Translated(m, code[i].at)
            /\ EndsFunction(OpcodeOf(code[i].instr)) <=> Ends(i - 1)
    BY <2>10, <2>11, OpcodeAt
  <2>13. \A i \in 1 .. Len(code) : Ends(i - 1) <=> i = Len(code)
    <3> HIDE DEF Ends
    <3>1. Ends(last) /\ \A k \in 0 .. last - 1 : ~Ends(k)
      BY <2>6
    <3> QED
      BY <2>8, <3>1
  <2>14. Len(code) > 0 => code[1].at = address
    <3>1. Len(code) > 0 => 1 \in 1 .. Len(code)
      BY <2>8
    <3>2. 1 - 1 = 0
      OBVIOUS
    <3> QED
      BY <2>10, <2>11, <3>1, <3>2
  <2>15. \A i \in 1 .. Len(code) - 1 :
            code[i + 1].at = Wrap(code[i].at + SizeAt(m, code[i].at))
    <3> SUFFICES ASSUME NEW i \in 1 .. Len(code) - 1
                 PROVE  code[i + 1].at = Wrap(code[i].at + SizeAt(m, code[i].at))
      OBVIOUS
    <3>1. i \in 1 .. Len(code) /\ i + 1 \in 1 .. Len(code) /\ (i + 1) - 1 = (i - 1) + 1
      BY <2>8
    <3>2. code[i + 1].at = pc[(i + 1) - 1] /\ code[i].at = pc[i - 1] /\ i - 1 \in Nat
      BY <2>11, <3>1
    <3> QED
      BY <2>10, <3>1, <3>2
  <2> QED
    BY <2>9, <2>12, <2>13, <2>14, <2>15 DEF IsCode
<1> QED
  BY <1>1, <1>2

-----------------------------------------------------------------------------
(* The scan. *)

Counts == [RegId -> Nat]

\* What the scan adds for an instruction keeps the counts.
LEMMA AddCountsType ==
    ASSUME NEW c \in Counts, NEW w \in Word
    PROVE  AddCounts(c, Counted(w)) \in Counts
<1>1. XIS_REG1(w) \in RegId /\ XIS_REG2(w) \in RegId /\ SP \in RegId
  BY InstructionParts, InRegId DEF SP
<1>2. \A d \in Counts, r \in RegId : AddCount(d, r) \in Counts
  BY DEF AddCount, Counts
<1>3. \E q, r \in RegId : Counted(w) \in {<<>>, <<q>>, <<q, r>>}
  BY <1>1 DEF Counted
<1>4. PICK q \in RegId, r \in RegId : Counted(w) \in {<<>>, <<q>>, <<q, r>>}
  BY <1>3
<1>5. CASE Counted(w) = <<>>
  BY <1>5 DEF AddCounts
<1>6. CASE Counted(w) = <<q>>
  BY <1>2, <1>6 DEF AddCounts
<1>7. CASE Counted(w) = <<q, r>>
  BY <1>2, <1>7 DEF AddCounts
<1> QED
  BY <1>4, <1>5, <1>6, <1>7

\* vreg_table.c:17: the scan of any code, from any address, counts registers.
LEMMA ScanCountsType ==
    ASSUME NEW m, IsMemory(m), NEW address \in Nat
    PROVE  ScanCounts(m, address) \in Counts
<1> DEFINE Zero == [r \in RegId |-> 0]
           Next(f, a) == IF ScanStops(m, a) THEN Zero
                         ELSE AddCounts(f[a + SizeAt(m, a)], Counted(LoadShort(m, a)))
           Above(n) == {a \in Nat : a >= PhysSize - n}
<1>1. Zero \in Counts
  BY DEF Counts
<1>2. PhysSize \in Nat
  BY PhysSizeAssumption
<1>3. \A a \in Nat : a >= PhysSize => ScanStops(m, a)
  BY <1>2 DEF ScanStops, Peek, IsMemory, Address, I_BAD
<1>4. \A a \in Nat : a + SizeAt(m, a) \in Nat /\ a + SizeAt(m, a) > a
  BY SizeInt
<1>5. \A c \in Counts, a \in Nat :
        AddCounts(c, Counted(LoadShort(m, a))) \in Counts
  BY AddCountsType, LoadShortWord
<1> HIDE DEF Zero
<1>6. ASSUME NEW n \in Nat, NEW f, \A a \in Above(n) : f[a] \in Counts,
             NEW a \in Above(n + 1)
      PROVE  Next(f, a) \in Counts
  <2>1. CASE ScanStops(m, a)
    BY <1>1, <2>1
  <2>2. CASE ~ScanStops(m, a)
    <3>1. a + SizeAt(m, a) \in Above(n)
      BY <1>2, <1>4
    <3>2. f[a + SizeAt(m, a)] \in Counts /\ a \in Nat
      BY <1>6, <3>1
    <3> HIDE DEF Above
    <3> QED
      BY <1>5, <2>2, <3>2
  <2> QED
    BY <2>1, <2>2
<1> DEFINE Solves(n, g) == /\ g \in [Above(n) -> Counts]
                           /\ \A a \in Above(n) : g[a] = Next(g, a)
           Solvable == {n \in Nat : \E g : Solves(n, g)}
<1>7. 0 \in Solvable
  <2>1. \A a \in Above(0) : ScanStops(m, a)
    BY <1>2, <1>3
  <2>2. Solves(0, [a \in Above(0) |-> Zero])
    <3> HIDE DEF Above
    <3> QED
      BY <1>1, <2>1
  <2> HIDE DEF Solves
  <2> QED
    BY <2>2
<1>8. ASSUME NEW n \in Solvable
      PROVE  n + 1 \in Solvable
  <2>1. PICK g : Solves(n, g)
    OBVIOUS
  <2>2. n \in Nat /\ \A a \in Above(n) : a \in Above(n + 1)
    BY <1>2
  <2>3. \A a \in Above(n + 1) : a \in Nat /\ a + SizeAt(m, a) \in Above(n)
    BY <1>2, <1>4, <2>2
  <2> DEFINE h == [a \in Above(n + 1) |-> IF a \in Above(n) THEN g[a] ELSE Next(g, a)]
  <2>4. h \in [Above(n + 1) -> Counts]
    <3>1. \A a \in Above(n) : g[a] \in Counts
      BY <2>1
    <3>2. \A a \in Above(n + 1) : Next(g, a) \in Counts
      <4> HIDE DEF Above, Next, Solvable
      <4> QED
        BY <1>6, <2>2, <3>1
    <3> HIDE DEF Above, Next
    <3> QED
      BY <3>1, <3>2
  <2>5. ASSUME NEW a \in Above(n + 1)
        PROVE  h[a] = Next(h, a)
    <3>1. h[a + SizeAt(m, a)] = g[a + SizeAt(m, a)]
      <4> HIDE DEF Above, Next
      <4> QED
        BY <2>2, <2>3
    <3>2. Next(h, a) = Next(g, a)
      <4> HIDE DEF Above, h
      <4> QED
        BY <3>1
    <3>3. h[a] = Next(g, a)
      <4>1. a \in Above(n) => g[a] = Next(g, a)
        BY <2>1
      <4> HIDE DEF Above, Next
      <4> QED
        BY <4>1
    <3> QED
      BY <3>2, <3>3
  <2>6. Solves(n + 1, h)
    <3> HIDE DEF Above, h, Next
    <3> QED
      BY <2>4, <2>5
  <2> HIDE DEF Solves
  <2> QED
    BY <2>2, <2>6
<1> HIDE DEF Solves
<1>9. Solvable = Nat
  BY <1>7, <1>8, AllNumbers
<1>10. PICK g : Solves(PhysSize, g)
  BY <1>2, <1>9
<1>11. g = [a \in Nat |-> Next(g, a)]
  <2>1. Above(PhysSize) = Nat
    BY <1>2
  <2> HIDE DEF Above, Next
  <2> QED
    BY <1>10, <2>1 DEF Solves
<1> DEFINE f == CHOOSE h : h = [a \in Nat |-> Next(h, a)]
<1>12. f = [a \in Nat |-> Next(f, a)]
  <2> HIDE DEF Next
  <2> QED
    BY <1>11
<1>13. f[address] = ScanCounts(m, address)
  BY DEF ScanCounts, Zero
<1> HIDE DEF f
<1>14. \A a \in Nat : f[a] = Next(f, a)
  <2> HIDE DEF Next
  <2> QED
    BY <1>12
<1> DEFINE T == {n \in Nat : \A a \in Above(n) : f[a] \in Counts}
<1>15. 0 \in T
  <2> SUFFICES ASSUME NEW a \in Above(0)
               PROVE  f[a] \in Counts
    OBVIOUS
  <2>1. ScanStops(m, a) /\ a \in Nat
    BY <1>2, <1>3
  <2> QED
    BY <1>1, <1>14, <2>1
<1>16. ASSUME NEW n \in T
       PROVE  n + 1 \in T
  <2>1. n \in Nat /\ \A a \in Above(n) : f[a] \in Counts
    OBVIOUS
  <2> SUFFICES ASSUME NEW a \in Above(n + 1)
               PROVE  f[a] \in Counts
    BY <2>1
  <2>2. a \in Nat
    OBVIOUS
  <2> HIDE DEF Above, Next, T
  <2>3. Next(f, a) \in Counts
    BY <1>6, <2>1
  <2> QED
    BY <1>14, <2>2, <2>3
<1>17. T = Nat
  <2> HIDE DEF T
  <2> QED
    BY <1>15, <1>16, AllNumbers DEF T
<1>18. PhysSize \in T /\ address \in Above(PhysSize)
  BY <1>2, <1>17
<1> QED
  BY <1>13, <1>18

-----------------------------------------------------------------------------
(* The register table. *)

\* A register that comes before all others of a set that is not empty.
LEMMA FirstRegister ==
    ASSUME NEW c \in Counts, NEW L \in SUBSET RegId, L # {}
    PROVE  \E r \in L : \A q \in L : ~Before(c, q, r)
<1> DEFINE Bounds == {b \in Nat : \A q \in L : c[q] <= b}
           Bounded == {n \in Nat : \E b \in Nat : \A q \in RegId : q <= n => c[q] <= b}
<1>1. \A q \in RegId : c[q] \in Nat /\ q \in Nat /\ q <= 15
  BY DEF Counts, RegId
<1>2. Bounds # {}
  <2>1. 0 \in Bounded
    <3>1. \A q \in RegId : q <= 0 => c[q] <= c[0]
      BY <1>1
    <3>2. c[0] \in Nat
      BY <1>1 DEF RegId
    <3> QED
      BY <3>1, <3>2
  <2>2. ASSUME NEW n \in Bounded
        PROVE  n + 1 \in Bounded
    <3>1. PICK b \in Nat : \A q \in RegId : q <= n => c[q] <= b
      OBVIOUS
    <3>2. n \in Nat
      OBVIOUS
    <3>3. CASE n + 1 \in RegId
      <4>1. b + c[n + 1] \in Nat
        BY <1>1, <3>3
      <4>2. \A q \in RegId : q <= n + 1 => c[q] <= b + c[n + 1]
        BY <1>1, <3>1, <3>2, <3>3
      <4> QED
        BY <3>2, <4>1, <4>2
    <3>4. CASE n + 1 \notin RegId
      <4>1. \A q \in RegId : q <= n + 1 => c[q] <= b
        BY <1>1, <3>1, <3>2, <3>4
      <4> QED
        BY <3>2, <4>1
    <3> QED
      BY <3>3, <3>4
  <2>3. Bounded \in SUBSET Nat
    OBVIOUS
  <2> HIDE DEF Bounded
  <2>4. 15 \in Bounded
    BY <2>1, <2>2, <2>3, AllNumbers
  <2> QED
    BY <1>1, <2>4 DEF Bounded
<1>3. PICK b \in Bounds : \A d \in Bounds : b <= d
  BY <1>2, LeastNumber
<1>4. b \in Nat /\ \A q \in L : c[q] <= b
  BY <1>3
<1> DEFINE Most == {q \in L : c[q] = b}
<1>5. Most # {}
  <2> SUFFICES ASSUME \A q \in L : c[q] # b
               PROVE  FALSE
    OBVIOUS
  <2>1. \A q \in L : c[q] \in Nat /\ c[q] <= b - 1
    BY <1>1, <1>4
  <2>2. b - 1 \in Bounds
    BY <1>4, <2>1
  <2> QED
    BY <1>3, <1>4, <2>2
<1>6. Most \in SUBSET Nat
  BY <1>1
<1>7. PICK r \in Most : \A q \in Most : r <= q
  BY <1>5, <1>6, LeastNumber
<1>8. ASSUME NEW q \in L
      PROVE  ~Before(c, q, r)
  BY <1>1, <1>4, <1>7 DEF Before, RegId
<1> QED
  BY <1>7, <1>8

\* The order of the mapped registers: at most seven, each of them once.
IsOrder(order) ==
    /\ IsList(order) /\ Len(order) <= 7
    /\ \A k \in 1 .. Len(order) : order[k] \in RegId
    /\ \A k, l \in 1 .. Len(order) : order[k] = order[l] => k = l

\* vreg_table.c:70: the table of any counts.
LEMMA MappingOrderType ==
    ASSUME NEW c \in Counts
    PROVE  IsOrder(MappingOrder(c))
<1> DEFINE Left(prev) == {r \in RegId : c[r] > 0 /\ \A k \in DOMAIN prev : prev[k] # r}
           best(prev) == CHOOSE r \in Left(prev) : \A q \in Left(prev) : ~Before(c, q, r)
           Add(prev) == IF Left(prev) = {} THEN prev ELSE Append(prev, best(prev))
           Next(f, n) == IF n = 0 THEN <<>> ELSE Add(f[n - 1])
           s == [p \in Nat \X Seq(RegId) |-> Add(p[2])]
<1>1. ASSUME NEW prev, Left(prev) # {}
      PROVE  best(prev) \in Left(prev)
  <2>1. Left(prev) \in SUBSET RegId
    OBVIOUS
  <2> HIDE DEF Left
  <2>2. \E r \in Left(prev) : \A q \in Left(prev) : ~Before(c, q, r)
    BY <1>1, <2>1, FirstRegister
  <2> QED
    BY <2>2
<1>2. \A prev : Left(prev) # {} => /\ best(prev) \in RegId
                                   /\ \A k \in DOMAIN prev : prev[k] # best(prev)
  <2> SUFFICES ASSUME NEW prev, Left(prev) # {}
               PROVE  best(prev) \in RegId /\ \A k \in DOMAIN prev : prev[k] # best(prev)
    OBVIOUS
  <2>1. best(prev) \in Left(prev)
    BY <1>1
  <2> HIDE DEF best
  <2> QED
    BY <2>1
<1> HIDE DEF Left, best
<1>3. \A prev \in Seq(RegId) : Add(prev) \in Seq(RegId)
  BY <1>2
<1>4. <<>> \in Seq(RegId) /\ s \in [Nat \X Seq(RegId) -> Seq(RegId)]
  BY <1>3
<1> HIDE DEF Add, s
<1>5. PICK g \in [Nat -> Seq(RegId)] : Follows(g, <<>>, s)
  BY <1>4, Iterates
<1>6. g[0] = <<>> /\ \A n \in Nat : g[n + 1] = Add(g[n])
  BY <1>5 DEF Follows, s
<1> DEFINE f == CHOOSE h : h = [n \in 0 .. 7 |-> Next(h, n)]
           first == [n \in 0 .. 7 |-> g[n]]
<1>7. f[7] = MappingOrder(c)
  BY DEF MappingOrder, Add, Left, best
<1>8. first = [n \in 0 .. 7 |-> Next(first, n)]
  <2> SUFFICES ASSUME NEW n \in 0 .. 7
               PROVE  g[n] = Next(first, n)
    OBVIOUS
  <2>1. CASE n = 0
    BY <1>6, <2>1
  <2>2. CASE n # 0
    <3>1. n - 1 \in Nat /\ n - 1 \in 0 .. 7 /\ (n - 1) + 1 = n
      BY <2>2
    <3>2. first[n - 1] = g[n - 1]
      BY <3>1
    <3> HIDE DEF first
    <3>3. Next(first, n) = Add(g[n - 1])
      BY <2>2, <3>2
    <3> QED
      BY <1>6, <3>1, <3>3
  <2> QED
    BY <2>1, <2>2
<1>9. f = [n \in 0 .. 7 |-> Next(f, n)]
  <2> HIDE DEF Next, first
  <2> QED
    BY <1>8
<1> HIDE DEF f, first
<1>10. f[0] = <<>> /\ \A n \in 1 .. 7 : f[n] = Add(f[n - 1])
  BY <1>9
<1> DEFINE Good(o, n) ==
             /\ IsList(o) /\ Len(o) <= n
             /\ \A k \in 1 .. Len(o) : o[k] \in RegId
             /\ \A k, l \in 1 .. Len(o) : o[k] = o[l] => k = l
<1>11. Good(<<>>, 0)
  BY DEF IsList
<1>12. ASSUME NEW o, NEW n \in Nat, Good(o, n)
       PROVE  Good(Add(o), n + 1)
  <2>1. CASE Left(o) = {}
    BY <1>12, <2>1, ListDomain DEF Add
  <2>2. CASE Left(o) # {}
    <3>1. /\ best(o) \in RegId /\ \A k \in DOMAIN o : o[k] # best(o)
      BY <1>2, <2>2
    <3>2. PICK r : r = best(o)
      OBVIOUS
    <3>3. /\ IsList(Append(o, r)) /\ Len(Append(o, r)) = Len(o) + 1
          /\ \A i \in 1 .. Len(o) : Append(o, r)[i] = o[i]
          /\ Append(o, r)[Len(o) + 1] = r
      BY <1>12, AppendList
    <3>4. DOMAIN o = 1 .. Len(o) /\ Len(o) \in Nat
      BY <1>12, ListDomain
    <3> DEFINE a == Append(o, r)
    <3>5. Good(a, n + 1)
      <4>1. r \in RegId /\ \A k \in 1 .. Len(o) : o[k] # r
        BY <3>1, <3>2, <3>4
      <4> HIDE DEF a
      <4>2. /\ IsList(a) /\ Len(a) = Len(o) + 1
            /\ \A k \in 1 .. Len(o) : a[k] = o[k]
            /\ a[Len(o) + 1] = r
        BY <3>3 DEF a
      <4>3. \A k \in 1 .. Len(a) : k \in 1 .. Len(o) \/ k = Len(o) + 1
        <5>1. \A x \in Nat : \A k \in 1 .. x + 1 : k \in 1 .. x \/ k = x + 1
          OBVIOUS
        <5> QED
          BY <3>4, <4>2, <5>1
      <4>4. Len(a) <= n + 1
        BY <1>12, <3>4, <4>2
      <4>5. \A k \in 1 .. Len(a) : a[k] \in RegId
        BY <1>12, <4>1, <4>2, <4>3
      <4>6. \A k, l \in 1 .. Len(a) : a[k] = a[l] => k = l
        BY <1>12, <4>1, <4>2, <4>3
      <4> QED
        BY <4>2, <4>4, <4>5, <4>6
    <3>6. Add(o) = Append(o, r)
      BY <2>2, <3>2 DEF Add
    <3> HIDE DEF Good
    <3> QED
      BY <3>5, <3>6
  <2> QED
    BY <2>1, <2>2
<1> DEFINE T == {n \in Nat : n <= 7 => Good(f[n], n)}
<1>13. 0 \in T
  <2> HIDE DEF Good
  <2> QED
    BY <1>10, <1>11
<1>14. ASSUME NEW n \in T
       PROVE  n + 1 \in T
  <2>1. n \in Nat /\ (n <= 7 => Good(f[n], n))
    OBVIOUS
  <2> HIDE DEF Good
  <2>2. CASE n + 1 <= 7
    <3>1. n + 1 \in 1 .. 7 /\ (n + 1) - 1 = n /\ n <= 7
      BY <2>1, <2>2
    <3>2. Good(Add(f[n]), n + 1)
      BY <1>12, <2>1, <3>1
    <3>3. f[n + 1] = Add(f[n])
      BY <1>10, <3>1
    <3> QED
      BY <2>1, <3>2, <3>3
  <2> QED
    BY <2>1, <2>2
<1>15. T = Nat
  <2>1. T \in SUBSET Nat
    OBVIOUS
  <2> HIDE DEF T
  <2> QED
    BY <1>13, <1>14, <2>1, AllNumbers
<1>16. Good(f[7], 7)
  <2> HIDE DEF Good
  <2>1. 7 \in T
    BY <1>15
  <2> QED
    BY <2>1
<1> QED
  BY <1>7, <1>16 DEF IsOrder

\* vreg_table.c: whatever code is at an address, the table of its function has at
\* most seven registers and none of them twice.
THEOREM SolveRegionType ==
    ASSUME NEW m, IsMemory(m), NEW address \in Nat
    PROVE  IsOrder(SolveRegion(m, address))
BY ScanCountsType, MappingOrderType DEF SolveRegion

\* The slots and the registers of a table are in one-to-one correspondence.
LEMMA TableSlots ==
    ASSUME NEW f, IsOrder(f.order)
    PROVE  /\ MappedSlots(f) \subseteq Slot
           /\ \A i \in Slot : /\ RegIn(f, i) \in RegId \cup {Unused}
                              /\ RegIn(f, i) = Unused <=> i \notin MappedSlots(f)
           /\ \A r : IsMappedIn(f, r) => /\ r \in RegId /\ SlotOf(f, r) \in MappedSlots(f)
                                         /\ RegIn(f, SlotOf(f, r)) = r
           /\ \A i \in MappedSlots(f) : /\ IsMappedIn(f, RegIn(f, i))
                                        /\ SlotOf(f, RegIn(f, i)) = i
<1> DEFINE n == Len(f.order)
           o == f.order
<1>1. /\ n \in Nat /\ n <= 7 /\ DOMAIN o = 1 .. n
      /\ \A k \in 1 .. n : o[k] \in RegId
      /\ \A k, l \in 1 .. n : o[k] = o[l] => k = l
  BY ListDomain DEF IsOrder
<1> HIDE DEF n, o
<1>2. MappedSlots(f) = {7 - k : k \in 1 .. n} /\ MappedSlots(f) \subseteq Slot
  BY <1>1 DEF MappedSlots, Slot, o
<1>3. \A i \in Slot : /\ i \in MappedSlots(f) <=> 7 - i \in 1 .. n
                      /\ 7 - i \in 1 .. n => RegIn(f, i) = o[7 - i]
                      /\ 7 - i \notin 1 .. n => RegIn(f, i) = Unused
  <2> SUFFICES ASSUME NEW i \in Slot
               PROVE  /\ i \in MappedSlots(f) <=> 7 - i \in 1 .. n
                      /\ 7 - i \in 1 .. n => RegIn(f, i) = o[7 - i]
                      /\ 7 - i \notin 1 .. n => RegIn(f, i) = Unused
    OBVIOUS
  <2>1. i \in Int /\ 7 - (7 - i) = i /\ \A k \in 1 .. n : i = 7 - k => 7 - i = k
    BY DEF Slot
  <2>2. i \in MappedSlots(f) <=> 7 - i \in 1 .. n
    BY <1>2, <2>1
  <2> QED
    BY <1>1, <2>2 DEF RegIn, TableOf, o
<1>4. Unused \notin RegId
  BY DEF Unused, RegId
<1>5. ASSUME NEW r, IsMappedIn(f, r)
      PROVE  \E k \in 1 .. n : o[k] = r /\ SlotOf(f, r) = 7 - k
  <2>1. \E k \in 1 .. n : o[k] = r
    BY <1>1, <1>5 DEF IsMappedIn, o
  <2> DEFINE l == CHOOSE k \in DOMAIN o : o[k] = r
  <2>2. l \in 1 .. n /\ o[l] = r
    BY <1>1, <2>1
  <2>3. SlotOf(f, r) = 7 - l
    BY DEF SlotOf, o
  <2> QED
    BY <2>2, <2>3
<1>6. ASSUME NEW r, IsMappedIn(f, r)
      PROVE  r \in RegId /\ SlotOf(f, r) \in MappedSlots(f) /\ RegIn(f, SlotOf(f, r)) = r
  <2>1. PICK k \in 1 .. n : o[k] = r /\ SlotOf(f, r) = 7 - k
    BY <1>5, <1>6
  <2>2. 7 - (7 - k) = k /\ 7 - k \in MappedSlots(f)
    BY <1>2
  <2> QED
    BY <1>1, <1>2, <1>3, <2>1, <2>2
<1>7. ASSUME NEW i \in MappedSlots(f)
      PROVE  IsMappedIn(f, RegIn(f, i)) /\ SlotOf(f, RegIn(f, i)) = i
  <2>1. i \in Slot /\ 7 - i \in 1 .. n /\ RegIn(f, i) = o[7 - i]
    BY <1>2, <1>3
  <2>2. IsMappedIn(f, RegIn(f, i))
    BY <1>1, <2>1 DEF IsMappedIn, o
  <2>3. PICK k \in 1 .. n : o[k] = RegIn(f, i) /\ SlotOf(f, RegIn(f, i)) = 7 - k
    BY <1>5, <2>2
  <2>4. k = 7 - i
    BY <1>1, <2>1, <2>3
  <2> QED
    BY <2>1, <2>2, <2>3, <2>4 DEF Slot
<1> QED
  BY <1>1, <1>2, <1>3, <1>4, <1>6, <1>7

-----------------------------------------------------------------------------
(* The instruction container. *)

\* Lists joined.
LEMMA JoinLists ==
    ASSUME NEW S, NEW s \in Seq(S), NEW t \in Seq(S)
    PROVE  /\ s \o t \in Seq(S)
           /\ \A i \in 1 .. Len(s \o t) :
                 \/ i \in 1 .. Len(s) /\ (s \o t)[i] = s[i]
                 \/ i - Len(s) \in 1 .. Len(t) /\ (s \o t)[i] = t[i - Len(s)]
<1>1. Len(s) \in Nat /\ Len(t) \in Nat
  OBVIOUS
<1>2. /\ s \o t \in Seq(S) /\ Len(s \o t) = Len(s) + Len(t)
      /\ \A i \in 1 .. Len(s) : (s \o t)[i] = s[i]
      /\ \A i \in Len(s) + 1 .. Len(s) + Len(t) : (s \o t)[i] = t[i - Len(s)]
  BY ConcatProperties
<1> QED
  BY <1>1, <1>2

\* A range of numbers and the next one.
LEMMA Wider ==
    ASSUME NEW n \in Nat, NEW v, v \in 1 .. n \/ v = n + 1
    PROVE  v \in 1 .. n + 1
OBVIOUS

\* linker.c: an entry of the container is one of the function's instructions.
LEMMA ContainerEntries ==
    ASSUME NEW f, IsList(f.code)
    PROVE  /\ ContainerOf(f) \in Seq(Nat)
           /\ \A i \in 1 .. Len(ContainerOf(f)) : ContainerOf(f)[i] \in 1 .. Len(f.code)
<1> DEFINE Entries(n) == [w \in 1 .. Words(f.code[n]) |-> n]
           Add(prev, n) == prev \o Entries(n)
           Next(h, n) == IF n = 0 THEN <<>> ELSE Add(h[n - 1], n)
           s == [p \in Nat \X Seq(Nat) |-> Add(p[2], p[1] + 1)]
           last == Len(f.code)
<1>1. last \in Nat
  BY DEF IsList
<1>2. \A n \in Nat : /\ Entries(n) \in Seq(Nat)
                     /\ \A i \in 1 .. Len(Entries(n)) : Entries(n)[i] = n
  <2>1. \A c : Words(c) \in {1, 2}
    BY DEF Words
  <2>2. \A n \in Nat, k \in {1, 2} : /\ [w \in 1 .. k |-> n] \in Seq(Nat)
                                     /\ Len([w \in 1 .. k |-> n]) = k
    OBVIOUS
  <2> QED
    BY <2>1, <2>2
<1> HIDE DEF last, Entries
<1>3. \A prev \in Seq(Nat), n \in Nat : Add(prev, n) \in Seq(Nat)
  BY <1>2, JoinLists
<1>4. <<>> \in Seq(Nat) /\ s \in [Nat \X Seq(Nat) -> Seq(Nat)]
  <2> HIDE DEF Add
  <2> QED
    BY <1>3
<1> HIDE DEF s
<1>5. PICK g \in [Nat -> Seq(Nat)] : Follows(g, <<>>, s)
  BY <1>4, Iterates
<1>6. g[0] = <<>> /\ \A n \in Nat : g[n + 1] = Add(g[n], n + 1)
  <2> HIDE DEF Add
  <2> QED
    BY <1>5 DEF Follows, s
<1> DEFINE upto == CHOOSE h : h = [n \in 0 .. last |-> Next(h, n)]
           first == [n \in 0 .. last |-> g[n]]
<1>7. upto[last] = ContainerOf(f)
  BY DEF ContainerOf, Entries, last
<1>8. first = [n \in 0 .. last |-> Next(first, n)]
  <2> SUFFICES ASSUME NEW n \in 0 .. last
               PROVE  g[n] = Next(first, n)
    OBVIOUS
  <2> HIDE DEF Add
  <2>1. CASE n = 0
    BY <1>6, <2>1
  <2>2. CASE n # 0
    <3>1. n - 1 \in Nat /\ n - 1 \in 0 .. last /\ (n - 1) + 1 = n
      BY <1>1, <2>2
    <3>2. first[n - 1] = g[n - 1]
      BY <3>1
    <3> HIDE DEF first
    <3>3. Next(first, n) = Add(g[n - 1], n)
      BY <2>2, <3>2
    <3> QED
      BY <1>6, <3>1, <3>3
  <2> QED
    BY <2>1, <2>2
<1>9. upto = [n \in 0 .. last |-> Next(upto, n)]
  <2> HIDE DEF Next, first
  <2> QED
    BY <1>8
<1> HIDE DEF upto, first
<1>10. upto[0] = <<>> /\ \A n \in 1 .. last : upto[n] = Add(upto[n - 1], n)
  <2> HIDE DEF Add
  <2>1. 0 \in 0 .. last /\ \A n \in 1 .. last : n \in 0 .. last /\ n # 0
    BY <1>1
  <2>2. \A n \in 0 .. last : upto[n] = Next(upto, n)
    <3> HIDE DEF Next
    <3> QED
      BY <1>9
  <2> QED
    BY <2>1, <2>2
<1> DEFINE Good(u, n) == u \in Seq(Nat) /\ \A i \in 1 .. Len(u) : u[i] \in 1 .. n
           T == {n \in Nat : n <= last => Good(upto[n], n)}
<1>11. 0 \in T
  <2>1. Good(<<>>, 0)
    OBVIOUS
  <2> HIDE DEF Good
  <2> QED
    BY <1>10, <2>1
<1>12. ASSUME NEW n \in T
       PROVE  n + 1 \in T
  <2>1. n \in Nat /\ (n <= last => Good(upto[n], n))
    OBVIOUS
  <2>2. CASE n + 1 <= last
    <3>1. n + 1 \in 1 .. last /\ (n + 1) - 1 = n /\ n <= last /\ n + 1 \in Nat
      BY <1>1, <2>1, <2>2
    <3>2. PICK u, e : u = upto[n] /\ e = Entries(n + 1)
      OBVIOUS
    <3>3. Good(u, n) /\ e \in Seq(Nat) /\ \A i \in 1 .. Len(e) : e[i] = n + 1
      BY <1>2, <2>1, <3>1, <3>2
    <3>4. /\ u \o e \in Seq(Nat)
          /\ \A i \in 1 .. Len(u \o e) :
                \/ i \in 1 .. Len(u) /\ (u \o e)[i] = u[i]
                \/ i - Len(u) \in 1 .. Len(e) /\ (u \o e)[i] = e[i - Len(u)]
      BY <3>3, JoinLists
    <3>5. \A i \in 1 .. Len(u \o e) : (u \o e)[i] \in 1 .. n + 1
      <4> SUFFICES ASSUME NEW i \in 1 .. Len(u \o e)
                   PROVE  (u \o e)[i] \in 1 .. n + 1
        OBVIOUS
      <4>0. \A v : v \in 1 .. n \/ v = n + 1 => v \in 1 .. n + 1
        BY <2>1, Wider
      <4>1. CASE i \in 1 .. Len(u) /\ (u \o e)[i] = u[i]
        <5>1. u[i] \in 1 .. n
          BY <3>3, <4>1
        <5> HIDE DEF T, Good
        <5> QED
          BY <4>0, <4>1, <5>1
      <4>2. CASE i - Len(u) \in 1 .. Len(e) /\ (u \o e)[i] = e[i - Len(u)]
        <5>1. e[i - Len(u)] = n + 1
          BY <3>3, <4>2
        <5> HIDE DEF T, Good
        <5> QED
          BY <4>0, <4>2, <5>1
      <4> QED
        BY <3>4, <4>1, <4>2
    <3>6. upto[n + 1] = u \o e
      BY <1>10, <3>1, <3>2
    <3>7. Good(upto[n + 1], n + 1)
      BY <3>4, <3>5, <3>6
    <3> HIDE DEF Good
    <3> QED
      BY <3>1, <3>7
  <2>3. CASE ~(n + 1 <= last)
    BY <2>1, <2>3
  <2> QED
    BY <2>2, <2>3
<1>13. T = Nat
  <2>1. T \in SUBSET Nat
    OBVIOUS
  <2> HIDE DEF T
  <2> QED
    BY <1>11, <1>12, <2>1, AllNumbers
<1>14. Good(upto[last], last)
  <2> HIDE DEF Good
  <2>1. \A n \in Nat : n <= last => Good(upto[n], n)
    BY <1>13
  <2> QED
    BY <1>1, <2>1
<1> QED
  BY <1>7, <1>14 DEF last

\* linker.c:45: whatever a jump's target is, one that is linked goes to one of the
\* function's instructions.
THEOREM LinkedInside ==
    ASSUME NEW f, IsList(f.code), NEW target \in Int, f.addr \in Int,
           LinkKind(f, target) = "linked"
    PROVE  LinkedTo(f, target) \in 1 .. Len(f.code)
<1> DEFINE c == ContainerOf(f)
           i == (target - f.addr) \div 2 + 1
<1>1. Len(c) \in Nat /\ \A k \in 1 .. Len(c) : c[k] \in 1 .. Len(f.code)
  BY ContainerEntries
<1>2. target - f.addr \in Int /\ 0 <= target - f.addr /\ (target - f.addr) \div 2 < Len(c)
  BY DEF LinkKind
<1>3. i \in 1 .. Len(c)
  BY <1>1, <1>2
<1> QED
  BY <1>1, <1>3 DEF LinkedTo

\* The n-th instruction that the loop comes to ends the function.
EndsAt(m, address, n) == EndsFunction(Peek(m, Fetches(m, address)[n]))

\* A loop that has come to more instructions than there are addresses has come to one of
\* them twice, and comes to nothing new: the first that ends the function is no later than
\* the number of addresses.
LEMMA FirstEndInWord ==
    ASSUME NEW m, NEW address \in Word, NEW n \in Nat, EndsAt(m, address, n),
           \A k \in 0 .. n - 1 : ~EndsAt(m, address, k)
    PROVE  n \in Word
<1>1. PICK g \in [Nat -> Word] : /\ g = Fetches(m, address)
                                 /\ \A k \in Nat : g[k + 1] = Wrap(g[k] + SizeAt(m, g[k]))
  BY FetchesStep
<1>2. SUFFICES ASSUME n > 65535
               PROVE  FALSE
  BY InWord
<1>3. PICK i \in Nat, d \in Nat : d > 0 /\ i + d <= 65536 /\ g[i] = g[i + d]
  <2>1. PICK top \in Int : top = 65536
    OBVIOUS
  <2> DEFINE S == 0 .. top
             h == [k \in S |-> g[k]]
  <2>2. IsFiniteSet(S) /\ Cardinality(S) = top + 1
    <3>1. 0 \in Int /\ ~(0 > top) /\ top - 0 + 1 = top + 1
      BY <2>1
    <3> QED
      BY <3>1, FS_Interval
  <2>3. IsFiniteSet(Word) /\ Cardinality(Word) = top
    <3>1. Word = 0 .. top - 1
      <4>1. PICK last \in Int : last = 65535 /\ last = top - 1
        BY <2>1
      <4>2. \A w : w \in Word <=> w \in Int /\ 0 <= w /\ w <= last
        BY <4>1, InWord
      <4>3. \A w : w \in 0 .. last <=> w \in Int /\ 0 <= w /\ w <= last
        OBVIOUS
      <4>4. Word = 0 .. last
        BY <4>2, <4>3, Zenon
      <4>5. last = top - 1
        BY <4>1
      <4> QED
        BY <4>4, <4>5, Zenon
    <3>2. 0 \in Int /\ top - 1 \in Int /\ ~(0 > top - 1) /\ (top - 1) - 0 + 1 = top
      BY <2>1
    <3> QED
      BY <3>1, <3>2, FS_Interval
  <2>4. \A k \in S : k \in Nat /\ k <= top
    OBVIOUS
  <2>5. h \in [S -> Word] /\ \A k \in S : h[k] = g[k]
    <3> HIDE DEF S
    <3> QED
      BY <1>1, <2>4
  <2> HIDE DEF h, S
  <2>6. PICK x \in S, y \in S : x # y /\ h[x] = h[y]
    <3>1. Cardinality(Word) < Cardinality(S)
      BY <2>1, <2>2, <2>3
    <3> QED
      BY <2>2, <2>3, <2>5, <3>1, FS_PigeonHole
  <2>7. g[x] = g[y] /\ x \in Nat /\ y \in Nat /\ x <= 65536 /\ y <= 65536
    BY <2>1, <2>4, <2>5, <2>6
  <2>8. CASE x < y
    <3>1. y - x \in Nat /\ y - x > 0 /\ x + (y - x) = y
      BY <2>7, <2>8
    <3> QED
      BY <2>7, <3>1
  <2>9. CASE y < x
    <3>1. x - y \in Nat /\ x - y > 0 /\ y + (x - y) = x
      BY <2>7, <2>9
    <3> QED
      BY <2>7, <3>1
  <2> QED
    BY <2>6, <2>7, <2>8, <2>9
<1> DEFINE T == {k \in Nat : g[i + k] = g[i + d + k]}
<1>4. 0 \in T
  BY <1>3
<1>5. ASSUME NEW k \in T
      PROVE  k + 1 \in T
  <2>1. i + k \in Nat /\ i + d + k \in Nat /\ g[i + k] = g[i + d + k]
    OBVIOUS
  <2>2. i + (k + 1) = (i + k) + 1 /\ i + d + (k + 1) = (i + d + k) + 1 /\ k + 1 \in Nat
    OBVIOUS
  <2> QED
    BY <1>1, <2>1, <2>2
<1>6. T = Nat
  <2> HIDE DEF T
  <2>1. T \in SUBSET Nat
    BY DEF T
  <2> QED
    BY <1>4, <1>5, <2>1, AllNumbers
<1>7. n - (i + d) \in Nat /\ i + d + (n - (i + d)) = n /\ n - d \in 0 .. n - 1
      /\ i + (n - (i + d)) = n - d
  BY <1>2, <1>3
<1>8. g[n - d] = g[n]
  BY <1>6, <1>7
<1> QED
  BY <1>1, <1>7, <1>8 DEF EndsAt

\* What the loop translates when its n-th instruction is the first that ends the function.
LEMMA TranslateIs ==
    ASSUME NEW m, NEW address \in Word, NEW n \in Nat, EndsAt(m, address, n),
           \A k \in 0 .. n - 1 : ~EndsAt(m, address, k)
    PROVE  Translate(m, address) =
             [i \in 1 .. n + 1 |-> Translated(m, Fetches(m, address)[i - 1])]
<1> DEFINE First(j) == EndsAt(m, address, j) /\ \A k \in 0 .. j - 1 : ~EndsAt(m, address, k)
           j == CHOOSE i \in Word : First(i)
<1>1. n \in Word /\ First(n)
  BY FirstEndInWord
<1>2. j \in Word /\ First(j)
  <2> HIDE DEF First
  <2> QED
    BY <1>1
<1>3. j = n
  <2>1. j \in Nat
    BY <1>2, InWord
  <2>2. ~(j < n)
    <3>1. j < n => j \in 0 .. n - 1
      BY <2>1
    <3> QED
      BY <1>2, <3>1
  <2>3. ~(n < j)
    <3>1. n < j => n \in 0 .. j - 1
      BY <2>1
    <3> QED
      BY <1>2, <3>1
  <2> QED
    BY <2>1, <2>2, <2>3
<1>4. Translate(m, address) = [i \in 1 .. j + 1 |-> Translated(m, Fetches(m, address)[i - 1])]
  BY <1>1 DEF Translate, EndsAt
<1> QED
  BY <1>3, <1>4

-----------------------------------------------------------------------------
(* The container, filled while the loop runs. *)

\* The instruction that the loop comes to after n others.
TranslatedAt(m, address, n) == Translated(m, Fetches(m, address)[n])

\* The entries pushed for the n-th instruction.
EntriesFor(m, address, n) == [w \in 1 .. Words(TranslatedAt(m, address, n - 1)) |-> n]

\* The entries after the first n instructions.
Entries(m, address) ==
    LET e[n \in Nat] == IF n = 0 THEN <<>> ELSE e[n - 1] \o EntriesFor(m, address, n)
    IN  e

\* One or two entries are pushed.
LEMMA EntriesForType ==
    ASSUME NEW m, NEW address, NEW n \in Nat
    PROVE  /\ EntriesFor(m, address, n) \in Seq(Nat)
           /\ Len(EntriesFor(m, address, n)) = Words(TranslatedAt(m, address, n - 1))
           /\ Words(TranslatedAt(m, address, n - 1)) \in {1, 2}
           /\ \A w \in 1 .. Words(TranslatedAt(m, address, n - 1)) :
                 EntriesFor(m, address, n)[w] = n
<1>1. PICK k \in {1, 2} : k = Words(TranslatedAt(m, address, n - 1))
  BY DEF Words
<1> QED
  BY <1>1 DEF EntriesFor

\* The entries after n + 1 instructions are those after n and the ones pushed then.
LEMMA EntriesStep ==
    ASSUME NEW m, NEW address
    PROVE  /\ Entries(m, address) \in [Nat -> Seq(Nat)]
           /\ Entries(m, address)[0] = <<>>
           /\ \A n \in Nat : Entries(m, address)[n + 1] =
                                 Entries(m, address)[n] \o EntriesFor(m, address, n + 1)
<1> DEFINE Add(prev, n) == prev \o EntriesFor(m, address, n)
           s == [p \in Nat \X Seq(Nat) |-> Add(p[2], p[1] + 1)]
           Next(h, n) == IF n = 0 THEN <<>> ELSE Add(h[n - 1], n)
<1>1. \A prev \in Seq(Nat), n \in Nat : Add(prev, n) \in Seq(Nat)
  BY EntriesForType
<1> HIDE DEF Add
<1>2. s \in [Nat \X Seq(Nat) -> Seq(Nat)] /\ <<>> \in Seq(Nat)
  BY <1>1
<1> HIDE DEF s
<1>3. PICK g \in [Nat -> Seq(Nat)] : Follows(g, <<>>, s)
  BY <1>2, Iterates
<1>4. g[0] = <<>> /\ \A n \in Nat : g[n + 1] = Add(g[n], n + 1)
  BY <1>3 DEF Follows, s
<1>5. g = [n \in Nat |-> Next(g, n)]
  <2>1. ASSUME NEW n \in Nat
        PROVE  g[n] = Next(g, n)
    <3>1. CASE n = 0
      BY <1>4, <3>1
    <3>2. CASE n # 0
      <4>1. n - 1 \in Nat /\ (n - 1) + 1 = n
        BY <3>2
      <4> QED
        BY <1>4, <3>2, <4>1
    <3> QED
      BY <3>1, <3>2
  <2> HIDE DEF Next
  <2> QED
    BY <2>1
<1> DEFINE f == CHOOSE h : h = [n \in Nat |-> Next(h, n)]
<1>6. f = [n \in Nat |-> Next(f, n)]
  <2> HIDE DEF Next
  <2> QED
    BY <1>5
<1>7. f = Entries(m, address)
  BY DEF Entries, Add
<1> HIDE DEF f
<1>8. f[0] = <<>> /\ \A n \in Nat : f[n + 1] = Add(f[n], n + 1)
  <2>1. \A n \in Nat : f[n] = Next(f, n)
    <3> HIDE DEF Next
    <3> QED
      BY <1>6
  <2>2. \A n \in Nat : n + 1 \in Nat /\ n + 1 # 0 /\ (n + 1) - 1 = n
    OBVIOUS
  <2> QED
    BY <2>1, <2>2
<1> DEFINE T == {n \in Nat : f[n] = g[n]}
<1>9. 0 \in T
  BY <1>4, <1>8
<1>10. ASSUME NEW n \in T
       PROVE  n + 1 \in T
  <2>1. n \in Nat /\ n + 1 \in Nat /\ f[n] = g[n]
    OBVIOUS
  <2>2. f[n + 1] = g[n + 1]
    BY <1>4, <1>8, <2>1
  <2> QED
    BY <2>1, <2>2
<1>11. T = Nat
  <2> HIDE DEF T
  <2>1. T \in SUBSET Nat
    BY DEF T
  <2> QED
    BY <1>9, <1>10, <2>1, AllNumbers
<1>12. \A n \in Nat : f[n] \in Seq(Nat)
  BY <1>11
<1>13. DOMAIN f = Nat /\ f = [n \in DOMAIN f |-> f[n]]
  <2> HIDE DEF Next
  <2> QED
    BY <1>6
<1>14. f \in [Nat -> Seq(Nat)]
  BY <1>12, <1>13
<1> QED
  BY <1>7, <1>8, <1>14 DEF Add

\* The container of the first n instructions.
LEMMA ContainerIs ==
    ASSUME NEW m, NEW address, NEW n \in Nat, NEW f, Len(f.code) = n,
           \A k \in 1 .. n : f.code[k] = TranslatedAt(m, address, k - 1)
    PROVE  ContainerOf(f) = Entries(m, address)[n]
<1> DEFINE E == Entries(m, address)
           For(k) == [w \in 1 .. Words(f.code[k]) |-> k]
           Next(h, k) == IF k = 0 THEN <<>> ELSE h[k - 1] \o For(k)
           upto == CHOOSE h : h = [k \in 0 .. n |-> Next(h, k)]
           first == [k \in 0 .. n |-> E[k]]
<1>1. Len(f.code) = n
  OBVIOUS
<1>2. upto[n] = ContainerOf(f)
  BY <1>1 DEF ContainerOf
<1>3. /\ E[0] = <<>>
      /\ \A k \in Nat : E[k + 1] = E[k] \o EntriesFor(m, address, k + 1)
  BY EntriesStep
<1>4. \A k \in 1 .. n : f.code[k] = TranslatedAt(m, address, k - 1)
  OBVIOUS
<1>5. \A k \in 1 .. n : For(k) = EntriesFor(m, address, k)
  BY <1>4 DEF EntriesFor
<1> HIDE DEF E, For
<1>6. \A k \in 1 .. n : k - 1 \in Nat /\ k - 1 \in 0 .. n /\ (k - 1) + 1 = k
  OBVIOUS
<1>7. ASSUME NEW k \in 1 .. n
      PROVE  E[k] = E[k - 1] \o For(k)
  <2>1. E[(k - 1) + 1] = E[k - 1] \o EntriesFor(m, address, (k - 1) + 1)
    BY <1>3, <1>6
  <2> QED
    BY <1>5, <1>6, <2>1
<1>8. first = [k \in 0 .. n |-> Next(first, k)]
  <2>1. \A k \in 1 .. n : first[k - 1] = E[k - 1]
    BY <1>6
  <2>2. ASSUME NEW k \in 0 .. n
        PROVE  E[k] = Next(first, k)
    <3>1. k = 0 \/ (k \in 1 .. n /\ k # 0)
      OBVIOUS
    <3> HIDE DEF first
    <3> QED
      BY <1>3, <1>7, <2>1, <3>1
  <2> HIDE DEF Next
  <2> QED
    BY <2>2
<1>9. upto = [k \in 0 .. n |-> Next(upto, k)]
  <2> HIDE DEF Next, first
  <2> QED
    BY <1>8
<1> HIDE DEF upto
<1>10. upto[0] = <<>> /\ \A k \in 1 .. n : upto[k] = upto[k - 1] \o For(k)
  <2>1. 0 \in 0 .. n /\ \A k \in 1 .. n : k \in 0 .. n /\ k # 0
    OBVIOUS
  <2>2. \A k \in 0 .. n : upto[k] = Next(upto, k)
    <3> HIDE DEF Next
    <3> QED
      BY <1>9
  <2> QED
    BY <2>1, <2>2
<1> DEFINE T == {k \in Nat : k <= n => upto[k] = E[k]}
<1>11. 0 \in T
  BY <1>3, <1>10
<1>12. ASSUME NEW k \in T
       PROVE  k + 1 \in T
  <2>1. k \in Nat /\ (k <= n => upto[k] = E[k])
    OBVIOUS
  <2>2. k + 1 <= n => k + 1 \in 1 .. n /\ (k + 1) - 1 = k /\ k <= n
    BY <2>1
  <2>3. ASSUME k + 1 <= n
        PROVE  upto[k + 1] = E[k + 1]
    <3>1. k + 1 \in 1 .. n /\ (k + 1) - 1 = k /\ upto[k] = E[k]
      BY <2>1, <2>2, <2>3
    <3>2. E[k + 1] = E[(k + 1) - 1] \o For(k + 1) /\ upto[k + 1] = upto[(k + 1) - 1] \o For(k + 1)
      BY <1>7, <1>10, <3>1
    <3> QED
      BY <3>1, <3>2
  <2> QED
    BY <2>1, <2>3
<1>13. T = Nat
  <2> HIDE DEF T
  <2>1. T \in SUBSET Nat
    BY DEF T
  <2> QED
    BY <1>11, <1>12, <2>1, AllNumbers
<1>14. upto[n] = E[n]
  BY <1>13
<1> QED
  BY <1>2, <1>14 DEF E
=============================================================================
