----------------------------- MODULE XAsProofs -----------------------------
(***************************************************************************)
(* The assembler never writes behind its object and keeps its table of     *)
(* symbols well-formed, from the first line to the file's last byte; and   *)
(* the programs it accepts are exactly those that Assembly calls           *)
(* acceptable.  Asked of the source are: no .words with a negative count   *)
(* that passes the assembler's check; for the table that is stored behind  *)
(* the code to stay in the object, no name with more than 80 of the 84     *)
(* bytes a name may have; for what is accepted, no label named "$".        *)
(***************************************************************************)
EXTENDS Assembly, FiniteSetTheorems, WellFoundedInduction, NaturalsInduction, TLAPS

\* No negative count of .words passes the check of its low 16 bits, which the code
\* does not ensure: see WordsArePositive in Assembly.
NoNegativeWords ==
    \A p \in Programs : \A i \in DOMAIN p :
        LET s == Statement(p[i])
        IN  Is(s, ".words") /\ ~(Kind(s, 2) # "INT" \/ Short(s[2].value) < 1) => s[2].value >= 0

\* A name this long always has its place in the stored table, although
\* xreloc_store_table does not count it (xreloc.c:213).
LongestName == 80

NamesLeaveRoom ==
    \A p \in Programs : \A i \in DOMAIN p : \A j \in DOMAIN p[i] :
        p[i][j].kind = "LABEL" => Len(p[i][j].value) <= LongestName

\* "$" is not the name of a label: token() takes letters, digits and "_" for a label
\* (xas.c:147).
NoDollar ==
    \A p \in Programs : \A i \in DOMAIN p : \A j \in DOMAIN p[i] :
        p[i][j].kind = "LABEL" => p[i][j].value # REL_NAME

-----------------------------------------------------------------------------
(* Induction over the numbers, for sets. *)

\* Every set of numbers but the empty one has a least element.
LEMMA LeastNumber ==
    ASSUME NEW T \in SUBSET Nat, T # {}
    PROVE  \E n \in T : \A m \in T : n <= m
<1> DEFINE R == {p \in Nat \X Nat : p[1] < p[2]}
<1>1. IsWellFoundedOn(R, Nat)
  BY NatLessThanWellFounded DEF OpToRel
<1>2. \A a, b \in Nat : <<a, b>> \in R <=> a < b
  OBVIOUS
<1> HIDE DEF R
<1>3. PICK n \in T : \A m \in T : ~(<<m, n>> \in R)
  BY <1>1, WFMin
<1>4. \A m \in T : ~(m < n)
  BY <1>2, <1>3
<1> QED
  BY <1>4

\* A set that has 0, and the successor of each of its numbers, has them all.
LEMMA AllNumbers ==
    ASSUME NEW T \in SUBSET Nat, 0 \in T, \A n \in T : n + 1 \in T
    PROVE  T = Nat
<1> SUFFICES ASSUME Nat \ T # {}
             PROVE  FALSE
  OBVIOUS
<1>1. PICK n \in Nat \ T : \A m \in Nat \ T : n <= m
  BY LeastNumber
<1>2. n - 1 \in Nat /\ n - 1 \in T
  BY <1>1
<1> QED
  BY <1>1, <1>2

\* A finite set of numbers that is not empty has a greatest element.
LEMMA MaxInside ==
    ASSUME NEW n \in Nat, NEW T \in SUBSET (1 .. n), T # {}
    PROVE  Max(T) \in T /\ \A m \in T : m <= Max(T)
<1> DEFINE D == {n - m : m \in T}
<1>1. D \in SUBSET Nat /\ D # {}
  <2>1. \A m \in T : n - m \in Nat
    OBVIOUS
  <2>2. PICK m \in T : TRUE
    OBVIOUS
  <2>3. n - m \in D
    OBVIOUS
  <2> QED
    BY <2>1, <2>3
<1>2. PICK d \in D : \A m \in D : d <= m
  BY <1>1, LeastNumber
<1>3. PICK x \in T : d = n - x
  BY <1>2
<1>4. \A m \in T : x >= m
  BY <1>2, <1>3
<1> QED
  BY <1>3, <1>4 DEF Max

-----------------------------------------------------------------------------
(* Folds over finite sets.  c chooses the element that comes last. *)
Choice(A, c) == \A T \in SUBSET A : T # {} => c[T] \in T

\* g folds F over the subsets of A.
Fold(A, c, base, F, g) ==
    \A T \in SUBSET A : g[T] = IF T = {} THEN base ELSE F[<<c[T], g[T \ {c[T]}]>>]

\* Without one element there is one less.
LEMMA OneLess ==
    ASSUME NEW A, IsFiniteSet(A), NEW c, Choice(A, c), NEW T \in SUBSET A, T # {},
           NEW n \in Nat, Cardinality(T) <= n + 1
    PROVE  c[T] \in A /\ T \ {c[T]} \in SUBSET A /\ Cardinality(T \ {c[T]}) <= n
<1>1. c[T] \in T
  BY DEF Choice
<1>2. IsFiniteSet(T)
  BY FS_Subset
<1>3. Cardinality(T \ {c[T]}) = Cardinality(T) - 1 /\ Cardinality(T) \in Nat
  BY <1>1, <1>2, FS_RemoveElement, FS_CardinalityType
<1> QED
  BY <1>1, <1>3

\* Whatever is folded, there is a function that folds it.
LEMMA FoldExists ==
    ASSUME NEW A, IsFiniteSet(A), NEW c, Choice(A, c), NEW S, NEW base \in S,
           NEW F \in [A \X S -> S]
    PROVE  \E g \in [SUBSET A -> S] : Fold(A, c, base, F, g)
<1> DEFINE Small(n) == {T \in SUBSET A : Cardinality(T) <= n}
           Folds(n) == {g \in [SUBSET A -> S] :
                          \A T \in Small(n) :
                              g[T] = IF T = {} THEN base ELSE F[<<c[T], g[T \ {c[T]}]>>]}
           Possible == {n \in Nat : Folds(n) # {}}
<1>1. 0 \in Possible
  <2> DEFINE g == [T \in SUBSET A |-> base]
  <2>1. \A T \in Small(0) : T = {}
    <3> SUFFICES ASSUME NEW T \in Small(0)
                 PROVE  T = {}
      OBVIOUS
    <3>1. IsFiniteSet(T) /\ Cardinality(T) <= 0
      BY FS_Subset
    <3>2. Cardinality(T) = 0
      BY <3>1, FS_CardinalityType
    <3> QED
      BY <3>1, <3>2, FS_EmptySet
  <2>2. g \in Folds(0)
    BY <2>1
  <2> QED
    BY <2>2
<1>2. ASSUME NEW n \in Possible
      PROVE  n + 1 \in Possible
  <2>1. PICK g \in Folds(n) : TRUE
    OBVIOUS
  <2>2. g \in [SUBSET A -> S] /\ n \in Nat
    OBVIOUS
  <2> DEFINE h == [T \in SUBSET A |->
                     IF T = {} THEN base
                     ELSE IF T \in Small(n + 1) THEN F[<<c[T], g[T \ {c[T]}]>>] ELSE base]
  <2>3. ASSUME NEW T \in Small(n + 1), T # {}
        PROVE  c[T] \in A /\ T \ {c[T]} \in Small(n)
    BY <2>2, <2>3, OneLess
  <2>4. h \in [SUBSET A -> S]
    <3> SUFFICES ASSUME NEW T \in SUBSET A
                 PROVE  h[T] \in S
      OBVIOUS
    <3>1. CASE T = {} \/ T \notin Small(n + 1)
      BY <3>1
    <3>2. CASE T # {} /\ T \in Small(n + 1)
      <4>1. c[T] \in A /\ g[T \ {c[T]}] \in S
        BY <2>2, <2>3, <3>2
      <4> QED
        BY <3>2, <4>1
    <3> QED
      BY <3>1, <3>2
  <2>5. ASSUME NEW T \in Small(n)
        PROVE  h[T] = g[T]
    <3>1. T \in Small(n + 1)
      <4>1. Cardinality(T) \in Nat
        BY FS_Subset, FS_CardinalityType
      <4> QED
        BY <2>2, <4>1
    <3>2. g[T] = IF T = {} THEN base ELSE F[<<c[T], g[T \ {c[T]}]>>]
      BY <2>1
    <3> QED
      BY <3>1, <3>2
  <2>6. ASSUME NEW T \in Small(n + 1)
        PROVE  h[T] = IF T = {} THEN base ELSE F[<<c[T], h[T \ {c[T]}]>>]
    BY <2>3, <2>5
  <2>7. h \in Folds(n + 1)
    BY <2>4, <2>6
  <2> HIDE DEF Folds
  <2> QED
    BY <2>2, <2>7
<1>3. Possible = Nat
  <2> HIDE DEF Folds
  <2>1. Possible \in SUBSET Nat
    OBVIOUS
  <2> HIDE DEF Possible
  <2> QED
    BY <1>1, <1>2, <2>1, AllNumbers
<1>4. Cardinality(A) \in Nat
  BY FS_CardinalityType
<1>5. PICK g \in Folds(Cardinality(A)) : TRUE
  <2> HIDE DEF Folds
  <2>1. Cardinality(A) \in Possible
    BY <1>3, <1>4
  <2> QED
    BY <2>1
<1>6. \A T \in SUBSET A : T \in Small(Cardinality(A))
  BY FS_Subset
<1> QED
  BY <1>5, <1>6 DEF Fold

\* What holds at the start and is kept by every element holds at the end.
LEMMA FoldStays ==
    ASSUME NEW A, IsFiniteSet(A), NEW c, Choice(A, c), NEW S, NEW g, g[{}] \in S,
           \A T \in SUBSET A : T # {} /\ g[T \ {c[T]}] \in S => g[T] \in S
    PROVE  g[A] \in S
<1> DEFINE Good == {n \in Nat : \A T \in SUBSET A : Cardinality(T) <= n => g[T] \in S}
<1>1. 0 \in Good
  <2> SUFFICES ASSUME NEW T \in SUBSET A, Cardinality(T) <= 0
               PROVE  g[T] \in S
    OBVIOUS
  <2>1. IsFiniteSet(T)
    BY FS_Subset
  <2>2. Cardinality(T) = 0
    BY <2>1, FS_CardinalityType
  <2> QED
    BY <2>1, <2>2, FS_EmptySet
<1>2. ASSUME NEW n \in Good
      PROVE  n + 1 \in Good
  <2> SUFFICES ASSUME NEW T \in SUBSET A, Cardinality(T) <= n + 1
               PROVE  g[T] \in S
    OBVIOUS
  <2>1. CASE T = {}
    BY <2>1
  <2>2. CASE T # {}
    <3>1. T \ {c[T]} \in SUBSET A /\ Cardinality(T \ {c[T]}) <= n
      BY <2>2, OneLess
    <3> QED
      BY <2>2, <3>1
  <2> QED
    BY <2>1, <2>2
<1>3. Good = Nat
  <2>1. Good \in SUBSET Nat
    OBVIOUS
  <2> HIDE DEF Good
  <2> QED
    BY <1>1, <1>2, <2>1, AllNumbers
<1>4. Cardinality(A) \in Nat
  BY FS_CardinalityType
<1> QED
  BY <1>3, <1>4

\* A fold to the left over a sequence goes through the sets 1 .. n.
LEMMA FoldOrder ==
    ASSUME NEW n \in Nat
    PROVE  /\ IsFiniteSet(1 .. n)
           /\ Choice(1 .. n, [T \in SUBSET (1 .. n) |-> Max(T)])
<1>1. IsFiniteSet(1 .. n)
  BY FS_Interval
<1> DEFINE c == [T \in SUBSET (1 .. n) |-> Max(T)]
<1>2. ASSUME NEW T \in SUBSET (1 .. n), T # {}
      PROVE  c[T] \in T
  <2>1. Max(T) \in T
    BY <1>2, MaxInside
  <2> QED
    BY <2>1
<1> QED
  BY <1>1, <1>2 DEF Choice

\* Applied one after the other, the relocations of a symbol keep what each of them
\* keeps.
LEMMA RelocatesSymbol ==
    ASSUME NEW S, NEW X, NEW sym, NEW st \in S, sym.relocs \in Seq(X),
           \A s \in S : \A r \in X : RelocateOne(s, sym, r) \in S
    PROVE  FoldLeft(LAMBDA s, r : RelocateOne(s, sym, r), st, sym.relocs) \in S
<1> DEFINE seq == sym.relocs
           A == 1 .. Len(seq)
           c == [T \in SUBSET A |-> Max(T)]
           F == [p \in A \X S |-> RelocateOne(p[2], sym, seq[p[1]])]
           Eq(g) == g = [T \in SUBSET DOMAIN seq |->
                           IF T = {} THEN st
                           ELSE RelocateOne(g[T \ {Max(T)}], sym, seq[Max(T)])]
           iter == CHOOSE g : Eq(g)
<1>1. Len(seq) \in Nat /\ DOMAIN seq = A /\ \A k \in A : seq[k] \in X
  OBVIOUS
<1>2. IsFiniteSet(A) /\ Choice(A, c)
  BY <1>1, FoldOrder
<1>3. F \in [A \X S -> S]
  BY <1>1
<1>4. FoldLeft(LAMBDA s, r : RelocateOne(s, sym, r), st, sym.relocs) = iter[DOMAIN seq]
  BY DEF FoldLeft, MapThenFoldSet
<1> HIDE DEF A, c
<1>5. PICK g \in [SUBSET A -> S] : Fold(A, c, st, F, g)
  BY <1>2, <1>3, FoldExists
<1>6. Eq(g)
  BY <1>1, <1>2, <1>5 DEF Fold, Choice, A, c
<1>7. Eq(iter)
  BY <1>6
<1> HIDE DEF iter
<1>8. iter[A] \in S
  <2>1. iter[{}] \in S
    BY <1>1, <1>7
  <2>2. \A T \in SUBSET A : T # {} /\ iter[T \ {c[T]}] \in S => iter[T] \in S
    <3> SUFFICES ASSUME NEW T \in SUBSET A, T # {}, iter[T \ {c[T]}] \in S
                 PROVE  iter[T] \in S
      OBVIOUS
    <3>1. c[T] = Max(T) /\ c[T] \in A
      BY <1>2 DEF Choice, c
    <3>2. iter[T] = RelocateOne(iter[T \ {c[T]}], sym, seq[c[T]])
      BY <1>1, <1>7, <3>1
    <3> QED
      BY <1>1, <3>1, <3>2
  <2> QED
    BY <1>2, <2>1, <2>2, FoldStays
<1> QED
  BY <1>1, <1>4, <1>8

\* The symbols of a table, relocated one after the other.
LEMMA RelocatesTable ==
    ASSUME NEW S, NEW X, NEW st \in S, NEW syms \in Seq(X),
           \A s \in S : \A sym \in X : RelocateSymbol(s, sym) \in S
    PROVE  FoldLeft(RelocateSymbol, st, syms) \in S
<1> DEFINE A == 1 .. Len(syms)
           c == [T \in SUBSET A |-> Max(T)]
           F == [p \in A \X S |-> RelocateSymbol(p[2], syms[p[1]])]
           Eq(g) == g = [T \in SUBSET DOMAIN syms |->
                           IF T = {} THEN st
                           ELSE RelocateSymbol(g[T \ {Max(T)}], syms[Max(T)])]
           iter == CHOOSE g : Eq(g)
<1>1. Len(syms) \in Nat /\ DOMAIN syms = A /\ \A k \in A : syms[k] \in X
  OBVIOUS
<1>2. IsFiniteSet(A) /\ Choice(A, c)
  BY <1>1, FoldOrder
<1>3. F \in [A \X S -> S]
  BY <1>1
<1>4. FoldLeft(RelocateSymbol, st, syms) = iter[DOMAIN syms]
  BY DEF FoldLeft, MapThenFoldSet
<1> HIDE DEF A, c
<1>5. PICK g \in [SUBSET A -> S] : Fold(A, c, st, F, g)
  BY <1>2, <1>3, FoldExists
<1>6. Eq(g)
  BY <1>1, <1>2, <1>5 DEF Fold, Choice, A, c
<1>7. Eq(iter)
  BY <1>6
<1> HIDE DEF iter
<1>8. iter[A] \in S
  <2>1. iter[{}] \in S
    BY <1>1, <1>7
  <2>2. \A T \in SUBSET A : T # {} /\ iter[T \ {c[T]}] \in S => iter[T] \in S
    <3> SUFFICES ASSUME NEW T \in SUBSET A, T # {}, iter[T \ {c[T]}] \in S
                 PROVE  iter[T] \in S
      OBVIOUS
    <3>1. c[T] = Max(T) /\ c[T] \in A
      BY <1>2 DEF Choice, c
    <3>2. iter[T] = RelocateSymbol(iter[T \ {c[T]}], syms[c[T]])
      BY <1>1, <1>7, <3>1
    <3> QED
      BY <1>1, <3>1, <3>2
  <2> QED
    BY <1>2, <2>1, <2>2, FoldStays
<1> QED
  BY <1>1, <1>4, <1>8

\* Their entries, stored one after the other.
LEMMA StoresEntries ==
    ASSUME NEW S, NEW X, NEW st \in S, NEW syms \in Seq(X),
           \A s \in S : \A sym \in X : StoreEntry(s, sym) \in S
    PROVE  FoldLeft(StoreEntry, st, syms) \in S
<1> DEFINE A == 1 .. Len(syms)
           c == [T \in SUBSET A |-> Max(T)]
           F == [p \in A \X S |-> StoreEntry(p[2], syms[p[1]])]
           Eq(g) == g = [T \in SUBSET DOMAIN syms |->
                           IF T = {} THEN st
                           ELSE StoreEntry(g[T \ {Max(T)}], syms[Max(T)])]
           iter == CHOOSE g : Eq(g)
<1>1. Len(syms) \in Nat /\ DOMAIN syms = A /\ \A k \in A : syms[k] \in X
  OBVIOUS
<1>2. IsFiniteSet(A) /\ Choice(A, c)
  BY <1>1, FoldOrder
<1>3. F \in [A \X S -> S]
  BY <1>1
<1>4. FoldLeft(StoreEntry, st, syms) = iter[DOMAIN syms]
  BY DEF FoldLeft, MapThenFoldSet
<1> HIDE DEF A, c
<1>5. PICK g \in [SUBSET A -> S] : Fold(A, c, st, F, g)
  BY <1>2, <1>3, FoldExists
<1>6. Eq(g)
  BY <1>1, <1>2, <1>5 DEF Fold, Choice, A, c
<1>7. Eq(iter)
  BY <1>6
<1> HIDE DEF iter
<1>8. iter[A] \in S
  <2>1. iter[{}] \in S
    BY <1>1, <1>7
  <2>2. \A T \in SUBSET A : T # {} /\ iter[T \ {c[T]}] \in S => iter[T] \in S
    <3> SUFFICES ASSUME NEW T \in SUBSET A, T # {}, iter[T \ {c[T]}] \in S
                 PROVE  iter[T] \in S
      OBVIOUS
    <3>1. c[T] = Max(T) /\ c[T] \in A
      BY <1>2 DEF Choice, c
    <3>2. iter[T] = StoreEntry(iter[T \ {c[T]}], syms[c[T]])
      BY <1>1, <1>7, <3>1
    <3> QED
      BY <1>1, <3>1, <3>2
  <2> QED
    BY <1>2, <2>1, <2>2, FoldStays
<1> QED
  BY <1>1, <1>4, <1>8

\* Bytes behind bytes are bytes.
LEMMA BytesJoin ==
    ASSUME NEW a \in Seq(Byte), NEW b \in Seq(Byte)
    PROVE  a \o b \in Seq(Byte) /\ Len(a \o b) = Len(a) + Len(b)
OBVIOUS

\* Sequences of four bytes, one behind the other.
LEMMA FlattenFours ==
    ASSUME NEW seqs, NEW n \in Nat, n = Len(seqs), n = 0 => seqs = << >>,
           \A i \in 1 .. n : seqs[i] \in Seq(Byte) /\ Len(seqs[i]) = 4
    PROVE  FlattenSeq(seqs) \in Seq(Byte) /\ Len(FlattenSeq(seqs)) = 4 * n
<1> DEFINE Joins(g, i) == g[i] = IF i = 1 THEN seqs[i] ELSE g[i - 1] \o seqs[i]
           Runs(k) == {g \in [1 .. k -> Seq(Byte)] : \A i \in 1 .. k : Joins(g, i)}
           Eq(g) == g = [i \in 1 .. Len(seqs) |->
                           IF i = 1 THEN seqs[i] ELSE g[i - 1] \o seqs[i]]
           iter == CHOOSE g : Eq(g)
           Possible == {k \in Nat : k <= n => Runs(k) # {}}
           Fours(k) == iter[k] \in Seq(Byte) /\ Len(iter[k]) = 4 * k
           Good == {k \in Nat : k + 1 <= n => Fours(k + 1)}
<1>1. CASE n = 0
  <2>1. FlattenSeq(seqs) = << >>
    BY <1>1 DEF FlattenSeq
  <2>2. << >> \in Seq(Byte) /\ Len(<< >>) = 4 * n
    BY <1>1
  <2> QED
    BY <2>1, <2>2
<1>2. CASE n # 0
  <2>1. 0 \in Possible
    <3> DEFINE g == [i \in 1 .. 0 |-> << >>]
    <3>1. g \in Runs(0)
      OBVIOUS
    <3> HIDE DEF Runs
    <3> QED
      BY <3>1
  <2>2. ASSUME NEW k \in Possible
        PROVE  k + 1 \in Possible
    <3>1. k \in Nat
      OBVIOUS
    <3>2. ASSUME k + 1 <= n
          PROVE  Runs(k + 1) # {}
      <4>1. k <= n /\ k + 1 \in 1 .. n
        BY <3>1, <3>2
      <4>2. Runs(k) # {}
        <5> HIDE DEF Runs
        <5> QED
          BY <4>1
      <4>3. PICK g \in Runs(k) : TRUE
        <5> HIDE DEF Runs
        <5> QED
          BY <4>2
      <4>4. g \in [1 .. k -> Seq(Byte)] /\ \A i \in 1 .. k : Joins(g, i)
        BY <4>3
      <4> DEFINE last == IF k = 0 THEN seqs[1] ELSE g[k] \o seqs[k + 1]
                 h == [i \in 1 .. k + 1 |-> IF i = k + 1 THEN last ELSE g[i]]
      <4>5. last \in Seq(Byte)
        <5>1. CASE k = 0
          BY <4>1, <5>1
        <5>2. CASE k # 0
          <6>1. g[k] \in Seq(Byte) /\ seqs[k + 1] \in Seq(Byte)
            BY <3>1, <4>1, <4>4, <5>2
          <6> QED
            BY <5>2, <6>1
        <5> QED
          BY <5>1, <5>2
      <4>6. h \in [1 .. k + 1 -> Seq(Byte)]
        <5> HIDE DEF last
        <5> QED
          BY <3>1, <4>4, <4>5
      <4>7. ASSUME NEW i \in 1 .. k + 1
            PROVE  Joins(h, i)
        <5>1. CASE i = k + 1
          BY <3>1, <5>1
        <5>2. CASE i # k + 1
          <6>1. i \in 1 .. k /\ h[i] = g[i]
            BY <3>1, <5>2
          <6>2. Joins(g, i)
            BY <4>4, <6>1
          <6>3. i # 1 => h[i - 1] = g[i - 1]
            BY <3>1, <6>1
          <6> HIDE DEF h
          <6> QED
            BY <6>1, <6>2, <6>3
        <5> QED
          BY <5>1, <5>2
      <4>8. h \in Runs(k + 1)
        <5> HIDE DEF h, Joins
        <5> QED
          BY <4>6, <4>7
      <4> QED
        BY <4>8
    <3> HIDE DEF Runs
    <3> QED
      BY <3>1, <3>2
  <2>3. Possible = Nat
    <3>1. Possible \in SUBSET Nat
      OBVIOUS
    <3> HIDE DEF Possible
    <3> QED
      BY <2>1, <2>2, <3>1, AllNumbers
  <2>4. Runs(n) # {}
    <3>1. n \in Possible
      BY <2>3
    <3> HIDE DEF Runs
    <3> QED
      BY <3>1
  <2>5. PICK g \in Runs(n) : TRUE
    <3> HIDE DEF Runs
    <3> QED
      BY <2>4
  <2>6. g \in [1 .. n -> Seq(Byte)] /\ \A i \in 1 .. n : Joins(g, i)
    BY <2>5
  <2>7. Eq(g)
    BY <2>6
  <2>8. Eq(iter)
    BY <2>7
  <2>9. FlattenSeq(seqs) = iter[n]
    BY <1>2 DEF FlattenSeq
  <2>10. \A i \in 1 .. n : iter[i] = IF i = 1 THEN seqs[i] ELSE iter[i - 1] \o seqs[i]
    BY <2>8
  <2> HIDE DEF iter
  <2>11. 0 \in Good
    <3>1. 1 \in 1 .. n
      BY <1>2
    <3>2. iter[1] = seqs[1]
      BY <2>10, <3>1
    <3> QED
      BY <3>1, <3>2
  <2>12. ASSUME NEW k \in Good
         PROVE  k + 1 \in Good
    <3>1. k \in Nat
      OBVIOUS
    <3>2. ASSUME (k + 1) + 1 <= n
          PROVE  Fours((k + 1) + 1)
      <4>1. k + 1 \in 1 .. n /\ k + 2 \in 1 .. n
        BY <3>1, <3>2
      <4>2. iter[k + 1] \in Seq(Byte) /\ Len(iter[k + 1]) = 4 * (k + 1)
        BY <4>1
      <4>3. iter[k + 2] = iter[k + 1] \o seqs[k + 2]
        <5>1. k + 2 # 1 /\ (k + 2) - 1 = k + 1
          BY <3>1
        <5> QED
          BY <2>10, <4>1, <5>1
      <4>4. seqs[k + 2] \in Seq(Byte) /\ Len(seqs[k + 2]) = 4
        BY <4>1
      <4>5. iter[k + 2] \in Seq(Byte) /\ Len(iter[k + 2]) = 4 * (k + 2)
        <5>1. Len(iter[k + 1] \o seqs[k + 2]) = Len(iter[k + 1]) + Len(seqs[k + 2])
              /\ iter[k + 1] \o seqs[k + 2] \in Seq(Byte)
          BY <4>2, <4>4, BytesJoin
        <5>2. 4 * (k + 1) + 4 = 4 * (k + 2)
          BY <3>1
        <5> QED
          BY <4>2, <4>3, <4>4, <5>1, <5>2
      <4> QED
        BY <3>1, <4>5
    <3> HIDE DEF Fours
    <3> QED
      BY <3>1, <3>2
  <2>13. Good = Nat
    <3>1. Good \in SUBSET Nat
      OBVIOUS
    <3> HIDE DEF Good
    <3> QED
      BY <2>11, <2>12, <3>1, AllNumbers
  <2>14. n - 1 \in Nat /\ (n - 1) + 1 = n
    BY <1>2
  <2>15. n - 1 \in Good
    BY <2>13, <2>14
  <2>16. Fours(n)
    <3> HIDE DEF Fours
    <3> QED
      BY <2>14, <2>15
  <2> QED
    BY <2>9, <2>16
<1> QED
  BY <1>1, <1>2

-----------------------------------------------------------------------------
(* The types of the object and of a table. *)
Objects == UNION {[D -> Byte] : D \in SUBSET (0 .. ObjSize - 1)}

\* The names that a program can mention, and "$".
Names == {n \in Seq(Byte) :
             \/ n = REL_NAME
             \/ \E p \in Programs : \E i \in DOMAIN p : \E j \in DOMAIN p[i] :
                    p[i][j].kind = "LABEL" /\ p[i][j].value = n}

CodeLoc   == {a \in 0 .. XIS_MEM_SIZE + 2 : a % 2 = 0}
RelocSet  == [loc : CodeLoc, size : {8, 16}, flags : {XRELOC_ABSOLUTE, XRELOC_RELATIVE}]
SymbolSet == [name : Names, loc : Int, relocs : Seq(RelocSet), global : BOOLEAN,
              relocat : BOOLEAN]
NamedOnce(syms) == \A i, j \in DOMAIN syms : syms[i].name = syms[j].name => i = j
TableSet  == {t \in [syms : Seq(SymbolSet), rel_cnt : Nat] : NamedOnce(t.syms)}

\* The sizes the proofs reckon with; their values are only expanded here.
LEMMA Sizes ==
    /\ XIS_MEM_SIZE \in Nat /\ XIS_MEM_SIZE % 2 = 0
    /\ ObjSize = XIS_MEM_SIZE + 85 /\ INV_ADDR = XIS_MEM_SIZE - 1 /\ TokLimit = 84
    /\ ObjSize \in Nat
BY DEF XIS_MEM_SIZE, ObjSize, INV_ADDR, TokLimit

\* Until a table is stored the object has its size whatever the names are.
XasIInv ==
    /\ program \in Programs /\ line \in 0 .. Len(program)
    /\ pos \in Nat /\ err \in Nat
    /\ relocs \in TableSet
    /\ phase \in {"assembling", "relocating", "storing", "reporting", "exited"}
    /\ status \in {0, 1}
    /\ phase = "assembling" => pos \in 0 .. XIS_MEM_SIZE /\ pos % 2 = 0
    /\ phase \in {"assembling", "relocating", "storing"} => obj \in Objects

\* Nor does a stored table leave the object, if the names are short enough.
StoredInv ==
    /\ size \in 0 .. XIS_MEM_SIZE
    /\ phase \in {"reporting", "exited"} => obj \in Objects

\* The even addresses are the code's, and INV_ADDR is not one of them.
LEMMA EvenIsCode ==
    ASSUME NEW p \in 0 .. XIS_MEM_SIZE, p % 2 = 0
    PROVE  p \in CodeLoc /\ p + 2 \in CodeLoc
BY Sizes DEF CodeLoc

LEMMA CodeIsNotInvalid ==
    ASSUME NEW a \in CodeLoc
    PROVE  a \in 0 .. XIS_MEM_SIZE + 2 /\ a % 2 = 0 /\ a # INV_ADDR
BY Sizes DEF CodeLoc

-----------------------------------------------------------------------------
(* Bytes in the object. *)

\* The halves of a word are bytes.
LEMMA HalvesAreBytes ==
    ASSUME NEW v \in Int
    PROVE  Hi(v) \in Byte /\ Lo(v) \in Byte
BY DEF Hi, Lo, Byte

\* What is read is a byte, whether it was written or not.
LEMMA ReadType ==
    ASSUME NEW m \in Objects, NEW a
    PROVE  Read(m, a) \in Byte
<1>1. PICK D \in SUBSET (0 .. ObjSize - 1) : m \in [D -> Byte]
  BY DEF Objects
<1> QED
  BY <1>1, FillAssumption DEF Read

LEMMA WordType ==
    ASSUME NEW m \in Objects, NEW a
    PROVE  GETWORD(m, a) \in Int
<1>1. Read(m, a) \in Byte /\ Read(m, a + 1) \in Byte
  BY ReadType
<1>2. Read(m, a) \in Int /\ Read(m, a + 1) \in Int
  BY <1>1 DEF Byte
<1> QED
  BY <1>2 DEF GETWORD

\* Bytes that end in the object can be written there.
LEMMA WriteType ==
    ASSUME NEW m \in Objects, NEW a \in Nat, NEW bytes \in Seq(Byte),
           a + Len(bytes) <= ObjSize
    PROVE  Write(m, a, bytes) \in Objects
<1>1. PICK D \in SUBSET (0 .. ObjSize - 1) : m \in [D -> Byte]
  BY DEF Objects
<1> DEFINE E == D \cup a .. a + Len(bytes) - 1
<1>2. Len(bytes) \in Nat /\ \A k \in 1 .. Len(bytes) : bytes[k] \in Byte
  OBVIOUS
<1>3. E \subseteq 0 .. ObjSize - 1
  <2>1. ObjSize \in Nat
    BY Sizes
  <2>2. a .. a + Len(bytes) - 1 \subseteq 0 .. ObjSize - 1
    BY <1>2, <2>1
  <2> QED
    BY <2>2
<1>4. DOMAIN m = D
  BY <1>1
<1>5. ASSUME NEW x \in E
      PROVE  (IF x \in a .. a + Len(bytes) - 1 THEN bytes[x - a + 1] ELSE m[x]) \in Byte
  <2>1. CASE x \in a .. a + Len(bytes) - 1
    <3>1. x - a + 1 \in 1 .. Len(bytes)
      BY <1>2, <2>1
    <3> QED
      BY <1>2, <2>1, <3>1
  <2>2. CASE x \notin a .. a + Len(bytes) - 1
    BY <1>1, <2>2
  <2> QED
    BY <2>1, <2>2
<1> DEFINE w == [x \in E |->
                   IF x \in a .. a + Len(bytes) - 1 THEN bytes[x - a + 1] ELSE m[x]]
<1>6. Write(m, a, bytes) = w
  BY <1>4 DEF Write
<1>7. w \in [E -> Byte]
  BY <1>5
<1> HIDE DEF w, E
<1> QED
  BY <1>3, <1>6, <1>7 DEF Objects

\* Two bytes.
LEMMA PairType ==
    ASSUME NEW a \in Byte, NEW b \in Byte
    PROVE  <<a, b>> \in Seq(Byte) /\ Len(<<a, b>>) = 2
OBVIOUS

\* The words of an object add up to a number.
LEMMA SumIsNumber ==
    ASSUME NEW m \in Objects, NEW first \in Nat, NEW last \in Nat
    PROVE  SumOfWords(m, first, last) \in Int
<1> DEFINE words == (last - first + 1) \div 2
           A == {a \in DOMAIN m : first <= a /\ a < first + 2 * words}
           Excess(a) == (m[a] - Fill) * (IF (a - first) % 2 = 0 THEN 256 ELSE 1)
           c == [T \in SUBSET A |-> CHOOSE x \in T : TRUE]
           F == [p \in A \X Int |-> Excess(p[1]) + p[2]]
           Eq(g) == g = [T \in SUBSET A |->
                           IF T = {} THEN 0
                           ELSE Excess(CHOOSE x \in T : TRUE) + g[T \ {CHOOSE x \in T : TRUE}]]
           iter == CHOOSE g : Eq(g)
<1>1. PICK D \in SUBSET (0 .. ObjSize - 1) : m \in [D -> Byte]
  BY DEF Objects
<1>2. IsFiniteSet(A) /\ A \subseteq D
  <2>1. ObjSize \in Nat
    BY DEF ObjSize, XIS_MEM_SIZE
  <2>2. IsFiniteSet(0 .. ObjSize - 1)
    BY <2>1, FS_Interval
  <2>3. A \subseteq D
    BY <1>1
  <2>4. A \subseteq 0 .. ObjSize - 1
    BY <2>3
  <2> HIDE DEF A
  <2> QED
    BY <2>2, <2>3, <2>4, FS_Subset
<1>3. \A a \in A : Excess(a) \in Int
  <2> SUFFICES ASSUME NEW a \in A
               PROVE  Excess(a) \in Int
    OBVIOUS
  <2>1. m[a] \in Byte /\ Fill \in Byte
    BY <1>1, <1>2, FillAssumption
  <2>2. m[a] - Fill \in Int
    BY <2>1 DEF Byte
  <2> QED
    BY <2>2
<1>4. Choice(A, c)
  BY DEF Choice
<1>5. F \in [A \X Int -> Int]
  BY <1>3
<1>6. SumOfWords(m, first, last) = (iter[A] + words * 257 * Fill) % WordSize
  BY DEF SumOfWords, MapThenSumSet, MapThenFoldSet
<1> HIDE DEF A, c, Excess
<1>7. PICK g \in [SUBSET A -> Int] : Fold(A, c, 0, F, g)
  <2>1. 0 \in Int
    OBVIOUS
  <2> HIDE DEF F
  <2> QED
    BY <1>2, <1>4, <1>5, <2>1, FoldExists, Zenon
<1>8. Eq(g)
  BY <1>4, <1>7 DEF Fold, Choice, c
<1>9. Eq(iter)
  BY <1>8
<1> HIDE DEF iter
<1>10. iter[A] \in Int
  <2>1. iter[{}] \in Int
    BY <1>9
  <2>2. \A T \in SUBSET A : T # {} /\ iter[T \ {c[T]}] \in Int => iter[T] \in Int
    <3> SUFFICES ASSUME NEW T \in SUBSET A, T # {}, iter[T \ {c[T]}] \in Int
                 PROVE  iter[T] \in Int
      OBVIOUS
    <3>1. c[T] = (CHOOSE x \in T : TRUE) /\ c[T] \in A
      BY <1>4 DEF Choice, c
    <3>2. iter[T] = Excess(c[T]) + iter[T \ {c[T]}]
      BY <1>9, <3>1
    <3> QED
      BY <1>3, <3>1, <3>2
  <2> QED
    BY <1>2, <1>4, <2>1, <2>2, FoldStays
<1>11. words * 257 * Fill \in Int
  BY FillAssumption DEF Byte
<1> HIDE DEF words
<1>12. WordSize = 65536
  BY DEF WordSize
<1> QED
  BY <1>6, <1>10, <1>11, <1>12

-----------------------------------------------------------------------------
(* What the operators on tables keep. *)

\* A symbol is found where its index says.
LEMMA IndexOfHas ==
    ASSUME NEW t \in TableSet, NEW name, Has(t, name)
    PROVE  IndexOf(t, name) \in 1 .. Len(t.syms) /\ t.syms[IndexOf(t, name)].name = name
<1>1. PICK i \in DOMAIN t.syms : t.syms[i].name = name
  BY DEF Has
<1>2. t.syms \in Seq(SymbolSet)
  BY DEF TableSet
<1> QED
  BY <1>1, <1>2 DEF IndexOf

\* Replacing one symbol of a table by another of its name leaves a table with the
\* same names.
LEMMA SymbolReplaced ==
    ASSUME NEW t \in TableSet, NEW i \in 1 .. Len(t.syms), NEW sym \in SymbolSet,
           sym.name = t.syms[i].name
    PROVE  /\ [t EXCEPT !.syms[i] = sym] \in TableSet
           /\ \A name : Has(t, name) => Has([t EXCEPT !.syms[i] = sym], name)
<1> DEFINE s == [t.syms EXCEPT ![i] = sym]
           u == [t EXCEPT !.syms[i] = sym]
<1>1. t.syms \in Seq(SymbolSet) /\ t \in [syms : Seq(SymbolSet), rel_cnt : Nat]
  BY DEF TableSet
<1>2. s \in Seq(SymbolSet) /\ DOMAIN s = DOMAIN t.syms
  BY <1>1
<1>3. u = [t EXCEPT !.syms = s]
  BY <1>1
<1>4. u \in [syms : Seq(SymbolSet), rel_cnt : Nat] /\ u.syms = s
  BY <1>1, <1>2, <1>3
<1>5. \A j \in DOMAIN t.syms : s[j].name = t.syms[j].name
  BY <1>1
<1>6. NamedOnce(s)
  BY <1>2, <1>5 DEF TableSet, NamedOnce
<1> HIDE DEF s, u
<1>7. u \in TableSet
  BY <1>4, <1>6 DEF TableSet
<1>8. \A name : Has(t, name) => Has(u, name)
  BY <1>2, <1>4, <1>5 DEF Has
<1> QED
  BY <1>7, <1>8 DEF u

\* findsym adds a symbol without relocations at most, and the symbol is there then.
LEMMA FindsymType ==
    ASSUME NEW t \in TableSet, NEW name \in Names
    PROVE  findsym(t, name) \in TableSet /\ Has(findsym(t, name), name)
<1>1. CASE Has(t, name)
  BY <1>1 DEF findsym
<1>2. CASE ~Has(t, name)
  <2>1. NewSymbol(name) \in SymbolSet
    BY Sizes DEF NewSymbol, SymbolSet
  <2>2. t.syms \in Seq(SymbolSet) /\ t \in [syms : Seq(SymbolSet), rel_cnt : Nat]
    BY DEF TableSet
  <2> DEFINE s == <<NewSymbol(name)>> \o t.syms
  <2>3. /\ s \in Seq(SymbolSet) /\ Len(s) = 1 + Len(t.syms) /\ s[1] = NewSymbol(name)
        /\ \A i \in 2 .. Len(s) : i - 1 \in DOMAIN t.syms /\ s[i] = t.syms[i - 1]
    BY <2>1, <2>2
  <2>4. findsym(t, name) = [t EXCEPT !.syms = s]
    BY <1>2 DEF findsym
  <2>5. NewSymbol(name).name = name
    BY DEF NewSymbol
  <2> HIDE DEF s
  <2>6. \A i \in 2 .. Len(s) : s[i].name # name
    BY <1>2, <2>3 DEF Has
  <2>7. NamedOnce(s)
    <3> SUFFICES ASSUME NEW i \in DOMAIN s, NEW j \in DOMAIN s, s[i].name = s[j].name
                 PROVE  i = j
      BY DEF NamedOnce
    <3>1. i \in 1 .. Len(s) /\ j \in 1 .. Len(s) /\ Len(s) \in Nat
      BY <2>3
    <3>2. CASE i = 1 \/ j = 1
      BY <2>3, <2>5, <2>6, <3>1, <3>2
    <3>3. CASE i # 1 /\ j # 1
      <4>1. i \in 2 .. Len(s) /\ j \in 2 .. Len(s)
        BY <3>1, <3>3
      <4>2. /\ i - 1 \in DOMAIN t.syms /\ j - 1 \in DOMAIN t.syms
            /\ t.syms[i - 1].name = t.syms[j - 1].name
        BY <2>3, <4>1
      <4>3. i - 1 = j - 1
        BY <4>2 DEF TableSet, NamedOnce
      <4> QED
        BY <4>1, <4>3
    <3> QED
      BY <3>2, <3>3
  <2>8. findsym(t, name).syms = s /\ findsym(t, name) \in TableSet
    BY <2>2, <2>3, <2>4, <2>7 DEF TableSet
  <2>9. 1 \in DOMAIN s /\ s[1].name = name
    BY <2>2, <2>3, <2>5
  <2> QED
    BY <2>8, <2>9 DEF Has
<1> QED
  BY <1>1, <1>2

\* A symbol of a table, found by name, is a symbol.
LEMMA SymbolType ==
    ASSUME NEW t \in TableSet, NEW name, Has(t, name)
    PROVE  t.syms[IndexOf(t, name)] \in SymbolSet
BY IndexOfHas DEF TableSet

\* Defining a symbol keeps the relocations.
LEMMA XrelocSymbolType ==
    ASSUME NEW t \in TableSet, NEW name \in Names, NEW loc \in Int
    PROVE  xreloc_symbol(t, loc, name).table \in TableSet
<1> DEFINE u == findsym(t, name)
           i == IndexOf(u, name)
           sym == [u.syms[i] EXCEPT !.loc = loc]
<1>1. u \in TableSet /\ Has(u, name)
  BY FindsymType
<1>2. i \in 1 .. Len(u.syms) /\ u.syms[i] \in SymbolSet
  BY <1>1, IndexOfHas, SymbolType
<1>3. sym \in SymbolSet /\ sym.name = u.syms[i].name
  BY <1>2 DEF SymbolSet
<1>4. [u EXCEPT !.syms[i] = sym] \in TableSet
  BY <1>1, <1>2, <1>3, SymbolReplaced
<1>5. [u EXCEPT !.syms[i].loc = loc] = [u EXCEPT !.syms[i] = sym]
  OBVIOUS
<1> QED
  BY <1>1, <1>4, <1>5 DEF xreloc_symbol

\* Making a symbol global keeps the relocations.
LEMMA XrelocGlobalType ==
    ASSUME NEW t \in TableSet, NEW name \in Names
    PROVE  xreloc_global(t, name) \in TableSet
<1> DEFINE u == findsym(t, name)
           i == IndexOf(u, name)
           sym == [u.syms[i] EXCEPT !.global = TRUE]
<1>1. u \in TableSet /\ Has(u, name)
  BY FindsymType
<1>2. i \in 1 .. Len(u.syms) /\ u.syms[i] \in SymbolSet
  BY <1>1, IndexOfHas, SymbolType
<1>3. sym \in SymbolSet /\ sym.name = u.syms[i].name
  BY <1>2 DEF SymbolSet
<1>4. [u EXCEPT !.syms[i] = sym] \in TableSet
  BY <1>1, <1>2, <1>3, SymbolReplaced
<1>5. [u EXCEPT !.syms[i].global = TRUE] = [u EXCEPT !.syms[i] = sym]
  OBVIOUS
<1> QED
  BY <1>4, <1>5 DEF xreloc_global

\* One more relocation leaves a table with the same names.
LEMMA AddRelocType ==
    ASSUME NEW t \in TableSet, NEW name, Has(t, name), NEW loc \in CodeLoc,
           NEW bits \in {8, 16}, NEW flags \in {XRELOC_ABSOLUTE, XRELOC_RELATIVE}
    PROVE  /\ add_reloc(t, name, loc, bits, flags) \in TableSet
           /\ \A other : Has(t, other) => Has(add_reloc(t, name, loc, bits, flags), other)
<1> DEFINE i == IndexOf(t, name)
           r == [loc |-> loc, size |-> bits, flags |-> flags]
           sym == [t.syms[i] EXCEPT !.relocs = <<r>> \o @]
<1>1. i \in 1 .. Len(t.syms) /\ t.syms[i] \in SymbolSet
  BY IndexOfHas, SymbolType
<1>2. r \in RelocSet
  BY DEF RelocSet
<1>3. t.syms[i].relocs \in Seq(RelocSet)
  BY <1>1 DEF SymbolSet
<1>4. <<r>> \o t.syms[i].relocs \in Seq(RelocSet)
  BY <1>2, <1>3
<1>5. sym \in SymbolSet /\ sym.name = t.syms[i].name
  BY <1>1, <1>4 DEF SymbolSet
<1>6. [t EXCEPT !.syms[i].relocs = <<r>> \o @] = [t EXCEPT !.syms[i] = sym]
  OBVIOUS
<1>7. add_reloc(t, name, loc, bits, flags) = [t EXCEPT !.syms[i] = sym]
  BY <1>6 DEF add_reloc
<1> HIDE DEF i, sym
<1>8. /\ [t EXCEPT !.syms[i] = sym] \in TableSet
      /\ \A other : Has(t, other) => Has([t EXCEPT !.syms[i] = sym], other)
  BY <1>1, <1>5, SymbolReplaced
<1> QED
  BY <1>7, <1>8

\* A relocation at a code address leaves a table, and is never refused.
LEMMA XrelocRelocType ==
    ASSUME NEW t \in TableSet, NEW name \in Names, NEW loc \in CodeLoc,
           NEW bits \in {8, 16}, NEW flags \in {XRELOC_ABSOLUTE, XRELOC_RELATIVE}
    PROVE  /\ xreloc_reloc(t, loc, bits, name, flags).ok
           /\ xreloc_reloc(t, loc, bits, name, flags).table \in TableSet
<1>1. findsym(t, name) \in TableSet /\ Has(findsym(t, name), name)
  BY FindsymType
<1>2. add_reloc(findsym(t, name), name, loc, bits, flags) \in TableSet
  BY <1>1, AddRelocType
<1>3. loc # INV_ADDR
  BY CodeIsNotInvalid
<1> QED
  BY <1>2, <1>3 DEF xreloc_reloc

-----------------------------------------------------------------------------
(* Relocating. *)
Relocating == [ok : BOOLEAN, mem : Objects, table : {t \in TableSet : Has(t, REL_NAME)}]

\* "$" is a name.
LEMMA RelName == REL_NAME \in Names
<1>1. REL_NAME \in Seq(Byte)
  BY DEF REL_NAME, Byte
<1> QED
  BY <1>1 DEF Names

\* One relocation writes two bytes in the object.
LEMMA PatchType ==
    ASSUME NEW m \in Objects, NEW r \in RelocSet, NEW value \in Int
    PROVE  Patch(m, r, value) \in Objects
<1> DEFINE w == GETWORD(m, r.loc)
           patched == w - (w % 2 ^ r.size) + (value % 2 ^ r.size)
<1>1. r.loc \in CodeLoc /\ r.size \in {8, 16}
  BY DEF RelocSet
<1>2. 2 ^ r.size \in {256, 65536}
  <2>1. CASE r.size = 8
    BY <2>1, SMT
  <2>2. CASE r.size = 16
    BY <2>2, SMT
  <2> QED
    BY <1>1, <2>1, <2>2
<1>3. w \in Int
  BY WordType
<1>4. patched \in Int
  BY <1>2, <1>3
<1> HIDE DEF patched
<1>5. Hi(patched) \in Byte /\ Lo(patched) \in Byte
  BY <1>4, HalvesAreBytes
<1>6. <<Hi(patched), Lo(patched)>> \in Seq(Byte) /\ Len(<<Hi(patched), Lo(patched)>>) = 2
  BY <1>5, PairType
<1>7. r.loc \in Nat /\ r.loc + 2 <= ObjSize
  BY <1>1, Sizes DEF CodeLoc
<1>8. Write(m, r.loc, <<Hi(patched), Lo(patched)>>) \in Objects
  BY <1>6, <1>7, WriteType
<1> QED
  BY <1>8 DEF Patch, patched

LEMMA RelocateOneType ==
    ASSUME NEW s \in Relocating, NEW sym \in SymbolSet, NEW r \in RelocSet
    PROVE  RelocateOne(s, sym, r) \in Relocating
<1> DEFINE value == Resolved(s.mem, sym, r)
           fits == Fits(value, r, ~sym.relocat /\ r.flags % 2 = 1)
           table == IF KeepsReloc(sym, r)
                    THEN add_reloc(s.table, REL_NAME, r.loc, r.size, XRELOC_ABSOLUTE)
                    ELSE s.table
<1>1. s.mem \in Objects /\ s.ok \in BOOLEAN /\ s.table \in TableSet /\ Has(s.table, REL_NAME)
  BY DEF Relocating
<1>2. r.loc \in CodeLoc /\ r.size \in {8, 16}
  BY DEF RelocSet
<1>3. value \in Int
  <2>1. GETWORD(s.mem, r.loc) \in Int
    BY <1>1, WordType
  <2>2. 2 ^ r.size \in {256, 65536}
    <3>1. CASE r.size = 8
      BY <3>1, SMT
    <3>2. CASE r.size = 16
      BY <3>2, SMT
    <3> QED
      BY <1>2, <3>1, <3>2
  <2>3. sym.loc \in Int /\ r.loc \in Int
    BY <1>2 DEF SymbolSet, CodeLoc
  <2>4. GETWORD(s.mem, r.loc) % 2 ^ r.size \in Int
    BY <2>1, <2>2
  <2> QED
    BY <2>3, <2>4 DEF Resolved
<1>4. Patch(s.mem, r, value) \in Objects
  BY <1>1, <1>3, PatchType
<1>5. fits \in BOOLEAN
  <2>1. 2 ^ r.size \in {256, 65536} /\ 2 ^ (r.size - 1) \in {128, 32768}
    <3>1. CASE r.size = 8
      BY <3>1, SMT
    <3>2. CASE r.size = 16
      BY <3>2, SMT
    <3> QED
      BY <1>2, <3>1, <3>2
  <2> HIDE DEF value
  <2> DEFINE a == 2 ^ r.size - 1
             b == 2 ^ (r.size - 1) - 1
             d == -(2 ^ (r.size - 1))
             signed == ~sym.relocat /\ r.flags % 2 = 1
  <2>2. a \in Int /\ b \in Int /\ d \in Int
    BY <2>1
  <2>3. fits = IF signed THEN d <= value /\ value <= b ELSE value <= a
    BY DEF Fits
  <2> HIDE DEF a, b, d, value, fits, signed
  <2>4. (d <= value) \in BOOLEAN /\ (value <= b) \in BOOLEAN /\ (value <= a) \in BOOLEAN
    BY <1>3, <2>2
  <2>5. CASE signed
    BY <2>3, <2>4, <2>5
  <2>6. CASE ~signed
    BY <2>3, <2>4, <2>6
  <2> QED
    BY <2>5, <2>6
<1>6. table \in TableSet /\ Has(table, REL_NAME)
  <2>1. XRELOC_ABSOLUTE \in {XRELOC_ABSOLUTE, XRELOC_RELATIVE}
    OBVIOUS
  <2>2. /\ add_reloc(s.table, REL_NAME, r.loc, r.size, XRELOC_ABSOLUTE) \in TableSet
        /\ Has(add_reloc(s.table, REL_NAME, r.loc, r.size, XRELOC_ABSOLUTE), REL_NAME)
    BY <1>1, <1>2, <2>1, AddRelocType
  <2> QED
    BY <1>1, <2>2
<1>7. RelocateOne(s, sym, r) =
          [ok |-> s.ok /\ fits, mem |-> Patch(s.mem, r, value), table |-> table]
  BY DEF RelocateOne
<1> HIDE DEF value, fits, table
<1> QED
  BY <1>1, <1>4, <1>5, <1>6, <1>7 DEF Relocating

LEMMA RelocateSymbolType ==
    ASSUME NEW s \in Relocating, NEW sym \in SymbolSet
    PROVE  RelocateSymbol(s, sym) \in Relocating
<1>1. sym.relocs \in Seq(RelocSet)
  BY DEF SymbolSet
<1>2. \A x \in Relocating : \A r \in RelocSet : RelocateOne(x, sym, r) \in Relocating
  BY RelocateOneType
<1>3. FoldLeft(LAMBDA x, r : RelocateOne(x, sym, r), s, sym.relocs) \in Relocating
  BY <1>1, <1>2, RelocatesSymbol
<1>4. [s EXCEPT !.ok = FALSE] \in Relocating
  BY DEF Relocating
<1> QED
  BY <1>3, <1>4 DEF RelocateSymbol

\* Relocating keeps the object and its table.
LEMMA XrelocRelocateType ==
    ASSUME NEW t \in TableSet, NEW m \in Objects
    PROVE  xreloc_relocate(t, m) \in Relocating
<1> DEFINE u == findsym(t, REL_NAME)
           i == IndexOf(u, REL_NAME)
           rel == [u.syms[i] EXCEPT !.relocat = TRUE, !.global = TRUE, !.loc = 0]
           v == [u EXCEPT !.syms[i] = rel]
           start == [ok |-> TRUE, mem |-> m, table |-> v]
<1>1. u \in TableSet /\ Has(u, REL_NAME)
  BY FindsymType, RelName
<1>2. i \in 1 .. Len(u.syms) /\ u.syms[i] \in SymbolSet
  BY <1>1, IndexOfHas, SymbolType
<1>3. rel \in SymbolSet /\ rel.name = u.syms[i].name
  <2> DEFINE a == [u.syms[i] EXCEPT !.relocat = TRUE]
             b == [a EXCEPT !.global = TRUE]
             d == [b EXCEPT !.loc = 0]
  <2>1. a \in SymbolSet /\ a.name = u.syms[i].name
    BY <1>2 DEF SymbolSet
  <2> HIDE DEF a
  <2>2. b \in SymbolSet /\ b.name = u.syms[i].name
    BY <2>1 DEF SymbolSet
  <2> HIDE DEF b
  <2>3. d \in SymbolSet /\ d.name = u.syms[i].name
    BY <2>2 DEF SymbolSet
  <2>4. rel = d
    BY DEF a, b
  <2> HIDE DEF rel
  <2> QED
    BY <2>3, <2>4
<1>4. xreloc_relocate(t, m) = FoldLeft(RelocateSymbol, start, v.syms)
  BY DEF xreloc_relocate, Symbol
<1> HIDE DEF u, i, rel
<1>5. v \in TableSet /\ Has(v, REL_NAME)
  BY <1>1, <1>2, <1>3, SymbolReplaced
<1> HIDE DEF v
<1>6. v.syms \in Seq(SymbolSet)
  BY <1>5 DEF TableSet
<1>7. start \in Relocating
  BY <1>5 DEF Relocating
<1> HIDE DEF start
<1>8. \A x \in Relocating : \A sym \in SymbolSet : RelocateSymbol(x, sym) \in Relocating
  BY RelocateSymbolType
<1>9. FoldLeft(RelocateSymbol, start, v.syms) \in Relocating
  BY <1>6, <1>7, <1>8, RelocatesTable
<1> QED
  BY <1>4, <1>9

-----------------------------------------------------------------------------
(* Storing the table. *)
Storing == [ok : BOOLEAN, mem : Objects, ent : 0 .. ObjSize - 1]

LEMMA RelocBytesType ==
    ASSUME NEW r \in RelocSet
    PROVE  RelocBytes(r) \in Seq(Byte) /\ Len(RelocBytes(r)) = 4
<1>1. r.loc \in Int /\ r.size \in Byte /\ r.flags \in Byte
  BY DEF RelocSet, CodeLoc, Byte, XRELOC_ABSOLUTE, XRELOC_RELATIVE
<1>2. Hi(r.loc) \in Byte /\ Lo(r.loc) \in Byte
  BY <1>1, HalvesAreBytes
<1> QED
  BY <1>1, <1>2 DEF RelocBytes

\* An entry: the name and its zero, two bytes for the place, four for each
\* relocation and two to end them.
LEMMA EntryBytesType ==
    ASSUME NEW sym \in SymbolSet
    PROVE  /\ EntryBytes(sym) \in Seq(Byte)
           /\ Len(sym.name) \in Nat /\ Size(sym) \in Nat
           /\ Len(EntryBytes(sym)) = Len(sym.name) + 5 + Size(sym)
<1> DEFINE chunks == [i \in DOMAIN sym.relocs |-> RelocBytes(sym.relocs[i])]
           n == Len(sym.relocs)
           place == <<0, Hi(sym.loc), Lo(sym.loc)>>
<1>1. sym.relocs \in Seq(RelocSet) /\ sym.name \in Seq(Byte) /\ sym.loc \in Int
  BY DEF SymbolSet, Names
<1>2. n \in Nat /\ \A i \in 1 .. n : sym.relocs[i] \in RelocSet
  BY <1>1
<1>3. Len(chunks) = n /\ \A i \in 1 .. n : chunks[i] = RelocBytes(sym.relocs[i])
  BY <1>1
<1>4. \A i \in 1 .. n : chunks[i] \in Seq(Byte) /\ Len(chunks[i]) = 4
  BY <1>2, <1>3, RelocBytesType
<1>5. n = 0 => chunks = << >>
  BY <1>1
<1>6. Size(sym) = 4 * n
  BY DEF Size, RELOC_SIZE
<1>7. EntryBytes(sym) = ((sym.name \o place) \o FlattenSeq(chunks)) \o <<255, 255>>
  BY DEF EntryBytes
<1> HIDE DEF chunks, n
<1>8. FlattenSeq(chunks) \in Seq(Byte) /\ Len(FlattenSeq(chunks)) = 4 * n
  BY <1>2, <1>3, <1>4, <1>5, FlattenFours
<1>9. place \in Seq(Byte) /\ Len(place) = 3
  <2>1. Hi(sym.loc) \in Byte /\ Lo(sym.loc) \in Byte
    BY <1>1, HalvesAreBytes
  <2>2. 0 \in Byte
    BY DEF Byte
  <2> QED
    BY <2>1, <2>2
<1>10. <<255, 255>> \in Seq(Byte) /\ Len(<<255, 255>>) = 2
  <2>1. 255 \in Byte
    BY DEF Byte
  <2> QED
    BY <2>1, PairType
<1> HIDE DEF place
<1>11. sym.name \o place \in Seq(Byte) /\ Len(sym.name \o place) = Len(sym.name) + 3
  BY <1>1, <1>9, BytesJoin
<1> DEFINE front == (sym.name \o place) \o FlattenSeq(chunks)
<1>12. front \in Seq(Byte) /\ Len(front) = Len(sym.name) + 3 + 4 * n
  BY <1>8, <1>11, BytesJoin
<1>13. Len(sym.name) \in Nat
  BY <1>1
<1>14. EntryBytes(sym) = front \o <<255, 255>>
  BY <1>7
<1> HIDE DEF front
<1>15. EntryBytes(sym) \in Seq(Byte) /\ Len(EntryBytes(sym)) = Len(front) + 2
  BY <1>10, <1>12, <1>14, BytesJoin
<1> QED
  <2>1. Size(sym) \in Nat
    BY <1>2, <1>6
  <2>2. Len(EntryBytes(sym)) = (Len(sym.name) + 3 + 4 * n) + 2
    BY <1>12, <1>15
  <2>3. Len(EntryBytes(sym)) = Len(sym.name) + 5 + Size(sym)
    <3>1. ASSUME NEW a \in Nat, NEW b \in Nat
          PROVE  (a + 3 + 4 * b) + 2 = a + 5 + 4 * b
      OBVIOUS
    <3> QED
      BY <1>2, <1>6, <1>13, <2>2, <3>1
  <2> QED
    BY <1>13, <1>15, <2>1, <2>3

\* The space of an entry is checked without its name: with a name of at most 80
\* bytes an entry that passes ends before the object's last byte.
LEMMA StoreEntryType ==
    ASSUME NEW s \in Storing, NEW sym \in {x \in SymbolSet : Len(x.name) <= LongestName}
    PROVE  StoreEntry(s, sym) \in Storing
<1>1. s.ok \in BOOLEAN /\ s.mem \in Objects /\ s.ent \in 0 .. ObjSize - 1
  BY DEF Storing
<1>2. CASE ~sym.global \/ ~s.ok
  BY <1>2 DEF StoreEntry
<1>3. CASE ~(~sym.global \/ ~s.ok) /\ s.ent + Size(sym) >= XIS_MEM_SIZE
  <2>1. [s EXCEPT !.ok = FALSE] \in Storing
    BY DEF Storing
  <2> QED
    BY <1>3, <2>1 DEF StoreEntry
<1>4. CASE ~(~sym.global \/ ~s.ok) /\ ~(s.ent + Size(sym) >= XIS_MEM_SIZE)
  <2> DEFINE bytes == EntryBytes(sym)
             len == Len(bytes)
  <2>1. /\ bytes \in Seq(Byte) /\ Len(sym.name) \in Nat /\ Size(sym) \in Nat
        /\ len = Len(sym.name) + 5 + Size(sym)
    BY EntryBytesType
  <2>2. Len(sym.name) <= 80
    BY DEF LongestName
  <2>3. StoreEntry(s, sym) = [ok |-> TRUE, mem |-> Write(s.mem, s.ent, bytes), ent |-> s.ent + len]
    BY <1>4 DEF StoreEntry
  <2> HIDE DEF bytes
  <2>4. s.ent \in Nat /\ s.ent + len <= ObjSize - 1 /\ s.ent + len \in Nat
    <3>1. ASSUME NEW e \in Nat, NEW z \in Nat, NEW n \in Nat, NEW M \in Nat,
                 ~(e + z >= M), n <= 80
          PROVE  e + (n + 5 + z) <= (M + 85) - 1 /\ e + (n + 5 + z) \in Nat
      BY <3>1
    <3>2. s.ent \in Nat
      BY <1>1
    <3>3. XIS_MEM_SIZE \in Nat /\ ObjSize = XIS_MEM_SIZE + 85
      BY Sizes
    <3> QED
      BY <1>4, <2>1, <2>2, <3>1, <3>2, <3>3
  <2>5. s.ent + len \in 0 .. ObjSize - 1 /\ s.ent + len <= ObjSize
    <3>1. ObjSize \in Nat
      BY Sizes
    <3> HIDE DEF len
    <3> QED
      BY <2>4, <3>1
  <2>6. Write(s.mem, s.ent, bytes) \in Objects
    BY <1>1, <2>1, <2>4, <2>5, WriteType
  <2> QED
    BY <2>3, <2>5, <2>6 DEF Storing
<1> QED
  BY <1>2, <1>3, <1>4

\* The stored object has its size, and so has the file.
LEMMA XrelocStoreType ==
    ASSUME NEW t \in TableSet, NEW m \in Objects, NEW p \in Nat,
           \A i \in DOMAIN t.syms : Len(t.syms[i].name) <= LongestName
    PROVE  /\ xreloc_store_table(t, m, p, 0).mem \in Objects
           /\ xreloc_store_table(t, m, p, 0).size \in 0 .. XIS_MEM_SIZE
<1> DEFINE stored == xreloc_store_table(t, m, p, 0)
           X == {x \in SymbolSet : Len(x.name) <= LongestName}
           start == [ok |-> TRUE, mem |-> Write(m, 0 + p, <<0>>), ent |-> 0 + p + 1]
           entries == FoldLeft(StoreEntry, start, t.syms)
           closed == Write(entries.mem, entries.ent, <<0>>)
           ent == RoundUp(entries.ent + 1, 0)
           words == <<Hi(p), Lo(p), Hi(XIS_VERSION), Lo(XIS_VERSION)>>
           trailer == Write(closed, ent, words)
           chksum == -SumOfWords(trailer, 0 + 0, ent + 4 + 0)
           final == Write(trailer, ent + 4, <<Hi(chksum), Lo(chksum)>>)
<1>1. CASE 0 + p >= XIS_MEM_SIZE
  <2>1. stored = [size |-> 0, mem |-> m]
    BY <1>1 DEF xreloc_store_table
  <2> QED
    BY <2>1, Sizes
<1>2. CASE ~(0 + p >= XIS_MEM_SIZE)
  <2>1. stored = IF ~entries.ok THEN [size |-> 0, mem |-> entries.mem]
                 ELSE IF entries.ent + 1 + XIS_TRAILER_SIZE > XIS_MEM_SIZE
                      THEN [size |-> 0, mem |-> closed]
                 ELSE [size |-> ent + 6 - 0, mem |-> final]
    BY <1>2 DEF xreloc_store_table
  <2>2. <<0>> \in Seq(Byte) /\ Len(<<0>>) = 1
    BY DEF Byte
  <2>3. p + 1 <= ObjSize /\ p + 1 \in 0 .. ObjSize - 1
    BY <1>2, Sizes
  <2>4. start \in Storing
    <3>1. Write(m, p, <<0>>) \in Objects
      BY <2>2, <2>3, WriteType
    <3> QED
      BY <2>3, <3>1 DEF Storing
  <2>5. t.syms \in Seq(X)
    <3>1. t.syms \in Seq(SymbolSet)
      BY DEF TableSet
    <3>2. \A i \in 1 .. Len(t.syms) : t.syms[i] \in X
      BY <3>1
    <3> HIDE DEF X
    <3> QED
      BY <3>1, <3>2
  <2>6. \A x \in Storing : \A sym \in X : StoreEntry(x, sym) \in Storing
    BY StoreEntryType
  <2> HIDE DEF stored, start, X
  <2>7. entries \in Storing
    BY <2>4, <2>5, <2>6, StoresEntries
  <2> HIDE DEF entries
  <2>8. entries.mem \in Objects /\ entries.ent \in 0 .. ObjSize - 1
    BY <2>7 DEF Storing
  <2>9. closed \in Objects
    <3>1. entries.ent \in Nat /\ entries.ent + 1 <= ObjSize
      BY <2>8, Sizes
    <3> QED
      BY <2>2, <2>8, <3>1, WriteType
  <2> HIDE DEF closed
  <2>10. CASE ~entries.ok \/ entries.ent + 1 + XIS_TRAILER_SIZE > XIS_MEM_SIZE
    <3>1. \/ stored = [size |-> 0, mem |-> entries.mem]
          \/ stored = [size |-> 0, mem |-> closed]
      BY <2>1, <2>10
    <3>2. 0 \in 0 .. XIS_MEM_SIZE
      BY Sizes
    <3>3. stored.mem \in Objects /\ stored.size \in 0 .. XIS_MEM_SIZE
      BY <2>8, <2>9, <3>1, <3>2
    <3> QED
      BY <3>3 DEF stored
  <2>11. CASE ~(~entries.ok \/ entries.ent + 1 + XIS_TRAILER_SIZE > XIS_MEM_SIZE)
    <3>1. ent \in Nat /\ ent + 6 <= XIS_MEM_SIZE
      <4>1. ASSUME NEW e \in Nat, NEW M \in Nat, M % 2 = 0, ~(e + 1 + 6 > M)
            PROVE  /\ (e + 1) + (((e + 1) - 0) % 2) \in Nat
                   /\ (e + 1) + (((e + 1) - 0) % 2) + 6 <= M
        BY <4>1
      <4>2. entries.ent \in Nat
        BY <2>8
      <4> QED
        BY <2>11, <4>1, <4>2, Sizes DEF RoundUp, XIS_TRAILER_SIZE
    <3> HIDE DEF ent
    <3>2. ent + 6 <= ObjSize /\ ent + 4 \in Nat
      BY <3>1, Sizes
    <3>3. words \in Seq(Byte) /\ Len(words) = 4
      <4>1. Hi(p) \in Byte /\ Lo(p) \in Byte
        BY HalvesAreBytes
      <4>2. Hi(XIS_VERSION) \in Byte /\ Lo(XIS_VERSION) \in Byte
        BY HalvesAreBytes DEF XIS_VERSION
      <4> QED
        BY <4>1, <4>2
    <3> HIDE DEF words
    <3>4. trailer \in Objects
      <4>1. ent + Len(words) <= ObjSize
        BY <3>1, <3>2, <3>3, Sizes
      <4> QED
        BY <2>9, <3>1, <3>3, <4>1, WriteType
    <3> HIDE DEF trailer
    <3>5. chksum \in Int
      <4>1. 0 + 0 \in Nat /\ ent + 4 + 0 \in Nat
        BY <3>1
      <4>2. SumOfWords(trailer, 0 + 0, ent + 4 + 0) \in Int
        BY <3>4, <4>1, SumIsNumber
      <4> QED
        BY <4>2
    <3> HIDE DEF chksum
    <3>6. <<Hi(chksum), Lo(chksum)>> \in Seq(Byte) /\ Len(<<Hi(chksum), Lo(chksum)>>) = 2
      BY <3>5, HalvesAreBytes, PairType
    <3>7. final \in Objects
      <4>1. ent + 4 + Len(<<Hi(chksum), Lo(chksum)>>) <= ObjSize
        BY <3>1, <3>2, <3>6, Sizes
      <4> QED
        BY <3>2, <3>4, <3>6, <4>1, WriteType
    <3> HIDE DEF final
    <3>8. stored = [size |-> ent + 6 - 0, mem |-> final]
      BY <2>1, <2>11
    <3>9. ent + 6 - 0 \in 0 .. XIS_MEM_SIZE
      BY <3>1, Sizes
    <3> QED
      BY <3>7, <3>8, <3>9 DEF stored
  <2> QED
    BY <2>10, <2>11 DEF stored
<1> QED
  BY <1>1, <1>2

-----------------------------------------------------------------------------
(* The tokens of a line. *)
SourceToken(tk) == IsToken(tk) /\ (tk.kind = "LABEL" => tk.value \in Names)

\* The line that is read is a sequence of tokens.
LEMMA CurrentTokens ==
    ASSUME program \in Programs, line \in Nat, line < Len(program)
    PROVE  /\ Current \in Seq(UNION {{Current[j]} : j \in DOMAIN Current})
           /\ \A j \in DOMAIN Current : SourceToken(Current[j])
<1>1. program \in Seq(UNION {{program[i]} : i \in DOMAIN program})
  BY ProgramsAssumption
<1>2. line + 1 \in DOMAIN program /\ Current = program[line + 1]
  BY <1>1 DEF Current
<1>3. ASSUME NEW j \in DOMAIN Current
      PROVE  SourceToken(Current[j])
  <2>1. IsToken(Current[j])
    BY <1>2, ProgramsAssumption
  <2>2. ASSUME Current[j].kind = "LABEL"
        PROVE  Current[j].value \in Names
    <3>1. Current[j].value \in Seq(Byte)
      BY <2>1, <2>2 DEF IsToken, IsText
    <3>2. \E p \in Programs : \E i \in DOMAIN p : \E k \in DOMAIN p[i] :
              p[i][k].kind = "LABEL" /\ p[i][k].value = Current[j].value
      BY <1>2, <2>2
    <3> QED
      BY <3>1, <3>2 DEF Names
  <2> QED
    BY <2>1, <2>2 DEF SourceToken
<1>4. Current \in Seq(UNION {{Current[j]} : j \in DOMAIN Current})
  BY <1>2, ProgramsAssumption DEF Current
<1> QED
  BY <1>3, <1>4

\* So is what is left of it behind the label.
LEMMA StmtTokens ==
    ASSUME program \in Programs, line \in Nat, line < Len(program)
    PROVE  /\ Len(Stmt) \in Nat
           /\ \A j \in 1 .. Len(Stmt) : SourceToken(Stmt[j])
<1> DEFINE T == UNION {{Current[j]} : j \in DOMAIN Current}
<1>1. Current \in Seq(T) /\ \A j \in 1 .. Len(Current) : SourceToken(Current[j])
  BY CurrentTokens
<1>2. CASE Labelled(Current)
  <2>1. Stmt = SubSeq(Current, 3, Len(Current))
    BY <1>2 DEF Stmt, Statement
  <2>2. CASE Len(Current) < 3
    <3>1. Stmt = <<>>
      BY <2>1, <2>2, <1>1
    <3> QED
      BY <3>1
  <2>3. CASE Len(Current) >= 3
    <3>1. Len(Stmt) = Len(Current) - 2
      BY <2>1, <2>3, <1>1
    <3>2. \A j \in 1 .. Len(Stmt) : Stmt[j] = Current[j + 2]
      BY <2>1, <2>3, <1>1
    <3>3. ASSUME NEW j \in 1 .. Len(Stmt)
          PROVE  SourceToken(Stmt[j])
      <4>1. j + 2 \in 1 .. Len(Current)
        BY <3>1, <2>3, <1>1
      <4>2. Stmt[j] = Current[j + 2]
        BY <3>2
      <4> QED
        BY <4>1, <4>2, <1>1
    <3>4. Len(Stmt) \in Nat
      BY <3>1, <2>3, <1>1
    <3> QED
      BY <3>3, <3>4
  <2> QED
    BY <2>2, <2>3, <1>1
<1>3. CASE ~Labelled(Current)
  BY <1>1, <1>3 DEF Stmt, Statement
<1> QED
  BY <1>2, <1>3

\* A token of a kind is there, and it has a value of that kind.
LEMMA TokenOfKind ==
    ASSUME NEW toks, NEW i \in Nat, Len(toks) \in Nat,
           \A j \in 1 .. Len(toks) : SourceToken(toks[j]), i >= 1
    PROVE  /\ Kind(toks, i) = "LABEL" => toks[i].value \in Names
           /\ Kind(toks, i) = "LITERAL" => IsText(toks[i].value)
           /\ Kind(toks, i) = "INT" => toks[i].value \in Int
           /\ Kind(toks, i) = "REGISTER" => toks[i].value \in RegId
           /\ Kind(toks, i) = "INSTRUCTION" => toks[i].value \in Byte
<1> DEFINE kinds == {"LABEL", "LITERAL", "INT", "REGISTER", "INSTRUCTION"}
<1>1. ASSUME Kind(toks, i) \in kinds
      PROVE  SourceToken(toks[i]) /\ toks[i].kind = Kind(toks, i)
  <2>1. i <= Len(toks) /\ toks[i].kind = Kind(toks, i)
    BY <1>1 DEF Kind
  <2> QED
    BY <2>1
<1>2. CASE Kind(toks, i) = "LABEL"
  BY <1>1, <1>2 DEF SourceToken
<1>3. CASE Kind(toks, i) = "LITERAL"
  BY <1>1, <1>3 DEF SourceToken, IsToken
<1>4. CASE Kind(toks, i) = "INT"
  BY <1>1, <1>4 DEF SourceToken, IsToken
<1>5. CASE Kind(toks, i) = "REGISTER"
  BY <1>1, <1>5 DEF SourceToken, IsToken
<1>6. CASE Kind(toks, i) = "INSTRUCTION"
  BY <1>1, <1>6 DEF SourceToken, IsToken
<1>7. CASE Kind(toks, i) \notin kinds
  BY <1>7
<1> QED
  BY <1>2, <1>3, <1>4, <1>5, <1>6, <1>7

-----------------------------------------------------------------------------
(* The steps. *)

\* While a line is read, the program's next line is there and pos is in the memory.
LEMMA ReadingState ==
    ASSUME XasIInv, Reading
    PROVE  /\ phase = "assembling" /\ program \in Programs
           /\ line \in Nat /\ line < Len(program) /\ Len(program) \in Nat
           /\ relocs \in TableSet /\ obj \in Objects
           /\ pos \in Nat /\ pos \in 0 .. XIS_MEM_SIZE /\ pos % 2 = 0
<1>1. Len(program) \in Nat
  BY ProgramsAssumption DEF XasIInv
<1> QED
  BY <1>1 DEF Reading, XasIInv

\* The label of a line leaves a table.
LEMMA LabelingType ==
    ASSUME XasIInv, Reading
    PROVE  Labeling.table \in TableSet
<1>1. /\ program \in Programs /\ line \in Nat /\ line < Len(program)
      /\ relocs \in TableSet /\ pos \in Int
  BY ReadingState
<1>2. CASE Labelled(Current)
  <2> DEFINE T == UNION {{Current[j]} : j \in DOMAIN Current}
  <2>1. Current \in Seq(T) /\ \A j \in 1 .. Len(Current) : SourceToken(Current[j])
    BY <1>1, CurrentTokens
  <2>2. Current[1].value \in Names
    BY <1>2, <2>1, TokenOfKind DEF Labelled
  <2>3. xreloc_symbol(relocs, pos, Current[1].value).table \in TableSet
    BY <1>1, <2>2, XrelocSymbolType
  <2> QED
    BY <1>2, <2>3 DEF Labeling
<1>3. CASE ~Labelled(Current)
  BY <1>1, <1>3 DEF Labeling
<1> QED
  BY <1>2, <1>3

\* Two even numbers add up to an even one.
LEMMA EvenSum ==
    ASSUME NEW p \in Nat, NEW a \in Nat, p % 2 = 0, a % 2 = 0
    PROVE  (p + a) % 2 = 0
BY SMT

\* At most 85 bytes at an address up to the memory's size stay within the object.
LEMMA WriteFits ==
    ASSUME NEW p \in 0 .. XIS_MEM_SIZE, NEW n \in 0 .. TokLimit + 1
    PROVE  p + n <= ObjSize
BY Sizes

\* What a line may do: write at most 85 bytes at pos and move pos by whole words.
LEMMA LineKeeps ==
    ASSUME XasIInv, Reading, NEW bytes \in Seq(Byte), Len(bytes) \in 0 .. TokLimit + 1,
           NEW advance \in Nat, advance % 2 = 0, NEW errors \in Nat, NEW table \in TableSet,
           Line(bytes, advance, errors, table)
    PROVE  XasIInv'
<1>1. /\ phase = "assembling" /\ program \in Programs
      /\ line \in Nat /\ line < Len(program) /\ Len(program) \in Nat
      /\ relocs \in TableSet /\ obj \in Objects
      /\ pos \in Nat /\ pos \in 0 .. XIS_MEM_SIZE /\ pos % 2 = 0
  BY ReadingState
<1>2. /\ program' = program /\ line' = line + 1 /\ pos' = pos + advance /\ relocs' = table
      /\ obj' = Write(obj, pos, bytes) /\ status' = status
      /\ err' = err + Count(~Labeling.ok) + errors + Count(pos' > XIS_MEM_SIZE)
      /\ phase' = IF pos' > XIS_MEM_SIZE THEN "relocating" ELSE "assembling"
  BY DEF Line
<1>3. obj' \in Objects
  <2>1. pos + Len(bytes) <= ObjSize
    BY <1>1, WriteFits
  <2> QED
    BY <1>1, <1>2, <2>1, WriteType
<1>4. pos' \in Nat /\ pos' % 2 = 0
  BY <1>1, <1>2, EvenSum
<1>5. phase' = "assembling" => pos' \in 0 .. XIS_MEM_SIZE
  BY <1>2, <1>4, Sizes
<1>6. line' \in 0 .. Len(program)'
  BY <1>1, <1>2
<1>7. err' \in Nat
  <2>1. Count(~Labeling.ok) \in Nat /\ Count(pos' > XIS_MEM_SIZE) \in Nat
    BY DEF Count
  <2>2. err \in Nat
    BY DEF XasIInv
  <2> QED
    BY <1>2, <2>1, <2>2
<1>8. phase' \in {"assembling", "relocating"}
  BY <1>2
<1>9. status' \in {0, 1}
  BY <1>2 DEF XasIInv
<1> QED
  BY <1>1, <1>2, <1>3, <1>4, <1>5, <1>6, <1>7, <1>8, <1>9 DEF XasIInv

\* A line that writes nothing and stays where it is.
LEMMA EmptyLineKeeps ==
    ASSUME XasIInv, Reading, NEW errors \in Nat, NEW table \in TableSet,
           Line(<<>>, 0, errors, table)
    PROVE  XasIInv'
<1>1. Len(<<>>) \in 0 .. TokLimit + 1 /\ << >> \in Seq(Byte)
  BY Sizes
<1>2. 0 \in Nat /\ 0 % 2 = 0
  OBVIOUS
<1> QED
  BY <1>1, <1>2, LineKeeps

\* A well-formed instruction has as many tokens as its operands say, and its
\* register operands are registers.
LEMMA RegistersType ==
    ASSUME NEW s, Len(s) \in Nat, \A j \in 1 .. Len(s) : SourceToken(s[j]), WellFormed(s)
    PROVE  Registers(s) \in Byte
<1> DEFINE op == s[1].value
           ops == Operands(op)
           plain == ops \in {<<>>, <<{"LABEL"}>>, <<{"INT", "LABEL"}>>}
           two == XIS_NUM_OPS(op) = 2
<1>1. Len(s) = Len(ops) + 1 /\ \A i \in DOMAIN ops : s[i + 1].kind \in ops[i]
  BY DEF WellFormed
<1>2. ASSUME NEW i \in DOMAIN ops, ops[i] = {"REGISTER"}, i \in 1 .. Len(s) - 1
      PROVE  s[i + 1].value \in RegId
  <2>1. s[i + 1].kind = "REGISTER" /\ i + 1 \in 1 .. Len(s)
    BY <1>1, <1>2
  <2> QED
    BY <2>1 DEF SourceToken, IsToken
<1>3. CASE plain
  <2>1. two => ~plain
    BY DEF Operands
  <2>2. Registers(s) = 0
    BY <1>3, <2>1 DEF Registers
  <2> QED
    BY <2>2 DEF Byte
<1>4. CASE ~plain /\ two
  <2>1. Registers(s) = 16 * s[2].value + s[4].value
    BY <1>4 DEF Registers
  <2>2. ops = <<{"REGISTER"}, {"COMMA"}, {"REGISTER"}>>
    BY <1>4 DEF Operands
  <2>3. s[2].value \in RegId /\ s[4].value \in RegId
    BY <1>1, <1>2, <2>2
  <2>4. \A a, b \in RegId : 16 * a + b \in Byte
    BY DEF RegId, Byte
  <2> QED
    BY <2>1, <2>3, <2>4
<1>5. CASE ~plain /\ ~two
  <2>1. Registers(s) = 16 * s[Len(s)].value
    BY <1>5 DEF Registers
  <2>2. \/ ops = <<{"REGISTER"}>>
        \/ ops = <<{"INT", "LABEL"}, {"COMMA"}, {"REGISTER"}>>
    BY <1>5 DEF Operands
  <2>3. s[Len(s)].value \in RegId
    <3>1. CASE ops = <<{"REGISTER"}>>
      BY <1>1, <1>2, <3>1
    <3>2. CASE ops = <<{"INT", "LABEL"}, {"COMMA"}, {"REGISTER"}>>
      BY <1>1, <1>2, <3>2
    <3> QED
      BY <2>2, <3>1, <3>2
  <2>4. \A a \in RegId : 16 * a \in Byte
    BY DEF RegId, Byte
  <2> QED
    BY <2>1, <2>3, <2>4
<1> QED
  BY <1>3, <1>4, <1>5

\* The number getregister leaves of a name is an integer, and so is the value of
\* an operand.
LEMMA OperandValueType ==
    ASSUME NEW tk, tk.kind = "INT" => tk.value \in Int
    PROVE  OperandValue(tk) \in Int
<1>1. PICK name : name = tk.value
  OBVIOUS
<1>2. NumberIn(name) \in Int
  BY DEF NumberIn, IsDigit
<1> QED
  BY <1>1, <1>2 DEF OperandValue

\* The bytes of an instruction.
LEMMA EncodeType ==
    ASSUME NEW s, Len(s) \in Nat, \A j \in 1 .. Len(s) : SourceToken(s[j]),
           Kind(s, 1) = "INSTRUCTION", WellFormed(s)
    PROVE  Encode(s) \in Seq(Byte) /\ Len(Encode(s)) \in {2, 4}
<1> DEFINE op == s[1].value
           v == IF Extended(op) THEN OperandValue(s[2]) ELSE 0
           two == <<op, Registers(s)>>
<1>1. two \in Seq(Byte) /\ Len(two) = 2
  <2>1. op \in Byte
    BY TokenOfKind
  <2>2. Registers(s) \in Byte
    BY RegistersType
  <2> QED
    BY <2>1, <2>2, PairType
<1>2. CASE Extended(op)
  <2>1. v \in Int
    <3>1. Len(s) >= 2
      <4>1. Operands(op) # << >> /\ Len(Operands(op)) \in {1, 3}
        BY <1>2 DEF Extended, Operands, XIS_EXTENDED
      <4> QED
        BY <4>1 DEF WellFormed
    <3>2. s[2].kind = "INT" => s[2].value \in Int
      BY <3>1 DEF SourceToken, IsToken
    <3> QED
      BY <3>2, OperandValueType
  <2>2. Encode(s) = two \o <<Hi(v), Lo(v)>>
    BY <1>2 DEF Encode
  <2> HIDE DEF v, two
  <2>3. <<Hi(v), Lo(v)>> \in Seq(Byte) /\ Len(<<Hi(v), Lo(v)>>) = 2
    BY <2>1, HalvesAreBytes, PairType
  <2>4. two \o <<Hi(v), Lo(v)>> \in Seq(Byte) /\ Len(two \o <<Hi(v), Lo(v)>>) = 2 + 2
    BY <1>1, <2>3, BytesJoin
  <2> QED
    BY <2>2, <2>4
<1>3. CASE ~Extended(op)
  <2>1. Encode(s) = two \o << >>
    BY <1>3 DEF Encode
  <2>2. << >> \in Seq(Byte) /\ Len(<< >>) = 0
    OBVIOUS
  <2> HIDE DEF two
  <2>3. two \o << >> \in Seq(Byte) /\ Len(two \o << >>) = 2 + 0
    BY <1>1, <2>2, BytesJoin
  <2> QED
    BY <2>1, <2>3
<1> QED
  BY <1>2, <1>3

\* A label operand gets its relocation at pos or pos + 2.
LEMMA OperandRelocType ==
    ASSUME XasIInv, Reading, NEW t \in TableSet
    PROVE  OperandReloc(t, Stmt).table \in TableSet
<1>1. /\ program \in Programs /\ line \in Nat /\ line < Len(program)
      /\ pos \in 0 .. XIS_MEM_SIZE /\ pos % 2 = 0
  BY ReadingState
<1>2. CASE ~TakesLabel(Stmt[1].value) \/ Kind(Stmt, 2) # "LABEL"
  BY <1>2 DEF OperandReloc
<1>3. CASE TakesLabel(Stmt[1].value) /\ Kind(Stmt, 2) = "LABEL"
  <2>1. Stmt[2].value \in Names
    BY <1>1, <1>3, StmtTokens, TokenOfKind
  <2>2. pos \in CodeLoc /\ pos + 2 \in CodeLoc
    BY <1>1, EvenIsCode
  <2>3. xreloc_reloc(t, pos + 2, 16, Stmt[2].value, XRELOC_ABSOLUTE).table \in TableSet
    BY <2>1, <2>2, XrelocRelocType
  <2>4. xreloc_reloc(t, pos, 8, Stmt[2].value, XRELOC_RELATIVE).table \in TableSet
    BY <2>1, <2>2, XrelocRelocType
  <2> QED
    BY <1>3, <2>3, <2>4 DEF OperandReloc
<1> QED
  BY <1>2, <1>3

LEMMA InstructionKeeps ==
    ASSUME XasIInv, Instruction
    PROVE  XasIInv'
<1>1. Reading /\ Labeling.table \in TableSet /\ Kind(Stmt, 1) = "INSTRUCTION"
  BY LabelingType DEF Instruction, Parsed
<1> DEFINE reloc == OperandReloc(Labeling.table, Stmt)
<1>2. reloc.table \in TableSet
  BY <1>1, OperandRelocType
<1>3. Count(~reloc.ok) \in Nat /\ Count(~reloc.ok) + 1 \in Nat
  BY DEF Count
<1>4. CASE WellFormed(Stmt)
  <2>1. Line(Encode(Stmt), Len(Encode(Stmt)), Count(~reloc.ok), reloc.table)
    BY <1>4 DEF Instruction
  <2>2. Len(Stmt) \in Nat /\ \A j \in 1 .. Len(Stmt) : SourceToken(Stmt[j])
    BY <1>1, ReadingState, StmtTokens
  <2>3. Encode(Stmt) \in Seq(Byte) /\ Len(Encode(Stmt)) \in {2, 4}
    BY <1>1, <1>4, <2>2, EncodeType
  <2>4. \A n \in {2, 4} : n \in 0 .. TokLimit + 1 /\ n \in Nat /\ n % 2 = 0
    BY Sizes
  <2>5. /\ Len(Encode(Stmt)) \in 0 .. TokLimit + 1 /\ Len(Encode(Stmt)) \in Nat
        /\ Len(Encode(Stmt)) % 2 = 0
    BY <2>3, <2>4
  <2> HIDE DEF reloc
  <2> QED
    BY <1>1, <1>2, <1>3, <2>1, <2>3, <2>5, LineKeeps
<1>5. CASE ~WellFormed(Stmt)
  <2>1. Line(<<>>, 0, Count(~reloc.ok) + 1, reloc.table)
    BY <1>5 DEF Instruction
  <2> HIDE DEF reloc
  <2> QED
    BY <1>1, <1>2, <1>3, <2>1, EmptyLineKeeps
<1> QED
  BY <1>4, <1>5

LEMMA LiteralStringKeeps ==
    ASSUME XasIInv, LiteralString
    PROVE  XasIInv'
<1> DEFINE v == Stmt[2].value
<1>1. Reading /\ Labeling.table \in TableSet /\ Kind(Stmt, 2) = "LITERAL"
  BY LabelingType DEF LiteralString, Parsed
<1>2. program \in Programs /\ line \in Nat /\ line < Len(program)
  BY <1>1, ReadingState
<1>3. v \in Seq(Byte) /\ Len(v) \in 0 .. TokLimit
  BY <1>1, <1>2, StmtTokens, TokenOfKind DEF IsText
<1>4. Line(v \o <<0>>, StringAdvance(Len(v) + 1), 0, Labeling.table)
  BY DEF LiteralString
<1> HIDE DEF v
<1>5. <<0>> \in Seq(Byte) /\ Len(<<0>>) = 1
  BY DEF Byte
<1>6. v \o <<0>> \in Seq(Byte) /\ Len(v \o <<0>>) = Len(v) + 1
  BY <1>3, <1>5, BytesJoin
<1>7. Len(v \o <<0>>) \in 0 .. TokLimit + 1
  <2>1. Len(v) + 1 \in 0 .. TokLimit + 1
    <3>1. Len(v) \in Nat /\ Len(v) <= TokLimit
      BY <1>3
    <3>2. TokLimit \in Nat
      BY Sizes
    <3> QED
      BY <3>1, <3>2
  <2> QED
    BY <1>6, <2>1
<1>8. StringAdvance(Len(v) + 1) \in Nat /\ StringAdvance(Len(v) + 1) % 2 = 0
  <2>1. ASSUME NEW n \in Nat
        PROVE  n + (n % 2) \in Nat /\ (n + (n % 2)) % 2 = 0
    BY SMT
  <2>2. Len(v) + 1 \in Nat
    BY <1>3
  <2> QED
    BY <2>1, <2>2 DEF StringAdvance
<1> QED
  BY <1>1, <1>4, <1>6, <1>7, <1>8, LineKeeps

LEMMA LiteralIntKeeps ==
    ASSUME XasIInv, LiteralInt
    PROVE  XasIInv'
<1> DEFINE v == Stmt[2].value
<1>1. Reading /\ Labeling.table \in TableSet /\ Kind(Stmt, 2) = "INT"
  BY LabelingType DEF LiteralInt, Parsed
<1>2. CASE v < -65536 \/ v > 65535
  <2>1. Line(<<>>, 0, 1, Labeling.table)
    BY <1>2 DEF LiteralInt
  <2> QED
    BY <1>1, <2>1, EmptyLineKeeps
<1>3. CASE ~(v < -65536 \/ v > 65535)
  <2>1. Line(<<Hi(v), Lo(v)>>, 2, 0, Labeling.table)
    BY <1>3 DEF LiteralInt
  <2>2. v \in Int
    BY <1>1, ReadingState, StmtTokens, TokenOfKind
  <2>3. <<Hi(v), Lo(v)>> \in Seq(Byte) /\ Len(<<Hi(v), Lo(v)>>) = 2
    BY <2>2, HalvesAreBytes, PairType
  <2>4. 2 \in 0 .. TokLimit + 1 /\ 2 \in Nat /\ 2 % 2 = 0
    BY Sizes
  <2> HIDE DEF v
  <2> QED
    BY <1>1, <2>1, <2>3, <2>4, LineKeeps
<1> QED
  BY <1>2, <1>3

LEMMA WordsKeeps ==
    ASSUME NoNegativeWords, XasIInv, Words
    PROVE  XasIInv'
<1> DEFINE v == Stmt[2].value
<1>1. Reading /\ Labeling.table \in TableSet /\ Is(Stmt, ".words")
  BY LabelingType DEF Words, Parsed
<1>2. CASE Kind(Stmt, 2) # "INT" \/ Short(v) < 1
  <2>1. Line(<<>>, 0, 1, Labeling.table)
    BY <1>2 DEF Words
  <2> QED
    BY <1>1, <2>1, EmptyLineKeeps
<1>3. CASE ~(Kind(Stmt, 2) # "INT" \/ Short(v) < 1)
  <2>1. Line(<<>>, 2 * v, 0, Labeling.table)
    BY <1>3 DEF Words
  <2>2. program \in Programs /\ line \in Nat /\ line < Len(program)
    BY <1>1, ReadingState
  <2>3. v \in Int
    BY <1>3, <2>2, StmtTokens, TokenOfKind
  <2>4. line + 1 \in DOMAIN program
    BY <2>2, ProgramsAssumption
  <2>5. v >= 0
    BY <1>1, <1>3, <2>2, <2>4 DEF NoNegativeWords, Stmt, Current
  <2>6. 2 * v \in Nat /\ (2 * v) % 2 = 0
    BY <2>3, <2>5
  <2>7. Len(<<>>) \in 0 .. TokLimit + 1 /\ << >> \in Seq(Byte)
    BY Sizes
  <2> QED
    BY <1>1, <2>1, <2>6, <2>7, LineKeeps
<1> QED
  BY <1>2, <1>3

LEMMA GlobKeeps ==
    ASSUME XasIInv, Glob
    PROVE  XasIInv'
<1>1. Reading /\ Labeling.table \in TableSet
  BY LabelingType DEF Glob, Parsed
<1>2. CASE Kind(Stmt, 2) # "LABEL"
  <2>1. Line(<<>>, 0, 1, Labeling.table)
    BY <1>2 DEF Glob
  <2> QED
    BY <1>1, <2>1, EmptyLineKeeps
<1>3. CASE Kind(Stmt, 2) = "LABEL"
  <2>1. Line(<<>>, 0, 0, xreloc_global(Labeling.table, Stmt[2].value))
    BY <1>3 DEF Glob
  <2>2. Stmt[2].value \in Names
    BY <1>1, <1>3, ReadingState, StmtTokens, TokenOfKind
  <2>3. xreloc_global(Labeling.table, Stmt[2].value) \in TableSet
    BY <1>1, <2>2, XrelocGlobalType
  <2> QED
    BY <1>1, <2>1, <2>3, EmptyLineKeeps
<1> QED
  BY <1>2, <1>3

\* The lines that only count an error or nothing.
LEMMA OtherLinesKeep ==
    ASSUME XasIInv, MissingColon \/ Blank \/ BadStatement
    PROVE  XasIInv'
<1>1. Reading /\ \E e \in {0, 1} : Line(<<>>, 0, e, Labeling.table)
  BY DEF MissingColon, Blank, BadStatement, Parsed
<1>2. PICK e \in {0, 1} : Line(<<>>, 0, e, Labeling.table)
  BY <1>1
<1> QED
  BY <1>1, <1>2, LabelingType, EmptyLineKeeps

\* Relocating writes in the object and in "$".
LEMMA RelocateKeeps ==
    ASSUME XasIInv, Relocate
    PROVE  XasIInv'
<1> DEFINE done == xreloc_relocate(relocs, obj)
<1>1. obj \in Objects /\ relocs \in TableSet /\ err \in Nat
  BY DEF Relocate, XasIInv
<1>2. done \in Relocating
  BY <1>1, XrelocRelocateType
<1>3. obj' = done.mem /\ relocs' = done.table /\ err' = err + Count(~done.ok) /\ phase' = "storing"
  BY DEF Relocate
<1> HIDE DEF done
<1>4. obj' \in Objects /\ relocs' \in TableSet
  BY <1>2, <1>3 DEF Relocating
<1>5. err' \in Nat
  BY <1>1, <1>3 DEF Count
<1> QED
  BY <1>3, <1>4, <1>5 DEF Relocate, XasIInv

\* Storing leaves the object to StoredInv.
LEMMA StoreTableKeeps ==
    ASSUME XasIInv, StoreTable
    PROVE  XasIInv'
<1>1. err' \in Nat
  <2> DEFINE stored == xreloc_store_table(relocs, obj, pos, 0)
  <2>1. err' = err + Count(stored.size = 0) + Count(pos > XIS_MEM_SIZE) /\ err \in Nat
    BY DEF StoreTable, XasIInv
  <2>2. Count(stored.size = 0) \in Nat /\ Count(pos > XIS_MEM_SIZE) \in Nat
    BY DEF Count
  <2> HIDE DEF stored
  <2> QED
    BY <2>1, <2>2
<1> QED
  BY <1>1 DEF StoreTable, XasIInv

LEMMA StoreTableStays ==
    ASSUME NamesLeaveRoom, XasIInv, StoreTable
    PROVE  StoredInv'
<1> DEFINE stored == xreloc_store_table(relocs, obj, pos, 0)
<1>1. obj \in Objects /\ relocs \in TableSet /\ pos \in Nat
  BY DEF StoreTable, XasIInv
<1>2. \A n \in Names : Len(n) <= LongestName
  <2>1. Len(REL_NAME) <= LongestName
    BY DEF REL_NAME, LongestName
  <2> QED
    BY <2>1 DEF Names, NamesLeaveRoom
<1>3. \A i \in DOMAIN relocs.syms : Len(relocs.syms[i].name) <= LongestName
  <2>1. relocs.syms \in Seq(SymbolSet)
    BY <1>1 DEF TableSet
  <2>2. ASSUME NEW i \in DOMAIN relocs.syms
        PROVE  relocs.syms[i].name \in Names
    <3>1. relocs.syms[i] \in SymbolSet
      BY <2>1
    <3> QED
      BY <3>1 DEF SymbolSet
  <2> QED
    BY <1>2, <2>2
<1>4. stored.mem \in Objects /\ stored.size \in 0 .. XIS_MEM_SIZE
  BY <1>1, <1>3, XrelocStoreType
<1>5. obj' = stored.mem /\ size' = stored.size
  BY DEF StoreTable
<1> HIDE DEF stored
<1> QED
  BY <1>4, <1>5 DEF StoredInv

-----------------------------------------------------------------------------
(* The invariant. *)
LEMMA XasInit == Init => XasIInv /\ StoredInv
<1> SUFFICES ASSUME Init
             PROVE  XasIInv /\ StoredInv
  OBVIOUS
<1>1. /\ program \in Programs /\ line = 0 /\ pos = 0 /\ err = 0 /\ size = 0 /\ status = 0
      /\ obj = Nothing /\ relocs = EmptyTable /\ phase = "assembling"
  BY DEF Init
<1>2. EmptyTable \in TableSet
  BY DEF EmptyTable, TableSet, NamedOnce
<1>3. Nothing \in Objects
  <2>1. Nothing \in [{} -> Byte] /\ {} \in SUBSET (0 .. ObjSize - 1)
    BY DEF Nothing
  <2> QED
    BY <2>1 DEF Objects
<1>4. 0 \in 0 .. XIS_MEM_SIZE /\ 0 % 2 = 0
  BY Sizes
<1>5. Len(program) \in Nat
  BY <1>1, ProgramsAssumption
<1> QED
  BY <1>1, <1>2, <1>3, <1>4, <1>5 DEF XasIInv, StoredInv

LEMMA XasStep ==
    ASSUME NoNegativeWords, XasIInv, [Next]_vars
    PROVE  XasIInv'
<1>1. CASE MissingColon \/ Blank \/ BadStatement
  BY <1>1, OtherLinesKeep
<1>2. CASE Instruction
  BY <1>2, InstructionKeeps
<1>3. CASE LiteralString
  BY <1>3, LiteralStringKeeps
<1>4. CASE LiteralInt
  BY <1>4, LiteralIntKeeps
<1>5. CASE Words
  BY <1>5, WordsKeeps
<1>6. CASE Glob
  BY <1>6, GlobKeeps
<1>7. CASE EndOfFile
  BY <1>7 DEF EndOfFile, XasIInv
<1>8. CASE Relocate
  BY <1>8, RelocateKeeps
<1>9. CASE StoreTable
  BY <1>9, StoreTableKeeps
<1>10. CASE ReportErrors \/ OpenFails \/ WriteFails \/ WriteFile
  BY <1>10 DEF ReportErrors, OpenFails, WriteFails, WriteFile, Exit, XasIInv
<1>11. CASE Done \/ UNCHANGED vars
  BY <1>11 DEF Done, vars, XasIInv
<1> QED
  BY <1>1, <1>2, <1>3, <1>4, <1>5, <1>6, <1>7, <1>8, <1>9, <1>10, <1>11 DEF Next

LEMMA StoredStep ==
    ASSUME NamesLeaveRoom, XasIInv, StoredInv, [Next]_vars
    PROVE  StoredInv'
<1>1. CASE \/ MissingColon \/ Blank \/ Instruction \/ LiteralString \/ LiteralInt \/ Words
           \/ Glob \/ BadStatement
  <2>1. size' = size /\ phase' \in {"assembling", "relocating"}
    BY <1>1 DEF MissingColon, Blank, Instruction, LiteralString, LiteralInt, Words, Glob,
                BadStatement, Line
  <2> QED
    BY <2>1 DEF StoredInv
<1>2. CASE EndOfFile \/ Relocate
  BY <1>2 DEF EndOfFile, Relocate, StoredInv
<1>3. CASE StoreTable
  BY <1>3, StoreTableStays
<1>4. CASE ReportErrors \/ OpenFails \/ WriteFails \/ WriteFile
  BY <1>4 DEF ReportErrors, OpenFails, WriteFails, WriteFile, Exit, StoredInv
<1>5. CASE Done \/ UNCHANGED vars
  BY <1>5 DEF Done, vars, StoredInv
<1> QED
  BY <1>1, <1>2, <1>3, <1>4, <1>5 DEF Next

LEMMA XasInvariant ==
    ASSUME NoNegativeWords
    PROVE  Spec => []XasIInv
<1>1. XasIInv /\ [Next]_vars => XasIInv'
  BY XasStep
<1> QED
  BY <1>1, XasInit, PTL DEF Spec

\* The states of the assembler keep their types, and no byte is ever outside the
\* object that xas.c:211 allocated, neither while lines are read nor when
\* relocations are applied or the table is stored behind the code; nor does the table
\* ever hold a name twice.  A name of more than 80 bytes is the exception.
THEOREM XasTypeCorrect ==
    ASSUME NoNegativeWords, NamesLeaveRoom
    PROVE  Spec => []XasTypeOK
<1>1. XasIInv /\ StoredInv /\ [Next]_vars => StoredInv'
  BY StoredStep
<1>2. Spec => []StoredInv
  BY <1>1, XasInit, XasInvariant, PTL DEF Spec
<1>3. XasIInv /\ StoredInv => XasTypeOK
  <2> SUFFICES ASSUME XasIInv, StoredInv
               PROVE  XasTypeOK
    OBVIOUS
  <2>1. obj \in Objects
    BY DEF XasIInv, StoredInv
  <2>2. DOMAIN obj \subseteq 0 .. ObjSize - 1 /\ \A a \in DOMAIN obj : obj[a] \in Byte
    BY <2>1 DEF Objects
  <2>3. NamedOnce(relocs.syms)
    BY DEF XasIInv, TableSet
  <2> QED
    BY <2>2, <2>3 DEF XasIInv, StoredInv, XasTypeOK, NamedOnce
<1> QED
  BY <1>2, <1>3, XasInvariant, PTL

\* No line is written behind the 85 bytes that xas.c:211 asks for beyond the size
\* of the memory, as long as a name or string fits in tok and .words do not go back.
THEOREM CodeFits ==
    ASSUME NoNegativeWords
    PROVE  Spec => []CodeFitsObject
<1>1. \A m \in Objects : DOMAIN m \subseteq 0 .. ObjSize - 1
  BY DEF Objects
<1>2. XasIInv => CodeFitsObject
  BY <1>1 DEF XasIInv, CodeFitsObject
<1> QED
  BY <1>2, XasInvariant, PTL

\* While lines are read the assert in add_reloc holds and xreloc_reloc refuses no
\* address: every relocation is at an even address, INV_ADDR is odd.
THEOREM RelocationsValid ==
    ASSUME NoNegativeWords
    PROVE  Spec => []NoInvalidReloc
<1>1. ASSUME NEW t \in TableSet, NEW i \in DOMAIN t.syms, NEW k \in DOMAIN t.syms[i].relocs
      PROVE  t.syms[i].relocs[k].loc \in CodeLoc
  <2>1. t.syms[i] \in SymbolSet
    BY DEF TableSet
  <2>2. t.syms[i].relocs \in Seq(RelocSet)
    BY <2>1 DEF SymbolSet
  <2>3. t.syms[i].relocs[k] \in RelocSet
    BY <2>2
  <2> QED
    BY <2>3 DEF RelocSet
<1>2. ASSUME XasIInv, phase = "assembling", NEW i \in DOMAIN relocs.syms,
             NEW k \in DOMAIN relocs.syms[i].relocs
      PROVE  relocs.syms[i].relocs[k].loc \in CodeLoc
  BY <1>1, <1>2 DEF XasIInv
<1>3. XasIInv => NoInvalidReloc
  BY <1>2, CodeIsNotInvalid DEF NoInvalidReloc
<1> QED
  BY <1>3, XasInvariant, PTL

-----------------------------------------------------------------------------
(* Which lines are errors. *)

\* The symbol of a name, a new one if the table has none.
Named(t, name) == IF Has(t, name) THEN t.syms[IndexOf(t, name)] ELSE NewSymbol(name)

\* What becomes of a symbol: it gets a place, is made global, gets a relocation.
WithPlace(sym, loc) == [sym EXCEPT !.loc = loc]
MadeGlobal(sym)     == [sym EXCEPT !.global = TRUE]
WithReloc(sym, r)   == [sym EXCEPT !.relocs = <<r>> \o @]
RelocAt(loc, bits, flags) == [loc |-> loc, size |-> bits, flags |-> flags]

\* A label is known to the table, and a label stands in one of the first n lines.
KnownIn(t, name) == Named(t, name).loc # INV_ADDR

LabelledBy(n, name) == \E i \in 1 .. n : Labelled(program[i]) /\ LabelOf(i) = name

GoodLine(i) ==
    /\ Labelled(program[i]) => HasColon(program[i]) /\ ~LabelledBy(i - 1, LabelOf(i))
    /\ GoodStatement(StmtOf(i))

GoodUpTo(n) == \A i \in 1 .. n : GoodLine(i)

LabelsOnce == \A i \in DOMAIN program : Labelled(program[i]) => LinesWith(LabelOf(i)) = {i}

\* While lines are read, what is known is what the lines so far have defined.
LinesInv ==
    /\ phase = "assembling" =>
           /\ err = 0 <=> GoodUpTo(line)
           /\ \A name \in Names : KnownIn(relocs, name) <=> LabelledBy(line, name)
    /\ phase = "relocating" => (err = 0 <=> GoodUpTo(Len(program)) /\ pos <= XIS_MEM_SIZE)
    /\ phase \in {"storing", "reporting", "exited"} /\ err = 0 => GoodUpTo(Len(program))
    /\ IF phase = "exited" THEN file.is # "old" => err = 0 ELSE file.is = "old"

\* A symbol of a table is the one of its name.
LEMMA NamedAt ==
    ASSUME NEW t \in TableSet, NEW k \in DOMAIN t.syms
    PROVE  /\ t.syms[k] \in SymbolSet /\ t.syms[k].name \in Names
           /\ Has(t, t.syms[k].name) /\ Named(t, t.syms[k].name) = t.syms[k]
<1>1. t.syms \in Seq(SymbolSet)
  BY DEF TableSet
<1>2. t.syms[k] \in SymbolSet /\ t.syms[k].name \in Names
  <2>1. t.syms[k] \in SymbolSet
    BY <1>1
  <2> QED
    BY <2>1 DEF SymbolSet
<1>3. Has(t, t.syms[k].name)
  BY DEF Has
<1>4. IndexOf(t, t.syms[k].name) = k
  <2>1. /\ IndexOf(t, t.syms[k].name) \in DOMAIN t.syms
        /\ t.syms[IndexOf(t, t.syms[k].name)].name = t.syms[k].name
    BY <1>1, <1>3, IndexOfHas
  <2> QED
    BY <2>1 DEF TableSet, NamedOnce
<1> QED
  BY <1>2, <1>3, <1>4 DEF Named

LEMMA NamedType ==
    ASSUME NEW t \in TableSet, NEW name \in Names
    PROVE  Named(t, name) \in SymbolSet /\ Named(t, name).name = name
<1>1. NewSymbol(name) \in SymbolSet /\ NewSymbol(name).name = name
  BY Sizes DEF NewSymbol, SymbolSet
<1>2. CASE Has(t, name)
  <2>1. t.syms[IndexOf(t, name)] \in SymbolSet /\ t.syms[IndexOf(t, name)].name = name
    BY <1>2, IndexOfHas, SymbolType
  <2> QED
    BY <1>2, <2>1 DEF Named
<1>3. CASE ~Has(t, name)
  BY <1>1, <1>3 DEF Named
<1> QED
  BY <1>2, <1>3

\* Looking for a symbol changes no symbol.
LEMMA FindsymNamed ==
    ASSUME NEW t \in TableSet, NEW name \in Names, NEW other
    PROVE  /\ Has(findsym(t, name), other) <=> Has(t, other) \/ other = name
           /\ Named(findsym(t, name), other) = Named(t, other)
<1> DEFINE u == findsym(t, name)
<1>1. CASE Has(t, name)
  BY <1>1 DEF findsym
<1>2. CASE ~Has(t, name)
  <2>1. NewSymbol(name) \in SymbolSet /\ NewSymbol(name).name = name
    BY Sizes DEF NewSymbol, SymbolSet
  <2>2. t.syms \in Seq(SymbolSet) /\ t \in [syms : Seq(SymbolSet), rel_cnt : Nat]
    BY DEF TableSet
  <2> DEFINE s == <<NewSymbol(name)>> \o t.syms
  <2>3. /\ s \in Seq(SymbolSet) /\ Len(s) = 1 + Len(t.syms) /\ s[1] = NewSymbol(name)
        /\ \A i \in 2 .. Len(s) : i - 1 \in DOMAIN t.syms /\ s[i] = t.syms[i - 1]
        /\ \A i \in DOMAIN t.syms : i + 1 \in 2 .. Len(s) /\ s[i + 1] = t.syms[i]
    BY <2>1, <2>2
  <2>4. u = [t EXCEPT !.syms = s]
    BY <1>2 DEF findsym
  <2> HIDE DEF s
  <2>5. u.syms = s /\ u \in TableSet
    BY <2>2, <2>4, FindsymType
  <2> HIDE DEF u
  <2>6. DOMAIN s = 1 .. Len(s) /\ Len(s) \in Nat /\ Len(s) >= 1
    BY <2>2, <2>3
  <2>7. CASE other = name
    <3>1. 1 \in DOMAIN u.syms /\ u.syms[1] = NewSymbol(name)
      BY <2>3, <2>5, <2>6
    <3>2. Has(u, name) /\ Named(u, name) = NewSymbol(name)
      BY <2>1, <2>5, <3>1, NamedAt
    <3> QED
      BY <1>2, <2>7, <3>2 DEF Named, u
  <2>8. CASE other # name
    <3>1. Has(t, other) => Has(u, other) /\ Named(u, other) = Named(t, other)
      <4> SUFFICES ASSUME Has(t, other)
                   PROVE  Has(u, other) /\ Named(u, other) = Named(t, other)
        OBVIOUS
      <4>1. PICK i \in DOMAIN t.syms : t.syms[i].name = other
        BY DEF Has
      <4>2. i + 1 \in DOMAIN u.syms /\ u.syms[i + 1] = t.syms[i]
        BY <2>3, <2>5, <2>6
      <4>3. Has(u, other) /\ Named(u, other) = u.syms[i + 1]
        BY <2>5, <4>1, <4>2, NamedAt
      <4>4. Named(t, other) = t.syms[i]
        BY <4>1, NamedAt
      <4> QED
        BY <4>2, <4>3, <4>4
    <3>2. Has(u, other) => Has(t, other)
      <4> SUFFICES ASSUME Has(u, other)
                   PROVE  Has(t, other)
        OBVIOUS
      <4>1. PICK i \in DOMAIN s : s[i].name = other
        BY <2>5 DEF Has
      <4>2. i # 1
        BY <2>1, <2>3, <2>8, <4>1
      <4>3. i \in 2 .. Len(s)
        BY <2>6, <4>2
      <4> QED
        BY <2>3, <4>1, <4>3 DEF Has
    <3>3. ~Has(t, other) => Named(u, other) = Named(t, other)
      BY <3>2 DEF Named
    <3> QED
      BY <2>8, <3>1, <3>2, <3>3 DEF u
  <2> QED
    BY <2>7, <2>8
<1> QED
  BY <1>1, <1>2

\* Replacing a symbol changes the one of its name only.
LEMMA ReplacedNamed ==
    ASSUME NEW t \in TableSet, NEW name, Has(t, name), NEW sym \in SymbolSet, sym.name = name,
           NEW u, u = [t EXCEPT !.syms[IndexOf(t, name)] = sym], NEW other
    PROVE  /\ u \in TableSet /\ (Has(u, other) <=> Has(t, other))
           /\ Named(u, other) = IF other = name THEN sym ELSE Named(t, other)
<1> DEFINE i == IndexOf(t, name)
<1>1. i \in 1 .. Len(t.syms) /\ t.syms[i].name = name
  BY IndexOfHas
<1>2. t.syms \in Seq(SymbolSet) /\ t \in [syms : Seq(SymbolSet), rel_cnt : Nat]
  BY DEF TableSet
<1>3. u \in TableSet
  BY <1>1, SymbolReplaced
<1> HIDE DEF i
<1>4. /\ DOMAIN u.syms = DOMAIN t.syms /\ i \in DOMAIN u.syms
      /\ u.syms[i] = sym /\ \A j \in DOMAIN t.syms : j # i => u.syms[j] = t.syms[j]
  BY <1>1, <1>2 DEF i
<1>5. Has(u, other) <=> Has(t, other)
  BY <1>1, <1>4 DEF Has
<1>6. CASE other = name
  BY <1>3, <1>4, <1>6, NamedAt
<1>7. CASE other # name /\ Has(t, other)
  <2>1. PICK j \in DOMAIN t.syms : t.syms[j].name = other
    BY <1>7 DEF Has
  <2>2. u.syms[j] = t.syms[j]
    BY <1>1, <1>4, <1>7, <2>1
  <2>3. Named(t, other) = t.syms[j] /\ Named(u, other) = u.syms[j]
    BY <1>3, <1>4, <2>1, <2>2, NamedAt
  <2> QED
    BY <1>3, <1>5, <1>7, <2>2, <2>3
<1>8. CASE other # name /\ ~Has(t, other)
  BY <1>3, <1>5, <1>8 DEF Named
<1> QED
  BY <1>3, <1>5, <1>6, <1>7, <1>8

\* Defining a label fails if it has a place, and gives it one if not.
LEMMA XrelocSymbolNamed ==
    ASSUME NEW t \in TableSet, NEW name \in Names, NEW loc \in Int,
           NEW u, u = xreloc_symbol(t, loc, name)
    PROVE  /\ u.ok \in BOOLEAN /\ (u.ok <=> Named(t, name).loc = INV_ADDR)
           /\ \A other : Has(u.table, other) <=> Has(t, other) \/ other = name
           /\ \A other : Named(u.table, other) =
                             IF other = name /\ u.ok THEN WithPlace(Named(t, name), loc)
                             ELSE Named(t, other)
<1> DEFINE f == findsym(t, name)
           i == IndexOf(f, name)
           old == f.syms[i]
           sym == [old EXCEPT !.loc = loc]
           v == [f EXCEPT !.syms[i] = sym]
<1>1. f \in TableSet /\ Has(f, name)
  BY FindsymType
<1>2. \A other : /\ Has(f, other) <=> Has(t, other) \/ other = name
                 /\ Named(f, other) = Named(t, other)
  BY FindsymNamed
<1>3. old = Named(t, name)
  <2> HIDE DEF f
  <2> QED
    BY <1>1, <1>2 DEF Named
<1>4. sym \in SymbolSet /\ sym.name = name
  <2>1. old \in SymbolSet /\ old.name = name
    BY <1>3, NamedType
  <2> HIDE DEF old
  <2> QED
    BY <2>1 DEF SymbolSet
<1>5. u = IF old.loc # INV_ADDR THEN [ok |-> FALSE, table |-> f] ELSE [ok |-> TRUE, table |-> v]
  BY DEF xreloc_symbol, Symbol
<1>6. \A other : /\ Has(v, other) <=> Has(f, other)
                 /\ Named(v, other) = IF other = name THEN sym ELSE Named(f, other)
  <2> SUFFICES ASSUME NEW other
               PROVE  /\ Has(v, other) <=> Has(f, other)
                      /\ Named(v, other) = IF other = name THEN sym ELSE Named(f, other)
    OBVIOUS
  <2> HIDE DEF f, sym
  <2> QED
    BY <1>1, <1>4, ReplacedNamed
<1> HIDE DEF sym
<1>9. sym = WithPlace(Named(t, name), loc)
  BY <1>3 DEF WithPlace, sym
<1> HIDE DEF f, old, v
<1>7. CASE old.loc # INV_ADDR
  <2>1. u.ok = FALSE /\ u.table = f
    BY <1>5, <1>7
  <2> QED
    BY <1>2, <1>3, <1>7, <2>1
<1>8. CASE old.loc = INV_ADDR
  <2>1. u.ok = TRUE /\ u.table = v
    BY <1>5, <1>8
  <2> QED
    BY <1>2, <1>3, <1>6, <1>8, <1>9, <2>1
<1> QED
  BY <1>7, <1>8

LEMMA XrelocGlobalNamed ==
    ASSUME NEW t \in TableSet, NEW name \in Names, NEW other
    PROVE  /\ Has(xreloc_global(t, name), other) <=> Has(t, other) \/ other = name
           /\ Named(xreloc_global(t, name), other) =
                  IF other = name THEN MadeGlobal(Named(t, name)) ELSE Named(t, other)
<1> DEFINE f == findsym(t, name)
           i == IndexOf(f, name)
           old == f.syms[i]
           sym == [old EXCEPT !.global = TRUE]
           v == [f EXCEPT !.syms[i] = sym]
<1>1. f \in TableSet /\ Has(f, name)
  BY FindsymType
<1>2. \A x : /\ Has(f, x) <=> Has(t, x) \/ x = name
             /\ Named(f, x) = Named(t, x)
  BY FindsymNamed
<1>3. old = Named(t, name)
  <2> HIDE DEF f
  <2> QED
    BY <1>1, <1>2 DEF Named
<1>4. sym \in SymbolSet /\ sym.name = name
  <2>1. old \in SymbolSet /\ old.name = name
    BY <1>3, NamedType
  <2> HIDE DEF old
  <2> QED
    BY <2>1 DEF SymbolSet
<1>5. xreloc_global(t, name) = v
  BY DEF xreloc_global
<1>6. /\ Has(v, other) <=> Has(f, other)
      /\ Named(v, other) = IF other = name THEN sym ELSE Named(f, other)
  <2> HIDE DEF f, sym
  <2> QED
    BY <1>1, <1>4, ReplacedNamed
<1>7. sym = MadeGlobal(Named(t, name))
  BY <1>3 DEF MadeGlobal
<1> HIDE DEF f, sym, v
<1> QED
  BY <1>2, <1>5, <1>6, <1>7

\* One more relocation.
LEMMA AddRelocNamed ==
    ASSUME NEW t \in TableSet, NEW name \in Names, Has(t, name), NEW loc \in CodeLoc,
           NEW bits \in {8, 16}, NEW flags \in {XRELOC_ABSOLUTE, XRELOC_RELATIVE}, NEW other
    PROVE  /\ Has(add_reloc(t, name, loc, bits, flags), other) <=> Has(t, other)
           /\ Named(add_reloc(t, name, loc, bits, flags), other) =
                  IF other = name THEN WithReloc(Named(t, name), RelocAt(loc, bits, flags))
                  ELSE Named(t, other)
<1> DEFINE i == IndexOf(t, name)
           r == [loc |-> loc, size |-> bits, flags |-> flags]
           old == t.syms[i]
           sym == [old EXCEPT !.relocs = <<r>> \o @]
           v == [t EXCEPT !.syms[i] = sym]
<1>1. old = Named(t, name)
  BY DEF Named
<1>2. old \in SymbolSet /\ old.name = name
  BY <1>1, NamedType
<1>3. r \in RelocSet /\ old.relocs \in Seq(RelocSet)
  BY <1>2 DEF RelocSet, SymbolSet
<1>4. <<r>> \o old.relocs \in Seq(RelocSet)
  BY <1>3
<1>5. sym \in SymbolSet /\ sym.name = name
  <2> HIDE DEF old, r
  <2> QED
    BY <1>2, <1>4 DEF SymbolSet
<1>6. [t EXCEPT !.syms[i].relocs = <<r>> \o @] = v
  OBVIOUS
<1>7. add_reloc(t, name, loc, bits, flags) = v
  BY <1>6 DEF add_reloc
<1>8. /\ Has(v, other) <=> Has(t, other)
      /\ Named(v, other) = IF other = name THEN sym ELSE Named(t, other)
  <2> HIDE DEF sym
  <2> QED
    BY <1>5, ReplacedNamed
<1>9. sym = WithReloc(Named(t, name), RelocAt(loc, bits, flags))
  BY <1>1 DEF WithReloc, RelocAt
<1> HIDE DEF sym, v
<1> QED
  BY <1>7, <1>8, <1>9

LEMMA XrelocRelocNamed ==
    ASSUME NEW t \in TableSet, NEW name \in Names, NEW loc \in CodeLoc,
           NEW bits \in {8, 16}, NEW flags \in {XRELOC_ABSOLUTE, XRELOC_RELATIVE},
           NEW other
    PROVE  /\ Has(xreloc_reloc(t, loc, bits, name, flags).table, other)
                  <=> Has(t, other) \/ other = name
           /\ Named(xreloc_reloc(t, loc, bits, name, flags).table, other) =
                  IF other = name THEN WithReloc(Named(t, name), RelocAt(loc, bits, flags))
                  ELSE Named(t, other)
<1> DEFINE f == findsym(t, name)
<1>1. f \in TableSet /\ Has(f, name)
  BY FindsymType
<1>2. \A x : /\ Has(f, x) <=> Has(t, x) \/ x = name
             /\ Named(f, x) = Named(t, x)
  BY FindsymNamed
<1>3. xreloc_reloc(t, loc, bits, name, flags).table = add_reloc(f, name, loc, bits, flags)
  BY CodeIsNotInvalid DEF xreloc_reloc
<1> HIDE DEF f
<1>4. Named(f, name) = Named(t, name)
  BY <1>2
<1> QED
  BY <1>1, <1>2, <1>3, <1>4, AddRelocNamed

-----------------------------------------------------------------------------
(* One line. *)

\* Nothing but the source decides which lines are good.
LEMMA SourceStays ==
    ASSUME program' = program
    PROVE  /\ \A n : GoodUpTo(n)' <=> GoodUpTo(n)
           /\ \A n, name : LabelledBy(n, name)' <=> LabelledBy(n, name)
<1>1. \A i : StmtOf(i)' = StmtOf(i) /\ LabelOf(i)' = LabelOf(i)
  BY DEF StmtOf, LabelOf
<1>2. \A m, name : (\E i \in 1 .. m : Labelled(program[i]) /\ LabelOf(i) = name)
                    <=> (\E i \in 1 .. m : Labelled(program'[i]) /\ LabelOf(i)' = name)
  BY <1>1
<1> QED
  BY <1>1, <1>2 DEF GoodUpTo, GoodLine, LabelledBy

\* What the label of the next line does.
LEMMA LabelingKnows ==
    ASSUME XasIInv, LinesInv, Reading
    PROVE  /\ Labeling.ok <=> (Labelled(Current) => ~LabelledBy(line, LabelOf(line + 1)))
           /\ \A name \in Names : KnownIn(Labeling.table, name) <=> LabelledBy(line + 1, name)
<1>1. /\ program \in Programs /\ line \in Nat /\ line < Len(program) /\ phase = "assembling"
      /\ relocs \in TableSet /\ pos \in 0 .. XIS_MEM_SIZE /\ pos % 2 = 0
  BY ReadingState
<1>2. \A name \in Names : KnownIn(relocs, name) <=> LabelledBy(line, name)
  BY <1>1 DEF LinesInv
<1>3. LabelOf(line + 1) = Current[1].value /\ program[line + 1] = Current
  BY DEF LabelOf, Current
<1>4. \A name : LabelledBy(line + 1, name)
                  <=> LabelledBy(line, name) \/ (Labelled(Current) /\ Current[1].value = name)
  <2>1. 1 .. line + 1 = (1 .. line) \cup {line + 1}
    BY <1>1
  <2> QED
    BY <1>3, <2>1 DEF LabelledBy
<1>5. CASE Labelled(Current)
  <2> DEFINE T == UNION {{Current[j]} : j \in DOMAIN Current}
  <2>1. Current \in Seq(T) /\ \A j \in 1 .. Len(Current) : SourceToken(Current[j])
    BY <1>1, CurrentTokens
  <2>2. Current[1].value \in Names
    BY <1>5, <2>1, TokenOfKind DEF Labelled
  <2>3. pos \in Int /\ pos # INV_ADDR
    BY <1>1, EvenIsCode, CodeIsNotInvalid
  <2>4. Labeling = xreloc_symbol(relocs, pos, Current[1].value)
    BY <1>5 DEF Labeling
  <2>5. /\ Labeling.ok <=> ~KnownIn(relocs, Current[1].value)
        /\ \A name : KnownIn(Labeling.table, name)
                       <=> KnownIn(relocs, name) \/ name = Current[1].value
    <3>1. WithPlace(Named(relocs, Current[1].value), pos).loc = pos
      BY <1>1, <2>2, NamedType DEF SymbolSet, WithPlace
    <3>2. /\ Labeling.ok \in BOOLEAN
          /\ Labeling.ok <=> Named(relocs, Current[1].value).loc = INV_ADDR
          /\ \A other : Named(Labeling.table, other) =
                 IF other = Current[1].value /\ Labeling.ok
                 THEN WithPlace(Named(relocs, Current[1].value), pos) ELSE Named(relocs, other)
      BY <1>1, <2>2, <2>3, <2>4, XrelocSymbolNamed
    <3> QED
      BY <2>3, <3>1, <3>2 DEF KnownIn
  <2> QED
    BY <1>2, <1>3, <1>4, <1>5, <2>2, <2>5
<1>6. CASE ~Labelled(Current)
  <2>1. Labeling.ok /\ Labeling.table = relocs
    BY <1>6 DEF Labeling
  <2> QED
    BY <1>2, <1>4, <1>6, <2>1
<1> QED
  BY <1>5, <1>6

\* A line that counts an error exactly if it is a bad one, unless pos leaves the memory,
\* which is an error anyway.
LEMMA LineCounts ==
    ASSUME XasIInv, LinesInv, Reading, NEW bytes, NEW advance \in Int, NEW errors \in Nat,
           NEW table, Line(bytes, advance, errors, table),
           \A name \in Names : KnownIn(table, name) <=> KnownIn(Labeling.table, name),
           pos + advance <= XIS_MEM_SIZE =>
               (errors = 0 <=> (Labelled(Current) => HasColon(Current)) /\ GoodStatement(Stmt))
    PROVE  LinesInv'
<1>1. /\ program \in Programs /\ line \in Nat /\ line < Len(program) /\ phase = "assembling"
      /\ pos \in Int /\ err \in Nat
  BY ReadingState DEF XasIInv
<1>2. /\ line' = line + 1 /\ pos' = pos + advance /\ relocs' = table
      /\ err' = err + Count(~Labeling.ok) + errors + Count(pos' > XIS_MEM_SIZE)
      /\ phase' = IF pos' > XIS_MEM_SIZE THEN "relocating" ELSE "assembling"
      /\ program' = program /\ file' = file
  BY DEF Line
<1>3. err = 0 <=> GoodUpTo(line)
  BY <1>1 DEF LinesInv
<1>4. GoodUpTo(line + 1) <=> GoodUpTo(line) /\ GoodLine(line + 1)
  <2>1. 1 .. line + 1 = (1 .. line) \cup {line + 1}
    BY <1>1
  <2> QED
    BY <2>1 DEF GoodUpTo
<1>5. GoodLine(line + 1) <=> /\ Labelled(Current) => HasColon(Current)
                             /\ Labelled(Current) => ~LabelledBy(line, LabelOf(line + 1))
                             /\ GoodStatement(Stmt)
  <2>1. (line + 1) - 1 = line
    BY <1>1
  <2>2. StmtOf(line + 1) = Stmt /\ program[line + 1] = Current
    BY DEF StmtOf, Stmt, Current
  <2> QED
    BY <2>1, <2>2 DEF GoodLine
<1>6. err' = 0 <=> err = 0 /\ Labeling.ok /\ errors = 0 /\ ~(pos' > XIS_MEM_SIZE)
  <2>1. \A b \in {~Labeling.ok, pos' > XIS_MEM_SIZE} : Count(b) \in Nat /\ (Count(b) = 0 <=> ~b)
    BY DEF Count
  <2>2. /\ Count(~Labeling.ok) \in Nat /\ (Count(~Labeling.ok) = 0 <=> Labeling.ok)
        /\ Count(pos' > XIS_MEM_SIZE) \in Nat
        /\ (Count(pos' > XIS_MEM_SIZE) = 0 <=> ~(pos' > XIS_MEM_SIZE))
    BY DEF Count
  <2>3. \A a, b, c, d \in Nat : a + b + c + d = 0 <=> a = 0 /\ b = 0 /\ c = 0 /\ d = 0
    OBVIOUS
  <2> QED
    BY <1>1, <1>2, <2>2, <2>3
<1>7. /\ Labeling.ok <=> (Labelled(Current) => ~LabelledBy(line, LabelOf(line + 1)))
      /\ \A name \in Names : KnownIn(Labeling.table, name) <=> LabelledBy(line + 1, name)
  BY LabelingKnows
<1>8. file.is = "old"
  BY <1>1 DEF LinesInv
<1>9. CASE pos' > XIS_MEM_SIZE
  <2>1. phase' = "relocating" /\ err' # 0 /\ ~(pos' <= XIS_MEM_SIZE)
    BY <1>1, <1>2, <1>6, <1>9, Sizes
  <2> QED
    BY <1>2, <1>8, <2>1 DEF LinesInv
<1>10. CASE ~(pos' > XIS_MEM_SIZE)
  <2>1. phase' = "assembling" /\ pos + advance <= XIS_MEM_SIZE
    BY <1>1, <1>2, <1>10, Sizes
  <2>2. err' = 0 <=> GoodUpTo(line + 1)
    BY <1>3, <1>4, <1>5, <1>6, <1>7, <1>10, <2>1
  <2>3. GoodUpTo(line)' <=> GoodUpTo(line + 1)
    BY <1>2, SourceStays
  <2>4. \A name : LabelledBy(line, name)' <=> LabelledBy(line + 1, name)
    BY <1>2, SourceStays
  <2>5. \A name \in Names : KnownIn(relocs, name)' <=> LabelledBy(line, name)'
    <3>1. \A name \in Names : KnownIn(table, name) <=> LabelledBy(line + 1, name)
      BY <1>7
    <3> QED
      BY <1>2, <2>4, <3>1 DEF KnownIn
  <2> QED
    BY <1>2, <1>8, <2>1, <2>2, <2>3, <2>5 DEF LinesInv
<1> QED
  BY <1>9, <1>10

-----------------------------------------------------------------------------
(* The steps and the lines' errors. *)

\* What a good statement is, by its first token.
LEMMA GoodBlank == GoodStatement(<<>>)
BY DEF GoodStatement, Kind, Is

LEMMA GoodInstruction ==
    ASSUME NEW s, Kind(s, 1) = "INSTRUCTION"
    PROVE  GoodStatement(s) <=> WellFormed(s)
<1>1. s # <<>> /\ ~Is(s, ".literal") /\ ~Is(s, ".words") /\ ~Is(s, ".glob")
  BY DEF Kind, Is
<1> QED
  BY <1>1 DEF GoodStatement

LEMMA GoodLiteral ==
    ASSUME NEW s, Is(s, ".literal")
    PROVE  GoodStatement(s) <=> \/ Kind(s, 2) = "LITERAL"
                                \/ Kind(s, 2) = "INT" /\ Within(s[2].value, -65536, 65535)
<1>1. s # <<>> /\ Kind(s, 1) = "DIRECTIVE" /\ ~Is(s, ".words") /\ ~Is(s, ".glob")
  BY DEF Kind, Is
<1> QED
  BY <1>1 DEF GoodStatement

LEMMA GoodWords ==
    ASSUME NEW s, Is(s, ".words")
    PROVE  GoodStatement(s) <=> Kind(s, 2) = "INT" /\ Within(s[2].value, 1, 32767)
<1>1. s # <<>> /\ Kind(s, 1) = "DIRECTIVE" /\ ~Is(s, ".literal") /\ ~Is(s, ".glob")
  BY DEF Kind, Is
<1> QED
  BY <1>1 DEF GoodStatement

LEMMA GoodGlob ==
    ASSUME NEW s, Is(s, ".glob")
    PROVE  GoodStatement(s) <=> Kind(s, 2) = "LABEL"
<1>1. s # <<>> /\ Kind(s, 1) = "DIRECTIVE" /\ ~Is(s, ".literal") /\ ~Is(s, ".words")
  BY DEF Kind, Is
<1> QED
  BY <1>1 DEF GoodStatement

LEMMA GoodOther ==
    ASSUME NEW s, s # <<>>, Kind(s, 1) \notin {"INSTRUCTION", "DIRECTIVE"}
    PROVE  ~GoodStatement(s)
<1>1. ~Is(s, ".literal") /\ ~Is(s, ".words") /\ ~Is(s, ".glob")
  BY DEF Is
<1> QED
  BY <1>1 DEF GoodStatement

\* A label operand is never refused, and gives its symbol a relocation.
TakesReloc(s)    == TakesLabel(s[1].value) /\ Kind(s, 2) = "LABEL"
RelocFor(s, loc) == IF Extended(s[1].value) THEN RelocAt(loc + 2, 16, XRELOC_ABSOLUTE)
                    ELSE RelocAt(loc, 8, XRELOC_RELATIVE)

LEMMA OperandRelocNamed ==
    ASSUME XasIInv, Reading, NEW t \in TableSet, NEW u, u = OperandReloc(t, Stmt)
    PROVE  /\ \A name : Has(u.table, name)
                           <=> Has(t, name) \/ (TakesReloc(Stmt) /\ name = Stmt[2].value)
           /\ \A name : Named(u.table, name) =
                            IF TakesReloc(Stmt) /\ name = Stmt[2].value
                            THEN WithReloc(Named(t, name), RelocFor(Stmt, pos))
                            ELSE Named(t, name)
<1>1. /\ program \in Programs /\ line \in Nat /\ line < Len(program)
      /\ pos \in 0 .. XIS_MEM_SIZE /\ pos % 2 = 0
  BY ReadingState
<1>2. CASE ~TakesReloc(Stmt)
  BY <1>2 DEF OperandReloc, TakesReloc
<1>3. CASE TakesReloc(Stmt)
  <2>1. PICK target \in Names : target = Stmt[2].value
    BY <1>1, <1>3, StmtTokens, TokenOfKind DEF TakesReloc
  <2>2. PICK behind : behind = pos + 2
    OBVIOUS
  <2>3. /\ pos \in CodeLoc /\ behind \in CodeLoc
        /\ 8 \in {8, 16} /\ 16 \in {8, 16}
        /\ XRELOC_ABSOLUTE \in {XRELOC_ABSOLUTE, XRELOC_RELATIVE}
        /\ XRELOC_RELATIVE \in {XRELOC_ABSOLUTE, XRELOC_RELATIVE}
    BY <1>1, <2>2, EvenIsCode
  <2>4. \A name :
          LET v == xreloc_reloc(t, behind, 16, target, XRELOC_ABSOLUTE)
          IN  /\ Has(v.table, name) <=> Has(t, name) \/ name = target
              /\ Named(v.table, name) =
                     IF name = target
                     THEN WithReloc(Named(t, target), RelocAt(behind, 16, XRELOC_ABSOLUTE))
                     ELSE Named(t, name)
    BY ONLY t \in TableSet, target \in Names, <2>3, XrelocRelocNamed
  <2>5. \A name :
          LET v == xreloc_reloc(t, pos, 8, target, XRELOC_RELATIVE)
          IN  /\ Has(v.table, name) <=> Has(t, name) \/ name = target
              /\ Named(v.table, name) =
                     IF name = target
                     THEN WithReloc(Named(t, target), RelocAt(pos, 8, XRELOC_RELATIVE))
                     ELSE Named(t, name)
    BY ONLY t \in TableSet, target \in Names, <2>3, XrelocRelocNamed
  <2>6. u = IF Extended(Stmt[1].value)
            THEN xreloc_reloc(t, behind, 16, target, XRELOC_ABSOLUTE)
            ELSE xreloc_reloc(t, pos, 8, target, XRELOC_RELATIVE)
    BY <1>3, <2>1, <2>2 DEF OperandReloc, TakesReloc
  <2> QED
    BY <1>3, <2>1, <2>2, <2>4, <2>5, <2>6 DEF RelocFor
<1> QED
  BY <1>2, <1>3

\* It defines nothing.
LEMMA OperandRelocKnows ==
    ASSUME XasIInv, Reading, NEW t \in TableSet
    PROVE  /\ OperandReloc(t, Stmt).ok = TRUE
           /\ \A name \in Names : KnownIn(OperandReloc(t, Stmt).table, name) <=> KnownIn(t, name)
<1>1. PICK u : u = OperandReloc(t, Stmt)
  OBVIOUS
<1>2. \A name \in Names : \A r : WithReloc(Named(t, name), r).loc = Named(t, name).loc
  BY NamedType DEF WithReloc, SymbolSet
<1>3. OperandReloc(t, Stmt).ok = TRUE
  <2>1. /\ program \in Programs /\ line \in Nat /\ line < Len(program)
        /\ pos \in 0 .. XIS_MEM_SIZE /\ pos % 2 = 0
    BY ReadingState
  <2>2. pos # INV_ADDR /\ pos + 2 # INV_ADDR
    BY <2>1, EvenIsCode, CodeIsNotInvalid
  <2> QED
    BY <2>2 DEF OperandReloc, xreloc_reloc
<1>4. \A name : Named(u.table, name) = IF TakesReloc(Stmt) /\ name = Stmt[2].value
                                       THEN WithReloc(Named(t, name), RelocFor(Stmt, pos))
                                       ELSE Named(t, name)
  BY <1>1, OperandRelocNamed
<1> QED
  BY <1>1, <1>2, <1>3, <1>4 DEF KnownIn

LEMMA InstructionCounts ==
    ASSUME XasIInv, LinesInv, Instruction
    PROVE  LinesInv'
<1> DEFINE reloc == OperandReloc(Labeling.table, Stmt)
<1>1. /\ Reading /\ Kind(Stmt, 1) = "INSTRUCTION"
      /\ Labelled(Current) => HasColon(Current)
  BY DEF Instruction, Parsed
<1>2. GoodStatement(Stmt) <=> WellFormed(Stmt)
  BY <1>1, GoodInstruction
<1>3. /\ reloc.ok = TRUE
      /\ \A name \in Names : KnownIn(reloc.table, name) <=> KnownIn(Labeling.table, name)
  BY <1>1, LabelingType, OperandRelocKnows
<1>4. IF WellFormed(Stmt)
      THEN Line(Encode(Stmt), Len(Encode(Stmt)), Count(~reloc.ok), reloc.table)
      ELSE Line(<<>>, 0, Count(~reloc.ok) + 1, reloc.table)
  BY DEF Instruction
<1> HIDE DEF reloc
<1>5. Count(~reloc.ok) = 0
  BY <1>3 DEF Count
<1>6. CASE WellFormed(Stmt)
  <2>1. Line(Encode(Stmt), Len(Encode(Stmt)), 0, reloc.table)
    BY <1>4, <1>5, <1>6
  <2>2. Len(Stmt) \in Nat /\ \A j \in 1 .. Len(Stmt) : SourceToken(Stmt[j])
    BY <1>1, ReadingState, StmtTokens
  <2>3. Len(Encode(Stmt)) \in Int
    BY <1>1, <1>6, <2>2, EncodeType
  <2> QED
    BY <1>1, <1>2, <1>3, <1>6, <2>1, <2>3, LineCounts
<1>7. CASE ~WellFormed(Stmt)
  <2>1. Line(<<>>, 0, 1, reloc.table)
    BY <1>4, <1>5, <1>7
  <2> QED
    BY <1>1, <1>2, <1>3, <1>7, <2>1, LineCounts
<1> QED
  BY <1>6, <1>7

LEMMA LiteralCounts ==
    ASSUME XasIInv, LinesInv, LiteralString \/ LiteralInt
    PROVE  LinesInv'
<1> DEFINE v == Stmt[2].value
           t == Labeling.table
<1>1. /\ Reading /\ Is(Stmt, ".literal") /\ Kind(Stmt, 2) \in {"LITERAL", "INT"}
      /\ Labelled(Current) => HasColon(Current)
  BY DEF LiteralString, LiteralInt, Parsed
<1>2. GoodStatement(Stmt) <=> \/ Kind(Stmt, 2) = "LITERAL"
                              \/ Kind(Stmt, 2) = "INT" /\ Within(v, -65536, 65535)
  BY <1>1, GoodLiteral
<1>3. program \in Programs /\ line \in Nat /\ line < Len(program)
  BY <1>1, ReadingState
<1>4. CASE LiteralString
  <2>1. /\ Line(v \o <<0>>, StringAdvance(Len(v) + 1), 0, t)
        /\ Kind(Stmt, 2) = "LITERAL"
    BY <1>4 DEF LiteralString
  <2>2. Len(v) \in Nat
    BY <1>3, <2>1, StmtTokens, TokenOfKind DEF IsText
  <2> HIDE DEF v, t
  <2>3. StringAdvance(Len(v) + 1) \in Int
    BY <2>2 DEF StringAdvance
  <2> QED
    BY <1>1, <1>2, <2>1, <2>3, LineCounts DEF t
<1>5. CASE LiteralInt
  <2>1. Kind(Stmt, 2) = "INT" /\ v \in Int
    BY <1>3, <1>5, StmtTokens, TokenOfKind DEF LiteralInt
  <2>2. CASE v < -65536 \/ v > 65535
    <3>1. Line(<<>>, 0, 1, t)
      BY <1>5, <2>2 DEF LiteralInt
    <3>2. ~GoodStatement(Stmt)
      BY <1>2, <2>1, <2>2 DEF Within
    <3> QED
      BY <1>1, <3>1, <3>2, LineCounts
  <2>3. CASE ~(v < -65536 \/ v > 65535)
    <3>1. Line(<<Hi(v), Lo(v)>>, 2, 0, t)
      BY <1>5, <2>3 DEF LiteralInt
    <3>2. GoodStatement(Stmt)
      BY <1>2, <2>1, <2>3 DEF Within
    <3> HIDE DEF v, t
    <3> QED
      BY <1>1, <3>1, <3>2, LineCounts DEF t
  <2> QED
    BY <2>2, <2>3
<1> QED
  BY <1>4, <1>5

\* A count that passes the check of its low 16 bits and is not between 1 and 32767 takes
\* pos behind the memory.
LEMMA WordsCount ==
    ASSUME NoNegativeWords, XasIInv, LinesInv, Words
    PROVE  LinesInv'
<1> DEFINE v == Stmt[2].value
           t == Labeling.table
<1>1. Reading /\ Is(Stmt, ".words") /\ (Labelled(Current) => HasColon(Current))
  BY DEF Words, Parsed
<1>2. GoodStatement(Stmt) <=> Kind(Stmt, 2) = "INT" /\ Within(v, 1, 32767)
  BY <1>1, GoodWords
<1>3. program \in Programs /\ line \in Nat /\ line < Len(program) /\ pos \in Nat
  BY <1>1, ReadingState
<1>4. CASE Kind(Stmt, 2) # "INT" \/ Short(v) < 1
  <2>1. Line(<<>>, 0, 1, t)
    BY <1>4 DEF Words
  <2>2. \A n \in Int : Within(n, 1, 32767) => Short(n) = n
    <3>1. \A n \in Int : 1 <= n /\ n <= 32767 => ((n + 32768) % 65536) - 32768 = n
      OBVIOUS
    <3> QED
      BY <3>1 DEF Short, WordSize, Within
  <2>3. ~GoodStatement(Stmt)
    <3>1. SUFFICES ASSUME Kind(Stmt, 2) = "INT", Within(v, 1, 32767)
                   PROVE  FALSE
      BY <1>2
    <3>2. v \in Int
      BY <1>3, <3>1, StmtTokens, TokenOfKind
    <3>3. Short(v) = v
      BY <2>2, <3>1, <3>2
    <3> HIDE DEF v
    <3> QED
      BY <1>4, <3>1, <3>2, <3>3 DEF Within
  <2> QED
    BY <1>1, <2>1, <2>3, LineCounts
<1>5. CASE ~(Kind(Stmt, 2) # "INT" \/ Short(v) < 1)
  <2>1. Line(<<>>, 2 * v, 0, t)
    BY <1>5 DEF Words
  <2>2. v \in Int
    BY <1>3, <1>5, StmtTokens, TokenOfKind
  <2>3. line + 1 \in DOMAIN program
    BY <1>3, ProgramsAssumption
  <2>4. v >= 0
    BY <1>1, <1>3, <1>5, <2>3 DEF NoNegativeWords, Stmt, Current
  <2>5. ASSUME pos + 2 * v <= XIS_MEM_SIZE
        PROVE  Within(v, 1, 32767)
    <3>1. v <= 32768
      BY <1>3, <2>2, <2>5 DEF XIS_MEM_SIZE
    <3>2. ~(((v + 32768) % 65536) - 32768 < 1)
      BY <1>5 DEF Short, WordSize
    <3> HIDE DEF v
    <3>3. v # 32768 /\ v # 0
      <4>1. (32768 + 32768) % 65536 = 0 /\ (0 + 32768) % 65536 = 32768
        OBVIOUS
      <4> QED
        BY <3>2, <4>1
    <3> QED
      BY <2>2, <2>4, <3>1, <3>3 DEF Within
  <2>6. 2 * v \in Int
    BY <2>2
  <2> HIDE DEF v, t
  <2> QED
    BY <1>1, <1>2, <1>5, <2>1, <2>5, <2>6, LineCounts DEF t
<1> QED
  BY <1>4, <1>5

LEMMA GlobCounts ==
    ASSUME XasIInv, LinesInv, Glob
    PROVE  LinesInv'
<1> DEFINE t == Labeling.table
<1>1. Reading /\ Is(Stmt, ".glob") /\ (Labelled(Current) => HasColon(Current))
  BY DEF Glob, Parsed
<1>2. GoodStatement(Stmt) <=> Kind(Stmt, 2) = "LABEL"
  BY <1>1, GoodGlob
<1>3. CASE Kind(Stmt, 2) # "LABEL"
  <2>1. Line(<<>>, 0, 1, t)
    BY <1>3 DEF Glob
  <2> QED
    BY <1>1, <1>2, <1>3, <2>1, LineCounts
<1>4. CASE Kind(Stmt, 2) = "LABEL"
  <2>1. Line(<<>>, 0, 0, xreloc_global(t, Stmt[2].value))
    BY <1>4 DEF Glob
  <2>2. Stmt[2].value \in Names
    BY <1>1, <1>4, ReadingState, StmtTokens, TokenOfKind
  <2>3. \A name : KnownIn(xreloc_global(t, Stmt[2].value), name) <=> KnownIn(t, name)
    <3> SUFFICES ASSUME NEW name
                 PROVE  KnownIn(xreloc_global(t, Stmt[2].value), name) <=> KnownIn(t, name)
      OBVIOUS
    <3> DEFINE old == Named(t, Stmt[2].value)
               new == MadeGlobal(old)
    <3>1. t \in TableSet
      BY <1>1, LabelingType
    <3>2. new.loc = old.loc
      BY <2>2, <3>1, NamedType DEF SymbolSet, MadeGlobal
    <3>3. Named(xreloc_global(t, Stmt[2].value), name) =
              IF name = Stmt[2].value THEN new ELSE Named(t, name)
      BY <2>2, <3>1, XrelocGlobalNamed
    <3> HIDE DEF new
    <3> QED
      BY <3>2, <3>3 DEF KnownIn
  <2> QED
    BY <1>1, <1>2, <1>4, <2>1, <2>3, LineCounts
<1> QED
  BY <1>3, <1>4

LEMMA OtherLinesCount ==
    ASSUME XasIInv, LinesInv, MissingColon \/ Blank \/ BadStatement
    PROVE  LinesInv'
<1>1. CASE MissingColon
  <2>1. /\ Reading /\ Line(<<>>, 0, 1, Labeling.table)
        /\ ~(Labelled(Current) => HasColon(Current))
    BY <1>1 DEF MissingColon
  <2> QED
    BY <2>1, LineCounts
<1>2. CASE Blank
  <2>1. /\ Reading /\ Line(<<>>, 0, 0, Labeling.table) /\ Stmt = <<>>
        /\ Labelled(Current) => HasColon(Current)
    BY <1>2 DEF Blank, Parsed
  <2>2. GoodStatement(Stmt)
    BY <2>1, GoodBlank
  <2> QED
    BY <2>1, <2>2, LineCounts
<1>3. CASE BadStatement
  <2>1. /\ Reading /\ Line(<<>>, 0, 1, Labeling.table)
        /\ Stmt # <<>> /\ Kind(Stmt, 1) # "INSTRUCTION"
        /\ \/ Kind(Stmt, 1) # "DIRECTIVE"
           \/ Is(Stmt, ".literal") /\ Kind(Stmt, 2) \notin {"LITERAL", "INT"}
    BY <1>3 DEF BadStatement, Parsed
  <2>2. ~GoodStatement(Stmt)
    BY <2>1, GoodLiteral, GoodOther
  <2> QED
    BY <2>1, <2>2, LineCounts
<1> QED
  BY <1>1, <1>2, <1>3

\* After the last line errors are only added, and without one there is a new file or none.
LEMMA EndCounts ==
    ASSUME XasIInv, LinesInv,
           \/ EndOfFile \/ Relocate \/ StoreTable \/ ReportErrors \/ OpenFails \/ WriteFails
           \/ WriteFile \/ Done \/ UNCHANGED vars
    PROVE  LinesInv'
<1>1. program' = program /\ err \in Nat
  BY DEF EndOfFile, Relocate, StoreTable, ReportErrors, OpenFails, WriteFails, WriteFile, Done,
         Exit, vars, XasIInv
<1>2. GoodUpTo(Len(program))' <=> GoodUpTo(Len(program))
  BY <1>1, SourceStays
<1>3. CASE EndOfFile
  <2>1. /\ phase = "assembling" /\ line = Len(program) /\ phase' = "relocating"
        /\ err' = err /\ file' = file /\ pos' = pos
    BY <1>3 DEF EndOfFile
  <2>2. pos <= XIS_MEM_SIZE
    BY <2>1, Sizes DEF XasIInv
  <2> QED
    BY <1>2, <2>1, <2>2 DEF LinesInv
<1>4. CASE Relocate
  <2>1. PICK n \in Nat : err' = err + n
    <3>1. \A b : Count(b) \in Nat
      BY DEF Count
    <3> QED
      BY <1>4, <3>1 DEF Relocate
  <2>2. phase = "relocating" /\ phase' = "storing" /\ file' = file
    BY <1>4 DEF Relocate
  <2>3. err' = 0 => err = 0
    BY <1>1, <2>1
  <2> QED
    BY <1>2, <2>2, <2>3 DEF LinesInv
<1>5. CASE StoreTable
  <2>1. PICK n \in Nat, m \in Nat : err' = err + n + m
    <3>1. \A b : Count(b) \in Nat
      BY DEF Count
    <3> QED
      BY <1>5, <3>1 DEF StoreTable
  <2>2. phase = "storing" /\ phase' = "reporting" /\ file' = file
    BY <1>5 DEF StoreTable
  <2>3. err' = 0 => err = 0
    BY <1>1, <2>1
  <2> QED
    BY <1>2, <2>2, <2>3 DEF LinesInv
<1>6. CASE ReportErrors \/ OpenFails \/ WriteFails \/ WriteFile
  <2>1. phase = "reporting" /\ phase' = "exited" /\ err' = err /\ (file' = file \/ err = 0)
    BY <1>6 DEF ReportErrors, OpenFails, WriteFails, WriteFile, Exit
  <2> QED
    BY <1>2, <2>1 DEF LinesInv
<1>7. CASE Done \/ UNCHANGED vars
  <2>1. /\ phase' = phase /\ err' = err /\ file' = file /\ line' = line /\ pos' = pos
        /\ relocs' = relocs
    BY <1>7 DEF Done, vars
  <2>2. GoodUpTo(line)' <=> GoodUpTo(line)
    BY <1>1, <2>1, SourceStays
  <2>3. \A name : LabelledBy(line, name)' <=> LabelledBy(line, name)
    BY <1>1, <2>1, SourceStays
  <2>4. \A name : KnownIn(relocs, name)' <=> KnownIn(relocs, name)
    BY <2>1 DEF KnownIn
  <2> QED
    BY <1>2, <2>1, <2>2, <2>3, <2>4 DEF LinesInv
<1> QED
  BY <1>3, <1>4, <1>5, <1>6, <1>7

LEMMA LinesInit == Init => LinesInv
<1> SUFFICES ASSUME Init
             PROVE  LinesInv
  OBVIOUS
<1>1. phase = "assembling" /\ err = 0 /\ line = 0 /\ file.is = "old" /\ relocs = EmptyTable
  BY DEF Init
<1>2. 1 .. 0 = {}
  OBVIOUS
<1>3. GoodUpTo(line) /\ \A name : ~LabelledBy(line, name)
  BY <1>1, <1>2 DEF GoodUpTo, LabelledBy
<1>4. \A name : ~KnownIn(relocs, name)
  <2>1. \A name : ~Has(relocs, name)
    BY <1>1 DEF Has, EmptyTable
  <2> QED
    BY <2>1 DEF KnownIn, Named, NewSymbol
<1> QED
  BY <1>1, <1>3, <1>4 DEF LinesInv

LEMMA LinesInvariant ==
    ASSUME NoNegativeWords
    PROVE  Spec => [](XasIInv /\ LinesInv)
<1>1. XasIInv /\ LinesInv /\ [Next]_vars => LinesInv'
  <2> SUFFICES ASSUME XasIInv, LinesInv, [Next]_vars
               PROVE  LinesInv'
    OBVIOUS
  <2>1. CASE MissingColon \/ Blank \/ BadStatement
    BY <2>1, OtherLinesCount
  <2>2. CASE Instruction
    BY <2>2, InstructionCounts
  <2>3. CASE LiteralString \/ LiteralInt
    BY <2>3, LiteralCounts
  <2>4. CASE Words
    BY <2>4, WordsCount
  <2>5. CASE Glob
    BY <2>5, GlobCounts
  <2>6. CASE \/ EndOfFile \/ Relocate \/ StoreTable \/ ReportErrors \/ OpenFails \/ WriteFails
             \/ WriteFile \/ Done \/ UNCHANGED vars
    BY <2>6, EndCounts
  <2> QED
    BY <2>1, <2>2, <2>3, <2>4, <2>5, <2>6 DEF Next
<1>2. Spec => []XasIInv
  BY XasInvariant
<1> QED
  BY <1>1, <1>2, LinesInit, PTL DEF Spec

-----------------------------------------------------------------------------
(* Sums over finite sets. *)

\* Induction over the subsets of a finite set.
LEMMA SmallSets ==
    ASSUME NEW A, IsFiniteSet(A), NEW G \in SUBSET (SUBSET A), {} \in G,
           \A T \in SUBSET A : T # {} /\ (\A x \in T : T \ {x} \in G) => T \in G
    PROVE  G = SUBSET A
<1> DEFINE Good == {n \in Nat : \A T \in SUBSET A : Cardinality(T) <= n => T \in G}
<1>1. \A T \in SUBSET A : IsFiniteSet(T) /\ Cardinality(T) \in Nat
  BY FS_Subset, FS_CardinalityType
<1>2. 0 \in Good
  <2>1. \A T \in SUBSET A : Cardinality(T) <= 0 => T = {}
    BY <1>1, FS_EmptySet
  <2> QED
    BY <2>1
<1>3. ASSUME NEW n \in Good
      PROVE  n + 1 \in Good
  <2> SUFFICES ASSUME NEW T \in SUBSET A, Cardinality(T) <= n + 1
               PROVE  T \in G
    OBVIOUS
  <2>1. ASSUME NEW x \in T
        PROVE  T \ {x} \in G
    <3>1. Cardinality(T \ {x}) = Cardinality(T) - 1
      BY <1>1, FS_RemoveElement
    <3>2. T \ {x} \in SUBSET A /\ Cardinality(T \ {x}) <= n
      BY <1>1, <3>1
    <3> QED
      BY <3>2
  <2> QED
    BY <2>1
<1>4. Good = Nat
  <2>1. Good \in SUBSET Nat
    OBVIOUS
  <2> HIDE DEF Good
  <2> QED
    BY <1>2, <1>3, <2>1, AllNumbers
<1> QED
  BY <1>1, <1>4

\* g is the sum of f over the subsets of A, whatever element is taken out first.
SumsTo(f, A, g) ==
    /\ g \in [SUBSET A -> Nat] /\ g[{}] = 0
    /\ \A T \in SUBSET A : \A x \in T : g[T] = f[x] + g[T \ {x}]

\* The fold that MapThenSumSet is takes the elements in the order of CHOOSE.
SumFold(f, A, g) ==
    g = [T \in SUBSET A |-> IF T = {} THEN 0
                            ELSE f[CHOOSE x \in T : TRUE] + g[T \ {CHOOSE x \in T : TRUE}]]

LEMMA SumFoldExists ==
    ASSUME NEW A, IsFiniteSet(A), NEW f \in [A -> Nat]
    PROVE  \E g : SumFold(f, A, g)
<1> DEFINE c == [T \in SUBSET A |-> CHOOSE x \in T : TRUE]
           F == [p \in A \X Nat |-> f[p[1]] + p[2]]
<1>1. Choice(A, c)
  BY DEF Choice
<1>2. F \in [A \X Nat -> Nat]
  OBVIOUS
<1>3. PICK g \in [SUBSET A -> Nat] : Fold(A, c, 0, F, g)
  BY <1>1, <1>2, FoldExists
<1>4. ASSUME NEW T \in SUBSET A, T # {}
      PROVE  g[T] = f[CHOOSE x \in T : TRUE] + g[T \ {CHOOSE x \in T : TRUE}]
  <2>1. c[T] = (CHOOSE x \in T : TRUE) /\ c[T] \in A /\ g[T \ {c[T]}] \in Nat
    BY <1>1, <1>4 DEF Choice
  <2>2. g[T] = F[<<c[T], g[T \ {c[T]}]>>]
    BY <1>3, <1>4 DEF Fold
  <2> HIDE DEF c
  <2>3. F[<<c[T], g[T \ {c[T]}]>>] = f[c[T]] + g[T \ {c[T]}]
    BY <2>1
  <2> QED
    BY <2>1, <2>2, <2>3
<1>5. g[{}] = 0
  BY <1>3 DEF Fold
<1>6. \A T \in SUBSET A :
        g[T] = IF T = {} THEN 0
               ELSE f[CHOOSE x \in T : TRUE] + g[T \ {CHOOSE x \in T : TRUE}]
  BY <1>4, <1>5
<1>7. g \in [SUBSET A -> Nat]
  OBVIOUS
<1> HIDE DEF c, F
<1>8. SumFold(f, A, g)
  BY ONLY <1>6, <1>7 DEF SumFold
<1> QED
  BY <1>8

LEMMA SumFoldSums ==
    ASSUME NEW A, IsFiniteSet(A), NEW f \in [A -> Nat], NEW g, SumFold(f, A, g)
    PROVE  SumsTo(f, A, g)
<1> DEFINE c(T) == CHOOSE x \in T : TRUE
<1>1. \A T \in SUBSET A : T # {} => c(T) \in T
  OBVIOUS
<1>2. g[{}] = 0 /\ \A T \in SUBSET A : T # {} => g[T] = f[c(T)] + g[T \ {c(T)}]
  BY DEF SumFold
<1>3. g = [T \in SUBSET A |-> g[T]]
  BY DEF SumFold
<1> HIDE DEF c
<1>4. \A T \in SUBSET A : g[T] \in Nat
  <2> DEFINE G == {T \in SUBSET A : g[T] \in Nat}
  <2>1. {} \in G
    BY <1>2
  <2>2. ASSUME NEW T \in SUBSET A, T # {}, \A x \in T : T \ {x} \in G
        PROVE  T \in G
    <3>1. c(T) \in A /\ g[T \ {c(T)}] \in Nat /\ f[c(T)] \in Nat
      BY <1>1, <2>2
    <3> QED
      BY <1>2, <2>2, <3>1
  <2>3. G \in SUBSET (SUBSET A)
    OBVIOUS
  <2> HIDE DEF G
  <2>4. G = SUBSET A
    BY <2>1, <2>2, <2>3, SmallSets
  <2> QED
    BY <2>4 DEF G
<1>5. \A T \in SUBSET A : \A x \in T : g[T] = f[x] + g[T \ {x}]
  <2> DEFINE G == {T \in SUBSET A : \A x \in T : g[T] = f[x] + g[T \ {x}]}
  <2>1. {} \in G
    OBVIOUS
  <2>2. ASSUME NEW T \in SUBSET A, T # {}, \A x \in T : T \ {x} \in G
        PROVE  T \in G
    <3> SUFFICES ASSUME NEW x \in T
                 PROVE  g[T] = f[x] + g[T \ {x}]
      OBVIOUS
    <3> DEFINE y == c(T)
    <3>1. y \in T /\ g[T] = f[y] + g[T \ {y}]
      BY <1>1, <1>2, <2>2
    <3> HIDE DEF y
    <3>2. CASE x = y
      BY <3>1, <3>2
    <3>3. CASE x # y
      <4>1. g[T \ {y}] = f[x] + g[(T \ {y}) \ {x}]
        BY <2>2, <3>1, <3>3
      <4>2. g[T \ {x}] = f[y] + g[(T \ {x}) \ {y}]
        BY <2>2, <3>1, <3>3
      <4>3. (T \ {y}) \ {x} = (T \ {x}) \ {y}
        OBVIOUS
      <4>4. PICK w \in Nat : w = g[(T \ {x}) \ {y}]
        BY <1>4
      <4>5. f[x] \in Nat /\ f[y] \in Nat
        BY <3>1
      <4>6. g[T \ {y}] = f[x] + w /\ g[T \ {x}] = f[y] + w
        BY <4>1, <4>2, <4>3, <4>4
      <4>7. f[y] + (f[x] + w) = f[x] + (f[y] + w)
        BY <4>4, <4>5
      <4> QED
        BY <3>1, <4>6, <4>7
    <3> QED
      BY <3>2, <3>3
  <2>3. G \in SUBSET (SUBSET A)
    OBVIOUS
  <2> HIDE DEF G
  <2>4. G = SUBSET A
    BY <2>1, <2>2, <2>3, SmallSets
  <2> QED
    BY <2>4 DEF G
<1> QED
  BY <1>2, <1>3, <1>4, <1>5 DEF SumsTo

\* Sums of the same numbers are the same.
LEMMA SumsAgree ==
    ASSUME NEW A, IsFiniteSet(A), NEW B, A \subseteq B, NEW f, NEW h, \A x \in A : f[x] = h[x],
           NEW g, SumsTo(f, A, g), NEW k, SumsTo(h, B, k)
    PROVE  g[A] = k[A]
<1> DEFINE G == {T \in SUBSET A : g[T] = k[T]}
<1>1. {} \in G
  BY DEF SumsTo
<1>2. ASSUME NEW T \in SUBSET A, T # {}, \A x \in T : T \ {x} \in G
      PROVE  T \in G
  <2>1. PICK x \in T : TRUE
    BY <1>2
  <2>2. g[T] = f[x] + g[T \ {x}] /\ k[T] = h[x] + k[T \ {x}]
    BY DEF SumsTo
  <2> QED
    BY <1>2, <2>2
<1>3. G \in SUBSET (SUBSET A)
  OBVIOUS
<1> HIDE DEF G
<1>4. G = SUBSET A
  BY <1>1, <1>2, <1>3, SmallSets
<1> QED
  BY <1>4 DEF G

\* A part of the elements sums to no more.
LEMMA SumsGrow ==
    ASSUME NEW A, IsFiniteSet(A), NEW f \in [A -> Nat], NEW g, SumsTo(f, A, g),
           NEW S \in SUBSET A
    PROVE  g[S] <= g[A]
<1> DEFINE G == {T \in SUBSET A : g[S] <= g[S \cup T]}
<1>1. \A T \in SUBSET A : g[T] \in Nat
  BY DEF SumsTo
<1>2. {} \in G
  <2>1. S \cup {} = S /\ g[S] <= g[S]
    BY <1>1
  <2> QED
    BY <2>1
<1>3. ASSUME NEW T \in SUBSET A, T # {}, \A x \in T : T \ {x} \in G
      PROVE  T \in G
  <2>1. PICK x \in T : TRUE
    BY <1>3
  <2>2. CASE x \in S
    <3>1. S \cup T = S \cup (T \ {x})
      BY <2>2
    <3>2. T \ {x} \in G
      BY <1>3
    <3>3. g[S] <= g[S \cup (T \ {x})]
      BY <3>2
    <3> QED
      BY <3>1, <3>3
  <2>3. CASE x \notin S
    <3>1. (S \cup T) \ {x} = S \cup (T \ {x}) /\ x \in S \cup T
      BY <2>1, <2>3
    <3>2. g[S \cup T] = f[x] + g[S \cup (T \ {x})]
      BY <3>1 DEF SumsTo
    <3>3. g[S] <= g[S \cup (T \ {x})]
      BY <1>3
    <3>4. f[x] \in Nat /\ g[S] \in Nat /\ g[S \cup (T \ {x})] \in Nat
      BY <1>1
    <3>5. g[S] <= g[S \cup T]
      BY <3>2, <3>3, <3>4
    <3> QED
      BY <3>5
  <2> QED
    BY <2>2, <2>3
<1>4. G \in SUBSET (SUBSET A)
  OBVIOUS
<1> HIDE DEF G
<1>5. G = SUBSET A
  BY <1>2, <1>3, <1>4, SmallSets
<1>6. S \cup A = A
  OBVIOUS
<1> QED
  BY <1>5, <1>6 DEF G

-----------------------------------------------------------------------------
(* The addresses of the lines. *)

\* The tokens of a line of the program and of its statement.
LEMMA TokensOfLine ==
    ASSUME program \in Programs, NEW i \in 1 .. Len(program)
    PROVE  /\ Len(StmtOf(i)) \in Nat
           /\ \A j \in 1 .. Len(StmtOf(i)) : SourceToken(StmtOf(i)[j])
           /\ Labelled(program[i]) => LabelOf(i) \in Names
<1> DEFINE cur == program[i]
           T == UNION {{cur[j]} : j \in DOMAIN cur}
<1>1. program \in Seq(UNION {{program[k]} : k \in DOMAIN program})
  BY ProgramsAssumption
<1>2. i \in DOMAIN program
  BY <1>1
<1>3. ASSUME NEW j \in DOMAIN cur
      PROVE  SourceToken(cur[j])
  <2>1. IsToken(cur[j])
    BY <1>2, ProgramsAssumption
  <2>2. ASSUME cur[j].kind = "LABEL"
        PROVE  cur[j].value \in Names
    <3>1. cur[j].value \in Seq(Byte)
      BY <2>1, <2>2 DEF IsToken, IsText
    <3>2. \E p \in Programs : \E l \in DOMAIN p : \E k \in DOMAIN p[l] :
              p[l][k].kind = "LABEL" /\ p[l][k].value = cur[j].value
      BY <1>2, <2>2
    <3> QED
      BY <3>1, <3>2 DEF Names
  <2> QED
    BY <2>1, <2>2 DEF SourceToken
<1>4. cur \in Seq(T)
  BY <1>2, ProgramsAssumption
<1>5. StmtOf(i) = Statement(cur) /\ LabelOf(i) = cur[1].value
  BY DEF StmtOf, LabelOf
<1> HIDE DEF cur
<1>6. Len(cur) \in Nat /\ \A j \in 1 .. Len(cur) : SourceToken(cur[j])
  BY <1>3, <1>4
<1>7. CASE Labelled(cur)
  <2>1. StmtOf(i) = SubSeq(cur, 3, Len(cur))
    BY <1>5, <1>7 DEF Statement
  <2>2. CASE Len(cur) < 3
    <3>1. StmtOf(i) = <<>>
      BY <1>4, <2>1, <2>2
    <3>2. LabelOf(i) \in Names
      BY <1>5, <1>6, <1>7, TokenOfKind DEF Labelled
    <3> QED
      BY <3>1, <3>2
  <2>3. CASE Len(cur) >= 3
    <3>1. /\ Len(StmtOf(i)) = Len(cur) - 2
          /\ \A j \in 1 .. Len(StmtOf(i)) : StmtOf(i)[j] = cur[j + 2]
      BY <1>4, <2>1, <2>3
    <3>2. ASSUME NEW j \in 1 .. Len(StmtOf(i))
          PROVE  SourceToken(StmtOf(i)[j])
      <4>1. j + 2 \in 1 .. Len(cur)
        BY <1>6, <2>3, <3>1
      <4> QED
        BY <1>6, <3>1, <4>1
    <3>3. LabelOf(i) \in Names
      BY <1>5, <1>6, <1>7, TokenOfKind DEF Labelled
    <3>4. Len(StmtOf(i)) \in Nat
      BY <1>6, <2>3, <3>1
    <3> QED
      BY <3>2, <3>3, <3>4
  <2> QED
    BY <1>6, <2>2, <2>3
<1>8. CASE ~Labelled(cur)
  <2>1. StmtOf(i) = cur
    BY <1>5, <1>8 DEF Statement
  <2> QED
    BY <1>6, <1>8, <2>1 DEF cur
<1> QED
  BY <1>7, <1>8

\* A good line has a length.
LEMMA LengthType ==
    ASSUME program \in Programs, NEW i \in 1 .. Len(program), GoodLine(i)
    PROVE  Length(i) \in Nat
<1>1. PICK s : s = StmtOf(i)
  OBVIOUS
<1>2. /\ Kind(s, 2) = "LITERAL" => IsText(s[2].value)
      /\ Kind(s, 2) = "INT" => s[2].value \in Int
  <2>1. Len(s) \in Nat /\ \A j \in 1 .. Len(s) : SourceToken(s[j])
    BY <1>1, TokensOfLine
  <2> QED
    BY <2>1, TokenOfKind
<1>3. GoodStatement(s)
  BY <1>1 DEF GoodLine
<1>4. \A d : Is(s, d) => Kind(s, 1) = "DIRECTIVE" /\ s[1].value = d
  BY DEF Is
<1>5. CASE Kind(s, 1) = "INSTRUCTION"
  <2>1. \A d : ~Is(s, d)
    BY <1>4, <1>5
  <2>2. Length(i) = IF Extended(s[1].value) THEN 4 ELSE 2
    BY <1>1, <1>5, <2>1 DEF Length
  <2> QED
    BY <2>2
<1>6. CASE Is(s, ".words")
  <2>1. PICK v \in Nat : v = s[2].value
    <3>1. Kind(s, 2) = "INT" /\ Within(s[2].value, 1, 32767)
      BY <1>3, <1>6, GoodWords
    <3>2. s[2].value \in Int
      BY <1>2, <3>1
    <3> QED
      BY <3>1, <3>2 DEF Within
  <2>2. Kind(s, 1) = "DIRECTIVE" /\ ~Is(s, ".literal")
    BY <1>4, <1>6
  <2>3. Length(i) = 2 * v
    BY <1>1, <1>6, <2>1, <2>2 DEF Length
  <2> QED
    BY <2>1, <2>3
<1>7. CASE Is(s, ".literal")
  <2>1. Kind(s, 1) = "DIRECTIVE" /\ ~Is(s, ".words")
    BY <1>4, <1>7
  <2>2. Length(i) = IF Kind(s, 2) = "LITERAL" THEN 2 * ((Len(s[2].value) + 2) \div 2) ELSE 2
    BY <1>1, <1>7, <2>1 DEF Length
  <2>3. CASE Kind(s, 2) = "LITERAL"
    <3>1. PICK n \in Nat : n = Len(s[2].value)
      BY <1>2, <2>3 DEF IsText
    <3>2. \A m \in Nat : (m + 2) \div 2 \in Nat
      OBVIOUS
    <3>3. PICK q \in Nat : q = (n + 2) \div 2
      BY <3>1, <3>2
    <3>4. Length(i) = 2 * q
      BY <2>2, <2>3, <3>1, <3>3
    <3> QED
      BY <3>3, <3>4
  <2>4. CASE Kind(s, 2) # "LITERAL"
    BY <2>2, <2>4
  <2> QED
    BY <2>3, <2>4
<1>8. CASE Kind(s, 1) # "INSTRUCTION" /\ ~Is(s, ".words") /\ ~Is(s, ".literal")
  BY <1>1, <1>8 DEF Length
<1> QED
  BY <1>5, <1>6, <1>7, <1>8

\* An address is the sum of the lengths of the lines before it.
LEMMA AddressSums ==
    ASSUME NEW n \in Nat, \A k \in 1 .. n : Length(k) \in Nat, NEW i, i - 1 = n
    PROVE  \E g : SumsTo([k \in 1 .. n |-> Length(k)], 1 .. n, g) /\ Address(i) = g[1 .. n]
<1> DEFINE A == 1 .. n
           f == [k \in A |-> Length(k)]
           Eq(g) == g = [T \in SUBSET A |->
                           IF T = {} THEN 0
                           ELSE Length(CHOOSE x \in T : TRUE) + g[T \ {CHOOSE x \in T : TRUE}]]
           iter == CHOOSE g : Eq(g)
<1>1. Address(i) = iter[A]
  BY DEF Address, MapThenSumSet, MapThenFoldSet
<1>2. IsFiniteSet(A) /\ f \in [A -> Nat]
  BY FoldOrder
<1>3. \A g : Eq(g) <=> SumFold(f, A, g)
  <2>1. \A T \in SUBSET A : T # {} => f[CHOOSE x \in T : TRUE] = Length(CHOOSE x \in T : TRUE)
    <3> HIDE DEF A
    <3> QED
      OBVIOUS
  <2> HIDE DEF A, f
  <2> QED
    BY <2>1 DEF SumFold
<1> HIDE DEF A, f, Eq
<1>4. \E g : Eq(g)
  BY <1>2, <1>3, SumFoldExists
<1>5. Eq(iter)
  BY <1>4
<1> HIDE DEF iter
<1>6. SumsTo(f, A, iter)
  BY <1>2, <1>3, <1>5, SumFoldSums
<1> QED
  BY <1>1, <1>6 DEF A, f

\* A line follows the one before it.
LEMMA AddressStep ==
    ASSUME program \in Programs, NEW n \in Nat, n < Len(program), GoodUpTo(n + 1)
    PROVE  /\ Address(n + 1) \in Nat /\ Length(n + 1) \in Nat
           /\ Address(n + 2) = Address(n + 1) + Length(n + 1)
<1>1. Len(program) \in Nat
  BY ProgramsAssumption
<1>2. \A k \in 1 .. n + 1 : Length(k) \in Nat
  BY <1>1, LengthType DEF GoodUpTo
<1> DEFINE A == 1 .. n
           B == 1 .. n + 1
           f == [k \in A |-> Length(k)]
           h == [k \in B |-> Length(k)]
<1>3. PICK g : SumsTo(f, A, g) /\ Address(n + 1) = g[A]
  <2>1. (n + 1) - 1 = n /\ \A k \in 1 .. n : Length(k) \in Nat
    BY <1>2
  <2> QED
    BY <2>1, AddressSums
<1>4. PICK k : SumsTo(h, B, k) /\ Address(n + 2) = k[B]
  <2>1. (n + 2) - 1 = n + 1 /\ n + 1 \in Nat
    OBVIOUS
  <2> QED
    BY <1>2, <2>1, AddressSums
<1>5. A \subseteq B /\ IsFiniteSet(A) /\ \A x \in A : f[x] = h[x]
  <2>1. IsFiniteSet(A)
    BY FoldOrder
  <2> QED
    BY <2>1
<1>6. n + 1 \in B /\ B \ {n + 1} = A /\ h[n + 1] = Length(n + 1)
  OBVIOUS
<1> HIDE DEF A, B, f, h
<1>7. g[A] = k[A]
  BY <1>3, <1>4, <1>5, SumsAgree
<1>8. k[B] = h[n + 1] + k[B \ {n + 1}]
  BY <1>4, <1>6 DEF SumsTo
<1>9. PICK w \in Nat : w = g[A]
  BY <1>3 DEF SumsTo
<1>10. Length(n + 1) \in Nat
  BY <1>2, <1>6 DEF B
<1>11. Address(n + 1) = w /\ Address(n + 2) = Length(n + 1) + w
  BY <1>3, <1>4, <1>6, <1>7, <1>8, <1>9
<1> QED
  BY <1>9, <1>10, <1>11

\* The addresses of good lines grow.
LEMMA AddressGrows ==
    ASSUME program \in Programs, NEW m \in Nat, m <= Len(program), GoodUpTo(m),
           NEW i \in 1 .. m + 1
    PROVE  Address(i) \in Nat /\ Address(m + 1) \in Nat /\ Address(i) <= Address(m + 1)
<1>1. Len(program) \in Nat
  BY ProgramsAssumption
<1>2. \A k \in 1 .. m : Length(k) \in Nat
  BY <1>1, LengthType DEF GoodUpTo
<1> DEFINE n == i - 1
           A == 1 .. n
           B == 1 .. m
           f == [k \in A |-> Length(k)]
           h == [k \in B |-> Length(k)]
<1>3. n \in Nat /\ A \subseteq B /\ IsFiniteSet(A) /\ IsFiniteSet(B) /\ \A x \in A : f[x] = h[x]
  <2>1. n \in Nat /\ n <= m
    OBVIOUS
  <2>2. IsFiniteSet(A) /\ IsFiniteSet(B)
    BY <2>1, FoldOrder
  <2> QED
    BY <2>1, <2>2
<1>4. PICK g : SumsTo(f, A, g) /\ Address(i) = g[A]
  <2>1. \A k \in 1 .. n : Length(k) \in Nat
    BY <1>2, <1>3
  <2> QED
    BY <1>3, <2>1, AddressSums
<1>5. PICK k : SumsTo(h, B, k) /\ Address(m + 1) = k[B]
  <2>1. (m + 1) - 1 = m
    OBVIOUS
  <2> QED
    BY <1>2, <2>1, AddressSums
<1>6. h \in [B -> Nat]
  BY <1>2
<1> HIDE DEF n, A, B, f, h
<1>7. g[A] = k[A]
  BY <1>3, <1>4, <1>5, SumsAgree
<1>8. k[A] <= k[B]
  BY <1>3, <1>5, <1>6, SumsGrow
<1>9. g[A] \in Nat /\ k[B] \in Nat
  BY <1>4, <1>5 DEF SumsTo
<1> QED
  BY <1>4, <1>5, <1>7, <1>8, <1>9

-----------------------------------------------------------------------------
(* The table and the source. *)

\* What the first n lines say of a name: the uses of it, and whether it is global.
UsesOf(n, name) == {i \in 1 .. n : i \in Uses /\ Target(i) = name}
GlobBy(n, name) == \E i \in 1 .. n : Is(StmtOf(i), ".glob") /\ StmtOf(i)[2].value = name

\* rs has the relocation of each line in U, once.
Listing(rs, U, b) ==
    /\ b \in [1 .. Len(rs) -> U]
    /\ \A j, k \in 1 .. Len(rs) : b[j] = b[k] => j = k
    /\ \A i \in U : \E k \in 1 .. Len(rs) : b[k] = i
    /\ \A k \in 1 .. Len(rs) : rs[k] = RelocOf(b[k], 0)

Lists(rs, U) == \E b : Listing(rs, U, b)

\* The table t has the labels of the first n lines and what m statements say of names.
NamesMatch(t, n, m) ==
    \A name \in Names :
        Has(t, name) <=> LabelledBy(n, name) \/ GlobBy(m, name) \/ UsesOf(m, name) # {}

PlacesMatch(t, n) ==
    \A name \in Names :
        /\ \A i \in 1 .. n : Labelled(program[i]) /\ LabelOf(i) = name
                                 => Named(t, name).loc = Address(i)
        /\ LabelledBy(n, name) <=> Named(t, name).loc # INV_ADDR

UsesMatch(t, m) ==
    \A name \in Names :
        /\ Named(t, name).global <=> GlobBy(m, name)
        /\ Named(t, name).relocat = FALSE
        /\ Lists(Named(t, name).relocs, UsesOf(m, name))

Matches(t, n, m) == NamesMatch(t, n, m) /\ PlacesMatch(t, n) /\ UsesMatch(t, m)

\* While lines are read without an error the table is that of the lines so far, and pos
\* is the address of the next one.
TableInv ==
    /\ phase = "assembling" /\ GoodUpTo(line) =>
           pos = Address(line + 1) /\ Matches(relocs, line, line)
    /\ phase = "relocating" /\ GoodUpTo(Len(program)) =>
           IF pos <= XIS_MEM_SIZE
           THEN pos = CodeSize /\ Matches(relocs, Len(program), Len(program))
           ELSE pos <= CodeSize

\* One more relocation.
LEMMA ListsMore ==
    ASSUME NEW rs \in Seq(RelocSet), NEW U, Lists(rs, U), NEW i, i \notin U, NEW r \in RelocSet,
           r = RelocOf(i, 0)
    PROVE  Lists(<<r>> \o rs, U \cup {i})
<1>1. PICK b : Listing(rs, U, b)
  BY DEF Lists
<1> DEFINE n == Len(rs)
           s == <<r>> \o rs
           c == [k \in 1 .. n + 1 |-> IF k = 1 THEN i ELSE b[k - 1]]
<1>2. n \in Nat /\ Len(s) = n + 1 /\ s[1] = r /\ \A k \in 2 .. n + 1 : s[k] = rs[k - 1]
  OBVIOUS
<1>3. \A k \in 2 .. n + 1 : k - 1 \in 1 .. n /\ c[k] = b[k - 1] /\ k \in 1 .. n + 1 /\ k # 1
  BY <1>2
<1>4. c[1] = i /\ 1 \in 1 .. n + 1 /\ \A k \in 1 .. n + 1 : k = 1 \/ k \in 2 .. n + 1
  BY <1>2
<1>5. /\ b \in [1 .. n -> U]
      /\ \A j, k \in 1 .. n : b[j] = b[k] => j = k
      /\ \A x \in U : \E k \in 1 .. n : b[k] = x
      /\ \A k \in 1 .. n : rs[k] = RelocOf(b[k], 0)
  BY <1>1 DEF Listing
<1>6. \A k \in 1 .. n : k + 1 \in 2 .. n + 1 /\ (k + 1) - 1 = k
  BY <1>2
<1>7. \A k \in 2 .. n + 1 : b[k - 1] \in U
  BY <1>3, <1>5
<1>8. c \in [1 .. n + 1 -> U \cup {i}]
  <2> SUFFICES ASSUME NEW k \in 1 .. n + 1
               PROVE  (IF k = 1 THEN i ELSE b[k - 1]) \in U \cup {i}
    OBVIOUS
  <2> QED
    BY <1>4, <1>7
<1> HIDE DEF n, s, c
<1>9. ASSUME NEW j \in 1 .. n + 1, NEW k \in 1 .. n + 1, c[j] = c[k]
      PROVE  j = k
  <2>1. CASE j = 1 /\ k = 1
    BY <2>1
  <2>2. CASE j = 1 /\ k # 1
    BY <1>3, <1>4, <1>7, <1>9, <2>2
  <2>3. CASE j # 1 /\ k = 1
    BY <1>3, <1>4, <1>7, <1>9, <2>3
  <2>4. CASE j # 1 /\ k # 1
    <3>1. j - 1 = k - 1
      BY <1>3, <1>4, <1>5, <1>9, <2>4
    <3> QED
      BY <1>2, <3>1
  <2> QED
    BY <2>1, <2>2, <2>3, <2>4
<1>10. ASSUME NEW x \in U \cup {i}
       PROVE  \E k \in 1 .. n + 1 : c[k] = x
  <2>1. CASE x = i
    BY <1>4, <2>1
  <2>2. CASE x # i
    <3>1. PICK k \in 1 .. n : b[k] = x
      BY <1>5, <2>2
    <3>2. k + 1 \in 1 .. n + 1 /\ c[k + 1] = x
      BY <1>3, <1>6, <3>1
    <3> QED
      BY <3>2
  <2> QED
    BY <2>1, <2>2
<1>11. ASSUME NEW k \in 1 .. n + 1
       PROVE  s[k] = RelocOf(c[k], 0)
  <2>1. CASE k = 1
    BY <1>2, <1>4, <2>1
  <2>2. CASE k # 1
    BY <1>2, <1>3, <1>4, <1>5, <2>2
  <2> QED
    BY <2>1, <2>2
<1>12. Listing(s, U \cup {i}, c)
  BY <1>2, <1>8, <1>9, <1>10, <1>11 DEF Listing
<1> QED
  BY <1>12 DEF Lists, s

\* What the new symbols keep of the old ones.
LEMMA PlaceFields ==
    ASSUME NEW sym \in SymbolSet, NEW loc
    PROVE  /\ WithPlace(sym, loc).loc = loc
           /\ WithPlace(sym, loc).global = sym.global
           /\ WithPlace(sym, loc).relocat = sym.relocat
           /\ WithPlace(sym, loc).relocs = sym.relocs
BY DEF SymbolSet, WithPlace

LEMMA GlobalFields ==
    ASSUME NEW sym \in SymbolSet
    PROVE  /\ MadeGlobal(sym).loc = sym.loc
           /\ MadeGlobal(sym).global = TRUE
           /\ MadeGlobal(sym).relocat = sym.relocat
           /\ MadeGlobal(sym).relocs = sym.relocs
BY DEF SymbolSet, MadeGlobal

LEMMA RelocFields ==
    ASSUME NEW sym \in SymbolSet, NEW r
    PROVE  /\ WithReloc(sym, r).loc = sym.loc
           /\ WithReloc(sym, r).global = sym.global
           /\ WithReloc(sym, r).relocat = sym.relocat
           /\ WithReloc(sym, r).relocs = <<r>> \o sym.relocs
BY DEF SymbolSet, WithReloc

\* A label that no line before had.
LEMMA LabelMatches ==
    ASSUME NEW t \in TableSet, NEW n \in Nat, NEW m, Matches(t, n, m),
           Labelled(program[n + 1]), NEW name \in Names, name = LabelOf(n + 1),
           ~LabelledBy(n, name), NEW loc \in Int, loc = Address(n + 1), loc # INV_ADDR,
           NEW u, u = xreloc_symbol(t, loc, name)
    PROVE  Matches(u.table, n + 1, m)
<1>1. Named(t, name).loc = INV_ADDR
  BY DEF Matches, PlacesMatch
<1>2. /\ \A other : Has(u.table, other) <=> Has(t, other) \/ other = name
      /\ \A other : Named(u.table, other) = IF other = name THEN WithPlace(Named(t, name), loc)
                                            ELSE Named(t, other)
  BY <1>1, XrelocSymbolNamed
<1>3. \A i \in 1 .. n + 1 : i \in 1 .. n \/ i = n + 1
  OBVIOUS
<1>4. n + 1 \in 1 .. n + 1 /\ \A i \in 1 .. n : i \in 1 .. n + 1
  OBVIOUS
<1>5. \A other : LabelledBy(n + 1, other) <=> LabelledBy(n, other) \/ other = name
  BY <1>3, <1>4 DEF LabelledBy
<1>6. NamesMatch(u.table, n + 1, m)
  BY <1>2, <1>5 DEF Matches, NamesMatch
<1>7. PlacesMatch(u.table, n + 1)
  <2>1. WithPlace(Named(t, name), loc).loc = loc
    BY NamedType, PlaceFields
  <2> SUFFICES ASSUME NEW other \in Names
               PROVE  /\ \A i \in 1 .. n + 1 : Labelled(program[i]) /\ LabelOf(i) = other
                                                   => Named(u.table, other).loc = Address(i)
                      /\ LabelledBy(n + 1, other) <=> Named(u.table, other).loc # INV_ADDR
    BY DEF PlacesMatch
  <2>2. CASE other = name
    <3>1. Named(u.table, other).loc = loc
      BY <1>2, <2>1, <2>2
    <3>2. \A i \in 1 .. n : ~(Labelled(program[i]) /\ LabelOf(i) = name)
      BY DEF LabelledBy
    <3> QED
      BY <1>3, <1>5, <2>2, <3>1, <3>2
  <2>3. CASE other # name
    <3>1. Named(u.table, other) = Named(t, other)
      BY <1>2, <2>3
    <3>2. \A i \in 1 .. n + 1 : Labelled(program[i]) /\ LabelOf(i) = other => i \in 1 .. n
      BY <1>3, <2>3
    <3> QED
      BY <1>5, <2>3, <3>1, <3>2 DEF Matches, PlacesMatch
  <2> QED
    BY <2>2, <2>3
<1>8. UsesMatch(u.table, m)
  <2>1. /\ WithPlace(Named(t, name), loc).global = Named(t, name).global
        /\ WithPlace(Named(t, name), loc).relocat = Named(t, name).relocat
        /\ WithPlace(Named(t, name), loc).relocs = Named(t, name).relocs
    BY NamedType, PlaceFields
  <2>2. \A other : /\ Named(u.table, other).global = Named(t, other).global
                   /\ Named(u.table, other).relocat = Named(t, other).relocat
                   /\ Named(u.table, other).relocs = Named(t, other).relocs
    BY <1>2, <2>1
  <2> QED
    BY <2>2 DEF Matches, UsesMatch
<1> QED
  BY <1>6, <1>7, <1>8 DEF Matches

\* A statement that uses no label and makes none global.
LEMMA OtherMatches ==
    ASSUME NEW t, NEW n, NEW m \in Nat, Matches(t, n, m),
           m + 1 \notin Uses, ~Is(StmtOf(m + 1), ".glob")
    PROVE  Matches(t, n, m + 1)
<1>1. \A i : i \in 1 .. m + 1 <=> i \in 1 .. m \/ i = m + 1
  OBVIOUS
<1>2. \A name : GlobBy(m + 1, name) <=> GlobBy(m, name)
  BY <1>1 DEF GlobBy
<1>3. \A name : UsesOf(m + 1, name) = UsesOf(m, name)
  BY <1>1 DEF UsesOf
<1> QED
  BY <1>2, <1>3 DEF Matches, NamesMatch, UsesMatch

\* A .glob.
LEMMA GlobMatches ==
    ASSUME NEW t \in TableSet, NEW n, NEW m \in Nat, Matches(t, n, m), m + 1 \notin Uses,
           Is(StmtOf(m + 1), ".glob"), NEW name \in Names, name = StmtOf(m + 1)[2].value,
           NEW u, u = xreloc_global(t, name)
    PROVE  Matches(u, n, m + 1)
<1>1. \A i : i \in 1 .. m + 1 <=> i \in 1 .. m \/ i = m + 1
  OBVIOUS
<1>2. \A other : GlobBy(m + 1, other) <=> GlobBy(m, other) \/ other = name
  BY <1>1 DEF GlobBy
<1>3. \A other : UsesOf(m + 1, other) = UsesOf(m, other)
  BY <1>1 DEF UsesOf
<1>4. \A other : /\ Has(u, other) <=> Has(t, other) \/ other = name
                 /\ Named(u, other) = IF other = name THEN MadeGlobal(Named(t, name))
                                      ELSE Named(t, other)
  BY XrelocGlobalNamed
<1>5. NamesMatch(u, n, m + 1)
  BY <1>2, <1>3, <1>4 DEF Matches, NamesMatch
<1>6. /\ MadeGlobal(Named(t, name)).loc = Named(t, name).loc
      /\ MadeGlobal(Named(t, name)).global = TRUE
      /\ MadeGlobal(Named(t, name)).relocat = Named(t, name).relocat
      /\ MadeGlobal(Named(t, name)).relocs = Named(t, name).relocs
  BY NamedType, GlobalFields
<1>7. \A other : /\ Named(u, other).loc = Named(t, other).loc
                 /\ Named(u, other).relocat = Named(t, other).relocat
                 /\ Named(u, other).relocs = Named(t, other).relocs
  BY <1>4, <1>6
<1>8. PlacesMatch(u, n)
  BY <1>7 DEF Matches, PlacesMatch
<1>9. \A other : Named(u, other).global = IF other = name THEN TRUE ELSE Named(t, other).global
  BY <1>4, <1>6
<1>10. \A other \in Names : Named(u, other).global <=> GlobBy(m + 1, other)
  <2>1. \A other \in Names : Named(t, other).global <=> GlobBy(m, other)
    BY DEF Matches, UsesMatch
  <2> QED
    BY <1>2, <1>9, <2>1
<1>11. UsesMatch(u, m + 1)
  <2>1. \A other \in Names : /\ Named(t, other).relocat = FALSE
                             /\ Lists(Named(t, other).relocs, UsesOf(m, other))
    BY DEF Matches, UsesMatch
  <2> QED
    BY <1>3, <1>7, <1>10, <2>1 DEF UsesMatch
<1> QED
  BY <1>5, <1>8, <1>11 DEF Matches

\* A use of a label.
LEMMA UseMatches ==
    ASSUME NEW t \in TableSet, NEW n, NEW m \in Nat, Matches(t, n, m), m + 1 \in Uses,
           ~Is(StmtOf(m + 1), ".glob"), NEW name \in Names, name = Target(m + 1),
           NEW r \in RelocSet, r = RelocOf(m + 1, 0), NEW u,
           \A other : /\ Has(u, other) <=> Has(t, other) \/ other = name
                      /\ Named(u, other) = IF other = name THEN WithReloc(Named(t, name), r)
                                           ELSE Named(t, other)
    PROVE  Matches(u, n, m + 1)
<1>1. \A i : i \in 1 .. m + 1 <=> i \in 1 .. m \/ i = m + 1
  OBVIOUS
<1>2. \A other : GlobBy(m + 1, other) <=> GlobBy(m, other)
  BY <1>1 DEF GlobBy
<1>3. \A other : UsesOf(m + 1, other) = IF other = name THEN UsesOf(m, other) \cup {m + 1}
                                        ELSE UsesOf(m, other)
  BY <1>1 DEF UsesOf
<1>4. NamesMatch(u, n, m + 1)
  BY <1>2, <1>3 DEF Matches, NamesMatch
<1>5. /\ WithReloc(Named(t, name), r).loc = Named(t, name).loc
      /\ WithReloc(Named(t, name), r).global = Named(t, name).global
      /\ WithReloc(Named(t, name), r).relocat = Named(t, name).relocat
      /\ WithReloc(Named(t, name), r).relocs = <<r>> \o Named(t, name).relocs
  BY NamedType, RelocFields
<1>6. \A other : /\ Named(u, other).loc = Named(t, other).loc
                 /\ Named(u, other).global = Named(t, other).global
                 /\ Named(u, other).relocat = Named(t, other).relocat
  BY <1>5
<1>7. PlacesMatch(u, n)
  BY <1>6 DEF Matches, PlacesMatch
<1>8. \A other \in Names : /\ Named(t, other).global <=> GlobBy(m, other)
                           /\ Named(t, other).relocat = FALSE
                           /\ Lists(Named(t, other).relocs, UsesOf(m, other))
  BY DEF Matches, UsesMatch
<1>9. ASSUME NEW other \in Names
      PROVE  Lists(Named(u, other).relocs, UsesOf(m + 1, other))
  <2>1. CASE other = name
    <3>1. Named(t, name).relocs \in Seq(RelocSet)
      BY NamedType DEF SymbolSet
    <3>2. m + 1 \notin UsesOf(m, name)
      BY DEF UsesOf
    <3>3. Lists(<<r>> \o Named(t, name).relocs, UsesOf(m, name) \cup {m + 1})
      BY <1>8, <3>1, <3>2, ListsMore
    <3> QED
      BY <1>3, <1>5, <2>1, <3>3
  <2>2. CASE other # name
    BY <1>3, <1>8, <2>2
  <2> QED
    BY <2>1, <2>2
<1>10. UsesMatch(u, m + 1)
  BY <1>2, <1>6, <1>8, <1>9 DEF UsesMatch
<1> QED
  BY <1>4, <1>7, <1>10 DEF Matches

\* What the next line is.
LEMMA NextLine ==
    ASSUME Reading, program \in Programs, line \in Nat
    PROVE  /\ line + 1 \in 1 .. Len(program) /\ line + 1 \in DOMAIN program
           /\ StmtOf(line + 1) = Stmt /\ program[line + 1] = Current
           /\ Labelled(Current) => LabelOf(line + 1) = Current[1].value
           /\ line + 1 \in Uses <=> Kind(Stmt, 1) = "INSTRUCTION" /\ TakesReloc(Stmt)
           /\ Target(line + 1) = Stmt[2].value
<1>1. Len(program) \in Nat /\ DOMAIN program = 1 .. Len(program) /\ line < Len(program)
  BY ProgramsAssumption DEF Reading
<1>2. StmtOf(line + 1) = Stmt /\ program[line + 1] = Current
  BY DEF StmtOf, Stmt, Current
<1> QED
  BY <1>1, <1>2 DEF Uses, Target, TakesReloc, LabelOf

\* The table after the label of a good line.
LEMMA LabelingMatches ==
    ASSUME XasIInv, TableInv, Reading, GoodUpTo(line + 1)
    PROVE  /\ Matches(Labeling.table, line + 1, line)
           /\ Labeling.table \in TableSet
           /\ pos = Address(line + 1) /\ GoodUpTo(line)
<1>1. /\ program \in Programs /\ line \in Nat /\ line < Len(program) /\ phase = "assembling"
      /\ relocs \in TableSet /\ pos \in 0 .. XIS_MEM_SIZE /\ pos % 2 = 0
  BY ReadingState
<1>2. GoodUpTo(line) /\ GoodLine(line + 1)
  <2>1. 1 .. line + 1 = (1 .. line) \cup {line + 1}
    BY <1>1
  <2> QED
    BY <2>1 DEF GoodUpTo
<1>3. pos = Address(line + 1) /\ Matches(relocs, line, line)
  BY <1>1, <1>2 DEF TableInv
<1>4. (line + 1) - 1 = line
  BY <1>1
<1>5. program[line + 1] = Current
  BY DEF Current
<1>6. CASE Labelled(Current)
  <2>1. LabelOf(line + 1) \in Names /\ LabelOf(line + 1) = Current[1].value
    BY <1>1, <1>5, <1>6, NextLine, TokensOfLine
  <2>2. ~LabelledBy(line, LabelOf(line + 1))
    BY <1>2, <1>4, <1>5, <1>6 DEF GoodLine
  <2>3. Labeling = xreloc_symbol(relocs, pos, LabelOf(line + 1))
    BY <1>6, <2>1 DEF Labeling
  <2>4. pos \in Int /\ pos # INV_ADDR
    <3>1. pos \in CodeLoc
      BY <1>1, EvenIsCode
    <3>2. pos # INV_ADDR
      BY <3>1, CodeIsNotInvalid
    <3> QED
      BY <1>1, <3>2
  <2>5. Matches(Labeling.table, line + 1, line)
    BY <1>1, <1>3, <1>5, <1>6, <2>1, <2>2, <2>3, <2>4, LabelMatches
  <2> QED
    BY <1>2, <1>3, <2>5, LabelingType
<1>7. CASE ~Labelled(Current)
  <2>1. Labeling.table = relocs
    BY <1>7 DEF Labeling
  <2>2. \A name : LabelledBy(line + 1, name) <=> LabelledBy(line, name)
    <3>1. 1 .. line + 1 = (1 .. line) \cup {line + 1}
      BY <1>1
    <3> QED
      BY <1>5, <1>7, <3>1 DEF LabelledBy
  <2>3. \A i \in 1 .. line + 1 : Labelled(program[i]) => i \in 1 .. line
    BY <1>1, <1>5, <1>7
  <2>4. NamesMatch(relocs, line + 1, line)
    BY <1>3, <2>2 DEF Matches, NamesMatch
  <2>5. PlacesMatch(relocs, line + 1)
    BY <1>3, <2>2, <2>3 DEF Matches, PlacesMatch
  <2> QED
    BY <1>1, <1>2, <1>3, <2>1, <2>4, <2>5 DEF Matches
<1> QED
  BY <1>6, <1>7

\* Nothing but the source decides what is expected of the table.
LEMMA ExpectationStays ==
    ASSUME program' = program
    PROVE  /\ \A i : Address(i)' = Address(i)
           /\ \A t, n, m : Matches(t, n, m)' <=> Matches(t, n, m)
<1>1. \A i : StmtOf(i)' = StmtOf(i) /\ LabelOf(i)' = LabelOf(i)
  BY DEF StmtOf, LabelOf
<1>2. \A i : Address(i)' = Address(i)
  BY DEF Address, MapThenSumSet, MapThenFoldSet, Length, StmtOf
<1>3. \A i : (i \in Uses)' <=> i \in Uses
  BY <1>1 DEF Uses
<1>4. \A i : Target(i)' = Target(i) /\ (Absolute(i)' <=> Absolute(i))
  BY <1>1 DEF Target, Absolute
<1>5. \A i, b : RelocOf(i, b)' = RelocOf(i, b)
  BY <1>2, <1>4 DEF RelocOf
<1>6. \A n, name : (UsesOf(n, name)' = UsesOf(n, name)) /\ (GlobBy(n, name)' <=> GlobBy(n, name))
  BY <1>1, <1>3, <1>4 DEF UsesOf, GlobBy
<1>7. \A n, name : LabelledBy(n, name)' <=> LabelledBy(n, name)
  BY SourceStays
<1>8. \A rs, U : Lists(rs, U)' <=> Lists(rs, U)
  BY <1>5 DEF Lists, Listing
<1>9. \A t, n, m : NamesMatch(t, n, m)' <=> NamesMatch(t, n, m)
  BY <1>6, <1>7 DEF NamesMatch
<1>10. \A t, n : PlacesMatch(t, n)' <=> PlacesMatch(t, n)
  BY <1>1, <1>2, <1>7 DEF PlacesMatch
<1>11. \A t, m : UsesMatch(t, m)' <=> UsesMatch(t, m)
  BY <1>6, <1>8 DEF UsesMatch
<1> QED
  BY <1>2, <1>9, <1>10, <1>11 DEF Matches

\* A line that does to pos and to the table what it should, if it is a good one.
LEMMA LineMatches ==
    ASSUME XasIInv, TableInv, Reading, NEW bytes, NEW advance \in Int, NEW errors \in Nat,
           NEW table, Line(bytes, advance, errors, table),
           GoodUpTo(line + 1) =>
               advance = Length(line + 1) /\ Matches(table, line + 1, line + 1)
    PROVE  TableInv'
<1>1. /\ program \in Programs /\ line \in Nat /\ line < Len(program) /\ phase = "assembling"
      /\ pos \in Int
  BY ReadingState DEF XasIInv
<1>2. /\ line' = line + 1 /\ pos' = pos + advance /\ relocs' = table
      /\ phase' = IF pos' > XIS_MEM_SIZE THEN "relocating" ELSE "assembling"
      /\ program' = program
  BY DEF Line
<1>3. /\ \A i : Address(i)' = Address(i)
      /\ \A t, n, m : Matches(t, n, m)' <=> Matches(t, n, m)
      /\ \A n : GoodUpTo(n)' <=> GoodUpTo(n)
  BY <1>2, ExpectationStays, SourceStays
<1>4. Len(program) \in Nat
  BY <1>1, ProgramsAssumption
<1>5. ASSUME GoodUpTo(line + 1)
      PROVE  /\ pos' = Address(line + 2) /\ pos' \in Nat /\ Matches(table, line + 1, line + 1)
  <2>1. pos = Address(line + 1)
    BY <1>5, LabelingMatches
  <2>2. /\ Address(line + 1) \in Nat /\ Length(line + 1) \in Nat
        /\ Address(line + 2) = Address(line + 1) + Length(line + 1)
    BY <1>1, <1>5, AddressStep
  <2> QED
    BY <1>2, <1>5, <2>1, <2>2
<1>6. CASE pos' > XIS_MEM_SIZE
  <2>1. phase' = "relocating"
    BY <1>2, <1>6
  <2>2. ASSUME GoodUpTo(Len(program))
        PROVE  pos' <= Address(Len(program) + 1) /\ ~(pos' <= XIS_MEM_SIZE)
    <3>1. GoodUpTo(line + 1)
      BY <1>1, <1>4, <2>2 DEF GoodUpTo
    <3>2. line + 2 \in 1 .. Len(program) + 1
      BY <1>1, <1>4
    <3>3. Address(line + 2) <= Address(Len(program) + 1)
      BY <1>1, <1>4, <2>2, <3>2, AddressGrows
    <3>4. ~(pos' <= XIS_MEM_SIZE)
      BY <1>5, <1>6, <3>1, Sizes
    <3> QED
      BY <1>5, <3>1, <3>3, <3>4
  <2>3. CodeSize' = Address(Len(program) + 1)
    BY <1>2, <1>3 DEF CodeSize
  <2>4. GoodUpTo(Len(program))' <=> GoodUpTo(Len(program))
    BY <1>2, <1>3
  <2> QED
    BY <2>1, <2>2, <2>3, <2>4 DEF TableInv
<1>7. CASE ~(pos' > XIS_MEM_SIZE)
  <2>1. phase' = "assembling"
    BY <1>2, <1>7
  <2>2. GoodUpTo(line)' <=> GoodUpTo(line + 1)
    BY <1>2, <1>3
  <2>3. Matches(relocs, line, line)' <=> Matches(table, line + 1, line + 1)
    BY <1>2, <1>3
  <2>4. Address(line + 1)' = Address(line + 2)
    <3>1. Address(line + 1)' = Address((line + 1) + 1)
      BY <1>2, <1>3
    <3>2. (line + 1) + 1 = line + 2
      BY <1>1
    <3> QED
      BY <3>1, <3>2
  <2> QED
    BY <1>5, <2>1, <2>2, <2>3, <2>4 DEF TableInv
<1> QED
  BY <1>6, <1>7

\* The length of a statement's bytes, by its first token.
LEMMA InstructionLength ==
    ASSUME NEW i, Kind(StmtOf(i), 1) = "INSTRUCTION"
    PROVE  /\ Length(i) = IF Extended(StmtOf(i)[1].value) THEN 4 ELSE 2
           /\ Len(Encode(StmtOf(i))) = Length(i)
           /\ ~Is(StmtOf(i), ".glob")
<1>1. PICK s : s = StmtOf(i)
  OBVIOUS
<1>2. \A d : ~Is(s, d)
  BY <1>1 DEF Is
<1>3. Length(i) = IF Extended(s[1].value) THEN 4 ELSE 2
  BY <1>1, <1>2 DEF Length
<1>4. \A a, b, c, d : Len(<<a, b>> \o <<c, d>>) = 4 /\ Len(<<a, b>> \o <<>>) = 2
  OBVIOUS
<1>5. Len(Encode(s)) = IF Extended(s[1].value) THEN 4 ELSE 2
  BY <1>4 DEF Encode
<1> QED
  BY <1>1, <1>2, <1>3, <1>5

LEMMA DirectiveLength ==
    ASSUME NEW i, NEW s, s = StmtOf(i), NEW d, Is(s, d)
    PROVE  /\ i \notin Uses
           /\ d = ".literal" => /\ ~Is(s, ".glob")
                                /\ Length(i) = IF Kind(s, 2) = "LITERAL"
                                               THEN 2 * ((Len(s[2].value) + 2) \div 2) ELSE 2
           /\ d = ".words" => ~Is(s, ".glob") /\ Length(i) = 2 * s[2].value
           /\ d = ".glob" => Length(i) = 0
<1>1. Kind(s, 1) = "DIRECTIVE" /\ s[1].value = d
  BY DEF Is
<1>2. \A e : Is(s, e) <=> e = d
  BY <1>1 DEF Is
<1>3. i \notin Uses
  BY <1>1 DEF Uses
<1>4. CASE d = ".literal"
  <2>1. Is(s, ".literal") /\ ~Is(s, ".words") /\ ~Is(s, ".glob") /\ Kind(s, 1) # "INSTRUCTION"
    BY <1>1, <1>2, <1>4
  <2>2. Length(i) = IF Kind(s, 2) = "LITERAL" THEN 2 * ((Len(s[2].value) + 2) \div 2) ELSE 2
    BY <2>1 DEF Length
  <2> QED
    BY <1>3, <1>4, <2>1, <2>2
<1>5. CASE d = ".words"
  <2>1. Is(s, ".words") /\ ~Is(s, ".glob") /\ Kind(s, 1) # "INSTRUCTION"
    BY <1>1, <1>2, <1>5
  <2>2. PICK w : w = 2 * s[2].value
    OBVIOUS
  <2>3. ~Is(s, ".literal")
    BY <1>2, <1>5
  <2>4. Length(i) = w
    BY <2>1, <2>2, <2>3, Zenon DEF Length
  <2> QED
    BY <1>3, <1>5, <2>1, <2>2, <2>4
<1>6. CASE d = ".glob"
  <2>1. ~Is(s, ".words") /\ ~Is(s, ".literal") /\ Kind(s, 1) # "INSTRUCTION"
    BY <1>1, <1>2, <1>6
  <2>2. Length(i) = 0
    BY <2>1 DEF Length
  <2> QED
    BY <1>3, <1>6, <2>2
<1>7. CASE d \notin {".literal", ".words", ".glob"}
  BY <1>3, <1>7
<1> QED
  BY <1>4, <1>5, <1>6, <1>7

LEMMA EmptyLength ==
    ASSUME NEW i, StmtOf(i) = <<>>
    PROVE  i \notin Uses /\ ~Is(StmtOf(i), ".glob") /\ Length(i) = 0
<1>1. Kind(<<>>, 1) = "NO_TOKEN" /\ \A d : ~Is(<<>>, d)
  BY DEF Kind, Is
<1> QED
  BY <1>1 DEF Uses, Length

-----------------------------------------------------------------------------
(* The steps and the table. *)

\* The next line, if it is a good one, and the address it is at.
LEMMA NextGoodLine ==
    ASSUME XasIInv, TableInv, Reading, GoodUpTo(line + 1)
    PROVE  /\ GoodStatement(Stmt) /\ line \in Nat /\ (line + 1) + 1 = line + 2
           /\ StmtOf(line + 1) = Stmt
           /\ Len(Stmt) \in Nat /\ \A j \in 1 .. Len(Stmt) : SourceToken(Stmt[j])
           /\ Matches(Labeling.table, line + 1, line) /\ Labeling.table \in TableSet
<1>1. /\ program \in Programs /\ line \in Nat /\ line < Len(program)
  BY ReadingState
<1>2. line + 1 \in 1 .. line + 1 /\ (line + 1) + 1 = line + 2
  BY <1>1
<1>3. StmtOf(line + 1) = Stmt
  BY <1>1, NextLine
<1>4. GoodStatement(Stmt)
  BY <1>2, <1>3 DEF GoodUpTo, GoodLine
<1> QED
  BY <1>1, <1>2, <1>3, <1>4, StmtTokens, LabelingMatches

\* A line that changes the table by its label only.
LEMMA PlainMatches ==
    ASSUME XasIInv, TableInv, Reading, GoodUpTo(line + 1),
           line + 1 \notin Uses, ~Is(Stmt, ".glob")
    PROVE  Matches(Labeling.table, line + 1, line + 1)
<1>1. /\ line \in Nat /\ StmtOf(line + 1) = Stmt
      /\ Matches(Labeling.table, line + 1, line)
  BY NextGoodLine
<1> QED
  BY <1>1, OtherMatches

LEMMA OtherLinesMatch ==
    ASSUME XasIInv, TableInv, MissingColon \/ Blank \/ BadStatement
    PROVE  TableInv'
<1>1. CASE MissingColon \/ BadStatement
  <2>1. /\ Reading /\ Line(<<>>, 0, 1, Labeling.table)
    BY <1>1 DEF MissingColon, BadStatement, Parsed
  <2>2. ~GoodUpTo(line + 1)
    <3>1. line \in Nat /\ line + 1 \in 1 .. line + 1
      BY <2>1, ReadingState
    <3>2. CASE MissingColon
      <4>1. Labelled(program[line + 1]) /\ ~HasColon(program[line + 1])
        BY <3>2 DEF MissingColon, Current
      <4> QED
        BY <3>1, <4>1 DEF GoodUpTo, GoodLine
    <3>3. CASE BadStatement
      <4>1. /\ Stmt # <<>> /\ Kind(Stmt, 1) # "INSTRUCTION"
            /\ \/ Kind(Stmt, 1) # "DIRECTIVE"
               \/ Is(Stmt, ".literal") /\ Kind(Stmt, 2) \notin {"LITERAL", "INT"}
        BY <3>3 DEF BadStatement
      <4>2. ~GoodStatement(Stmt)
        BY <4>1, GoodLiteral, GoodOther
      <4> QED
        BY <2>1, <4>2, NextGoodLine
    <3> QED
      BY <1>1, <3>2, <3>3
  <2> QED
    BY <2>1, <2>2, LineMatches
<1>2. CASE Blank
  <2>1. Reading /\ Stmt = <<>> /\ Line(<<>>, 0, 0, Labeling.table)
    BY <1>2 DEF Blank, Parsed
  <2>2. StmtOf(line + 1) = <<>>
    BY <2>1 DEF Stmt, StmtOf, Current
  <2>3. line + 1 \notin Uses /\ ~Is(Stmt, ".glob") /\ Length(line + 1) = 0
    BY <2>1, <2>2, EmptyLength
  <2>4. GoodUpTo(line + 1) => Matches(Labeling.table, line + 1, line + 1)
    BY <2>1, <2>3, PlainMatches
  <2> QED
    BY <2>1, <2>3, <2>4, LineMatches
<1> QED
  BY <1>1, <1>2

\* The relocation of an operand is that of the line.
LEMMA OperandMatches ==
    ASSUME XasIInv, TableInv, Reading, GoodUpTo(line + 1), Kind(Stmt, 1) = "INSTRUCTION",
           NEW u, u = OperandReloc(Labeling.table, Stmt)
    PROVE  Matches(u.table, line + 1, line + 1)
<1>1. /\ line \in Nat /\ StmtOf(line + 1) = Stmt
      /\ Len(Stmt) \in Nat /\ \A j \in 1 .. Len(Stmt) : SourceToken(Stmt[j])
      /\ Matches(Labeling.table, line + 1, line) /\ Labeling.table \in TableSet
  BY NextGoodLine
<1>2. /\ program \in Programs /\ pos \in 0 .. XIS_MEM_SIZE /\ pos % 2 = 0
  BY ReadingState
<1>3. /\ line + 1 \in Uses <=> TakesReloc(Stmt)
      /\ Target(line + 1) = Stmt[2].value
  BY <1>1, <1>2, NextLine
<1>4. ~Is(StmtOf(line + 1), ".glob")
  BY <1>1, InstructionLength
<1>5. CASE ~TakesReloc(Stmt)
  <2>1. u.table = Labeling.table
    BY <1>5 DEF OperandReloc, TakesReloc
  <2>2. Matches(Labeling.table, line + 1, line + 1)
    BY <1>1, <1>3, <1>4, <1>5, PlainMatches
  <2> QED
    BY <2>1, <2>2
<1>6. CASE TakesReloc(Stmt)
  <2>1. PICK name \in Names : name = Stmt[2].value
    BY <1>1, <1>6, TokenOfKind DEF TakesReloc
  <2>2. PICK r : r = RelocFor(Stmt, pos)
    OBVIOUS
  <2>3. r = RelocOf(line + 1, 0)
    <3>1. pos = Address(line + 1)
      BY LabelingMatches
    <3>2. pos \in Int /\ 0 + pos = pos
      BY <1>2
    <3> QED
      BY <1>1, <2>2, <3>1, <3>2 DEF RelocFor, RelocAt, RelocOf, Absolute
  <2>4. r \in RelocSet
    <3>1. pos \in CodeLoc /\ pos + 2 \in CodeLoc
      BY <1>2, EvenIsCode
    <3> QED
      BY <2>2, <3>1 DEF RelocFor, RelocAt, RelocSet
  <2>5. \A other :
          /\ Has(u.table, other) <=> Has(Labeling.table, other) \/ other = name
          /\ Named(u.table, other) =
                 IF other = name THEN WithReloc(Named(Labeling.table, name), r)
                 ELSE Named(Labeling.table, other)
    BY <1>1, <1>6, <2>1, <2>2, OperandRelocNamed
  <2> QED
    BY <1>1, <1>3, <1>4, <1>6, <2>1, <2>3, <2>4, <2>5, UseMatches
<1> QED
  BY <1>5, <1>6

LEMMA InstructionMatches ==
    ASSUME XasIInv, TableInv, Instruction
    PROVE  TableInv'
<1>1. PICK u : u = OperandReloc(Labeling.table, Stmt)
  OBVIOUS
<1>2. /\ Reading /\ Kind(Stmt, 1) = "INSTRUCTION"
      /\ IF WellFormed(Stmt)
         THEN Line(Encode(Stmt), Len(Encode(Stmt)), Count(~u.ok), u.table)
         ELSE Line(<<>>, 0, Count(~u.ok) + 1, u.table)
  BY <1>1 DEF Instruction, Parsed
<1>3. program \in Programs /\ line \in Nat /\ line < Len(program)
  BY <1>2, ReadingState
<1>4. StmtOf(line + 1) = Stmt
  BY <1>2, <1>3, NextLine
<1>5. Count(~u.ok) \in Nat
  BY DEF Count
<1>6. CASE WellFormed(Stmt)
  <2>1. /\ Length(line + 1) = IF Extended(Stmt[1].value) THEN 4 ELSE 2
        /\ Len(Encode(Stmt)) = Length(line + 1)
    BY <1>2, <1>4, InstructionLength
  <2>2. PICK n \in Int : n = Len(Encode(Stmt))
    BY <2>1
  <2>3. PICK bytes : bytes = Encode(Stmt)
    OBVIOUS
  <2>4. Line(bytes, n, Count(~u.ok), u.table)
    BY <1>2, <1>6, <2>2, <2>3
  <2>5. GoodUpTo(line + 1) => n = Length(line + 1) /\ Matches(u.table, line + 1, line + 1)
    BY <1>1, <1>2, <2>1, <2>2, OperandMatches
  <2> QED
    BY <1>2, <1>5, <2>4, <2>5, LineMatches
<1>7. CASE ~WellFormed(Stmt)
  <2>1. Line(<<>>, 0, Count(~u.ok) + 1, u.table) /\ Count(~u.ok) + 1 \in Nat
    BY <1>2, <1>5, <1>7
  <2>2. ~GoodUpTo(line + 1)
    BY <1>2, <1>7, GoodInstruction, NextGoodLine
  <2> QED
    BY <1>2, <2>1, <2>2, LineMatches
<1> QED
  BY <1>6, <1>7

\* A directive that is no .glob leaves the table to the label.
LEMMA PlainDirective ==
    ASSUME XasIInv, TableInv, Reading, NEW d \in {".literal", ".words"}, Is(Stmt, d)
    PROVE  /\ GoodUpTo(line + 1) => Matches(Labeling.table, line + 1, line + 1)
           /\ d = ".literal" => Length(line + 1) = IF Kind(Stmt, 2) = "LITERAL"
                                    THEN 2 * ((Len(Stmt[2].value) + 2) \div 2) ELSE 2
           /\ d = ".words" => Length(line + 1) = 2 * Stmt[2].value
<1>1. program \in Programs /\ line \in Nat /\ line < Len(program)
  BY ReadingState
<1>2. Stmt = StmtOf(line + 1)
  BY <1>1, NextLine
<1>3. /\ line + 1 \notin Uses /\ ~Is(Stmt, ".glob")
      /\ d = ".literal" => Length(line + 1) = IF Kind(Stmt, 2) = "LITERAL"
                               THEN 2 * ((Len(Stmt[2].value) + 2) \div 2) ELSE 2
      /\ d = ".words" => Length(line + 1) = 2 * Stmt[2].value
  BY <1>2, DirectiveLength
<1> QED
  BY <1>3, PlainMatches

LEMMA LiteralMatches ==
    ASSUME XasIInv, TableInv, LiteralString \/ LiteralInt
    PROVE  TableInv'
<1>1. /\ Reading /\ Is(Stmt, ".literal") /\ Kind(Stmt, 2) \in {"LITERAL", "INT"}
  BY DEF LiteralString, LiteralInt, Parsed
<1>2. /\ GoodUpTo(line + 1) => Matches(Labeling.table, line + 1, line + 1)
      /\ Length(line + 1) = IF Kind(Stmt, 2) = "LITERAL"
                            THEN 2 * ((Len(Stmt[2].value) + 2) \div 2) ELSE 2
  BY <1>1, PlainDirective
<1>3. program \in Programs /\ line \in Nat /\ line < Len(program)
  BY <1>1, ReadingState
<1>4. CASE LiteralString
  <2>1. PICK v : v = Stmt[2].value
    OBVIOUS
  <2>2. /\ Line(v \o <<0>>, StringAdvance(Len(v) + 1), 0, Labeling.table)
        /\ Kind(Stmt, 2) = "LITERAL"
    BY <1>4, <2>1 DEF LiteralString
  <2>3. PICK n \in Nat : n = Len(v)
    BY <1>3, <2>1, <2>2, StmtTokens, TokenOfKind DEF IsText
  <2>4. \A m \in Nat : /\ (m + 1) + ((m + 1) % 2) = 2 * ((m + 2) \div 2)
                       /\ (m + 1) + ((m + 1) % 2) \in Int
    OBVIOUS
  <2>5. PICK a \in Int : a = StringAdvance(Len(v) + 1)
    BY <2>3, <2>4 DEF StringAdvance
  <2>6. a = 2 * ((n + 2) \div 2)
    BY <2>3, <2>4, <2>5 DEF StringAdvance
  <2>7. Length(line + 1) = a
    BY <1>2, <2>1, <2>2, <2>3, <2>6
  <2>8. Line(v \o <<0>>, a, 0, Labeling.table)
    BY <2>2, <2>5
  <2> QED
    BY <1>1, <1>2, <2>7, <2>8, LineMatches
<1>5. CASE LiteralInt
  <2>1. PICK v \in Int : v = Stmt[2].value
    BY <1>3, <1>5, StmtTokens, TokenOfKind DEF LiteralInt
  <2>2. /\ Kind(Stmt, 2) = "INT"
        /\ IF v < -65536 \/ v > 65535
           THEN Line(<<>>, 0, 1, Labeling.table)
           ELSE Line(<<Hi(v), Lo(v)>>, 2, 0, Labeling.table)
    BY <1>5, <2>1 DEF LiteralInt
  <2>3. CASE v < -65536 \/ v > 65535
    <3>1. ~Within(v, -65536, 65535)
      BY <2>3 DEF Within
    <3>2. ~GoodUpTo(line + 1)
      BY <1>1, <2>1, <2>2, <3>1, GoodLiteral, NextGoodLine
    <3> QED
      BY <1>1, <2>2, <2>3, <3>2, LineMatches
  <2>4. CASE ~(v < -65536 \/ v > 65535)
    <3>1. Line(<<Hi(v), Lo(v)>>, 2, 0, Labeling.table)
      BY <2>2, <2>4
    <3>2. Length(line + 1) = 2
      <4>1. Kind(Stmt, 2) # "LITERAL"
        BY <2>2
      <4> QED
        BY <1>2, <4>1, Zenon
    <3> QED
      BY <1>1, <1>2, <3>1, <3>2, LineMatches
  <2> QED
    BY <2>3, <2>4
<1> QED
  BY <1>4, <1>5

LEMMA WordsMatch ==
    ASSUME XasIInv, TableInv, Words
    PROVE  TableInv'
<1>1. PICK v : v = Stmt[2].value
  OBVIOUS
<1>2. /\ Reading /\ Is(Stmt, ".words")
      /\ IF Kind(Stmt, 2) # "INT" \/ Short(v) < 1
         THEN Line(<<>>, 0, 1, Labeling.table)
         ELSE Line(<<>>, 2 * v, 0, Labeling.table)
  BY <1>1 DEF Words, Parsed
<1>3. /\ GoodUpTo(line + 1) => Matches(Labeling.table, line + 1, line + 1)
      /\ Length(line + 1) = 2 * v
  BY <1>1, <1>2, PlainDirective
<1>4. program \in Programs /\ line \in Nat /\ line < Len(program)
  BY <1>2, ReadingState
<1>5. CASE Kind(Stmt, 2) # "INT" \/ Short(v) < 1
  <2>1. ~GoodUpTo(line + 1)
    <3> SUFFICES ASSUME GoodUpTo(line + 1)
                 PROVE  FALSE
      OBVIOUS
    <3>1. Kind(Stmt, 2) = "INT" /\ Within(v, 1, 32767)
      BY <1>1, <1>2, GoodWords, NextGoodLine
    <3>2. v \in Int
      BY <1>1, <1>4, <3>1, StmtTokens, TokenOfKind
    <3>3. \A n \in Int : 1 <= n /\ n <= 32767 => ((n + 32768) % 65536) - 32768 = n
      OBVIOUS
    <3>4. Short(v) = v
      BY <3>1, <3>2, <3>3 DEF Short, WordSize, Within
    <3> QED
      BY <1>5, <3>1, <3>2, <3>4 DEF Within
  <2> QED
    BY <1>2, <1>5, <2>1, LineMatches
<1>6. CASE ~(Kind(Stmt, 2) # "INT" \/ Short(v) < 1)
  <2>1. PICK n \in Int : n = v
    BY <1>1, <1>4, <1>6, StmtTokens, TokenOfKind
  <2>2. PICK a \in Int : a = 2 * v
    BY <2>1
  <2>3. Line(<<>>, a, 0, Labeling.table) /\ a = Length(line + 1)
    BY <1>2, <1>3, <1>6, <2>2
  <2> QED
    BY <1>2, <1>3, <2>3, LineMatches
<1> QED
  BY <1>5, <1>6

LEMMA GlobLineMatches ==
    ASSUME XasIInv, TableInv, Glob
    PROVE  TableInv'
<1>1. /\ Reading /\ Is(Stmt, ".glob")
      /\ IF Kind(Stmt, 2) # "LABEL"
         THEN Line(<<>>, 0, 1, Labeling.table)
         ELSE Line(<<>>, 0, 0, xreloc_global(Labeling.table, Stmt[2].value))
  BY DEF Glob, Parsed
<1>2. program \in Programs /\ line \in Nat /\ line < Len(program)
  BY <1>1, ReadingState
<1>3. CASE Kind(Stmt, 2) # "LABEL"
  <2>1. ~GoodUpTo(line + 1)
    BY <1>1, <1>3, GoodGlob, NextGoodLine
  <2> QED
    BY <1>1, <1>3, <2>1, LineMatches
<1>4. CASE Kind(Stmt, 2) = "LABEL"
  <2>1. PICK name \in Names : name = Stmt[2].value
    BY <1>2, <1>4, StmtTokens, TokenOfKind
  <2>2. PICK u : u = xreloc_global(Labeling.table, name)
    OBVIOUS
  <2>3. Line(<<>>, 0, 0, u)
    BY <1>1, <1>4, <2>1, <2>2
  <2>4. Stmt = StmtOf(line + 1)
    BY <1>1, <1>2, NextLine
  <2>5. line + 1 \notin Uses /\ Length(line + 1) = 0
    BY <1>1, <2>4, DirectiveLength
  <2>6. GoodUpTo(line + 1) => Matches(u, line + 1, line + 1)
    <3> SUFFICES ASSUME GoodUpTo(line + 1)
                 PROVE  Matches(u, line + 1, line + 1)
      OBVIOUS
    <3>1. Matches(Labeling.table, line + 1, line) /\ Labeling.table \in TableSet
      BY <1>1, NextGoodLine
    <3>2. Is(StmtOf(line + 1), ".glob") /\ name = StmtOf(line + 1)[2].value
      BY <1>1, <2>1, <2>4
    <3> QED
      BY <1>2, <2>1, <2>2, <2>5, <3>1, <3>2, GlobMatches
  <2> QED
    BY <1>1, <2>3, <2>5, <2>6, LineMatches
<1> QED
  BY <1>3, <1>4

LEMMA EndMatches ==
    ASSUME XasIInv, TableInv,
           \/ EndOfFile \/ Relocate \/ StoreTable \/ ReportErrors \/ OpenFails \/ WriteFails
           \/ WriteFile \/ Done \/ UNCHANGED vars
    PROVE  TableInv'
<1>1. program' = program
  BY DEF EndOfFile, Relocate, StoreTable, ReportErrors, OpenFails, WriteFails, WriteFile, Done,
         Exit, vars
<1>2. /\ \A i : Address(i)' = Address(i)
      /\ \A t, n, m : Matches(t, n, m)' <=> Matches(t, n, m)
      /\ \A n : GoodUpTo(n)' <=> GoodUpTo(n)
  BY <1>1, ExpectationStays, SourceStays
<1>3. CASE EndOfFile
  <2>1. /\ phase = "assembling" /\ line = Len(program) /\ phase' = "relocating"
        /\ relocs' = relocs /\ pos' = pos
    BY <1>3 DEF EndOfFile
  <2>2. pos <= XIS_MEM_SIZE
    BY <2>1, Sizes DEF XasIInv
  <2>3. Matches(relocs, Len(program), Len(program))'
            <=> Matches(relocs, Len(program), Len(program))
    BY <1>1, <1>2, <2>1
  <2>4. CodeSize' = CodeSize
    BY <1>1, <1>2 DEF CodeSize
  <2>5. GoodUpTo(Len(program)) => /\ pos = Address(Len(program) + 1)
                                  /\ Matches(relocs, Len(program), Len(program))
    BY <2>1 DEF TableInv
  <2>6. GoodUpTo(Len(program))' <=> GoodUpTo(Len(program))
    BY <1>1, <1>2
  <2>7. (pos <= XIS_MEM_SIZE)'
    BY <2>1, <2>2
  <2> QED
    BY <2>1, <2>3, <2>4, <2>5, <2>6, <2>7 DEF TableInv, CodeSize
<1>4. CASE \/ Relocate \/ StoreTable \/ ReportErrors \/ OpenFails \/ WriteFails \/ WriteFile
  <2>1. phase' \in {"storing", "reporting", "exited"}
    BY <1>4 DEF Relocate, StoreTable, ReportErrors, OpenFails, WriteFails, WriteFile, Exit
  <2> QED
    BY <2>1 DEF TableInv
<1>5. CASE Done \/ UNCHANGED vars
  <2>1. phase' = phase /\ line' = line /\ pos' = pos /\ relocs' = relocs
    BY <1>5 DEF Done, vars
  <2>2. /\ GoodUpTo(line)' <=> GoodUpTo(line)
        /\ GoodUpTo(Len(program))' <=> GoodUpTo(Len(program))
        /\ Address(line + 1)' = Address(line + 1) /\ CodeSize' = CodeSize
        /\ Matches(relocs, line, line)' <=> Matches(relocs, line, line)
        /\ Matches(relocs, Len(program), Len(program))'
               <=> Matches(relocs, Len(program), Len(program))
    BY <1>1, <1>2, <2>1 DEF CodeSize
  <2>3. (pos <= XIS_MEM_SIZE)' <=> pos <= XIS_MEM_SIZE
    BY <2>1
  <2> QED
    BY <2>1, <2>2, <2>3 DEF TableInv
<1> QED
  BY <1>3, <1>4, <1>5

LEMMA TableInit == Init => TableInv
<1> SUFFICES ASSUME Init
             PROVE  TableInv
  OBVIOUS
<1>1. /\ phase = "assembling" /\ line = 0 /\ pos = 0 /\ relocs = EmptyTable
  BY DEF Init
<1>2. 1 .. 0 = {}
  OBVIOUS
<1>3. Address(line + 1) = 0
  <2>1. (line + 1) - 1 = 0 /\ 0 \in Nat /\ \A k \in 1 .. 0 : Length(k) \in Nat
    BY <1>1
  <2>2. PICK g : SumsTo([k \in 1 .. 0 |-> Length(k)], 1 .. 0, g) /\ Address(line + 1) = g[1 .. 0]
    BY <2>1, AddressSums
  <2>3. g[{}] = 0
    BY <2>2 DEF SumsTo
  <2> QED
    BY <1>2, <2>2, <2>3
<1>4. \A name : ~Has(relocs, name)
  BY <1>1 DEF Has, EmptyTable
<1>5. \A name : ~LabelledBy(0, name) /\ ~GlobBy(0, name) /\ UsesOf(0, name) = {}
  BY <1>2 DEF LabelledBy, GlobBy, UsesOf
<1>6. \A name : /\ Named(relocs, name).loc = INV_ADDR /\ Named(relocs, name).relocs = <<>>
                /\ Named(relocs, name).global = FALSE /\ Named(relocs, name).relocat = FALSE
  BY <1>4 DEF Named, NewSymbol
<1>7. Lists(<<>>, {})
  <2>1. Listing(<<>>, {}, <<>>)
    BY DEF Listing
  <2> QED
    BY <2>1 DEF Lists
<1>8. NamesMatch(relocs, 0, 0)
  BY <1>4, <1>5 DEF NamesMatch
<1>9. PlacesMatch(relocs, 0)
  BY <1>2, <1>5, <1>6 DEF PlacesMatch
<1>10. UsesMatch(relocs, 0)
  BY <1>5, <1>6, <1>7 DEF UsesMatch
<1> QED
  BY <1>1, <1>3, <1>8, <1>9, <1>10 DEF TableInv, Matches

LEMMA TableStep ==
    ASSUME XasIInv, TableInv, [Next]_vars
    PROVE  TableInv'
<1>1. CASE MissingColon \/ Blank \/ BadStatement
  BY <1>1, OtherLinesMatch
<1>2. CASE Instruction
  BY <1>2, InstructionMatches
<1>3. CASE LiteralString \/ LiteralInt
  BY <1>3, LiteralMatches
<1>4. CASE Words
  BY <1>4, WordsMatch
<1>5. CASE Glob
  BY <1>5, GlobLineMatches
<1>6. CASE \/ EndOfFile \/ Relocate \/ StoreTable \/ ReportErrors \/ OpenFails \/ WriteFails
           \/ WriteFile \/ Done \/ UNCHANGED vars
  BY <1>6, EndMatches
<1> QED
  BY <1>1, <1>2, <1>3, <1>4, <1>5, <1>6 DEF Next

-----------------------------------------------------------------------------
(* The folds of relocating and storing, step by step. *)

Applied(st, sym) == FoldLeft(LAMBDA s, r : RelocateOne(s, sym, r), st, sym.relocs)
RelocatedBy(st, seq) == FoldLeft(RelocateSymbol, st, seq)
StoredBy(st, seq)    == FoldLeft(StoreEntry, st, seq)

\* The relocations of a symbol are applied one after the other.
LEMMA SymbolSteps ==
    ASSUME NEW st \in Relocating, NEW sym \in SymbolSet
    PROVE  \E g :
             /\ g[{}] = st
             /\ \A T \in SUBSET (1 .. Len(sym.relocs)) :
                   /\ g[T] \in Relocating
                   /\ T # {} => \E x \in T : g[T] = RelocateOne(g[T \ {x}], sym, sym.relocs[x])
             /\ Applied(st, sym)
                    = g[1 .. Len(sym.relocs)]
<1> DEFINE seq == sym.relocs
           A == 1 .. Len(seq)
           c == [T \in SUBSET A |-> Max(T)]
           F == [p \in A \X Relocating |-> RelocateOne(p[2], sym, seq[p[1]])]
           Eq(g) == g = [T \in SUBSET DOMAIN seq |->
                           IF T = {} THEN st
                           ELSE RelocateOne(g[T \ {Max(T)}], sym, seq[Max(T)])]
           iter == CHOOSE g : Eq(g)
<1>1. Len(seq) \in Nat /\ DOMAIN seq = A /\ \A k \in A : seq[k] \in RelocSet
  <2>1. seq \in Seq(RelocSet)
    BY DEF SymbolSet
  <2> QED
    BY <2>1
<1>2. IsFiniteSet(A) /\ Choice(A, c)
  BY <1>1, FoldOrder
<1>3. F \in [A \X Relocating -> Relocating]
  BY <1>1, RelocateOneType
<1>4. Applied(st, sym) = iter[DOMAIN seq]
  BY DEF Applied, FoldLeft, MapThenFoldSet
<1> HIDE DEF A, c
<1>5. PICK g \in [SUBSET A -> Relocating] : Fold(A, c, st, F, g)
  BY <1>2, <1>3, FoldExists
<1>6. Eq(g)
  BY <1>1, <1>2, <1>5 DEF Fold, Choice, A, c
<1>7. Eq(iter)
  BY <1>6
<1> HIDE DEF iter
<1>8. iter[{}] = st
  BY <1>1, <1>7
<1>9. ASSUME NEW T \in SUBSET A, T # {}
      PROVE  c[T] \in T /\ iter[T] = RelocateOne(iter[T \ {c[T]}], sym, seq[c[T]])
  <2>1. c[T] = Max(T) /\ c[T] \in T
    BY <1>2, <1>9 DEF Choice, c
  <2> QED
    BY <1>1, <1>7, <1>9, <2>1
<1>10. \A T \in SUBSET A : iter[T] \in Relocating
  <2> DEFINE G == {T \in SUBSET A : iter[T] \in Relocating}
  <2>1. {} \in G
    BY <1>8
  <2>2. ASSUME NEW T \in SUBSET A, T # {}, \A x \in T : T \ {x} \in G
        PROVE  T \in G
    <3>1. c[T] \in T /\ iter[T] = RelocateOne(iter[T \ {c[T]}], sym, seq[c[T]])
      BY <1>9, <2>2
    <3>2. iter[T \ {c[T]}] \in Relocating /\ seq[c[T]] \in RelocSet
      BY <1>1, <2>2, <3>1
    <3> QED
      BY <3>1, <3>2, RelocateOneType
  <2>3. G \in SUBSET (SUBSET A)
    OBVIOUS
  <2> HIDE DEF G
  <2>4. G = SUBSET A
    BY <1>2, <2>1, <2>2, <2>3, SmallSets
  <2> QED
    BY <2>4 DEF G
<1>11. Applied(st, sym) = iter[A]
  BY <1>1, <1>4
<1> HIDE DEF Eq
<1> QED
  BY <1>8, <1>9, <1>10, <1>11 DEF A

\* So are the symbols of a table.
LEMMA TableSteps ==
    ASSUME NEW st \in Relocating, NEW seq \in Seq(SymbolSet)
    PROVE  \E g :
             /\ g[{}] = st
             /\ \A T \in SUBSET (1 .. Len(seq)) :
                   /\ g[T] \in Relocating
                   /\ T # {} => \E x \in T : g[T] = RelocateSymbol(g[T \ {x}], seq[x])
             /\ RelocatedBy(st, seq) = g[1 .. Len(seq)]
<1> DEFINE A == 1 .. Len(seq)
           c == [T \in SUBSET A |-> Max(T)]
           F == [p \in A \X Relocating |-> RelocateSymbol(p[2], seq[p[1]])]
           Eq(g) == g = [T \in SUBSET DOMAIN seq |->
                           IF T = {} THEN st
                           ELSE RelocateSymbol(g[T \ {Max(T)}], seq[Max(T)])]
           iter == CHOOSE g : Eq(g)
<1>1. Len(seq) \in Nat /\ DOMAIN seq = A /\ \A k \in A : seq[k] \in SymbolSet
  OBVIOUS
<1>2. IsFiniteSet(A) /\ Choice(A, c)
  BY <1>1, FoldOrder
<1>3. F \in [A \X Relocating -> Relocating]
  BY <1>1, RelocateSymbolType
<1>4. RelocatedBy(st, seq) = iter[DOMAIN seq]
  BY DEF RelocatedBy, FoldLeft, MapThenFoldSet
<1> HIDE DEF A, c
<1>5. PICK g \in [SUBSET A -> Relocating] : Fold(A, c, st, F, g)
  BY <1>2, <1>3, FoldExists
<1>6. Eq(g)
  BY <1>1, <1>2, <1>5 DEF Fold, Choice, A, c
<1>7. Eq(iter)
  BY <1>6
<1> HIDE DEF iter
<1>8. iter[{}] = st
  BY <1>1, <1>7
<1>9. ASSUME NEW T \in SUBSET A, T # {}
      PROVE  c[T] \in T /\ iter[T] = RelocateSymbol(iter[T \ {c[T]}], seq[c[T]])
  <2>1. c[T] = Max(T) /\ c[T] \in T
    BY <1>2, <1>9 DEF Choice, c
  <2> QED
    BY <1>1, <1>7, <1>9, <2>1
<1>10. \A T \in SUBSET A : iter[T] \in Relocating
  <2> DEFINE G == {T \in SUBSET A : iter[T] \in Relocating}
  <2>1. {} \in G
    BY <1>8
  <2>2. ASSUME NEW T \in SUBSET A, T # {}, \A x \in T : T \ {x} \in G
        PROVE  T \in G
    <3>1. c[T] \in T /\ iter[T] = RelocateSymbol(iter[T \ {c[T]}], seq[c[T]])
      BY <1>9, <2>2
    <3>2. iter[T \ {c[T]}] \in Relocating /\ seq[c[T]] \in SymbolSet
      BY <1>1, <2>2, <3>1
    <3> QED
      BY <3>1, <3>2, RelocateSymbolType
  <2>3. G \in SUBSET (SUBSET A)
    OBVIOUS
  <2> HIDE DEF G
  <2>4. G = SUBSET A
    BY <1>2, <2>1, <2>2, <2>3, SmallSets
  <2> QED
    BY <2>4 DEF G
<1>11. RelocatedBy(st, seq) = iter[A]
  BY <1>1, <1>4
<1> HIDE DEF Eq
<1> QED
  BY <1>8, <1>9, <1>10, <1>11 DEF A

\* g[T] is what storing the entries at T makes of st, and u what all of them do.
StoreSteps(S, st, seq, u, g) ==
    /\ g[{}] = st
    /\ \A T \in SUBSET (1 .. Len(seq)) :
          /\ g[T] \in S
          /\ T # {} => \E x \in T : g[T] = StoreEntry(g[T \ {x}], seq[x])
    /\ u = g[1 .. Len(seq)]

\* The entries of a table are stored one after the other.
LEMMA EntrySteps ==
    ASSUME NEW S, NEW X, NEW st \in S, NEW seq \in Seq(X),
           \A s \in S : \A sym \in X : StoreEntry(s, sym) \in S
    PROVE  \E g : StoreSteps(S, st, seq, StoredBy(st, seq), g)
<1> DEFINE A == 1 .. Len(seq)
           c == [T \in SUBSET A |-> Max(T)]
           F == [p \in A \X S |-> StoreEntry(p[2], seq[p[1]])]
           Eq(g) == g = [T \in SUBSET DOMAIN seq |->
                           IF T = {} THEN st
                           ELSE StoreEntry(g[T \ {Max(T)}], seq[Max(T)])]
           iter == CHOOSE g : Eq(g)
<1>1. Len(seq) \in Nat /\ DOMAIN seq = A /\ \A k \in A : seq[k] \in X
  OBVIOUS
<1>2. IsFiniteSet(A) /\ Choice(A, c)
  BY <1>1, FoldOrder
<1>3. F \in [A \X S -> S]
  BY <1>1
<1>4. StoredBy(st, seq) = iter[DOMAIN seq]
  BY DEF StoredBy, FoldLeft, MapThenFoldSet
<1> HIDE DEF A, c
<1>5. PICK g \in [SUBSET A -> S] : Fold(A, c, st, F, g)
  BY <1>2, <1>3, FoldExists
<1>6. Eq(g)
  BY <1>1, <1>2, <1>5 DEF Fold, Choice, A, c
<1>7. Eq(iter)
  BY <1>6
<1> HIDE DEF iter
<1>8. iter[{}] = st
  BY <1>1, <1>7
<1>9. ASSUME NEW T \in SUBSET A, T # {}
      PROVE  c[T] \in T /\ iter[T] = StoreEntry(iter[T \ {c[T]}], seq[c[T]])
  <2>1. c[T] = Max(T) /\ c[T] \in T
    BY <1>2, <1>9 DEF Choice, c
  <2> QED
    BY <1>1, <1>7, <1>9, <2>1
<1>10. \A T \in SUBSET A : iter[T] \in S
  <2> DEFINE G == {T \in SUBSET A : iter[T] \in S}
  <2>1. {} \in G
    BY <1>8
  <2>2. ASSUME NEW T \in SUBSET A, T # {}, \A x \in T : T \ {x} \in G
        PROVE  T \in G
    <3>1. c[T] \in T /\ iter[T] = StoreEntry(iter[T \ {c[T]}], seq[c[T]])
      BY <1>9, <2>2
    <3>2. iter[T \ {c[T]}] \in S /\ seq[c[T]] \in X
      BY <1>1, <2>2, <3>1
    <3> QED
      BY <3>1, <3>2
  <2>3. G \in SUBSET (SUBSET A)
    OBVIOUS
  <2> HIDE DEF G
  <2>4. G = SUBSET A
    BY <1>2, <2>1, <2>2, <2>3, SmallSets
  <2> QED
    BY <2>4 DEF G
<1>11. StoredBy(st, seq) = iter[A]
  BY <1>1, <1>4
<1> HIDE DEF Eq
<1>12. StoreSteps(S, st, seq, StoredBy(st, seq), iter)
  BY <1>8, <1>9, <1>10, <1>11 DEF A, StoreSteps
<1> QED
  BY <1>12

-----------------------------------------------------------------------------
(* Which relocations fit. *)

\* The use i of a label reaches the label's place.
Reaches(loc, i) == IF Absolute(i) THEN loc <= INV_ADDR ELSE Within(loc - Address(i), -128, 127)

\* The symbols of the table u are those of t, except that "$" may have more relocations.
KeepsNames(t, u) ==
    \A name : /\ Has(u, name) <=> Has(t, name)
              /\ name # REL_NAME => Named(u, name) = Named(t, name)
              /\ Named(u, REL_NAME).global = Named(t, REL_NAME).global

BaseRelocs(t) == Len(Named(t, REL_NAME).relocs)

\* The number after n, if there is one more.
Counted(n, bad, m) == m = n + Count(bad)
SumIs(n, m, sum)   == sum = n + m

AbsoluteUses(U) == {i \in U : Absolute(i)}

LEMMA BaseRelocsType ==
    ASSUME NEW t \in TableSet
    PROVE  BaseRelocs(t) \in Nat
<1>1. Named(t, REL_NAME) \in SymbolSet
  BY RelName, NamedType
<1>2. Named(t, REL_NAME).relocs \in Seq(RelocSet)
  BY <1>1 DEF SymbolSet
<1> QED
  BY <1>2 DEF BaseRelocs

\* What fits in 16 bits, and what fits in 8 bits with a sign.
LEMMA FitsWord ==
    ASSUME NEW r, NEW v, r.size = 16
    PROVE  Fits(v, r, FALSE) <=> v <= INV_ADDR
<1>1. PICK w : w = 2 ^ r.size - 1
  OBVIOUS
<1>2. Fits(v, r, FALSE) <=> v <= w
  BY <1>1, Zenon DEF Fits
<1>3. w = 2 ^ 16 - 1
  BY <1>1, Zenon
<1>4. w = INV_ADDR
  BY ONLY <1>3, SMT DEF INV_ADDR, XIS_MEM_SIZE
<1> QED
  BY ONLY <1>2, <1>4, Zenon

LEMMA FitsByte ==
    ASSUME NEW r, NEW v, r.size = 8
    PROVE  Fits(v, r, TRUE) <=> Within(v, -128, 127)
<1>1. Fits(v, r, TRUE) <=> -(2 ^ (r.size - 1)) <= v /\ v <= 2 ^ (r.size - 1) - 1
  BY Zenon DEF Fits
<1>2. 2 ^ (r.size - 1) = 2 ^ (8 - 1)
  BY Zenon
<1>3. 2 ^ (8 - 1) - 1 = 127 /\ -(2 ^ (8 - 1)) = -128
  BY ONLY SMT
<1> QED
  BY ONLY <1>1, <1>2, <1>3, Zenon DEF Within

\* What fits is what reaches.
LEMMA FitsReaches ==
    ASSUME NEW m, NEW sym \in SymbolSet, sym.relocat = FALSE, NEW i, Address(i) \in Int,
           NEW r, r = RelocOf(i, 0)
    PROVE  /\ Fits(Resolved(m, sym, r), r, ~sym.relocat /\ r.flags % 2 = 1)
                  <=> Reaches(sym.loc, i)
           /\ KeepsReloc(sym, r) <=> Absolute(i)
<1>1. PICK loc \in Int : loc = sym.loc
  BY DEF SymbolSet
<1>2. PICK a \in Int : a = Address(i)
  OBVIOUS
<1>3. PICK signed : signed = (~sym.relocat /\ r.flags % 2 = 1)
  OBVIOUS
<1>4. PICK value : value = Resolved(m, sym, r)
  OBVIOUS
<1>5. CASE Absolute(i)
  <2>1. r.size = 16 /\ r.flags = 0
    BY <1>5 DEF RelocOf, XRELOC_ABSOLUTE
  <2>2. r.flags % 2 = 0 /\ r.flags % 2 # 1
    BY <2>1
  <2>3. value = loc /\ signed = FALSE /\ KeepsReloc(sym, r)
    BY <1>1, <1>3, <1>4, <2>2 DEF Resolved, KeepsReloc
  <2>4. Fits(loc, r, FALSE) <=> loc <= INV_ADDR
    <3>1. r.size = 16
      BY <2>1
    <3> QED
      BY ONLY <3>1, FitsWord
  <2>5. Reaches(sym.loc, i) <=> loc <= INV_ADDR
    BY <1>1, <1>5 DEF Reaches
  <2> QED
    BY ONLY <1>3, <1>4, <1>5, <2>3, <2>4, <2>5, Zenon
<1>6. CASE ~Absolute(i)
  <2>1. r.size = 8 /\ r.flags = 1 /\ r.loc = a
    <3>1. 0 + a = a
      BY <1>2
    <3> QED
      BY <1>2, <1>6, <3>1 DEF RelocOf, XRELOC_RELATIVE
  <2>2. r.flags % 2 = 1 /\ r.flags % 2 # 0
    BY <2>1
  <2>3. value = loc - a /\ signed = TRUE /\ ~KeepsReloc(sym, r)
    BY <1>1, <1>3, <1>4, <2>1, <2>2 DEF Resolved, KeepsReloc
  <2>4. Fits(loc - a, r, TRUE) <=> Within(loc - a, -128, 127)
    <3>1. r.size = 8
      BY <2>1
    <3> QED
      BY ONLY <3>1, FitsByte
  <2>5. Reaches(sym.loc, i) <=> Within(loc - a, -128, 127)
    BY <1>1, <1>2, <1>6 DEF Reaches
  <2> QED
    BY ONLY <1>3, <1>4, <1>6, <2>3, <2>4, <2>5, Zenon
<1> QED
  BY <1>5, <1>6

\* One relocation.
LEMMA RelocateOneNamed ==
    ASSUME NEW s \in Relocating, NEW sym \in SymbolSet, sym.relocat = FALSE,
           NEW i, Address(i) \in Int, NEW r \in RelocSet, r = RelocOf(i, 0),
           NEW u, u = RelocateOne(s, sym, r)
    PROVE  /\ u.ok <=> s.ok /\ Reaches(sym.loc, i)
           /\ KeepsNames(s.table, u.table)
           /\ Counted(BaseRelocs(s.table), Absolute(i), BaseRelocs(u.table))
<1>1. s.table \in TableSet /\ Has(s.table, REL_NAME) /\ s.ok \in BOOLEAN
  BY DEF Relocating
<1>2. PICK fits : fits = Fits(Resolved(s.mem, sym, r), r, ~sym.relocat /\ r.flags % 2 = 1)
  OBVIOUS
<1>3. /\ u.ok = (s.ok /\ fits)
      /\ u.table = IF KeepsReloc(sym, r)
                   THEN add_reloc(s.table, REL_NAME, r.loc, r.size, XRELOC_ABSOLUTE)
                   ELSE s.table
  BY <1>2 DEF RelocateOne
<1>4. (fits <=> Reaches(sym.loc, i)) /\ (KeepsReloc(sym, r) <=> Absolute(i))
  BY <1>2, FitsReaches
<1>5. BaseRelocs(s.table) \in Nat /\ (u.ok <=> s.ok /\ Reaches(sym.loc, i))
  <2>1. u.ok <=> s.ok /\ Reaches(sym.loc, i)
    BY <1>3, <1>4, Zenon
  <2> QED
    BY <1>1, <2>1, BaseRelocsType
<1>6. CASE Absolute(i)
  <2>1. r.loc \in CodeLoc /\ r.size \in {8, 16}
        /\ XRELOC_ABSOLUTE \in {XRELOC_ABSOLUTE, XRELOC_RELATIVE}
    BY DEF RelocSet
  <2>2. u.table = add_reloc(s.table, REL_NAME, r.loc, r.size, XRELOC_ABSOLUTE)
    BY <1>3, <1>4, <1>6
  <2>3. PICK q : q = RelocAt(r.loc, r.size, XRELOC_ABSOLUTE)
    OBVIOUS
  <2>4. \A name : /\ Has(u.table, name) <=> Has(s.table, name)
                  /\ Named(u.table, name) = IF name = REL_NAME
                                            THEN WithReloc(Named(s.table, REL_NAME), q)
                                            ELSE Named(s.table, name)
    BY <1>1, <2>1, <2>2, <2>3, RelName, AddRelocNamed
  <2>5. Named(s.table, REL_NAME) \in SymbolSet
    BY <1>1, RelName, NamedType
  <2>6. /\ WithReloc(Named(s.table, REL_NAME), q).global = Named(s.table, REL_NAME).global
        /\ WithReloc(Named(s.table, REL_NAME), q).relocs
               = <<q>> \o Named(s.table, REL_NAME).relocs
    BY <2>5, RelocFields
  <2>7. Named(s.table, REL_NAME).relocs \in Seq(RelocSet) /\ q \in RelocSet
    BY <2>1, <2>3, <2>5 DEF SymbolSet, RelocAt, RelocSet
  <2>8. Len(<<q>> \o Named(s.table, REL_NAME).relocs)
            = Len(Named(s.table, REL_NAME).relocs) + 1
    BY <2>7
  <2>9. BaseRelocs(u.table) = BaseRelocs(s.table) + 1
    BY <2>4, <2>6, <2>8 DEF BaseRelocs
  <2>10. KeepsNames(s.table, u.table)
    BY <2>4, <2>6 DEF KeepsNames
  <2> QED
    BY <1>5, <1>6, <2>9, <2>10 DEF Counted, Count
<1>7. CASE ~Absolute(i)
  <2>1. u.table = s.table
    BY <1>3, <1>4, <1>7
  <2>2. KeepsNames(s.table, u.table)
    BY <2>1 DEF KeepsNames
  <2> QED
    BY <1>5, <1>7, <2>1, <2>2 DEF Counted, Count
<1> QED
  BY <1>6, <1>7

\* The uses that the relocations at T are those of, as far as they are absolute.
AbsoluteIn(U, b, T) == {i \in U : Absolute(i) /\ \E k \in T : b[k] = i}

LEMMA AbsoluteCount ==
    ASSUME NEW U, IsFiniteSet(U), NEW n \in Nat, NEW b \in [1 .. n -> U],
           \A j, k \in 1 .. n : b[j] = b[k] => j = k,
           NEW T \in SUBSET (1 .. n), NEW x \in T
    PROVE  /\ Cardinality(AbsoluteIn(U, b, T \ {x})) \in Nat
           /\ Counted(Cardinality(AbsoluteIn(U, b, T \ {x})), Absolute(b[x]),
                      Cardinality(AbsoluteIn(U, b, T)))
<1> DEFINE V == AbsoluteIn(U, b, T \ {x})
<1>1. IsFiniteSet(V) /\ Cardinality(V) \in Nat
  <2>1. V \in SUBSET U
    BY DEF AbsoluteIn
  <2> QED
    BY <2>1, FS_Subset, FS_CardinalityType
<1>2. b[x] \in U /\ x \in 1 .. n
  OBVIOUS
<1>3. b[x] \notin V
  BY <1>2 DEF AbsoluteIn
<1>4. CASE Absolute(b[x])
  <2>1. AbsoluteIn(U, b, T) = V \cup {b[x]}
    BY <1>2, <1>4 DEF AbsoluteIn
  <2> QED
    BY <1>1, <1>3, <1>4, <2>1, FS_AddElement DEF Counted, Count
<1>5. CASE ~Absolute(b[x])
  <2>1. AbsoluteIn(U, b, T) = V
    BY <1>2, <1>5 DEF AbsoluteIn
  <2> QED
    BY <1>1, <1>5, <2>1 DEF Counted, Count
<1> QED
  BY <1>1, <1>4, <1>5

\* A symbol that has a place and is not global.
LEMMA SymbolRelocated ==
    ASSUME NEW st \in Relocating, NEW sym \in SymbolSet, sym.relocat = FALSE,
           sym.global = FALSE, sym.loc # INV_ADDR, NEW U, IsFiniteSet(U),
           Lists(sym.relocs, U), \A i \in U : Address(i) \in Int,
           NEW u, u = RelocateSymbol(st, sym)
    PROVE  /\ u.ok <=> st.ok /\ \A i \in U : Reaches(sym.loc, i)
           /\ KeepsNames(st.table, u.table)
           /\ SumIs(BaseRelocs(st.table), Cardinality(AbsoluteUses(U)), BaseRelocs(u.table))
<1>1. u = Applied(st, sym)
  BY DEF RelocateSymbol, Applied
<1>2. sym.relocs \in Seq(RelocSet)
  BY DEF SymbolSet
<1>3. PICK n \in Nat : n = Len(sym.relocs)
  BY <1>2
<1>4. PICK b : /\ b \in [1 .. n -> U]
               /\ \A j, k \in 1 .. n : b[j] = b[k] => j = k
               /\ \A i \in U : \E k \in 1 .. n : b[k] = i
               /\ \A k \in 1 .. n : sym.relocs[k] = RelocOf(b[k], 0)
  BY <1>3 DEF Lists, Listing
<1>6. PICK g :
        /\ g[{}] = st
        /\ \A T \in SUBSET (1 .. n) :
              /\ g[T] \in Relocating
              /\ T # {} => \E x \in T : g[T] = RelocateOne(g[T \ {x}], sym, sym.relocs[x])
        /\ u = g[1 .. n]
  <2>1. \E g :
          /\ g[{}] = st
          /\ \A T \in SUBSET (1 .. Len(sym.relocs)) :
                /\ g[T] \in Relocating
                /\ T # {} => \E x \in T : g[T] = RelocateOne(g[T \ {x}], sym, sym.relocs[x])
          /\ Applied(st, sym) = g[1 .. Len(sym.relocs)]
    BY ONLY st \in Relocating, sym \in SymbolSet, SymbolSteps
  <2> QED
    BY ONLY <1>1, <1>3, <2>1, Zenon
<1> DEFINE A == 1 .. n
           Good(T) == /\ g[T].ok <=> st.ok /\ \A k \in T : Reaches(sym.loc, b[k])
                      /\ KeepsNames(st.table, g[T].table)
                      /\ BaseRelocs(g[T].table)
                             = BaseRelocs(st.table) + Cardinality(AbsoluteIn(U, b, T))
           G == {T \in SUBSET A : Good(T)}
<1>7. BaseRelocs(st.table) \in Nat
  BY BaseRelocsType DEF Relocating
<1>8. {} \in G
  <2>1. AbsoluteIn(U, b, {}) = {} /\ Cardinality({}) = 0
    BY FS_EmptySet DEF AbsoluteIn
  <2>2. KeepsNames(st.table, st.table)
    BY DEF KeepsNames
  <2>3. st.ok <=> st.ok /\ \A k \in {} : Reaches(sym.loc, b[k])
    OBVIOUS
  <2>4. BaseRelocs(st.table) = BaseRelocs(st.table) + Cardinality(AbsoluteIn(U, b, {}))
    BY <1>7, <2>1
  <2>5. Good({})
    BY <1>6, <2>2, <2>3, <2>4
  <2> HIDE DEF Good
  <2> QED
    BY <2>5
<1>9. ASSUME NEW T \in SUBSET A, T # {}, \A x \in T : T \ {x} \in G
      PROVE  T \in G
  <2>1. PICK x \in T : g[T] = RelocateOne(g[T \ {x}], sym, sym.relocs[x])
    BY <1>6, <1>9
  <2>2. PICK s : s = g[T \ {x}]
    OBVIOUS
  <2>3. PICK v : v = g[T]
    OBVIOUS
  <2>4. PICK r : r = sym.relocs[x]
    OBVIOUS
  <2>5. x \in 1 .. n /\ b[x] \in U /\ r \in RelocSet /\ r = RelocOf(b[x], 0)
    BY <1>2, <1>3, <1>4, <2>4
  <2>6. s \in Relocating /\ v = RelocateOne(s, sym, r)
    BY <1>6, <2>1, <2>2, <2>3, <2>4, <2>5
  <2>7. /\ v.ok <=> s.ok /\ Reaches(sym.loc, b[x])
        /\ KeepsNames(s.table, v.table)
        /\ Counted(BaseRelocs(s.table), Absolute(b[x]), BaseRelocs(v.table))
    <3>1. PICK i \in U : i = b[x]
      BY <2>5
    <3>2. r = RelocOf(i, 0) /\ Address(i) \in Int
      BY <2>5, <3>1
    <3>3. /\ v.ok <=> s.ok /\ Reaches(sym.loc, i)
          /\ KeepsNames(s.table, v.table)
          /\ Counted(BaseRelocs(s.table), Absolute(i), BaseRelocs(v.table))
      <4>1. r \in RelocSet
        BY <2>5
      <4> QED
        BY ONLY sym \in SymbolSet, sym.relocat = FALSE, <2>6, <3>2, <4>1,
           RelocateOneNamed, Zenon
    <3> QED
      BY <3>1, <3>3
  <2>8. /\ s.ok <=> st.ok /\ \A k \in T \ {x} : Reaches(sym.loc, b[k])
        /\ KeepsNames(st.table, s.table)
        /\ BaseRelocs(s.table) = BaseRelocs(st.table)
                                   + Cardinality(AbsoluteIn(U, b, T \ {x}))
    BY <1>9, <2>2
  <2>9. v.ok <=> st.ok /\ \A k \in T : Reaches(sym.loc, b[k])
    BY <2>7, <2>8
  <2>10. KeepsNames(st.table, v.table)
    BY <2>7, <2>8 DEF KeepsNames
  <2>11. BaseRelocs(v.table) = BaseRelocs(st.table) + Cardinality(AbsoluteIn(U, b, T))
    <3>1. /\ Cardinality(AbsoluteIn(U, b, T \ {x})) \in Nat
          /\ Counted(Cardinality(AbsoluteIn(U, b, T \ {x})), Absolute(b[x]),
                     Cardinality(AbsoluteIn(U, b, T)))
      <4>1. b \in [1 .. n -> U] /\ \A j, k \in 1 .. n : b[j] = b[k] => j = k
        BY <1>4
      <4> QED
        BY ONLY <4>1, IsFiniteSet(U), n \in Nat, T \in SUBSET (1 .. n), x \in T,
           AbsoluteCount, Zenon
    <3> QED
      BY <1>7, <2>7, <2>8, <3>1 DEF Counted, Count
  <2> QED
    BY <2>3, <2>9, <2>10, <2>11
<1>10. G \in SUBSET (SUBSET A)
  OBVIOUS
<1>11. IsFiniteSet(A)
  BY FoldOrder
<1> HIDE DEF G
<1>12. G = SUBSET A
  BY <1>8, <1>9, <1>10, <1>11, SmallSets
<1>13. Good(A)
  BY <1>12 DEF G
<1>14. AbsoluteIn(U, b, A) = AbsoluteUses(U)
  BY <1>4 DEF AbsoluteIn, AbsoluteUses
<1>15. (\A k \in A : Reaches(sym.loc, b[k])) <=> \A i \in U : Reaches(sym.loc, i)
  BY <1>4
<1> QED
  BY <1>6, <1>13, <1>14, <1>15 DEF SumIs

-----------------------------------------------------------------------------
(* Relocating a whole table. *)

\* A symbol can be relocated: it is global, or it has a place that its uses U reach.
SymbolOk(sym, U) == sym.global \/ (sym.loc # INV_ADDR /\ \A i \in U : Reaches(sym.loc, i))

\* N[k] are the uses of the k-th symbol of seq.
UsesListed(seq, N, W) ==
    /\ \A k \in 1 .. Len(seq) : N[k] \subseteq W
    /\ \A j, k \in 1 .. Len(seq) : j # k => N[j] \cap N[k] = {}
    /\ \A k \in 1 .. Len(seq) :
           ~seq[k].global => seq[k].relocat = FALSE /\ Lists(seq[k].relocs, N[k])

\* The absolute ones among the uses of the symbols at T that are not global.
AbsoluteOf(seq, N, T) ==
    UNION {AbsoluteUses(N[k]) : k \in {j \in T : ~seq[j].global}}

LEMMA DisjointCount ==
    ASSUME NEW W, IsFiniteSet(W), NEW B \in SUBSET W, NEW C \in SUBSET W, B \cap C = {}
    PROVE  /\ Cardinality(B) \in Nat /\ Cardinality(C) \in Nat
           /\ Cardinality(B \cup C) = Cardinality(B) + Cardinality(C)
<1>1. IsFiniteSet(B) /\ IsFiniteSet(C)
  BY FS_Subset
<1>2. Cardinality(B) \in Nat /\ Cardinality(C) \in Nat
  BY <1>1, FS_CardinalityType
<1>3. Cardinality(B \cup C) = Cardinality(B) + Cardinality(C) - Cardinality(B \cap C)
  BY <1>1, FS_Union
<1>4. Cardinality(B \cap C) = 0
  BY FS_EmptySet
<1> QED
  BY <1>2, <1>3, <1>4

\* The uses that one more symbol adds.
LEMMA AbsoluteMore ==
    ASSUME NEW seq, NEW N, NEW W, IsFiniteSet(W), UsesListed(seq, N, W),
           NEW T \in SUBSET (1 .. Len(seq)), NEW x \in T
    PROVE  /\ Cardinality(AbsoluteOf(seq, N, T \ {x})) \in Nat
           /\ seq[x].global => AbsoluteOf(seq, N, T) = AbsoluteOf(seq, N, T \ {x})
           /\ ~seq[x].global =>
                  /\ Cardinality(AbsoluteUses(N[x])) \in Nat
                  /\ SumIs(Cardinality(AbsoluteOf(seq, N, T \ {x})),
                           Cardinality(AbsoluteUses(N[x])), Cardinality(AbsoluteOf(seq, N, T)))
<1> DEFINE B == AbsoluteOf(seq, N, T \ {x})
           C == AbsoluteUses(N[x])
<1>1. x \in 1 .. Len(seq)
  OBVIOUS
<1>2. B \in SUBSET W /\ C \in SUBSET W
  BY <1>1 DEF UsesListed, AbsoluteOf, AbsoluteUses
<1>3. B \cap C = {}
  <2>1. ASSUME NEW i \in B, i \in C
        PROVE  FALSE
    <3>1. PICK k \in T \ {x} : i \in N[k]
      BY DEF AbsoluteOf, AbsoluteUses
    <3>2. k \in 1 .. Len(seq) /\ k # x /\ i \in N[x]
      BY <2>1 DEF AbsoluteUses
    <3> QED
      BY <1>1, <3>1, <3>2 DEF UsesListed
  <2> QED
    BY <2>1
<1>4. Cardinality(B) \in Nat /\ Cardinality(C) \in Nat
      /\ Cardinality(B \cup C) = Cardinality(B) + Cardinality(C)
  <2> HIDE DEF B, C
  <2> QED
    BY <1>2, <1>3, DisjointCount
<1>5. seq[x].global => AbsoluteOf(seq, N, T) = B
  <2>1. seq[x].global => {j \in T : ~seq[j].global} = {j \in T \ {x} : ~seq[j].global}
    OBVIOUS
  <2> QED
    BY <2>1 DEF AbsoluteOf
<1>6. ~seq[x].global => AbsoluteOf(seq, N, T) = B \cup C
  <2>1. ~seq[x].global => {j \in T : ~seq[j].global} = {j \in T \ {x} : ~seq[j].global} \cup {x}
    OBVIOUS
  <2> QED
    BY <2>1 DEF AbsoluteOf
<1> QED
  BY <1>4, <1>5, <1>6 DEF SumIs

\* What one symbol does: it fails unless it can be relocated, and gives "$" its absolute
\* relocations if it is not global.
LEMMA OneSymbol ==
    ASSUME NEW s \in Relocating, NEW sym \in SymbolSet, NEW U, IsFiniteSet(U),
           \A i \in U : Address(i) \in Int,
           ~sym.global => sym.relocat = FALSE /\ Lists(sym.relocs, U),
           NEW u, u = RelocateSymbol(s, sym)
    PROVE  /\ u.ok <=> s.ok /\ SymbolOk(sym, U)
           /\ KeepsNames(s.table, u.table)
           /\ u.ok => IF sym.global THEN BaseRelocs(u.table) = BaseRelocs(s.table)
                      ELSE SumIs(BaseRelocs(s.table), Cardinality(AbsoluteUses(U)),
                                 BaseRelocs(u.table))
<1>1. s.table \in TableSet /\ s.ok \in BOOLEAN /\ BaseRelocs(s.table) \in Nat
  BY BaseRelocsType DEF Relocating
<1>2. KeepsNames(s.table, s.table)
  BY DEF KeepsNames
<1>3. CASE sym.global
  <2>1. u = s
    BY <1>3 DEF RelocateSymbol
  <2> QED
    BY <1>1, <1>2, <1>3, <2>1 DEF SymbolOk
<1>4. CASE ~sym.global /\ sym.loc = INV_ADDR
  <2>1. u = [s EXCEPT !.ok = FALSE]
    BY <1>4 DEF RelocateSymbol
  <2>2. u.ok = FALSE /\ u.table = s.table
    BY <2>1 DEF Relocating
  <2> QED
    BY <1>2, <1>4, <2>2 DEF SymbolOk
<1>5. CASE ~sym.global /\ sym.loc # INV_ADDR
  <2>1. sym.global = FALSE /\ sym.relocat = FALSE /\ Lists(sym.relocs, U)
    BY <1>5 DEF SymbolSet
  <2>2. /\ u.ok <=> s.ok /\ \A i \in U : Reaches(sym.loc, i)
        /\ KeepsNames(s.table, u.table)
        /\ SumIs(BaseRelocs(s.table), Cardinality(AbsoluteUses(U)), BaseRelocs(u.table))
    <3>1. sym.loc # INV_ADDR
      BY <1>5
    <3> QED
      BY <2>1, <3>1, SymbolRelocated, Zenon
  <2> QED
    BY <1>5, <2>2 DEF SymbolOk
<1> QED
  BY <1>3, <1>4, <1>5

LEMMA TableRelocated ==
    ASSUME NEW st \in Relocating, NEW seq \in Seq(SymbolSet), NEW N, NEW W, IsFiniteSet(W),
           \A i \in W : Address(i) \in Int, UsesListed(seq, N, W),
           NEW u, u = RelocatedBy(st, seq)
    PROVE  /\ u \in Relocating
           /\ u.ok <=> st.ok /\ \A k \in 1 .. Len(seq) : SymbolOk(seq[k], N[k])
           /\ KeepsNames(st.table, u.table)
           /\ u.ok => SumIs(BaseRelocs(st.table), Cardinality(AbsoluteOf(seq, N, 1 .. Len(seq))),
                            BaseRelocs(u.table))
<1>1. PICK g :
        /\ g[{}] = st
        /\ \A T \in SUBSET (1 .. Len(seq)) :
              /\ g[T] \in Relocating
              /\ T # {} => \E x \in T : g[T] = RelocateSymbol(g[T \ {x}], seq[x])
        /\ u = g[1 .. Len(seq)]
  <2>1. PICK g :
          /\ g[{}] = st
          /\ \A T \in SUBSET (1 .. Len(seq)) :
                /\ g[T] \in Relocating
                /\ T # {} => \E x \in T : g[T] = RelocateSymbol(g[T \ {x}], seq[x])
          /\ RelocatedBy(st, seq) = g[1 .. Len(seq)]
    BY ONLY st \in Relocating, seq \in Seq(SymbolSet), TableSteps
  <2> QED
    BY <2>1, Zenon
<1> DEFINE A == 1 .. Len(seq)
           Good(T) == /\ g[T].ok <=> st.ok /\ \A k \in T : SymbolOk(seq[k], N[k])
                      /\ KeepsNames(st.table, g[T].table)
                      /\ g[T].ok => SumIs(BaseRelocs(st.table), Cardinality(AbsoluteOf(seq, N, T)),
                                          BaseRelocs(g[T].table))
           G == {T \in SUBSET A : Good(T)}
<1>2. BaseRelocs(st.table) \in Nat
  BY BaseRelocsType DEF Relocating
<1>3. {} \in G
  <2>1. AbsoluteOf(seq, N, {}) = {} /\ Cardinality({}) = 0
    BY FS_EmptySet DEF AbsoluteOf
  <2>2. KeepsNames(st.table, st.table)
    BY DEF KeepsNames
  <2>3. SumIs(BaseRelocs(st.table), Cardinality(AbsoluteOf(seq, N, {})), BaseRelocs(st.table))
    <3>1. BaseRelocs(st.table) = BaseRelocs(st.table) + 0
      BY <1>2
    <3> QED
      BY <2>1, <3>1, Zenon DEF SumIs
  <2>4. Good({})
    BY <1>1, <2>2, <2>3
  <2> HIDE DEF Good
  <2> QED
    BY <2>4
<1>4. ASSUME NEW T \in SUBSET A, T # {}, \A x \in T : T \ {x} \in G
      PROVE  T \in G
  <2>1. PICK x \in T : g[T] = RelocateSymbol(g[T \ {x}], seq[x])
    BY <1>1, <1>4
  <2>2. PICK s \in Relocating : s = g[T \ {x}]
    BY <1>1
  <2>3. PICK v : v = g[T]
    OBVIOUS
  <2>4. PICK sym \in SymbolSet : sym = seq[x]
    OBVIOUS
  <2>5. PICK U : U = N[x]
    OBVIOUS
  <2>6. /\ IsFiniteSet(U) /\ \A i \in U : Address(i) \in Int
        /\ ~sym.global => sym.relocat = FALSE /\ Lists(sym.relocs, U)
    <3>1. U \in SUBSET W /\ (~sym.global => sym.relocat = FALSE /\ Lists(sym.relocs, U))
      BY <2>4, <2>5 DEF UsesListed
    <3> QED
      BY <3>1, FS_Subset
  <2>7. v = RelocateSymbol(s, sym)
    BY <2>1, <2>2, <2>3, <2>4
  <2>8. /\ v.ok <=> s.ok /\ SymbolOk(sym, U)
        /\ KeepsNames(s.table, v.table)
        /\ v.ok => IF sym.global THEN BaseRelocs(v.table) = BaseRelocs(s.table)
                   ELSE SumIs(BaseRelocs(s.table), Cardinality(AbsoluteUses(U)),
                              BaseRelocs(v.table))
    BY <2>6, <2>7, OneSymbol, Zenon
  <2>9. /\ s.ok <=> st.ok /\ \A k \in T \ {x} : SymbolOk(seq[k], N[k])
        /\ KeepsNames(st.table, s.table)
        /\ s.ok => SumIs(BaseRelocs(st.table), Cardinality(AbsoluteOf(seq, N, T \ {x})),
                         BaseRelocs(s.table))
    BY <1>4, <2>2
  <2>10. v.ok <=> st.ok /\ \A k \in T : SymbolOk(seq[k], N[k])
    BY <2>4, <2>5, <2>8, <2>9
  <2>11. KeepsNames(st.table, v.table)
    BY <2>8, <2>9 DEF KeepsNames
  <2>12. v.ok => SumIs(BaseRelocs(st.table), Cardinality(AbsoluteOf(seq, N, T)),
                       BaseRelocs(v.table))
    <3>0. /\ Cardinality(AbsoluteOf(seq, N, T \ {x})) \in Nat
          /\ seq[x].global => AbsoluteOf(seq, N, T) = AbsoluteOf(seq, N, T \ {x})
          /\ ~seq[x].global =>
                 /\ Cardinality(AbsoluteUses(N[x])) \in Nat
                 /\ SumIs(Cardinality(AbsoluteOf(seq, N, T \ {x})),
                          Cardinality(AbsoluteUses(N[x])), Cardinality(AbsoluteOf(seq, N, T)))
      BY AbsoluteMore, Zenon
    <3>1. PICK a \in Nat : a = Cardinality(AbsoluteOf(seq, N, T \ {x}))
      BY <3>0
    <3>2. CASE sym.global
      <4>1. AbsoluteOf(seq, N, T) = AbsoluteOf(seq, N, T \ {x})
        BY <2>4, <3>0, <3>2
      <4> QED
        BY <1>2, <2>8, <2>9, <3>1, <3>2, <4>1 DEF SumIs
    <3>3. CASE ~sym.global
      <4>1. PICK e \in Nat : /\ e = Cardinality(AbsoluteUses(U))
                             /\ Cardinality(AbsoluteOf(seq, N, T)) = a + e
        BY <2>4, <2>5, <3>0, <3>1, <3>3 DEF SumIs
      <4> QED
        BY <1>2, <2>8, <2>9, <3>1, <3>3, <4>1 DEF SumIs
    <3> QED
      BY <3>2, <3>3
  <2>13. Good(T)
    BY <2>3, <2>10, <2>11, <2>12
  <2> HIDE DEF Good
  <2> QED
    BY <2>13
<1>5. G \in SUBSET (SUBSET A)
  OBVIOUS
<1>6. IsFiniteSet(A) /\ u \in Relocating
  <2>1. Len(seq) \in Nat
    OBVIOUS
  <2> QED
    BY <1>1, <2>1, FoldOrder
<1> HIDE DEF G
<1>7. G = SUBSET A
  BY <1>3, <1>4, <1>5, <1>6, SmallSets
<1>8. Good(A)
  BY <1>7 DEF G
<1> QED
  BY <1>1, <1>6, <1>8

GoodUses ==
    \A i \in Uses : \/ Global(Target(i))
                    \/ Defined(Target(i)) /\ Reaches(Place(Target(i)), i)

BaseUses == {i \in Uses : Absolute(i) /\ ~Global(Target(i))}

-----------------------------------------------------------------------------
(* The names of the source. *)

\* A name in a statement is a label of the line.
LEMMA LabelOfStmt ==
    ASSUME NoDollar, program \in Programs, NEW i \in 1 .. Len(program)
    PROVE  /\ Kind(StmtOf(i), 2) = "LABEL" =>
                  StmtOf(i)[2].value \in Names /\ StmtOf(i)[2].value # REL_NAME
           /\ Labelled(program[i]) => LabelOf(i) \in Names /\ LabelOf(i) # REL_NAME
<1> DEFINE cur == program[i]
<1>1. i \in DOMAIN program /\ cur \in Seq(UNION {{cur[j]} : j \in DOMAIN cur})
  <2>1. program \in Seq(UNION {{program[k]} : k \in DOMAIN program})
    BY ProgramsAssumption
  <2> QED
    BY <2>1, ProgramsAssumption
<1>2. \A j \in DOMAIN cur : cur[j].kind = "LABEL" => cur[j].value # REL_NAME
  BY <1>1 DEF NoDollar
<1>3. /\ Len(StmtOf(i)) \in Nat
      /\ \A j \in 1 .. Len(StmtOf(i)) : SourceToken(StmtOf(i)[j])
      /\ Labelled(program[i]) => LabelOf(i) \in Names
  BY TokensOfLine
<1>4. StmtOf(i) = Statement(cur) /\ LabelOf(i) = cur[1].value
  BY DEF StmtOf, LabelOf
<1> HIDE DEF cur
<1>5. DOMAIN cur = 1 .. Len(cur) /\ Len(cur) \in Nat
  BY <1>1
<1>6. ASSUME Labelled(cur)
      PROVE  cur[1].value # REL_NAME
  <2>1. 1 <= Len(cur) /\ cur[1].kind = "LABEL"
    BY <1>6 DEF Labelled, Kind
  <2> QED
    BY <1>2, <1>5, <2>1
<1>7. ASSUME Kind(StmtOf(i), 2) = "LABEL"
      PROVE  StmtOf(i)[2].value \in Names /\ StmtOf(i)[2].value # REL_NAME
  <2>1. 2 <= Len(StmtOf(i)) /\ StmtOf(i)[2].kind = "LABEL"
    BY <1>7 DEF Kind
  <2>2. StmtOf(i)[2].value \in Names
    BY <1>3, <2>1 DEF SourceToken
  <2>3. PICK k \in 1 .. Len(cur) : StmtOf(i)[2] = cur[k]
    <3>1. CASE Labelled(cur)
      <4>1. StmtOf(i) = SubSeq(cur, 3, Len(cur))
        BY <1>4, <3>1 DEF Statement
      <4>2. CASE Len(cur) < 4
        <5>1. Len(StmtOf(i)) < 2
          BY <1>1, <1>5, <4>1, <4>2
        <5> QED
          BY <1>3, <2>1, <5>1
      <4>3. CASE Len(cur) >= 4
        <5>1. StmtOf(i)[2] = cur[4]
          BY <1>1, <1>5, <4>1, <4>3
        <5> QED
          BY <1>5, <4>3, <5>1
      <4> QED
        BY <1>5, <4>2, <4>3
    <3>2. CASE ~Labelled(cur)
      <4>1. StmtOf(i) = cur
        BY <1>4, <3>2 DEF Statement
      <4> QED
        BY <1>5, <2>1, <4>1
    <3> QED
      BY <3>1, <3>2
  <2> QED
    BY <1>2, <1>5, <2>1, <2>2, <2>3
<1> QED
  BY <1>3, <1>4, <1>6, <1>7 DEF cur

\* What all lines say of a name.
LEMMA WholeSource ==
    ASSUME NoDollar, program \in Programs, GoodUpTo(Len(program)), NEW n, n = Len(program)
    PROVE  /\ n \in Nat /\ DOMAIN program = 1 .. n /\ IsFiniteSet(Uses) /\ Uses \subseteq 1 .. n
           /\ \A i \in Uses : /\ Target(i) \in Names /\ Target(i) # REL_NAME
                              /\ Address(i) \in Nat
           /\ \A name : /\ UsesOf(n, name) = {i \in Uses : Target(i) = name}
                        /\ GlobBy(n, name) <=> Global(name)
                        /\ LabelledBy(n, name) <=> Defined(name)
           /\ \A name : Global(name) => name \in Names /\ name # REL_NAME
           /\ \A name : Defined(name) => name \in Names /\ name # REL_NAME
<1>1. n \in Nat /\ DOMAIN program = 1 .. n
  BY ProgramsAssumption
<1>2. Uses \subseteq 1 .. n /\ IsFiniteSet(1 .. n)
  <2>1. IsFiniteSet(1 .. n)
    BY <1>1, FoldOrder
  <2> QED
    BY <1>1, <2>1 DEF Uses
<1>3. IsFiniteSet(Uses)
  BY <1>2, FS_Subset
<1>4. \A i \in Uses : Target(i) \in Names /\ Target(i) # REL_NAME
  BY <1>1, LabelOfStmt DEF Uses, Target
<1>5. ASSUME NEW i \in Uses
      PROVE  Address(i) \in Nat
  <2>1. i \in 1 .. n + 1
    BY <1>1, <1>2
  <2> QED
    BY <1>1, <2>1, AddressGrows
<1>6. ASSUME NEW name
      PROVE  /\ UsesOf(n, name) = {i \in Uses : Target(i) = name}
             /\ GlobBy(n, name) <=> Global(name)
             /\ LabelledBy(n, name) <=> Defined(name)
  <2>1. UsesOf(n, name) = {i \in Uses : Target(i) = name}
    BY <1>2 DEF UsesOf
  <2>2. GlobBy(n, name) <=> Global(name)
    BY <1>1 DEF GlobBy, Global
  <2>3. LabelledBy(n, name) <=> Defined(name)
    BY <1>1 DEF LabelledBy, Defined, LinesWith
  <2> QED
    BY <2>1, <2>2, <2>3
<1>7. ASSUME NEW name, Global(name)
      PROVE  name \in Names /\ name # REL_NAME
  <2>1. PICK i \in DOMAIN program : Is(StmtOf(i), ".glob") /\ StmtOf(i)[2].value = name
    BY <1>7 DEF Global
  <2>2. i \in 1 .. Len(program) /\ GoodLine(i)
    BY <1>1, <2>1 DEF GoodUpTo
  <2>3. Kind(StmtOf(i), 2) = "LABEL"
    BY <2>1, <2>2, GoodGlob DEF GoodLine
  <2> QED
    BY <2>1, <2>2, <2>3, LabelOfStmt
<1>8. ASSUME NEW name, Defined(name)
      PROVE  name \in Names /\ name # REL_NAME
  <2>1. PICK i \in DOMAIN program : Labelled(program[i]) /\ LabelOf(i) = name
    BY <1>8 DEF Defined, LinesWith
  <2> QED
    BY <1>1, <2>1, LabelOfStmt
<1> QED
  BY <1>1, <1>2, <1>3, <1>4, <1>5, <1>6, <1>7, <1>8

\* The place of a label is the one of its symbol.
LEMMA PlaceOf ==
    ASSUME program \in Programs, NEW t, PlacesMatch(t, Len(program)),
           NEW name \in Names, Defined(name)
    PROVE  /\ Named(t, name).loc = Place(name)
           /\ Place(name) = Address(CHOOSE i \in LinesWith(name) : TRUE)
<1>1. DOMAIN program = 1 .. Len(program)
  BY ProgramsAssumption
<1>2. PICK i : i = (CHOOSE j \in LinesWith(name) : TRUE)
  OBVIOUS
<1>3. i \in LinesWith(name)
  BY <1>2 DEF Defined
<1>4. i \in 1 .. Len(program) /\ Labelled(program[i]) /\ LabelOf(i) = name
  BY <1>1, <1>3 DEF LinesWith
<1>5. Named(t, name).loc = Address(i)
  BY <1>4 DEF PlacesMatch
<1> QED
  BY <1>2, <1>5 DEF Place

-----------------------------------------------------------------------------
(* What relocating the object's own table does. *)

\* "$" is made a global base first.
LEMMA BaseAdded ==
    ASSUME NEW t \in TableSet, ~Has(t, REL_NAME), NEW m \in Objects
    PROVE  \E v \in TableSet :
             /\ \A name : Has(v, name) <=> Has(t, name) \/ name = REL_NAME
             /\ \A name : name # REL_NAME => Named(v, name) = Named(t, name)
             /\ Named(v, REL_NAME).global /\ BaseRelocs(v) = 0
             /\ [ok |-> TRUE, mem |-> m, table |-> v] \in Relocating
             /\ xreloc_relocate(t, m) = RelocatedBy([ok |-> TRUE, mem |-> m, table |-> v], v.syms)
<1> DEFINE u == findsym(t, REL_NAME)
           i == IndexOf(u, REL_NAME)
           old == u.syms[i]
           rel == [old EXCEPT !.relocat = TRUE, !.global = TRUE, !.loc = 0]
           v == [u EXCEPT !.syms[i] = rel]
<1>1. /\ u \in TableSet /\ Has(u, REL_NAME)
      /\ \A name : /\ Has(u, name) <=> Has(t, name) \/ name = REL_NAME
                   /\ Named(u, name) = Named(t, name)
  BY FindsymType, FindsymNamed, RelName
<1>2. old = NewSymbol(REL_NAME)
  <2> HIDE DEF u
  <2>1. Named(u, REL_NAME) = NewSymbol(REL_NAME)
    BY <1>1 DEF Named
  <2> QED
    BY <1>1, <2>1 DEF Named
<1>3. rel \in SymbolSet /\ rel.name = REL_NAME /\ rel.global = TRUE /\ rel.relocs = << >>
  <2> DEFINE a == [NewSymbol(REL_NAME) EXCEPT !.relocat = TRUE]
             b == [a EXCEPT !.global = TRUE]
             d == [b EXCEPT !.loc = 0]
  <2>1. NewSymbol(REL_NAME) \in SymbolSet
        /\ NewSymbol(REL_NAME).name = REL_NAME /\ NewSymbol(REL_NAME).relocs = << >>
    BY RelName, Sizes DEF NewSymbol, SymbolSet
  <2>2. a \in SymbolSet /\ a.name = REL_NAME /\ a.relocs = << >>
    BY <2>1 DEF SymbolSet
  <2> HIDE DEF a
  <2>3. b \in SymbolSet /\ b.name = REL_NAME /\ b.relocs = << >> /\ b.global = TRUE
    BY <2>2 DEF SymbolSet
  <2> HIDE DEF b
  <2>4. d \in SymbolSet /\ d.name = REL_NAME /\ d.relocs = << >> /\ d.global = TRUE
    BY <2>3 DEF SymbolSet
  <2>5. rel = d
    BY <1>2 DEF a, b
  <2> HIDE DEF rel
  <2> QED
    BY <2>4, <2>5
<1>4. xreloc_relocate(t, m) = RelocatedBy([ok |-> TRUE, mem |-> m, table |-> v], v.syms)
  BY DEF xreloc_relocate, Symbol, RelocatedBy
<1>5. \A name : /\ v \in TableSet /\ (Has(v, name) <=> Has(u, name))
                /\ Named(v, name) = IF name = REL_NAME THEN rel ELSE Named(u, name)
  <2> SUFFICES ASSUME NEW name
               PROVE  /\ v \in TableSet /\ (Has(v, name) <=> Has(u, name))
                      /\ Named(v, name) = IF name = REL_NAME THEN rel ELSE Named(u, name)
    OBVIOUS
  <2> HIDE DEF u, old, rel
  <2> QED
    BY <1>1, <1>3, ReplacedNamed
<1> HIDE DEF u, i, old, rel, v
<1>6. v \in TableSet /\ Has(v, REL_NAME)
  BY <1>1, <1>5
<1>7. [ok |-> TRUE, mem |-> m, table |-> v] \in Relocating
  BY <1>6 DEF Relocating
<1>8. Named(v, REL_NAME).global /\ BaseRelocs(v) = 0
  <2>1. Named(v, REL_NAME) = rel
    BY <1>5
  <2>2. Len(<< >>) = 0
    OBVIOUS
  <2> QED
    BY <1>3, <2>1, <2>2 DEF BaseRelocs
<1> QED
  BY <1>1, <1>4, <1>5, <1>6, <1>7, <1>8

\* Relocating fails exactly if a label that is used is not global and has no place or
\* one that does not reach; and "$" gets the absolute uses of labels that are not global.
LEMMA RelocateDone ==
    ASSUME NoDollar, program \in Programs, GoodUpTo(Len(program)), NEW t \in TableSet,
           Matches(t, Len(program), Len(program)), NEW m \in Objects,
           NEW done, done = xreloc_relocate(t, m)
    PROVE  /\ done \in Relocating /\ (done.ok <=> GoodUses)
           /\ \A name : Has(done.table, name) <=> Has(t, name) \/ name = REL_NAME
           /\ \A name : name # REL_NAME => Named(done.table, name) = Named(t, name)
           /\ Named(done.table, REL_NAME).global
           /\ done.ok => BaseRelocs(done.table) = Cardinality(BaseUses)
<1>1. PICK n : n = Len(program)
  OBVIOUS
<1>2. /\ n \in Nat /\ DOMAIN program = 1 .. n /\ IsFiniteSet(Uses) /\ Uses \subseteq 1 .. n
      /\ \A i \in Uses : Target(i) \in Names /\ Target(i) # REL_NAME /\ Address(i) \in Nat
      /\ \A name : /\ UsesOf(n, name) = {i \in Uses : Target(i) = name}
                   /\ GlobBy(n, name) <=> Global(name)
                   /\ LabelledBy(n, name) <=> Defined(name)
      /\ \A name : Global(name) => name \in Names /\ name # REL_NAME
      /\ \A name : Defined(name) => name \in Names /\ name # REL_NAME
  BY <1>1, WholeSource
<1>3. Matches(t, n, n)
  BY <1>1
<1>4. ~Has(t, REL_NAME)
  <2>1. UsesOf(n, REL_NAME) = {} /\ ~GlobBy(n, REL_NAME) /\ ~LabelledBy(n, REL_NAME)
    BY <1>2
  <2> QED
    BY <1>3, <2>1, RelName DEF Matches, NamesMatch
<1>5. PICK v \in TableSet :
        /\ \A name : Has(v, name) <=> Has(t, name) \/ name = REL_NAME
        /\ \A name : name # REL_NAME => Named(v, name) = Named(t, name)
        /\ Named(v, REL_NAME).global /\ BaseRelocs(v) = 0
        /\ [ok |-> TRUE, mem |-> m, table |-> v] \in Relocating
        /\ xreloc_relocate(t, m) = RelocatedBy([ok |-> TRUE, mem |-> m, table |-> v], v.syms)
  BY <1>4, BaseAdded, Zenon
<1>6. PICK st \in Relocating : st = [ok |-> TRUE, mem |-> m, table |-> v]
  BY <1>5
<1>7. PICK seq \in Seq(SymbolSet) : seq = v.syms
  BY <1>5 DEF TableSet
<1>8. st.ok = TRUE /\ st.table = v /\ done = RelocatedBy(st, seq)
  BY <1>5, <1>6, <1>7
<1>9. PICK K : K = 1 .. Len(seq)
  OBVIOUS
<1>10. K = DOMAIN seq /\ \A k \in K : seq[k] \in SymbolSet
  BY <1>9
\* The symbols of the table by their names.
<1>11. ASSUME NEW k \in K
       PROVE  /\ seq[k].name \in Names
              /\ seq[k].global <=> seq[k].name = REL_NAME \/ Global(seq[k].name)
              /\ ~seq[k].global =>
                     /\ seq[k].relocat = FALSE
                     /\ Lists(seq[k].relocs, UsesOf(n, seq[k].name))
                     /\ seq[k].loc # INV_ADDR <=> Defined(seq[k].name)
                     /\ Defined(seq[k].name) => seq[k].loc = Place(seq[k].name)
  <2>1. seq[k].name \in Names /\ Named(v, seq[k].name) = seq[k]
    BY <1>7, <1>10, NamedAt
  <2>2. PICK name \in Names : name = seq[k].name
    BY <2>1
  <2>3. PICK sym : sym = seq[k]
    OBVIOUS
  <2>4. CASE name = REL_NAME
    BY <1>5, <2>1, <2>2, <2>4
  <2>5. CASE name # REL_NAME
    <3>1. Named(t, name) = sym
      BY <1>5, <2>1, <2>2, <2>3, <2>5
    <3>2. /\ sym.global <=> GlobBy(n, name)
          /\ sym.relocat = FALSE /\ Lists(sym.relocs, UsesOf(n, name))
      BY <1>3, <3>1 DEF Matches, UsesMatch
    <3>3. sym.loc # INV_ADDR <=> Defined(name)
      BY <1>2, <1>3, <3>1 DEF Matches, PlacesMatch
    <3>4. Defined(name) => sym.loc = Place(name)
      BY <1>1, <1>3, <3>1, PlaceOf DEF Matches
    <3> QED
      BY <1>2, <2>2, <2>3, <2>5, <3>2, <3>3, <3>4
  <2> QED
    BY <2>4, <2>5
<1>12. ASSUME NEW i \in Uses
       PROVE  \E k \in K : seq[k].name = Target(i)
  <2>1. i \in UsesOf(n, Target(i)) /\ Target(i) \in Names
    BY <1>2
  <2>2. Has(t, Target(i))
    BY <1>3, <2>1 DEF Matches, NamesMatch
  <2>3. Has(v, Target(i))
    BY <1>5, <2>2
  <2> QED
    BY <1>7, <1>10, <2>3 DEF Has
<1>13. \A j, k \in K : seq[j].name = seq[k].name => j = k
  BY <1>5, <1>7, <1>10 DEF TableSet, NamedOnce
<1> DEFINE N == [k \in K |-> UsesOf(n, seq[k].name)]
<1>14. \A k \in K : N[k] = {i \in Uses : Target(i) = seq[k].name}
  BY <1>2
<1>15. \A k \in K : ~seq[k].global => seq[k].relocat = FALSE /\ Lists(seq[k].relocs, N[k])
  BY <1>11
<1> HIDE DEF N
<1>16. UsesListed(seq, N, Uses)
  <2>1. \A j, k \in K : j # k => N[j] \cap N[k] = {}
    BY <1>13, <1>14
  <2> QED
    BY <1>9, <1>14, <1>15, <2>1 DEF UsesListed
<1>17. /\ done \in Relocating
       /\ done.ok <=> st.ok /\ \A k \in 1 .. Len(seq) : SymbolOk(seq[k], N[k])
       /\ KeepsNames(st.table, done.table)
       /\ done.ok => SumIs(BaseRelocs(st.table), Cardinality(AbsoluteOf(seq, N, 1 .. Len(seq))),
                           BaseRelocs(done.table))
  <2>1. IsFiniteSet(Uses) /\ \A i \in Uses : Address(i) \in Int
    BY <1>2
  <2> QED
    BY <1>8, <1>16, <2>1, TableRelocated, Zenon
<1>18. done.ok <=> GoodUses
  <2>1. done.ok <=> \A k \in K : SymbolOk(seq[k], N[k])
    BY <1>8, <1>9, <1>17
  <2>2. ASSUME GoodUses, NEW k \in K
        PROVE  SymbolOk(seq[k], N[k])
    <3>1. CASE seq[k].global
      BY <3>1 DEF SymbolOk
    <3>2. CASE ~seq[k].global
      <4>1. PICK name : name = seq[k].name
        OBVIOUS
      <4>2. name \in Names /\ name # REL_NAME /\ ~Global(name)
        BY <1>11, <3>2, <4>1
      <4>3. \A i \in N[k] : Defined(name) /\ Reaches(Place(name), i)
        BY <1>14, <2>2, <4>1, <4>2 DEF GoodUses
      <4>4. Has(t, name)
        <5>1. Has(v, name)
          BY <1>7, <1>10, <4>1 DEF Has
        <5> QED
          BY <1>5, <4>2, <5>1
      <4>5. Defined(name)
        <5>1. LabelledBy(n, name) \/ GlobBy(n, name) \/ UsesOf(n, name) # {}
          BY <1>3, <4>2, <4>4 DEF Matches, NamesMatch
        <5>2. UsesOf(n, name) = N[k]
          BY <1>2, <1>14, <4>1
        <5> QED
          BY <1>2, <4>2, <4>3, <5>1, <5>2
      <4>6. seq[k].loc # INV_ADDR /\ seq[k].loc = Place(name)
        BY <1>11, <3>2, <4>1, <4>5
      <4> QED
        BY <4>3, <4>6 DEF SymbolOk
    <3> QED
      BY <3>1, <3>2
  <2>3. ASSUME \A k \in K : SymbolOk(seq[k], N[k]), NEW i \in Uses, ~Global(Target(i))
        PROVE  Defined(Target(i)) /\ Reaches(Place(Target(i)), i)
    <3>1. PICK k \in K : seq[k].name = Target(i)
      BY <1>12
    <3>2. ~seq[k].global
      BY <1>2, <1>11, <2>3, <3>1
    <3>3. seq[k].loc # INV_ADDR /\ i \in N[k] /\ Reaches(seq[k].loc, i)
      BY <1>14, <2>3, <3>1, <3>2 DEF SymbolOk
    <3> QED
      BY <1>11, <3>1, <3>2, <3>3
  <2> QED
    BY <2>1, <2>2, <2>3 DEF GoodUses
<1>19. done.ok => BaseRelocs(done.table) = Cardinality(BaseUses)
  <2>1. AbsoluteOf(seq, N, K) = BaseUses
    <3>1. ASSUME NEW i \in AbsoluteOf(seq, N, K)
          PROVE  i \in BaseUses
      <4>1. PICK k \in K : ~seq[k].global /\ i \in N[k] /\ Absolute(i)
        BY DEF AbsoluteOf, AbsoluteUses
      <4>2. i \in Uses /\ Target(i) = seq[k].name
        BY <1>14, <4>1
      <4>3. ~Global(Target(i))
        BY <1>11, <4>1, <4>2
      <4> QED
        BY <4>1, <4>2, <4>3 DEF BaseUses
    <3>2. ASSUME NEW i \in BaseUses
          PROVE  i \in AbsoluteOf(seq, N, K)
      <4>1. i \in Uses /\ Absolute(i) /\ ~Global(Target(i))
        BY DEF BaseUses
      <4>2. PICK k \in K : seq[k].name = Target(i)
        BY <1>12, <4>1
      <4>3. ~seq[k].global
        BY <1>2, <1>11, <4>1, <4>2
      <4>4. i \in N[k]
        BY <1>14, <4>1, <4>2
      <4> QED
        BY <4>1, <4>3, <4>4 DEF AbsoluteOf, AbsoluteUses
    <3> QED
      BY <3>1, <3>2
  <2>2. BaseUses \subseteq Uses
    BY DEF BaseUses
  <2>3. Cardinality(BaseUses) \in Nat
    BY <1>2, <2>2, FS_Subset, FS_CardinalityType
  <2>4. 0 + Cardinality(BaseUses) = Cardinality(BaseUses)
    BY <2>3
  <2> QED
    BY <1>5, <1>8, <1>9, <1>17, <2>1, <2>4 DEF SumIs
<1>20. \A name : Has(done.table, name) <=> Has(t, name) \/ name = REL_NAME
  BY <1>5, <1>8, <1>17 DEF KeepsNames
<1>21. \A name : name # REL_NAME => Named(done.table, name) = Named(t, name)
  BY <1>5, <1>8, <1>17 DEF KeepsNames
<1>22. Named(done.table, REL_NAME).global
  BY <1>5, <1>8, <1>17 DEF KeepsNames
<1> QED
  BY <1>17, <1>18, <1>19, <1>20, <1>21, <1>22

-----------------------------------------------------------------------------
(* How much the table takes. *)

\* The memory while the table is stored, which a long name can leave.
Wide    == UNION {[D -> Byte] : D \in SUBSET Nat}
Storage == [ok : BOOLEAN, mem : Wide, ent : Nat]

LEMMA WideWrite ==
    ASSUME NEW m \in Wide, NEW a \in Nat, NEW bytes \in Seq(Byte)
    PROVE  Write(m, a, bytes) \in Wide
<1>1. PICK D \in SUBSET Nat : m \in [D -> Byte]
  BY DEF Wide
<1> DEFINE E == D \cup a .. a + Len(bytes) - 1
<1>2. Len(bytes) \in Nat /\ \A k \in 1 .. Len(bytes) : bytes[k] \in Byte
  OBVIOUS
<1>3. E \subseteq Nat
  <2>1. a .. a + Len(bytes) - 1 \subseteq Nat
    BY <1>2
  <2> QED
    BY <2>1
<1>4. DOMAIN m = D
  BY <1>1
<1>5. ASSUME NEW x \in E
      PROVE  (IF x \in a .. a + Len(bytes) - 1 THEN bytes[x - a + 1] ELSE m[x]) \in Byte
  <2>1. CASE x \in a .. a + Len(bytes) - 1
    <3>1. x - a + 1 \in 1 .. Len(bytes)
      BY <1>2, <2>1
    <3> QED
      BY <1>2, <2>1, <3>1
  <2>2. CASE x \notin a .. a + Len(bytes) - 1
    BY <1>1, <2>2
  <2> QED
    BY <2>1, <2>2
<1> DEFINE w == [x \in E |->
                   IF x \in a .. a + Len(bytes) - 1 THEN bytes[x - a + 1] ELSE m[x]]
<1>6. Write(m, a, bytes) = w
  BY <1>4 DEF Write
<1>7. w \in [E -> Byte]
  BY <1>5
<1> HIDE DEF w, E
<1> QED
  BY <1>3, <1>6, <1>7 DEF Wide

\* The bytes that a symbol takes.
EntryLen(sym) == IF sym.global THEN Len(EntryBytes(sym)) ELSE 0

LEMMA EntryLenType ==
    ASSUME NEW sym \in SymbolSet
    PROVE  EntryLen(sym) \in Nat /\ (sym.global => EntryLen(sym) >= Size(sym))
<1>1. /\ Len(sym.name) \in Nat /\ Size(sym) \in Nat
      /\ Len(EntryBytes(sym)) = Len(sym.name) + 5 + Size(sym)
  BY EntryBytesType
<1>2. PICK len \in Nat : len = Len(EntryBytes(sym)) /\ len >= Size(sym)
  BY <1>1
<1> QED
  BY <1>2 DEF EntryLen

\* One entry takes its bytes, or the end of the memory is reached with it.
Ends(s, total) == IF s.ok THEN s.ent = total ELSE total >= XIS_MEM_SIZE

LEMMA EntryEnds ==
    ASSUME NEW s \in Storage, NEW sym \in SymbolSet, NEW total \in Nat, Ends(s, total),
           NEW u, u = StoreEntry(s, sym)
    PROVE  u \in Storage /\ Ends(u, total + EntryLen(sym))
<1>1. s.ok \in BOOLEAN /\ s.mem \in Wide /\ s.ent \in Nat /\ XIS_MEM_SIZE \in Nat
  BY Sizes DEF Storage
<1>2. EntryLen(sym) \in Nat /\ (sym.global => EntryLen(sym) >= Size(sym)) /\ Size(sym) \in Nat
  BY EntryLenType, EntryBytesType
<1>3. CASE ~sym.global
  <2>1. u = s /\ EntryLen(sym) = 0
    BY <1>3 DEF StoreEntry, EntryLen
  <2> QED
    BY <2>1
<1>4. CASE sym.global /\ ~s.ok
  <2>1. u = s
    BY <1>4 DEF StoreEntry
  <2>2. total >= XIS_MEM_SIZE
    BY <1>4 DEF Ends
  <2>3. total + EntryLen(sym) >= XIS_MEM_SIZE
    BY <1>1, <1>2, <2>2
  <2> QED
    BY <1>4, <2>1, <2>3 DEF Ends
<1>5. CASE sym.global /\ s.ok /\ s.ent + Size(sym) >= XIS_MEM_SIZE
  <2>1. u = [s EXCEPT !.ok = FALSE]
    BY <1>5 DEF StoreEntry
  <2>2. u \in Storage /\ ~u.ok
    BY <2>1 DEF Storage
  <2>3. s.ent = total
    BY <1>5 DEF Ends
  <2>4. total + EntryLen(sym) >= XIS_MEM_SIZE
    BY <1>1, <1>2, <1>5, <2>3
  <2> QED
    BY <2>2, <2>4 DEF Ends
<1>6. CASE sym.global /\ s.ok /\ ~(s.ent + Size(sym) >= XIS_MEM_SIZE)
  <2>1. u = [ok |-> TRUE, mem |-> Write(s.mem, s.ent, EntryBytes(sym)),
             ent |-> s.ent + Len(EntryBytes(sym))]
    BY <1>6 DEF StoreEntry
  <2>2. Write(s.mem, s.ent, EntryBytes(sym)) \in Wide
    BY <1>1, EntryBytesType, WideWrite
  <2>3. EntryLen(sym) = Len(EntryBytes(sym)) /\ s.ent = total
    BY <1>6 DEF EntryLen, Ends
  <2>4. s.ent + Len(EntryBytes(sym)) \in Nat
    BY <1>1, <1>2, <2>3
  <2>5. u \in Storage /\ u.ok /\ u.ent = total + EntryLen(sym)
    BY <2>1, <2>2, <2>3, <2>4 DEF Storage
  <2> QED
    BY <2>5 DEF Ends
<1> QED
  BY <1>3, <1>4, <1>5, <1>6

\* So do all entries of a table.
LEMMA TableEnds ==
    ASSUME NEW st \in Storage, st.ok, NEW seq \in Seq(SymbolSet),
           NEW h, SumsTo([k \in 1 .. Len(seq) |-> EntryLen(seq[k])], 1 .. Len(seq), h),
           NEW u, u = StoredBy(st, seq)
    PROVE  u \in Storage /\ Ends(u, st.ent + h[1 .. Len(seq)])
<1>1. \A s \in Storage : \A sym \in SymbolSet : StoreEntry(s, sym) \in Storage
  <2> SUFFICES ASSUME NEW s \in Storage, NEW sym \in SymbolSet
               PROVE  StoreEntry(s, sym) \in Storage
    OBVIOUS
  <2>1. PICK total \in Nat : Ends(s, total)
    <3>1. CASE s.ok
      BY <3>1 DEF Ends, Storage
    <3>2. CASE ~s.ok
      <4>1. XIS_MEM_SIZE \in Nat /\ XIS_MEM_SIZE >= XIS_MEM_SIZE
        BY Sizes
      <4> QED
        BY <3>2, <4>1 DEF Ends
    <3> QED
      BY <3>1, <3>2
  <2> QED
    BY <2>1, EntryEnds
<1>2. PICK g :
        /\ g[{}] = st
        /\ \A T \in SUBSET (1 .. Len(seq)) :
              /\ g[T] \in Storage
              /\ T # {} => \E x \in T : g[T] = StoreEntry(g[T \ {x}], seq[x])
        /\ u = g[1 .. Len(seq)]
  <2>1. PICK g : StoreSteps(Storage, st, seq, u, g)
    BY <1>1, EntrySteps, Zenon
  <2> QED
    BY <2>1 DEF StoreSteps
<1> DEFINE A == 1 .. Len(seq)
           f == [k \in A |-> EntryLen(seq[k])]
           G == {T \in SUBSET A : Ends(g[T], st.ent + h[T])}
<1>3. /\ h[{}] = 0 /\ \A T \in SUBSET A : h[T] \in Nat
      /\ \A T \in SUBSET A : \A x \in T : h[T] = EntryLen(seq[x]) + h[T \ {x}]
  <2>1. SumsTo(f, A, h)
    OBVIOUS
  <2>2. \A x \in A : f[x] = EntryLen(seq[x])
    OBVIOUS
  <2> HIDE DEF f, A
  <2> QED
    BY <2>1, <2>2 DEF SumsTo
<1>4. st.ent \in Nat
  BY DEF Storage
<1>5. {} \in G
  <2>1. st.ent + h[{}] = st.ent
    BY <1>3, <1>4
  <2> QED
    BY <1>2, <2>1 DEF Ends
<1>6. ASSUME NEW T \in SUBSET A, T # {}, \A x \in T : T \ {x} \in G
      PROVE  T \in G
  <2>1. PICK x \in T : g[T] = StoreEntry(g[T \ {x}], seq[x])
    BY <1>2, <1>6
  <2>2. PICK s \in Storage : s = g[T \ {x}]
    BY <1>2
  <2>3. PICK sym \in SymbolSet : sym = seq[x]
    OBVIOUS
  <2>4. PICK w \in Nat : w = h[T \ {x}]
    BY <1>3
  <2>5. PICK total \in Nat : total = st.ent + w
    BY <1>4
  <2>6. Ends(s, total)
    BY <1>6, <2>2, <2>4, <2>5
  <2>7. PICK v : v = g[T]
    OBVIOUS
  <2>8. v = StoreEntry(s, sym)
    BY <2>1, <2>2, <2>3, <2>7
  <2>9. Ends(v, total + EntryLen(sym))
    BY <2>6, <2>8, EntryEnds
  <2>10. total + EntryLen(sym) = st.ent + h[T]
    <3>1. h[T] = EntryLen(sym) + w /\ EntryLen(sym) \in Nat
      BY <1>3, <2>3, <2>4, EntryLenType
    <3> QED
      BY <1>4, <2>5, <3>1
  <2>11. Ends(g[T], st.ent + h[T])
    BY <2>7, <2>9, <2>10
  <2> QED
    BY <2>11
<1>7. G \in SUBSET (SUBSET A)
  OBVIOUS
<1>8. IsFiniteSet(A)
  <2>1. Len(seq) \in Nat
    OBVIOUS
  <2> QED
    BY <2>1, FoldOrder
<1> HIDE DEF G
<1>9. G = SUBSET A
  BY <1>5, <1>6, <1>7, <1>8, SmallSets
<1>10. Ends(g[A], st.ent + h[A])
  BY <1>9 DEF G
<1> QED
  BY <1>2, <1>10

\* The table does not fit exactly if the file, whose end is at an even address, does not.
FileEnd(n) == n + (n % 2) + 6

LEMMA StoreFits ==
    ASSUME NEW t \in TableSet, NEW m \in Objects, NEW p \in Nat, NEW h,
           SumsTo([k \in 1 .. Len(t.syms) |-> EntryLen(t.syms[k])], 1 .. Len(t.syms), h),
           NEW total, total = xreloc_store_table(t, m, p, 0).size
    PROVE  total = 0 <=> FileEnd(p + 2 + h[1 .. Len(t.syms)]) > XIS_MEM_SIZE
<1> DEFINE stored == xreloc_store_table(t, m, p, 0)
           start == [ok |-> TRUE, mem |-> Write(m, 0 + p, <<0>>), ent |-> 0 + p + 1]
           entries == StoredBy(start, t.syms)
           ent == RoundUp(entries.ent + 1, 0)
           M == XIS_MEM_SIZE
<1>1. PICK w \in Nat : w = h[1 .. Len(t.syms)]
  BY DEF SumsTo
<1>2. M \in Nat /\ M % 2 = 0
  BY Sizes
<1>3. PICK n \in Nat : n = p + 2 + w
  OBVIOUS
<1>4. FileEnd(n) \in Nat /\ FileEnd(n) >= n + 6 /\ FileEnd(n) <= n + 7
  BY DEF FileEnd
<1>5. CASE 0 + p >= M
  <2>1. total = 0
    BY <1>5 DEF xreloc_store_table
  <2>2. FileEnd(n) > M
    BY <1>2, <1>3, <1>4, <1>5
  <2> QED
    BY <1>1, <1>3, <2>1, <2>2
<1>6. CASE ~(0 + p >= M)
  <2>1. total = IF ~entries.ok THEN 0
               ELSE IF entries.ent + 1 + XIS_TRAILER_SIZE > M THEN 0 ELSE ent + 6 - 0
    BY <1>6 DEF xreloc_store_table, StoredBy
  <2>2. start \in Storage /\ start.ok /\ start.ent = p + 1
    <3>1. m \in Wide
      <4>1. 0 .. ObjSize - 1 \subseteq Nat
        OBVIOUS
      <4>2. PICK D \in SUBSET (0 .. ObjSize - 1) : m \in [D -> Byte]
        BY DEF Objects
      <4>3. D \in SUBSET Nat
        BY <4>1, <4>2
      <4> QED
        BY <4>2, <4>3 DEF Wide
    <3>2. <<0>> \in Seq(Byte)
      BY DEF Byte
    <3>3. Write(m, 0 + p, <<0>>) \in Wide
      <4>1. 0 + p \in Nat
        OBVIOUS
      <4> QED
        BY <3>1, <3>2, <4>1, WideWrite
    <3> QED
      BY <3>3 DEF Storage
  <2>3. t.syms \in Seq(SymbolSet)
    BY DEF TableSet
  <2> HIDE DEF start
  <2>4. entries \in Storage /\ Ends(entries, (p + 1) + w)
    BY <1>1, <2>2, <2>3, TableEnds
  <2> HIDE DEF entries
  <2>5. CASE ~entries.ok
    <3>1. total = 0 /\ (p + 1) + w >= M
      BY <2>1, <2>4, <2>5 DEF Ends
    <3>2. FileEnd(n) > M
      BY <1>2, <1>3, <1>4, <3>1
    <3> QED
      BY <1>1, <1>3, <3>1, <3>2
  <2>6. CASE entries.ok
    <3>1. entries.ent + 1 = n
      <4>1. entries.ent = (p + 1) + w
        BY <2>4, <2>6 DEF Ends
      <4> QED
        BY <1>3, <4>1
    <3>2. total = IF n + 6 > M THEN 0 ELSE FileEnd(n)
      <4>1. total = IF entries.ent + 1 + XIS_TRAILER_SIZE > M THEN 0 ELSE ent + 6 - 0
        BY <2>1, <2>6
      <4>2. ent = n + ((n - 0) % 2) /\ entries.ent + 1 + XIS_TRAILER_SIZE = n + 6
        BY <3>1 DEF RoundUp, XIS_TRAILER_SIZE
      <4>3. ent + 6 - 0 = FileEnd(n)
        BY <4>2 DEF FileEnd
      <4> QED
        BY <4>1, <4>2, <4>3
    <3>3. n + 6 > M <=> FileEnd(n) > M
      BY <1>2 DEF FileEnd
    <3>4. total = 0 <=> n + 6 > M
      BY <1>2, <1>4, <3>2
    <3> QED
      BY <1>1, <1>3, <3>3, <3>4
  <2> QED
    BY <2>5, <2>6
<1> QED
  BY <1>5, <1>6

-----------------------------------------------------------------------------
(* The size of the file. *)

\* A listing has as many relocations as there are uses.
LEMMA ListLength ==
    ASSUME NEW rs \in Seq(RelocSet), NEW U, Lists(rs, U)
    PROVE  Len(rs) = Cardinality(U)
<1>1. PICK n \in Nat : n = Len(rs)
  OBVIOUS
<1>2. PICK b : Listing(rs, U, b)
  BY DEF Lists
<1>3. b \in Bijection(1 .. n, U)
  <2>1. /\ b \in [1 .. n -> U]
        /\ \A j, k \in 1 .. n : b[j] = b[k] => j = k
        /\ \A i \in U : \E k \in 1 .. n : b[k] = i
    BY <1>1, <1>2 DEF Listing
  <2> QED
    BY <2>1 DEF Bijection, Injection, IsInjective, Surjection
<1>4. IsFiniteSet(1 .. n) /\ Cardinality(1 .. n) = n
  <2>1. 1 \in Int /\ n \in Int /\ (IF 1 > n THEN 0 ELSE n - 1 + 1) = n
    BY <1>1
  <2> QED
    BY <2>1, FS_Interval
<1>5. ExistsBijection(1 .. n, U)
  BY <1>3 DEF ExistsBijection
<1>6. Cardinality(U) = Cardinality(1 .. n)
  BY <1>4, <1>5, FS_Bijection
<1> QED
  BY <1>1, <1>4, <1>6

\* MapThenSumSet sums.
LEMMA EntrySums ==
    ASSUME IsFiniteSet(Globals), \A name \in Globals : EntrySize(name) \in Nat
    PROVE  \E g : /\ SumsTo([name \in Globals |-> EntrySize(name)], Globals, g)
                  /\ MapThenSumSet(EntrySize, Globals) = g[Globals]
<1> DEFINE f == [name \in Globals |-> EntrySize(name)]
           Eq(g) == g = [T \in SUBSET Globals |->
                           IF T = {} THEN 0
                           ELSE EntrySize(CHOOSE x \in T : TRUE)
                                  + g[T \ {CHOOSE x \in T : TRUE}]]
           iter == CHOOSE g : Eq(g)
<1>1. MapThenSumSet(EntrySize, Globals) = iter[Globals]
  BY DEF MapThenSumSet, MapThenFoldSet
<1>2. f \in [Globals -> Nat]
  OBVIOUS
<1>3. \A g : Eq(g) <=> SumFold(f, Globals, g)
  <2>1. \A T \in SUBSET Globals :
          T # {} => f[CHOOSE x \in T : TRUE] = EntrySize(CHOOSE x \in T : TRUE)
    OBVIOUS
  <2> HIDE DEF f
  <2> QED
    BY <2>1 DEF SumFold
<1> HIDE DEF f, Eq
<1>4. \E g : Eq(g)
  BY <1>2, <1>3, SumFoldExists
<1>5. Eq(iter)
  BY <1>4
<1> HIDE DEF iter
<1>6. SumsTo(f, Globals, iter)
  BY <1>2, <1>3, <1>5, SumFoldSums
<1> QED
  BY <1>1, <1>6 DEF f

\* The table u has an entry for "$" and each global name, as long as the source says.
TableListed(u) ==
    /\ \A k \in DOMAIN u.syms :
           LET sym == u.syms[k]
           IN  /\ sym.global <=> sym.name = REL_NAME \/ sym.name \in Globals
               /\ sym.name = REL_NAME => EntryLen(sym) = BaseSize
               /\ sym.name \in Globals => EntryLen(sym) = EntrySize(sym.name)
    /\ Has(u, REL_NAME) /\ REL_NAME \notin Globals
    /\ \A name \in Globals : Has(u, name)

\* The names of the symbols at T.
NamesAt(u, T) == {u.syms[k].name : k \in T}

\* One symbol after the other, the lengths of the entries add up to what the source says.
LEMMA EntriesAddUp ==
    ASSUME NEW u \in TableSet, TableListed(u), NEW n \in Nat, n = Len(u.syms), NEW h,
           SumsTo([k \in 1 .. n |-> EntryLen(u.syms[k])], 1 .. n, h)
    PROVE  /\ IsFiniteSet(Globals) /\ BaseSize \in Nat
           /\ \A name \in Globals : EntrySize(name) \in Nat
           /\ \A j : SumsTo([name \in Globals |-> EntrySize(name)], Globals, j) =>
                  h[1 .. n] = BaseSize + j[Globals]
<1> DEFINE A == 1 .. n
           f == [k \in A |-> EntryLen(u.syms[k])]
<1>1. A = DOMAIN u.syms /\ \A k \in A : u.syms[k] \in SymbolSet
  <2>1. u.syms \in Seq(SymbolSet)
    BY DEF TableSet
  <2> QED
    BY <2>1
<1>2. \A k \in A : EntryLen(u.syms[k]) \in Nat
  BY <1>1, EntryLenType
<1>3. IsFiniteSet(A)
  BY FoldOrder
<1>4. /\ h[{}] = 0 /\ \A T \in SUBSET A : h[T] \in Nat
      /\ \A T \in SUBSET A : \A x \in T : h[T] = EntryLen(u.syms[x]) + h[T \ {x}]
  <2>1. SumsTo(f, A, h)
    OBVIOUS
  <2>2. \A x \in A : f[x] = EntryLen(u.syms[x])
    OBVIOUS
  <2> HIDE DEF f, A
  <2> QED
    BY <2>1, <2>2 DEF SumsTo
<1>5. PICK r \in A : u.syms[r].name = REL_NAME
  BY <1>1 DEF TableListed, Has
<1>6. BaseSize \in Nat
  BY <1>1, <1>2, <1>5 DEF TableListed
<1>7. ASSUME NEW name \in Globals
      PROVE  EntrySize(name) \in Nat /\ \E k \in A : u.syms[k].name = name
  <2>1. PICK k \in A : u.syms[k].name = name
    BY <1>1 DEF TableListed, Has
  <2> QED
    BY <1>1, <1>2, <2>1 DEF TableListed
<1>8. \A j, k \in A : u.syms[j].name = u.syms[k].name => j = k
  BY <1>1 DEF TableSet, NamedOnce
<1> HIDE DEF A, f
<1>9. IsFiniteSet(Globals)
  <2> DEFINE names == NamesAt(u, A)
             q == [k \in A |-> u.syms[k].name]
  <2>1. q \in Surjection(A, names)
    BY DEF Surjection, NamesAt
  <2> HIDE DEF q
  <2>2. IsFiniteSet(names)
    BY <1>3, <2>1, FS_Surjection
  <2>3. Globals \subseteq names
    BY <1>7 DEF NamesAt
  <2> HIDE DEF names
  <2> QED
    BY <2>2, <2>3, FS_Subset
<1>10. ASSUME NEW j, SumsTo([name \in Globals |-> EntrySize(name)], Globals, j)
       PROVE  h[A] = BaseSize + j[Globals]
  <2> DEFINE B(T) == IF r \in T THEN BaseSize ELSE 0
             Of(T) == NamesAt(u, T) \cap Globals
             G == {T \in SUBSET A : h[T] = B(T) + j[Of(T)]}
             e == [name \in Globals |-> EntrySize(name)]
  <2>1. /\ j[{}] = 0 /\ \A T \in SUBSET Globals : j[T] \in Nat
        /\ \A T \in SUBSET Globals : \A x \in T : j[T] = EntrySize(x) + j[T \ {x}]
    <3>1. SumsTo(e, Globals, j)
      BY <1>10
    <3>2. \A x \in Globals : e[x] = EntrySize(x)
      OBVIOUS
    <3> HIDE DEF e
    <3> QED
      BY <3>1, <3>2 DEF SumsTo
  <2>2. {} \in G
    <3>1. B({}) = 0 /\ Of({}) = {}
      BY DEF NamesAt
    <3> HIDE DEF B, Of
    <3>2. j[Of({})] = 0
      BY <2>1, <3>1, Zenon
    <3>3. h[{}] = B({}) + j[Of({})]
      BY <1>4, <3>1, <3>2
    <3> QED
      BY <3>3
  <2>3. ASSUME NEW T \in SUBSET A, T # {}, \A x \in T : T \ {x} \in G
        PROVE  T \in G
    <3>1. PICK x \in T : TRUE
      BY <2>3
    <3>2. PICK sym \in SymbolSet : sym = u.syms[x]
      BY <1>1 DEF A
    <3>3. PICK w \in Nat : w = EntryLen(sym)
      BY <3>2, EntryLenType
    <3>4. PICK a \in Nat : a = h[T \ {x}]
      BY <1>4
    <3>5. h[T] = w + a
      BY <1>4, <3>2, <3>3, <3>4
    <3>6. PICK b \in Nat : b = B(T \ {x})
      BY <1>6
    <3>7. PICK d \in Nat : d = j[Of(T \ {x})]
      BY <2>1
    <3>8. a = b + d
      BY <2>3, <3>4, <3>6, <3>7
    <3>9. /\ sym.global <=> sym.name = REL_NAME \/ sym.name \in Globals
          /\ sym.name = REL_NAME => w = BaseSize
          /\ sym.name \in Globals => w = EntrySize(sym.name)
          /\ REL_NAME \notin Globals
      BY <1>1, <3>2, <3>3 DEF TableListed, A
    <3>10. Of(T) = Of(T \ {x}) \cup ({sym.name} \cap Globals)
      <4>1. NamesAt(u, T) = NamesAt(u, T \ {x}) \cup {sym.name}
        BY <3>1, <3>2 DEF NamesAt
      <4> QED
        BY <4>1
    <3>11. sym.name \notin NamesAt(u, T \ {x})
      BY <1>8, <3>2 DEF NamesAt
    <3>12. CASE sym.name = REL_NAME
      <4>1. x = r
        BY <1>5, <1>8, <3>2, <3>12
      <4>2. B(T) = BaseSize /\ b = 0
        BY <3>6, <4>1
      <4>3. Of(T) = Of(T \ {x})
        BY <3>9, <3>10, <3>12
      <4> HIDE DEF B, Of
      <4>4. h[T] = B(T) + j[Of(T)]
        BY <3>5, <3>7, <3>8, <3>9, <3>12, <4>2, <4>3
      <4> QED
        BY <4>4 DEF B, Of
    <3>13. CASE sym.name \in Globals
      <4>1. x # r
        BY <1>5, <3>2, <3>9, <3>13
      <4>2. B(T) = b
        BY <3>6, <4>1
      <4>3. Of(T) \ {sym.name} = Of(T \ {x}) /\ sym.name \in Of(T)
        BY <3>10, <3>11, <3>13
      <4>4. Of(T) \in SUBSET Globals
        OBVIOUS
      <4> HIDE DEF B, Of
      <4>5. j[Of(T)] = w + d
        <5>1. j[Of(T)] = EntrySize(sym.name) + j[Of(T) \ {sym.name}]
          BY <2>1, <4>3, <4>4
        <5> QED
          BY <3>7, <3>9, <3>13, <4>3, <5>1
      <4>6. h[T] = B(T) + j[Of(T)]
        BY <3>5, <3>8, <4>2, <4>5
      <4> QED
        BY <4>6 DEF B, Of
    <3>14. CASE sym.name # REL_NAME /\ sym.name \notin Globals
      <4>1. x # r
        BY <1>5, <3>2, <3>14
      <4>2. B(T) = b /\ Of(T) = Of(T \ {x})
        BY <3>6, <3>10, <3>14, <4>1
      <4>3. w = 0
        BY <3>3, <3>9, <3>14 DEF EntryLen
      <4> HIDE DEF B, Of
      <4>4. h[T] = B(T) + j[Of(T)]
        BY <3>5, <3>7, <3>8, <4>2, <4>3
      <4> QED
        BY <4>4 DEF B, Of
    <3> QED
      BY <3>12, <3>13, <3>14
  <2>4. G \in SUBSET (SUBSET A)
    OBVIOUS
  <2> HIDE DEF G
  <2>5. G = SUBSET A
    BY <1>3, <2>2, <2>3, <2>4, SmallSets
  <2>6. B(A) = BaseSize /\ Of(A) = Globals
    BY <1>7 DEF NamesAt
  <2> HIDE DEF B, Of
  <2> QED
    BY <2>5, <2>6 DEF G
<1> QED
  BY <1>6, <1>7, <1>9, <1>10 DEF A

\* A listed table that is stored behind the code fails to fit exactly if the file is
\* larger than the memory.
LEMMA StoredSize ==
    ASSUME NEW u \in TableSet, TableListed(u), NEW m \in Objects, NEW p \in Nat, p = CodeSize
    PROVE  FileSize \in Nat /\ FileSize > CodeSize
           /\ (xreloc_store_table(u, m, p, 0).size = 0 <=> FileSize > XIS_MEM_SIZE)
<1>1. PICK n \in Nat : n = Len(u.syms)
  BY DEF TableSet
<1> DEFINE f == [k \in 1 .. n |-> EntryLen(u.syms[k])]
<1>2. IsFiniteSet(1 .. n) /\ f \in [1 .. n -> Nat]
  <2>1. \A k \in 1 .. n : u.syms[k] \in SymbolSet
    BY <1>1 DEF TableSet
  <2>2. \A k \in 1 .. n : EntryLen(u.syms[k]) \in Nat
    BY <2>1, EntryLenType
  <2> QED
    BY <2>2, FoldOrder
<1> HIDE DEF f
<1>3. PICK h : SumsTo(f, 1 .. n, h)
  BY <1>2, SumFoldExists, SumFoldSums
<1>4. /\ IsFiniteSet(Globals) /\ BaseSize \in Nat
      /\ \A name \in Globals : EntrySize(name) \in Nat
      /\ \A j : SumsTo([name \in Globals |-> EntrySize(name)], Globals, j) =>
             h[1 .. n] = BaseSize + j[Globals]
  <2>1. SumsTo([k \in 1 .. n |-> EntryLen(u.syms[k])], 1 .. n, h)
    BY <1>3 DEF f
  <2> QED
    BY <1>1, <2>1, EntriesAddUp, Zenon
<1>5. PICK j : /\ SumsTo([name \in Globals |-> EntrySize(name)], Globals, j)
               /\ MapThenSumSet(EntrySize, Globals) = j[Globals]
  BY <1>4, EntrySums
<1>6. PICK w \in Nat : w = MapThenSumSet(EntrySize, Globals)
  BY <1>5 DEF SumsTo
<1>7. h[1 .. n] = BaseSize + w
  BY <1>4, <1>5, <1>6
<1>8. FileSize = FileEnd(p + 2 + BaseSize + w)
  BY <1>6 DEF FileSize, FileEnd
<1>9. p + 2 + h[1 .. n] = p + 2 + BaseSize + w
  BY <1>4, <1>7
<1>10. xreloc_store_table(u, m, p, 0).size = 0 <=> FileEnd(p + 2 + h[1 .. n]) > XIS_MEM_SIZE
  <2>1. SumsTo([k \in 1 .. Len(u.syms) |-> EntryLen(u.syms[k])], 1 .. Len(u.syms), h)
    BY <1>1, <1>3 DEF f
  <2> QED
    BY <1>1, <2>1, StoreFits
<1>11. FileSize \in Nat /\ FileSize > p
  <2>1. PICK e \in Nat : e = p + 2 + BaseSize + w /\ e > p
    BY <1>4
  <2>2. FileEnd(e) \in Nat /\ FileEnd(e) > p
    BY <2>1 DEF FileEnd
  <2> QED
    BY <1>8, <2>1, <2>2
<1> QED
  BY <1>8, <1>9, <1>10, <1>11

-----------------------------------------------------------------------------
(* Acceptable programs. *)

\* The symbols of the relocated table by their names.
LEMMA DoneListed ==
    ASSUME NoDollar, program \in Programs, GoodUpTo(Len(program)), NEW t \in TableSet,
           Matches(t, Len(program), Len(program)), NEW m \in Objects,
           NEW done, done = xreloc_relocate(t, m), done.ok
    PROVE  TableListed(done.table)
<1>1. PICK n : n = Len(program)
  OBVIOUS
<1>2. /\ n \in Nat /\ DOMAIN program = 1 .. n /\ IsFiniteSet(Uses) /\ Uses \subseteq 1 .. n
      /\ \A i \in Uses : Target(i) \in Names /\ Target(i) # REL_NAME /\ Address(i) \in Nat
      /\ \A name : /\ UsesOf(n, name) = {i \in Uses : Target(i) = name}
                   /\ GlobBy(n, name) <=> Global(name)
                   /\ LabelledBy(n, name) <=> Defined(name)
      /\ \A name : Global(name) => name \in Names /\ name # REL_NAME
      /\ \A name : Defined(name) => name \in Names /\ name # REL_NAME
  BY <1>1, WholeSource
<1>3. Matches(t, n, n)
  BY <1>1
<1>4. PICK u \in TableSet : u = done.table
  <2>1. done \in Relocating
    BY RelocateDone
  <2> QED
    BY <2>1 DEF Relocating
<1>5. /\ \A name : Has(u, name) <=> Has(t, name) \/ name = REL_NAME
      /\ \A name : name # REL_NAME => Named(u, name) = Named(t, name)
      /\ Named(u, REL_NAME).global
      /\ BaseRelocs(u) = Cardinality(BaseUses)
  BY <1>4, RelocateDone
<1>6. \A name : name \in Globals <=> Global(name)
  <2>1. ASSUME NEW name \in Globals
        PROVE  Global(name)
    <3>1. \/ \E i \in Uses : Global(Target(i)) /\ name = Target(i)
          \/ \E i \in DOMAIN program : Is(StmtOf(i), ".glob") /\ name = StmtOf(i)[2].value
      BY DEF Globals
    <3> QED
      BY <3>1 DEF Global
  <2>2. ASSUME NEW name, Global(name)
        PROVE  name \in Globals
    <3>1. PICK i \in DOMAIN program : Is(StmtOf(i), ".glob") /\ StmtOf(i)[2].value = name
      BY <2>2 DEF Global
    <3> QED
      BY <3>1 DEF Globals
  <2> QED
    BY <2>1, <2>2
<1>7. ASSUME NEW k \in DOMAIN u.syms, NEW sym, sym = u.syms[k]
      PROVE  /\ sym.global <=> sym.name = REL_NAME \/ sym.name \in Globals
             /\ sym.name = REL_NAME => EntryLen(sym) = BaseSize
             /\ sym.name \in Globals => EntryLen(sym) = EntrySize(sym.name)
  <2>1. /\ sym \in SymbolSet /\ sym.name \in Names
        /\ Named(u, sym.name) = sym
    BY <1>7, NamedAt
  <2>2. PICK name \in Names : name = sym.name
    BY <2>1
  <2>3. sym.global => EntryLen(sym) = Len(name) + 5 + 4 * Len(sym.relocs)
    BY <2>1, <2>2, EntryBytesType DEF EntryLen, Size, RELOC_SIZE
  <2>4. CASE name = REL_NAME
    <3>1. sym.global /\ Len(sym.relocs) = Cardinality(BaseUses)
      BY <1>5, <2>1, <2>2, <2>4 DEF BaseRelocs
    <3>2. EntryLen(sym) = Len(name) + 5 + 4 * Cardinality(BaseUses)
      BY <2>3, <3>1
    <3>3. Len(name) = 1
      BY <2>4 DEF REL_NAME
    <3>4. BaseSize = 6 + (4 * Cardinality(BaseUses))
      BY DEF BaseSize, BaseUses
    <3>5. Cardinality(BaseUses) \in Nat
      <4>1. BaseUses \subseteq Uses
        BY DEF BaseUses
      <4> QED
        BY <1>2, <4>1, FS_Subset, FS_CardinalityType
    <3>6. EntryLen(sym) = BaseSize
      BY <3>2, <3>3, <3>4, <3>5
    <3> QED
      BY <1>2, <1>6, <2>2, <2>4, <3>1, <3>6
  <2>5. CASE name # REL_NAME
    <3>1. Named(t, name) = sym
      BY <1>5, <2>1, <2>2, <2>5
    <3>2. (sym.global <=> Global(name)) /\ Lists(sym.relocs, UsesOf(n, name))
      BY <1>2, <1>3, <3>1 DEF Matches, UsesMatch
    <3>3. Len(sym.relocs) = Cardinality({i \in Uses : Target(i) = name})
      <4>1. sym.relocs \in Seq(RelocSet)
        BY <2>1 DEF SymbolSet
      <4>2. Len(sym.relocs) = Cardinality(UsesOf(n, name))
        BY <3>2, <4>1, ListLength
      <4> QED
        BY <1>2, <4>2
    <3>4. Global(name) => EntryLen(sym) = EntrySize(name)
      BY <2>3, <3>2, <3>3 DEF EntrySize
    <3> QED
      BY <1>6, <2>2, <2>5, <3>2, <3>4
  <2> QED
    BY <2>4, <2>5
<1>8. Has(u, REL_NAME) /\ REL_NAME \notin Globals
  BY <1>2, <1>5, <1>6
<1>9. ASSUME NEW name \in Globals
      PROVE  Has(u, name)
  <2>1. GlobBy(n, name) /\ name \in Names
    BY <1>2, <1>6
  <2> QED
    BY <1>3, <1>5, <2>1 DEF Matches, NamesMatch
<1>10. TableListed(u)
  BY <1>7, <1>8, <1>9 DEF TableListed
<1> QED
  BY <1>4, <1>10

\* The file is larger than the code.
LEMMA FileIsLarger ==
    ASSUME NoDollar, program \in Programs, GoodUpTo(Len(program))
    PROVE  CodeSize \in Nat /\ FileSize \in Nat /\ FileSize > CodeSize
<1>1. PICK n : n = Len(program)
  OBVIOUS
<1>2. /\ n \in Nat /\ DOMAIN program = 1 .. n /\ IsFiniteSet(Uses) /\ Uses \subseteq 1 .. n
      /\ \A name : Global(name) => name \in Names /\ name # REL_NAME
  BY <1>1, WholeSource
<1>3. CodeSize \in Nat
  <2>1. n + 1 \in 1 .. n + 1
    BY <1>2
  <2> QED
    BY <1>1, <1>2, <2>1, AddressGrows DEF CodeSize
<1>4. IsFiniteSet(Globals)
  <2> DEFINE q == [i \in DOMAIN program |-> StmtOf(i)[2].value]
             B == {q[i] : i \in DOMAIN program}
  <2>1. IsFiniteSet(DOMAIN program)
    BY <1>2, FoldOrder
  <2>2. q \in Surjection(DOMAIN program, B)
    BY DEF Surjection
  <2>3. \A i \in DOMAIN program : q[i] = StmtOf(i)[2].value
    OBVIOUS
  <2>4. Globals \subseteq B
    <3>1. \A i \in Uses : i \in DOMAIN program /\ Target(i) = q[i]
      BY <2>3 DEF Uses, Target
    <3> HIDE DEF q
    <3> QED
      BY <2>3, <3>1 DEF Globals
  <2> HIDE DEF q, B
  <2>5. IsFiniteSet(B)
    BY <2>1, <2>2, FS_Surjection
  <2> QED
    BY <2>4, <2>5, FS_Subset
<1>5. ASSUME NEW name \in Globals
      PROVE  EntrySize(name) \in Nat
  <2>1. Global(name)
    <3>1. \/ \E i \in Uses : Global(Target(i)) /\ name = Target(i)
          \/ \E i \in DOMAIN program : Is(StmtOf(i), ".glob") /\ name = StmtOf(i)[2].value
      BY DEF Globals
    <3> QED
      BY <3>1 DEF Global
  <2>2. Len(name) \in Nat
    BY <1>2, <2>1 DEF Names
  <2>3. {i \in Uses : Target(i) = name} \subseteq Uses
    OBVIOUS
  <2>4. Cardinality({i \in Uses : Target(i) = name}) \in Nat
    BY <1>2, <2>3, FS_Subset, FS_CardinalityType
  <2> QED
    BY <2>2, <2>4 DEF EntrySize
<1>6. PICK j : /\ SumsTo([name \in Globals |-> EntrySize(name)], Globals, j)
               /\ MapThenSumSet(EntrySize, Globals) = j[Globals]
  BY <1>4, <1>5, EntrySums
<1>7. PICK w \in Nat : w = MapThenSumSet(EntrySize, Globals)
  BY <1>6 DEF SumsTo
<1>8. BaseSize \in Nat
  <2>1. BaseUses \subseteq Uses
    BY DEF BaseUses
  <2>2. Cardinality(BaseUses) \in Nat
    BY <1>2, <2>1, FS_Subset, FS_CardinalityType
  <2>3. BaseSize = 6 + (4 * Cardinality(BaseUses))
    BY DEF BaseSize, BaseUses
  <2> QED
    BY <2>2, <2>3
<1>9. PICK e \in Nat : e = CodeSize + 2 + BaseSize + w /\ e > CodeSize
  BY <1>3, <1>8
<1>10. FileSize = e + (e % 2) + 6
  BY <1>7, <1>9 DEF FileSize
<1> QED
  BY <1>3, <1>9, <1>10

\* Good lines are those with a good statement, whose labels are defined once.
LEMMA GoodLinesOnce ==
    ASSUME program \in Programs
    PROVE  GoodUpTo(Len(program)) <=> GoodLines /\ LabelsOnce
<1>1. PICK n \in Nat : n = Len(program) /\ DOMAIN program = 1 .. n
  BY ProgramsAssumption
<1>2. ASSUME GoodUpTo(n)
      PROVE  GoodLines /\ LabelsOnce
  <2>1. \A i \in 1 .. n : GoodLine(i)
    BY <1>2 DEF GoodUpTo
  <2>2. GoodLines
    BY <1>1, <2>1 DEF GoodLine, GoodLines
  <2>3. ASSUME NEW i \in 1 .. n, Labelled(program[i]), NEW j \in LinesWith(LabelOf(i))
        PROVE  j = i
    <3>1. j \in 1 .. n /\ Labelled(program[j]) /\ LabelOf(j) = LabelOf(i)
      BY <1>1 DEF LinesWith
    <3>2. ~LabelledBy(i - 1, LabelOf(i)) /\ ~LabelledBy(j - 1, LabelOf(j))
      BY <2>1, <2>3, <3>1 DEF GoodLine
    <3>3. ~(j < i)
      <4> SUFFICES ASSUME j < i
                   PROVE  FALSE
        OBVIOUS
      <4>1. j \in 1 .. i - 1
        BY <3>1
      <4> QED
        BY <3>1, <3>2, <4>1 DEF LabelledBy
    <3>4. ~(i < j)
      <4> SUFFICES ASSUME i < j
                   PROVE  FALSE
        OBVIOUS
      <4>1. i \in 1 .. j - 1
        BY <3>1
      <4> QED
        BY <2>3, <3>1, <3>2, <4>1 DEF LabelledBy
    <3> QED
      BY <3>1, <3>3, <3>4
  <2>4. ASSUME NEW i \in 1 .. n, Labelled(program[i])
        PROVE  LinesWith(LabelOf(i)) = {i}
    <3>1. i \in LinesWith(LabelOf(i))
      BY <1>1, <2>4 DEF LinesWith
    <3> QED
      BY <2>3, <2>4, <3>1
  <2> QED
    BY <1>1, <2>2, <2>4 DEF LabelsOnce
<1>3. ASSUME GoodLines, LabelsOnce, NEW i \in 1 .. n
      PROVE  GoodLine(i)
  <2>1. ASSUME Labelled(program[i])
        PROVE  ~LabelledBy(i - 1, LabelOf(i))
    <3> SUFFICES ASSUME NEW j \in 1 .. i - 1, Labelled(program[j]), LabelOf(j) = LabelOf(i)
                 PROVE  FALSE
      BY DEF LabelledBy
    <3>1. j \in 1 .. n /\ j # i
      OBVIOUS
    <3>2. j \in LinesWith(LabelOf(i))
      BY <1>1, <3>1 DEF LinesWith
    <3>3. LinesWith(LabelOf(i)) = {i}
      BY <1>1, <1>3, <2>1 DEF LabelsOnce
    <3> QED
      BY <3>1, <3>2, <3>3
  <2> QED
    BY <1>1, <1>3, <2>1 DEF GoodLine, GoodLines
<1> QED
  BY <1>1, <1>2, <1>3 DEF GoodUpTo

\* What is acceptable, in terms of what the assembler checks.
LEMMA AcceptableIs ==
    ASSUME NoDollar, program \in Programs
    PROVE  Acceptable <=> GoodUpTo(Len(program)) /\ GoodUses /\ FileSize <= XIS_MEM_SIZE
<1>0. PICK n \in Nat : n = Len(program) /\ DOMAIN program = 1 .. n
  BY ProgramsAssumption
<1>1. GoodLabels <=> /\ LabelsOnce
                     /\ \A i \in Uses :
                            \/ Global(Target(i))
                            \/ /\ Defined(Target(i))
                               /\ ~Absolute(i) => Within(Place(Target(i)) - Address(i), -128, 127)
  BY DEF GoodLabels, LabelsOnce
<1>2. GoodUpTo(Len(program)) <=> GoodLines /\ LabelsOnce
  BY GoodLinesOnce
<1>3. ASSUME GoodUpTo(Len(program)), FileSize <= XIS_MEM_SIZE, NEW i \in Uses,
             Defined(Target(i))
      PROVE  Reaches(Place(Target(i)), i)
                 <=> (~Absolute(i) => Within(Place(Target(i)) - Address(i), -128, 127))
  <2>2. PICK k \in 1 .. n : Place(Target(i)) = Address(k)
    <3>1. (CHOOSE j \in LinesWith(Target(i)) : TRUE) \in LinesWith(Target(i))
      BY <1>3 DEF Defined
    <3>2. (CHOOSE j \in LinesWith(Target(i)) : TRUE) \in 1 .. n
      BY <1>0, <3>1 DEF LinesWith
    <3> QED
      BY <3>2 DEF Place
  <2>3. Address(k) \in Nat /\ Address(n + 1) \in Nat /\ Address(k) <= Address(n + 1)
    <3>1. k \in 1 .. n + 1
      BY <1>0
    <3> QED
      BY <1>3, <1>0, <3>1, AddressGrows
  <2>4. Address(n + 1) < FileSize /\ FileSize \in Nat
    BY <1>3, <1>0, FileIsLarger DEF CodeSize
  <2>5. Address(k) <= INV_ADDR
    BY <1>3, <2>3, <2>4, Sizes
  <2> QED
    BY <2>2, <2>5, Zenon DEF Reaches
<1>4. ASSUME GoodUpTo(Len(program)), FileSize <= XIS_MEM_SIZE
      PROVE  GoodLabels <=> GoodUses
  BY <1>1, <1>2, <1>3, <1>4 DEF GoodUses
<1> QED
  BY <1>1, <1>2, <1>4 DEF Acceptable

-----------------------------------------------------------------------------
(* What is accepted. *)

\* Until the table is stored no error means that the lines, their addresses and the uses
\* of labels are good; after it, that the program is acceptable.
AcceptInv ==
    /\ phase = "storing" =>
           /\ err = 0 <=> GoodUpTo(Len(program)) /\ pos <= XIS_MEM_SIZE /\ GoodUses
           /\ GoodUpTo(Len(program)) =>
                  IF pos <= XIS_MEM_SIZE
                  THEN pos = CodeSize /\ (GoodUses => TableListed(relocs))
                  ELSE pos <= CodeSize
    /\ phase \in {"reporting", "exited"} => (err = 0 <=> Acceptable)
    /\ phase = "exited" => IF err = 0 THEN file.is # "old" ELSE file.is = "old" /\ status = 1

\* Nothing but the source decides what is acceptable.
LEMMA AcceptableStays ==
    ASSUME program' = program
    PROVE  /\ GoodUses' <=> GoodUses
           /\ CodeSize' = CodeSize
           /\ \A t : TableListed(t)' <=> TableListed(t)
           /\ Acceptable' <=> Acceptable
<1>1. \A i : StmtOf(i)' = StmtOf(i) /\ LabelOf(i)' = LabelOf(i)
  BY DEF StmtOf, LabelOf
<1>2. \A i : Address(i)' = Address(i)
  BY ExpectationStays
<1>3. CodeSize' = CodeSize
  BY <1>2 DEF CodeSize
<1>4. Uses' = Uses
  BY <1>1 DEF Uses
<1>5. \A i : Target(i)' = Target(i) /\ (Absolute(i)' <=> Absolute(i))
  BY <1>1 DEF Target, Absolute
<1>6. \A name : LinesWith(name)' = LinesWith(name)
  BY <1>1 DEF LinesWith
<1>7. \A name : /\ Place(name)' = Place(name)
                /\ Defined(name)' <=> Defined(name)
                /\ Global(name)' <=> Global(name)
  BY <1>1, <1>2, <1>6 DEF Place, Defined, Global
<1>8. \A loc, i : Reaches(loc, i)' <=> Reaches(loc, i)
  BY <1>2, <1>5 DEF Reaches
<1>9. GoodUses' <=> GoodUses
  BY <1>4, <1>5, <1>7, <1>8 DEF GoodUses
<1>10. Globals' = Globals
  BY <1>1, <1>4, <1>5, <1>7 DEF Globals
<1>11. BaseSize' = BaseSize
  BY <1>4, <1>5, <1>7 DEF BaseSize
<1>12. \A name : EntrySize(name)' = EntrySize(name)
  BY <1>4, <1>5 DEF EntrySize
<1>13. \A t : TableListed(t)' <=> TableListed(t)
  BY <1>10, <1>11, <1>12 DEF TableListed
<1>14. Acceptable' <=> Acceptable
  BY DEF Acceptable, GoodLines, GoodLabels, FileSize, CodeSize, BaseSize, EntrySize, Globals,
         Uses, Target, Absolute, LinesWith, Place, Defined, Global, StmtOf, LabelOf, Address,
         Length, MapThenSumSet, MapThenFoldSet
<1> QED
  BY <1>3, <1>9, <1>13, <1>14

\* Before the relocations nothing is claimed.
LEMMA ReadingAccepts ==
    ASSUME \/ MissingColon \/ Blank \/ Instruction \/ LiteralString \/ LiteralInt \/ Words
           \/ Glob \/ BadStatement \/ EndOfFile
    PROVE  AcceptInv'
<1>1. phase' \in {"assembling", "relocating"}
  BY DEF MissingColon, Blank, Instruction, LiteralString, LiteralInt, Words, Glob, BadStatement,
         EndOfFile, Line
<1> QED
  BY <1>1 DEF AcceptInv

\* Relocating adds an error exactly if a label is used that is not good.
LEMMA RelocateAccepts ==
    ASSUME NoDollar, XasIInv, LinesInv, TableInv, Relocate
    PROVE  AcceptInv'
<1>1. /\ phase = "relocating" /\ phase' = "storing" /\ pos' = pos /\ program' = program
      /\ program \in Programs /\ relocs \in TableSet /\ obj \in Objects
      /\ err \in Nat /\ pos \in Nat
  BY DEF Relocate, XasIInv
<1>2. PICK done : done = xreloc_relocate(relocs, obj)
  OBVIOUS
<1>3. relocs' = done.table /\ err' = err + Count(~done.ok)
  BY <1>2 DEF Relocate
<1>4. /\ GoodUpTo(Len(program))' <=> GoodUpTo(Len(program))
      /\ GoodUses' <=> GoodUses
      /\ CodeSize' = CodeSize
      /\ \A t : TableListed(t)' <=> TableListed(t)
  BY <1>1, SourceStays, AcceptableStays
<1>5. err = 0 <=> GoodUpTo(Len(program)) /\ pos <= XIS_MEM_SIZE
  BY <1>1 DEF LinesInv
<1>6. GoodUpTo(Len(program)) =>
          IF pos <= XIS_MEM_SIZE
          THEN pos = CodeSize /\ Matches(relocs, Len(program), Len(program))
          ELSE pos <= CodeSize
  BY <1>1 DEF TableInv
<1>7. ASSUME GoodUpTo(Len(program)), pos <= XIS_MEM_SIZE
      PROVE  (done.ok <=> GoodUses) /\ (done.ok => TableListed(done.table))
  <2>1. Matches(relocs, Len(program), Len(program))
    BY <1>6, <1>7
  <2>2. done.ok <=> GoodUses
    BY <1>1, <1>2, <1>7, <2>1, RelocateDone
  <2>3. done.ok => TableListed(done.table)
    BY <1>1, <1>2, <1>7, <2>1, DoneListed
  <2> QED
    BY <2>2, <2>3
<1>8. err' = 0 <=> err = 0 /\ done.ok
  BY <1>1, <1>3 DEF Count
<1>9. err' = 0 <=> GoodUpTo(Len(program)) /\ pos <= XIS_MEM_SIZE /\ GoodUses
  BY <1>5, <1>7, <1>8
<1>10. TableListed(relocs)' <=> TableListed(done.table)
  <2>1. ASSUME NEW t, t = relocs'
        PROVE  TableListed(relocs)' <=> TableListed(t)
    BY <1>4, <2>1 DEF TableListed
  <2> QED
    BY <1>3, <2>1
<1> QED
  BY <1>1, <1>4, <1>6, <1>7, <1>9, <1>10 DEF AcceptInv

\* Storing the table adds an error exactly if the file is larger than the memory.
LEMMA StoreAccepts ==
    ASSUME NoDollar, XasIInv, AcceptInv, StoreTable
    PROVE  AcceptInv'
<1>1. /\ phase = "storing" /\ phase' = "reporting" /\ program' = program
      /\ program \in Programs /\ relocs \in TableSet /\ obj \in Objects
      /\ err \in Nat /\ pos \in Nat
  BY DEF StoreTable, XasIInv
<1>2. PICK stored : stored = xreloc_store_table(relocs, obj, pos, 0)
  OBVIOUS
<1>3. err' = err + Count(stored.size = 0) + Count(pos > XIS_MEM_SIZE)
  BY <1>2 DEF StoreTable
<1>4. err' = 0 <=> err = 0 /\ stored.size # 0 /\ ~(pos > XIS_MEM_SIZE)
  BY <1>1, <1>3 DEF Count
<1>5. /\ err = 0 <=> GoodUpTo(Len(program)) /\ pos <= XIS_MEM_SIZE /\ GoodUses
      /\ GoodUpTo(Len(program)) =>
             IF pos <= XIS_MEM_SIZE
             THEN pos = CodeSize /\ (GoodUses => TableListed(relocs))
             ELSE pos <= CodeSize
  BY <1>1 DEF AcceptInv
<1>6. Acceptable <=> GoodUpTo(Len(program)) /\ GoodUses /\ FileSize <= XIS_MEM_SIZE
  BY <1>1, AcceptableIs
<1>7. XIS_MEM_SIZE \in Nat
  BY Sizes
<1>8. ASSUME err = 0
      PROVE  stored.size # 0 <=> FileSize <= XIS_MEM_SIZE
  <2>1. pos = CodeSize /\ TableListed(relocs)
    BY <1>5, <1>8
  <2>2. FileSize \in Nat /\ (stored.size = 0 <=> FileSize > XIS_MEM_SIZE)
    BY <1>1, <1>2, <2>1, StoredSize
  <2> QED
    BY <1>7, <2>2
<1>9. ASSUME Acceptable
      PROVE  err = 0
  <2>1. GoodUpTo(Len(program)) /\ GoodUses /\ FileSize <= XIS_MEM_SIZE
    BY <1>6, <1>9
  <2>2. CodeSize \in Nat /\ FileSize \in Nat /\ FileSize > CodeSize
    BY <1>1, <2>1, FileIsLarger
  <2>3. pos <= XIS_MEM_SIZE
    BY <1>1, <1>5, <1>7, <2>1, <2>2
  <2> QED
    BY <1>5, <2>1, <2>3
<1>10. err' = 0 <=> Acceptable
  <2>1. err = 0 => ~(pos > XIS_MEM_SIZE)
    BY <1>1, <1>5, <1>7
  <2> QED
    BY <1>4, <1>5, <1>6, <1>8, <1>9, <2>1
<1>11. Acceptable' <=> Acceptable
  BY <1>1, AcceptableStays
<1> QED
  BY <1>1, <1>10, <1>11 DEF AcceptInv

\* At the exit the output is the old one exactly if there were errors.
LEMMA ExitAccepts ==
    ASSUME XasIInv, LinesInv, AcceptInv, ReportErrors \/ OpenFails \/ WriteFails \/ WriteFile
    PROVE  AcceptInv'
<1>1. /\ phase = "reporting" /\ phase' = "exited" /\ err' = err /\ program' = program
      /\ err \in Nat
  BY DEF ReportErrors, OpenFails, WriteFails, WriteFile, Exit, XasIInv
<1>2. err = 0 <=> Acceptable
  BY <1>1 DEF AcceptInv
<1>3. Acceptable' <=> Acceptable
  BY <1>1, AcceptableStays
<1>4. file.is = "old"
  BY <1>1 DEF LinesInv
<1>5. IF err = 0 THEN file'.is # "old" ELSE file'.is = "old" /\ status' = 1
  <2>1. CASE ReportErrors
    <3>1. err > 0 /\ status' = 1 /\ file' = file
      BY <2>1 DEF ReportErrors, Exit
    <3> QED
      BY <1>1, <1>4, <3>1
  <2>2. CASE OpenFails \/ WriteFails \/ WriteFile
    <3>1. err = 0 /\ file'.is # "old"
      BY <2>2 DEF OpenFails, WriteFails, WriteFile, Exit
    <3> QED
      BY <3>1
  <2> QED
    BY <2>1, <2>2
<1> QED
  BY <1>1, <1>2, <1>3, <1>5 DEF AcceptInv

\* A step that changes nothing.
LEMMA NothingAccepts ==
    ASSUME AcceptInv, Done \/ UNCHANGED vars
    PROVE  AcceptInv'
<1>1. /\ phase' = phase /\ err' = err /\ program' = program /\ pos' = pos
      /\ relocs' = relocs /\ file' = file /\ status' = status
  BY DEF Done, vars
<1>2. /\ GoodUpTo(Len(program))' <=> GoodUpTo(Len(program))
      /\ GoodUses' <=> GoodUses
      /\ CodeSize' = CodeSize
      /\ \A t : TableListed(t)' <=> TableListed(t)
      /\ Acceptable' <=> Acceptable
  BY <1>1, SourceStays, AcceptableStays
<1>3. TableListed(relocs)' <=> TableListed(relocs)
  BY <1>1, <1>2 DEF TableListed
<1> QED
  BY <1>1, <1>2, <1>3 DEF AcceptInv

LEMMA AcceptStep ==
    ASSUME NoDollar, XasIInv, LinesInv, TableInv, AcceptInv, [Next]_vars
    PROVE  AcceptInv'
<1>1. CASE \/ MissingColon \/ Blank \/ Instruction \/ LiteralString \/ LiteralInt \/ Words
           \/ Glob \/ BadStatement \/ EndOfFile
  BY <1>1, ReadingAccepts
<1>2. CASE Relocate
  BY <1>2, RelocateAccepts
<1>3. CASE StoreTable
  BY <1>3, StoreAccepts
<1>4. CASE ReportErrors \/ OpenFails \/ WriteFails \/ WriteFile
  BY <1>4, ExitAccepts
<1>5. CASE Done \/ UNCHANGED vars
  BY <1>5, NothingAccepts
<1> QED
  BY <1>1, <1>2, <1>3, <1>4, <1>5 DEF Next

\* The assembler rejects exactly the programs that are not acceptable, whatever the
\* programs: the errors that main counts line by line and in xreloc_relocate and
\* xreloc_store_table are none exactly if every line is one of the language, no label
\* stands twice, every label that is used is global or has a place that its operand
\* reaches, and code, table and trailer fit into the memory.
THEOREM AcceptsExactlySafe ==
    ASSUME NoNegativeWords, NoDollar
    PROVE  Spec => []AcceptsExactly
<1>1. Init => AcceptInv
  <2>1. Init => phase = "assembling"
    BY DEF Init
  <2> QED
    BY <2>1 DEF AcceptInv
<1>2. XasIInv /\ TableInv /\ [Next]_vars => TableInv'
  BY TableStep
<1>3. XasIInv /\ LinesInv /\ TableInv /\ AcceptInv /\ [Next]_vars => AcceptInv'
  BY AcceptStep
<1>4. AcceptInv => AcceptsExactly
  BY DEF AcceptInv, AcceptsExactly
<1>5. Spec => [](XasIInv /\ LinesInv)
  BY LinesInvariant
<1> QED
  BY <1>1, <1>2, <1>3, <1>4, <1>5, TableInit, PTL DEF Spec
=============================================================================
