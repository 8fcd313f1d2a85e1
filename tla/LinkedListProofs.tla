-------------------------- MODULE LinkedListProofs --------------------------
(***************************************************************************)
(* linkedlist.c: for every set of nodes and items, the heap of a client    *)
(* that keeps to ListNext is one chain, and implements a sequence.         *)
(***************************************************************************)
EXTENDS LinkedList, FiniteSetTheorems, SequenceTheorems, WellFoundedInduction, TLAPS

(* Numbers. *)
\* A set of naturals that is not empty has a least one.
LEMMA Least ==
    ASSUME NEW T \in SUBSET Nat, T # {}
    PROVE  \E n \in T : \A m \in T : n <= m
<1> DEFINE R == {ss \in Nat \X Nat : ss[1] < ss[2]}
<1>1. IsWellFoundedOn(R, Nat)
  BY NatLessThanWellFounded DEF OpToRel
<1>2. \A a, b \in Nat : <<b, a>> \in R <=> b < a
  OBVIOUS
<1> HIDE DEF R
<1>3. PICK n \in T : \A m \in T : ~(<<m, n>> \in R)
  BY <1>1, WFMin
<1>4. \A m \in T : n <= m
  <2> SUFFICES ASSUME NEW m \in T
               PROVE  n <= m
    OBVIOUS
  <2>1. n \in Nat /\ m \in Nat
    OBVIOUS
  <2>2. <<m, n>> \notin R
    BY <1>3
  <2>3. ~(m < n)
    BY <1>2, <2>1, <2>2
  <2> QED
    BY <2>1, <2>3
<1> QED
  BY <1>4

\* What holds of 1, and of i + 1 when it holds of i, holds of 1 .. n.
LEMMA UpTo ==
    ASSUME NEW n \in Nat, NEW T \in SUBSET (1 .. n),
           n > 0 => 1 \in T,
           \A i \in 1 .. n - 1 : i \in T => i + 1 \in T
    PROVE  T = 1 .. n
<1> DEFINE Missing == (1 .. n) \ T
<1>1. CASE Missing = {}
  BY <1>1
<1>2. CASE Missing # {}
  <2>1. Missing \in SUBSET Nat
    OBVIOUS
  <2>2. PICK m \in Missing : \A i \in Missing : m <= i
    BY <1>2, <2>1, Least
  <2>3. m \in 1 .. n /\ m # 1 /\ m \notin T
    OBVIOUS
  <2>4. m - 1 \in 1 .. n - 1
    BY <2>3
  <2>5. m - 1 \in T
    BY <2>2, <2>4
  <2>6. m - 1 + 1 = m
    BY <2>3
  <2> QED
    BY <2>3, <2>4, <2>5, <2>6
<1> QED
  BY <1>1, <1>2

-----------------------------------------------------------------------------
(* Chains. *)

\* A heap has one chain.
LEMMA OneChain ==
    ASSUME NEW h, NEW f, NEW b, NEW n \in Nat,
           NEW s \in [1 .. n -> DOMAIN h], NEW t \in [1 .. n -> DOMAIN h],
           Chain(h, f, b, s, n), Chain(h, f, b, t, n)
    PROVE  s = t
<1> DEFINE T == {i \in 1 .. n : s[i] = t[i]}
<1>1. n > 0 => 1 \in T
  BY DEF Chain
<1>2. \A i \in 1 .. n - 1 : i \in T => i + 1 \in T
  <2> SUFFICES ASSUME NEW i \in 1 .. n - 1, i \in T
               PROVE  i + 1 \in T
    OBVIOUS
  <2>1. i \in 1 .. n /\ i + 1 \in 1 .. n /\ i # n
    OBVIOUS
  <2>2. h[s[i]].next = s[i + 1] /\ h[t[i]].next = t[i + 1]
    BY <2>1 DEF Chain
  <2> QED
    BY <2>1, <2>2
<1>3. T \in SUBSET (1 .. n)
  OBVIOUS
<1>4. \A i \in 1 .. n : s[i] = t[i]
  <2> HIDE DEF T
  <2>1. T = 1 .. n
    BY <1>1, <1>2, <1>3, UpTo
  <2> QED
    BY <2>1 DEF T
<1>5. s = [i \in 1 .. n |-> s[i]] /\ t = [i \in 1 .. n |-> t[i]]
  OBVIOUS
<1> QED
  BY <1>4, <1>5

\* A chain is as long as there are nodes.
LEMMA Counted ==
    ASSUME NEW h, NEW f, NEW b, NEW n \in Nat, NEW s \in [1 .. n -> DOMAIN h],
           Chain(h, f, b, s, n)
    PROVE  IsFiniteSet(DOMAIN h) /\ Cardinality(DOMAIN h) = n
<1>1. s \in Bijection(1 .. n, DOMAIN h)
  <2>1. s \in Injection(1 .. n, DOMAIN h)
    BY DEF Chain, Injection, IsInjective
  <2>2. s \in Surjection(1 .. n, DOMAIN h)
    BY DEF Chain, Surjection
  <2> QED
    BY <2>1, <2>2 DEF Bijection
<1>2. ExistsBijection(1 .. n, DOMAIN h)
  BY <1>1 DEF ExistsBijection
<1> QED
  BY <1>2, FS_CountingElements, FS_NatBijection

\* s with p after its first k elements, and without its k-th element.
Widened(s, n, k, p) ==
    [i \in 1 .. n + 1 |-> IF i <= k THEN s[i] ELSE IF i = k + 1 THEN p ELSE s[i - 1]]
Shortened(s, n, k) == [i \in 1 .. n - 1 |-> IF i < k THEN s[i] ELSE s[i + 1]]

\* The heap g is h with the node p linked in after the first k.
InsertsAt(h, g, s, n, k, p) ==
    /\ p \notin DOMAIN h /\ DOMAIN g = DOMAIN h \cup {p}
    /\ g[p].prev = IF k = 0 THEN Null ELSE s[k]
    /\ g[p].next = IF k = n THEN Null ELSE s[k + 1]
    /\ \A i \in 1 .. n : /\ g[s[i]].prev = IF i = k + 1 THEN p ELSE h[s[i]].prev
                         /\ g[s[i]].next = IF i = k THEN p ELSE h[s[i]].next

\* The heap g is h with the k-th node linked out.
RemovesAt(h, g, s, n, k) ==
    /\ DOMAIN g = DOMAIN h \ {s[k]}
    /\ \A i \in 1 .. n :
          i # k => /\ g[s[i]].prev = IF i = k + 1 THEN h[s[k]].prev ELSE h[s[i]].prev
                   /\ g[s[i]].next = IF i = k - 1 THEN h[s[k]].next ELSE h[s[i]].next

LEMMA InsertedChain ==
    ASSUME NEW h, NEW f, NEW b, NEW n \in Nat, NEW s \in [1 .. n -> DOMAIN h],
           Chain(h, f, b, s, n),
           NEW g, NEW k \in 0 .. n, NEW p, InsertsAt(h, g, s, n, k, p)
    PROVE  /\ Widened(s, n, k, p) \in [1 .. n + 1 -> DOMAIN g]
           /\ Chain(g, IF k = 0 THEN p ELSE f, IF k = n THEN p ELSE b,
                    Widened(s, n, k, p), n + 1)
<1> DEFINE t == Widened(s, n, k, p)
<1>1. \A i \in 1 .. n + 1 :
          /\ i <= k => i \in 1 .. n /\ t[i] = s[i]
          /\ i = k + 1 => t[i] = p
          /\ i > k + 1 => i - 1 \in 1 .. n /\ t[i] = s[i - 1]
  BY DEF Widened
<1>2. DOMAIN t = 1 .. n + 1 /\ t = [i \in 1 .. n + 1 |-> t[i]]
  BY DEF Widened
<1> HIDE DEF t
<1>3. \A i \in 1 .. n : s[i] \in DOMAIN h /\ s[i] # p
  BY DEF InsertsAt
<1>4. \A i \in 1 .. n + 1 : t[i] \in DOMAIN g
  BY <1>1, <1>3 DEF InsertsAt
<1>5. {t[i] : i \in 1 .. n + 1} = DOMAIN g
  <2>1. ASSUME NEW q \in DOMAIN g
        PROVE  \E i \in 1 .. n + 1 : t[i] = q
    <3>1. CASE q = p
      <4>1. k + 1 \in 1 .. n + 1
        OBVIOUS
      <4> QED
        BY <1>1, <3>1, <4>1
    <3>2. CASE q # p
      <4>1. PICK i \in 1 .. n : s[i] = q
        BY <3>2 DEF InsertsAt, Chain
      <4>2. CASE i <= k
        <5>1. i \in 1 .. n + 1
          OBVIOUS
        <5> QED
          BY <1>1, <4>1, <4>2, <5>1
      <4>3. CASE i > k
        <5>1. i + 1 \in 1 .. n + 1 /\ i + 1 > k + 1 /\ i + 1 - 1 = i
          BY <4>3
        <5>2. t[i + 1] = s[i + 1 - 1]
          BY <1>1, <5>1
        <5> QED
          BY <4>1, <5>1, <5>2
      <4> QED
        BY <4>2, <4>3
    <3> QED
      BY <3>1, <3>2
  <2> QED
    BY <1>4, <2>1
<1>6. ASSUME NEW i \in 1 .. n + 1, NEW j \in 1 .. n + 1, t[i] = t[j]
      PROVE  i = j
  <2>1. \A c, d \in 1 .. n : s[c] = s[d] => c = d
    BY DEF Chain
  <2> QED
    BY <1>1, <1>3, <1>6, <2>1
<1>7. /\ (IF k = 0 THEN p ELSE f) = t[1]
      /\ (IF k = n THEN p ELSE b) = t[n + 1]
  BY <1>1 DEF Chain
<1>8. ASSUME NEW i \in 1 .. n + 1
      PROVE  /\ g[t[i]].prev = IF i = 1 THEN Null ELSE t[i - 1]
             /\ g[t[i]].next = IF i = n + 1 THEN Null ELSE t[i + 1]
  <2>1. \A c \in 1 .. n : /\ h[s[c]].prev = IF c = 1 THEN Null ELSE s[c - 1]
                          /\ h[s[c]].next = IF c = n THEN Null ELSE s[c + 1]
    BY DEF Chain
  <2>2. /\ g[p].prev = IF k = 0 THEN Null ELSE s[k]
        /\ g[p].next = IF k = n THEN Null ELSE s[k + 1]
        /\ \A c \in 1 .. n : /\ g[s[c]].prev = IF c = k + 1 THEN p ELSE h[s[c]].prev
                             /\ g[s[c]].next = IF c = k THEN p ELSE h[s[c]].next
    BY DEF InsertsAt
  <2>3. CASE i <= k
    <3>1. i \in 1 .. n /\ t[i] = s[i]
      BY <1>1, <2>3
    <3>2. i # 1 => t[i - 1] = s[i - 1]
      BY <1>1, <2>3
    <3>3. IF i = k THEN t[i + 1] = p ELSE t[i + 1] = s[i + 1]
      BY <1>1, <2>3
    <3> QED
      BY <2>1, <2>2, <2>3, <3>1, <3>2, <3>3
  <2>4. CASE i = k + 1
    <3>1. t[i] = p
      BY <1>1, <2>4
    <3>2. i # 1 => t[i - 1] = s[k]
      BY <1>1, <2>4
    <3>3. i # n + 1 => t[i + 1] = s[k + 1]
      BY <1>1, <2>4
    <3> QED
      BY <2>2, <2>4, <3>1, <3>2, <3>3
  <2>5. CASE i > k + 1
    <3>1. i - 1 \in 1 .. n /\ t[i] = s[i - 1]
      BY <1>1, <2>5
    <3>2. IF i = k + 2 THEN t[i - 1] = p ELSE t[i - 1] = s[i - 2]
      BY <1>1, <2>5
    <3>3. i # n + 1 => t[i + 1] = s[i]
      BY <1>1, <2>5
    <3> QED
      BY <2>1, <2>2, <2>5, <3>1, <3>2, <3>3
  <2> QED
    BY <2>3, <2>4, <2>5
<1>9. t \in [1 .. n + 1 -> DOMAIN g]
  BY <1>2, <1>4
<1>10. Chain(g, IF k = 0 THEN p ELSE f, IF k = n THEN p ELSE b, t, n + 1)
  <2>1. n + 1 # 0
    OBVIOUS
  <2> QED
    BY <1>5, <1>6, <1>7, <1>8, <2>1 DEF Chain
<1> QED
  BY <1>9, <1>10 DEF t

LEMMA RemovedChain ==
    ASSUME NEW h, NEW f, NEW b, NEW n \in Nat, NEW s \in [1 .. n -> DOMAIN h],
           Chain(h, f, b, s, n),
           NEW g, NEW k \in 1 .. n, RemovesAt(h, g, s, n, k)
    PROVE  /\ n - 1 \in Nat
           /\ Shortened(s, n, k) \in [1 .. n - 1 -> DOMAIN g]
           /\ Chain(g, IF k = 1 THEN h[f].next ELSE f, IF k = n THEN h[b].prev ELSE b,
                    Shortened(s, n, k), n - 1)
<1> DEFINE t == Shortened(s, n, k)
<1>1. \A i \in 1 .. n - 1 :
          /\ i < k => i \in 1 .. n /\ t[i] = s[i]
          /\ i >= k => i + 1 \in 1 .. n /\ t[i] = s[i + 1]
  BY DEF Shortened
<1>2. DOMAIN t = 1 .. n - 1 /\ t = [i \in 1 .. n - 1 |-> t[i]]
  BY DEF Shortened
<1> HIDE DEF t
<1>3. \A c, d \in 1 .. n : s[c] = s[d] => c = d
  BY DEF Chain
<1>4. \A i \in 1 .. n : i # k => s[i] \in DOMAIN g
  BY <1>3 DEF RemovesAt
<1>5. \A i \in 1 .. n - 1 : t[i] \in DOMAIN g
  BY <1>1, <1>4
<1>6. {t[i] : i \in 1 .. n - 1} = DOMAIN g
  <2>1. ASSUME NEW q \in DOMAIN g
        PROVE  \E i \in 1 .. n - 1 : t[i] = q
    <3>1. PICK i \in 1 .. n : s[i] = q /\ i # k
      BY DEF RemovesAt, Chain
    <3>2. CASE i < k
      BY <1>1, <3>1, <3>2
    <3>3. CASE i > k
      <4>1. i - 1 \in 1 .. n - 1 /\ i - 1 >= k /\ i - 1 + 1 = i
        BY <3>3
      <4> QED
        BY <1>1, <3>1, <4>1
    <3> QED
      BY <3>1, <3>2, <3>3
  <2> QED
    BY <1>5, <2>1
<1>7. ASSUME NEW i \in 1 .. n - 1, NEW j \in 1 .. n - 1, t[i] = t[j]
      PROVE  i = j
  BY <1>1, <1>3, <1>7
<1>8. \A c \in 1 .. n : /\ h[s[c]].prev = IF c = 1 THEN Null ELSE s[c - 1]
                        /\ h[s[c]].next = IF c = n THEN Null ELSE s[c + 1]
  BY DEF Chain
<1>9. f = s[1] /\ b = s[n]
  BY DEF Chain
<1>10. /\ (IF k = 1 THEN h[f].next ELSE f) = IF n - 1 = 0 THEN Null ELSE t[1]
       /\ (IF k = n THEN h[b].prev ELSE b) = IF n - 1 = 0 THEN Null ELSE t[n - 1]
  BY <1>1, <1>8, <1>9
<1>11. ASSUME NEW i \in 1 .. n - 1
       PROVE  /\ g[t[i]].prev = IF i = 1 THEN Null ELSE t[i - 1]
              /\ g[t[i]].next = IF i = n - 1 THEN Null ELSE t[i + 1]
  <2>1. \A c \in 1 .. n :
          c # k => /\ g[s[c]].prev = IF c = k + 1 THEN h[s[k]].prev ELSE h[s[c]].prev
                   /\ g[s[c]].next = IF c = k - 1 THEN h[s[k]].next ELSE h[s[c]].next
    BY DEF RemovesAt
  <2>2. CASE i < k
    <3>1. i \in 1 .. n /\ t[i] = s[i]
      BY <1>1, <2>2
    <3>2. i # 1 => t[i - 1] = s[i - 1]
      BY <1>1, <2>2
    <3>3. i # n - 1 => IF i = k - 1 THEN t[i + 1] = s[k + 1] ELSE t[i + 1] = s[i + 1]
      BY <1>1, <2>2
    <3> QED
      BY <1>8, <2>1, <2>2, <3>1, <3>2, <3>3
  <2>3. CASE i >= k
    <3>1. i + 1 \in 1 .. n /\ t[i] = s[i + 1]
      BY <1>1, <2>3
    <3>2. i # 1 => IF i = k THEN t[i - 1] = s[k - 1] ELSE t[i - 1] = s[i]
      BY <1>1, <2>3
    <3>3. i # n - 1 => t[i + 1] = s[i + 2]
      BY <1>1, <2>3
    <3> QED
      BY <1>8, <2>1, <2>3, <3>1, <3>2, <3>3
  <2> QED
    BY <2>2, <2>3
<1>12. n - 1 \in Nat /\ t \in [1 .. n - 1 -> DOMAIN g]
  BY <1>2, <1>5
<1>13. Chain(g, IF k = 1 THEN h[f].next ELSE f, IF k = n THEN h[b].prev ELSE b, t, n - 1)
  BY <1>6, <1>7, <1>10, <1>11 DEF Chain
<1> QED
  BY <1>12, <1>13 DEF t
-----------------------------------------------------------------------------
(* Sequences. *)

\* v in the place of the m elements of u after the first i: what Splice yields.
Replaced(u, v, w, i, m) ==
    /\ Len(w) = Len(u) - m + Len(v)
    /\ \A j \in 1 .. Len(w) :
           w[j] = IF j <= i THEN u[j]
                  ELSE IF j <= i + Len(v) THEN v[j - i] ELSE u[j + m - Len(v)]

LEMMA Spliced ==
    ASSUME NEW S, NEW u \in Seq(S), NEW v \in Seq(S), NEW w \in Seq(S),
           NEW i \in 0 .. Len(u), NEW m \in 0 .. Len(u) - i, Replaced(u, v, w, i, m)
    PROVE  w = SubSeq(u, 1, i) \o v \o SubSeq(u, i + m + 1, Len(u))
<1> DEFINE a == SubSeq(u, 1, i)
           c == SubSeq(u, i + m + 1, Len(u))
<1>0. /\ Len(w) = Len(u) - m + Len(v)
      /\ \A j \in 1 .. Len(w) :
             w[j] = IF j <= i THEN u[j]
                    ELSE IF j <= i + Len(v) THEN v[j - i] ELSE u[j + m - Len(v)]
  BY DEF Replaced
<1>1. Len(u) \in Nat /\ Len(v) \in Nat /\ Len(w) \in Nat /\ i \in Int /\ m \in Int
  BY LenProperties
<1>2. a \in Seq(S) /\ Len(a) = i /\ \A j \in 1 .. i : a[j] = u[j]
  <2>1. \A j \in 1 .. i : u[j] \in S
    BY <1>1, ElementOfSeq
  <2>2. /\ a \in Seq(S) /\ Len(a) = IF 1 <= i THEN i - 1 + 1 ELSE 0
        /\ \A j \in 1 .. i - 1 + 1 : a[j] = u[1 + j - 1]
    BY <1>1, <2>1, SubSeqProperties
  <2> QED
    BY <1>1, <2>2
<1>3. /\ c \in Seq(S) /\ Len(c) = Len(u) - i - m
      /\ \A j \in 1 .. Len(u) - i - m : c[j] = u[i + m + j]
  <2>1. \A j \in i + m + 1 .. Len(u) : u[j] \in S
    BY <1>1, ElementOfSeq
  <2>2. i + m + 1 \in Int /\ Len(u) \in Int
    BY <1>1
  <2>3. /\ c \in Seq(S)
        /\ Len(c) = IF i + m + 1 <= Len(u) THEN Len(u) - (i + m + 1) + 1 ELSE 0
        /\ \A j \in 1 .. Len(u) - (i + m + 1) + 1 : c[j] = u[(i + m + 1) + j - 1]
    BY <2>1, <2>2, SubSeqProperties
  <2> QED
    BY <1>1, <2>3
<1> HIDE DEF a, c
<1>4. /\ a \o v \in Seq(S) /\ Len(a \o v) = i + Len(v)
      /\ \A j \in 1 .. i + Len(v) : (a \o v)[j] = IF j <= i THEN u[j] ELSE v[j - i]
  <2>1. /\ a \o v \in Seq(S) /\ Len(a \o v) = Len(a) + Len(v)
        /\ \A j \in 1 .. Len(a) + Len(v) :
               (a \o v)[j] = IF j <= Len(a) THEN a[j] ELSE v[j - Len(a)]
    BY <1>2, ConcatProperties
  <2> QED
    BY <1>1, <1>2, <2>1
<1>5. /\ (a \o v) \o c \in Seq(S) /\ Len((a \o v) \o c) = Len(w)
      /\ \A j \in 1 .. Len(w) : ((a \o v) \o c)[j] = w[j]
  <2>a. PICK av \in Seq(S) :
            /\ av = a \o v /\ Len(av) = i + Len(v)
            /\ \A j \in 1 .. i + Len(v) : av[j] = IF j <= i THEN u[j] ELSE v[j - i]
    BY <1>4
  <2>1. /\ av \o c \in Seq(S) /\ Len(av \o c) = Len(av) + Len(c)
        /\ \A j \in 1 .. Len(av) + Len(c) :
               (av \o c)[j] = IF j <= Len(av) THEN av[j] ELSE c[j - Len(av)]
    <3>1. av \in Seq(S) /\ c \in Seq(S)
      BY <1>3
    <3> QED
      BY ONLY <3>1, ConcatProperties
  <2>2. Len(av) = i + Len(v) /\ Len(av) + Len(c) = Len(w)
    BY <1>0, <1>1, <1>3, <2>a
  <2>3. ASSUME NEW j \in 1 .. Len(w)
        PROVE  (av \o c)[j] = w[j]
    <3>1. CASE j <= i + Len(v)
      <4>1. (av \o c)[j] = av[j]
        <5>1. j \in 1 .. Len(av) + Len(c) /\ j <= Len(av)
          BY <1>1, <2>2, <3>1
        <5>2. (av \o c)[j] = IF j <= Len(av) THEN av[j] ELSE c[j - Len(av)]
          BY ONLY <2>1, <5>1
        <5> QED
          BY ONLY <5>1, <5>2
      <4>2. av[j] = IF j <= i THEN u[j] ELSE v[j - i]
        BY <1>1, <2>a, <3>1
      <4> QED
        <5>1. w[j] = IF j <= i THEN u[j]
                     ELSE IF j <= i + Len(v) THEN v[j - i] ELSE u[j + m - Len(v)]
          BY <1>0
        <5>2. w[j] = IF j <= i THEN u[j] ELSE v[j - i]
          BY ONLY <3>1, <5>1
        <5> QED
          BY ONLY <4>1, <4>2, <5>2
    <3>2. CASE j > i + Len(v)
      <4>1. (av \o c)[j] = c[j - (i + Len(v))]
        <5>1. j \in 1 .. Len(av) + Len(c) /\ ~(j <= Len(av))
          BY <1>1, <2>2, <3>2
        <5>2. (av \o c)[j] = IF j <= Len(av) THEN av[j] ELSE c[j - Len(av)]
          BY ONLY <2>1, <5>1
        <5> QED
          BY ONLY <2>2, <5>1, <5>2
      <4>2. j - (i + Len(v)) \in 1 .. Len(u) - i - m
        BY <1>0, <1>1, <3>2
      <4>3. c[j - (i + Len(v))] = u[i + m + (j - (i + Len(v)))]
        BY <1>3, <4>2
      <4>4. i + m + (j - (i + Len(v))) = j + m - Len(v) /\ ~(j <= i)
        BY <1>0, <1>1, <3>2
      <4> QED
        BY <1>0, <1>1, <3>2, <4>1, <4>3, <4>4
    <3>3. j <= i + Len(v) \/ j > i + Len(v)
      BY <1>1
    <3> QED
      BY <3>1, <3>2, <3>3
  <2> QED
    BY <2>a, <2>1, <2>2, <2>3
<1> QED
  BY <1>5, SeqEqual DEF a, c
-----------------------------------------------------------------------------
(* The heap. *)
HeapItem == [prev : Pointer, next : Pointer, item : Item]
IsHeap(h) == h \in [DOMAIN h -> HeapItem] /\ DOMAIN h \subseteq Node

\* A field assigned.
LEMMA WithPrev ==
    ASSUME IsHeap(node), NEW q, NEW v \in Pointer
    PROVE  /\ IsHeap(With(q, "prev", v)) /\ DOMAIN With(q, "prev", v) = DOMAIN node
           /\ \A m \in DOMAIN node :
                 /\ With(q, "prev", v)[m].prev = IF m = q THEN v ELSE node[m].prev
                 /\ With(q, "prev", v)[m].next = node[m].next
                 /\ With(q, "prev", v)[m].item = node[m].item
BY DEF IsHeap, With, HeapItem

LEMMA WithNext ==
    ASSUME IsHeap(node), NEW q, NEW v \in Pointer
    PROVE  /\ IsHeap(With(q, "next", v)) /\ DOMAIN With(q, "next", v) = DOMAIN node
           /\ \A m \in DOMAIN node :
                 /\ With(q, "next", v)[m].next = IF m = q THEN v ELSE node[m].next
                 /\ With(q, "next", v)[m].prev = node[m].prev
                 /\ With(q, "next", v)[m].item = node[m].item
BY DEF IsHeap, With, HeapItem

LEMMA WithItem ==
    ASSUME IsHeap(node), NEW q, NEW v \in Item
    PROVE  /\ IsHeap(With(q, "item", v)) /\ DOMAIN With(q, "item", v) = DOMAIN node
           /\ \A m \in DOMAIN node :
                 /\ With(q, "item", v)[m].item = IF m = q THEN v ELSE node[m].item
                 /\ With(q, "item", v)[m].prev = node[m].prev
                 /\ With(q, "item", v)[m].next = node[m].next
BY DEF IsHeap, With, HeapItem

\* A node allocated.
LEMMA NewNode ==
    ASSUME NEW h, IsHeap(h), NEW p \in Node \ DOMAIN h, NEW x \in Item,
           NEW q \in Pointer, NEW r \in Pointer
    PROVE  /\ IsHeap(new_node(h, p, x, q, r)) /\ DOMAIN new_node(h, p, x, q, r) = DOMAIN h \cup {p}
           /\ new_node(h, p, x, q, r)[p].prev = q
           /\ new_node(h, p, x, q, r)[p].next = r
           /\ new_node(h, p, x, q, r)[p].item = x
           /\ \A m \in DOMAIN h : new_node(h, p, x, q, r)[m] = h[m]
BY DEF IsHeap, new_node, HeapItem

-----------------------------------------------------------------------------
(* What a chain stands for. *)
ItemsOf(h, s, n)  == [i \in 1 .. n |-> h[s[i]].item]
PlaceOf(s, n, q)  == IF q = Null THEN 0 ELSE CHOOSE i \in 1 .. n : s[i] = q

LEMMA ChosenChain ==
    ASSUME NEW h, NEW f, NEW b, NEW n \in Nat, NEW s \in [1 .. n -> DOMAIN h],
           Chain(h, f, b, s, n)
    PROVE  /\ Cardinality(DOMAIN h) = n
           /\ s \in {t \in [1 .. n -> DOMAIN h] : Chain(h, f, b, t, n)}
           /\ (CHOOSE t \in {t \in [1 .. n -> DOMAIN h] : Chain(h, f, b, t, n)} : TRUE) = s
<1> DEFINE all == {t \in [1 .. n -> DOMAIN h] : Chain(h, f, b, t, n)}
<1>1. Cardinality(DOMAIN h) = n
  BY Counted
<1>2. s \in all
  OBVIOUS
<1>3. \A t \in all : t = s
  BY OneChain
<1> QED
  BY <1>1, <1>2, <1>3

\* The chain of the list now, and after a step.
LEMMA Now ==
    ASSUME NEW n \in Nat, NEW s \in [1 .. n -> DOMAIN node], Chain(node, head, tail, s, n)
    PROVE  /\ Chains # {} /\ Length = n
           /\ Items = ItemsOf(node, s, n) /\ Cursor = PlaceOf(s, n, prev)
<1>1. Length = n
  BY ChosenChain DEF Length
<1>2. Chains # {} /\ Links = s
  BY <1>1, ChosenChain DEF Chains, Links
<1> QED
  BY <1>1, <1>2 DEF Items, Cursor, ItemsOf, PlaceOf

LEMMA Afterwards ==
    ASSUME NEW n \in Nat, NEW s \in [1 .. n -> DOMAIN node'],
           Chain(node', head', tail', s, n)
    PROVE  /\ Chains' # {} /\ Length' = n
           /\ Items' = ItemsOf(node', s, n) /\ Cursor' = PlaceOf(s, n, prev')
<1>1. Length' = n
  BY ChosenChain DEF Length
<1>2. Chains' # {} /\ Links' = s
  BY <1>1, ChosenChain DEF Chains, Links
<1> QED
  BY <1>1, <1>2 DEF Items, Cursor, ItemsOf, PlaceOf

LEMMA PlaceFound ==
    ASSUME NEW n \in Nat, NEW s, \A i, j \in 1 .. n : s[i] = s[j] => i = j,
           NEW k \in 1 .. n, s[k] # Null
    PROVE  PlaceOf(s, n, s[k]) = k
<1>1. (CHOOSE i \in 1 .. n : s[i] = s[k]) = k
  OBVIOUS
<1> QED
  BY <1>1 DEF PlaceOf

\* The invariant: an iterator that has just moved stands on a node.
LlInv ==
    /\ LlTypeOK
    /\ WellLinked
    /\ stepped => may_set = 1 /\ prev # Null

\* A state of the invariant has a chain s of n nodes, and the iterator is at
\* its Cursor-th.
Represents(s, n) ==
    /\ n \in Nat /\ s \in [1 .. n -> DOMAIN node] /\ Chain(node, head, tail, s, n)
    /\ Length = n /\ Items = ItemsOf(node, s, n) /\ Items \in Seq(Item) /\ Len(Items) = n
    /\ Cursor \in 0 .. n
    /\ prev = IF Cursor = 0 THEN Null ELSE s[Cursor]
    /\ \A i \in 1 .. n : s[i] # Null
    /\ IsHeap(node)

LEMMA Represented ==
    ASSUME LlInv
    PROVE  \E n, s : Represents(s, n)
<1> DEFINE n == Length
<1>1. PICK s \in [1 .. n -> DOMAIN node] : Chain(node, head, tail, s, n)
  BY DEF LlInv, WellLinked, Chains
<1>2. n \in Nat
  <2>1. IsFiniteSet(DOMAIN node)
    BY NodeAssumption, FS_Subset DEF LlInv, LlTypeOK
  <2> QED
    BY <2>1, FS_CardinalityType DEF Length
<1> HIDE DEF n
<1>3. /\ Length = n /\ Items = ItemsOf(node, s, n) /\ Cursor = PlaceOf(s, n, prev)
  BY <1>1, <1>2, Now
<1>4. IsHeap(node)
  BY DEF LlInv, LlTypeOK, IsHeap, HeapItem
<1>5. \A i \in 1 .. n : s[i] # Null
  BY <1>1, <1>4, NodeAssumption DEF IsHeap
<1>6. Cursor \in 0 .. n /\ prev = IF Cursor = 0 THEN Null ELSE s[Cursor]
  <2>1. CASE prev = Null
    BY <1>2, <1>3, <2>1 DEF PlaceOf
  <2>2. CASE prev # Null
    <3>1. PICK k \in 1 .. n : s[k] = prev
      BY <1>1, <2>2 DEF LlInv, WellLinked, Chain
    <3>2. \A i, j \in 1 .. n : s[i] = s[j] => i = j
      BY <1>1 DEF Chain
    <3>3. Cursor = k
      BY <1>2, <1>3, <2>2, <3>1, <3>2, PlaceFound
    <3> QED
      BY <1>2, <3>1, <3>3
  <2> QED
    BY <2>1, <2>2
<1>7. Items \in Seq(Item) /\ Len(Items) = n
  <2>1. \A i \in 1 .. n : node[s[i]].item \in Item
    BY <1>1, <1>4 DEF IsHeap, HeapItem
  <2> QED
    BY <1>2, <1>3, <2>1 DEF ItemsOf
<1> QED
  BY <1>1, <1>2, <1>3, <1>4, <1>5, <1>6, <1>7 DEF Represents
-----------------------------------------------------------------------------
(* What linking a node in or out does to the items and to the cursor. *)
LEMMA Inserted ==
    ASSUME NEW n, NEW s, Represents(s, n), NEW k \in 0 .. n, NEW p \in Node, NEW x \in Item,
           InsertsAt(node, node', s, n, k, p), node'[p].item = x,
           \A i \in 1 .. n : node'[s[i]].item = node[s[i]].item,
           head' = IF k = 0 THEN p ELSE head, tail' = IF k = n THEN p ELSE tail,
           prev' \in {p, prev}
    PROVE  /\ Chains' # {} /\ prev' \in DOMAIN node' \cup {Null}
           /\ Items' = List!Splice(k, 0, <<x>>)
           /\ prev' = p => Cursor' = k + 1
           /\ prev' # p => Cursor' = IF Cursor <= k THEN Cursor ELSE Cursor + 1
<1> DEFINE t == Widened(s, n, k, p)
<1>1. n \in Nat /\ n + 1 \in Nat /\ s \in [1 .. n -> DOMAIN node] /\ Chain(node, head, tail, s, n)
  BY DEF Represents
<1>2. t \in [1 .. n + 1 -> DOMAIN node'] /\ Chain(node', head', tail', t, n + 1)
  BY <1>1, InsertedChain
<1>3. \A i \in 1 .. n + 1 : t[i] = IF i <= k THEN s[i] ELSE IF i = k + 1 THEN p ELSE s[i - 1]
  BY DEF Widened
<1> HIDE DEF t
<1>4. /\ Chains' # {} /\ Items' = ItemsOf(node', t, n + 1)
      /\ Cursor' = PlaceOf(t, n + 1, prev')
  BY <1>1, <1>2, Afterwards
<1>5. prev' \in DOMAIN node' \cup {Null}
  BY <1>1 DEF InsertsAt, Represents
<1>6. Items' = List!Splice(k, 0, <<x>>)
  <2>w. PICK w : w = ItemsOf(node', t, n + 1)
    OBVIOUS
  <2>u. PICK u : u = Items
    OBVIOUS
  <2>1. /\ u \in Seq(Item) /\ Len(u) = n
        /\ \A i \in 1 .. n : u[i] = node[s[i]].item
    BY <2>u DEF Represents, ItemsOf
  <2>2. /\ DOMAIN w = 1 .. n + 1 /\ w = [i \in 1 .. n + 1 |-> w[i]]
        /\ \A i \in 1 .. n + 1 : w[i] = node'[t[i]].item
    BY <2>w DEF ItemsOf
  <2>3. ASSUME NEW i \in 1 .. n + 1
        PROVE  w[i] = IF i <= k THEN u[i] ELSE IF i = k + 1 THEN x ELSE u[i - 1]
    <3>1. CASE i <= k
      <4>1. i \in 1 .. n /\ t[i] = s[i]
        BY <1>1, <1>3, <3>1
      <4> QED
        BY <2>1, <2>2, <3>1, <4>1
    <3>2. CASE i = k + 1
      BY <1>1, <1>3, <2>2, <3>2
    <3>3. CASE i > k + 1
      <4>1. i - 1 \in 1 .. n /\ t[i] = s[i - 1] /\ ~(i <= k) /\ i # k + 1
        BY <1>1, <1>3, <3>3
      <4> QED
        BY <2>1, <2>2, <4>1
    <3> QED
      BY <1>1, <3>1, <3>2, <3>3
  <2>4. \A i \in 1 .. n + 1 : w[i] \in Item
    BY <1>1, <2>1, <2>3, ElementOfSeq
  <2>5. w \in Seq(Item) /\ Len(w) = n + 1
    BY <1>1, <2>2, <2>4
  <2>6. k \in 0 .. Len(u) /\ 0 \in 0 .. Len(u) - k /\ Len(w) = Len(u) + 1
    BY <1>1, <2>1, <2>5
  <2>7. <<x>> \in Seq(Item) /\ Len(<<x>>) = 1 /\ <<x>>[1] = x
    OBVIOUS
  <2>8. Replaced(u, <<x>>, w, k, 0)
    BY <1>1, <2>1, <2>3, <2>6, <2>7 DEF Replaced
  <2>9. w = SubSeq(u, 1, k) \o <<x>> \o SubSeq(u, k + 0 + 1, Len(u))
    BY <2>1, <2>5, <2>6, <2>7, <2>8, Spliced
  <2> QED
    BY <1>4, <2>w, <2>u, <2>9 DEF List!Splice
<1>7. ASSUME NEW j \in 1 .. n + 1, t[j] # Null, prev' = t[j]
      PROVE  Cursor' = j
  <2>1. \A c, d \in 1 .. n + 1 : t[c] = t[d] => c = d
    BY <1>2 DEF Chain
  <2> QED
    BY <1>1, <1>4, <1>7, <2>1, PlaceFound
<1>8. p # Null
  BY NodeAssumption
<1>9. CASE prev' = p
  <2>1. k + 1 \in 1 .. n + 1 /\ t[k + 1] = p
    BY <1>1, <1>3
  <2> QED
    BY <1>4, <1>5, <1>6, <1>7, <1>8, <1>9, <2>1
<1>10. CASE prev' # p
  <2>1. prev' = prev /\ Cursor \in 0 .. n /\ prev = IF Cursor = 0 THEN Null ELSE s[Cursor]
    BY <1>10 DEF Represents
  <2>2. CASE Cursor = 0
    BY <1>4, <1>5, <1>6, <1>10, <2>1, <2>2 DEF PlaceOf
  <2>3. CASE Cursor # 0 /\ Cursor <= k
    <3>1. Cursor \in 1 .. n + 1 /\ t[Cursor] = s[Cursor] /\ s[Cursor] # Null
      BY <1>1, <1>3, <2>1, <2>3 DEF Represents
    <3> QED
      BY <1>4, <1>5, <1>6, <1>7, <1>10, <2>1, <2>3, <3>1
  <2>4. CASE Cursor # 0 /\ ~(Cursor <= k)
    <3>1. Cursor + 1 \in 1 .. n + 1 /\ t[Cursor + 1] = s[Cursor] /\ s[Cursor] # Null
      BY <1>1, <1>3, <2>1, <2>4 DEF Represents
    <3> QED
      BY <1>4, <1>5, <1>6, <1>7, <1>10, <2>1, <2>4, <3>1
  <2> QED
    BY <2>2, <2>3, <2>4
<1> QED
  BY <1>9, <1>10

LEMMA Removed ==
    ASSUME NEW n, NEW s, Represents(s, n), NEW k \in 1 .. n,
           RemovesAt(node, node', s, n, k),
           \A i \in 1 .. n : i # k => node'[s[i]].item = node[s[i]].item,
           head' = IF k = 1 THEN node[head].next ELSE head,
           tail' = IF k = n THEN node[tail].prev ELSE tail,
           (prev' = prev /\ prev # s[k]) \/ prev' = node[s[k]].prev
    PROVE  /\ Chains' # {} /\ prev' \in DOMAIN node' \cup {Null}
           /\ Items' = List!Splice(k - 1, 1, <<>>)
           /\ prev' = node[s[k]].prev => Cursor' = k - 1
           /\ prev' = prev /\ prev # s[k] => Cursor' = IF Cursor < k THEN Cursor ELSE Cursor - 1
<1> DEFINE t == Shortened(s, n, k)
<1>1. /\ n \in Nat /\ n - 1 \in Nat /\ s \in [1 .. n -> DOMAIN node]
      /\ Chain(node, head, tail, s, n)
  BY DEF Represents
<1>2. t \in [1 .. n - 1 -> DOMAIN node'] /\ Chain(node', head', tail', t, n - 1)
  BY <1>1, RemovedChain
<1>3. \A i \in 1 .. n - 1 : t[i] = IF i < k THEN s[i] ELSE s[i + 1]
  BY DEF Shortened
<1> HIDE DEF t
<1>4. /\ Chains' # {} /\ Items' = ItemsOf(node', t, n - 1)
      /\ Cursor' = PlaceOf(t, n - 1, prev')
  BY <1>1, <1>2, Afterwards
<1>5. Items' = List!Splice(k - 1, 1, <<>>)
  <2>w. PICK w : w = ItemsOf(node', t, n - 1)
    OBVIOUS
  <2>u. PICK u : u = Items
    OBVIOUS
  <2>1. /\ u \in Seq(Item) /\ Len(u) = n
        /\ \A i \in 1 .. n : u[i] = node[s[i]].item
    BY <2>u DEF Represents, ItemsOf
  <2>2. /\ DOMAIN w = 1 .. n - 1 /\ w = [i \in 1 .. n - 1 |-> w[i]]
        /\ \A i \in 1 .. n - 1 : w[i] = node'[t[i]].item
    BY <2>w DEF ItemsOf
  <2>3. ASSUME NEW i \in 1 .. n - 1
        PROVE  w[i] = IF i < k THEN u[i] ELSE u[i + 1]
    <3>1. CASE i < k
      <4>1. i \in 1 .. n /\ i # k /\ t[i] = s[i]
        BY <1>1, <1>3, <3>1
      <4> QED
        BY <2>1, <2>2, <3>1, <4>1
    <3>2. CASE ~(i < k)
      <4>1. i + 1 \in 1 .. n /\ i + 1 # k /\ t[i] = s[i + 1]
        BY <1>1, <1>3, <3>2
      <4> QED
        BY <2>1, <2>2, <3>2, <4>1
    <3> QED
      BY <3>1, <3>2
  <2>4. \A i \in 1 .. n - 1 : w[i] \in Item
    BY <1>1, <2>1, <2>3, ElementOfSeq
  <2>5. w \in Seq(Item) /\ Len(w) = n - 1
    BY <1>1, <2>2, <2>4
  <2>6. k - 1 \in 0 .. Len(u) /\ 1 \in 0 .. Len(u) - (k - 1) /\ Len(w) = Len(u) - 1
    BY <1>1, <2>1, <2>5
  <2>7. <<>> \in Seq(Item) /\ Len(<<>>) = 0
    OBVIOUS
  <2>8. Replaced(u, <<>>, w, k - 1, 1)
    BY <1>1, <2>1, <2>3, <2>6, <2>7 DEF Replaced
  <2>9. w = SubSeq(u, 1, k - 1) \o <<>> \o SubSeq(u, (k - 1) + 1 + 1, Len(u))
    BY <2>1, <2>5, <2>6, <2>7, <2>8, Spliced
  <2> QED
    BY <1>4, <2>w, <2>u, <2>9 DEF List!Splice
<1>6. ASSUME NEW j \in 1 .. n - 1, t[j] # Null, prev' = t[j]
      PROVE  Cursor' = j /\ prev' \in DOMAIN node'
  <2>1. \A c, d \in 1 .. n - 1 : t[c] = t[d] => c = d
    BY <1>2 DEF Chain
  <2> QED
    <3>1. PlaceOf(t, n - 1, t[j]) = j
      BY <1>1, <1>6, <2>1, PlaceFound
    <3> QED
      BY <1>2, <1>4, <1>6, <3>1
<1>7. prev' = Null => Cursor' = 0
  BY <1>4 DEF PlaceOf
<1>8. \A i \in 1 .. n : s[i] # Null
  BY DEF Represents
<1>9. ASSUME prev' = node[s[k]].prev
      PROVE  Cursor' = k - 1 /\ prev' \in DOMAIN node' \cup {Null}
  <2>1. node[s[k]].prev = IF k = 1 THEN Null ELSE s[k - 1]
    BY <1>1 DEF Chain
  <2>2. k # 1 => k - 1 \in 1 .. n - 1 /\ t[k - 1] = s[k - 1] /\ s[k - 1] # Null
    BY <1>1, <1>3, <1>8
  <2> QED
    BY <1>6, <1>7, <1>9, <2>1, <2>2
<1>10. ASSUME prev' = prev, prev # s[k]
       PROVE  /\ Cursor' = IF Cursor < k THEN Cursor ELSE Cursor - 1
              /\ prev' \in DOMAIN node' \cup {Null}
  <2>1. Cursor \in 0 .. n /\ prev = IF Cursor = 0 THEN Null ELSE s[Cursor]
    BY DEF Represents
  <2>2. CASE Cursor = 0
    BY <1>7, <1>10, <2>1, <2>2
  <2>3. CASE Cursor # 0 /\ Cursor < k
    <3>1. Cursor \in 1 .. n - 1 /\ t[Cursor] = s[Cursor] /\ s[Cursor] # Null
      BY <1>1, <1>3, <1>8, <2>1, <2>3
    <3> QED
      BY <1>6, <1>10, <2>1, <2>3, <3>1
  <2>4. CASE Cursor # 0 /\ ~(Cursor < k)
    <3>1. Cursor # k
      BY <1>10, <2>1, <2>4
    <3>2. Cursor - 1 \in 1 .. n - 1 /\ t[Cursor - 1] = s[Cursor] /\ s[Cursor] # Null
      BY <1>1, <1>3, <1>8, <2>1, <2>4, <3>1
    <3> QED
      BY <1>6, <1>10, <2>1, <2>4, <3>2
  <2> QED
    BY <2>2, <2>3, <2>4
<1> QED
  BY <1>4, <1>5, <1>9, <1>10
-----------------------------------------------------------------------------
(* The ends, the walk, and the calls that leave the chain as it is. *)
LEMMA Ends ==
    ASSUME NEW n, NEW s, Represents(s, n)
    PROVE  /\ head = IF n = 0 THEN Null ELSE s[1]
           /\ tail = IF n = 0 THEN Null ELSE s[n]
           /\ head = Null <=> n = 0
           /\ tail = Null <=> n = 0
           /\ n # 0 => /\ 1 \in 1 .. n /\ n \in 1 .. n
                       /\ head \in DOMAIN node /\ tail \in DOMAIN node
<1>1. /\ head = IF n = 0 THEN Null ELSE s[1]
      /\ tail = IF n = 0 THEN Null ELSE s[n]
  BY DEF Represents, Chain
<1>2. n \in Nat /\ s \in [1 .. n -> DOMAIN node] /\ \A i \in 1 .. n : s[i] # Null
  BY DEF Represents
<1>3. n # 0 => 1 \in 1 .. n /\ n \in 1 .. n
  BY <1>2
<1> QED
  BY <1>1, <1>2, <1>3

\* What the chain says of its k-th node.
LEMMA Neighbours ==
    ASSUME NEW n, NEW s, Represents(s, n), NEW k \in 1 .. n
    PROVE  /\ s[k] \in DOMAIN node /\ s[k] \in Node
           /\ node[s[k]].prev = IF k = 1 THEN Null ELSE s[k - 1]
           /\ node[s[k]].next = IF k = n THEN Null ELSE s[k + 1]
           /\ node[s[k]].item = Items[k] /\ Items[k] \in Item
           /\ \A i \in 1 .. n : s[i] = s[k] => i = k
<1>1. /\ s[k] \in DOMAIN node
      /\ node[s[k]].prev = IF k = 1 THEN Null ELSE s[k - 1]
      /\ node[s[k]].next = IF k = n THEN Null ELSE s[k + 1]
      /\ \A i \in 1 .. n : s[i] = s[k] => i = k
  BY DEF Represents, Chain
<1>2. IsHeap(node) /\ Items = ItemsOf(node, s, n)
  BY DEF Represents
<1>3. s[k] \in Node /\ node[s[k]].item \in Item
  BY <1>1, <1>2 DEF IsHeap, HeapItem
<1> QED
  BY <1>1, <1>2, <1>3 DEF ItemsOf

\* The walk of ll_destroy and ll_size comes to every node.
LEMMA WalkedAll ==
    ASSUME NEW n, NEW s, Represents(s, n)
    PROVE  Reached = DOMAIN node
<1>1. n \in Nat /\ s \in [1 .. n -> DOMAIN node] /\ DOMAIN node \subseteq Node
  BY DEF Represents, IsHeap
<1>2. {s[i] : i \in 1 .. n} = DOMAIN node
  BY DEF Represents, Chain
<1>3. \A m \in DOMAIN node : node[m].next \in DOMAIN node \cup {Null}
  <2> SUFFICES ASSUME NEW i \in 1 .. n
               PROVE  node[s[i]].next \in DOMAIN node \cup {Null}
    BY <1>2
  <2>1. node[s[i]].next = IF i = n THEN Null ELSE s[i + 1]
    BY Neighbours
  <2> QED
    BY <1>1, <2>1
<1>4. Reached \subseteq DOMAIN node
  <2>1. head \in DOMAIN node \cup {Null}
    BY Ends
  <2> QED
    BY <1>1, <1>3, <2>1 DEF Reached
<1>5. ASSUME NEW R \in SUBSET Node, head \in R \cup {Null},
             \A m \in R \cap DOMAIN node : node[m].next \in R \cup {Null}
      PROVE  DOMAIN node \subseteq R
  <2> DEFINE T == {i \in 1 .. n : s[i] \in R}
  <2>1. T \in SUBSET (1 .. n)
    OBVIOUS
  <2>2. n > 0 => 1 \in T
    BY <1>1, <1>5, Ends
  <2>3. \A i \in 1 .. n - 1 : i \in T => i + 1 \in T
    <3> SUFFICES ASSUME NEW i \in 1 .. n - 1, i \in T
                 PROVE  i + 1 \in T
      OBVIOUS
    <3>1. i \in 1 .. n /\ i # n /\ i + 1 \in 1 .. n
      BY <1>1
    <3>2. node[s[i]].next = IF i = n THEN Null ELSE s[i + 1]
      BY <3>1, Neighbours
    <3>3. s[i + 1] # Null
      BY <3>1 DEF Represents
    <3> QED
      BY <1>1, <1>5, <3>1, <3>2, <3>3
  <2> HIDE DEF T
  <2>4. T = 1 .. n
    BY <1>1, <2>1, <2>2, <2>3, UpTo
  <2> QED
    BY <1>2, <2>4 DEF T
<1> QED
  BY <1>1, <1>4, <1>5 DEF Reached

LEMMA Kept ==
    ASSUME LlInv, UNCHANGED <<head, tail, node, prev>>
    PROVE  Chains' # {} /\ Items' = Items /\ Cursor' = Cursor
<1>1. PICK n, s : Represents(s, n)
  BY Represented
<1>2. /\ n \in Nat /\ s \in [1 .. n -> DOMAIN node] /\ Chain(node, head, tail, s, n)
      /\ Items = ItemsOf(node, s, n)
  BY <1>1 DEF Represents
<1>3. s \in [1 .. n -> DOMAIN node'] /\ Chain(node', head', tail', s, n)
  BY <1>2
<1>4. Chains' # {} /\ Items' = ItemsOf(node', s, n) /\ Cursor' = PlaceOf(s, n, prev')
  BY <1>2, <1>3, Afterwards
<1>5. Cursor = PlaceOf(s, n, prev)
  BY <1>2, Now
<1> QED
  BY <1>2, <1>4, <1>5

\* A call that assigns at most to ret and to what only the client remembers.
LEMMA KeptInv ==
    ASSUME LlInv, UNCHANGED <<head, tail, node, prev, may_set, crashed>>,
           {alive', iterating', stepped'} \subseteq BOOLEAN, alive => alive',
           stepped' => stepped,
           ret' \in Item \cup {Null, 0, 1} \cup 0 .. Cardinality(Node)
    PROVE  LlInv' /\ Items' = Items /\ Cursor' = Cursor
<1>1. Chains' # {} /\ Items' = Items /\ Cursor' = Cursor
  BY Kept
<1>2. LlTypeOK'
  BY DEF LlInv, LlTypeOK
<1>3. WellLinked'
  BY <1>1 DEF LlInv, WellLinked
<1> QED
  BY <1>1, <1>2, <1>3 DEF LlInv

\* Cardinality(Node) bounds the size; 0 and 1 are truth values.
LEMMA Sizes ==
    ASSUME NEW n, NEW s, Represents(s, n)
    PROVE  Cardinality(DOMAIN node) = n /\ n \in 0 .. Cardinality(Node)
<1>1. Cardinality(DOMAIN node) = n /\ n \in Nat /\ DOMAIN node \subseteq Node
  BY DEF Represents, Length, IsHeap
<1>2. Cardinality(DOMAIN node) <= Cardinality(Node) /\ Cardinality(Node) \in Nat
  BY <1>1, NodeAssumption, FS_Subset, FS_CardinalityType
<1> QED
  BY <1>1, <1>2
-----------------------------------------------------------------------------
(* One lemma for each call: it keeps the invariant, and does what the        *)
(* operation of the list does.                                               *)
LEMMA LookStep ==
    ASSUME LlInv, NEW ps, NEW answer, Look(ps, answer),
           answer \in Item \cup {Null, 0, 1} \cup 0 .. Cardinality(Node)
    PROVE  LlInv' /\ List!Look(answer)
<1>1. LlInv' /\ Items' = Items /\ Cursor' = Cursor
  BY KeptInv DEF Look, Calls, iterVars, LlInv, LlTypeOK
<1> QED
  BY <1>1 DEF Look, Calls, iterVars, List!Look, List!Same

LEMMA NewStep ==
    ASSUME LlInv, ll_new
    PROVE  LlInv' /\ List!Create
<1>1. LlInv' /\ Items' = Items /\ Cursor' = Cursor
  BY KeptInv DEF ll_new, iterVars, LlInv, LlTypeOK
<1> QED
  BY <1>1 DEF ll_new, iterVars, List!Create

LEMMA AddFailsStep ==
    ASSUME LlInv, AddFails
    PROVE  LlInv' /\ List!AddFails
<1>1. LlInv' /\ Items' = Items /\ Cursor' = Cursor
  BY KeptInv DEF AddFails, iterVars, LlInv, LlTypeOK
<1> QED
  BY <1>1 DEF AddFails, Calls, iterVars, List!AddFails, List!Same

LEMMA GetFrontStep ==
    ASSUME LlInv, ll_get_front
    PROVE  LlInv' /\ List!GetFront
<1>1. PICK n, s : Represents(s, n)
  BY Represented
<1> DEFINE answer == IF head = Null THEN Null ELSE node[head].item
<1>2. /\ answer = IF Items = <<>> THEN Null ELSE Items[1]
      /\ answer \in Item \cup {Null}
  <2>1. Items = <<>> <=> n = 0
    BY <1>1 DEF Represents
  <2>2. CASE n = 0
    BY <1>1, <2>1, <2>2, Ends
  <2>3. CASE n # 0
    BY <1>1, <2>1, <2>3, Ends, Neighbours
  <2> QED
    BY <2>2, <2>3
<1>3. Look({head} \ {Null}, answer)
  BY DEF ll_get_front
<1> HIDE DEF answer
<1>4. LlInv' /\ List!Look(answer)
  BY <1>2, <1>3, LookStep
<1> QED
  BY <1>2, <1>4 DEF List!GetFront

LEMMA GetBackStep ==
    ASSUME LlInv, ll_get_back
    PROVE  LlInv' /\ List!GetBack
<1>1. PICK n, s : Represents(s, n)
  BY Represented
<1> DEFINE answer == IF head = Null THEN Null ELSE node[tail].item
<1>2. /\ answer = IF Items = <<>> THEN Null ELSE Items[Len(Items)]
      /\ answer \in Item \cup {Null}
  <2>1. (Items = <<>> <=> n = 0) /\ Len(Items) = n
    BY <1>1 DEF Represents
  <2>2. CASE n = 0
    BY <1>1, <2>1, <2>2, Ends
  <2>3. CASE n # 0
    BY <1>1, <2>1, <2>3, Ends, Neighbours
  <2> QED
    BY <2>2, <2>3
<1>3. Look(IF head = Null THEN {} ELSE {tail}, answer)
  BY DEF ll_get_back
<1> HIDE DEF answer
<1>4. LlInv' /\ List!Look(answer)
  BY <1>2, <1>3, LookStep
<1> QED
  BY <1>2, <1>4 DEF List!GetBack

LEMMA IsEmptyStep ==
    ASSUME LlInv, ll_is_empty
    PROVE  LlInv' /\ List!IsEmpty
<1>1. PICK n, s : Represents(s, n)
  BY Represented
<1>2. Items = <<>> <=> head = Null
  BY <1>1, Ends DEF Represents
<1>3. Truth(head = Null) = List!Truth(Items = <<>>) /\ Truth(head = Null) \in {0, 1}
  BY <1>2 DEF Truth, List!Truth
<1>4. LlInv' /\ List!Look(Truth(head = Null))
  BY <1>3, LookStep DEF ll_is_empty
<1> QED
  BY <1>3, <1>4 DEF List!IsEmpty

LEMMA SizeStep ==
    ASSUME LlInv, ll_size
    PROVE  LlInv' /\ List!Size
<1>1. PICK n, s : Represents(s, n)
  BY Represented
<1>2. Cardinality(Reached) = n /\ n \in 0 .. Cardinality(Node) /\ Len(Items) = n
  BY <1>1, WalkedAll, Sizes DEF Represents
<1>3. Look(Reached, n)
  BY <1>2 DEF ll_size
<1>4. LlInv' /\ List!Look(n)
  BY <1>2, <1>3, LookStep
<1> QED
  BY <1>2, <1>4 DEF List!Size

LEMMA IteratorNewStep ==
    ASSUME LlInv, ll_iterator_new
    PROVE  LlInv' /\ List!IteratorNew
<1>1. PICK n, s : Represents(s, n)
  BY Represented
<1>2. /\ n \in Nat /\ s \in [1 .. n -> DOMAIN node'] /\ Chain(node', head', tail', s, n)
      /\ Items = ItemsOf(node, s, n) /\ node' = node
  BY <1>1 DEF Represents, ll_iterator_new
<1>3. Chains' # {} /\ Items' = Items /\ Cursor' = PlaceOf(s, n, prev')
  BY <1>2, Afterwards
<1>4. Cursor' = 0
  BY <1>3 DEF ll_iterator_new, PlaceOf
<1>5. LlInv'
  BY <1>3 DEF ll_iterator_new, LlInv, LlTypeOK, WellLinked, Pointer
<1> QED
  BY <1>3, <1>4, <1>5 DEF ll_iterator_new, Calls, List!IteratorNew

LEMMA IteratorDestroyStep ==
    ASSUME LlInv, ll_iterator_destroy
    PROVE  LlInv' /\ List!IteratorDestroy
<1>1. PICK n, s : Represents(s, n)
  BY Represented
<1>2. /\ n \in Nat /\ s \in [1 .. n -> DOMAIN node'] /\ Chain(node', head', tail', s, n)
      /\ Items = ItemsOf(node, s, n) /\ node' = node
  BY <1>1 DEF Represents, ll_iterator_destroy
<1>3. Chains' # {} /\ Items' = Items /\ Cursor' = PlaceOf(s, n, prev')
  BY <1>2, Afterwards
<1>4. Cursor' = 0
  BY <1>3 DEF ll_iterator_destroy, PlaceOf
<1>5. LlInv'
  BY <1>3 DEF ll_iterator_destroy, LlInv, LlTypeOK, WellLinked, Pointer
<1> QED
  BY <1>3, <1>4, <1>5 DEF ll_iterator_destroy, Calls, List!IteratorDestroy

\* Whether the iterator has something to move to.
LEMMA MoreLeft ==
    ASSUME NEW n, NEW s, Represents(s, n)
    PROVE  More <=> Cursor < Len(Items)
<1>1. /\ n \in Nat /\ Cursor \in 0 .. n /\ Len(Items) = n
      /\ prev = IF Cursor = 0 THEN Null ELSE s[Cursor]
      /\ \A i \in 1 .. n : s[i] # Null
  BY DEF Represents
<1>2. CASE Cursor = 0
  <2>1. More <=> head # Null
    BY <1>1, <1>2 DEF More
  <2> QED
    BY <1>1, <1>2, <2>1, Ends
<1>3. CASE Cursor # 0
  <2>1. Cursor \in 1 .. n /\ prev = s[Cursor] /\ prev # Null
    BY <1>1, <1>3
  <2>2. node[prev].next = IF Cursor = n THEN Null ELSE s[Cursor + 1]
    BY <2>1, Neighbours
  <2>3. Cursor # n => s[Cursor + 1] # Null
    BY <1>1, <2>1
  <2> QED
    BY <1>1, <2>1, <2>2, <2>3 DEF More
<1> QED
  BY <1>2, <1>3

LEMMA HasNextStep ==
    ASSUME LlInv, ll_has_next
    PROVE  LlInv' /\ List!HasNext
<1>1. PICK n, s : Represents(s, n)
  BY Represented
<1>2. Truth(More) = List!Truth(Cursor < Len(Items)) /\ Truth(More) \in {0, 1}
  BY <1>1, MoreLeft DEF Truth, List!Truth
<1>3. LlInv' /\ List!Look(Truth(More))
  BY <1>2, LookStep DEF ll_has_next
<1> QED
  BY <1>2, <1>3 DEF List!HasNext, ll_has_next

LEMMA NextStep ==
    ASSUME LlInv, ll_next
    PROVE  LlInv' /\ List!Step
<1>1. PICK n, s : Represents(s, n)
  BY Represented
<1>2. /\ n \in Nat /\ s \in [1 .. n -> DOMAIN node'] /\ Chain(node', head', tail', s, n)
      /\ Items = ItemsOf(node, s, n) /\ node' = node
      /\ Cursor \in 0 .. n /\ Len(Items) = n
      /\ prev = IF Cursor = 0 THEN Null ELSE s[Cursor]
      /\ \A i \in 1 .. n : s[i] # Null
  BY <1>1 DEF Represents, ll_next
<1>3. Chains' # {} /\ Items' = Items /\ Cursor' = PlaceOf(s, n, prev')
  BY <1>2, Afterwards
<1>4. Cursor < n
  BY <1>1, <1>2, MoreLeft DEF ll_next
<1>5. Cursor + 1 \in 1 .. n
  BY <1>2, <1>4
<1>6. (IF prev = Null THEN head ELSE node[prev].next) = s[Cursor + 1]
  <2>1. CASE Cursor = 0
    BY <1>1, <1>2, <1>4, <2>1, Ends
  <2>2. CASE Cursor # 0
    <3>1. Cursor \in 1 .. n /\ prev = s[Cursor] /\ prev # Null /\ Cursor # n
      BY <1>2, <1>4, <2>2
    <3>2. node[prev].next = IF Cursor = n THEN Null ELSE s[Cursor + 1]
      BY <1>1, <3>1, Neighbours
    <3> QED
      BY <3>1, <3>2
  <2> QED
    BY <2>1, <2>2
<1>7. prev' = s[Cursor + 1] /\ ret' = node[s[Cursor + 1]].item
  BY <1>6 DEF ll_next
<1>8. /\ s[Cursor + 1] \in DOMAIN node /\ s[Cursor + 1] \in Node
      /\ ret' = Items[Cursor + 1] /\ ret' \in Item
  BY <1>1, <1>5, <1>7, Neighbours
<1>9. Cursor' = Cursor + 1
  <2>1. \A i, j \in 1 .. n : s[i] = s[j] => i = j
    BY <1>2 DEF Chain
  <2>2. PlaceOf(s, n, s[Cursor + 1]) = Cursor + 1
    BY <1>2, <1>5, <2>1, PlaceFound
  <2> QED
    BY <1>3, <1>7, <2>2
<1>10. LlInv'
  <2>1. LlTypeOK'
    BY <1>7, <1>8 DEF ll_next, LlInv, LlTypeOK, Pointer
  <2>2. WellLinked'
    BY <1>3, <1>7, <1>8 DEF ll_next, LlInv, WellLinked
  <2>3. may_set' = 1 /\ prev' # Null
    BY <1>2, <1>5, <1>7 DEF ll_next
  <2> QED
    BY <2>1, <2>2, <2>3 DEF LlInv
<1> QED
  BY <1>2, <1>3, <1>4, <1>8, <1>9, <1>10 DEF ll_next, Calls, List!Step

LEMMA DestroyStep ==
    ASSUME LlInv, ll_destroy
    PROVE  LlInv' /\ List!Destroy
<1>1. PICK n, s : Represents(s, n)
  BY Represented
<1>2. DOMAIN node' = {}
  BY <1>1, WalkedAll DEF ll_destroy
<1> DEFINE none == [i \in 1 .. 0 |-> Null]
<1>3. 0 \in Nat /\ none \in [1 .. 0 -> DOMAIN node'] /\ Chain(node', head', tail', none, 0)
  BY <1>2 DEF Chain, ll_destroy
<1> HIDE DEF none
<1>4. Chains' # {} /\ Items' = ItemsOf(node', none, 0) /\ Cursor' = PlaceOf(none, 0, prev')
  BY <1>3, Afterwards
<1>5. Items' = <<>> /\ Cursor' = 0
  BY <1>4 DEF ItemsOf, PlaceOf, ll_destroy
<1>6. LlTypeOK'
  BY <1>2 DEF ll_destroy, LlInv, LlTypeOK, Pointer
<1>7. LlInv'
  BY <1>2, <1>4, <1>6 DEF ll_destroy, LlInv, WellLinked
<1> QED
  BY <1>5, <1>7 DEF ll_destroy, Calls, List!Destroy

LEMMA AddFrontStep ==
    ASSUME LlInv, NEW x \in Item, ll_add_front(x)
    PROVE  LlInv' /\ List!AddFront(x)
<1>1. PICK n, s : Represents(s, n)
  BY Represented
<1>2. /\ n \in Nat /\ 0 \in 0 .. n /\ s \in [1 .. n -> DOMAIN node]
      /\ IsHeap(node) /\ Cursor \in 0 .. n
  BY <1>1 DEF Represents
<1>3. PICK p \in Node \ DOMAIN node :
          /\ node' = new_node(IF tail = Null THEN node ELSE With(head, "prev", p), p, x, Null, head)
          /\ tail' = IF tail = Null THEN p ELSE tail
          /\ head' = p
  BY DEF ll_add_front
<1> DEFINE g == IF tail = Null THEN node ELSE With(head, "prev", p)
<1>4. /\ IsHeap(g) /\ DOMAIN g = DOMAIN node
      /\ \A m \in DOMAIN node :
            /\ g[m].prev = IF tail # Null /\ m = head THEN p ELSE node[m].prev
            /\ g[m].next = node[m].next /\ g[m].item = node[m].item
  BY <1>2, WithPrev DEF Pointer
<1>5. node' = new_node(g, p, x, Null, head)
  BY <1>3
<1> HIDE DEF g
<1>6. head \in Pointer /\ Null \in Pointer
  BY DEF LlInv, LlTypeOK, Pointer
<1>7. /\ IsHeap(node') /\ DOMAIN node' = DOMAIN node \cup {p}
      /\ node'[p].prev = Null /\ node'[p].next = head /\ node'[p].item = x
      /\ \A m \in DOMAIN node : node'[m] = g[m]
  <2>1. p \in Node \ DOMAIN g /\ IsHeap(g)
    BY <1>4
  <2>2. /\ IsHeap(new_node(g, p, x, Null, head)) /\ DOMAIN new_node(g, p, x, Null, head) = DOMAIN g \cup {p}
        /\ new_node(g, p, x, Null, head)[p].prev = Null
        /\ new_node(g, p, x, Null, head)[p].next = head
        /\ new_node(g, p, x, Null, head)[p].item = x
        /\ \A m \in DOMAIN g : new_node(g, p, x, Null, head)[m] = g[m]
    BY <1>6, <2>1, NewNode
  <2> QED
    BY <1>4, <1>5, <2>2
<1>8. InsertsAt(node, node', s, n, 0, p)
  <2>1. head = IF n = 0 THEN Null ELSE s[1]
    BY <1>1, Ends
  <2>2. \A i \in 1 .. n : /\ node'[s[i]].prev = IF i = 1 THEN p ELSE node[s[i]].prev
                          /\ node'[s[i]].next = node[s[i]].next
    <3> SUFFICES ASSUME NEW i \in 1 .. n
                 PROVE  /\ node'[s[i]].prev = IF i = 1 THEN p ELSE node[s[i]].prev
                        /\ node'[s[i]].next = node[s[i]].next
      OBVIOUS
    <3>1. n # 0 /\ tail # Null /\ head = s[1] /\ 1 \in 1 .. n
      BY <1>1, <1>2, Ends
    <3>2. s[i] \in DOMAIN node /\ (s[i] = head <=> i = 1)
      BY <1>1, <3>1, Neighbours
    <3> QED
      BY <1>4, <1>7, <3>1, <3>2
  <2> QED
    BY <1>2, <1>7, <2>1, <2>2 DEF InsertsAt
<1>9. \A i \in 1 .. n : node'[s[i]].item = node[s[i]].item
  BY <1>2, <1>4, <1>7
<1>10. /\ head' = IF 0 = 0 THEN p ELSE head
       /\ tail' = IF 0 = n THEN p ELSE tail
       /\ prev' \in {p, prev}
  BY <1>1, <1>3, Ends DEF ll_add_front, iterVars
<1>11. prev' # p
  BY <1>2, NodeAssumption DEF ll_add_front, iterVars, LlInv, WellLinked
<1>12. /\ Chains' # {} /\ prev' \in DOMAIN node' \cup {Null}
       /\ Items' = List!Splice(0, 0, <<x>>)
       /\ Cursor' = IF Cursor <= 0 THEN Cursor ELSE Cursor + 1
  BY <1>1, <1>2, <1>7, <1>8, <1>9, <1>10, <1>11, Inserted
<1>13. LlTypeOK'
  BY <1>3, <1>7 DEF ll_add_front, iterVars, LlInv, LlTypeOK, IsHeap, HeapItem, Pointer
<1>14. LlInv'
  BY <1>12, <1>13 DEF ll_add_front, Calls, iterVars, LlInv, WellLinked
<1> QED
  BY <1>2, <1>12, <1>14 DEF ll_add_front, Calls, iterVars, List!AddFront

LEMMA AddBackStep ==
    ASSUME LlInv, NEW x \in Item, ll_add_back(x)
    PROVE  LlInv' /\ List!AddBack(x)
<1>1. PICK n, s : Represents(s, n)
  BY Represented
<1>2. /\ n \in Nat /\ n \in 0 .. n /\ s \in [1 .. n -> DOMAIN node]
      /\ IsHeap(node) /\ Cursor \in 0 .. n
  BY <1>1 DEF Represents
<1>3. PICK p \in Node \ DOMAIN node :
          /\ node' = new_node(IF head = Null THEN node ELSE With(tail, "next", p), p, x, tail, Null)
          /\ head' = IF head = Null THEN p ELSE head
          /\ tail' = p
  BY DEF ll_add_back
<1> DEFINE g == IF head = Null THEN node ELSE With(tail, "next", p)
<1>4. /\ IsHeap(g) /\ DOMAIN g = DOMAIN node
      /\ \A m \in DOMAIN node :
            /\ g[m].next = IF head # Null /\ m = tail THEN p ELSE node[m].next
            /\ g[m].prev = node[m].prev /\ g[m].item = node[m].item
  BY <1>2, WithNext DEF Pointer
<1>5. node' = new_node(g, p, x, tail, Null)
  BY <1>3
<1> HIDE DEF g
<1>6. tail \in Pointer /\ Null \in Pointer
  BY DEF LlInv, LlTypeOK, Pointer
<1>7. /\ IsHeap(node') /\ DOMAIN node' = DOMAIN node \cup {p}
      /\ node'[p].prev = tail /\ node'[p].next = Null /\ node'[p].item = x
      /\ \A m \in DOMAIN node : node'[m] = g[m]
  <2>1. p \in Node \ DOMAIN g /\ IsHeap(g)
    BY <1>4
  <2>2. /\ IsHeap(new_node(g, p, x, tail, Null)) /\ DOMAIN new_node(g, p, x, tail, Null) = DOMAIN g \cup {p}
        /\ new_node(g, p, x, tail, Null)[p].prev = tail
        /\ new_node(g, p, x, tail, Null)[p].next = Null
        /\ new_node(g, p, x, tail, Null)[p].item = x
        /\ \A m \in DOMAIN g : new_node(g, p, x, tail, Null)[m] = g[m]
    BY <1>6, <2>1, NewNode
  <2> QED
    BY <1>4, <1>5, <2>2
<1>8. InsertsAt(node, node', s, n, n, p)
  <2>1. tail = IF n = 0 THEN Null ELSE s[n]
    BY <1>1, Ends
  <2>2. \A i \in 1 .. n : /\ node'[s[i]].next = IF i = n THEN p ELSE node[s[i]].next
                          /\ node'[s[i]].prev = node[s[i]].prev
    <3> SUFFICES ASSUME NEW i \in 1 .. n
                 PROVE  /\ node'[s[i]].next = IF i = n THEN p ELSE node[s[i]].next
                        /\ node'[s[i]].prev = node[s[i]].prev
      OBVIOUS
    <3>1. n # 0 /\ head # Null /\ tail = s[n] /\ n \in 1 .. n
      BY <1>1, <1>2, Ends
    <3>2. s[i] \in DOMAIN node /\ (s[i] = tail <=> i = n)
      BY <1>1, <3>1, Neighbours
    <3> QED
      BY <1>4, <1>7, <3>1, <3>2
  <2>3. \A i \in 1 .. n : i # n + 1
    BY <1>2
  <2> QED
    BY <1>2, <1>7, <2>1, <2>2, <2>3 DEF InsertsAt
<1>9. \A i \in 1 .. n : node'[s[i]].item = node[s[i]].item
  BY <1>2, <1>4, <1>7
<1>10. /\ head' = IF n = 0 THEN p ELSE head
       /\ tail' = IF n = n THEN p ELSE tail
       /\ prev' \in {p, prev}
  BY <1>1, <1>3, Ends DEF ll_add_back, iterVars
<1>11. prev' # p
  BY <1>2, NodeAssumption DEF ll_add_back, iterVars, LlInv, WellLinked
<1>12. /\ Chains' # {} /\ prev' \in DOMAIN node' \cup {Null}
       /\ Items' = List!Splice(n, 0, <<x>>)
       /\ Cursor' = IF Cursor <= n THEN Cursor ELSE Cursor + 1
  BY <1>1, <1>2, <1>7, <1>8, <1>9, <1>10, <1>11, Inserted
<1>13. LlTypeOK'
  BY <1>3, <1>7 DEF ll_add_back, iterVars, LlInv, LlTypeOK, IsHeap, HeapItem, Pointer
<1>14. LlInv'
  BY <1>12, <1>13 DEF ll_add_back, Calls, iterVars, LlInv, WellLinked
<1>15. Len(Items) = n /\ Cursor' = Cursor
  BY <1>1, <1>2, <1>12 DEF Represents
<1> QED
  BY <1>12, <1>14, <1>15 DEF ll_add_back, Calls, iterVars, List!AddBack

LEMMA WithoutNode ==
    ASSUME NEW h, IsHeap(h), NEW q
    PROVE  /\ IsHeap(Without(h, q)) /\ DOMAIN Without(h, q) = DOMAIN h \ {q}
           /\ \A m \in DOMAIN h \ {q} : Without(h, q)[m] = h[m]
BY DEF IsHeap, Without, HeapItem

LEMMA RemoveFrontStep ==
    ASSUME LlInv, ll_remove_front
    PROVE  LlInv' /\ List!RemoveFront
<1>1. PICK n, s : Represents(s, n)
  BY Represented
<1>2. /\ n \in Nat /\ s \in [1 .. n -> DOMAIN node] /\ IsHeap(node)
      /\ Cursor \in 0 .. n /\ prev = IF Cursor = 0 THEN Null ELSE s[Cursor]
      /\ Len(Items) = n /\ (Items = <<>> <=> n = 0) /\ \A i \in 1 .. n : s[i] # Null
  BY <1>1 DEF Represents
<1>3. CASE head = Null
  <2>1. n = 0
    BY <1>1, <1>3, Ends
  <2>2. LlInv' /\ Items' = Items /\ Cursor' = Cursor
    BY <1>3, KeptInv DEF ll_remove_front, iterVars, LlInv, LlTypeOK
  <2> QED
    BY <1>2, <1>3, <2>1, <2>2 DEF ll_remove_front, Calls, iterVars, List!RemoveFront
<1>4. CASE head # Null
  <2>1. n # 0 /\ 1 \in 1 .. n /\ head = s[1] /\ head \in DOMAIN node
    BY <1>1, <1>4, Ends
  <2>2. PICK after : after = node[head].next
    OBVIOUS
  <2>3. /\ head' = after /\ tail' = IF after = Null THEN Null ELSE tail
        /\ node' = Without(Assign(after, "prev", Null), head)
        /\ ret' = node[head].item /\ head # prev
    BY <1>4, <2>2 DEF ll_remove_front
  <2>4. /\ node[s[1]].prev = Null /\ after = IF 1 = n THEN Null ELSE s[2]
        /\ node[s[1]].item = Items[1] /\ Items[1] \in Item
        /\ \A i \in 1 .. n : s[i] = s[1] => i = 1
    BY <1>1, <2>1, <2>2, Neighbours
  <2>5. PICK g : g = Assign(after, "prev", Null)
    OBVIOUS
  <2>6. /\ IsHeap(g) /\ DOMAIN g = DOMAIN node
        /\ \A m \in DOMAIN node :
              /\ g[m].prev = IF after # Null /\ m = after THEN Null ELSE node[m].prev
              /\ g[m].next = node[m].next /\ g[m].item = node[m].item
    <3>1. Null \in Pointer
      BY DEF Pointer
    <3> QED
      BY <1>2, <2>5, <3>1, WithPrev DEF Assign
  <2>7. /\ IsHeap(node') /\ DOMAIN node' = DOMAIN node \ {s[1]}
        /\ \A m \in DOMAIN node \ {s[1]} : node'[m] = g[m]
    <3>1. IsHeap(g)
      BY <2>6
    <3>2. /\ IsHeap(Without(g, head)) /\ DOMAIN Without(g, head) = DOMAIN g \ {head}
          /\ \A m \in DOMAIN g \ {head} : Without(g, head)[m] = g[m]
      BY <3>1, WithoutNode
    <3> QED
      BY <2>1, <2>3, <2>5, <2>6, <3>2
  <2>8. ASSUME NEW i \in 1 .. n, i # 1
        PROVE  /\ node'[s[i]].prev = IF i = 2 THEN node[s[1]].prev ELSE node[s[i]].prev
               /\ node'[s[i]].next = node[s[i]].next
               /\ node'[s[i]].item = node[s[i]].item
    <3>1. s[i] \in DOMAIN node \ {s[1]} /\ n # 1 /\ 2 \in 1 .. n
      BY <1>2, <2>4, <2>8
    <3>2. after # Null /\ (s[i] = after <=> i = 2)
      BY <1>1, <1>2, <2>4, <3>1, Neighbours
    <3> QED
      BY <2>4, <2>6, <2>7, <3>1, <3>2
  <2>9. RemovesAt(node, node', s, n, 1)
    <3>1. \A i \in 1 .. n : i # 1 - 1 /\ 1 + 1 = 2
      BY <1>2
    <3> QED
      BY <2>7, <2>8, <3>1 DEF RemovesAt
  <2>10. /\ head' = IF 1 = 1 THEN node[head].next ELSE head
         /\ tail' = IF 1 = n THEN node[tail].prev ELSE tail
         /\ prev' = prev /\ prev # s[1]
    <3>1. tail = s[n]
      BY <1>1, <2>1, Ends
    <3>2. n # 1 => after # Null
      BY <1>2, <2>1, <2>4
    <3> QED
      BY <2>1, <2>2, <2>3, <2>4, <3>1, <3>2 DEF ll_remove_front, iterVars
  <2>11. /\ Chains' # {} /\ prev' \in DOMAIN node' \cup {Null}
         /\ Items' = List!Splice(1 - 1, 1, <<>>)
         /\ Cursor' = IF Cursor < 1 THEN Cursor ELSE Cursor - 1
    BY <1>1, <2>1, <2>8, <2>9, <2>10, Removed
  <2>12. head' \in Pointer /\ tail' \in Pointer /\ ret' \in Item
    BY <1>2, <2>1, <2>3, <2>4, <2>6 DEF IsHeap, HeapItem, Pointer, LlInv, LlTypeOK
  <2>13. LlTypeOK'
    BY <2>7, <2>10, <2>12 DEF ll_remove_front, iterVars, LlInv, LlTypeOK, IsHeap, HeapItem
  <2>14. LlInv'
    BY <2>11, <2>13 DEF ll_remove_front, Calls, iterVars, LlInv, WellLinked
  <2>15. 1 - 1 = 0 /\ (Cursor < 1 <=> Cursor = 0)
    BY <1>2
  <2>16. Items' = List!Splice(0, 1, <<>>) /\ ret' = Items[1] /\ Items # <<>>
    BY <1>2, <2>1, <2>3, <2>4, <2>11, <2>15
  <2> QED
    BY <2>11, <2>14, <2>15, <2>16 DEF ll_remove_front, Calls, iterVars, List!RemoveFront
<1> QED
  BY <1>3, <1>4

LEMMA RemoveBackStep ==
    ASSUME LlInv, ll_remove_back
    PROVE  LlInv' /\ List!RemoveBack
<1>1. PICK n, s : Represents(s, n)
  BY Represented
<1>2. /\ n \in Nat /\ s \in [1 .. n -> DOMAIN node] /\ IsHeap(node)
      /\ Cursor \in 0 .. n /\ prev = IF Cursor = 0 THEN Null ELSE s[Cursor]
      /\ Len(Items) = n /\ (Items = <<>> <=> n = 0) /\ \A i \in 1 .. n : s[i] # Null
  BY <1>1 DEF Represents
<1>3. CASE tail = Null
  <2>1. n = 0
    BY <1>1, <1>3, Ends
  <2>2. LlInv' /\ Items' = Items /\ Cursor' = Cursor
    BY <1>3, KeptInv DEF ll_remove_back, iterVars, LlInv, LlTypeOK
  <2> QED
    BY <1>2, <1>3, <2>1, <2>2 DEF ll_remove_back, Calls, iterVars, List!RemoveBack
<1>4. CASE tail # Null
  <2>1. n # 0 /\ n \in 1 .. n /\ tail = s[n] /\ tail \in DOMAIN node
    BY <1>1, <1>4, Ends
  <2>2. PICK before : before = node[tail].prev
    OBVIOUS
  <2>3. /\ tail' = before /\ head' = IF before = Null THEN Null ELSE head
        /\ node' = Without(Assign(before, "next", Null), tail)
        /\ ret' = node[tail].item /\ tail # prev
    BY <1>4, <2>2 DEF ll_remove_back
  <2>4. /\ node[s[n]].next = Null /\ before = IF n = 1 THEN Null ELSE s[n - 1]
        /\ node[s[n]].item = Items[n] /\ Items[n] \in Item
        /\ \A i \in 1 .. n : s[i] = s[n] => i = n
    BY <1>1, <2>1, <2>2, Neighbours
  <2>5. PICK g : g = Assign(before, "next", Null)
    OBVIOUS
  <2>6. /\ IsHeap(g) /\ DOMAIN g = DOMAIN node
        /\ \A m \in DOMAIN node :
              /\ g[m].next = IF before # Null /\ m = before THEN Null ELSE node[m].next
              /\ g[m].prev = node[m].prev /\ g[m].item = node[m].item
    <3>1. Null \in Pointer
      BY DEF Pointer
    <3> QED
      BY <1>2, <2>5, <3>1, WithNext DEF Assign
  <2>7. /\ IsHeap(node') /\ DOMAIN node' = DOMAIN node \ {s[n]}
        /\ \A m \in DOMAIN node \ {s[n]} : node'[m] = g[m]
    <3>1. IsHeap(g)
      BY <2>6
    <3>2. /\ IsHeap(Without(g, tail)) /\ DOMAIN Without(g, tail) = DOMAIN g \ {tail}
          /\ \A m \in DOMAIN g \ {tail} : Without(g, tail)[m] = g[m]
      BY <3>1, WithoutNode
    <3> QED
      BY <2>1, <2>3, <2>5, <2>6, <3>2
  <2>8. ASSUME NEW i \in 1 .. n, i # n
        PROVE  /\ node'[s[i]].next = IF i = n - 1 THEN node[s[n]].next ELSE node[s[i]].next
               /\ node'[s[i]].prev = node[s[i]].prev
               /\ node'[s[i]].item = node[s[i]].item
    <3>1. s[i] \in DOMAIN node \ {s[n]} /\ n # 1 /\ n - 1 \in 1 .. n
      BY <1>2, <2>4, <2>8
    <3>2. before # Null /\ (s[i] = before <=> i = n - 1)
      BY <1>1, <1>2, <2>4, <3>1, Neighbours
    <3> QED
      BY <2>4, <2>6, <2>7, <3>1, <3>2
  <2>9. RemovesAt(node, node', s, n, n)
    <3>1. \A i \in 1 .. n : i # n + 1
      BY <1>2
    <3> QED
      BY <2>7, <2>8, <3>1 DEF RemovesAt
  <2>10. /\ head' = IF n = 1 THEN node[head].next ELSE head
         /\ tail' = IF n = n THEN node[tail].prev ELSE tail
         /\ prev' = prev /\ prev # s[n]
    <3>1. head = s[1]
      BY <1>1, <2>1, Ends
    <3>2. n # 1 => before # Null
      BY <1>2, <2>1, <2>4
    <3> QED
      BY <2>1, <2>2, <2>3, <2>4, <3>1, <3>2 DEF ll_remove_back, iterVars
  <2>11. /\ Chains' # {} /\ prev' \in DOMAIN node' \cup {Null}
         /\ Items' = List!Splice(n - 1, 1, <<>>)
         /\ Cursor' = IF Cursor < n THEN Cursor ELSE Cursor - 1
    BY <1>1, <2>1, <2>8, <2>9, <2>10, Removed
  <2>12. head' \in Pointer /\ tail' \in Pointer /\ ret' \in Item
    BY <1>2, <2>1, <2>3, <2>4, <2>6 DEF IsHeap, HeapItem, Pointer, LlInv, LlTypeOK
  <2>13. LlTypeOK'
    BY <2>7, <2>10, <2>12 DEF ll_remove_back, iterVars, LlInv, LlTypeOK, IsHeap, HeapItem
  <2>14. LlInv'
    BY <2>11, <2>13 DEF ll_remove_back, Calls, iterVars, LlInv, WellLinked
  <2>15. Cursor < n
    BY <1>2, <2>1, <2>10
  <2>16. /\ Items' = List!Splice(Len(Items) - 1, 1, <<>>) /\ ret' = Items[Len(Items)]
         /\ Items # <<>> /\ Cursor' = Cursor
    BY <1>2, <2>1, <2>3, <2>4, <2>11, <2>15
  <2> QED
    BY <2>14, <2>16 DEF ll_remove_back, Calls, iterVars, List!RemoveBack
<1> QED
  BY <1>3, <1>4

LEMMA AddStep ==
    ASSUME LlInv, NEW x \in Item, InMiddle, ll_add(x)
    PROVE  LlInv' /\ List!Insert(x)
<1>1. PICK n, s : Represents(s, n)
  BY Represented
<1>2. /\ n \in Nat /\ s \in [1 .. n -> DOMAIN node] /\ IsHeap(node)
      /\ Cursor \in 0 .. n /\ prev = IF Cursor = 0 THEN Null ELSE s[Cursor]
      /\ Len(Items) = n /\ \A i \in 1 .. n : s[i] # Null
  BY <1>1 DEF Represents
<1>3. PICK k : k = Cursor
  OBVIOUS
<1>4. k \in 1 .. n /\ k # n /\ k + 1 \in 1 .. n /\ k \in 0 .. n /\ prev = s[k]
  <2>1. Cursor < n /\ prev # Null
    BY <1>1, <1>2, MoreLeft DEF InMiddle
  <2> QED
    BY <1>2, <1>3, <2>1
<1> DEFINE after == node[prev].next
<1>5. after = node[prev].next
  OBVIOUS
<1>6. /\ s[k] \in DOMAIN node /\ s[k + 1] \in DOMAIN node /\ after = s[k + 1]
      /\ \A i \in 1 .. n : (s[i] = s[k] <=> i = k) /\ (s[i] = after <=> i = k + 1)
  <2>1. /\ s[k] \in DOMAIN node /\ node[s[k]].next = IF k = n THEN Null ELSE s[k + 1]
        /\ \A i \in 1 .. n : s[i] = s[k] => i = k
    BY <1>1, <1>4, Neighbours
  <2>2. s[k + 1] \in DOMAIN node /\ \A i \in 1 .. n : s[i] = s[k + 1] => i = k + 1
    BY <1>1, <1>4, Neighbours
  <2> QED
    BY <1>4, <1>5, <2>1, <2>2
<1>7. PICK p \in Node \ DOMAIN node :
          /\ node' = new_node([m \in DOMAIN node |->
                                CASE m = after -> [node[m] EXCEPT !.prev = p]
                                  [] m = prev  -> [node[m] EXCEPT !.next = p]
                                  [] OTHER     -> node[m]],
                              p, x, prev, after)
          /\ prev' = p
  BY DEF ll_add
<1> HIDE DEF after
<1>8. PICK g : g = [m \in DOMAIN node |-> CASE m = after -> [node[m] EXCEPT !.prev = p]
                                              [] m = prev  -> [node[m] EXCEPT !.next = p]
                                              [] OTHER     -> node[m]]
  OBVIOUS
<1>9. after # prev /\ p \in Pointer /\ prev \in Pointer /\ after \in Pointer
  BY <1>2, <1>4, <1>6 DEF IsHeap, Pointer
<1>10. /\ IsHeap(g) /\ DOMAIN g = DOMAIN node
       /\ \A m \in DOMAIN node :
             /\ g[m].prev = IF m = after THEN p ELSE node[m].prev
             /\ g[m].next = IF m = prev THEN p ELSE node[m].next
             /\ g[m].item = node[m].item
  <2>1. DOMAIN g = DOMAIN node /\ g = [m \in DOMAIN node |-> g[m]]
    BY <1>8
  <2>2. ASSUME NEW m \in DOMAIN node
        PROVE  /\ g[m] \in HeapItem
               /\ g[m].prev = IF m = after THEN p ELSE node[m].prev
               /\ g[m].next = IF m = prev THEN p ELSE node[m].next
               /\ g[m].item = node[m].item
    <3>1. node[m] \in HeapItem
      BY <1>2 DEF IsHeap
    <3>2. CASE m = after
      <4>1. g[m] = [node[m] EXCEPT !.prev = p]
        BY <1>8, <1>9, <3>2
      <4> QED
        BY <1>9, <3>1, <3>2, <4>1 DEF HeapItem
    <3>3. CASE m = prev
      <4>1. g[m] = [node[m] EXCEPT !.next = p]
        BY <1>8, <1>9, <3>3
      <4> QED
        BY <1>9, <3>1, <3>3, <4>1 DEF HeapItem
    <3>4. CASE m # after /\ m # prev
      <4>1. g[m] = node[m]
        BY <1>8, <3>4
      <4> QED
        BY <3>1, <3>4, <4>1
    <3> QED
      BY <3>2, <3>3, <3>4
  <2> QED
    BY <1>2, <2>1, <2>2 DEF IsHeap
<1>11. /\ IsHeap(node') /\ DOMAIN node' = DOMAIN node \cup {p}
       /\ node'[p].prev = prev /\ node'[p].next = after /\ node'[p].item = x
       /\ \A m \in DOMAIN node : node'[m] = g[m]
  <2>1. p \in Node \ DOMAIN g /\ IsHeap(g)
    BY <1>10
  <2>2. node' = new_node(g, p, x, prev, after)
    BY <1>7, <1>8
  <2>3. /\ IsHeap(new_node(g, p, x, prev, after))
        /\ DOMAIN new_node(g, p, x, prev, after) = DOMAIN g \cup {p}
        /\ new_node(g, p, x, prev, after)[p].prev = prev
        /\ new_node(g, p, x, prev, after)[p].next = after
        /\ new_node(g, p, x, prev, after)[p].item = x
        /\ \A m \in DOMAIN g : new_node(g, p, x, prev, after)[m] = g[m]
    BY <1>9, <2>1, NewNode
  <2> QED
    BY <1>10, <2>2, <2>3
<1>12. InsertsAt(node, node', s, n, k, p)
  <2>1. \A i \in 1 .. n : /\ node'[s[i]].prev = IF i = k + 1 THEN p ELSE node[s[i]].prev
                          /\ node'[s[i]].next = IF i = k THEN p ELSE node[s[i]].next
    BY <1>2, <1>4, <1>6, <1>10, <1>11
  <2>2. /\ node'[p].prev = IF k = 0 THEN Null ELSE s[k]
        /\ node'[p].next = IF k = n THEN Null ELSE s[k + 1]
    BY <1>2, <1>4, <1>6, <1>11
  <2> QED
    BY <1>11, <2>1, <2>2 DEF InsertsAt
<1>13. \A i \in 1 .. n : node'[s[i]].item = node[s[i]].item
  BY <1>2, <1>10, <1>11
<1>14. /\ head' = IF k = 0 THEN p ELSE head
       /\ tail' = IF k = n THEN p ELSE tail
       /\ prev' \in {p, prev}
  <2>1. UNCHANGED <<head, tail>>
    BY DEF ll_add
  <2>2. k # 0 /\ k # n
    BY <1>2, <1>4
  <2> QED
    BY <1>7, <2>1, <2>2
<1>15. /\ Chains' # {} /\ prev' \in DOMAIN node' \cup {Null}
       /\ Items' = List!Splice(k, 0, <<x>>) /\ Cursor' = k + 1
  <2>1. p \in Node /\ prev' = p /\ node'[p].item = x /\ k \in 0 .. n
    BY <1>4, <1>7, <1>11
  <2> QED
    BY <1>1, <1>12, <1>13, <1>14, <2>1, Inserted
<1>16. LlTypeOK'
  BY <1>7, <1>11 DEF ll_add, LlInv, LlTypeOK, IsHeap, HeapItem, Pointer
<1>17. LlInv'
  BY <1>15, <1>16 DEF ll_add, Calls, LlInv, WellLinked
<1> QED
  BY <1>3, <1>15, <1>17 DEF ll_add, Calls, List!Insert

LEMMA SetStep ==
    ASSUME LlInv, NEW x \in Item, stepped \/ may_set = 0, ll_set(x)
    PROVE  LlInv' /\ List!Replace(x)
<1>1. PICK n, s : Represents(s, n)
  BY Represented
<1>2. /\ n \in Nat /\ s \in [1 .. n -> DOMAIN node] /\ IsHeap(node)
      /\ Chain(node, head, tail, s, n) /\ Items = ItemsOf(node, s, n)
      /\ Items \in Seq(Item) /\ Len(Items) = n
      /\ Cursor \in 0 .. n /\ prev = IF Cursor = 0 THEN Null ELSE s[Cursor]
  BY <1>1 DEF Represents
<1>3. CASE may_set = 0 \/ prev = Null
  <2>1. ~stepped
    BY <1>3 DEF LlInv
  <2>2. LlInv' /\ Items' = Items /\ Cursor' = Cursor
    BY <1>3, KeptInv DEF ll_set, iterVars, LlInv, LlTypeOK
  <2> QED
    BY <1>3, <2>1, <2>2 DEF ll_set, iterVars, List!Replace
<1>4. CASE ~(may_set = 0 \/ prev = Null)
  <2>1. PICK k : k = Cursor
    OBVIOUS
  <2>2. k \in 1 .. n /\ prev = s[k]
    BY <1>2, <1>4, <2>1
  <2>3. node' = With(prev, "item", x) /\ ret' = node[prev].item
    BY <1>4 DEF ll_set
  <2>4. /\ s[k] \in DOMAIN node /\ node[s[k]].item = Items[k] /\ Items[k] \in Item
        /\ \A i \in 1 .. n : s[i] = s[k] => i = k
    BY <1>1, <2>2, Neighbours
  <2>5. /\ IsHeap(node') /\ DOMAIN node' = DOMAIN node
        /\ \A m \in DOMAIN node :
              /\ node'[m].item = IF m = prev THEN x ELSE node[m].item
              /\ node'[m].prev = node[m].prev /\ node'[m].next = node[m].next
    BY <1>2, <2>3, WithItem
  <2>6. /\ s \in [1 .. n -> DOMAIN node'] /\ Chain(node', head', tail', s, n)
        /\ UNCHANGED <<head, tail, prev>>
    <3>1. UNCHANGED <<head, tail, prev>>
      BY DEF ll_set, iterVars
    <3>2. \A i \in 1 .. n : /\ node'[s[i]].prev = node[s[i]].prev
                            /\ node'[s[i]].next = node[s[i]].next
      BY <1>2, <2>5
    <3> QED
      BY <1>2, <2>5, <3>1, <3>2 DEF Chain
  <2>7. Chains' # {} /\ Items' = ItemsOf(node', s, n) /\ Cursor' = PlaceOf(s, n, prev')
    BY <1>2, <2>6, Afterwards
  <2>8. Cursor' = Cursor
    <3>1. Cursor = PlaceOf(s, n, prev)
      BY <1>2, Now
    <3> QED
      BY <2>6, <2>7, <3>1
  <2>9. Items' = List!Splice(k - 1, 1, <<x>>)
    <3>w. PICK w : w = ItemsOf(node', s, n)
      OBVIOUS
    <3>u. PICK u : u = Items
      OBVIOUS
    <3>1. u \in Seq(Item) /\ Len(u) = n /\ \A i \in 1 .. n : u[i] = node[s[i]].item
      BY <1>2, <3>u DEF ItemsOf
    <3>2. /\ w = [i \in 1 .. n |-> w[i]]
          /\ \A i \in 1 .. n : w[i] = node'[s[i]].item
      BY <3>w DEF ItemsOf
    <3>3. \A i \in 1 .. n : w[i] = IF i = k THEN x ELSE u[i]
      BY <1>2, <2>2, <2>4, <2>5, <3>1, <3>2
    <3>4. \A i \in 1 .. n : w[i] \in Item
      BY <3>1, <3>3, ElementOfSeq
    <3>5. w \in Seq(Item) /\ Len(w) = n
      BY <1>2, <3>2, <3>4
    <3>6. k - 1 \in 0 .. Len(u) /\ 1 \in 0 .. Len(u) - (k - 1)
      BY <1>2, <2>2, <3>1
    <3>7. <<x>> \in Seq(Item) /\ Len(<<x>>) = 1 /\ <<x>>[1] = x
      OBVIOUS
    <3>8. Replaced(u, <<x>>, w, k - 1, 1)
      BY <1>2, <2>2, <3>1, <3>3, <3>5, <3>7 DEF Replaced
    <3>9. w = SubSeq(u, 1, k - 1) \o <<x>> \o SubSeq(u, (k - 1) + 1 + 1, Len(u))
      BY <3>1, <3>5, <3>6, <3>7, <3>8, Spliced
    <3> QED
      BY <2>7, <3>w, <3>u, <3>9 DEF List!Splice
  <2>10. LlTypeOK'
    BY <2>2, <2>3, <2>4, <2>5 DEF ll_set, iterVars, LlInv, LlTypeOK, IsHeap, HeapItem
  <2>11. LlInv'
    BY <2>5, <2>7, <2>10 DEF ll_set, iterVars, LlInv, WellLinked
  <2>12. stepped /\ ret' = Items[Cursor]
    BY <1>4, <2>1, <2>2, <2>3, <2>4
  <2> QED
    BY <2>1, <2>8, <2>9, <2>11, <2>12 DEF ll_set, iterVars, List!Replace
<1> QED
  BY <1>3, <1>4

LEMMA RemoveStep ==
    ASSUME LlInv, stepped \/ may_set = 0, ll_remove
    PROVE  LlInv' /\ List!Delete
<1>1. PICK n, s : Represents(s, n)
  BY Represented
<1>2. /\ n \in Nat /\ s \in [1 .. n -> DOMAIN node] /\ IsHeap(node)
      /\ Cursor \in 0 .. n /\ prev = IF Cursor = 0 THEN Null ELSE s[Cursor]
      /\ Len(Items) = n /\ \A i \in 1 .. n : s[i] # Null
  BY <1>1 DEF Represents
<1>3. CASE may_set = 0 \/ prev = Null
  <2>1. ~stepped
    BY <1>3 DEF LlInv
  <2>2. LlInv' /\ Items' = Items /\ Cursor' = Cursor
    BY <1>3, KeptInv DEF ll_remove, LlInv, LlTypeOK
  <2> QED
    BY <1>3, <2>1, <2>2 DEF ll_remove, List!Delete
<1>4. CASE ~(may_set = 0 \/ prev = Null)
  <2>1. PICK k : k = Cursor
    OBVIOUS
  <2>2. k \in 1 .. n /\ prev = s[k]
    BY <1>2, <1>4, <2>1
  <2> DEFINE before == node[prev].prev
             after  == node[prev].next
             moved(m) == CASE m = before -> [node[m] EXCEPT !.next = after]
                           [] m = after  -> [node[m] EXCEPT !.prev = before]
                           [] OTHER      -> node[m]
  <2>3. /\ node' = [m \in DOMAIN node \ {prev} |-> moved(m)]
        /\ tail' = IF tail = prev THEN before ELSE tail
        /\ head' = IF head = prev THEN after ELSE head
        /\ prev' = before /\ ret' = node[prev].item /\ stepped' = FALSE
    BY <1>4 DEF ll_remove
  <2>4. /\ s[k] \in DOMAIN node /\ node[s[k]].item = Items[k] /\ Items[k] \in Item
        /\ before = IF k = 1 THEN Null ELSE s[k - 1]
        /\ after = IF k = n THEN Null ELSE s[k + 1]
        /\ \A i \in 1 .. n : s[i] = s[k] => i = k
    BY <1>1, <2>2, Neighbours
  <2>5. before \in Pointer /\ after \in Pointer
    BY <1>2, <2>2, <2>4 DEF IsHeap, HeapItem
  <2> HIDE DEF before, after
  <2>6. \A i, j \in 1 .. n : s[i] = s[j] => i = j
    BY <1>1 DEF Represents, Chain
  <2>7. ASSUME NEW i \in 1 .. n, i # k
        PROVE  (s[i] = before <=> i = k - 1) /\ (s[i] = after <=> i = k + 1)
    BY <1>2, <2>2, <2>4, <2>6, <2>7
  <2>8. before = after => before = Null
    BY <1>2, <2>2, <2>4, <2>6
  <2>9. ASSUME NEW m \in DOMAIN node \ {prev}
        PROVE  /\ node'[m] \in HeapItem
               /\ node'[m].next = IF m = before THEN after ELSE node[m].next
               /\ node'[m].prev = IF m = after THEN before ELSE node[m].prev
               /\ node'[m].item = node[m].item
    <3>1. node[m] \in HeapItem /\ m # Null
      BY <1>2, NodeAssumption DEF IsHeap
    <3>2. node'[m] = moved(m)
      BY <2>3
    <3>3. CASE m = before
      <4>1. node'[m] = [node[m] EXCEPT !.next = after] /\ m # after
        BY <2>8, <3>1, <3>2, <3>3
      <4> QED
        BY <2>5, <3>1, <3>3, <4>1 DEF HeapItem
    <3>4. CASE m = after
      <4>1. node'[m] = [node[m] EXCEPT !.prev = before] /\ m # before
        BY <2>8, <3>1, <3>2, <3>4
      <4> QED
        BY <2>5, <3>1, <3>4, <4>1 DEF HeapItem
    <3>5. CASE m # before /\ m # after
      <4>1. node'[m] = node[m]
        BY <3>2, <3>5
      <4> QED
        BY <3>1, <3>5, <4>1
    <3> QED
      BY <3>3, <3>4, <3>5
  <2>10. DOMAIN node' = DOMAIN node \ {s[k]} /\ node' = [m \in DOMAIN node \ {prev} |-> node'[m]]
    BY <2>2, <2>3
  <2> HIDE DEF moved
  <2>11. IsHeap(node')
    BY <1>2, <2>2, <2>9, <2>10 DEF IsHeap
  <2>12. ASSUME NEW i \in 1 .. n, i # k
         PROVE  /\ node'[s[i]].prev = IF i = k + 1 THEN node[s[k]].prev ELSE node[s[i]].prev
                /\ node'[s[i]].next = IF i = k - 1 THEN node[s[k]].next ELSE node[s[i]].next
                /\ node'[s[i]].item = node[s[i]].item
    <3>1. s[i] \in DOMAIN node \ {prev}
      BY <1>2, <2>2, <2>4, <2>12
    <3>2. before = node[s[k]].prev /\ after = node[s[k]].next
      BY <2>2 DEF before, after
    <3> QED
      BY <2>7, <2>9, <2>12, <3>1, <3>2
  <2>13. RemovesAt(node, node', s, n, k)
    BY <2>10, <2>12 DEF RemovesAt
  <2>14. /\ head' = IF k = 1 THEN node[head].next ELSE head
         /\ tail' = IF k = n THEN node[tail].prev ELSE tail
         /\ prev' = node[s[k]].prev
    <3>1. n # 0 /\ head = s[1] /\ tail = s[n] /\ 1 \in 1 .. n /\ n \in 1 .. n
      BY <1>1, <1>2, <2>2, Ends
    <3>2. (head = prev <=> k = 1) /\ (tail = prev <=> k = n)
      BY <2>2, <2>6, <3>1
    <3>3. head = prev => after = node[head].next
      BY DEF after
    <3>4. tail = prev => before = node[tail].prev
      BY DEF before
    <3>5. before = node[s[k]].prev
      BY <2>2 DEF before
    <3> QED
      BY <2>3, <3>2, <3>3, <3>4, <3>5
  <2>15. /\ Chains' # {} /\ prev' \in DOMAIN node' \cup {Null}
         /\ Items' = List!Splice(k - 1, 1, <<>>) /\ Cursor' = k - 1
    BY <1>1, <2>2, <2>12, <2>13, <2>14, Removed
  <2>16. LlTypeOK'
    <3>1. {head', tail', prev'} \subseteq Pointer
      BY <2>3, <2>5 DEF LlInv, LlTypeOK
    <3>2. ret' \in Item /\ stepped' = FALSE
      BY <2>2, <2>3, <2>4
    <3> QED
      BY <2>11, <3>1, <3>2 DEF ll_remove, LlInv, LlTypeOK, IsHeap, HeapItem
  <2>17. LlInv'
    BY <2>3, <2>10, <2>15, <2>16 DEF ll_remove, LlInv, WellLinked
  <2>18. stepped /\ ret' = Items[Cursor]
    BY <1>4, <2>1, <2>2, <2>3, <2>4
  <2> QED
    BY <2>1, <2>3, <2>15, <2>17, <2>18 DEF ll_remove, List!Delete
<1> QED
  BY <1>3, <1>4

-----------------------------------------------------------------------------
LEMMA LlInvInit == LlInit => LlInv /\ List!Init
<1> SUFFICES ASSUME LlInit
             PROVE  LlInv /\ List!Init
  OBVIOUS
<1> DEFINE none == [i \in 1 .. 0 |-> Null]
<1>1. 0 \in Nat /\ none \in [1 .. 0 -> DOMAIN node] /\ Chain(node, head, tail, none, 0)
  BY DEF Chain, LlInit
<1> HIDE DEF none
<1>2. Chains # {} /\ Items = ItemsOf(node, none, 0) /\ Cursor = PlaceOf(none, 0, prev)
  BY <1>1, Now
<1>3. Items = <<>> /\ Cursor = 0
  BY <1>2 DEF ItemsOf, PlaceOf, LlInit
<1>4. LlTypeOK
  BY DEF LlInit, LlTypeOK, Pointer
<1>5. LlInv
  BY <1>2, <1>4 DEF LlInit, LlInv, WellLinked
<1> QED
  BY <1>3, <1>5 DEF LlInit, List!Init

LEMMA LlStutter ==
    ASSUME LlInv, UNCHANGED llVars
    PROVE  LlInv' /\ UNCHANGED List!listVars
<1>1. LlInv' /\ Items' = Items /\ Cursor' = Cursor
  BY KeptInv DEF llVars, iterVars, LlInv, LlTypeOK
<1> QED
  BY <1>1 DEF llVars, iterVars, List!listVars

LEMMA LlInvNext == LlInv /\ [ListNext]_llVars => LlInv' /\ [List!ListNext]_(List!listVars)
<1> SUFFICES ASSUME LlInv, [ListNext]_llVars
             PROVE  LlInv' /\ [List!ListNext]_(List!listVars)
  OBVIOUS
<1>1. CASE ll_new
  BY <1>1, NewStep DEF List!ListNext
<1>2. CASE ll_destroy
  BY <1>2, DestroyStep DEF List!ListNext
<1>3. CASE AddFails
  BY <1>3, AddFailsStep DEF List!ListNext
<1>4. ASSUME NEW x \in Item, ll_add_front(x)
      PROVE  LlInv' /\ [List!ListNext]_(List!listVars)
  BY <1>4, AddFrontStep DEF List!ListNext
<1>5. ASSUME NEW x \in Item, ll_add_back(x)
      PROVE  LlInv' /\ [List!ListNext]_(List!listVars)
  BY <1>5, AddBackStep DEF List!ListNext
<1>6. CASE ll_remove_front
  BY <1>6, RemoveFrontStep DEF List!ListNext
<1>7. CASE ll_remove_back
  BY <1>7, RemoveBackStep DEF List!ListNext
<1>8. CASE ll_get_front
  BY <1>8, GetFrontStep DEF List!ListNext
<1>9. CASE ll_get_back
  BY <1>9, GetBackStep DEF List!ListNext
<1>10. CASE ll_size
  BY <1>10, SizeStep DEF List!ListNext
<1>11. CASE ll_is_empty
  BY <1>11, IsEmptyStep DEF List!ListNext
<1>12. CASE ll_iterator_new
  BY <1>12, IteratorNewStep DEF List!ListNext
<1>13. CASE ll_iterator_destroy
  BY <1>13, IteratorDestroyStep DEF List!ListNext
<1>14. CASE ll_has_next
  BY <1>14, HasNextStep DEF List!ListNext
<1>15. CASE ll_next
  BY <1>15, NextStep DEF List!ListNext
<1>16. ASSUME NEW x \in Item, InMiddle, ll_add(x)
       PROVE  LlInv' /\ [List!ListNext]_(List!listVars)
  BY <1>16, AddStep DEF List!ListNext
<1>17. CASE (stepped \/ may_set = 0) /\ ll_remove
  BY <1>17, RemoveStep DEF List!ListNext
<1>18. ASSUME NEW x \in Item, stepped \/ may_set = 0, ll_set(x)
       PROVE  LlInv' /\ [List!ListNext]_(List!listVars)
  BY <1>18, SetStep DEF List!ListNext
<1>19. CASE UNCHANGED llVars
  BY <1>19, LlStutter
<1> QED
  BY <1>1, <1>2, <1>3, <1>4, <1>5, <1>6, <1>7, <1>8, <1>9, <1>10, <1>11, <1>12, <1>13, <1>14,
     <1>15, <1>16, <1>17, <1>18, <1>19 DEF ListNext, Basic

\* Every field of linkedlist.c's list, nodes and iterator has a value of its type.
THEOREM ListTypeCorrect == ListSpec => []LlTypeOK
<1>1. LlInv => LlTypeOK
  BY DEF LlInv
<1> QED
  BY <1>1, LlInvInit, LlInvNext, PTL DEF ListSpec

\* The links of linkedlist.c are one chain that holds every allocated node, with
\* the iterator on it: no node leaks, none is linked in after it was freed.
THEOREM ListWellLinked == ListSpec => []WellLinked
<1>1. LlInv => WellLinked
  BY DEF LlInv
<1> QED
  BY <1>1, LlInvInit, LlInvNext, PTL DEF ListSpec

\* Every call on the heap of linkedlist.c does what the operation of linkedlist.h
\* does to the sequence of items.
THEOREM HeapImplementsList == ListSpec => ImplementsList
<1>1. LlInit => List!Init
  BY LlInvInit
<1>2. LlInv /\ [ListNext]_llVars => [List!ListNext]_(List!listVars)
  BY LlInvNext
<1>3. ListSpec => []LlInv
  BY LlInvInit, LlInvNext, PTL DEF ListSpec
<1> QED
  BY <1>1, <1>2, <1>3, PTL DEF ListSpec, ImplementsList, List!ListSpec
=============================================================================
