--------------------------- MODULE JitMachineProofs ---------------------------
(***************************************************************************)
(* The function cache, the patched call sites, the types, the host stack   *)
(* and the change over to the interpreter, for every executable, whatever  *)
(* the compiled code and the interpreter do; and, at the end, that         *)
(* compiled code implements the interpreter wherever JitMachine's Regular  *)
(* holds.                                                                  *)
(***************************************************************************)
EXTENDS JitMachine, JitCodeProofs, XSimProofs

-----------------------------------------------------------------------------
(* The invariant: the functions that the running code, the host stack and  *)
(* the patched call sites refer to exist.                                  *)
RunningKnown == mode = "jit" => fn \in DOMAIN fns
FramesKnown  ==
    \A i \in DOMAIN hstack : hstack[i].kind = "ret" => hstack[i].fn \in DOMAIN fns
SitesKnown   == \A s \in DOMAIN patched : s[1] \in DOMAIN fns

CacheInv ==
    /\ IsList(fns) /\ IsList(hstack)
    /\ RunningKnown /\ FramesKnown /\ SitesKnown
    /\ CompiledOnce /\ PatchedSitesAgree

\* The functions that exist stay where they are, and new ones keep the cache
\* free of duplicates.
FnsKept ==
    /\ IsList(fns')
    /\ DOMAIN fns \subseteq DOMAIN fns'
    /\ \A i \in DOMAIN fns : fns'[i] = fns[i]
    /\ CompiledOnce'

\* The functions are numbered from 1.
LEMMA FnsDomain ==
    ASSUME IsList(fns)
    PROVE  DOMAIN fns = 1 .. Len(fns) /\ Len(fns) \in Nat
BY DEF IsList

\* Compiling nothing keeps the functions.
LEMMA SameFns ==
    ASSUME CacheInv, UNCHANGED fns
    PROVE  FnsKept
BY DEF CacheInv, FnsKept, CompiledOnce

\* compile_or_get_cached_addr keeps them, and returns the function for the
\* address it was given.
LEMMA GetCached ==
    ASSUME CacheInv, fns # <<>>, NEW t, NEW k, CompileOrGetCached(t, k)
    PROVE  FnsKept /\ k \in Cached(t)'
<1>1. DOMAIN fns = 1 .. Len(fns) /\ Len(fns) \in Nat /\ Len(fns) >= 1
  BY FnsDomain DEF CacheInv, IsList
<1>2. CASE k \in Cached(t) /\ UNCHANGED fns
  BY <1>2, SameFns DEF Cached
<1>3. CASE Cached(t) = {} /\ fns' = Append(fns, Prepare(mem, t)) /\ k = Len(fns) + 1
  <2>1. /\ IsList(fns') /\ Len(fns') = Len(fns) + 1
        /\ \A i \in 1 .. Len(fns) : fns'[i] = fns[i]
        /\ fns'[k] = Prepare(mem, t)
    BY <1>3, AppendList DEF CacheInv
  <2>2. Prepare(mem, t).addr = t
    BY DEF Prepare
  <2>3. DOMAIN fns' = 1 .. Len(fns) + 1
    BY <2>1 DEF IsList
  <2>4. \A i \in 2 .. Len(fns) : fns'[i].addr # t
    BY <1>1, <1>3, <2>1 DEF Cached
  <2>5. CompiledOnce'
    <3> SUFFICES ASSUME NEW i \in 2 .. Len(fns'), NEW j \in 2 .. Len(fns'),
                        fns'[i].addr = fns'[j].addr
                 PROVE  i = j
      BY DEF CompiledOnce
    <3>1. CASE i # k /\ j # k
      <4>1. i \in 2 .. Len(fns) /\ j \in 2 .. Len(fns)
        BY <1>1, <1>3, <2>1, <3>1
      <4> QED
        BY <1>1, <2>1, <4>1 DEF CacheInv, CompiledOnce
    <3>2. CASE i = k \/ j = k
      BY <1>1, <1>3, <2>1, <2>2, <2>4, <3>2
    <3> QED
      BY <3>1, <3>2
  <2> QED
    BY <1>1, <1>3, <2>1, <2>2, <2>3, <2>5 DEF FnsKept, Cached
<1> QED
  BY <1>2, <1>3 DEF CompileOrGetCached

\* While the functions are kept, the sites patched before are still right.
LEMMA SitesKept ==
    ASSUME CacheInv, FnsKept, NEW s \in DOMAIN patched
    PROVE  /\ s[1] \in DOMAIN fns'
           /\ patched[s] \in Cached(fns[s[1]].code[s[3]].ext)'
<1>1. s[1] \in DOMAIN fns /\ patched[s] \in Cached(fns[s[1]].code[s[3]].ext)
  BY DEF CacheInv, SitesKnown, PatchedSitesAgree
<1>2. fns'[s[1]] = fns[s[1]]
  BY <1>1 DEF FnsKept
<1>3. DOMAIN fns = 1 .. Len(fns) /\ DOMAIN fns' = 1 .. Len(fns')
  BY DEF CacheInv, FnsKept, IsList
<1>4. \A i \in 2 .. Len(fns) : i \in 2 .. Len(fns') /\ fns'[i] = fns[i]
  BY <1>3 DEF FnsKept, CacheInv, IsList
<1> QED
  BY <1>1, <1>2, <1>4 DEF Cached, FnsKept

\* A step keeps the invariant when it keeps the functions, patches no site,
\* and runs and stacks nothing but functions that exist.
LEMMA StepKeeps ==
    ASSUME CacheInv, FnsKept, IsList(hstack'), RunningKnown', FramesKnown',
           UNCHANGED patched
    PROVE  CacheInv'
<1>1. \A s \in DOMAIN patched :
        /\ s[1] \in DOMAIN fns'
        /\ patched[s] \in Cached(fns[s[1]].code[s[3]].ext)'
  BY SitesKept
<1>2. SitesKnown' /\ PatchedSitesAgree'
  BY <1>1 DEF SitesKnown, PatchedSitesAgree
<1> QED
  BY <1>2 DEF CacheInv, FnsKept

\* The stack may lose what is on it.
LEMMA EmptyStack ==
    ASSUME hstack' = <<>>
    PROVE  IsList(hstack') /\ FramesKnown'
<1>1. <<>> \in Seq({}) /\ DOMAIN <<>> = {}
  OBVIOUS
<1> QED
  BY <1>1, SeqList DEF FramesKnown

\* And stay as it is.
LEMMA SameStack ==
    ASSUME CacheInv, FnsKept, UNCHANGED hstack
    PROVE  IsList(hstack') /\ FramesKnown'
BY DEF CacheInv, FnsKept, FramesKnown

\* A call of the internal version stacks an address to return to.
LEMMA InternalStack ==
    ASSUME IsList(hstack), CallInternal
    PROVE  /\ IsList(hstack') /\ Len(hstack') = Len(hstack) + 1
           /\ Len(hstack) \in Nat /\ DOMAIN hstack = 1 .. Len(hstack)
           /\ DOMAIN hstack' = 1 .. Len(hstack) + 1
           /\ \A i \in 1 .. Len(hstack) : hstack'[i] = hstack[i]
           /\ hstack'[Len(hstack) + 1] = Frame(FALSE)
<1>1. /\ IsList(hstack') /\ Len(hstack') = Len(hstack) + 1
      /\ \A i \in 1 .. Len(hstack) : hstack'[i] = hstack[i]
      /\ hstack'[Len(hstack) + 1] = Frame(FALSE)
  BY AppendList DEF CallInternal
<1> QED
  BY <1>1, ListDomain

\* Any other call one, and the registers that the preamble saves.
LEMMA ThroughStack ==
    ASSUME IsList(hstack), CallThrough
    PROVE  /\ IsList(hstack') /\ Len(hstack') = Len(hstack) + 2
           /\ Len(hstack) \in Nat /\ DOMAIN hstack = 1 .. Len(hstack)
           /\ DOMAIN hstack' = 1 .. Len(hstack) + 2
           /\ \A i \in 1 .. Len(hstack) : hstack'[i] = hstack[i]
           /\ hstack'[Len(hstack) + 1] = Frame(TRUE)
           /\ hstack'[Len(hstack) + 2] = SavedRegs
<1>1. PICK f, g : f = Frame(TRUE) /\ g = SavedRegs
  OBVIOUS
<1> DEFINE h == hstack \o <<f, g>>
<1>2. /\ IsList(h) /\ Len(h) = Len(hstack) + 2
      /\ \A i \in 1 .. Len(hstack) : h[i] = hstack[i]
      /\ h[Len(hstack) + 1] = f /\ h[Len(hstack) + 2] = g
  BY AppendTwo
<1>3. hstack' = h
  BY <1>1 DEF CallThrough
<1> HIDE DEF h
<1> QED
  BY <1>1, <1>2, <1>3, ListDomain

\* What a call has put on the stack, besides what was there.
LEMMA Pushes ==
    ASSUME CacheInv, CallInternal \/ CallThrough
    PROVE  /\ IsList(hstack')
           /\ \A i \in DOMAIN hstack' :
                 \/ i \in DOMAIN hstack /\ hstack'[i] = hstack[i]
                 \/ \E b \in BOOLEAN : hstack'[i] = Frame(b)
                 \/ hstack'[i] = SavedRegs
<1>1. IsList(hstack)
  BY DEF CacheInv
<1>2. CASE CallInternal
  <2>1. \A i \in DOMAIN hstack' : i \in DOMAIN hstack \/ i = Len(hstack) + 1
    BY <1>1, <1>2, InternalStack
  <2> QED
    BY <1>1, <1>2, <2>1, InternalStack
<1>3. CASE CallThrough
  <2>1. \A i \in DOMAIN hstack' :
          i \in DOMAIN hstack \/ i = Len(hstack) + 1 \/ i = Len(hstack) + 2
    BY <1>1, <1>3, ThroughStack
  <2> QED
    BY <1>1, <1>3, <2>1, ThroughStack
<1> QED
  BY <1>2, <1>3

\* All of it is known.
LEMMA CallStack ==
    ASSUME CacheInv, FnsKept, mode = "jit", CallInternal \/ CallThrough
    PROVE  IsList(hstack') /\ FramesKnown'
<1>1. fn \in DOMAIN fns' /\ \A i \in DOMAIN fns : i \in DOMAIN fns'
  BY DEF CacheInv, RunningKnown, FnsKept
<1>2. \A b : Frame(b).kind = "ret" /\ Frame(b).fn = fn
  BY DEF Frame
<1>3. SavedRegs.kind = "saved"
  BY DEF SavedRegs
<1>4. \A i \in DOMAIN hstack' : hstack'[i].kind = "ret" => hstack'[i].fn \in DOMAIN fns'
  BY <1>1, <1>2, <1>3, Pushes DEF CacheInv, FramesKnown
<1> QED
  BY <1>4, Pushes DEF FramesKnown

\* A ret takes the address to return to off it, and what lies on that.
LEMMA RetStack ==
    ASSUME IsList(hstack), RetInto
    PROVE  \E n \in 1 .. Len(hstack) :
              /\ n = IF inst = 0 THEN Len(hstack) - 1 ELSE Len(hstack)
              /\ hstack[n].kind = "ret"
              /\ fn' = hstack[n].fn /\ ip' = hstack[n].ip /\ inst' = hstack[n].inst
              /\ phys' = IF hstack[n].reload THEN LoadedFor(fns[fn'], regs')
                         ELSE [i \in Slot |-> IF RegIn(F, i) = SP THEN SPUp ELSE phys[i]]
              /\ IsList(hstack') /\ Len(hstack') = n - 1
              /\ \A i \in 1 .. n - 1 : hstack'[i] = hstack[i]
<1> DEFINE n == Len(Unwound)
           m == Len(hstack) - (IF inst = 0 THEN 1 ELSE 0)
<1>1. Len(hstack) \in Nat /\ m \in Int /\ m <= Len(hstack)
  BY ListDomain
<1>2. Unwound # <<>>
  BY DEF RetInto
<1>3. m = IF inst = 0 THEN Len(hstack) - 1 ELSE Len(hstack)
  BY <1>1
<1>4. Unwound = SubSeq(hstack, 1, m)
  BY DEF Unwound
<1> HIDE DEF m
<1>5. IsList(Unwound) /\ n = IF 1 <= m THEN m ELSE 0
  BY <1>1, <1>4, PrefixList
<1>6. \A i \in 1 .. m : Unwound[i] = hstack[i]
  BY <1>1, <1>4, PrefixList
<1>7. n # 0
  BY <1>2, <1>5 DEF IsList
<1>8. /\ Unwound[n].kind = "ret"
      /\ fn' = Unwound[n].fn /\ ip' = Unwound[n].ip /\ inst' = Unwound[n].inst
      /\ phys' = IF Unwound[n].reload THEN LoadedFor(fns[Unwound[n].fn], regs')
                 ELSE [i \in Slot |-> IF RegIn(F, i) = SP THEN SPUp ELSE phys[i]]
      /\ hstack' = SubSeq(Unwound, 1, n - 1)
  BY <1>2 DEF RetInto, Balanced
<1>9. Len(Unwound) = n
  OBVIOUS
<1> HIDE DEF n
<1>10. m \in Int /\ (n = IF 1 <= m THEN m ELSE 0)
  BY <1>1, <1>5
<1>11. n = m /\ 1 <= m
  BY <1>10, <1>7
<1>12. n \in 1 .. Len(hstack) /\ n - 1 \in Int /\ n - 1 <= n
  BY <1>1, <1>11
<1>13. Unwound[n] = hstack[n] /\ \A i \in 1 .. n : Unwound[i] = hstack[i]
  BY <1>6, <1>11, <1>12
<1>14. /\ IsList(hstack') /\ Len(hstack') = (IF 1 <= n - 1 THEN n - 1 ELSE 0)
      /\ \A i \in 1 .. n - 1 : hstack'[i] = Unwound[i]
  BY <1>5, <1>8, <1>9, <1>12, PrefixList
<1>15. Len(hstack') = n - 1 /\ \A i \in 1 .. n - 1 : hstack'[i] = hstack[i]
  BY <1>14, <1>12, <1>13
<1> QED
  BY <1>8, <1>14, <1>15, <1>11, <1>12, <1>13, <1>3

-----------------------------------------------------------------------------
(* The steps. *)

\* Instructions that stay in the function, and the ways out of compiled code.
LEMMA QuietKeeps ==
    ASSUME CacheInv, UNCHANGED <<fns, patched>>,
           UNCHANGED <<mode, fn>> \/ mode' # "jit",
           UNCHANGED hstack \/ hstack' = <<>>
    PROVE  CacheInv'
<1>1. FnsKept
  BY SameFns
<1>2. IsList(hstack') /\ FramesKnown'
  BY <1>1, SameStack, EmptyStack
<1>3. RunningKnown'
  BY DEF CacheInv, RunningKnown
<1> QED
  BY <1>1, <1>2, <1>3, StepKeeps

\* What compiled code does to the registers and to memory is not seen here.
LEMMA StraightKeeps ==
    ASSUME CacheInv,
           \/ JLoadI \/ JMov \/ JArith \/ JDivByZero \/ JShl \/ JCompare \/ JUnary
           \/ JLoad \/ JLoadB \/ JStor \/ JStorB \/ JPush \/ JPop \/ JOut
           \/ JrLinked \/ BrLinked \/ BrNotTaken \/ JPanic \/ JInvalid \/ JWild
    PROVE  CacheInv'
<1>1. Advance => UNCHANGED <<fns, patched, mode, fn, hstack>>
  BY DEF Advance
<1>2. \A n : Goto(n) => UNCHANGED <<fns, patched, mode, fn, hstack>>
  BY DEF Goto
<1>3. UNCHANGED jitVars => UNCHANGED <<fns, patched, mode, fn, hstack>>
  BY DEF jitVars
<1>4. Escape => UNCHANGED <<fns, patched, fn>> /\ hstack' = <<>>
  BY DEF Escape
<1>5. \/ UNCHANGED <<fns, patched, mode, fn, hstack>>
      \/ UNCHANGED <<fns, patched>> /\ hstack' = <<>> /\ mode' = "handoff"
      \/ UNCHANGED <<fns, patched, mode, fn>> /\ hstack' = <<>>
  BY <1>1, <1>2, <1>3, <1>4
  DEF JLoadI, JMov, JArith, JDivByZero, JShl, JCompare, JUnary, JLoad, JLoadB, JStor,
      JStorB, JPush, JPop, JOut, JrLinked, BrLinked, BrNotTaken, JPanic, JInvalid, JWild
<1> QED
  BY <1>5, QuietKeeps

\* A function is running, so there is one.
LEMMA SomeFunction ==
    ASSUME CacheInv, mode = "jit"
    PROVE  fns # <<>>
BY DEF CacheInv, RunningKnown

\* A jump out of the function.
LEMMA JumpKeeps ==
    ASSUME CacheInv, mode = "jit", NEW t, NEW r, JumpAway(t, r)
    PROVE  CacheInv'
<1>1. PICK k \in Targets : CompileOrGetCached(t, k) /\ Start(k) /\ UNCHANGED hstack
  BY DEF JumpAway, JumpDynamic
<1>2. FnsKept /\ k \in Cached(t)'
  BY <1>1, GetCached, SomeFunction
<1>3. RunningKnown'
  BY <1>1, <1>2, FnsDomain DEF RunningKnown, Start, Cached, FnsKept, IsList
<1>4. UNCHANGED patched
  BY DEF JumpAway
<1> QED
  BY <1>1, <1>2, <1>3, <1>4, SameStack, StepKeeps

\* The jumps.
LEMMA JumpsKeep ==
    ASSUME CacheInv, JrDynamic \/ BrDynamic \/ JJmp \/ JJmpR
    PROVE  CacheInv'
<1>1. mode = "jit" /\ \E t, r : JumpAway(t, r)
  BY DEF JrDynamic, BrDynamic, JJmp, JJmpR, Jitting
<1> QED
  BY <1>1, JumpKeeps

\* The calls through a register and of the function itself.
LEMMA CallsKeep ==
    ASSUME CacheInv, JCallR \/ JCallRecursive
    PROVE  CacheInv'
<1>1. mode = "jit" /\ UNCHANGED <<mode, patched>>
  BY DEF JCallR, JCallRecursive, Jitting
<1>2. CASE JCallR
  <2>1. PICK t, k : CompileOrGetCached(t, k) /\ Start(k)
    BY <1>2 DEF JCallR
  <2>2. FnsKept /\ k \in Cached(t)'
    BY <1>1, <2>1, GetCached, SomeFunction
  <2>3. RunningKnown'
    BY <2>1, <2>2 DEF RunningKnown, Start, Cached, FnsKept, IsList
  <2> QED
    BY <1>1, <1>2, <2>2, <2>3, CallStack, StepKeeps DEF JCallR
<1>3. CASE JCallRecursive
  <2>1. FnsKept /\ RunningKnown'
    BY <1>3, SameFns DEF JCallRecursive, CacheInv, RunningKnown
  <2> QED
    BY <1>1, <1>3, <2>1, CallStack, StepKeeps DEF JCallRecursive
<1> QED
  BY <1>2, <1>3

\* The call that is patched: the site gets the function for its address.
LEMMA CallKeeps ==
    ASSUME CacheInv, JCall
    PROVE  CacheInv'
<1>1. mode = "jit" /\ fns # <<>> /\ fn \in DOMAIN fns /\ UNCHANGED mode
  BY SomeFunction DEF JCall, Jitting, CacheInv, RunningKnown
<1>2. PICK t, k : t = C.ext /\ CallSite(t, k) /\ Start(k)
  BY DEF JCall
<1>3. CASE Site \in DOMAIN patched /\ k = patched[Site] /\ UNCHANGED <<fns, patched>>
  <2>1. FnsKept
    BY <1>3, SameFns
  <2>2. k \in 2 .. Len(fns) /\ DOMAIN fns = 1 .. Len(fns)
    BY <1>3, FnsDomain DEF CacheInv, PatchedSitesAgree, Cached
  <2>3. RunningKnown'
    BY <1>2, <1>3, <2>2, FnsDomain DEF RunningKnown, Start, CacheInv
  <2> QED
    BY <1>1, <1>3, <2>1, <2>3, CallStack, StepKeeps DEF JCall
<1>4. CASE /\ CompileOrGetCached(t, k)
           /\ patched' = [s \in DOMAIN patched \cup {Site} |->
                            IF s = Site THEN k ELSE patched[s]]
  <2>1. FnsKept /\ k \in Cached(t)'
    BY <1>1, <1>4, GetCached
  <2>2. RunningKnown'
    BY <1>2, <2>1 DEF RunningKnown, Start, Cached, FnsKept, IsList
  <2>3. IsList(hstack') /\ FramesKnown'
    BY <1>1, <2>1, CallStack DEF JCall
  <2>4. PICK e : e = Site
    OBVIOUS
  <2>5. e[1] = fn /\ fns[e[1]].code[e[3]].ext = t
    BY <1>2, <2>4 DEF Site, C, F
  <2>6. e[1] \in DOMAIN fns' /\ fns'[e[1]].code[e[3]].ext = t
    BY <1>1, <2>1, <2>5 DEF FnsKept
  <2>7. SitesKnown'
    BY <1>4, <2>1, <2>4, <2>6, SitesKept DEF SitesKnown
  <2>8. PatchedSitesAgree'
    <3> SUFFICES ASSUME NEW s \in DOMAIN patched'
                 PROVE  patched'[s] \in Cached(fns[s[1]].code[s[3]].ext)'
      BY DEF PatchedSitesAgree
    <3>1. CASE s = e
      BY <1>4, <2>1, <2>4, <2>6, <3>1 DEF Cached
    <3>2. CASE s # e
      BY <1>4, <2>1, <2>4, <3>2, SitesKept
    <3> QED
      BY <3>1, <3>2
  <2> QED
    BY <2>1, <2>2, <2>3, <2>7, <2>8 DEF CacheInv, FnsKept
<1> QED
  BY <1>2, <1>3, <1>4 DEF CallSite

\* A ret, into a function on the host stack or into main.
LEMMA RetsKeep ==
    ASSUME CacheInv, RetInto \/ RetToMain
    PROVE  CacheInv'
<1>1. mode = "jit" /\ UNCHANGED <<mode, fns, patched>> /\ FnsKept
  BY SameFns DEF RetInto, RetToMain, Jitting
<1>2. CASE RetToMain
  BY <1>1, <1>2, QuietKeeps DEF RetToMain
<1>3. CASE RetInto
  <2>1. IsList(hstack) /\ FramesKnown /\ DOMAIN hstack = 1 .. Len(hstack)
    BY ListDomain DEF CacheInv
  <2>2. PICK n \in 1 .. Len(hstack) :
           /\ hstack[n].kind = "ret" /\ fn' = hstack[n].fn
           /\ IsList(hstack') /\ Len(hstack') = n - 1
           /\ \A i \in 1 .. n - 1 : hstack'[i] = hstack[i]
    BY <1>3, <2>1, RetStack
  <2>3. \A i \in DOMAIN hstack' : i \in DOMAIN hstack /\ hstack'[i] = hstack[i]
    BY <2>1, <2>2, ListDomain
  <2>4. RunningKnown' /\ FramesKnown'
    BY <1>1, <2>1, <2>2, <2>3 DEF FramesKnown, RunningKnown
  <2> QED
    BY <1>1, <2>2, <2>4, StepKeeps
<1> QED
  BY <1>2, <1>3

-----------------------------------------------------------------------------
(* The simulator with its JIT. *)

\* It starts with one function or none.
LEMMA CacheInit ==
    ASSUME JitInit
    PROVE  CacheInv
<1>1. DOMAIN patched = {} /\ fn = 1
  BY DEF JitInit
<1>2. CASE mode = "jit" /\ fns = <<Prepare(mem, 0)>> /\ hstack = <<SavedRegs>>
  <2>1. IsList(fns) /\ Len(fns) = 1
    <3>1. \A x : IsList(<<x>>) /\ Len(<<x>>) = 1
      BY DEF IsList
    <3> QED
      BY <1>2, <3>1
  <2>2. IsList(hstack) /\ DOMAIN hstack = {1} /\ hstack[1].kind = "saved"
    BY <1>2 DEF IsList, SavedRegs
  <2>3. RunningKnown /\ FramesKnown /\ SitesKnown /\ PatchedSitesAgree
    BY <1>1, <2>1, <2>2, ListDomain
    DEF RunningKnown, FramesKnown, SitesKnown, PatchedSitesAgree
  <2>4. CompiledOnce
    BY <2>1 DEF CompiledOnce
  <2> QED
    BY <2>1, <2>2, <2>3, <2>4 DEF CacheInv
<1>3. CASE mode = "interp" /\ fns = <<>> /\ hstack = <<>>
  <2>1. IsList(<<>>) /\ Len(<<>>) = 0 /\ DOMAIN <<>> = {}
    BY DEF IsList
  <2> QED
    BY <1>1, <1>3, <2>1
    DEF CacheInv, RunningKnown, FramesKnown, SitesKnown, CompiledOnce, PatchedSitesAgree
<1> QED
  BY <1>2, <1>3 DEF JitInit

\* The invariant holds after every step, whatever the guest code.
LEMMA CacheStep ==
    ASSUME CacheInv, [JitNext]_vars
    PROVE  CacheInv'
<1>1. CASE JitCompiled
  BY <1>1, StraightKeeps, JumpsKeep, CallsKeep, CallKeeps, RetsKeep DEF JitCompiled
<1>2. CASE Interpret
  BY <1>2, QuietKeeps DEF Interpret
<1>3. CASE UNCHANGED vars
  BY <1>3, QuietKeeps DEF vars, jitVars
<1> QED
  BY <1>1, <1>2, <1>3 DEF JitNext

LEMMA CacheInvariant == JitSpec => []CacheInv
<1>1. JitInit => CacheInv
  BY CacheInit
<1>2. CacheInv /\ [JitNext]_vars => CacheInv'
  BY CacheStep
<1> QED
  BY <1>1, <1>2, PTL DEF JitSpec

\* jit_runtime.c:8: whatever calls and jumps lead to an address, and in
\* whatever order, it is compiled at most once for the cache.
THEOREM CompiledOnceSafe == JitSpec => []CompiledOnce
<1>1. CacheInv => CompiledOnce
  BY DEF CacheInv
<1> QED
  BY <1>1, CacheInvariant, PTL

\* jit_runtime.c:50: a call site once overwritten stays right, however many
\* functions are compiled after it.
THEOREM PatchedSitesAgreeSafe == JitSpec => []PatchedSitesAgree
<1>1. CacheInv => PatchedSitesAgree
  BY DEF CacheInv
<1> QED
  BY <1>1, CacheInvariant, PTL

-----------------------------------------------------------------------------
(* Types. *)

\* A compiled function: its table and its instructions, of which the last, and no
\* other, ends it, the first at its address and each behind the one before it.
IsFunction(f) ==
    /\ f.addr \in Word /\ IsOrder(f.order) /\ IsList(f.code)
    /\ f.code # <<>> => f.code[1].at = f.addr
    /\ \A i \in 1 .. Len(f.code) :
          /\ f.code[i].at \in Word /\ f.code[i].instr \in Word /\ f.code[i].ext \in Word
          /\ EndsFunction(OpcodeOf(f.code[i].instr)) <=> i = Len(f.code)
    /\ \A i \in 1 .. Len(f.code) - 1 :
          f.code[i + 1].at =
              Wrap(f.code[i].at
                   + IF XIS_NUM_OPS(OpcodeOf(f.code[i].instr)) = XIS_EXTENDED THEN 4 ELSE 2)

CpuTyped ==
    /\ regs \in [RegId -> Word] /\ pc \in Word /\ state \in 0 .. 3
    /\ IsMemory(mem)
    /\ out \in Seq(Outputs)

HostTyped ==
    /\ phys \in [Slot -> Wides]
    /\ raxDirty \in BOOLEAN

ModeTyped ==
    /\ result \in Results \cup {"returned", "wild"}
    /\ mode \in {"jit", "handoff", "interp"}

FnsTyped == \A i \in DOMAIN fns : IsFunction(fns[i])

PlaceTyped ==
    /\ inst \in Nat
    /\ mode = "jit" => ip \in {1} \cup DOMAIN F.code

FramesTyped ==
    \A i \in DOMAIN hstack : hstack[i].kind = "ret" =>
        /\ hstack[i].ip \in DOMAIN fns[hstack[i].fn].code
        /\ hstack[i].inst \in Nat /\ hstack[i].reload \in BOOLEAN

MachineTyped ==
    /\ CpuTyped /\ HostTyped /\ ModeTyped
    /\ FnsTyped /\ PlaceTyped /\ FramesTyped

\* jit.c: what jit_prepare returns for an address is a function.
LEMMA PrepareFunction ==
    ASSUME NEW m, IsMemory(m), NEW t \in Word
    PROVE  IsFunction(Prepare(m, t))
<1> DEFINE f == Prepare(m, t)
<1>1. f.addr = t /\ f.order = SolveRegion(m, t) /\ f.code = Translate(m, t)
  BY DEF Prepare
<1>2. IsCode(m, t, f.code)
  BY <1>1, TranslateCode
<1>3. IsOrder(f.order)
  BY <1>1, SolveRegionType, InWord
<1> HIDE DEF f
<1>4. \A i \in 1 .. Len(f.code) :
        /\ f.code[i].at \in Word /\ f.code[i].instr \in Word /\ f.code[i].ext \in Word
        /\ f.code[i].instr = LoadShort(m, f.code[i].at)
  <2> SUFFICES ASSUME NEW i \in 1 .. Len(f.code)
               PROVE  /\ f.code[i].at \in Word
                      /\ f.code[i].instr \in Word /\ f.code[i].ext \in Word
                      /\ f.code[i].instr = LoadShort(m, f.code[i].at)
    OBVIOUS
  <2>1. f.code[i].at \in Word /\ f.code[i] = Translated(m, f.code[i].at)
    BY <1>2 DEF IsCode
  <2>2. PICK a \in Word : a = f.code[i].at
    BY <2>1
  <2>3. f.code[i] = Translated(m, a)
    BY <2>1, <2>2
  <2>4. LoadShort(m, a) \in Word /\ LoadShort(m, Wrap(a + 2)) \in Word /\ 0 \in Word
    BY LoadShortWord, InWord
  <2> QED
    BY <2>2, <2>3, <2>4 DEF Translated
<1>5. \A i \in 1 .. Len(f.code) : OpcodeOf(f.code[i].instr) = Peek(m, f.code[i].at)
  BY <1>4, OpcodeAt
<1>6. IsList(f.code) /\ Len(f.code) \in Nat
  BY <1>2, ListDomain DEF IsCode
<1>7. \A i \in 1 .. Len(f.code) - 1 :
        f.code[i + 1].at =
            Wrap(f.code[i].at
                 + IF XIS_NUM_OPS(OpcodeOf(f.code[i].instr)) = XIS_EXTENDED THEN 4 ELSE 2)
  <2> SUFFICES ASSUME NEW i \in 1 .. Len(f.code) - 1
               PROVE  f.code[i + 1].at =
                        Wrap(f.code[i].at
                             + IF XIS_NUM_OPS(OpcodeOf(f.code[i].instr)) = XIS_EXTENDED
                               THEN 4 ELSE 2)
    OBVIOUS
  <2>1. i \in 1 .. Len(f.code)
    BY <1>6
  <2>2. f.code[i + 1].at = Wrap(f.code[i].at + SizeAt(m, f.code[i].at))
    BY <1>2 DEF IsCode
  <2> QED
    BY <1>5, <2>1, <2>2 DEF SizeAt
<1>8. \A i \in 1 .. Len(f.code) :
        EndsFunction(OpcodeOf(f.code[i].instr)) <=> i = Len(f.code)
  BY <1>2 DEF IsCode
<1>9. ASSUME f.code # <<>>
      PROVE  f.code[1].at = f.addr
  <2>1. Len(f.code) # 0
    BY <1>6, <1>9 DEF IsList
  <2> QED
    BY <1>1, <1>2, <1>6, <2>1 DEF IsCode
<1>10. IsFunction(f)
  BY <1>1, <1>3, <1>4, <1>6, <1>7, <1>8, <1>9 DEF IsFunction
<1> QED
  BY <1>10 DEF f

\* What compiled code that runs takes from its instruction and its registers.
LEMMA InFunction ==
    ASSUME CacheInv, MachineTyped, mode = "jit"
    PROVE  /\ fn \in DOMAIN fns /\ IsFunction(F)
           /\ \A r \in RegId : Get(r) \in Wides /\ Get(r).v \in Word /\ Get(r).d \in BOOLEAN
           /\ F.code # <<>> => /\ ip \in 1 .. Len(F.code) /\ Len(F.code) \in Nat
                               /\ C.at \in Word /\ C.instr \in Word /\ C.ext \in Word
                               /\ OpC \in Byte /\ SrcC \in RegId /\ DstC \in RegId
                               /\ RelTarget \in Word
                               /\ EndsFunction(OpC) <=> ip = Len(F.code)
<1>1. fn \in DOMAIN fns /\ IsFunction(F)
  BY DEF CacheInv, RunningKnown, MachineTyped, FnsTyped, F
<1>2. ASSUME NEW r \in RegId
      PROVE  Get(r) \in Wides /\ Get(r).v \in Word /\ Get(r).d \in BOOLEAN
  <2>1. CASE Mapped(r)
    <3>1. IsOrder(F.order) /\ IsMappedIn(F, r)
      BY <1>1, <2>1 DEF IsFunction, Mapped
    <3>2. SlotOf(F, r) \in Slot
      BY <3>1, TableSlots
    <3>3. phys \in [Slot -> Wides] /\ Get(r) = phys[SlotOf(F, r)]
      BY <2>1 DEF MachineTyped, HostTyped, Get
    <3>4. Get(r) \in Wides
      BY <3>2, <3>3
    <3> QED
      BY <3>4 DEF Wides
  <2>2. CASE ~Mapped(r)
    <3>1. Get(r) = [v |-> regs[r], d |-> FALSE]
      BY <2>2 DEF Get, Clean
    <3>2. regs[r] \in Word
      BY DEF MachineTyped, CpuTyped
    <3> QED
      BY <3>1, <3>2 DEF Wides
  <2> QED
    BY <2>1, <2>2
<1>3. ASSUME F.code # <<>>
      PROVE  /\ ip \in 1 .. Len(F.code) /\ Len(F.code) \in Nat
             /\ C.at \in Word /\ C.instr \in Word /\ C.ext \in Word
             /\ OpC \in Byte /\ SrcC \in RegId /\ DstC \in RegId /\ RelTarget \in Word
             /\ EndsFunction(OpC) <=> ip = Len(F.code)
  <2>1. IsList(F.code)
    BY <1>1 DEF IsFunction
  <2>2. DOMAIN F.code = 1 .. Len(F.code) /\ Len(F.code) \in Nat
    BY <2>1, ListDomain
  <2>3. Len(F.code) # 0
    BY <1>3, <2>1 DEF IsList
  <2>4. ip \in 1 .. Len(F.code)
    BY <2>2, <2>3 DEF MachineTyped, PlaceTyped
  <2>5. /\ C.at \in Word /\ C.instr \in Word /\ C.ext \in Word
        /\ EndsFunction(OpC) <=> ip = Len(F.code)
    BY <1>1, <2>4 DEF IsFunction, C, OpC
  <2>6. OpC \in Byte /\ SrcC \in RegId /\ DstC \in RegId /\ SignedLow(C.instr) \in Int
    BY <2>5, InstructionParts DEF OpC, SrcC, DstC
  <2>7. RelTarget \in Word
    <3>1. C.at + SignedLow(C.instr) \in Int
      BY <2>5, <2>6, InWord
    <3> QED
      BY <3>1, WrapWord DEF RelTarget
  <2> QED
    BY <2>2, <2>4, <2>5, <2>6, <2>7
<1> QED
  BY <1>1, <1>2, <1>3

\* Writing registers.
LEMMA WriteTyped ==
    ASSUME CacheInv, MachineTyped, mode = "jit",
           NEW g, \A r \in DOMAIN g : g[r] \in Wides, Write(g)
    PROVE  phys' \in [Slot -> Wides] /\ regs' \in [RegId -> Word]
<1>1. phys \in [Slot -> Wides] /\ regs \in [RegId -> Word]
  BY DEF MachineTyped, HostTyped, CpuTyped
<1>2. \A r \in DOMAIN g : g[r].v \in Word
  BY DEF Wides
<1>3. phys' \in [Slot -> Wides]
  BY <1>1 DEF Write
<1> QED
  BY <1>1, <1>2, <1>3 DEF Write

LEMMA SetTyped ==
    ASSUME CacheInv, MachineTyped, mode = "jit", NEW r, NEW w \in Wides, Set(r, w)
    PROVE  phys' \in [Slot -> Wides] /\ regs' \in [RegId -> Word]
<1> DEFINE g == [x \in {r} |-> w]
<1>1. \A x \in DOMAIN g : g[x] \in Wides
  OBVIOUS
<1>2. Write(g)
  BY DEF Set
<1> HIDE DEF g
<1> QED
  BY <1>1, <1>2, WriteTyped

\* Loading the registers of a function.
LEMMA LoadedTyped ==
    ASSUME NEW f, IsFunction(f), NEW r \in [RegId -> Word]
    PROVE  LoadedFor(f, r) \in [Slot -> Wides]
<1>1. \A w \in Word : Clean(w) \in Wides
  BY DEF Clean, Wides
<1>2. \A i \in Slot : i \in MappedSlots(f) => RegIn(f, i) \in RegId
  BY TableSlots DEF IsFunction
<1>3. 0 \in Word
  BY InWord
<1> QED
  BY <1>1, <1>2, <1>3 DEF LoadedFor

\* Storing them.
LEMMA StoredTyped ==
    ASSUME CacheInv, MachineTyped, mode = "jit", NEW slots
    PROVE  Stored(slots) \in [RegId -> Word]
<1>1. \A r \in RegId : Get(r).v \in Word
  BY InFunction
<1>2. regs \in [RegId -> Word]
  BY DEF MachineTyped, CpuTyped
<1> QED
  BY <1>1, <1>2 DEF Stored

\* The stack pointer before and after an access to the guest's stack.
LEMMA StackPointers ==
    ASSUME CacheInv, MachineTyped, mode = "jit"
    PROVE  /\ SP \in RegId
           /\ SPDown \in Wides /\ SPDown.v \in Word /\ SPUp \in Wides /\ SPUp.v \in Word
<1>1. SP \in RegId
  BY InRegId DEF SP
<1>2. Get(SP).v \in Word /\ Get(SP).d \in BOOLEAN
  BY <1>1, InFunction
<1>3. Wrap(Get(SP).v - 2) \in Word /\ Wrap(Get(SP).v + 2) \in Word
  BY <1>2, InWord, WrapWord
<1> QED
  BY <1>1, <1>2, <1>3 DEF SPDown, SPUp, Wide, Wides

\* The bytes of a word, exchanged.
LEMMA SwapWord ==
    ASSUME NEW w \in Word
    PROVE  Swap(w) \in Word
BY InWord DEF Swap

\* The instructions that do not end a function.
GoesOn == Implemented \ {I_RET, I_STD, I_CLD}

LEMMA GoesOnOps ==
    /\ \A op : op \in GoesOn => ~EndsFunction(op)
    /\ ArithOps \subseteq GoesOn /\ CompareOps \subseteq GoesOn /\ UnaryOps \subseteq GoesOn
    /\ {I_LOADI, I_MOV, I_LOAD, I_LOADB, I_STOR, I_STORB, I_PUSH, I_POP, I_OUT, I_JR, I_BR,
        I_JMP, I_JMPR, I_CALLR, I_CALL} \subseteq GoesOn
<1>1. \A op : op \in GoesOn => ~EndsFunction(op)
  BY DEF GoesOn, EndsFunction
<1>2. ArithOps \subseteq GoesOn
  BY DEF GoesOn, Implemented, ArithOps, I_RET, I_STD, I_CLD, I_ADD, I_SUB, I_MUL, I_DIV, I_AND,
         I_OR, I_XOR, I_SHR, I_SHL
<1>3. CompareOps \subseteq GoesOn
  BY DEF GoesOn, Implemented, CompareOps, I_RET, I_STD, I_CLD, I_TEST, I_CMP, I_EQU
<1>4. UnaryOps \subseteq GoesOn
  BY DEF GoesOn, Implemented, UnaryOps, I_RET, I_STD, I_CLD, I_NEG, I_NOT, I_INC, I_DEC
<1>5. {I_LOADI, I_MOV, I_LOAD, I_LOADB, I_STOR, I_STORB, I_PUSH, I_POP, I_OUT, I_JR, I_BR,
       I_JMP, I_JMPR, I_CALLR, I_CALL} \subseteq GoesOn
  BY DEF GoesOn, Implemented, BranchOps, I_RET, I_STD, I_CLD, I_LOADI, I_MOV, I_LOAD, I_LOADB,
         I_STOR, I_STORB, I_PUSH, I_POP, I_OUT, I_JR, I_BR, I_JMP, I_JMPR, I_CALLR, I_CALL
<1> QED
  BY <1>1, <1>2, <1>3, <1>4, <1>5

ControlTyped == ModeTyped /\ FnsTyped /\ PlaceTyped /\ FramesTyped

\* Compiled code at an instruction that does not end its function.
LEMMA NextPlace ==
    ASSUME CacheInv, MachineTyped, mode = "jit", F.code # <<>>, OpC \in GoesOn
    PROVE  ip + 1 \in DOMAIN F.code
<1>1. ip \in 1 .. Len(F.code) /\ Len(F.code) \in Nat /\ ip # Len(F.code) /\ IsFunction(F)
  BY InFunction, GoesOnOps
<1>2. DOMAIN F.code = 1 .. Len(F.code)
  BY <1>1, ListDomain DEF IsFunction
<1> QED
  BY <1>1, <1>2

\* It goes on with another instruction of the function.
LEMMA GotoTyped ==
    ASSUME CacheInv, MachineTyped, NEW n \in DOMAIN F.code, Goto(n)
    PROVE  ControlTyped'
<1>1. ip' = n /\ UNCHANGED <<mode, fns, fn, inst, hstack, patched, result>>
  BY DEF Goto
<1> QED
  BY <1>1 DEF ControlTyped, MachineTyped, ModeTyped, FnsTyped, PlaceTyped, FramesTyped, F

LEMMA AdvanceTyped ==
    ASSUME CacheInv, MachineTyped, NEW ops, Jitting(ops), ops \subseteq GoesOn, Advance
    PROVE  ControlTyped'
<1>1. ip + 1 \in DOMAIN F.code
  BY NextPlace DEF Jitting, Sound
<1>2. Goto(ip + 1)
  BY DEF Advance, Goto
<1> QED
  BY <1>1, <1>2, GotoTyped

\* The registers change, with them perhaps the flag or the host's rax.
LEMMA RegistersTyped ==
    ASSUME MachineTyped, ControlTyped',
           phys' \in [Slot -> Wides], regs' \in [RegId -> Word], pc' \in Word,
           state' \in 0 .. 3, raxDirty' \in BOOLEAN, IsMemory(mem'), out' \in Seq(Outputs)
    PROVE  MachineTyped'
BY DEF MachineTyped, ControlTyped, CpuTyped, HostTyped

\* What an instruction accesses lies inside guest memory.
LEMMA AccessInside ==
    ASSUME Sound, NEW w, NEW n, <<w, n>> \in Accesses, w.v \in Word
    PROVE  ~w.d /\ w.v + n <= 65536
<1>1. InGuest(w, n)
  BY DEF Sound
<1>2. PhysSize = 65536
  BY JitAssumption
<1> QED
  BY <1>1, <1>2 DEF InGuest

LEMMA WordInside ==
    ASSUME Sound, NEW w \in Wides, <<w, 2>> \in Accesses
    PROVE  ~w.d /\ Accessible(w.v)
<1>1. w.v \in Word
  BY DEF Wides
<1>2. ~w.d /\ w.v + 2 <= 65536
  BY <1>1, AccessInside
<1>3. PhysSize = 65536 /\ w.v \in Int
  BY <1>1, InWord, JitAssumption
<1> QED
  BY <1>2, <1>3 DEF Accessible

LEMMA ByteInside ==
    ASSUME Sound, NEW w \in Wides, <<w, 1>> \in Accesses
    PROVE  ~w.d /\ w.v \in Address
<1>1. w.v \in Word
  BY DEF Wides
<1>2. ~w.d /\ w.v + 1 <= 65536
  BY <1>1, AccessInside
<1>3. PICK v : v = w.v
  OBVIOUS
<1>4. v \in Int /\ 0 <= v /\ v < PhysSize /\ PhysSize \in Int
  BY <1>1, <1>2, <1>3, InWord, JitAssumption
<1>5. v \in Address
  <2>1. \A k \in Int : v < k => v \in 0 .. k - 1
    BY <1>4
  <2> QED
    BY <1>4, <2>1 DEF Address
<1> QED
  BY <1>2, <1>3, <1>5

\* What an instruction finds.
LEMMA AtInstruction ==
    ASSUME CacheInv, MachineTyped, NEW ops, Jitting(ops)
    PROVE  /\ mode = "jit" /\ F.code # <<>> /\ OpC \in ops
           /\ C.at \in Word /\ C.ext \in Word /\ C.instr \in Word
           /\ SrcC \in RegId /\ DstC \in RegId /\ RelTarget \in Word
           /\ \A r \in RegId : Get(r) \in Wides /\ Get(r).v \in Word /\ Get(r).d \in BOOLEAN
           /\ regs \in [RegId -> Word] /\ pc \in Word /\ state \in 0 .. 3
           /\ IsMemory(mem) /\ out \in Seq(Outputs)
           /\ phys \in [Slot -> Wides] /\ raxDirty \in BOOLEAN
<1>1. mode = "jit" /\ F.code # <<>> /\ OpC \in ops
  BY DEF Jitting, Sound
<1> QED
  BY <1>1, InFunction DEF MachineTyped, CpuTyped, HostTyped

\* An instruction that gives a value to one register and goes on.
LEMMA SetStep ==
    ASSUME CacheInv, MachineTyped, NEW ops, Jitting(ops), ops \subseteq GoesOn,
           NEW r, NEW w \in Wides, Set(r, w), Advance,
           UNCHANGED <<pc, mem, out>>, state' \in 0 .. 3, raxDirty' \in BOOLEAN
    PROVE  MachineTyped'
<1>1. mode = "jit" /\ pc \in Word /\ IsMemory(mem) /\ out \in Seq(Outputs)
  BY AtInstruction
<1>2. phys' \in [Slot -> Wides] /\ regs' \in [RegId -> Word]
  BY <1>1, SetTyped
<1> QED
  BY <1>1, <1>2, AdvanceTyped, RegistersTyped

\* One that leaves the registers alone.
LEMMA KeepStep ==
    ASSUME CacheInv, MachineTyped, NEW ops, Jitting(ops), ops \subseteq GoesOn, Advance,
           UNCHANGED <<regs, phys, pc, out>>, state' \in 0 .. 3, raxDirty' \in BOOLEAN,
           IsMemory(mem')
    PROVE  MachineTyped'
<1>1. /\ pc \in Word /\ out \in Seq(Outputs)
      /\ regs \in [RegId -> Word] /\ phys \in [Slot -> Wides]
  BY AtInstruction
<1> QED
  BY <1>1, AdvanceTyped, RegistersTyped

\* The host's values for 16 bits and whether a higher bit is set.
LEMMA HostValues == \A w \in Word : \A d \in BOOLEAN : Wide(w, d) \in Wides /\ Clean(w) \in Wides
BY DEF Wide, Clean, Wides

LEMMA MovesTyped ==
    ASSUME CacheInv, MachineTyped, JLoadI \/ JMov \/ JLoad \/ JLoadB
    PROVE  MachineTyped'
<1>1. CASE JLoadI
  <2>1. Jitting({I_LOADI}) /\ {I_LOADI} \subseteq GoesOn
    BY <1>1, GoesOnOps DEF JLoadI
  <2>2. Clean(C.ext) \in Wides /\ state \in 0 .. 3 /\ raxDirty \in BOOLEAN
    BY <2>1, AtInstruction, HostValues
  <2> QED
    BY <1>1, <2>1, <2>2, SetStep DEF JLoadI
<1>2. CASE JMov
  <2>1. Jitting({I_MOV}) /\ {I_MOV} \subseteq GoesOn
    BY <1>2, GoesOnOps DEF JMov
  <2>2. Get(SrcC) \in Wides /\ state \in 0 .. 3 /\ raxDirty \in BOOLEAN
    BY <2>1, AtInstruction
  <2> QED
    BY <1>2, <2>1, <2>2, SetStep DEF JMov
<1>3. CASE JLoad
  <2>1. Jitting({I_LOAD}) /\ {I_LOAD} \subseteq GoesOn
    BY <1>3, GoesOnOps DEF JLoad
  <2>2. IsMemory(mem) /\ Get(DstC).d \in BOOLEAN /\ state \in 0 .. 3 /\ raxDirty \in BOOLEAN
    BY <2>1, AtInstruction
  <2>3. Wide(LoadShort(mem, Get(SrcC).v), Get(DstC).d) \in Wides
    BY <2>2, LoadShortWord, HostValues
  <2> QED
    BY <1>3, <2>1, <2>2, <2>3, SetStep DEF JLoad
<1>4. CASE JLoadB
  <2>1. Jitting({I_LOADB}) /\ {I_LOADB} \subseteq GoesOn
    BY <1>4, GoesOnOps DEF JLoadB
  <2>2. IsMemory(mem) /\ state \in 0 .. 3 /\ raxDirty \in BOOLEAN
    BY <2>1, AtInstruction
  <2>3. Peek(mem, LoadBAt.v) \in Word
    BY <2>2, PeekByte, InByte, InWord
  <2>4. Clean(Peek(mem, LoadBAt.v)) \in Wides
    BY <2>3, HostValues
  <2> QED
    BY <1>4, <2>1, <2>2, <2>4, SetStep DEF JLoadB
<1> QED
  BY <1>1, <1>2, <1>3, <1>4

LEMMA ArithDirtyBoolean ==
    ASSUME NEW op, NEW d, NEW s, d.d \in BOOLEAN
    PROVE  ArithDirty(op, d, s) \in BOOLEAN
<1>1. CASE op = I_ADD
  BY <1>1 DEF ArithDirty
<1>2. CASE op # I_ADD
  BY <1>2 DEF ArithDirty
<1> QED
  BY <1>1, <1>2

LEMMA ArithTyped ==
    ASSUME CacheInv, MachineTyped, JArith \/ JShl \/ JUnary
    PROVE  MachineTyped'
<1>1. CASE JArith
  <2> DEFINE d == Get(DstC)
             s == Get(SrcC)
             w == Wide(Arith(OpC, d.v, s.v), ArithDirty(OpC, d, s))
  <2>1. Jitting(ArithOps \ {I_SHL}) /\ ArithOps \ {I_SHL} \subseteq GoesOn
    BY <1>1, GoesOnOps DEF JArith
  <2>2. /\ d.v \in Word /\ s.v \in Word /\ d.d \in BOOLEAN /\ s.d \in BOOLEAN
        /\ OpC \in ArithOps /\ raxDirty \in BOOLEAN /\ state \in 0 .. 3
    BY <2>1, AtInstruction
  <2>3. Set(DstC, w) /\ raxDirty' = (IF OpC \in {I_MUL, I_DIV} THEN d.d ELSE raxDirty)
        /\ (OpC = I_DIV => s.v # 0) /\ Advance /\ UNCHANGED <<pc, state, mem, out>>
    BY <1>1 DEF JArith
  <2>4. Arith(OpC, d.v, s.v) \in Word
    BY <2>2, <2>3, ArithWord
  <2>5. ArithDirty(OpC, d, s) \in BOOLEAN
    BY <2>2, ArithDirtyBoolean
  <2>6. w \in Wides
    BY <2>4, <2>5, HostValues
  <2>7. raxDirty' \in BOOLEAN
    BY <2>2, <2>3
  <2> HIDE DEF w
  <2> QED
    BY <2>1, <2>2, <2>3, <2>6, <2>7, SetStep
<1>2. CASE JShl
  <2> DEFINE d == Get(DstC)
             s == Get(SrcC)
             w == Wide(ShlW(d.v, s.v), d.d)
  <2>1. Jitting({I_SHL}) /\ {I_SHL} \subseteq GoesOn
    BY <1>2, GoesOnOps DEF JShl, ArithOps
  <2>2. d.v \in Word /\ s.v \in Word /\ d.d \in BOOLEAN /\ raxDirty \in BOOLEAN
    BY <2>1, AtInstruction
  <2>3. Set(DstC, w) /\ state' \in {0, 1} /\ Advance /\ UNCHANGED <<pc, mem, out, raxDirty>>
    BY <1>2 DEF JShl
  <2>4. w \in Wides
    BY <2>2, ShiftWord, HostValues
  <2> HIDE DEF w
  <2> QED
    BY <2>1, <2>2, <2>3, <2>4, SetStep
<1>3. CASE JUnary
  <2> DEFINE x == Unary(OpC, Get(SrcC).v)
             b == IF OpC = I_NOT THEN raxDirty ELSE Get(SrcC).d
             w == Wide(x, b)
  <2>1. Jitting(UnaryOps) /\ UnaryOps \subseteq GoesOn
    BY <1>3, GoesOnOps DEF JUnary
  <2>2. /\ OpC \in UnaryOps /\ Get(SrcC).v \in Word /\ Get(SrcC).d \in BOOLEAN
        /\ raxDirty \in BOOLEAN /\ state \in 0 .. 3
    BY <2>1, AtInstruction
  <2>3. x \in Word
    BY <2>2, UnaryWord
  <2>4. b \in BOOLEAN
    BY <2>2
  <2>5. w \in Wides
    BY <2>3, <2>4, HostValues
  <2>6. Set(SrcC, w) /\ Advance /\ UNCHANGED <<pc, state, mem, out, raxDirty>>
    BY <1>3 DEF JUnary
  <2> HIDE DEF w
  <2> QED
    BY <2>1, <2>2, <2>5, <2>6, SetStep
<1> QED
  BY <1>1, <1>2, <1>3


\* What the instructions that store access.
LEMMA Stores ==
    /\ OpC = I_STOR => <<Get(DstC), 2>> \in Accesses
    /\ OpC = I_STORB => <<Get(DstC), 1>> \in Accesses
    /\ OpC = I_PUSH => <<PushAt, 2>> \in Accesses
    /\ OpC = I_CALL /\ ~IsRecursion => <<SPDown, 2>> \in Accesses
BY DEF Accesses, I_LOAD, I_STOR, I_LOADB, I_STORB, I_PUSH, I_POP, I_RET, I_CALL

LEMMA StoresTyped ==
    ASSUME CacheInv, MachineTyped, JStor \/ JStorB
    PROVE  MachineTyped'
<1>1. CASE JStor
  <2>1. Jitting({I_STOR}) /\ {I_STOR} \subseteq GoesOn
    BY <1>1, GoesOnOps DEF JStor
  <2>2. /\ IsMemory(mem) /\ Get(DstC) \in Wides /\ Get(DstC).v \in Word
        /\ Get(SrcC).v \in Word /\ state \in 0 .. 3 /\ raxDirty \in BOOLEAN /\ OpC = I_STOR
    BY <2>1, AtInstruction
  <2>3. Accessible(Get(DstC).v)
    BY <2>1, <2>2, Stores, WordInside DEF Jitting
  <2>4. IsMemory(WriteShort(mem, Get(DstC).v, Swap(Get(SrcC).v)))
    BY <2>2, <2>3, SwapWord, WriteShortMemory
  <2> QED
    BY <1>1, <2>1, <2>2, <2>4, KeepStep DEF JStor
<1>2. CASE JStorB
  <2>1. Jitting({I_STORB}) /\ {I_STORB} \subseteq GoesOn
    BY <1>2, GoesOnOps DEF JStorB
  <2>2. /\ IsMemory(mem) /\ Get(DstC) \in Wides /\ Get(DstC).v \in Word
        /\ Get(SrcC).v \in Word /\ state \in 0 .. 3 /\ raxDirty \in BOOLEAN /\ OpC = I_STORB
    BY <2>1, AtInstruction
  <2>3. Get(DstC).v \in Address /\ Get(SrcC).v % 256 \in Byte
    BY <2>1, <2>2, Stores, ByteInside, InstructionParts DEF Jitting
  <2>4. IsMemory(Poke(mem, Get(DstC).v, Get(SrcC).v % 256))
    BY <2>2, <2>3, PokeMemory
  <2> QED
    BY <1>2, <2>1, <2>2, <2>4, KeepStep DEF JStorB
<1> QED
  BY <1>1, <1>2

LEMMA StackTyped ==
    ASSUME CacheInv, MachineTyped, JPush \/ JPop
    PROVE  MachineTyped'
<1>1. CASE JPush
  <2>1. Jitting({I_PUSH}) /\ {I_PUSH} \subseteq GoesOn
    BY <1>1, GoesOnOps DEF JPush
  <2>2. /\ mode = "jit" /\ OpC = I_PUSH /\ pc \in Word /\ out \in Seq(Outputs)
        /\ IsMemory(mem) /\ SrcC \in RegId /\ Get(SrcC).v \in Word
        /\ state \in 0 .. 3 /\ raxDirty \in BOOLEAN
    BY <2>1, AtInstruction
  <2>3. /\ SP \in RegId /\ SPDown \in Wides /\ SPDown.v \in Word
        /\ Get(SP).v \in Word /\ Get(SP).d \in BOOLEAN
    BY <2>1, <2>2, StackPointers, AtInstruction
  <2>4. PushAt \in Wides
    <3>1. Swap(Get(SP).v) - 2 \in Int
      BY <2>3, SwapWord, InWord
    <3>2. Wide(Wrap(Swap(Get(SP).v) - 2), Get(SP).d) \in Wides
      BY <2>3, <3>1, WrapWord, HostValues
    <3> QED
      BY <2>3, <3>2 DEF PushAt
  <2>5. PushAt.v \in Word /\ PushAt.d \in BOOLEAN
    BY <2>4 DEF Wides
  <2>6. Accessible(PushAt.v)
    BY <2>1, <2>2, <2>4, Stores, WordInside DEF Jitting
  <2>7. \A v \in Word : IsMemory(WriteShort(mem, PushAt.v, v))
    BY <2>2, <2>5, <2>6, WriteShortMemory
  <2>8. Swap(PushAt.v) \in Word
    BY <2>5, SwapWord
  <2>9. Wide(Swap(PushAt.v), PushAt.d) \in Wides
    BY <2>5, <2>8, HostValues
  <2>10. IsMemory(mem') /\ \E w \in Wides : Set(SP, w)
    BY <1>1, <2>2, <2>3, <2>7, <2>8, <2>9 DEF JPush
  <2>11. phys' \in [Slot -> Wides] /\ regs' \in [RegId -> Word]
    BY <2>2, <2>10, SetTyped
  <2>12. Advance /\ UNCHANGED <<pc, state, out, raxDirty>>
    BY <1>1 DEF JPush
  <2> QED
    BY <2>1, <2>2, <2>10, <2>11, <2>12, AdvanceTyped, RegistersTyped
<1>2. CASE JPop
  <2> DEFINE value == Wide(LoadShort(mem, Get(SP).v), Get(SrcC).d)
             up    == IF Mapped(SP) THEN Wide(Wrap(value.v + 2), value.d) ELSE value
             two   == [r \in {SP, SrcC} |-> IF r = SP THEN SPUp ELSE value]
  <2>1. Jitting({I_POP}) /\ {I_POP} \subseteq GoesOn
    BY <1>2, GoesOnOps DEF JPop
  <2>2. /\ mode = "jit" /\ pc \in Word /\ out \in Seq(Outputs) /\ IsMemory(mem)
        /\ SrcC \in RegId /\ Get(SrcC).d \in BOOLEAN
        /\ state \in 0 .. 3 /\ raxDirty \in BOOLEAN
    BY <2>1, AtInstruction
  <2>3. SPUp \in Wides
    BY <2>2, StackPointers
  <2>4. value \in Wides /\ value.v \in Word /\ value.d \in BOOLEAN
    <3>1. value \in Wides
      BY <2>2, LoadShortWord, HostValues
    <3> QED
      BY <3>1 DEF Wides
  <2>5. phys' \in [Slot -> Wides] /\ regs' \in [RegId -> Word]
    <3>1. CASE SrcC = SP
      <4>1. Set(SP, up)
        BY <1>2, <3>1 DEF JPop
      <4>2. value.v + 2 \in Int
        BY <2>4, InWord
      <4> HIDE DEF value
      <4>3. up \in Wides
        BY <2>4, <4>2, WrapWord, HostValues
      <4> HIDE DEF up
      <4> QED
        BY <2>2, <4>1, <4>3, SetTyped
    <3>2. CASE SrcC # SP
      <4>1. Write(two)
        BY <1>2, <3>2 DEF JPop
      <4> HIDE DEF value
      <4>2. \A r \in DOMAIN two : two[r] \in Wides
        BY <2>3, <2>4
      <4> HIDE DEF two
      <4> QED
        BY <2>2, <4>1, <4>2, WriteTyped
    <3> QED
      BY <3>1, <3>2
  <2>6. Advance /\ UNCHANGED <<pc, state, mem, out, raxDirty>>
    BY <1>2 DEF JPop
  <2> QED
    BY <2>1, <2>2, <2>5, <2>6, AdvanceTyped, RegistersTyped
<1> QED
  BY <1>1, <1>2

LEMMA CompareTyped ==
    ASSUME CacheInv, MachineTyped, JCompare
    PROVE  MachineTyped'
<1>1. Jitting(CompareOps) /\ CompareOps \subseteq GoesOn
  BY GoesOnOps DEF JCompare
<1>2. IsMemory(mem) /\ raxDirty \in BOOLEAN
  BY <1>1, AtInstruction
<1>3. state' \in 0 .. 3 /\ Advance /\ UNCHANGED <<regs, phys, pc, mem, out, raxDirty>>
  BY DEF JCompare
<1> QED
  BY <1>1, <1>2, <1>3, KeepStep

\* putchar leaves words in the registers it does not keep.
LEMMA OutTyped ==
    ASSUME CacheInv, MachineTyped, JOut
    PROVE  MachineTyped'
<1>1. Jitting({I_OUT}) /\ {I_OUT} \subseteq GoesOn
  BY GoesOnOps DEF JOut
<1>2. /\ mode = "jit" /\ pc \in Word /\ out \in Seq(Outputs) /\ IsMemory(mem)
      /\ SrcC \in RegId /\ Get(SrcC).v \in Word /\ state \in 0 .. 3
      /\ phys \in [Slot -> Wides]
  BY <1>1, AtInstruction
<1>3. regs' \in [RegId -> Word]
  BY <1>2, StoredTyped DEF JOut
<1>4. LoadedFor(F, regs') \in [Slot -> Wides]
  BY <1>2, <1>3, InFunction, LoadedTyped
<1>5. phys' \in [Slot -> Wides]
  <2>1. PICK j \in Junk :
          phys' = [i \in Slot |-> CASE i \in CallerSaved -> LoadedFor(F, regs')[i]
                                   [] i \in HostScratch \ CallerSaved -> Clean(j)
                                   [] OTHER -> phys[i]]
    BY DEF JOut
  <2>2. j \in Word
    BY JitAssumption
  <2>3. Clean(j) \in Wides
    BY <2>2 DEF Clean, Wides
  <2> QED
    BY <1>2, <1>4, <2>1, <2>3
<1>6. out' \in Seq(Outputs)
  <2>1. Char(Get(SrcC).v) \in Outputs
    BY <1>2, InstructionParts DEF Char, Outputs
  <2> QED
    BY <1>2, <2>1 DEF JOut
<1>7. raxDirty' \in BOOLEAN /\ Advance /\ UNCHANGED <<pc, state, mem>>
  BY DEF JOut
<1> QED
  BY <1>1, <1>2, <1>3, <1>5, <1>6, <1>7, AdvanceTyped, RegistersTyped


\* A relative jump that is linked goes to an instruction of the function.
LEMMA LinkedPlace ==
    ASSUME CacheInv, MachineTyped, mode = "jit", F.code # <<>>, Link = "linked"
    PROVE  LinkedTo(F, RelTarget) \in DOMAIN F.code
<1>1. IsFunction(F) /\ RelTarget \in Word
  BY InFunction
<1>2. IsList(F.code) /\ F.addr \in Int /\ RelTarget \in Int
  BY <1>1, InWord DEF IsFunction
<1>3. LinkedTo(F, RelTarget) \in 1 .. Len(F.code)
  BY <1>2, LinkedInside DEF Link
<1> QED
  BY <1>2, <1>3, ListDomain

LEMMA BranchesTyped ==
    ASSUME CacheInv, MachineTyped, JrLinked \/ BrLinked \/ BrNotTaken
    PROVE  MachineTyped'
<1>1. /\ \E op \in {I_JR, I_BR} : Jitting({op})
      /\ UNCHANGED <<regs, phys, pc, state, mem, out>>
      /\ raxDirty' = raxDirty \/ raxDirty' = FALSE
  BY DEF JrLinked, BrLinked, BrNotTaken
<1>2. /\ mode = "jit" /\ F.code # <<>> /\ OpC \in GoesOn
      /\ regs \in [RegId -> Word] /\ pc \in Word /\ state \in 0 .. 3
      /\ IsMemory(mem) /\ out \in Seq(Outputs)
      /\ phys \in [Slot -> Wides] /\ raxDirty \in BOOLEAN
  BY <1>1, AtInstruction, GoesOnOps
<1>3. ip + 1 \in DOMAIN F.code /\ (Link = "linked" => LinkedTo(F, RelTarget) \in DOMAIN F.code)
  BY <1>2, NextPlace, LinkedPlace
<1>4. \E n \in DOMAIN F.code : Goto(n)
  <2>1. CASE JrLinked
    BY <1>3, <2>1 DEF JrLinked
  <2>2. CASE BrLinked
    <3>1. Goto(IF state % 2 = 1 THEN LinkedTo(F, RelTarget) ELSE ip + 1)
      BY <2>2 DEF BrLinked
    <3>2. CASE state % 2 = 1
      <4>1. Link = "linked"
        <5>1. Link = "linked" \/ (Link = "stray" /\ state % 2 = 0)
          BY <2>2 DEF BrLinked
        <5> QED
          BY <3>2, <5>1
      <4>2. Goto(LinkedTo(F, RelTarget))
        BY <3>1, <3>2
      <4> QED
        BY <1>3, <4>1, <4>2
    <3>3. CASE state % 2 # 1
      <4>1. Goto(ip + 1)
        BY <3>1, <3>3
      <4> QED
        BY <1>3, <4>1
    <3> QED
      BY <3>2, <3>3
  <2>3. CASE BrNotTaken
    BY <1>3, <2>3 DEF BrNotTaken, Advance, Goto
  <2> QED
    BY <2>1, <2>2, <2>3
<1>5. ControlTyped'
  BY <1>4, GotoTyped
<1> QED
  BY <1>1, <1>2, <1>5, RegistersTyped

\* compile_or_get_cached_addr leaves functions, and returns the one asked for.
LEMMA CompiledTyped ==
    ASSUME CacheInv, MachineTyped, mode = "jit", NEW t \in Word, NEW k,
           CompileOrGetCached(t, k)
    PROVE  FnsKept /\ FnsTyped' /\ k \in DOMAIN fns' /\ k \in 2 .. Len(fns') /\ fns'[k].addr = t
<1>1. FnsKept /\ k \in Cached(t)'
  BY GetCached, SomeFunction
<1>2. IsList(fns) /\ IsList(fns') /\ FnsTyped
  BY <1>1 DEF CacheInv, FnsKept, MachineTyped
<1>3. k \in 2 .. Len(fns') /\ fns'[k].addr = t
  BY <1>1 DEF Cached
<1>4. k \in DOMAIN fns'
  BY <1>2, <1>3, ListDomain
<1>5. UNCHANGED fns => FnsTyped'
  BY <1>2 DEF FnsTyped
<1>6. ASSUME fns' = Append(fns, Prepare(mem, t))
      PROVE  FnsTyped'
  <2>1. PICK f : f = Prepare(mem, t)
    OBVIOUS
  <2>2. IsFunction(f)
    BY <2>1, PrepareFunction DEF MachineTyped, CpuTyped
  <2>3. /\ Len(fns') = Len(fns) + 1 /\ fns'[Len(fns) + 1] = f
        /\ \A i \in 1 .. Len(fns) : fns'[i] = fns[i]
    BY <1>2, <1>6, <2>1, AppendList
  <2>4. \A i \in DOMAIN fns' : i \in DOMAIN fns \/ i = Len(fns) + 1
    BY <1>2, <2>3, ListDomain
  <2>5. \A i \in DOMAIN fns' : IsFunction(fns'[i])
    BY <1>2, <2>2, <2>3, <2>4, ListDomain DEF FnsTyped
  <2> QED
    BY <2>5 DEF FnsTyped
<1>7. FnsTyped'
  BY <1>5, <1>6 DEF CompileOrGetCached
<1> QED
  BY <1>1, <1>3, <1>4, <1>7

\* A function that starts is at its first instruction, with its registers.
LEMMA StartTyped ==
    ASSUME FnsTyped', NEW k, k \in DOMAIN fns', Start(k), regs' \in [RegId -> Word]
    PROVE  PlaceTyped' /\ HostTyped' /\ pc' \in Word
<1>1. fn' = k /\ ip' = 1 /\ inst' = 0 /\ pc' = fns'[k].addr /\ raxDirty' = TRUE
      /\ phys' = LoadedFor(fns'[k], regs')
  BY DEF Start
<1>2. IsFunction(fns'[k])
  BY DEF FnsTyped
<1>3. PICK f : f = fns'[k]
  OBVIOUS
<1>4. phys' \in [Slot -> Wides]
  BY <1>1, <1>2, <1>3, LoadedTyped
<1>5. pc' \in Word
  BY <1>1, <1>2 DEF IsFunction
<1> QED
  BY <1>1, <1>4, <1>5 DEF PlaceTyped, HostTyped

\* The addresses on the host stack stay right while the functions are kept.
LEMMA FramesStay ==
    ASSUME CacheInv, MachineTyped, FnsKept, NEW i \in DOMAIN hstack, hstack[i].kind = "ret"
    PROVE  /\ hstack[i].ip \in DOMAIN fns'[hstack[i].fn].code
           /\ hstack[i].inst \in Nat /\ hstack[i].reload \in BOOLEAN
<1>1. hstack[i].fn \in DOMAIN fns
  BY DEF CacheInv, FramesKnown
<1> QED
  BY <1>1 DEF FnsKept, MachineTyped, FramesTyped

\* And what a call adds to them is right.
LEMMA CallFrames ==
    ASSUME CacheInv, MachineTyped, FnsKept, NEW ops, Jitting(ops), ops \subseteq GoesOn,
           CallInternal \/ CallThrough
    PROVE  FramesTyped'
<1>1. mode = "jit" /\ F.code # <<>> /\ OpC \in GoesOn
  BY AtInstruction
<1>2. ip + 1 \in DOMAIN F.code /\ fn \in DOMAIN fns /\ inst \in Nat
  BY <1>1, NextPlace DEF CacheInv, RunningKnown, MachineTyped, PlaceTyped
<1>3. ip + 1 \in DOMAIN fns'[fn].code
  BY <1>2 DEF F, FnsKept
<1>4. \A b \in BOOLEAN : /\ Frame(b).fn = fn /\ Frame(b).ip = ip + 1
                         /\ Frame(b).inst = inst /\ Frame(b).reload \in BOOLEAN
  BY DEF Frame
<1>5. SavedRegs.kind = "saved"
  BY DEF SavedRegs
<1> SUFFICES ASSUME NEW i \in DOMAIN hstack', hstack'[i].kind = "ret"
             PROVE  /\ hstack'[i].ip \in DOMAIN fns'[hstack'[i].fn].code
                    /\ hstack'[i].inst \in Nat /\ hstack'[i].reload \in BOOLEAN
  BY DEF FramesTyped
<1>6. CASE i \in DOMAIN hstack /\ hstack'[i] = hstack[i]
  BY <1>6, FramesStay
<1>7. CASE \E b \in BOOLEAN : hstack'[i] = Frame(b)
  BY <1>2, <1>3, <1>4, <1>7
<1>8. hstack'[i] # SavedRegs
  BY <1>5
<1> QED
  BY <1>6, <1>7, <1>8, Pushes


\* A function that starts with its address and registers in place leaves the types.
LEMMA StartStep ==
    ASSUME CacheInv, MachineTyped, mode = "jit", NEW k, k \in DOMAIN fns', Start(k),
           FnsTyped', FramesTyped', regs' \in [RegId -> Word], IsMemory(mem'),
           UNCHANGED <<mode, result, state, out>>
    PROVE  MachineTyped'
<1>1. PlaceTyped' /\ HostTyped' /\ pc' \in Word
  BY StartTyped
<1> QED
  BY <1>1 DEF MachineTyped, CpuTyped, ModeTyped

LEMMA JumpAwayTyped ==
    ASSUME CacheInv, MachineTyped, mode = "jit", NEW t \in Word,
           NEW r \in [RegId -> Word], JumpAway(t, r)
    PROVE  MachineTyped'
<1>1. PICK k \in Targets : CompileOrGetCached(t, k) /\ Start(k) /\ UNCHANGED hstack
  BY DEF JumpAway, JumpDynamic
<1>2. FnsKept /\ FnsTyped' /\ k \in DOMAIN fns'
  BY <1>1, CompiledTyped
<1>3. FramesTyped'
  BY <1>1, <1>2, FramesStay DEF FramesTyped
<1>4. regs' \in [RegId -> Word] /\ UNCHANGED <<mode, result, state, mem, out>>
  BY DEF JumpAway
<1>5. IsMemory(mem')
  BY <1>4 DEF MachineTyped, CpuTyped
<1> QED
  BY <1>1, <1>2, <1>3, <1>4, <1>5, StartStep

LEMMA JumpsTyped ==
    ASSUME CacheInv, MachineTyped, JrDynamic \/ BrDynamic \/ JJmp \/ JJmpR
    PROVE  MachineTyped'
<1>1. CASE JrDynamic \/ BrDynamic
  <2>1. mode = "jit" /\ F.code # <<>> /\ JumpAway(RelTarget, Stored(Slot))
    BY <1>1 DEF JrDynamic, BrDynamic, Jitting, Sound
  <2> QED
    BY <2>1, InFunction, StoredTyped, JumpAwayTyped
<1>2. CASE JJmp
  <2>1. mode = "jit" /\ F.code # <<>>
    BY <1>2 DEF JJmp, Jitting, Sound
  <2>2. PICK j \in Junk :
          JumpAway(C.ext, [r \in RegId |->
              IF Mapped(r) /\ SlotOf(F, r) \in HostScratch THEN j ELSE Stored(Slot)[r]])
    BY <1>2 DEF JJmp
  <2> DEFINE s == [r \in RegId |->
                IF Mapped(r) /\ SlotOf(F, r) \in HostScratch THEN j ELSE Stored(Slot)[r]]
  <2>3. j \in Word
    BY JitAssumption
  <2>4. Stored(Slot) \in [RegId -> Word]
    BY <2>1, StoredTyped
  <2>5. s \in [RegId -> Word]
    BY <2>3, <2>4
  <2>6. JumpAway(C.ext, s)
    BY <2>2
  <2> HIDE DEF s
  <2> QED
    BY <2>1, <2>5, <2>6, InFunction, JumpAwayTyped
<1>3. CASE JJmpR
  <2>1. Jitting({I_JMPR}) /\ JumpAway(Get(SrcC).v, regs)
    BY <1>3 DEF JJmpR
  <2>2. mode = "jit" /\ Get(SrcC).v \in Word /\ regs \in [RegId -> Word]
    BY <2>1, AtInstruction
  <2> QED
    BY <2>1, <2>2, JumpAwayTyped
<1> QED
  BY <1>1, <1>2, <1>3

\* call_static finds a function, by its address or in the call itself.
LEMMA CallSiteTyped ==
    ASSUME CacheInv, MachineTyped, mode = "jit", C.ext \in Word, NEW k, CallSite(C.ext, k)
    PROVE  FnsKept /\ FnsTyped' /\ k \in DOMAIN fns'
<1>1. CASE Site \in DOMAIN patched /\ k = patched[Site] /\ UNCHANGED <<fns, patched>>
  <2>1. FnsKept /\ FnsTyped'
    BY <1>1, SameFns DEF MachineTyped, FnsTyped
  <2>2. k \in 2 .. Len(fns) /\ DOMAIN fns = 1 .. Len(fns)
    BY <1>1, FnsDomain DEF CacheInv, PatchedSitesAgree, Cached
  <2> QED
    BY <1>1, <2>1, <2>2
<1>2. CASE CompileOrGetCached(C.ext, k)
  BY <1>2, CompiledTyped
<1> QED
  BY <1>1, <1>2 DEF CallSite

LEMMA CallsTyped ==
    ASSUME CacheInv, MachineTyped, JCall \/ JCallR \/ JCallRecursive
    PROVE  MachineTyped'
<1>1. CASE JCall
  <2>1. Jitting({I_CALL}) /\ {I_CALL} \subseteq GoesOn /\ CallThrough
        /\ UNCHANGED <<mode, result, state, out>>
    BY <1>1, GoesOnOps DEF JCall
  <2>2. mode = "jit" /\ OpC = I_CALL /\ C.at \in Word /\ C.ext \in Word /\ IsMemory(mem)
    BY <2>1, AtInstruction
  <2>3. PICK k : CallSite(C.ext, k) /\ Start(k)
    BY <1>1 DEF JCall
  <2>4. FnsKept /\ FnsTyped' /\ k \in DOMAIN fns'
    BY <2>2, <2>3, CallSiteTyped
  <2>5. FramesTyped'
    BY <2>1, <2>4, CallFrames
  <2>6. SPDown \in Wides /\ SPDown.v \in Word /\ SP \in RegId
    BY <2>2, StackPointers
  <2>7. Accessible(SPDown.v)
    <3>1. ~IsRecursion /\ Sound
      BY <1>1 DEF JCall, Jitting
    <3> QED
      BY <2>2, <2>6, <3>1, Stores, WordInside
  <2>8. IsMemory(mem')
    <3>1. Wrap(C.at + 4) \in Word
      BY <2>2, WrapWord, InWord
    <3> QED
      BY <1>1, <2>2, <2>6, <2>7, <3>1, WriteShortMemory DEF JCall
  <2>9. regs' \in [RegId -> Word]
    <3>1. Stored(Slot) \in [RegId -> Word]
      BY <2>2, StoredTyped
    <3> QED
      BY <1>1, <2>6, <3>1, RegsExcept DEF JCall
  <2> QED
    BY <2>1, <2>2, <2>3, <2>4, <2>5, <2>8, <2>9, StartStep
<1>2. CASE JCallR
  <2>1. Jitting({I_CALLR}) /\ {I_CALLR} \subseteq GoesOn /\ CallThrough
        /\ UNCHANGED <<regs, mode, result, state, mem, out>>
    BY <1>2, GoesOnOps DEF JCallR
  <2>2. /\ mode = "jit" /\ Get(SrcC).v \in Word /\ IsMemory(mem)
        /\ regs \in [RegId -> Word]
    BY <2>1, AtInstruction
  <2>3. PICK k : CompileOrGetCached(Get(SrcC).v, k) /\ Start(k)
    BY <1>2 DEF JCallR
  <2>4. FnsKept /\ FnsTyped' /\ k \in DOMAIN fns'
    BY <2>2, <2>3, CompiledTyped
  <2>5. FramesTyped'
    BY <2>1, <2>4, CallFrames
  <2> QED
    BY <2>1, <2>2, <2>3, <2>4, <2>5, StartStep
<1>3. CASE JCallRecursive
  <2>1. Jitting({I_CALL}) /\ {I_CALL} \subseteq GoesOn /\ CallInternal
        /\ UNCHANGED <<mode, fns, fn, patched, result, pc, state, mem, out>>
    BY <1>3, GoesOnOps DEF JCallRecursive
  <2>2. /\ mode = "jit" /\ regs \in [RegId -> Word] /\ phys \in [Slot -> Wides]
        /\ F.code # <<>>
    BY <2>1, AtInstruction
  <2>3. SPDown \in Wides /\ SPDown.v \in Word /\ SP \in RegId
    BY <2>2, StackPointers
  <2>4. regs' \in [RegId -> Word]
    BY <1>3, <2>2, <2>3, RegsExcept DEF JCallRecursive
  <2>5. HostTyped'
    <3>1. phys' = [i \in Slot |-> IF RegIn(F, i) = SP THEN SPDown ELSE phys[i]]
          /\ raxDirty' = TRUE
      BY <1>3 DEF JCallRecursive
    <3>2. phys' \in [Slot -> Wides]
      BY <2>2, <2>3, <3>1
    <3> QED
      BY <3>1, <3>2 DEF HostTyped
  <2>6. FramesTyped'
    BY <2>1, SameFns, CallFrames
  <2>7. FnsTyped' /\ ModeTyped' /\ CpuTyped'
    BY <2>1, <2>4 DEF MachineTyped, FnsTyped, ModeTyped, CpuTyped
  <2>8. PlaceTyped'
    <3>1. inst \in Nat /\ ip \in Nat
      BY <2>2, InFunction DEF MachineTyped, PlaceTyped
    <3>2. inst' = (IF inst = 0 THEN ip ELSE inst) /\ ip' = 1
      BY <1>3 DEF JCallRecursive
    <3> QED
      BY <3>1, <3>2 DEF PlaceTyped
  <2> QED
    BY <2>5, <2>6, <2>7, <2>8 DEF MachineTyped
<1> QED
  BY <1>1, <1>2, <1>3


\* Popping moves the guest's stack pointer, in the struct and in its register.
LEMMA RetRegisters ==
    ASSUME CacheInv, MachineTyped, RetInto \/ RetToMain
    PROVE  regs' \in [RegId -> Word] /\ pc' \in Word /\ mode = "jit"
<1>1. Jitting({I_RET}) /\ pc' = Popped
  BY DEF RetInto, RetToMain
<1>2. /\ mode = "jit" /\ IsMemory(mem) /\ regs \in [RegId -> Word]
  BY <1>1, AtInstruction
<1>3. SPUp.v \in Word /\ SP \in RegId /\ Stored(Slot) \in [RegId -> Word]
  BY <1>2, StackPointers, StoredTyped
<1>4. pc' \in Word
  BY <1>1, <1>2, LoadShortWord DEF Popped
<1>5. CASE RetToMain
  BY <1>2, <1>3, <1>4, <1>5, RegsExcept DEF RetToMain
<1>6. CASE RetInto
  <2> DEFINE r == IF inst = 0 THEN Stored(Slot) ELSE regs
             w == IF inst = 0 \/ ~Mapped(SP) THEN SPUp.v ELSE r[SP]
  <2>1. regs' = [r EXCEPT ![SP] = w]
    BY <1>6 DEF RetInto
  <2>2. r \in [RegId -> Word]
    BY <1>2, <1>3
  <2> HIDE DEF r
  <2>3. w \in Word
    BY <1>3, <2>2
  <2> HIDE DEF w
  <2> QED
    BY <1>2, <1>3, <1>4, <2>1, <2>2, <2>3, RegsExcept
<1> QED
  BY <1>5, <1>6

LEMMA RetsTyped ==
    ASSUME CacheInv, MachineTyped, RetInto \/ RetToMain
    PROVE  MachineTyped'
<1>1. regs' \in [RegId -> Word] /\ pc' \in Word /\ mode = "jit"
  BY RetRegisters
<1>2. UNCHANGED <<mode, fns, state, mem, out>>
  BY DEF RetInto, RetToMain
<1>3. FnsTyped' /\ CpuTyped'
  BY <1>1, <1>2 DEF MachineTyped, FnsTyped, CpuTyped
<1>4. CASE RetToMain
  <2>1. UNCHANGED <<fn, ip, inst, phys, raxDirty>> /\ hstack' = <<>> /\ result' = "returned"
    BY <1>4 DEF RetToMain
  <2>2. DOMAIN hstack' = {}
    BY <2>1
  <2> QED
    BY <1>2, <1>3, <2>1, <2>2 DEF MachineTyped, HostTyped, ModeTyped, PlaceTyped, FramesTyped, F
<1>5. CASE RetInto
  <2>1. /\ IsList(hstack) /\ DOMAIN hstack = 1 .. Len(hstack)
        /\ FramesKnown /\ FramesTyped
    BY ListDomain DEF CacheInv, MachineTyped
  <2>2. PICK n \in 1 .. Len(hstack) :
           /\ hstack[n].kind = "ret"
           /\ fn' = hstack[n].fn /\ ip' = hstack[n].ip /\ inst' = hstack[n].inst
           /\ phys' = IF hstack[n].reload THEN LoadedFor(fns[fn'], regs')
                      ELSE [i \in Slot |-> IF RegIn(F, i) = SP THEN SPUp ELSE phys[i]]
           /\ IsList(hstack') /\ Len(hstack') = n - 1
           /\ \A i \in 1 .. n - 1 : hstack'[i] = hstack[i]
    BY <1>5, <2>1, RetStack
  <2>3. fn' \in DOMAIN fns /\ ip' \in DOMAIN fns[fn'].code /\ inst' \in Nat
    BY <2>1, <2>2 DEF FramesKnown, FramesTyped
  <2>4. PlaceTyped'
    BY <1>2, <2>3 DEF PlaceTyped, F
  <2>5. HostTyped'
    <3>1. raxDirty' = FALSE
      BY <1>5 DEF RetInto
    <3>2. PICK f : f = fns[fn']
      OBVIOUS
    <3>3. LoadedFor(f, regs') \in [Slot -> Wides]
      BY <1>1, <2>3, <3>2, LoadedTyped DEF MachineTyped, FnsTyped
    <3>4. SPUp \in Wides /\ phys \in [Slot -> Wides]
      BY <1>1, StackPointers DEF MachineTyped, HostTyped
    <3>5. [i \in Slot |-> IF RegIn(F, i) = SP THEN SPUp ELSE phys[i]] \in [Slot -> Wides]
      BY <3>4
    <3> QED
      BY <2>2, <3>1, <3>2, <3>3, <3>5 DEF HostTyped
  <2>6. FramesTyped'
    <3>1. \A i \in DOMAIN hstack' : i \in DOMAIN hstack /\ hstack'[i] = hstack[i]
      BY <2>1, <2>2, ListDomain
    <3> QED
      BY <1>2, <2>1, <3>1 DEF FramesTyped
  <2>7. UNCHANGED result
    BY <1>5 DEF RetInto
  <2> QED
    BY <1>2, <1>3, <2>4, <2>5, <2>6, <2>7 DEF MachineTyped, ModeTyped
<1> QED
  BY <1>4, <1>5

\* The ways out of compiled code.
LEMMA StopsTyped ==
    ASSUME CacheInv, MachineTyped, JDivByZero \/ JWild
    PROVE  MachineTyped'
<1>1. UNCHANGED <<regs, pc, state, mem, out, jitVars>> /\ result' \in {"fpe", "wild"}
  BY DEF JDivByZero, JWild
<1> QED
  BY <1>1 DEF MachineTyped, CpuTyped, HostTyped, ModeTyped, FnsTyped, PlaceTyped, FramesTyped,
              F, jitVars, Results

LEMMA EscapesTyped ==
    ASSUME CacheInv, MachineTyped, JPanic \/ JInvalid
    PROVE  MachineTyped'
<1>1. mode = "jit" /\ F.code # <<>> /\ Escape
  BY DEF JPanic, JInvalid, Jitting, Sound
<1>2. regs' \in [RegId -> Word]
  BY <1>1, StoredTyped DEF Escape, MachineTyped, CpuTyped
<1>3. C.at \in Word /\ state \in 0 .. 3
  BY <1>1, InFunction DEF MachineTyped, CpuTyped
<1>4. pc' \in Word
  <2>1. CASE JPanic
    BY <1>3, <2>1 DEF JPanic, PanicAt
  <2>2. CASE JInvalid
    <3>1. C.at + 2 \in Int /\ C.at + (-2) \in Int /\ C.at + 0 \in Int
      BY <1>3, InWord
    <3>2. PcAfterInvalid \in {Wrap(C.at + 2), Wrap(C.at + (-2)), Wrap(C.at + 0)}
      BY DEF PcAfterInvalid
    <3> QED
      BY <2>2, <3>1, <3>2, WrapWord DEF JInvalid
  <2> QED
    BY <2>1, <2>2
<1>5. state' \in 0 .. 3
  BY <1>3 DEF JPanic, JInvalid
<1>6. /\ mode' \in {mode, "handoff"} /\ result' \in {result, "invalid"} /\ hstack' = <<>>
      /\ UNCHANGED <<fns, fn, ip, inst, phys, raxDirty, mem, out>>
  BY DEF JPanic, JInvalid, Escape
<1>7. FramesTyped'
  <2>1. DOMAIN hstack' = {}
    BY <1>6
  <2> QED
    BY <2>1 DEF FramesTyped
<1>8. PlaceTyped' /\ FnsTyped' /\ HostTyped' /\ ModeTyped' /\ CpuTyped'
  BY <1>1, <1>2, <1>4, <1>5, <1>6
  DEF MachineTyped, CpuTyped, HostTyped, ModeTyped, FnsTyped, PlaceTyped, F, Results
<1> QED
  BY <1>7, <1>8 DEF MachineTyped

\* The interpreter keeps the types of the processor, and leaves the rest.
LEMMA InterpretTyped ==
    ASSUME CacheInv, MachineTyped, Interpret
    PROVE  MachineTyped'
<1>1. XcpuExecute /\ mode # "jit" /\ mode' = "interp"
      /\ UNCHANGED <<fns, fn, ip, inst, phys, raxDirty, hstack, patched>>
  BY DEF Interpret, Execute
<1>2. result = "ok"
  BY <1>1 DEF XcpuExecute, TwoRegArith, DivByZero, TwoRegCompare, Mov, Load, LoadB, Stor, StorB,
              Ret, Cld, Std, OneReg, Push, Pop, JmpR, CallR, Out, Br, Jr, Jmp, Call, LoadI,
              Invalid, MemFault, Fetched
<1>3. CpuTypeOK
  BY <1>2 DEF MachineTyped, CpuTyped, CpuTypeOK, Results
<1>4. CpuTypeOK'
  BY <1>1, <1>3, ExecuteType
<1>5. CpuTyped' /\ ModeTyped'
  BY <1>1, <1>4 DEF CpuTypeOK, CpuTyped, ModeTyped
<1>6. HostTyped' /\ FnsTyped' /\ FramesTyped' /\ PlaceTyped'
  BY <1>1 DEF MachineTyped, HostTyped, FnsTyped, FramesTyped, PlaceTyped
<1> QED
  BY <1>5, <1>6 DEF MachineTyped

LEMMA MachineInit ==
    ASSUME JitInit
    PROVE  MachineTyped
<1>1. CpuTypeOK
  BY InitType DEF JitInit, TypeOK
<1>2. CpuTyped
  BY <1>1 DEF CpuTypeOK, CpuTyped
<1>3. 0 \in Word /\ Nothing \in [Slot -> Wides]
  BY InWord DEF Nothing, Clean, Wides
<1>4. /\ inst = 0 /\ ip = 1 /\ fn = 1 /\ raxDirty = TRUE /\ phys = Nothing
      /\ mode \in {"jit", "interp"}
  BY DEF JitInit
<1>5. HostTyped /\ ModeTyped /\ PlaceTyped
  BY <1>1, <1>3, <1>4 DEF HostTyped, ModeTyped, PlaceTyped, CpuTypeOK
<1>6. CASE fns = <<Prepare(mem, 0)>> /\ hstack = <<SavedRegs>>
  <2>1. PICK f : f = Prepare(mem, 0)
    OBVIOUS
  <2>2. IsFunction(f)
    BY <1>1, <1>3, <2>1, PrepareFunction DEF CpuTypeOK
  <2>3. fns = <<f>> /\ DOMAIN fns = {1} /\ fns[1] = f
    BY <1>6, <2>1
  <2>4. DOMAIN hstack = {1} /\ hstack[1].kind = "saved"
    BY <1>6 DEF SavedRegs
  <2>5. FnsTyped /\ FramesTyped
    BY <2>2, <2>3, <2>4 DEF FnsTyped, FramesTyped
  <2> QED
    BY <1>2, <1>5, <2>5 DEF MachineTyped
<1>7. CASE fns = <<>> /\ hstack = <<>>
  <2>1. DOMAIN fns = {} /\ DOMAIN hstack = {}
    BY <1>7
  <2> QED
    BY <1>2, <1>5, <2>1 DEF MachineTyped, FnsTyped, FramesTyped
<1> QED
  BY <1>6, <1>7 DEF JitInit

LEMMA MachineStep ==
    ASSUME CacheInv, MachineTyped, [JitNext]_vars
    PROVE  MachineTyped'
<1>1. CASE JitCompiled
  BY <1>1, MovesTyped, ArithTyped, StoresTyped, StackTyped, CompareTyped, OutTyped, BranchesTyped,
     JumpsTyped, CallsTyped, RetsTyped, StopsTyped, EscapesTyped
  DEF JitCompiled
<1>2. CASE Interpret
  BY <1>2, InterpretTyped
<1>3. CASE UNCHANGED vars
  BY <1>3 DEF vars, simVars, jitVars, MachineTyped, CpuTyped, HostTyped, ModeTyped, FnsTyped,
              PlaceTyped, FramesTyped, F
<1> QED
  BY <1>1, <1>2, <1>3 DEF JitNext

LEMMA MachineInvariant == JitSpec => [](CacheInv /\ MachineTyped)
<1>1. JitInit => CacheInv /\ MachineTyped
  BY CacheInit, MachineInit
<1>2. (CacheInv /\ MachineTyped) /\ [JitNext]_vars => (CacheInv /\ MachineTyped)'
  BY CacheStep, MachineStep
<1> QED
  BY <1>1, <1>2, PTL DEF JitSpec

\* jit.h:8 and jit_runtime.c: whatever the guest code is and whatever it does to
\* itself, guest registers, memory and flag keep their widths, and the compiled
\* code that runs is at an instruction of a function that exists: no jump that
\* is linked, no call and no ret, however nested, leads anywhere else.
THEOREM JitTypeCorrect == JitSpec => []JitTypeOK
<1>1. CacheInv /\ MachineTyped => JitTypeOK
  BY DEF CacheInv, RunningKnown, MachineTyped, CpuTyped, HostTyped, ModeTyped, PlaceTyped, JitTypeOK
<1> QED
  BY <1>1, MachineInvariant, PTL


-----------------------------------------------------------------------------
(* The host stack. *)

\* A jump out of a function's version without preamble: what follows returns
\* through a frame and registers that were never saved.
LeavesRecursion == inst # 0 /\ (JrDynamic \/ BrDynamic \/ JJmp \/ JJmpR)

\* What version k of function f finds under it when its own frame begins above
\* entry n: the registers its preamble saved, or, for a version without preamble,
\* an address in f that does not load registers again.
Beneath(n, k, f) ==
    /\ n >= 1
    /\ IF k = 0 THEN hstack[n].kind = "saved"
       ELSE hstack[n].kind = "ret" /\ ~hstack[n].reload /\ hstack[n].fn = f

\* Under saved registers lies main's frame, or an address of code that called
\* through the preamble.
SavedBelow(n) == n = 0 \/ (hstack[n].kind = "ret" /\ hstack[n].reload)

WellStacked ==
    \A i \in DOMAIN hstack :
        \/ hstack[i].kind = "ret" /\ Beneath(i - 1, hstack[i].inst, hstack[i].fn)
        \/ hstack[i].kind = "saved" /\ SavedBelow(i - 1)

OnTop == mode = "jit" /\ result = "ok" => Beneath(Len(hstack), inst, fn)

StackInv == WellStacked /\ OnTop

\* It says more than that a ret pops what was pushed.
LEMMA BalancedStack ==
    ASSUME IsList(hstack), StackInv
    PROVE  HostStackBalanced
<1> SUFFICES ASSUME mode = "jit", result = "ok"
             PROVE  /\ Balanced
                    /\ inst # 0 => LET top == hstack[Len(hstack)]
                                   IN  top.fn = fn /\ ~top.reload
  BY DEF HostStackBalanced
<1> DEFINE n == Len(hstack)
<1>1. n \in Nat /\ DOMAIN hstack = 1 .. n /\ hstack = [i \in 1 .. n |-> hstack[i]]
  BY DEF IsList
<1>2. Beneath(n, inst, fn)
  BY DEF StackInv, OnTop
<1>3. n >= 1 /\ hstack # <<>>
  BY <1>1, <1>2 DEF Beneath
<1>4. CASE inst = 0
  <2>1. hstack[n].kind = "saved"
    BY <1>2, <1>4 DEF Beneath
  <2>2. n \in DOMAIN hstack
    BY <1>1, <1>3
  <2>3. SavedBelow(n - 1)
    BY <2>1, <2>2 DEF StackInv, WellStacked
  <2>4. Unwound = SubSeq(hstack, 1, n - 1)
    BY <1>4 DEF Unwound
  <2> HIDE DEF n
  <2>5. n - 1 \in Int /\ n - 1 <= n
    BY <1>1
  <2>6. /\ IsList(Unwound) /\ Len(Unwound) = IF 1 <= n - 1 THEN n - 1 ELSE 0
        /\ \A i \in 1 .. n - 1 : Unwound[i] = hstack[i]
    BY <2>4, <2>5, PrefixList DEF n
  <2>7. ASSUME Unwound # <<>>
        PROVE  Unwound[Len(Unwound)].kind = "ret"
    <3>1. Len(Unwound) # 0
      BY <2>6, <2>7 DEF IsList
    <3>2. 1 <= n - 1 /\ Len(Unwound) = n - 1
      BY <2>5, <2>6, <3>1
    <3>3. n - 1 \in 1 .. n - 1 /\ n - 1 # 0
      BY <2>5, <3>2
    <3> QED
      BY <2>3, <2>6, <3>2, <3>3 DEF SavedBelow
  <2> QED
    BY <1>3, <1>4, <2>1, <2>7 DEF Balanced, n
<1>5. CASE inst # 0
  <2>1. hstack[n].kind = "ret" /\ ~hstack[n].reload /\ hstack[n].fn = fn
    BY <1>2, <1>5 DEF Beneath
  <2>2. Unwound = SubSeq(hstack, 1, n - 0)
    BY <1>5 DEF Unwound
  <2>3. n - 0 = n
    BY <1>1
  <2> HIDE DEF n
  <2>4. n \in Int /\ n <= Len(hstack) /\ Unwound = SubSeq(hstack, 1, n)
    BY <1>1, <2>2, <2>3 DEF n
  <2>5. /\ Len(Unwound) = IF 1 <= n THEN n ELSE 0
        /\ \A i \in 1 .. n : Unwound[i] = hstack[i]
    BY <2>4, PrefixList
  <2>6. Unwound[Len(Unwound)] = hstack[n]
    BY <1>1, <1>3, <2>5
  <2> QED
    BY <1>5, <2>1, <2>6 DEF Balanced, n
<1> QED
  BY <1>4, <1>5

\* Instructions that stay in the function, and the ways out of compiled code.
LEMMA StackSame ==
    ASSUME StackInv, UNCHANGED <<hstack, inst, fn>>,
           mode' = "jit" /\ result' = "ok" => mode = "jit" /\ result = "ok"
    PROVE  StackInv'
BY DEF StackInv, WellStacked, OnTop, Beneath, SavedBelow

LEMMA StackGone ==
    ASSUME hstack' = <<>>, mode' # "jit" \/ result' # "ok"
    PROVE  StackInv'
<1>1. DOMAIN hstack' = {}
  OBVIOUS
<1> QED
  BY <1>1 DEF StackInv, WellStacked, OnTop

\* A jump out of a function that has a preamble: the next one pops what that has
\* saved.
LEMMA StackJump ==
    ASSUME StackInv, mode = "jit", result = "ok", inst = 0, inst' = 0, UNCHANGED hstack
    PROVE  StackInv'
<1>1. WellStacked'
  BY DEF StackInv, WellStacked, Beneath, SavedBelow
<1>2. Beneath(Len(hstack), inst, fn)
  BY DEF StackInv, OnTop
<1>3. OnTop'
  BY <1>2 DEF OnTop, Beneath
<1> QED
  BY <1>1, <1>3 DEF StackInv

\* Entries that keep what is below them stay right.
LEMMA EntriesStay ==
    ASSUME IsList(hstack), WellStacked,
           NEW n \in Nat, n <= Len(hstack), \A i \in 1 .. n : hstack'[i] = hstack[i],
           NEW i \in 1 .. n
    PROVE  \/ hstack'[i].kind = "ret" /\ Beneath(i - 1, hstack[i].inst, hstack[i].fn)'
           \/ hstack'[i].kind = "saved" /\ SavedBelow(i - 1)'
<1>1. i \in DOMAIN hstack /\ hstack'[i] = hstack[i]
  BY DEF IsList
<1>2. i - 1 \in Int /\ (i - 1 >= 1 => hstack'[i - 1] = hstack[i - 1])
  OBVIOUS
<1>3. CASE hstack[i].kind = "ret" /\ Beneath(i - 1, hstack[i].inst, hstack[i].fn)
  BY <1>1, <1>2, <1>3 DEF Beneath
<1>4. CASE hstack[i].kind = "saved" /\ SavedBelow(i - 1)
  BY <1>1, <1>2, <1>4 DEF SavedBelow
<1> QED
  BY <1>1, <1>3, <1>4 DEF WellStacked


\* The call of a function's version without preamble.
LEMMA StackInternal ==
    ASSUME IsList(hstack), StackInv, mode = "jit", result = "ok", CallInternal,
           inst' # 0, UNCHANGED fn
    PROVE  StackInv'
<1>0. PICK n, k, f : n = Len(hstack) /\ k = inst /\ f = fn
  OBVIOUS
<1>1. /\ Len(hstack') = n + 1 /\ n \in Nat /\ DOMAIN hstack' = 1 .. n + 1
      /\ \A i \in 1 .. n : hstack'[i] = hstack[i]
      /\ hstack'[n + 1] = Frame(FALSE)
  BY <1>0, InternalStack
<1>2. Beneath(n, k, f)
  BY <1>0 DEF StackInv, OnTop
<1>3. /\ hstack'[n + 1].kind = "ret" /\ hstack'[n + 1].fn = f
      /\ hstack'[n + 1].inst = k /\ hstack'[n + 1].reload = FALSE
  BY <1>0, <1>1 DEF Frame
<1>4. Beneath(n, k, f)'
  BY <1>1, <1>2 DEF Beneath
<1>5. \A i \in 1 .. n : \/ hstack'[i].kind = "ret" /\ Beneath(i - 1, hstack[i].inst, hstack[i].fn)'
                        \/ hstack'[i].kind = "saved" /\ SavedBelow(i - 1)'
  BY <1>0, <1>1, EntriesStay DEF StackInv
<1>6. WellStacked'
  <2> SUFFICES ASSUME NEW i \in 1 .. n + 1
               PROVE  \/ hstack'[i].kind = "ret"
                         /\ Beneath(i - 1, hstack[i].inst, hstack[i].fn)'
                      \/ hstack'[i].kind = "saved" /\ SavedBelow(i - 1)'
    BY <1>1 DEF WellStacked
  <2>1. CASE i \in 1 .. n
    BY <1>5, <2>1
  <2>2. CASE i = n + 1
    <3>1. i - 1 = n
      BY <1>1, <2>2
    <3> QED
      BY <1>3, <1>4, <2>2, <3>1
  <2> QED
    BY <1>1, <2>1, <2>2
<1>7. OnTop'
  <2>1. fn' = f /\ inst' # 0 /\ Len(hstack') >= 1
    BY <1>0, <1>1
  <2>2. /\ hstack'[Len(hstack')].kind = "ret" /\ hstack'[Len(hstack')].fn = f
        /\ hstack'[Len(hstack')].reload = FALSE
    BY <1>1, <1>3
  <2> QED
    BY <2>1, <2>2 DEF OnTop, Beneath
<1> QED
  BY <1>6, <1>7 DEF StackInv

\* The call of a function with a preamble.
LEMMA StackThrough ==
    ASSUME IsList(hstack), StackInv, mode = "jit", result = "ok", CallThrough, inst' = 0
    PROVE  StackInv'
<1>0. PICK n, k, f : n = Len(hstack) /\ k = inst /\ f = fn
  OBVIOUS
<1>1. /\ Len(hstack') = n + 2 /\ n \in Nat /\ DOMAIN hstack' = 1 .. n + 2
      /\ \A i \in 1 .. n : hstack'[i] = hstack[i]
      /\ hstack'[n + 1] = Frame(TRUE) /\ hstack'[n + 2] = SavedRegs
  BY <1>0, ThroughStack
<1>2. Beneath(n, k, f)
  BY <1>0 DEF StackInv, OnTop
<1>3. /\ hstack'[n + 1].kind = "ret" /\ hstack'[n + 1].fn = f
      /\ hstack'[n + 1].inst = k /\ hstack'[n + 1].reload = TRUE
      /\ hstack'[n + 2].kind = "saved"
  BY <1>0, <1>1 DEF Frame, SavedRegs
<1>4. Beneath(n, k, f)'
  BY <1>1, <1>2 DEF Beneath
<1>5. \A i \in 1 .. n : \/ hstack'[i].kind = "ret" /\ Beneath(i - 1, hstack[i].inst, hstack[i].fn)'
                        \/ hstack'[i].kind = "saved" /\ SavedBelow(i - 1)'
  BY <1>0, <1>1, EntriesStay DEF StackInv
<1>6. SavedBelow(n + 1)'
  BY <1>3 DEF SavedBelow
<1>7. WellStacked'
  <2> SUFFICES ASSUME NEW i \in 1 .. n + 2
               PROVE  \/ hstack'[i].kind = "ret"
                         /\ Beneath(i - 1, hstack[i].inst, hstack[i].fn)'
                      \/ hstack'[i].kind = "saved" /\ SavedBelow(i - 1)'
    BY <1>1 DEF WellStacked
  <2>1. CASE i \in 1 .. n
    BY <1>5, <2>1
  <2>2. CASE i = n + 1
    <3>1. i - 1 = n
      BY <1>1, <2>2
    <3> QED
      BY <1>3, <1>4, <2>2, <3>1
  <2>3. CASE i = n + 2
    <3>1. i - 1 = n + 1
      BY <1>1, <2>3
    <3> QED
      BY <1>3, <1>6, <2>3, <3>1
  <2> QED
    BY <1>1, <2>1, <2>2, <2>3
<1>8. OnTop'
  BY <1>0, <1>1, <1>3 DEF OnTop, Beneath
<1> QED
  BY <1>7, <1>8 DEF StackInv

\* A ret goes back to what lies under the frame it takes off.
LEMMA StackRet ==
    ASSUME IsList(hstack), StackInv, RetInto
    PROVE  StackInv'
<1>1. PICK n \in 1 .. Len(hstack) :
         /\ hstack[n].kind = "ret"
         /\ fn' = hstack[n].fn /\ inst' = hstack[n].inst
         /\ IsList(hstack') /\ Len(hstack') = n - 1
         /\ \A i \in 1 .. n - 1 : hstack'[i] = hstack[i]
  BY RetStack
<1>2. n \in DOMAIN hstack /\ DOMAIN hstack' = 1 .. n - 1 /\ Len(hstack) \in Nat
  BY <1>1, ListDomain
<1>3. Beneath(n - 1, hstack[n].inst, hstack[n].fn)
  BY <1>1, <1>2 DEF StackInv, WellStacked
<1>4. n - 1 >= 1 /\ n - 1 \in Nat /\ n - 1 <= Len(hstack)
  BY <1>2, <1>3 DEF Beneath
<1>5. hstack'[n - 1] = hstack[n - 1]
  BY <1>1, <1>4
<1>6. Beneath(Len(hstack), inst, fn)'
  BY <1>1, <1>3, <1>4, <1>5 DEF Beneath
<1>7. PICK m \in Nat : m = n - 1
  BY <1>4
<1>8. \A i \in 1 .. m : \/ hstack'[i].kind = "ret" /\ Beneath(i - 1, hstack[i].inst, hstack[i].fn)'
                        \/ hstack'[i].kind = "saved" /\ SavedBelow(i - 1)'
  BY <1>1, <1>4, <1>7, EntriesStay DEF StackInv
<1>9. WellStacked'
  BY <1>2, <1>7, <1>8 DEF WellStacked
<1> QED
  BY <1>6, <1>9 DEF StackInv, OnTop

LEMMA StackStep ==
    ASSUME CacheInv, MachineTyped, StackInv, [JitNext]_vars, ~LeavesRecursion
    PROVE  StackInv'
<1>1. IsList(hstack)
  BY DEF CacheInv
<1>2. CASE \/ JLoadI \/ JMov \/ JArith \/ JShl \/ JCompare \/ JUnary
           \/ JLoad \/ JLoadB \/ JStor \/ JStorB \/ JPush \/ JPop \/ JOut
           \/ JrLinked \/ BrLinked \/ BrNotTaken
  <2>1. UNCHANGED <<hstack, inst, fn, mode, result>>
    BY <1>2
    DEF JLoadI, JMov, JArith, JShl, JCompare, JUnary, JLoad, JLoadB, JStor, JStorB, JPush, JPop,
        JOut, JrLinked, BrLinked, BrNotTaken, Advance, Goto
  <2> QED
    BY <2>1, StackSame
<1>3. CASE JDivByZero \/ JWild
  <2>1. UNCHANGED <<hstack, inst, fn>> /\ result' # "ok"
    BY <1>3 DEF JDivByZero, JWild, jitVars
  <2> QED
    BY <2>1, StackSame
<1>4. CASE RetToMain \/ JPanic \/ JInvalid
  <2>1. hstack' = <<>> /\ (mode' # "jit" \/ result' # "ok")
    BY <1>4 DEF RetToMain, JPanic, JInvalid, Escape
  <2> QED
    BY <2>1, StackGone
<1>5. CASE JrDynamic \/ BrDynamic \/ JJmp \/ JJmpR
  <2>1. inst = 0
    BY <1>5 DEF LeavesRecursion
  <2>2. mode = "jit" /\ result = "ok" /\ \E t, r : JumpAway(t, r)
    BY <1>5 DEF JrDynamic, BrDynamic, JJmp, JJmpR, Jitting
  <2>3. UNCHANGED hstack /\ inst' = 0
    BY <2>2 DEF JumpAway, JumpDynamic, Start
  <2> QED
    BY <2>1, <2>2, <2>3, StackJump
<1>6. CASE JCall \/ JCallR
  <2>1. mode = "jit" /\ result = "ok" /\ CallThrough /\ inst' = 0
    BY <1>6 DEF JCall, JCallR, Jitting, Start
  <2> QED
    BY <1>1, <2>1, StackThrough
<1>7. CASE JCallRecursive
  <2>1. mode = "jit" /\ result = "ok" /\ CallInternal /\ UNCHANGED fn /\ F.code # <<>>
        /\ inst' = IF inst = 0 THEN ip ELSE inst
    BY <1>7 DEF JCallRecursive, Jitting, Sound
  <2>2. ip \in 1 .. Len(F.code)
    BY <2>1, InFunction
  <2>3. inst' # 0
    BY <2>1, <2>2
  <2> QED
    BY <1>1, <2>1, <2>3, StackInternal
<1>8. CASE RetInto
  BY <1>1, <1>8, StackRet
<1>9. CASE Interpret \/ UNCHANGED vars
  <2>1. UNCHANGED <<hstack, inst, fn>>
        /\ (mode' = "jit" /\ result' = "ok" => mode = "jit" /\ result = "ok")
    BY <1>9 DEF Interpret, vars, simVars, jitVars
  <2> QED
    BY <2>1, StackSame
<1> QED
  BY <1>2, <1>3, <1>4, <1>5, <1>6, <1>7, <1>8, <1>9 DEF JitNext, JitCompiled

LEMMA StackInit ==
    ASSUME JitInit
    PROVE  StackInv
<1>1. CASE mode = "jit" /\ hstack = <<SavedRegs>> /\ inst = 0
  <2>1. Len(hstack) = 1 /\ DOMAIN hstack = {1} /\ hstack[1].kind = "saved"
    BY <1>1 DEF SavedRegs
  <2> QED
    BY <1>1, <2>1 DEF StackInv, WellStacked, OnTop, Beneath, SavedBelow
<1>2. CASE mode = "interp" /\ hstack = <<>>
  <2>1. DOMAIN hstack = {}
    BY <1>2
  <2> QED
    BY <1>2, <2>1 DEF StackInv, WellStacked, OnTop
<1> QED
  BY <1>1, <1>2 DEF JitInit

\* jit.c:167, 314 and 842: as long as no version without preamble is left by a
\* jump to another function, a ret pops what some preamble has pushed and
\* goes back to a call, however calls, jumps and recursion are nested; and a
\* version without preamble goes back to its own function, which does not load its
\* registers again.
THEOREM HostStackSafe ==
    JitSpec /\ [][~LeavesRecursion]_vars => []HostStackBalanced
<1>1. JitInit => StackInv
  BY StackInit
<1>2. (CacheInv /\ MachineTyped) /\ StackInv /\ [JitNext]_vars /\ [~LeavesRecursion]_vars
        => StackInv'
  <2> SUFFICES ASSUME CacheInv, MachineTyped, StackInv, [JitNext]_vars, [~LeavesRecursion]_vars
               PROVE  StackInv'
    OBVIOUS
  <2>1. CASE ~LeavesRecursion
    BY <2>1, StackStep
  <2>2. CASE UNCHANGED vars
    BY <2>2, StackSame DEF vars, simVars, jitVars
  <2> QED
    BY <2>1, <2>2
<1>3. CacheInv /\ StackInv => HostStackBalanced
  BY BalancedStack DEF CacheInv
<1> QED
  BY <1>1, <1>2, <1>3, MachineInvariant, PTL DEF JitSpec


-----------------------------------------------------------------------------
(* The registers that the interpreter is handed. *)

\* The version without preamble escapes without storing its registers.
PanicsInRecursion == inst # 0 /\ JPanic

\* What store_mapped_virtual_registers leaves in the struct are the registers of
\* the guest.
LEMMA StoredAll ==
    ASSUME CacheInv, MachineTyped, mode = "jit", result # "returned"
    PROVE  Stored(Slot) = GuestRegs
<1>1. IsOrder(F.order)
  BY InFunction DEF IsFunction
<1>2. \A r : Mapped(r) => SlotOf(F, r) \in Slot
  BY <1>1, TableSlots DEF Mapped
<1>3. \A r \in RegId : ~Mapped(r) => Get(r).v = regs[r]
  BY DEF Get, Clean
<1>4. GuestRegs = [r \in RegId |-> Get(r).v]
  BY DEF GuestRegs, InJit
<1> QED
  BY <1>2, <1>3, <1>4 DEF Stored

\* jit.h:11: except in the version of a function without preamble, an std or cld
\* stores every mapped register of the function that comes to it, so the
\* interpreter goes on with the registers the compiled code had.
THEOREM HandoffSafe ==
    JitSpec /\ [][~PanicsInRecursion]_vars => HandoffKeepsRegisters
<1>1. CacheInv /\ MachineTyped /\ [JitNext]_vars /\ [~PanicsInRecursion]_vars
        => [mode' = "handoff" => regs' = GuestRegs]_vars
  <2> SUFFICES ASSUME CacheInv, MachineTyped, JitNext, ~PanicsInRecursion, mode' = "handoff"
               PROVE  regs' = GuestRegs
    OBVIOUS
  <2>1. ~Interpret
    BY DEF Interpret
  <2>2. mode = "jit"
    BY <2>1
    DEF JitNext, JitCompiled, JLoadI, JMov, JArith, JShl, JCompare, JUnary, JLoad, JLoadB, JStor,
        JStorB, JPush, JPop, JOut, JrLinked, BrLinked, BrNotTaken, JDivByZero, JrDynamic,
        BrDynamic, JJmp, JJmpR, JCallR, JCall, JCallRecursive, RetInto, RetToMain, JPanic,
        JInvalid, JWild, Jitting
  <2>3. JPanic
    BY <2>1, <2>2
    DEF JitNext, JitCompiled, JLoadI, JMov, JArith, JShl, JCompare, JUnary, JLoad, JLoadB, JStor,
        JStorB, JPush, JPop, JOut, JrLinked, BrLinked, BrNotTaken, JDivByZero, JrDynamic,
        BrDynamic, JJmp, JJmpR, JCallR, JCall, JCallRecursive, RetInto, RetToMain,
        JInvalid, JWild, Advance, Goto, JumpAway, jitVars
  <2>4. inst = 0 /\ result = "ok"
    BY <2>3 DEF PanicsInRecursion, JPanic, Jitting
  <2>5. regs' = Stored(Slot)
    BY <2>3, <2>4 DEF JPanic, Escape
  <2> QED
    BY <2>2, <2>4, <2>5, StoredAll
<1> QED
  BY <1>1, MachineInvariant, PTL DEF JitSpec, HandoffKeepsRegisters

-----------------------------------------------------------------------------
(* Compiled code implements the interpreter.                               *)

\* The operators of the interpreter that JitEmulates speaks of are those of this
\* module: the instance gives other names to the same definitions.
LEMMA SameOpcodes ==
    /\ Interpreter!I_RET = I_RET /\ Interpreter!I_CLD = I_CLD /\ Interpreter!I_STD = I_STD
    /\ Interpreter!I_PUSH = I_PUSH /\ Interpreter!I_POP = I_POP
    /\ Interpreter!I_JMPR = I_JMPR /\ Interpreter!I_CALLR = I_CALLR
    /\ Interpreter!I_OUT = I_OUT /\ Interpreter!I_BR = I_BR /\ Interpreter!I_JR = I_JR
    /\ Interpreter!I_DIV = I_DIV /\ Interpreter!I_MOV = I_MOV
    /\ Interpreter!I_LOAD = I_LOAD /\ Interpreter!I_STOR = I_STOR
    /\ Interpreter!I_LOADB = I_LOADB /\ Interpreter!I_STORB = I_STORB
    /\ Interpreter!I_JMP = I_JMP /\ Interpreter!I_CALL = I_CALL
    /\ Interpreter!I_LOADI = I_LOADI
    /\ Interpreter!SP = SP /\ Interpreter!XIS_EXTENDED = XIS_EXTENDED
BY DEF Interpreter!I_RET, I_RET, Interpreter!I_CLD, I_CLD, Interpreter!I_STD, I_STD,
       Interpreter!I_PUSH, I_PUSH, Interpreter!I_POP, I_POP, Interpreter!I_JMPR, I_JMPR,
       Interpreter!I_CALLR, I_CALLR, Interpreter!I_OUT, I_OUT, Interpreter!I_BR, I_BR,
       Interpreter!I_JR, I_JR, Interpreter!I_DIV, I_DIV, Interpreter!I_MOV, I_MOV,
       Interpreter!I_LOAD, I_LOAD, Interpreter!I_STOR, I_STOR, Interpreter!I_LOADB, I_LOADB,
       Interpreter!I_STORB, I_STORB, Interpreter!I_JMP, I_JMP, Interpreter!I_CALL, I_CALL,
       Interpreter!I_LOADI, I_LOADI, Interpreter!SP, SP,
       Interpreter!XIS_EXTENDED, XIS_EXTENDED

\* The groups of opcodes are the same.
LEMMA SameGroups ==
    /\ Interpreter!ArithOps = ArithOps /\ Interpreter!CompareOps = CompareOps
    /\ Interpreter!UnaryOps = UnaryOps /\ Interpreter!Implemented = Implemented
<1>1. Interpreter!ArithOps = ArithOps
  BY DEF Interpreter!ArithOps, ArithOps, Interpreter!I_ADD, I_ADD, Interpreter!I_SUB, I_SUB,
         Interpreter!I_MUL, I_MUL, Interpreter!I_DIV, I_DIV, Interpreter!I_AND, I_AND,
         Interpreter!I_OR, I_OR, Interpreter!I_XOR, I_XOR, Interpreter!I_SHR, I_SHR,
         Interpreter!I_SHL, I_SHL
<1>2. Interpreter!CompareOps = CompareOps
  BY DEF Interpreter!CompareOps, CompareOps, Interpreter!I_TEST, I_TEST, Interpreter!I_CMP, I_CMP,
         Interpreter!I_EQU, I_EQU
<1>3. Interpreter!UnaryOps = UnaryOps
  BY DEF Interpreter!UnaryOps, UnaryOps, Interpreter!I_NEG, I_NEG, Interpreter!I_NOT, I_NOT,
         Interpreter!I_INC, I_INC, Interpreter!I_DEC, I_DEC
<1>4. Interpreter!BranchOps = BranchOps
  BY DEF Interpreter!BranchOps, BranchOps, Interpreter!I_BR, I_BR, Interpreter!I_JR, I_JR
<1>5. Interpreter!Implemented = Implemented
  BY <1>1, <1>2, <1>3, <1>4, SameOpcodes DEF Interpreter!Implemented, Implemented
<1> QED
  BY <1>1, <1>2, <1>3, <1>5

\* So is what the parts of an instruction are.
LEMMA SameDecoding ==
    /\ \A i : Interpreter!Wrap(i) = Wrap(i)
    /\ \A w : Interpreter!OpcodeOf(w) = OpcodeOf(w)
    /\ \A w : Interpreter!XIS_REG1(w) = XIS_REG1(w)
    /\ \A w : Interpreter!XIS_REG2(w) = XIS_REG2(w)
    /\ \A w : Interpreter!SignedLow(w) = SignedLow(w)
    /\ \A op : Interpreter!XIS_NUM_OPS(op) = XIS_NUM_OPS(op)
    /\ \A w : Interpreter!Char(w) = Char(w)
BY DEF Interpreter!Wrap, Wrap, Interpreter!WordSize, WordSize, Interpreter!OpcodeOf, OpcodeOf,
       Interpreter!XIS_REG1, XIS_REG1, Interpreter!XIS_REG2, XIS_REG2,
       Interpreter!SignedLow, SignedLow, Interpreter!XIS_NUM_OPS, XIS_NUM_OPS,
       Interpreter!Char, Char

\* So are the accesses to memory.
LEMMA SameMemory ==
    /\ \A m : \A a : Interpreter!Peek(m, a) = Peek(m, a)
    /\ \A m : \A a : Interpreter!LoadShort(m, a) = LoadShort(m, a)
    /\ \A m : \A a : \A v : Interpreter!WriteShort(m, a, v) = WriteShort(m, a, v)
    /\ \A m : \A a : \A b : \A c : Interpreter!XmemStore(m, a, b, c) = XmemStore(m, a, b, c)
    /\ \A a : Interpreter!Accessible(a) <=> Accessible(a)
BY DEF Interpreter!Peek, Peek, Interpreter!LoadShort, LoadShort, Interpreter!WriteShort, WriteShort,
       Interpreter!XmemStore, XmemStore, Interpreter!Poke, Poke, Interpreter!Accessible, Accessible

\* So are the results of the instructions.
LEMMA SameResults ==
    /\ \A op : \A d : \A s : Interpreter!Arith(op, d, s) = Arith(op, d, s)
    /\ \A op : \A d : \A s : Interpreter!Compare(op, d, s) <=> Compare(op, d, s)
    /\ \A op : \A d : Interpreter!Unary(op, d) = Unary(op, d)
<1>1. \A op : \A d : \A s : Interpreter!Arith(op, d, s) = Arith(op, d, s)
  BY DEF Interpreter!Arith, Arith, Interpreter!Wrap, Wrap, Interpreter!WordSize, WordSize,
         Interpreter!MulW, MulW, Interpreter!AndW, AndW, Interpreter!OrW, OrW,
         Interpreter!XorW, XorW, Interpreter!ShrW, ShrW, Interpreter!ShlW, ShlW,
         Interpreter!FromBits, FromBits, Interpreter!Bit, Bit, Interpreter!Pow2, Pow2,
         Interpreter!I_ADD, I_ADD, Interpreter!I_SUB, I_SUB,
         Interpreter!I_MUL, I_MUL, Interpreter!I_DIV, I_DIV, Interpreter!I_AND, I_AND,
         Interpreter!I_OR, I_OR, Interpreter!I_XOR, I_XOR, Interpreter!I_SHR, I_SHR,
         Interpreter!I_SHL, I_SHL
<1>2. \A op : \A d : \A s : Interpreter!Compare(op, d, s) <=> Compare(op, d, s)
  BY DEF Interpreter!Compare, Compare, Interpreter!AndW, AndW, Interpreter!FromBits, FromBits,
         Interpreter!Bit, Bit, Interpreter!Pow2, Pow2,
         Interpreter!I_TEST, I_TEST, Interpreter!I_CMP, I_CMP, Interpreter!I_EQU, I_EQU
<1>3. \A op : \A d : Interpreter!Unary(op, d) = Unary(op, d)
  BY DEF Interpreter!Unary, Unary, Interpreter!Wrap, Wrap, Interpreter!WordSize, WordSize,
         Interpreter!I_NEG, I_NEG, Interpreter!I_NOT, I_NOT,
         Interpreter!I_INC, I_INC, Interpreter!I_DEC, I_DEC
<1> QED
  BY <1>1, <1>2, <1>3

-----------------------------------------------------------------------------
(* Where the interpreter is when compiled code is at an instruction.       *)

\* Memory holds no zero byte explicitly.
NoZeroByte(m) == \A a \in DOMAIN m : m[a] # 0

\* Compiled code runs without a limit and with the debug bit clear; when main
\* hands over, the processor is at the std or cld that it is handed over for.
ModeInv ==
    /\ mode = "jit" => state \in {0, 1} /\ limit = 0 /\ count = 0 /\ NoZeroByte(mem)
    /\ mode = "handoff" => result = "ok" /\ Opcode \in {I_STD, I_CLD} /\ ~Faults

Emulates == CacheInv /\ MachineTyped /\ StackInv /\ ModeInv

\* An instruction that is none of these needs no second word.
LEMMA OperandCounts ==
    \A op \in GoesOn : XIS_NUM_OPS(op) = XIS_EXTENDED <=> op \in {I_JMP, I_CALL, I_LOADI}
BY DEF GoesOn, Implemented, ArithOps, CompareOps, UnaryOps, BranchOps, XIS_NUM_OPS, XIS_EXTENDED,
       I_RET, I_STD, I_CLD, I_ADD, I_SUB, I_MUL, I_DIV, I_AND, I_OR, I_XOR, I_SHR, I_SHL,
       I_TEST, I_CMP, I_EQU, I_NEG, I_NOT, I_INC, I_DEC, I_BR, I_JR, I_PUSH, I_POP, I_JMPR,
       I_CALLR, I_OUT, I_MOV, I_LOAD, I_STOR, I_LOADB, I_STORB, I_JMP, I_CALL, I_LOADI

\* Two steps of one word are one of two, at the end of memory too.
LEMMA WrapTwice == \A a \in Int : Wrap(Wrap(a + 2) + 2) = Wrap(a + 4)
BY WordSizeValue DEF Wrap

\* The registers of the interpreter are those of the function.
LEMMA GuestAt ==
    ASSUME CacheInv, MachineTyped, mode = "jit", result # "returned"
    PROVE  /\ GuestRegs = [r \in RegId |-> Get(r).v]
           /\ GuestRegs \in [RegId -> Word] /\ \A r \in RegId : GuestRegs[r] = Get(r).v
           /\ GuestState = state /\ GuestResult = result
           /\ result # "invalid" => GuestPc = C.at
<1>1. GuestRegs = [r \in RegId |-> Get(r).v]
  BY DEF GuestRegs, InJit
<1>2. \A r \in RegId : Get(r).v \in Word
  BY InFunction
<1> QED
  BY <1>1, <1>2 DEF GuestState, GuestResult, GuestPc, InJit

\* The interpreter at the same registers and memory is at the same instruction.
LEMMA AtGuest ==
    ASSUME CacheInv, MachineTyped, ModeInv, Regular, mode = "jit", result = "ok"
    PROVE  /\ GuestResult = "ok" /\ GuestPc = C.at /\ GuestState = state /\ state \in {0, 1}
           /\ GuestRegs \in [RegId -> Word] /\ \A r \in RegId : GuestRegs[r] = Get(r).v
           /\ ~Interpreter!Faults
           /\ Interpreter!Instr = C.instr
           /\ Interpreter!Opcode = OpC /\ Interpreter!Src = SrcC /\ Interpreter!Dest = DstC
           /\ Interpreter!NextPc = Wrap(C.at + 2)
           /\ XIS_NUM_OPS(OpC) = XIS_EXTENDED =>
                 /\ Interpreter!Extended = C.ext
                 /\ Interpreter!Wrap(Interpreter!NextPc + 2) = Wrap(C.at + 4)
           /\ F.code # <<>>
<1>1. GuestPc = C.at /\ GuestState = state /\ GuestResult = "ok" /\ state \in {0, 1}
      /\ GuestRegs \in [RegId -> Word] /\ \A r \in RegId : GuestRegs[r] = Get(r).v
  BY GuestAt DEF ModeInv
<1>2. ~Interpreter!Faults /\ F.code # <<>> /\ C = Translated(mem, C.at)
  BY DEF Regular, StaysInside, Sound, UpToDate
<1>3. C.at \in Word
  BY <1>2, InFunction
<1>4. PICK a : a = C.at
  OBVIOUS
<1>5. /\ C.instr = LoadShort(mem, a)
      /\ C.ext = IF SizeAt(mem, a) = 4 THEN LoadShort(mem, Wrap(a + 2)) ELSE 0
  BY <1>2, <1>4 DEF Translated
<1>6. Interpreter!Instr = C.instr
  BY <1>1, <1>4, <1>5, SameMemory DEF Interpreter!Instr
<1>7. Interpreter!Opcode = OpC /\ Interpreter!Src = SrcC /\ Interpreter!Dest = DstC
  BY <1>6, SameDecoding DEF Interpreter!Opcode, OpC, Interpreter!Src, SrcC, Interpreter!Dest, DstC
<1>8. Interpreter!NextPc = Wrap(C.at + 2)
  BY <1>1, SameDecoding DEF Interpreter!NextPc
<1>9. ASSUME XIS_NUM_OPS(OpC) = XIS_EXTENDED
      PROVE  Interpreter!Extended = C.ext
  <2>1. OpC = Peek(mem, a)
    BY <1>5, OpcodeAt DEF OpC, MachineTyped, CpuTyped
  <2>2. SizeAt(mem, a) = 4
    BY <1>9, <2>1 DEF SizeAt
  <2> QED
    BY <1>4, <1>5, <1>8, <2>2, SameMemory DEF Interpreter!Extended
<1>10. Interpreter!Wrap(Interpreter!NextPc + 2) = Wrap(C.at + 4)
  BY <1>3, <1>8, InWord, WrapTwice, SameDecoding
<1> QED
  BY <1>1, <1>2, <1>6, <1>7, <1>8, <1>9, <1>10

\* So is the instruction that it fetches.
LEMMA GuestFetched ==
    ASSUME CacheInv, MachineTyped, ModeInv, Regular, NEW ops, Jitting(ops)
    PROVE  Interpreter!Fetched(ops)
BY AtGuest DEF Jitting, Interpreter!Fetched

-----------------------------------------------------------------------------
(* What a step does to the interpreter. *)

\* With the debug bit clear nothing but its output remains to be seen.
LEMMA GuestRetires ==
    ASSUME NEW r, NEW p, NEW s \in {0, 1}, NEW m, NEW o,
           GuestRegs' = r, GuestPc' = p, GuestState' = s, mem' = m, out' = o,
           UNCHANGED GuestResult
    PROVE  Interpreter!Retire(r, p, s, m, o)
BY DEF Interpreter!Retire, Interpreter!Debug

\* So the step of the interpreter is what it executes.
LEMMA GuestExecutes ==
    ASSUME ModeInv, mode = "jit", UNCHANGED <<limit, count>>, Interpreter!XcpuExecute
    PROVE  Interpreter!Next
BY DEF ModeInv, Interpreter!Next, Interpreter!Execute, Interpreter!WithinLimit

\* Going on in the function changes the address only.
LEMMA GuestGoto ==
    ASSUME mode = "jit", result = "ok", NEW n, Goto(n)
    PROVE  /\ GuestPc' = F.code[n].at /\ UNCHANGED <<GuestResult, limit, count>>
           /\ GuestState' = state'
           /\ UNCHANGED <<fns, fn, mode, result>>
BY DEF Goto, GuestPc, GuestResult, GuestState, InJit, C, F

\* The next instruction lies behind this one.
LEMMA GuestAdvance ==
    ASSUME CacheInv, MachineTyped, NEW ops, Jitting(ops), ops \subseteq GoesOn, Advance
    PROVE  /\ GuestPc' = Wrap(C.at + IF OpC \in {I_JMP, I_CALL, I_LOADI} THEN 4 ELSE 2)
           /\ UNCHANGED <<GuestResult, limit, count>> /\ GuestState' = state'
           /\ UNCHANGED <<fns, fn, mode, result>>
<1>1. mode = "jit" /\ result = "ok" /\ OpC \in GoesOn /\ F.code # <<>>
  BY DEF Jitting, Sound
<1>2. IsFunction(F) /\ ip \in 1 .. Len(F.code) /\ Len(F.code) \in Nat
  BY <1>1, InFunction
<1>3. ip # Len(F.code)
  BY <1>1, InFunction, GoesOnOps
<1>4. ip \in 1 .. Len(F.code) - 1
  BY <1>2, <1>3
<1>5. F.code[ip + 1].at = Wrap(C.at + IF XIS_NUM_OPS(OpC) = XIS_EXTENDED THEN 4 ELSE 2)
  BY <1>2, <1>4 DEF IsFunction, C, OpC
<1>6. Goto(ip + 1)
  BY DEF Advance, Goto
<1> QED
  BY <1>1, <1>5, <1>6, GuestGoto, OperandCounts

\* Writing registers.
LEMMA GuestWrite ==
    ASSUME CacheInv, MachineTyped, mode = "jit", result # "returned",
           UNCHANGED <<fns, fn, mode, result>>, NEW g, Write(g)
    PROVE  GuestRegs' = [r \in RegId |-> IF r \in DOMAIN g THEN g[r].v ELSE GuestRegs[r]]
<1>1. GuestRegs = [r \in RegId |-> Get(r).v] /\ GuestRegs' = [r \in RegId |-> Get(r)'.v]
  BY DEF GuestRegs, InJit
<1>2. ASSUME NEW r \in RegId
      PROVE  Get(r)'.v = IF r \in DOMAIN g THEN g[r].v ELSE Get(r).v
  <2>1. Mapped(r)' = Mapped(r) /\ SlotOf(F, r)' = SlotOf(F, r)
    BY DEF Mapped, F
  <2>2. CASE Mapped(r)
    <3>1. SlotOf(F, r) \in Slot /\ RegIn(F, SlotOf(F, r)) = r
      BY <2>2, InFunction, TableSlots DEF IsFunction, Mapped
    <3>2. Get(r)' = phys'[SlotOf(F, r)] /\ Get(r) = phys[SlotOf(F, r)]
      BY <2>1, <2>2 DEF Get
    <3>3. phys'[SlotOf(F, r)] = IF r \in DOMAIN g THEN g[r] ELSE phys[SlotOf(F, r)]
      BY <3>1 DEF Write
    <3> QED
      BY <3>2, <3>3
  <2>3. CASE ~Mapped(r)
    BY <2>1, <2>3 DEF Get, Clean, Write
  <2> QED
    BY <2>2, <2>3
<1> QED
  BY <1>1, <1>2

\* Writing one.
LEMMA GuestSet ==
    ASSUME CacheInv, MachineTyped, mode = "jit", result # "returned",
           UNCHANGED <<fns, fn, mode, result>>, NEW r \in RegId, NEW w, Set(r, w)
    PROVE  GuestRegs' = [GuestRegs EXCEPT ![r] = w.v]
<1> DEFINE g == [x \in {r} |-> w]
<1>1. Write(g) /\ DOMAIN g = {r} /\ g[r] = w
  BY DEF Set
<1> HIDE DEF g
<1>2. GuestRegs' = [q \in RegId |-> IF q \in DOMAIN g THEN g[q].v ELSE GuestRegs[q]]
  BY <1>1, GuestWrite
<1>3. GuestRegs \in [RegId -> Word]
  BY GuestAt
<1> QED
  BY <1>1, <1>2, <1>3

\* Writing none.
LEMMA GuestKept ==
    ASSUME mode = "jit", result # "returned", result' # "returned",
           UNCHANGED <<fns, fn, mode, regs, phys>>
    PROVE  UNCHANGED GuestRegs
BY DEF GuestRegs, InJit, Get, Mapped, F

\* Another function starts with the registers of the struct.
LEMMA GuestLoaded ==
    ASSUME CacheInv', MachineTyped', mode' = "jit", result' = "ok", NEW k,
           fn' = k, phys' = LoadedFor(fns'[k], regs')
    PROVE  GuestRegs' = regs'
<1>1. IsFunction(F)' /\ regs' \in [RegId -> Word]
  BY InFunction DEF MachineTyped, CpuTyped, CacheInv, RunningKnown, FnsTyped, F
<1>2. GuestRegs' = [r \in RegId |-> Get(r)'.v]
  BY DEF GuestRegs, InJit
<1>3. ASSUME NEW r \in RegId
      PROVE  Get(r)'.v = regs'[r]
  <2>1. CASE Mapped(r)'
    <3>1. IsOrder(F'.order) /\ IsMappedIn(F', r)
      BY <1>1, <2>1 DEF IsFunction, Mapped
    <3>2. SlotOf(F', r) \in MappedSlots(F') /\ RegIn(F', SlotOf(F', r)) = r
          /\ SlotOf(F', r) \in Slot
      BY <3>1, TableSlots
    <3>3. phys' = LoadedFor(F', regs')
      BY DEF F
    <3>4. Get(r)' = phys'[SlotOf(F', r)]
      BY <2>1 DEF Get
    <3> QED
      BY <3>2, <3>3, <3>4 DEF LoadedFor, Clean
  <2>2. CASE ~Mapped(r)'
    BY <2>2 DEF Get, Clean
  <2> QED
    BY <2>1, <2>2
<1> QED
  BY <1>1, <1>2, <1>3

-----------------------------------------------------------------------------
(* Instruction by instruction. *)
Behind == Wrap(C.at + IF OpC \in {I_JMP, I_CALL, I_LOADI} THEN 4 ELSE 2)

\* Instructions that write registers.
LEMMA GuestWrites ==
    ASSUME Emulates, Regular, NEW ops, Jitting(ops), ops \subseteq GoesOn,
           NEW g, Write(g), Advance, state' \in {0, 1}
    PROVE  Interpreter!Retire([r \in RegId |-> IF r \in DOMAIN g THEN g[r].v ELSE GuestRegs[r]],
                              Behind, state', mem', out')
<1>1. mode = "jit" /\ result = "ok" /\ result # "returned"
  BY DEF Jitting
<1>2. /\ GuestPc' = Behind /\ UNCHANGED <<GuestResult, limit, count>> /\ GuestState' = state'
      /\ UNCHANGED <<fns, fn, mode, result>>
  BY GuestAdvance DEF Emulates, Behind
<1>3. GuestRegs' = [r \in RegId |-> IF r \in DOMAIN g THEN g[r].v ELSE GuestRegs[r]]
  BY <1>1, <1>2, GuestWrite DEF Emulates
<1> QED
  BY <1>2, <1>3, GuestRetires

\* Instructions that set one register.
LEMMA GuestSets ==
    ASSUME Emulates, Regular, NEW ops, Jitting(ops), ops \subseteq GoesOn,
           NEW r \in RegId, NEW w, Set(r, w), Advance, state' \in {0, 1}
    PROVE  Interpreter!Retire([GuestRegs EXCEPT ![r] = w.v], Behind, state', mem', out')
<1>1. mode = "jit" /\ result = "ok" /\ result # "returned"
  BY DEF Jitting
<1>2. /\ GuestPc' = Behind /\ UNCHANGED <<GuestResult, limit, count>> /\ GuestState' = state'
      /\ UNCHANGED <<fns, fn, mode, result>>
  BY GuestAdvance DEF Emulates, Behind
<1>3. GuestRegs' = [GuestRegs EXCEPT ![r] = w.v]
  BY <1>1, <1>2, GuestSet DEF Emulates
<1> QED
  BY <1>2, <1>3, GuestRetires

\* Instructions that set none.
LEMMA GuestKeeps ==
    ASSUME Emulates, Regular, NEW ops, Jitting(ops), ops \subseteq GoesOn, Advance,
           UNCHANGED <<regs, phys>>, state' \in {0, 1}
    PROVE  Interpreter!Retire(GuestRegs, Behind, state', mem', out')
<1>1. mode = "jit" /\ result = "ok" /\ result # "returned"
  BY DEF Jitting
<1>2. /\ GuestPc' = Behind /\ UNCHANGED <<GuestResult, limit, count>> /\ GuestState' = state'
      /\ UNCHANGED <<fns, fn, mode, result>>
  BY GuestAdvance DEF Emulates, Behind
<1>3. UNCHANGED GuestRegs
  BY <1>1, <1>2, GuestKept
<1> QED
  BY <1>2, <1>3, GuestRetires

\* What such an instruction is to the interpreter.
LEMMA AtOps ==
    ASSUME Emulates, Regular, NEW ops, Jitting(ops), ops \subseteq GoesOn
    PROVE  /\ mode = "jit" /\ OpC \in ops /\ Interpreter!Fetched(ops)
           /\ SrcC \in RegId /\ DstC \in RegId
           /\ Interpreter!Opcode = OpC /\ Interpreter!Src = SrcC /\ Interpreter!Dest = DstC
           /\ \A r \in RegId : GuestRegs[r] = Get(r).v
           /\ GuestState = state /\ state \in {0, 1}
           /\ Behind = IF OpC \in {I_JMP, I_CALL, I_LOADI}
                       THEN Interpreter!Wrap(Interpreter!NextPc + 2) ELSE Interpreter!NextPc
           /\ OpC \in {I_JMP, I_CALL, I_LOADI} => Interpreter!Extended = C.ext
<1>1. mode = "jit" /\ result = "ok" /\ OpC \in GoesOn /\ OpC \in ops
  BY DEF Jitting
<1>2. F.code # <<>> /\ SrcC \in RegId /\ DstC \in RegId
  BY <1>1, AtGuest, InFunction DEF Emulates
<1>3. XIS_NUM_OPS(OpC) = XIS_EXTENDED <=> OpC \in {I_JMP, I_CALL, I_LOADI}
  BY <1>1, OperandCounts
<1>4. Interpreter!Fetched(ops)
  BY GuestFetched DEF Emulates
<1> QED
  BY <1>1, <1>2, <1>3, <1>4, AtGuest DEF Emulates, Behind

\* An immediate is loaded.
LEMMA LoadIAgrees ==
    ASSUME Emulates, Regular, JLoadI
    PROVE  Interpreter!Next
<1>1. Jitting({I_LOADI}) /\ {I_LOADI} \subseteq GoesOn
  BY GoesOnOps DEF JLoadI
<1>2. Set(SrcC, Clean(C.ext)) /\ Advance /\ UNCHANGED <<state, mem, out, limit, count>>
  BY DEF JLoadI, Advance
<1>3. Interpreter!Retire([GuestRegs EXCEPT ![SrcC] = C.ext], Behind, state, mem, out)
  BY <1>1, <1>2, AtOps, GuestSets DEF Clean
<1>4. Interpreter!LoadI
  BY <1>1, <1>3, AtOps, SameOpcodes DEF Interpreter!LoadI
<1> QED
  BY <1>1, <1>2, <1>4, AtOps, GuestExecutes DEF Interpreter!XcpuExecute, Emulates

\* A register is copied.
LEMMA MovAgrees ==
    ASSUME Emulates, Regular, JMov
    PROVE  Interpreter!Next
<1>1. Jitting({I_MOV}) /\ {I_MOV} \subseteq GoesOn
  BY GoesOnOps DEF JMov
<1>2. Set(DstC, Get(SrcC)) /\ Advance /\ UNCHANGED <<state, mem, out, limit, count>>
  BY DEF JMov, Advance
<1>3. Interpreter!Retire([GuestRegs EXCEPT ![DstC] = Get(SrcC).v], Behind, state, mem, out)
  BY <1>1, <1>2, AtOps, GuestSets
<1>4. OpC \notin {I_JMP, I_CALL, I_LOADI}
  BY <1>1 DEF Jitting, I_MOV, I_JMP, I_CALL, I_LOADI
<1>5. Interpreter!Mov
  BY <1>1, <1>3, <1>4, AtOps, SameOpcodes DEF Interpreter!Mov, Interpreter!SetReg
<1> QED
  BY <1>1, <1>2, <1>5, AtOps, GuestExecutes DEF Interpreter!XcpuExecute, Emulates

\* No instruction of one word is one of two.
LEMMA OneWord ==
    \A op \in ArithOps \cup CompareOps \cup UnaryOps
              \cup {I_MOV, I_LOAD, I_LOADB, I_STOR, I_STORB, I_PUSH, I_POP, I_OUT} :
        op \notin {I_JMP, I_CALL, I_LOADI} /\ op \in GoesOn
<1>1. \A op \in ArithOps \cup CompareOps \cup UnaryOps
              \cup {I_MOV, I_LOAD, I_LOADB, I_STOR, I_STORB, I_PUSH, I_POP, I_OUT} :
        op \notin {I_JMP, I_CALL, I_LOADI}
  BY DEF ArithOps, CompareOps, UnaryOps, I_ADD, I_SUB, I_MUL, I_DIV, I_AND, I_OR, I_XOR, I_SHR,
         I_SHL, I_TEST, I_CMP, I_EQU, I_NEG, I_NOT, I_INC, I_DEC, I_PUSH, I_POP, I_OUT, I_MOV,
         I_LOAD, I_STOR, I_LOADB, I_STORB, I_JMP, I_CALL, I_LOADI
<1> QED
  BY <1>1, GoesOnOps

\* A word is loaded.
LEMMA LoadAgrees ==
    ASSUME Emulates, Regular, JLoad
    PROVE  Interpreter!Next
<1>1. Jitting({I_LOAD}) /\ {I_LOAD} \subseteq GoesOn
  BY GoesOnOps DEF JLoad
<1> DEFINE w == Wide(LoadShort(mem, Get(SrcC).v), Get(DstC).d)
<1>2. Set(DstC, w) /\ Advance /\ UNCHANGED <<state, mem, out, limit, count>>
  BY DEF JLoad, Advance
<1>3. w.v = LoadShort(mem, Get(SrcC).v)
  BY DEF Wide
<1> HIDE DEF w
<1>4. Interpreter!Retire([GuestRegs EXCEPT ![DstC] = w.v], Behind, state, mem, out)
  BY <1>1, <1>2, AtOps, GuestSets
<1>5. OpC \notin {I_JMP, I_CALL, I_LOADI}
  BY <1>1, OneWord DEF Jitting
<1>6. Interpreter!Load
  BY <1>1, <1>3, <1>4, <1>5, AtOps, SameOpcodes, SameMemory DEF Interpreter!Load, Interpreter!SetReg
<1> QED
  BY <1>1, <1>2, <1>6, AtOps, GuestExecutes DEF Interpreter!XcpuExecute, Emulates

\* jit.c:508: loadb, of a byte whose value is its address in its own register.
LEMMA LoadBAgrees ==
    ASSUME Emulates, Regular, JLoadB
    PROVE  Interpreter!Next
<1>1. Jitting({I_LOADB}) /\ {I_LOADB} \subseteq GoesOn /\ mode = "jit" /\ result = "ok"
  BY GoesOnOps DEF JLoadB, Jitting
<1>2. LoadBAt.v = Get(SrcC).v
  BY <1>1 DEF Regular, DataAgrees, Jitting
<1> DEFINE w == Clean(Peek(mem, LoadBAt.v))
<1>3. Set(DstC, w) /\ Advance /\ UNCHANGED <<state, mem, out, limit, count>>
  BY DEF JLoadB, Advance
<1>4. w.v = Peek(mem, Get(SrcC).v)
  BY <1>2 DEF Clean
<1> HIDE DEF w
<1>5. Interpreter!Retire([GuestRegs EXCEPT ![DstC] = w.v], Behind, state, mem, out)
  BY <1>1, <1>3, AtOps, GuestSets
<1>6. OpC \notin {I_JMP, I_CALL, I_LOADI}
  BY <1>1, OneWord DEF Jitting
<1>7. Interpreter!LoadB
  BY <1>1, <1>4, <1>5, <1>6, AtOps, SameOpcodes, SameMemory
  DEF Interpreter!LoadB, Interpreter!SetReg
<1> QED
  BY <1>1, <1>3, <1>7, AtOps, GuestExecutes DEF Interpreter!XcpuExecute, Emulates

\* The instructions of one register.
LEMMA UnaryAgrees ==
    ASSUME Emulates, Regular, JUnary
    PROVE  Interpreter!Next
<1>1. Jitting(UnaryOps) /\ UnaryOps \subseteq GoesOn
  BY GoesOnOps DEF JUnary
<1> DEFINE w == Wide(Unary(OpC, Get(SrcC).v), IF OpC = I_NOT THEN raxDirty ELSE Get(SrcC).d)
<1>2. Set(SrcC, w) /\ Advance /\ UNCHANGED <<state, mem, out, limit, count>>
  BY DEF JUnary, Advance
<1>3. w.v = Unary(OpC, Get(SrcC).v)
  BY DEF Wide
<1> HIDE DEF w
<1>4. Interpreter!Retire([GuestRegs EXCEPT ![SrcC] = w.v], Behind, state, mem, out)
  BY <1>1, <1>2, AtOps, GuestSets
<1>5. OpC \notin {I_JMP, I_CALL, I_LOADI}
  BY <1>1, OneWord DEF Jitting
<1>6. w.v = Interpreter!Unary(Interpreter!Opcode, GuestRegs[Interpreter!Src])
  BY <1>1, <1>3, AtOps, SameResults
<1>7. Interpreter!OneReg
  BY <1>1, <1>4, <1>5, <1>6, AtOps, SameGroups DEF Interpreter!OneReg, Interpreter!SetReg
<1> QED
  BY <1>1, <1>2, <1>7, AtOps, GuestExecutes DEF Interpreter!XcpuExecute, Emulates

\* The instructions of two registers, the shl left out.
LEMMA ArithAgrees ==
    ASSUME Emulates, Regular, JArith
    PROVE  Interpreter!Next
<1> DEFINE d == Get(DstC)
           s == Get(SrcC)
           w == Wide(Arith(OpC, d.v, s.v), ArithDirty(OpC, d, s))
<1>1. Jitting(ArithOps \ {I_SHL}) /\ ArithOps \ {I_SHL} \subseteq GoesOn /\ Jitting(ArithOps)
  BY GoesOnOps DEF JArith, Jitting
<1>2. Set(DstC, w) /\ Advance /\ UNCHANGED <<state, mem, out, limit, count>>
      /\ (OpC = I_DIV => s.v # 0)
  BY DEF JArith, Advance
<1>3. w.v = Arith(OpC, Get(DstC).v, Get(SrcC).v)
  BY DEF Wide
<1> HIDE DEF w
<1>4. Interpreter!Retire([GuestRegs EXCEPT ![DstC] = w.v], Behind, state, mem, out)
  BY <1>1, <1>2, AtOps, GuestSets
<1>5. OpC \in ArithOps /\ OpC \notin {I_JMP, I_CALL, I_LOADI}
  BY <1>1, OneWord DEF Jitting
<1>6. w.v = Interpreter!Arith(Interpreter!Opcode,
                             GuestRegs[Interpreter!Dest], GuestRegs[Interpreter!Src])
  BY <1>1, <1>3, AtOps, SameResults
<1>7. Interpreter!Fetched(Interpreter!ArithOps)
  BY <1>1, SameGroups, GuestFetched DEF Emulates
<1>8. Interpreter!TwoRegArith
  BY <1>1, <1>2, <1>4, <1>5, <1>6, <1>7, AtOps, SameOpcodes
  DEF Interpreter!TwoRegArith, Interpreter!SetReg
<1> QED
  BY <1>1, <1>2, <1>8, AtOps, GuestExecutes DEF Interpreter!XcpuExecute, Emulates

\* jit.c:427: the flag after a shl is the comparison that it runs on into.
LEMMA ShlAgrees ==
    ASSUME Emulates, Regular, JShl
    PROVE  Interpreter!Next
<1> DEFINE w == Wide(ShlW(Get(DstC).v, Get(SrcC).v), Get(DstC).d)
<1>1. Jitting({I_SHL}) /\ {I_SHL} \subseteq GoesOn /\ mode = "jit" /\ result = "ok" /\ OpC = I_SHL
  BY GoesOnOps DEF JShl, Jitting, ArithOps
<1>2. state' = state
  BY <1>1 DEF JShl, Regular, DataAgrees, ShiftSource
<1>3. Set(DstC, w) /\ Advance /\ UNCHANGED <<mem, out, limit, count>>
  BY DEF JShl, Advance
<1>4. w.v = ShlW(Get(DstC).v, Get(SrcC).v)
  BY DEF Wide
<1> HIDE DEF w
<1>5. Interpreter!Retire([GuestRegs EXCEPT ![DstC] = w.v], Behind, state, mem, out)
  BY <1>1, <1>2, <1>3, AtOps, GuestSets
<1>6. OpC \in ArithOps /\ OpC # I_DIV /\ OpC \notin {I_JMP, I_CALL, I_LOADI}
  BY <1>1, OneWord DEF ArithOps, I_DIV, I_SHL
<1>7. w.v = Arith(OpC, Get(DstC).v, Get(SrcC).v)
  BY <1>1, <1>4 DEF Arith, I_ADD, I_SUB, I_MUL, I_DIV, I_AND, I_OR, I_XOR, I_SHR, I_SHL
<1>8. w.v = Interpreter!Arith(Interpreter!Opcode,
                             GuestRegs[Interpreter!Dest], GuestRegs[Interpreter!Src])
  BY <1>1, <1>7, AtOps, SameResults
<1>9. Jitting(ArithOps)
  BY <1>1, <1>6 DEF Jitting
<1>10. Interpreter!Fetched(Interpreter!ArithOps)
  BY <1>9, SameGroups, GuestFetched DEF Emulates
<1>11. Interpreter!TwoRegArith
  BY <1>1, <1>5, <1>6, <1>8, <1>10, AtOps, SameOpcodes
  DEF Interpreter!TwoRegArith, Interpreter!SetReg
<1> QED
  BY <1>1, <1>3, <1>11, AtOps, GuestExecutes DEF Interpreter!XcpuExecute, Emulates

\* The comparisons.
LEMMA CompareAgrees ==
    ASSUME Emulates, Regular, JCompare
    PROVE  Interpreter!Next
<1>1. Jitting(CompareOps) /\ CompareOps \subseteq GoesOn
  BY GoesOnOps DEF JCompare
<1>2. Advance /\ UNCHANGED <<regs, phys, mem, out, limit, count>>
      /\ state' = IF Compare(OpC, Get(SrcC).v, Get(DstC).v) THEN 1 ELSE 0
  BY DEF JCompare, Advance
<1>3. Interpreter!Retire(GuestRegs, Behind, state', mem, out)
  BY <1>1, <1>2, AtOps, GuestKeeps
<1>4. OpC \notin {I_JMP, I_CALL, I_LOADI}
  BY <1>1, OneWord DEF Jitting
<1>5. Compare(OpC, Get(SrcC).v, Get(DstC).v)
      <=> Interpreter!Compare(Interpreter!Opcode,
                                  GuestRegs[Interpreter!Src], GuestRegs[Interpreter!Dest])
  BY <1>1, AtOps, SameResults
<1>6. state' = Interpreter!Flag(Interpreter!Compare(Interpreter!Opcode, GuestRegs[Interpreter!Src],
                                                    GuestRegs[Interpreter!Dest]))
  <2>1. 2 * (state \div 2) = 0
    BY <1>1, AtOps
  <2> QED
    BY <1>1, <1>2, <1>5, <2>1, AtOps DEF Interpreter!Flag
<1>7. Interpreter!TwoRegCompare
  BY <1>1, <1>3, <1>4, <1>6, AtOps, SameGroups
  DEF Interpreter!TwoRegCompare, Interpreter!SetState
<1> QED
  BY <1>1, <1>2, <1>7, AtOps, GuestExecutes DEF Interpreter!XcpuExecute, Emulates

-----------------------------------------------------------------------------
(* Memory. *)

\* Storing the byte that is there changes nothing.
LEMMA PokeSame ==
    ASSUME NEW m, IsMemory(m), NoZeroByte(m), NEW a
    PROVE  Poke(m, a, Peek(m, a)) = m
<1>1. m = [x \in DOMAIN m |-> m[x]]
  BY DEF IsMemory
<1>2. CASE a \in DOMAIN m
  <2>1. Peek(m, a) = m[a] /\ m[a] # 0 /\ DOMAIN m \cup {a} = DOMAIN m
    BY <1>2 DEF Peek, NoZeroByte
  <2>2. Poke(m, a, Peek(m, a)) = [x \in DOMAIN m |-> IF x = a THEN m[a] ELSE m[x]]
    BY <2>1 DEF Poke
  <2> QED
    BY <1>1, <2>2
<1>3. CASE a \notin DOMAIN m
  <2>1. Peek(m, a) = 0 /\ DOMAIN m \ {a} = DOMAIN m
    BY <1>3 DEF Peek
  <2>2. Poke(m, a, Peek(m, a)) = [x \in DOMAIN m |-> IF x = a THEN 0 ELSE m[x]]
    BY <2>1 DEF Poke
  <2>3. [x \in DOMAIN m |-> IF x = a THEN 0 ELSE m[x]] = [x \in DOMAIN m |-> m[x]]
    BY <1>3
  <2> QED
    BY <1>1, <2>2, <2>3
<1> QED
  BY <1>2, <1>3

\* No byte that is stored is stored as a zero.
LEMMA PokeNoZero ==
    ASSUME NEW m, NoZeroByte(m), NEW a, NEW b
    PROVE  NoZeroByte(Poke(m, a, b))
BY DEF NoZeroByte, Poke

\* The same for a word.
LEMMA WriteNoZero ==
    ASSUME NEW m, NoZeroByte(m), NEW a, NEW v
    PROVE  NoZeroByte(WriteShort(m, a, v))
BY PokeNoZero DEF WriteShort, XmemStore

\* Storing the word that is there changes nothing.
LEMMA WriteSame ==
    ASSUME NEW m, IsMemory(m), NoZeroByte(m), NEW a
    PROVE  WriteShort(m, a, LoadShort(m, a)) = m
<1> DEFINE x == Peek(m, a)
           y == Peek(m, a + 1)
<1>1. x \in Byte /\ y \in Byte
  BY PeekByte
<1>2. LoadShort(m, a) = 256 * x + y
  BY DEF LoadShort
<1>3. Poke(m, a, x) = m /\ Poke(m, a + 1, y) = m
  BY PokeSame
<1> HIDE DEF x, y
<1>4. LoadShort(m, a) \div 256 = x /\ LoadShort(m, a) % 256 = y
  BY <1>1, <1>2, InByte
<1> QED
  BY <1>3, <1>4 DEF WriteShort, XmemStore

\* A division by zero ends both.
LEMMA DivByZeroAgrees ==
    ASSUME Emulates, Regular, JDivByZero
    PROVE  Interpreter!Next
<1>1. Jitting({I_DIV}) /\ {I_DIV} \subseteq GoesOn /\ result = "ok" /\ mode = "jit"
  BY GoesOnOps DEF JDivByZero, Jitting, ArithOps
<1>2. /\ Get(SrcC).v = 0 /\ result' = "fpe"
      /\ UNCHANGED <<regs, state, mem, out, limit, count, fns, fn, mode, phys, ip>>
  BY DEF JDivByZero, jitVars
<1>3. UNCHANGED GuestRegs
  BY <1>1, <1>2, GuestKept
<1>4. UNCHANGED <<GuestPc, GuestState>> /\ GuestResult' = "fpe"
  BY <1>1, <1>2 DEF GuestPc, GuestState, GuestResult, InJit, C, F
<1>5. Interpreter!DivByZero
  BY <1>1, <1>2, <1>3, <1>4, AtOps, SameOpcodes DEF Interpreter!DivByZero
<1> QED
  BY <1>1, <1>2, <1>5, AtOps, GuestExecutes DEF Interpreter!XcpuExecute, Emulates

\* jit.c:502: the bytes of the word that is stored are the same both ways.
LEMMA StorAgrees ==
    ASSUME Emulates, Regular, JStor
    PROVE  Interpreter!Next
<1>1. /\ Jitting({I_STOR}) /\ {I_STOR} \subseteq GoesOn
      /\ OpC = I_STOR /\ mode = "jit" /\ result = "ok"
  BY GoesOnOps DEF JStor, Jitting
<1>2. Swap(Get(SrcC).v) = Get(SrcC).v
  BY <1>1 DEF Regular, DataAgrees
<1>3. Advance /\ UNCHANGED <<regs, phys, state, out, limit, count>>
      /\ mem' = WriteShort(mem, Get(DstC).v, Get(SrcC).v)
  BY <1>2 DEF JStor, Advance
<1>4. Interpreter!Retire(GuestRegs, Behind, state, mem', out)
  BY <1>1, <1>3, AtOps, GuestKeeps
<1>5. OpC \notin {I_JMP, I_CALL, I_LOADI}
  BY <1>1, OneWord
<1>6. mem' = Interpreter!WriteShort(mem, GuestRegs[Interpreter!Dest], GuestRegs[Interpreter!Src])
  BY <1>1, <1>3, AtOps, SameMemory
<1>7. Interpreter!Stor
  BY <1>1, <1>4, <1>5, <1>6, AtOps, SameOpcodes DEF Interpreter!Stor, Interpreter!SetMem
<1> QED
  BY <1>1, <1>3, <1>7, AtOps, GuestExecutes DEF Interpreter!XcpuExecute, Emulates

\* The interpreter stores the byte behind it again.
LEMMA StorBAgrees ==
    ASSUME Emulates, Regular, JStorB
    PROVE  Interpreter!Next
<1>1. /\ Jitting({I_STORB}) /\ {I_STORB} \subseteq GoesOn /\ OpC = I_STORB
      /\ mode = "jit" /\ result = "ok" /\ Sound
  BY GoesOnOps DEF JStorB, Jitting
<1> DEFINE a == Get(DstC).v
           b == Get(SrcC).v % 256
<1>2. Advance /\ UNCHANGED <<regs, phys, state, out, limit, count>> /\ mem' = Poke(mem, a, b)
  BY DEF JStorB, Advance
<1>3. Get(DstC) \in Wides /\ a \in Word /\ b \in Byte
  BY <1>1, AtInstruction, InWord, InByte DEF Emulates
<1>4. a \in Address
  BY <1>1, <1>3, ByteInside, Stores
<1> HIDE DEF a, b
<1>5. IsMemory(mem) /\ NoZeroByte(mem)
  BY <1>1 DEF Emulates, ModeInv, MachineTyped, CpuTyped
<1>6. IsMemory(mem') /\ NoZeroByte(mem')
  BY <1>2, <1>3, <1>4, <1>5, PokeMemory, PokeNoZero
<1>7. Peek(mem', a + 1) = Peek(mem, a + 1)
  BY <1>2, <1>3, PokePeek, InWord
<1>8. mem' = XmemStore(mem, a, b, Peek(mem, a + 1))
  BY <1>2, <1>6, <1>7, PokeSame DEF XmemStore
<1>9. a = GuestRegs[Interpreter!Dest] /\ b = GuestRegs[Interpreter!Src] % 256
  BY <1>1, AtOps DEF a, b
<1>10. mem' = Interpreter!XmemStore(mem, a, b, Interpreter!Peek(mem, a + 1))
  BY <1>8, SameMemory
<1>11. Interpreter!Retire(GuestRegs, Behind, state, mem', out)
  BY <1>1, <1>2, AtOps, GuestKeeps
<1>12. OpC \notin {I_JMP, I_CALL, I_LOADI}
  BY <1>1, OneWord
<1>13. Interpreter!StorB
  BY <1>1, <1>9, <1>10, <1>11, <1>12, AtOps, SameOpcodes DEF Interpreter!StorB, Interpreter!SetMem
<1> QED
  BY <1>1, <1>2, <1>13, AtOps, GuestExecutes DEF Interpreter!XcpuExecute, Emulates

\* jit.c:582: a push of another register than the stack pointer.
LEMMA PushAgrees ==
    ASSUME Emulates, Regular, JPush
    PROVE  Interpreter!Next
<1>1. /\ Jitting({I_PUSH}) /\ {I_PUSH} \subseteq GoesOn /\ OpC = I_PUSH
      /\ mode = "jit" /\ result = "ok"
  BY GoesOnOps DEF JPush, Jitting
<1>2. SrcC # SP
  BY <1>1 DEF Regular, DataAgrees
<1>3. PushAt = SPDown
  BY <1>2 DEF PushAt
<1>4. Advance /\ UNCHANGED <<state, out, limit, count>> /\ Set(SP, SPDown)
      /\ mem' = WriteShort(mem, SPDown.v, Get(SrcC).v)
  BY <1>2, <1>3 DEF JPush, Advance
<1>5. SP \in RegId /\ SPDown.v = Wrap(Get(SP).v - 2)
  BY InRegId DEF SP, SPDown, Wide
<1>6. Interpreter!Retire([GuestRegs EXCEPT ![SP] = SPDown.v], Behind, state, mem', out)
  BY <1>1, <1>4, <1>5, AtOps, GuestSets
<1>7. OpC \notin {I_JMP, I_CALL, I_LOADI}
  BY <1>1, OneWord
<1>8. Interpreter!Pushed = [GuestRegs EXCEPT ![SP] = SPDown.v]
  BY <1>1, <1>5, AtOps, SameOpcodes, SameDecoding DEF Interpreter!Pushed
<1>9. GuestRegs \in [RegId -> Word]
  BY <1>1, GuestAt DEF Emulates
<1>10. Interpreter!Pushed[SP] = SPDown.v /\ Interpreter!Pushed[SrcC] = Get(SrcC).v
  BY <1>1, <1>2, <1>5, <1>8, <1>9, AtOps
<1>11. mem' = Interpreter!WriteShort(mem, Interpreter!Pushed[SP], Interpreter!Pushed[SrcC])
  BY <1>4, <1>10, SameMemory
<1>12. Interpreter!Push
  BY <1>1, <1>6, <1>7, <1>8, <1>11, AtOps, SameOpcodes DEF Interpreter!Push
<1> QED
  BY <1>1, <1>4, <1>12, AtOps, GuestExecutes DEF Interpreter!XcpuExecute, Emulates

\* jit.c:648: a pop, into the stack pointer only if it is mapped to a host register.
LEMMA PopAgrees ==
    ASSUME Emulates, Regular, JPop
    PROVE  Interpreter!Next
<1>1. /\ Jitting({I_POP}) /\ {I_POP} \subseteq GoesOn /\ OpC = I_POP
      /\ mode = "jit" /\ result = "ok"
  BY GoesOnOps DEF JPop, Jitting
<1>2. SrcC = SP => Mapped(SP)
  BY <1>1 DEF Regular, DataAgrees
<1>3. Advance /\ UNCHANGED <<state, mem, out, limit, count>>
  BY DEF JPop, Advance
<1>4. SP \in RegId /\ SPUp.v = Wrap(Get(SP).v + 2)
  BY InRegId DEF SP, SPUp, Wide
<1>5. OpC \notin {I_JMP, I_CALL, I_LOADI}
  BY <1>1, OneWord
<1>6. PICK v : v = LoadShort(mem, Get(SP).v)
  OBVIOUS
<1>7. v = Interpreter!LoadShort(mem, GuestRegs[SP])
  BY <1>1, <1>4, <1>6, AtOps, SameMemory
<1>8. GuestRegs \in [RegId -> Word]
  BY <1>1, GuestAt DEF Emulates
<1> DEFINE r == [GuestRegs EXCEPT ![SrcC] = v]
           q == [r EXCEPT ![SP] = Wrap(@ + 2)]
<1>9. Interpreter!Retire(q, Behind, state, mem, out)
  <2>1. CASE SrcC = SP
    <3>1. PICK w : w = Wide(Wrap(Wide(v, Get(SrcC).d).v + 2), Wide(v, Get(SrcC).d).d) /\ Set(SP, w)
      BY <1>2, <1>6, <2>1 DEF JPop
    <3>2. w.v = Wrap(v + 2)
      BY <3>1 DEF Wide
    <3>3. q = [GuestRegs EXCEPT ![SP] = w.v]
      BY <1>4, <1>8, <2>1, <3>2
    <3> QED
      BY <1>1, <1>3, <1>4, <3>1, <3>3, AtOps, GuestSets
  <2>2. CASE SrcC # SP
    <3> DEFINE g == [x \in {SP, SrcC} |-> IF x = SP THEN SPUp ELSE Wide(v, Get(SrcC).d)]
    <3>1. Write(g)
      BY <1>6, <2>2 DEF JPop
    <3>2. DOMAIN g = {SP, SrcC} /\ g[SP].v = SPUp.v /\ g[SrcC].v = v
      BY <2>2 DEF Wide
    <3> HIDE DEF g
    <3>3. Interpreter!Retire([x \in RegId |-> IF x \in DOMAIN g THEN g[x].v ELSE GuestRegs[x]],
                             Behind, state, mem, out)
      BY <1>1, <1>3, <3>1, AtOps, GuestWrites
    <3>4. q[SP] = SPUp.v /\ q[SrcC] = v
      BY <1>1, <1>4, <1>8, <2>2, AtOps
    <3>5. \A x \in RegId : x \notin {SP, SrcC} => q[x] = GuestRegs[x]
      BY <1>8
    <3>6. q = [x \in RegId |-> q[x]]
      BY <1>8
    <3> HIDE DEF q
    <3>7. \A x \in RegId : q[x] = IF x \in DOMAIN g THEN g[x].v ELSE GuestRegs[x]
      BY <3>2, <3>4, <3>5
    <3>8. q = [x \in RegId |-> IF x \in DOMAIN g THEN g[x].v ELSE GuestRegs[x]]
      BY <3>6, <3>7
    <3> QED
      BY <3>3, <3>8
  <2> QED
    BY <2>1, <2>2
<1>10. Interpreter!Pop
  BY <1>1, <1>5, <1>7, <1>9, AtOps, SameOpcodes, SameDecoding DEF Interpreter!Pop
<1> QED
  BY <1>1, <1>3, <1>10, AtOps, GuestExecutes DEF Interpreter!XcpuExecute, Emulates

\* jit.c:595: putchar leaves the registers that are not stored before it.
LEMMA OutAgrees ==
    ASSUME Emulates, Regular, JOut
    PROVE  Interpreter!Next
<1>1. /\ Jitting({I_OUT}) /\ {I_OUT} \subseteq GoesOn /\ OpC = I_OUT
      /\ mode = "jit" /\ result = "ok"
  BY GoesOnOps DEF JOut, Jitting
<1>2. /\ Advance /\ UNCHANGED <<state, mem, limit, count>> /\ regs' = Stored(CallerSaved)
      /\ out' = Append(out, Char(Get(SrcC).v))
  BY DEF JOut, Advance
<1>3. PICK j : phys' = [i \in Slot |-> CASE i \in CallerSaved -> LoadedFor(F, regs')[i]
                                         [] i \in HostScratch \ CallerSaved -> Clean(j)
                                         [] OTHER -> phys[i]]
  BY DEF JOut
<1>4. /\ GuestPc' = Behind /\ UNCHANGED <<GuestResult, limit, count>> /\ GuestState' = state'
      /\ UNCHANGED <<fns, fn, mode, result>>
  BY <1>1, <1>2, GuestAdvance DEF Emulates, Behind
<1>5. UNCHANGED GuestRegs
  <2>1. GuestRegs = [r \in RegId |-> Get(r).v] /\ GuestRegs' = [r \in RegId |-> Get(r)'.v]
    BY <1>1, <1>4 DEF GuestRegs, InJit
  <2>2. ASSUME NEW r \in RegId
        PROVE  Get(r)'.v = Get(r).v
    <3>1. Mapped(r)' = Mapped(r) /\ SlotOf(F, r)' = SlotOf(F, r)
      BY <1>4 DEF Mapped, F
    <3>2. CASE Mapped(r)
      <4>1. /\ SlotOf(F, r) \in Slot /\ SlotOf(F, r) \in MappedSlots(F)
            /\ RegIn(F, SlotOf(F, r)) = r
        BY <1>1, <3>2, InFunction, TableSlots DEF IsFunction, Mapped, Emulates
      <4>2. PICK i \in Slot : i = SlotOf(F, r)
        BY <4>1
      <4>3. Get(r)' = phys'[i] /\ Get(r) = phys[i]
        BY <3>1, <3>2, <4>2 DEF Get
      <4>4. CASE i \in CallerSaved
        <5>1. phys'[i] = LoadedFor(F, regs')[i]
          BY <1>3, <4>4
        <5>2. LoadedFor(F, regs')[i] = Clean(regs'[r])
          BY <4>1, <4>2 DEF LoadedFor
        <5>3. regs'[r] = Get(r).v
          BY <1>2, <3>2, <4>2, <4>4 DEF Stored
        <5> QED
          BY <4>3, <5>1, <5>2, <5>3 DEF Clean
      <4>5. CASE i \notin CallerSaved
        <5>1. i \notin HostScratch \ CallerSaved
          BY DEF HostScratch, CallerSaved
        <5>2. phys'[i] = phys[i]
          BY <1>3, <4>5, <5>1
        <5> QED
          BY <4>3, <5>2
      <4> QED
        BY <4>4, <4>5
    <3>3. CASE ~Mapped(r)
      <4>1. regs'[r] = regs[r]
        BY <1>2, <3>3 DEF Stored
      <4> QED
        BY <3>1, <3>3, <4>1 DEF Get, Clean
    <3> QED
      BY <3>2, <3>3
  <2> QED
    BY <2>1, <2>2
<1>6. state \in {0, 1}
  BY <1>1, AtOps
<1>7. Interpreter!Retire(GuestRegs, Behind, state, mem, out')
  BY <1>2, <1>4, <1>5, <1>6, GuestRetires
<1>8. OpC \notin {I_JMP, I_CALL, I_LOADI}
  BY <1>1, OneWord
<1>9. out' = Append(out, Interpreter!Char(GuestRegs[Interpreter!Src]))
  BY <1>1, <1>2, AtOps, SameDecoding
<1>10. Interpreter!Out
  BY <1>1, <1>7, <1>8, <1>9, AtOps, SameOpcodes DEF Interpreter!Out
<1> QED
  BY <1>1, <1>2, <1>10, AtOps, GuestExecutes DEF Interpreter!XcpuExecute, Emulates

-----------------------------------------------------------------------------
(* Jumps. *)

\* A function that starts is at its address, with the registers of the struct.
LEMMA GuestStarts ==
    ASSUME CacheInv', MachineTyped', Regular', NEW k, Start(k), mode' = "jit", result' = "ok"
    PROVE  /\ GuestRegs' = regs' /\ GuestPc' = fns'[k].addr
           /\ GuestState' = state' /\ GuestResult' = "ok"
<1>1. fn' = k /\ ip' = 1 /\ phys' = LoadedFor(fns'[k], regs')
  BY DEF Start
<1>2. GuestRegs' = regs'
  BY <1>1, GuestLoaded
<1>3. F'.code # <<>>
  BY DEF Regular, StaysInside, Sound
<1>4. IsFunction(F)'
  BY DEF MachineTyped, CacheInv, RunningKnown, FnsTyped, F
<1>5. C'.at = F'.code[1].at
  BY <1>1 DEF C
<1>6. C'.at = fns'[k].addr
  BY <1>1, <1>3, <1>4, <1>5 DEF IsFunction, F
<1> QED
  BY <1>2, <1>6 DEF GuestPc, GuestState, GuestResult, InJit

\* A jump out of the function that takes the registers along.
LEMMA GuestJumpsAway ==
    ASSUME Emulates, Regular, CacheInv', MachineTyped', Regular', mode = "jit", result = "ok",
           NEW t, JumpAway(t, GuestRegs)
    PROVE  /\ Interpreter!Retire(GuestRegs, t, state, mem, out)
           /\ UNCHANGED <<limit, count>>
<1>1. PICK k \in Targets : CompileOrGetCached(t, k) /\ Start(k)
  BY DEF JumpAway, JumpDynamic
<1>2. /\ regs' = GuestRegs /\ UNCHANGED <<mode, result, limit, count, state, mem, out>>
  BY DEF JumpAway
<1>3. fns'[k].addr = t
  BY <1>1, GetCached, SomeFunction DEF Emulates, Cached
<1>4. /\ GuestRegs' = GuestRegs /\ GuestPc' = t /\ GuestState' = state /\ GuestResult' = "ok"
  BY <1>1, <1>2, <1>3, GuestStarts
<1>5. GuestResult = "ok" /\ state \in {0, 1}
  BY AtGuest DEF Emulates
<1> QED
  BY <1>2, <1>4, <1>5, GuestRetires

\* A jump inside it, which leaves the registers where they are.
LEMMA GuestJumpsInside ==
    ASSUME Emulates, Regular, mode = "jit", result = "ok", NEW n, Goto(n),
           UNCHANGED <<regs, phys, state, mem, out>>
    PROVE  /\ Interpreter!Retire(GuestRegs, F.code[n].at, state, mem, out)
           /\ UNCHANGED <<limit, count>>
<1>1. GuestPc' = F.code[n].at /\ UNCHANGED <<GuestResult, limit, count>> /\ GuestState' = state'
      /\ UNCHANGED <<fns, fn, mode, result>>
  BY GuestGoto
<1>2. UNCHANGED GuestRegs
  BY <1>1, GuestKept
<1>3. state \in {0, 1}
  BY AtGuest DEF Emulates
<1> QED
  BY <1>1, <1>2, <1>3, GuestRetires

\* Where a relative jump goes for the interpreter.
LEMMA GuestRelative ==
    ASSUME Emulates, Regular, mode = "jit", result = "ok"
    PROVE  RelTarget = Interpreter!Wrap(GuestPc + Interpreter!SignedLow(Interpreter!Instr))
BY AtGuest, SameDecoding DEF RelTarget, Emulates

\* linker.c:45: a jump that is linked goes to the instruction at its target.
LEMMA JrLinkedAgrees ==
    ASSUME Emulates, Regular, JrLinked
    PROVE  Interpreter!Next
<1>1. /\ Jitting({I_JR}) /\ {I_JR} \subseteq GoesOn /\ OpC = I_JR /\ mode = "jit" /\ result = "ok"
      /\ Link = "linked"
  BY GoesOnOps DEF JrLinked, Jitting
<1>2. F.code[LinkedTo(F, RelTarget)].at = RelTarget
  BY <1>1 DEF Regular, BranchAgrees
<1>3. PICK n : n = LinkedTo(F, RelTarget) /\ Goto(n) /\ UNCHANGED <<regs, phys, state, mem, out>>
  BY DEF JrLinked
<1>4. Interpreter!Retire(GuestRegs, RelTarget, state, mem, out) /\ UNCHANGED <<limit, count>>
  BY <1>1, <1>2, <1>3, GuestJumpsInside
<1>5. Interpreter!Jr
  BY <1>1, <1>4, AtOps, GuestRelative, SameOpcodes DEF Interpreter!Jr, Interpreter!JumpTo
<1> QED
  BY <1>1, <1>4, <1>5, GuestExecutes DEF Interpreter!XcpuExecute, Emulates

\* linker.c:45: a jump that is not linked leaves the function.
LEMMA JrDynamicAgrees ==
    ASSUME Emulates, Regular, CacheInv', MachineTyped', Regular', JrDynamic
    PROVE  Interpreter!Next
<1>1. /\ Jitting({I_JR}) /\ {I_JR} \subseteq GoesOn /\ OpC = I_JR /\ mode = "jit" /\ result = "ok"
  BY GoesOnOps DEF JrDynamic, Jitting
<1>2. JumpAway(RelTarget, GuestRegs)
  BY <1>1, StoredAll DEF JrDynamic, Emulates
<1>3. Interpreter!Retire(GuestRegs, RelTarget, state, mem, out) /\ UNCHANGED <<limit, count>>
  BY <1>1, <1>2, GuestJumpsAway
<1>4. Interpreter!Jr
  BY <1>1, <1>3, AtOps, GuestRelative, SameOpcodes DEF Interpreter!Jr, Interpreter!JumpTo
<1> QED
  BY <1>1, <1>3, <1>4, GuestExecutes DEF Interpreter!XcpuExecute, Emulates

\* A conditional jump, taken or not.
LEMMA GuestBranches ==
    ASSUME Emulates, Regular, Jitting({I_BR}), UNCHANGED <<limit, count>>,
           Interpreter!Retire(GuestRegs, IF state = 1 THEN RelTarget ELSE Behind, state, mem, out)
    PROVE  Interpreter!Next
<1>1. {I_BR} \subseteq GoesOn /\ OpC = I_BR /\ mode = "jit" /\ result = "ok"
  BY GoesOnOps DEF Jitting
<1>2. OpC \notin {I_JMP, I_CALL, I_LOADI}
  BY <1>1 DEF I_BR, I_JMP, I_CALL, I_LOADI
<1>3. state % 2 = 1 <=> state = 1
  BY <1>1, AtOps
<1>4. Interpreter!Br
  BY <1>1, <1>2, <1>3, AtOps, GuestRelative, SameOpcodes DEF Interpreter!Br, Interpreter!JumpTo
<1> QED
  BY <1>1, <1>4, GuestExecutes DEF Interpreter!XcpuExecute, Emulates

\* A branch that is not taken goes on with the next instruction.
LEMMA GuestNotTaken ==
    ASSUME Emulates, Regular, Jitting({I_BR}), state = 0, Goto(ip + 1),
           UNCHANGED <<regs, phys, state, mem, out>>
    PROVE  Interpreter!Next
<1>1. {I_BR} \subseteq GoesOn /\ mode = "jit" /\ result = "ok"
  BY GoesOnOps DEF Jitting
<1>2. Advance
  BY DEF Goto, Advance
<1>3. Interpreter!Retire(GuestRegs, Behind, state, mem, out)
  BY <1>1, <1>2, GuestKeeps
<1>4. UNCHANGED <<limit, count>>
  BY <1>2 DEF Advance
<1> QED
  BY <1>3, <1>4, GuestBranches

\* A branch, taken or not, linked or not.
LEMMA BranchesAgree ==
    ASSUME Emulates, Regular, CacheInv', MachineTyped', Regular',
           BrLinked \/ BrDynamic \/ BrNotTaken
    PROVE  Interpreter!Next
<1>1. /\ Jitting({I_BR}) /\ OpC = I_BR /\ mode = "jit" /\ result = "ok" /\ state \in {0, 1}
  BY AtGuest DEF BrLinked, BrDynamic, BrNotTaken, Jitting, Emulates
<1>2. (state % 2 = 1 <=> state = 1) /\ (state % 2 = 0 <=> state = 0)
  BY <1>1
<1>3. CASE BrLinked
  <2>1. /\ Goto(IF state % 2 = 1 THEN LinkedTo(F, RelTarget) ELSE ip + 1)
        /\ UNCHANGED <<regs, phys, state, mem, out>>
        /\ Link = "linked" \/ state = 0
    BY <1>2, <1>3 DEF BrLinked
  <2>2. CASE state = 0
    BY <1>1, <1>2, <2>1, <2>2, GuestNotTaken
  <2>3. CASE state = 1
    <3>1. F.code[LinkedTo(F, RelTarget)].at = RelTarget
      BY <1>1, <2>1, <2>3 DEF Regular, BranchAgrees
    <3>2. PICK n : n = LinkedTo(F, RelTarget) /\ Goto(n)
      BY <1>2, <2>1, <2>3
    <3>3. Interpreter!Retire(GuestRegs, RelTarget, state, mem, out) /\ UNCHANGED <<limit, count>>
      BY <1>1, <2>1, <3>1, <3>2, GuestJumpsInside
    <3> QED
      BY <1>1, <2>3, <3>3, GuestBranches
  <2> QED
    BY <1>1, <2>2, <2>3
<1>4. CASE BrDynamic
  <2>1. state = 1 /\ JumpAway(RelTarget, GuestRegs)
    BY <1>1, <1>2, <1>4, StoredAll DEF BrDynamic, Emulates
  <2>2. Interpreter!Retire(GuestRegs, RelTarget, state, mem, out) /\ UNCHANGED <<limit, count>>
    BY <1>1, <2>1, GuestJumpsAway
  <2> QED
    BY <1>1, <2>1, <2>2, GuestBranches
<1>5. CASE BrNotTaken
  <2>1. state = 0 /\ Advance /\ UNCHANGED <<regs, phys, state, mem, out>>
    BY <1>2, <1>5 DEF BrNotTaken
  <2>2. Goto(ip + 1)
    BY <2>1 DEF Advance, Goto
  <2> QED
    BY <1>1, <2>1, <2>2, GuestNotTaken
<1> QED
  BY <1>3, <1>4, <1>5

\* jit.c:254 and 739: absolute jumps whose registers are in the struct.
LEMMA JmpAgrees ==
    ASSUME Emulates, Regular, CacheInv', MachineTyped', Regular', JJmp
    PROVE  Interpreter!Next
<1>1. /\ Jitting({I_JMP}) /\ {I_JMP} \subseteq GoesOn /\ OpC = I_JMP
      /\ mode = "jit" /\ result = "ok"
  BY GoesOnOps DEF JJmp, Jitting
<1>2. PICK j : JumpAway(C.ext, [r \in RegId |->
              IF Mapped(r) /\ SlotOf(F, r) \in HostScratch THEN j ELSE Stored(Slot)[r]])
  BY DEF JJmp
<1>3. \A r \in RegId : ~(Mapped(r) /\ SlotOf(F, r) \in HostScratch)
  BY <1>1 DEF Regular, CallAgrees
<1>4. Stored(Slot) = GuestRegs /\ GuestRegs \in [RegId -> Word]
  BY <1>1, StoredAll, GuestAt DEF Emulates
<1>5. [r \in RegId |-> IF Mapped(r) /\ SlotOf(F, r) \in HostScratch THEN j ELSE Stored(Slot)[r]]
      = GuestRegs
  BY <1>3, <1>4
<1>6. Interpreter!Retire(GuestRegs, C.ext, state, mem, out) /\ UNCHANGED <<limit, count>>
  BY <1>1, <1>2, <1>5, GuestJumpsAway
<1>7. Interpreter!Jmp
  BY <1>1, <1>6, AtOps, SameOpcodes DEF Interpreter!Jmp, Interpreter!JumpTo
<1> QED
  BY <1>1, <1>6, <1>7, GuestExecutes DEF Interpreter!XcpuExecute, Emulates

\* A jump through a register.
LEMMA JmpRAgrees ==
    ASSUME Emulates, Regular, CacheInv', MachineTyped', Regular', JJmpR
    PROVE  Interpreter!Next
<1>1. /\ Jitting({I_JMPR}) /\ {I_JMPR} \subseteq GoesOn /\ OpC = I_JMPR /\ mode = "jit"
      /\ result = "ok"
  BY GoesOnOps DEF JJmpR, Jitting
<1>2. JumpAway(Get(SrcC).v, GuestRegs)
  BY <1>1 DEF JJmpR, Regular, CallAgrees
<1>3. Interpreter!Retire(GuestRegs, Get(SrcC).v, state, mem, out) /\ UNCHANGED <<limit, count>>
  BY <1>1, <1>2, GuestJumpsAway
<1>4. Interpreter!JmpR
  BY <1>1, <1>3, AtOps, SameOpcodes DEF Interpreter!JmpR, Interpreter!JumpTo
<1> QED
  BY <1>1, <1>3, <1>4, GuestExecutes DEF Interpreter!XcpuExecute, Emulates

-----------------------------------------------------------------------------
(* Calls and returns. *)

\* A call takes the guest's stack pointer down.
LEMMA GuestPushed ==
    ASSUME Emulates, Regular, mode = "jit", result = "ok"
    PROVE  /\ Interpreter!Pushed = [GuestRegs EXCEPT ![SP] = SPDown.v]
           /\ Interpreter!Pushed[SP] = SPDown.v
<1>1. SP \in RegId /\ SPDown.v = Wrap(Get(SP).v - 2)
  BY InRegId DEF SP, SPDown, Wide
<1>2. GuestRegs \in [RegId -> Word] /\ GuestRegs[SP] = Get(SP).v
  BY <1>1, AtGuest DEF Emulates
<1>3. Interpreter!Pushed = [GuestRegs EXCEPT ![SP] = SPDown.v]
  BY <1>1, <1>2, SameOpcodes, SameDecoding DEF Interpreter!Pushed
<1> QED
  BY <1>1, <1>2, <1>3

\* What the interpreter does for a call.
LEMMA GuestCalls ==
    ASSUME Emulates, Regular, Jitting({I_CALL}), UNCHANGED <<limit, count>>,
           Interpreter!Retire([GuestRegs EXCEPT ![SP] = SPDown.v], C.ext, state,
                              WriteShort(mem, SPDown.v, Wrap(C.at + 4)), out)
    PROVE  Interpreter!Next
<1>1. {I_CALL} \subseteq GoesOn /\ OpC = I_CALL /\ mode = "jit" /\ result = "ok"
  BY GoesOnOps DEF Jitting
<1>2. XIS_NUM_OPS(OpC) = XIS_EXTENDED
  BY <1>1, OperandCounts
<1>3. Interpreter!Wrap(Interpreter!NextPc + 2) = Wrap(C.at + 4) /\ Interpreter!Extended = C.ext
  BY <1>1, <1>2, AtGuest DEF Emulates
<1>4. WriteShort(mem, SPDown.v, Wrap(C.at + 4))
      = Interpreter!WriteShort(mem, Interpreter!Pushed[SP],
                                 Interpreter!Wrap(Interpreter!NextPc + 2))
  BY <1>1, <1>3, GuestPushed, SameMemory
<1>5. Interpreter!Call
  BY <1>1, <1>3, <1>4, AtOps, GuestPushed, SameOpcodes DEF Interpreter!Call
<1> QED
  BY <1>1, <1>5, GuestExecutes DEF Interpreter!XcpuExecute, Emulates

\* jit_runtime.c:50: a call goes to the function for its address, whether the site
\* was patched or not.
LEMMA CallSiteAddress ==
    ASSUME CacheInv, mode = "jit", NEW k, CallSite(C.ext, k)
    PROVE  fns'[k].addr = C.ext
<1>1. CASE Site \in DOMAIN patched /\ k = patched[Site] /\ UNCHANGED fns
  <2>1. k \in Cached(fns[Site[1]].code[Site[3]].ext)
    BY <1>1 DEF CacheInv, PatchedSitesAgree
  <2>2. fns[Site[1]].code[Site[3]].ext = C.ext
    BY DEF Site, C, F
  <2> QED
    BY <1>1, <2>1, <2>2 DEF Cached
<1>2. CASE CompileOrGetCached(C.ext, k)
  <2>1. PICK t : t = C.ext
    OBVIOUS
  <2>2. k \in Cached(t)'
    BY <1>2, <2>1, GetCached, SomeFunction
  <2> QED
    BY <2>1, <2>2 DEF Cached
<1> QED
  BY <1>1, <1>2 DEF CallSite

\* jit.c:755: a call, patched or not, that pushes the return address.
LEMMA CallStaticAgrees ==
    ASSUME Emulates, Regular, CacheInv', MachineTyped', Regular', JCall
    PROVE  Interpreter!Next
<1>1. Jitting({I_CALL}) /\ mode = "jit" /\ result = "ok"
  BY DEF JCall, Jitting
<1>2. /\ mem' = WriteShort(mem, SPDown.v, Wrap(C.at + 4))
      /\ regs' = [Stored(Slot) EXCEPT ![SP] = SPDown.v]
      /\ UNCHANGED <<mode, result, limit, count, state, out>>
  BY DEF JCall
<1>3. PICK k \in Targets : CallSite(C.ext, k) /\ Start(k)
  BY DEF JCall
<1>4. fns'[k].addr = C.ext
  BY <1>1, <1>3, CallSiteAddress DEF Emulates
<1>5. Stored(Slot) = GuestRegs
  BY <1>1, StoredAll DEF Emulates
<1>6. /\ GuestRegs' = [GuestRegs EXCEPT ![SP] = SPDown.v] /\ GuestPc' = C.ext
      /\ GuestState' = state /\ GuestResult' = "ok"
  BY <1>1, <1>2, <1>3, <1>4, <1>5, GuestStarts
<1>7. GuestResult = "ok" /\ state \in {0, 1}
  BY <1>1, AtGuest DEF Emulates
<1>8. Interpreter!Retire([GuestRegs EXCEPT ![SP] = SPDown.v], C.ext, state, mem', out)
  BY <1>2, <1>6, <1>7, GuestRetires
<1> QED
  BY <1>1, <1>2, <1>8, GuestCalls

\* jit.c:313: a function calls itself with its registers where they are; guest
\* memory already holds the return address that is not pushed.
LEMMA CallRecursiveAgrees ==
    ASSUME Emulates, Regular, CacheInv', MachineTyped', Regular', JCallRecursive
    PROVE  Interpreter!Next
<1>1. Jitting({I_CALL}) /\ mode = "jit" /\ result = "ok" /\ OpC = I_CALL /\ IsRecursion
  BY DEF JCallRecursive, Jitting
<1>2. /\ phys' = [i \in Slot |-> IF RegIn(F, i) = SP THEN SPDown ELSE phys[i]]
      /\ regs' = [regs EXCEPT ![SP] = SPDown.v] /\ ip' = 1
      /\ UNCHANGED <<mode, fns, fn, result, limit, count, state, mem, out>>
  BY DEF JCallRecursive
<1>3. LoadShort(mem, SPDown.v) = Wrap(C.at + 4)
  BY <1>1 DEF Regular, CallAgrees
<1>4. mem' = WriteShort(mem, SPDown.v, Wrap(C.at + 4))
  BY <1>1, <1>2, <1>3, WriteSame DEF Emulates, MachineTyped, CpuTyped, ModeInv
<1>5. GuestPc' = C.ext
  <2>1. F'.code # <<>>
    BY <1>1, <1>2 DEF Regular, StaysInside, Sound
  <2>2. F' = F /\ C'.at = F.code[1].at
    BY <1>2 DEF C, F
  <2>3. C'.at = F.addr
    BY <1>1, <2>1, <2>2, InFunction DEF IsFunction, Emulates
  <2> QED
    BY <1>1, <1>2, <2>3 DEF GuestPc, InJit, IsRecursion
<1>6. GuestRegs' = [GuestRegs EXCEPT ![SP] = SPDown.v]
  <2>1. GuestRegs = [r \in RegId |-> Get(r).v] /\ GuestRegs' = [r \in RegId |-> Get(r)'.v]
    BY <1>1, <1>2 DEF GuestRegs, InJit
  <2>2. regs \in [RegId -> Word]
    BY DEF Emulates, MachineTyped, CpuTyped
  <2>3. ASSUME NEW r \in RegId
        PROVE  Get(r)'.v = IF r = SP THEN SPDown.v ELSE Get(r).v
    <3>1. Mapped(r)' = Mapped(r) /\ SlotOf(F, r)' = SlotOf(F, r)
      BY <1>2 DEF Mapped, F
    <3>2. CASE Mapped(r)
      <4>1. SlotOf(F, r) \in Slot /\ RegIn(F, SlotOf(F, r)) = r
        BY <1>1, <3>2, InFunction, TableSlots DEF IsFunction, Mapped, Emulates
      <4>2. Get(r)' = phys'[SlotOf(F, r)] /\ Get(r) = phys[SlotOf(F, r)]
        BY <3>1, <3>2 DEF Get
      <4>3. phys'[SlotOf(F, r)] = IF r = SP THEN SPDown ELSE phys[SlotOf(F, r)]
        BY <1>2, <4>1
      <4> QED
        BY <4>2, <4>3
    <3>3. CASE ~Mapped(r)
      <4>1. regs'[r] = IF r = SP THEN SPDown.v ELSE regs[r]
        BY <1>2, <2>2
      <4> QED
        BY <3>1, <3>3, <4>1 DEF Get, Clean
    <3> QED
      BY <3>2, <3>3
  <2> QED
    BY <2>1, <2>3
<1>7. /\ GuestState' = state /\ GuestResult = "ok" /\ GuestResult' = "ok" /\ state \in {0, 1}
  BY <1>1, <1>2, AtGuest DEF Emulates, GuestState, GuestResult
<1>8. Interpreter!Retire([GuestRegs EXCEPT ![SP] = SPDown.v], C.ext, state, mem', out)
  BY <1>2, <1>5, <1>6, <1>7, GuestRetires
<1> QED
  BY <1>1, <1>2, <1>4, <1>8, GuestCalls

\* What the interpreter does for a ret.
LEMMA GuestReturns ==
    ASSUME Emulates, Regular, Jitting({I_RET}), UNCHANGED <<limit, count>>,
           Interpreter!Retire([GuestRegs EXCEPT ![SP] = SPUp.v], Popped, state, mem, out)
    PROVE  Interpreter!Next
<1>1. mode = "jit" /\ result = "ok"
  BY DEF Jitting
<1>2. SP \in RegId /\ SPUp.v = Wrap(Get(SP).v + 2)
  BY InRegId DEF SP, SPUp, Wide
<1>3. GuestRegs \in [RegId -> Word] /\ GuestRegs[SP] = Get(SP).v /\ GuestState = state
  BY <1>1, <1>2, AtGuest DEF Emulates
<1>4. [GuestRegs EXCEPT ![SP] = SPUp.v] = [GuestRegs EXCEPT ![SP] = Interpreter!Wrap(@ + 2)]
  BY <1>2, <1>3, SameDecoding
<1>5. Popped = Interpreter!LoadShort(mem, GuestRegs[SP])
  BY <1>3, SameMemory DEF Popped
<1>6. Interpreter!Fetched({I_RET})
  BY GuestFetched DEF Emulates
<1>7. Interpreter!Ret
  BY <1>3, <1>4, <1>5, <1>6, SameOpcodes DEF Interpreter!Ret
<1> QED
  BY <1>1, <1>7, GuestExecutes DEF Interpreter!XcpuExecute, Emulates

\* A ret loads the registers again exactly when it leaves a preamble.
LEMMA RetReloads ==
    ASSUME Emulates, RetInto
    PROVE  IF inst = 0 THEN phys' = LoadedFor(fns[fn'], regs')
           ELSE /\ fn' = fn
                /\ phys' = [i \in Slot |-> IF RegIn(F, i) = SP THEN SPUp ELSE phys[i]]
<1>1. IsList(hstack) /\ StackInv /\ mode = "jit" /\ result = "ok"
  BY DEF Emulates, CacheInv, RetInto, Jitting
<1>2. PICK n \in 1 .. Len(hstack) :
         /\ n = IF inst = 0 THEN Len(hstack) - 1 ELSE Len(hstack)
         /\ fn' = hstack[n].fn
         /\ phys' = IF hstack[n].reload THEN LoadedFor(fns[fn'], regs')
                    ELSE [i \in Slot |-> IF RegIn(F, i) = SP THEN SPUp ELSE phys[i]]
  BY <1>1, RetStack
<1>3. Beneath(Len(hstack), inst, fn)
  BY <1>1 DEF StackInv, OnTop
<1>4. CASE inst = 0
  <2>1. Len(hstack) \in DOMAIN hstack /\ hstack[Len(hstack)].kind = "saved"
    BY <1>1, <1>2, <1>3, <1>4, ListDomain DEF Beneath
  <2>2. SavedBelow(Len(hstack) - 1)
    BY <1>1, <2>1 DEF StackInv, WellStacked
  <2>3. n # 0 /\ n = Len(hstack) - 1
    BY <1>2, <1>4
  <2>4. hstack[n].reload
    BY <2>2, <2>3 DEF SavedBelow
  <2> QED
    BY <1>2, <1>4, <2>4
<1>5. CASE inst # 0
  BY <1>2, <1>3, <1>5 DEF Beneath
<1> QED
  BY <1>4, <1>5

\* jit.c:528: a ret into the function that the host stack returns to.
LEMMA RetIntoAgrees ==
    ASSUME Emulates, Regular, CacheInv', MachineTyped', Regular', RetInto
    PROVE  Interpreter!Next
<1>1. Jitting({I_RET}) /\ mode = "jit" /\ result = "ok" /\ OpC = I_RET /\ Unwound # <<>>
  BY DEF RetInto, Jitting
<1>2. /\ regs' = [IF inst = 0 THEN Stored(Slot) ELSE regs
                    EXCEPT ![SP] = IF inst = 0 \/ ~Mapped(SP) THEN SPUp.v ELSE @]
      /\ UNCHANGED <<mode, fns, result, limit, count, state, mem, out>>
  BY DEF RetInto
<1>3. GuestPc' = Popped
  <2>1. PICK top : top = Unwound[Len(Unwound)]
    OBVIOUS
  <2>2. fns[top.fn].code[top.ip].at = Popped
    BY <1>1, <2>1 DEF Regular, CallAgrees
  <2>3. fn' = top.fn /\ ip' = top.ip
    BY <2>1 DEF RetInto
  <2>4. C'.at = Popped
    BY <1>2, <2>2, <2>3 DEF C, F
  <2> QED
    BY <1>1, <1>2, <2>4 DEF GuestPc, InJit
<1>4. SP \in RegId /\ regs \in [RegId -> Word] /\ GuestRegs \in [RegId -> Word]
  BY <1>1, InRegId, GuestAt DEF SP, Emulates, MachineTyped, CpuTyped
<1>5. GuestRegs' = [GuestRegs EXCEPT ![SP] = SPUp.v]
  <2>1. CASE inst = 0
    <3>1. regs' = [GuestRegs EXCEPT ![SP] = SPUp.v]
      BY <1>1, <1>2, <2>1, StoredAll DEF Emulates
    <3>2. PICK k : k = fn' /\ phys' = LoadedFor(fns'[k], regs')
      BY <1>2, <2>1, RetReloads
    <3>3. GuestRegs' = regs'
      BY <1>1, <1>2, <3>2, GuestLoaded
    <3> QED
      BY <3>1, <3>3
  <2>2. CASE inst # 0
    <3>1. fn' = fn /\ phys' = [i \in Slot |-> IF RegIn(F, i) = SP THEN SPUp ELSE phys[i]]
      BY <2>2, RetReloads
    <3>2. GuestRegs = [r \in RegId |-> Get(r).v] /\ GuestRegs' = [r \in RegId |-> Get(r)'.v]
      BY <1>1, <1>2 DEF GuestRegs, InJit
    <3>3. ASSUME NEW r \in RegId
          PROVE  Get(r)'.v = IF r = SP THEN SPUp.v ELSE Get(r).v
      <4>1. Mapped(r)' = Mapped(r) /\ SlotOf(F, r)' = SlotOf(F, r)
        BY <1>2, <3>1 DEF Mapped, F
      <4>2. CASE Mapped(r)
        <5>1. SlotOf(F, r) \in Slot /\ RegIn(F, SlotOf(F, r)) = r
          BY <1>1, <4>2, InFunction, TableSlots DEF IsFunction, Mapped, Emulates
        <5>2. Get(r)' = phys'[SlotOf(F, r)] /\ Get(r) = phys[SlotOf(F, r)]
          BY <4>1, <4>2 DEF Get
        <5>3. phys'[SlotOf(F, r)] = IF r = SP THEN SPUp ELSE phys[SlotOf(F, r)]
          BY <3>1, <5>1
        <5> QED
          BY <5>2, <5>3
      <4>3. CASE ~Mapped(r)
        <5>1. regs'[r] = IF r = SP THEN SPUp.v ELSE regs[r]
          BY <1>2, <1>4, <2>2, <4>3
        <5> QED
          BY <4>1, <4>3, <5>1 DEF Get, Clean
      <4> QED
        BY <4>2, <4>3
    <3> QED
      BY <3>2, <3>3
  <2> QED
    BY <2>1, <2>2
<1>6. /\ GuestState' = state /\ GuestResult = "ok" /\ GuestResult' = "ok" /\ state \in {0, 1}
  BY <1>1, <1>2, AtGuest DEF Emulates, GuestState, GuestResult
<1>7. Interpreter!Retire([GuestRegs EXCEPT ![SP] = SPUp.v], Popped, state, mem, out)
  BY <1>2, <1>3, <1>5, <1>6, GuestRetires
<1> QED
  BY <1>1, <1>2, <1>7, GuestReturns

\* The ret that main comes back through is a ret for the interpreter too.
LEMMA RetToMainAgrees ==
    ASSUME Emulates, Regular, RetToMain
    PROVE  Interpreter!Next
<1>1. Jitting({I_RET}) /\ mode = "jit" /\ result = "ok"
  BY DEF RetToMain, Jitting
<1>2. /\ regs' = [Stored(Slot) EXCEPT ![SP] = SPUp.v] /\ pc' = Popped /\ result' = "returned"
      /\ UNCHANGED <<mode, limit, count, state, mem, out>>
  BY DEF RetToMain
<1>3. Stored(Slot) = GuestRegs
  BY <1>1, StoredAll DEF Emulates
<1>4. /\ GuestRegs' = [GuestRegs EXCEPT ![SP] = SPUp.v] /\ GuestPc' = Popped
      /\ GuestState' = state /\ GuestResult' = "ok"
  BY <1>1, <1>2, <1>3 DEF GuestRegs, GuestPc, GuestState, GuestResult, InJit
<1>5. GuestResult = "ok" /\ state \in {0, 1}
  BY <1>1, AtGuest DEF Emulates
<1>6. Interpreter!Retire([GuestRegs EXCEPT ![SP] = SPUp.v], Popped, state, mem, out)
  BY <1>2, <1>4, <1>5, GuestRetires
<1> QED
  BY <1>1, <1>2, <1>6, GuestReturns

-----------------------------------------------------------------------------
(* The ways out of compiled code. *)

\* jit.c:802: the interpreter has yet to execute the std or cld.
LEMMA PanicStutters ==
    ASSUME Emulates, Regular, JPanic
    PROVE  UNCHANGED Interpreter!simVars
<1>1. /\ mode = "jit" /\ result = "ok" /\ OpC \in {I_STD, I_CLD} /\ Escape
      /\ pc' = C.at /\ state' = (IF OpC = I_STD THEN 2 + (state % 2) ELSE state)
      /\ mode' = "handoff" /\ UNCHANGED <<result, mem, out, limit, count>>
  BY DEF JPanic, Jitting, PanicAt, Escape
<1>2. inst = 0 \/ regs = GuestRegs
  BY <1>1 DEF Regular, RecursionAgrees
<1>3. regs' = GuestRegs
  BY <1>1, <1>2, StoredAll DEF Escape, Emulates
<1>4. state \in {0, 1} /\ GuestPc = C.at /\ GuestState = state /\ GuestResult = "ok"
  BY <1>1, AtGuest DEF Emulates
<1>5. state' % 2 = state
  BY <1>1, <1>4
<1>6. /\ GuestRegs' = GuestRegs /\ GuestPc' = C.at /\ GuestState' = state
      /\ GuestResult' = "ok"
  BY <1>1, <1>3, <1>5 DEF GuestRegs, GuestPc, GuestState, GuestResult, InJit
<1> QED
  BY <1>1, <1>4, <1>6 DEF Interpreter!simVars

\* An opcode that does not exist ends both.
LEMMA InvalidAgrees ==
    ASSUME Emulates, Regular, JInvalid
    PROVE  Interpreter!Next
<1>1. /\ mode = "jit" /\ result = "ok" /\ OpC \notin Implemented /\ Escape
      /\ result' = "invalid" /\ UNCHANGED <<mode, state>>
  BY DEF JInvalid
<1>2. /\ regs' = (IF inst = 0 THEN Stored(Slot) ELSE regs)
      /\ UNCHANGED <<fns, fn, ip, phys, limit, count, mem, out>>
  BY <1>1 DEF Escape
<1>3. UNCHANGED GuestRegs
  <2>1. GuestRegs = [r \in RegId |-> Get(r).v] /\ GuestRegs' = [r \in RegId |-> Get(r)'.v]
    BY <1>1 DEF GuestRegs, InJit
  <2>2. ASSUME NEW r \in RegId
        PROVE  Get(r)' = Get(r)
    <3>1. Mapped(r)' = Mapped(r) /\ SlotOf(F, r)' = SlotOf(F, r)
      BY <1>2 DEF Mapped, F
    <3>2. ~Mapped(r) => regs'[r] = regs[r]
      BY <1>2 DEF Stored
    <3> QED
      BY <1>2, <3>1, <3>2 DEF Get, Clean
  <2> QED
    BY <2>1, <2>2
<1>4. /\ GuestResult = "ok" /\ GuestState = state /\ Interpreter!NextPc = Wrap(C.at + 2)
      /\ ~Interpreter!Faults /\ Interpreter!Opcode = OpC
  BY <1>1, AtGuest DEF Emulates
<1>5. GuestPc' = Wrap(C.at + 2) /\ GuestState' = state /\ GuestResult' = "invalid"
  BY <1>1, <1>2 DEF GuestPc, GuestState, GuestResult, InJit, C, F
<1>6. Interpreter!Invalid
  BY <1>1, <1>2, <1>3, <1>4, <1>5, SameGroups DEF Interpreter!Invalid
<1> QED
  BY <1>1, <1>2, <1>6, GuestExecutes DEF Interpreter!XcpuExecute, Emulates

\* Nothing undefined happens.
LEMMA NothingWild ==
    ASSUME Emulates, Regular, JWild
    PROVE  FALSE
<1>1. mode = "jit" /\ result = "ok" /\ Sound
  BY DEF JWild, Regular, StaysInside
<1>2. state \in {0, 1} /\ IsList(hstack)
  BY <1>1 DEF Emulates, ModeInv, CacheInv
<1>3. (state % 2 = 1 <=> state = 1) /\ (state % 2 = 0 <=> state = 0)
  BY <1>2
<1>4. BranchAgrees
  BY <1>1 DEF Regular
<1>5. Balanced
  BY <1>1, <1>2, BalancedStack DEF HostStackBalanced, Emulates
<1> QED
  BY <1>1, <1>3, <1>4, <1>5 DEF JWild, BranchAgrees

-----------------------------------------------------------------------------
(* The interpreter itself. *)

\* What main's interpreter fetches is what the interpreter of JitEmulates does.
LEMMA SameFetch ==
    ASSUME GuestRegs = regs, GuestPc = pc, GuestResult = result
    PROVE  /\ Interpreter!Instr = Instr /\ Interpreter!Opcode = Opcode
           /\ Interpreter!Src = Src /\ Interpreter!Dest = Dest
           /\ Interpreter!NextPc = NextPc /\ Interpreter!Extended = Extended
           /\ Interpreter!Pushed = Pushed
           /\ Interpreter!Faults <=> Faults
           /\ \A ops : Interpreter!Fetched(ops) <=> Fetched(ops)
<1>1. Interpreter!Instr = Instr
  BY SameMemory DEF Interpreter!Instr, Instr
<1>2. /\ Interpreter!Opcode = Opcode /\ Interpreter!Src = Src /\ Interpreter!Dest = Dest
      /\ Interpreter!NextPc = NextPc
  BY <1>1, SameDecoding
  DEF Interpreter!Opcode, Opcode, Interpreter!Src, Src, Interpreter!Dest, Dest,
      Interpreter!NextPc, NextPc
<1>3. Interpreter!Extended = Extended
  BY <1>2, SameMemory DEF Interpreter!Extended, Extended
<1>4. Interpreter!Pushed = Pushed
  BY SameOpcodes, SameDecoding DEF Interpreter!Pushed, Pushed
<1>5. Interpreter!IsExtended <=> IsExtended
  BY <1>2, SameOpcodes, SameDecoding DEF Interpreter!IsExtended, IsExtended
<1>6. Interpreter!Touched = Touched
  BY <1>2, <1>5, SameOpcodes, SameDecoding DEF Interpreter!Touched, Touched
<1>7. Interpreter!Faults <=> Faults
  BY <1>6, SameMemory DEF Interpreter!Faults, Faults
<1> QED
  BY <1>1, <1>2, <1>3, <1>4, <1>7 DEF Interpreter!Fetched, Fetched

\* What it does after an instruction is the same.
LEMMA SameRetire ==
    ASSUME GuestRegs' = regs', GuestPc' = pc', GuestState' = state', GuestResult' = result',
           GuestResult = result,
           NEW r, NEW p, NEW s, NEW m, NEW o, Retire(r, p, s, m, o)
    PROVE  Interpreter!Retire(r, p, s, m, o)
<1>1. Interpreter!Debug(s) <=> Debug(s)
  BY DEF Interpreter!Debug, Debug
<1>2. Interpreter!Dump(r, p, s) = Dump(r, p, s) /\ Interpreter!MemoryError = MemoryError
  BY DEF Interpreter!Dump, Dump, Interpreter!MemoryError, MemoryError
<1>3. Interpreter!PrintFaults(m, p) <=> PrintFaults(m, p)
  BY SameMemory, SameDecoding, SameOpcodes DEF Interpreter!PrintFaults, PrintFaults
<1> QED
  BY <1>1, <1>2, <1>3 DEF Interpreter!Retire, Retire

\* And so is what it executes, opcode by opcode.
LEMMA SameExecute ==
    ASSUME GuestRegs = regs, GuestPc = pc, GuestState = state, GuestResult = result,
           GuestRegs' = regs', GuestPc' = pc', GuestState' = state', GuestResult' = result',
           XcpuExecute
    PROVE  Interpreter!XcpuExecute
<1>1. CASE TwoRegArith
  <2>1. Interpreter!Arith(Opcode, regs[Dest], regs[Src]) = Arith(Opcode, regs[Dest], regs[Src])
    BY SameResults
  <2>2. Interpreter!TwoRegArith
    BY <1>1, <2>1, SameFetch, SameRetire, SameOpcodes, SameGroups
    DEF TwoRegArith, SetReg, Interpreter!TwoRegArith, Interpreter!SetReg
  <2> QED
    BY <2>2 DEF Interpreter!XcpuExecute
<1>2. CASE TwoRegCompare
  <2>1. Interpreter!Compare(Opcode, regs[Src], regs[Dest])
        <=> Compare(Opcode, regs[Src], regs[Dest])
    BY SameResults
  <2>2. Interpreter!Flag(Interpreter!Compare(Opcode, regs[Src], regs[Dest]))
        = Flag(Compare(Opcode, regs[Src], regs[Dest]))
    BY <2>1 DEF Interpreter!Flag, Flag
  <2>3. Interpreter!TwoRegCompare
    BY <1>2, <2>2, SameFetch, SameRetire, SameGroups
    DEF TwoRegCompare, SetState, Interpreter!TwoRegCompare, Interpreter!SetState
  <2> QED
    BY <2>3 DEF Interpreter!XcpuExecute
<1>3. CASE OneReg
  <2>1. Interpreter!Unary(Opcode, regs[Src]) = Unary(Opcode, regs[Src])
    BY SameResults
  <2>2. Interpreter!OneReg
    BY <1>3, <2>1, SameFetch, SameRetire, SameGroups
    DEF OneReg, SetReg, Interpreter!OneReg, Interpreter!SetReg
  <2> QED
    BY <2>2 DEF Interpreter!XcpuExecute
<1>4. CASE DivByZero \/ Invalid \/ MemFault
  <2>1. CASE DivByZero
    BY <2>1, SameFetch, SameOpcodes DEF DivByZero, Interpreter!DivByZero, Interpreter!XcpuExecute
  <2>2. CASE Invalid
    BY <2>2, SameFetch, SameGroups DEF Invalid, Interpreter!Invalid, Interpreter!XcpuExecute
  <2>3. CASE MemFault
    BY <2>3, SameFetch DEF MemFault, Interpreter!MemFault, Interpreter!XcpuExecute,
                           MemoryError, Interpreter!MemoryError
  <2> QED
    BY <1>4, <2>1, <2>2, <2>3
<1>5. CASE Mov \/ Load \/ LoadB
  <2>1. Mov => Interpreter!Mov
    BY SameFetch, SameRetire, SameOpcodes DEF Mov, SetReg, Interpreter!Mov, Interpreter!SetReg
  <2>2. Load => Interpreter!Load
    BY SameFetch, SameRetire, SameOpcodes, SameMemory
    DEF Load, SetReg, Interpreter!Load, Interpreter!SetReg
  <2>3. LoadB => Interpreter!LoadB
    BY SameFetch, SameRetire, SameOpcodes, SameMemory
    DEF LoadB, SetReg, Interpreter!LoadB, Interpreter!SetReg
  <2> QED
    BY <1>5, <2>1, <2>2, <2>3 DEF Interpreter!XcpuExecute
<1>6. CASE Stor \/ StorB
  <2>1. Stor => Interpreter!Stor
    BY SameFetch, SameRetire, SameOpcodes, SameMemory
    DEF Stor, SetMem, Interpreter!Stor, Interpreter!SetMem
  <2>2. StorB => Interpreter!StorB
    BY SameFetch, SameRetire, SameOpcodes, SameMemory
    DEF StorB, SetMem, Interpreter!StorB, Interpreter!SetMem
  <2> QED
    BY <1>6, <2>1, <2>2 DEF Interpreter!XcpuExecute
<1>7. CASE Ret \/ Cld \/ Std
  <2>1. Ret => Interpreter!Ret
    BY SameFetch, SameRetire, SameOpcodes, SameMemory, SameDecoding DEF Ret, Interpreter!Ret
  <2>2. Cld => Interpreter!Cld
    BY SameFetch, SameRetire, SameOpcodes DEF Cld, SetState, Interpreter!Cld, Interpreter!SetState
  <2>3. Std => Interpreter!Std
    BY SameFetch, SameRetire, SameOpcodes DEF Std, SetState, Interpreter!Std, Interpreter!SetState
  <2> QED
    BY <1>7, <2>1, <2>2, <2>3 DEF Interpreter!XcpuExecute
<1>8. CASE Push \/ Pop \/ Out
  <2>1. Push => Interpreter!Push
    BY SameFetch, SameRetire, SameOpcodes, SameMemory DEF Push, Interpreter!Push
  <2>2. Pop => Interpreter!Pop
    BY SameFetch, SameRetire, SameOpcodes, SameMemory, SameDecoding DEF Pop, Interpreter!Pop
  <2>3. Out => Interpreter!Out
    BY SameFetch, SameRetire, SameOpcodes, SameDecoding DEF Out, Interpreter!Out
  <2> QED
    BY <1>8, <2>1, <2>2, <2>3 DEF Interpreter!XcpuExecute
<1>9. CASE JmpR \/ CallR \/ Jmp \/ Call
  <2>1. JmpR => Interpreter!JmpR
    BY SameFetch, SameRetire, SameOpcodes DEF JmpR, JumpTo, Interpreter!JmpR, Interpreter!JumpTo
  <2>2. CallR => Interpreter!CallR
    BY SameFetch, SameRetire, SameOpcodes, SameMemory DEF CallR, Interpreter!CallR
  <2>3. Jmp => Interpreter!Jmp
    BY SameFetch, SameRetire, SameOpcodes DEF Jmp, JumpTo, Interpreter!Jmp, Interpreter!JumpTo
  <2>4. Call => Interpreter!Call
    BY SameFetch, SameRetire, SameOpcodes, SameMemory, SameDecoding DEF Call, Interpreter!Call
  <2> QED
    BY <1>9, <2>1, <2>2, <2>3, <2>4 DEF Interpreter!XcpuExecute
<1>10. CASE Br \/ Jr \/ LoadI
  <2>1. Br => Interpreter!Br
    BY SameFetch, SameRetire, SameOpcodes, SameDecoding
    DEF Br, JumpTo, Interpreter!Br, Interpreter!JumpTo
  <2>2. Jr => Interpreter!Jr
    BY SameFetch, SameRetire, SameOpcodes, SameDecoding
    DEF Jr, JumpTo, Interpreter!Jr, Interpreter!JumpTo
  <2>3. LoadI => Interpreter!LoadI
    BY SameFetch, SameRetire, SameOpcodes, SameDecoding DEF LoadI, Interpreter!LoadI
  <2> QED
    BY <1>10, <2>1, <2>2, <2>3 DEF Interpreter!XcpuExecute
<1> QED
  BY <1>1, <1>2, <1>3, <1>4, <1>5, <1>6, <1>7, <1>8, <1>9, <1>10 DEF XcpuExecute

\* At a std or cld nothing but that is executed.
LEMMA OnlyStdCld ==
    ASSUME Opcode \in {I_STD, I_CLD}, ~Faults, XcpuExecute
    PROVE  Std \/ Cld
<1>1. Opcode \in Implemented
  BY DEF Implemented
<1>2. \A ops : Fetched(ops) => Opcode \in ops
  BY DEF Fetched
<1>3. Opcode \notin ArithOps \cup CompareOps \cup UnaryOps
                    \cup {I_MOV, I_LOAD, I_LOADB, I_STOR, I_STORB, I_RET, I_PUSH, I_POP, I_JMPR,
                          I_CALLR, I_OUT, I_BR, I_JR, I_JMP, I_CALL, I_LOADI, I_DIV}
  BY DEF ArithOps, CompareOps, UnaryOps, I_ADD, I_SUB, I_MUL, I_DIV, I_AND, I_OR, I_XOR, I_SHR,
         I_SHL, I_TEST, I_CMP, I_EQU, I_NEG, I_NOT, I_INC, I_DEC, I_PUSH, I_POP, I_OUT, I_MOV,
         I_LOAD, I_STOR, I_LOADB, I_STORB, I_JMP, I_CALL, I_LOADI, I_RET, I_STD, I_CLD, I_JMPR,
         I_CALLR, I_BR, I_JR
<1> QED
  BY <1>1, <1>2, <1>3
  DEF XcpuExecute, TwoRegArith, DivByZero, TwoRegCompare, Mov, Load, LoadB, Stor, StorB, Ret,
      OneReg, Push, Pop, JmpR, CallR, Out, Br, Jr, Jmp, Call, LoadI, Invalid, MemFault

\* jit.h:11: the interpreter that takes over goes on where compiled code was.
LEMMA InterpretAgrees ==
    ASSUME Emulates, Interpret
    PROVE  Interpreter!Next
<1>1. /\ mode # "jit" /\ mode' = "interp" /\ WithinLimit /\ XcpuExecute
      /\ count' = (IF limit = 0 THEN 0 ELSE count + 1) /\ UNCHANGED limit
  BY DEF Interpret, Execute
<1>2. result = "ok"
  BY <1>1 DEF XcpuExecute, TwoRegArith, DivByZero, TwoRegCompare, Mov, Load, LoadB, Stor, StorB,
              Ret, Cld, Std, OneReg, Push, Pop, JmpR, CallR, Out, Br, Jr, Jmp, Call, LoadI,
              Invalid, MemFault, Fetched
<1>3. result' # "returned"
  <2>1. CpuTypeOK
    BY <1>2 DEF Emulates, MachineTyped, CpuTyped, CpuTypeOK, Results
  <2> QED
    BY <1>1, <2>1, ExecuteType DEF CpuTypeOK, Results
<1>4. /\ GuestRegs = regs /\ GuestPc = pc /\ GuestResult = result
      /\ GuestRegs' = regs' /\ GuestPc' = pc' /\ GuestState' = state' /\ GuestResult' = result'
  BY <1>1, <1>2, <1>3 DEF GuestRegs, GuestPc, GuestState, GuestResult, InJit
<1>5. Interpreter!XcpuExecute
  <2>1. CASE mode = "handoff"
    <3>1. GuestState = state % 2
      BY <2>1 DEF GuestState
    <3>2. state \in 0 .. 3
      BY DEF Emulates, MachineTyped, CpuTyped
    <3>3. (state % 2) % 2 = state % 2
      BY <3>2
    <3>4. Std \/ Cld
      BY <1>1, <2>1, OnlyStdCld DEF Emulates, ModeInv
    <3>5. Std => Interpreter!Std
      BY <1>4, <3>1, <3>3, SameFetch, SameRetire, SameOpcodes
      DEF Std, SetState, Interpreter!Std, Interpreter!SetState
    <3>6. Cld => Interpreter!Cld
      BY <1>4, <3>1, <3>3, SameFetch, SameRetire, SameOpcodes
      DEF Cld, SetState, Interpreter!Cld, Interpreter!SetState
    <3> QED
      BY <3>4, <3>5, <3>6 DEF Interpreter!XcpuExecute
  <2>2. CASE mode # "handoff"
    <3>1. GuestState = state
      BY <2>2 DEF GuestState
    <3> QED
      BY <1>1, <1>4, <3>1, SameExecute
  <2> QED
    BY <2>1, <2>2
<1> QED
  BY <1>1, <1>5 DEF Interpreter!Next, Interpreter!Execute, Interpreter!WithinLimit, WithinLimit

-----------------------------------------------------------------------------
(* The invariant of the correspondence. *)

\* No byte of an executable is stored as a zero.
LEMMA LoadedNoZero ==
    ASSUME NEW img \in Images
    PROVE  NoZeroByte(Loaded(img)) /\ NoZeroByte(ZeroMemory)
<1>1. img \in Seq(Byte)
  BY XSimAssumption
<1>2. \A i \in DOMAIN img : i \in Int
  BY <1>1
<1>3. ASSUME NEW a \in DOMAIN Loaded(img)
      PROVE  Loaded(img)[a] # 0
  <2>1. PICK j \in DOMAIN img : img[j] # 0 /\ a = j - 1
    BY <1>3 DEF Loaded
  <2>2. a + 1 = j
    BY <1>2, <2>1
  <2>3. Loaded(img)[a] = img[a + 1]
    BY <1>3 DEF Loaded
  <2> QED
    BY <2>1, <2>2, <2>3
<1>4. DOMAIN ZeroMemory = {}
  BY DEF ZeroMemory
<1> QED
  BY <1>3, <1>4 DEF NoZeroByte

\* It holds at the start.
LEMMA ModeInit ==
    ASSUME JitInit
    PROVE  ModeInv
<1>1. PICK img \in Images : mem = ZeroMemory \/ mem = Loaded(img)
  BY DEF JitInit, Init
<1>2. NoZeroByte(mem) /\ state = 0 /\ count = 0
  BY <1>1, LoadedNoZero DEF JitInit, Init, CpuInit
<1>3. mode = "interp" \/ (mode = "jit" /\ limit = 0)
  BY DEF JitInit
<1> QED
  BY <1>2, <1>3 DEF ModeInv

\* What compiled code writes to memory.
LEMMA JitWrites ==
    ASSUME NoZeroByte(mem), JStor \/ JStorB \/ JPush \/ JCall
    PROVE  NoZeroByte(mem')
<1>1. (\E a, v : mem' = WriteShort(mem, a, v)) \/ (\E a, b : mem' = Poke(mem, a, b))
  BY DEF JStor, JStorB, JPush, JCall
<1> QED
  BY <1>1, PokeNoZero, WriteNoZero

\* Compiled code hands over at a std or cld.
LEMMA PanicMode ==
    ASSUME Emulates, Regular, JPanic
    PROVE  ModeInv'
<1>1. /\ mode = "jit" /\ result = "ok" /\ OpC \in {I_STD, I_CLD}
      /\ pc' = C.at /\ mode' = "handoff" /\ UNCHANGED <<result, mem>>
  BY DEF JPanic, Jitting, PanicAt, Escape
<1>2. /\ GuestPc = C.at /\ Interpreter!Instr = C.instr /\ ~Interpreter!Faults
  BY <1>1, AtGuest DEF Emulates
<1>3. Opcode' = OpC
  BY <1>1, <1>2, SameMemory DEF Opcode, Instr, OpC, Interpreter!Instr
<1>4. Accessible(pc')
  BY <1>1, <1>2, SameMemory DEF Interpreter!Faults
<1>5. XIS_NUM_OPS(OpC) # XIS_EXTENDED
  BY <1>1 DEF XIS_NUM_OPS, XIS_EXTENDED, I_STD, I_CLD
<1>6. OpC \notin {I_LOAD, I_LOADB, I_STOR, I_STORB, I_RET, I_POP, I_PUSH, I_CALL, I_CALLR}
  BY <1>1 DEF I_LOAD, I_LOADB, I_STOR, I_STORB, I_RET, I_POP, I_PUSH, I_CALL, I_CALLR, I_STD, I_CLD
<1>7. Touched' = {}
  BY <1>3, <1>5, <1>6 DEF Touched, IsExtended
<1>8. ~Faults'
  BY <1>4, <1>7 DEF Faults, Accessible
<1> QED
  BY <1>1, <1>3, <1>8 DEF ModeInv

\* Every step keeps it.
LEMMA ModeStep ==
    ASSUME Emulates, Regular, [JitNext]_vars
    PROVE  ModeInv'
<1>1. CASE JitCompiled /\ ~JPanic
  <2>1. /\ mode = "jit" /\ mode' = "jit" /\ UNCHANGED <<limit, count>>
    BY <1>1
    DEF JitCompiled, JLoadI, JMov, JArith, JShl, JCompare, JUnary, JLoad, JLoadB, JStor,
        JStorB, JPush, JPop, JOut, JrLinked, BrLinked, BrNotTaken, JDivByZero, JrDynamic,
        BrDynamic, JJmp, JJmpR, JCallR, JCall, JCallRecursive, RetInto, RetToMain,
        JInvalid, JWild, Jitting, Advance, Goto, JumpAway, Escape, jitVars
  <2>2. state' \in {state, 0, 1}
    BY <1>1
    DEF JitCompiled, JLoadI, JMov, JArith, JShl, JCompare, JUnary, JLoad, JLoadB, JStor,
        JStorB, JPush, JPop, JOut, JrLinked, BrLinked, BrNotTaken, JDivByZero, JrDynamic,
        BrDynamic, JJmp, JJmpR, JCallR, JCall, JCallRecursive, RetInto, RetToMain,
        JInvalid, JWild, JumpAway
  <2>3. \/ UNCHANGED mem
        \/ JStor \/ JStorB \/ JPush \/ JCall
    BY <1>1
    DEF JitCompiled, JLoadI, JMov, JArith, JShl, JCompare, JUnary, JLoad, JLoadB,
        JPop, JOut, JrLinked, BrLinked, BrNotTaken, JDivByZero, JrDynamic,
        BrDynamic, JJmp, JJmpR, JCallR, JCallRecursive, RetInto, RetToMain,
        JInvalid, JWild, JumpAway, Escape
  <2>4. NoZeroByte(mem')
    BY <2>1, <2>3, JitWrites DEF Emulates, ModeInv
  <2> QED
    BY <2>1, <2>2, <2>4 DEF Emulates, ModeInv
<1>2. CASE JPanic
  BY <1>2, PanicMode
<1>3. CASE Interpret
  BY <1>3 DEF Interpret, ModeInv
<1>4. CASE UNCHANGED vars
  <2>1. UNCHANGED <<regs, pc, state, mem, result, limit, count, mode>>
    BY <1>4 DEF vars, simVars, jitVars
  <2>2. UNCHANGED <<Opcode, Faults>>
    BY <2>1 DEF Opcode, Faults, Touched, Instr, NextPc, IsExtended, Src, Dest
  <2> QED
    BY <2>1, <2>2 DEF Emulates, ModeInv
<1> QED
  BY <1>1, <1>2, <1>3, <1>4 DEF JitNext

\* jit.c:841: such a program never leaves a version without preamble by a jump.
LEMMA RegularRecursion ==
    ASSUME Emulates, Regular
    PROVE  ~LeavesRecursion
<1> SUFFICES ASSUME inst # 0, JrDynamic \/ BrDynamic \/ JJmp \/ JJmpR
             PROVE  FALSE
  BY DEF LeavesRecursion
<1>1. mode = "jit" /\ result = "ok"
  BY DEF JrDynamic, BrDynamic, JJmp, JJmpR, Jitting
<1>2. RecursionAgrees /\ state \in {0, 1}
  BY <1>1 DEF Regular, Emulates, ModeInv
<1>3. state % 2 = 1 => state = 1
  BY <1>2
<1> QED
  BY <1>2, <1>3 DEF RecursionAgrees, JrDynamic, BrDynamic, JJmp, JJmpR, Jitting

\* The invariant of the refinement.
LEMMA EmulatesInvariant == JitSpec /\ []Regular => []Emulates
<1>1. JitInit => Emulates
  BY CacheInit, MachineInit, StackInit, ModeInit DEF Emulates
<1>2. Emulates /\ Regular /\ [JitNext]_vars => Emulates'
  <2> SUFFICES ASSUME Emulates, Regular, [JitNext]_vars
               PROVE  Emulates'
    OBVIOUS
  <2>1. CacheInv' /\ MachineTyped'
    BY CacheStep, MachineStep DEF Emulates
  <2>2. StackInv'
    BY StackStep, RegularRecursion DEF Emulates
  <2> QED
    BY <2>1, <2>2, ModeStep DEF Emulates
<1> QED
  BY <1>1, <1>2, PTL DEF JitSpec

\* The interpreter starts where compiled code does.
LEMMA InitAgrees ==
    ASSUME JitInit, Regular
    PROVE  Interpreter!CpuInit
<1>1. regs = [r \in RegId |-> 0] /\ pc = 0 /\ state = 0 /\ result # "returned"
  BY DEF JitInit, Init, CpuInit
<1>2. Interpreter!RegId = RegId
  BY DEF Interpreter!RegId, RegId
<1>3. CASE mode = "interp"
  BY <1>1, <1>2, <1>3 DEF Interpreter!CpuInit, GuestRegs, GuestPc, GuestState, InJit
<1>4. CASE /\ mode = "jit" /\ result = "ok"
           /\ fns = <<Prepare(mem, 0)>> /\ fn = 1 /\ ip = 1 /\ phys = Nothing
  <2>1. CacheInv /\ MachineTyped
    BY CacheInit, MachineInit
  <2>2. IsFunction(F) /\ F.code # <<>>
    BY <1>4, <2>1, InFunction DEF Regular, StaysInside, Sound
  <2>3. PICK f : f = Prepare(mem, 0)
    OBVIOUS
  <2>4. F = f /\ f.addr = 0
    BY <1>4, <2>3 DEF F, Prepare
  <2>5. C.at = 0
    BY <1>4, <2>2, <2>4 DEF C, IsFunction
  <2>6. ASSUME NEW r \in RegId
        PROVE  Get(r).v = 0
    <3>1. CASE Mapped(r)
      <4>1. SlotOf(F, r) \in Slot
        BY <2>2, <3>1, TableSlots DEF IsFunction, Mapped
      <4> QED
        BY <1>4, <3>1, <4>1 DEF Get, Nothing, Clean
    <3>2. CASE ~Mapped(r)
      BY <1>1, <3>2 DEF Get, Clean
    <3> QED
      BY <3>1, <3>2
  <2> QED
    BY <1>1, <1>2, <1>4, <2>5, <2>6
    DEF Interpreter!CpuInit, GuestRegs, GuestPc, GuestState, InJit
<1> QED
  BY <1>3, <1>4 DEF JitInit

\* A step of the program is a step of the interpreter, or none.
LEMMA StepAgrees ==
    ASSUME Emulates, Regular, Emulates', Regular', [JitNext]_vars
    PROVE  Interpreter!Next \/ UNCHANGED Interpreter!simVars
<1>1. CacheInv' /\ MachineTyped'
  BY DEF Emulates
<1>2. CASE JitCompiled
  <2>1. CASE JLoadI \/ JMov \/ JArith \/ JDivByZero \/ JShl \/ JCompare \/ JUnary
    BY <2>1, LoadIAgrees, MovAgrees, ArithAgrees, DivByZeroAgrees, ShlAgrees, CompareAgrees,
       UnaryAgrees
  <2>2. CASE JLoad \/ JLoadB \/ JStor \/ JStorB \/ JPush \/ JPop \/ JOut
    BY <2>2, LoadAgrees, LoadBAgrees, StorAgrees, StorBAgrees, PushAgrees, PopAgrees, OutAgrees
  <2>3. CASE JrLinked \/ BrLinked \/ JrDynamic \/ BrDynamic \/ BrNotTaken \/ JJmp \/ JJmpR
    BY <1>1, <2>3, JrLinkedAgrees, JrDynamicAgrees, BranchesAgree, JmpAgrees, JmpRAgrees
  <2>4. CASE JCall \/ JCallRecursive \/ RetInto \/ RetToMain
    BY <1>1, <2>4, CallStaticAgrees, CallRecursiveAgrees, RetIntoAgrees, RetToMainAgrees
  <2>5. CASE JPanic \/ JInvalid
    BY <2>5, PanicStutters, InvalidAgrees
  <2>6. ~JCallR
    BY DEF JCallR, Jitting, Regular, CallAgrees
  <2> QED
    BY <1>2, <2>1, <2>2, <2>3, <2>4, <2>5, <2>6, NothingWild DEF JitCompiled
<1>3. CASE Interpret
  BY <1>3, InterpretAgrees
<1>4. CASE UNCHANGED vars
  BY <1>4 DEF vars, simVars, jitVars, Interpreter!simVars, GuestRegs, GuestPc, GuestState,
              GuestResult, InJit, Get, Mapped, C, F
<1> QED
  BY <1>2, <1>3, <1>4 DEF JitNext

\* jit.h:8, "emulates running some X-CPU instructions on a given cpu state":
\* whatever the program is, as long as no instruction it comes to is one of the
\* exceptions of Regular, the simulator with its JIT is an implementation of the
\* interpreter: registers, program counter, flag, memory and output at every
\* instruction, through every call, patched call site, recursion and return and
\* through the handoff to the interpreter.
THEOREM CompiledImplements == JitSpec /\ []Regular => JitEmulates
<1>1. JitInit /\ Regular => Interpreter!CpuInit
  BY InitAgrees
<1>2. Emulates /\ Emulates' /\ Regular /\ Regular' /\ [JitNext]_vars
        => [Interpreter!Next]_(Interpreter!simVars)
  BY StepAgrees
<1> QED
  BY <1>1, <1>2, EmulatesInvariant, PTL DEF JitSpec, JitEmulates
=============================================================================
