-------------------------------- MODULE XMem --------------------------------
(***************************************************************************)
(* xmem.c: PhysSize bytes, allocated zeroed, loaded and stored two at a    *)
(* time.  A memory is a function on the addresses that hold a byte other   *)
(* than zero, so that two memories are equal exactly when their bytes are. *)
(***************************************************************************)
EXTENDS XIS

CONSTANT PhysSize              \* the argument of xmem_init

ASSUME PhysSizeAssumption == PhysSize \in 0 .. 65536

Address == 0 .. PhysSize - 1

IsMemory(m) ==
    /\ m = [a \in DOMAIN m |-> m[a]]
    /\ DOMAIN m \subseteq Address
    /\ \A a \in DOMAIN m : m[a] \in Byte

ZeroMemory == [a \in {} |-> 0]

Peek(m, a) == IF a \in DOMAIN m THEN m[a] ELSE 0

Poke(m, a, b) ==
    [x \in IF b = 0 THEN DOMAIN m \ {a} ELSE DOMAIN m \cup {a} |->
        IF x = a THEN b ELSE m[x]]

\* The check of xmem_load and xmem_store; when it fails they call exit(1).
Accessible(a) == a <= PhysSize - 2

XmemStore(m, a, first, second) == Poke(Poke(m, a, first), a + 1, second)

\* Guest words are big-endian: load_short and write_short of xcpu.c.
LoadShort(m, a)     == 256 * Peek(m, a) + Peek(m, a + 1)
WriteShort(m, a, v) == XmemStore(m, a, v \div 256, v % 256)
=============================================================================
