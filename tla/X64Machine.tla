----------------------------- MODULE X64Machine -----------------------------
(***************************************************************************)
(* The processor that the generated code runs on, as far as that code uses *)
(* it: what a sequence of bytes at a position means, and what executing it *)
(* does.  It is written from the processor's manual, not from the          *)
(* encoders, and only the properties use it.                               *)
(*                                                                         *)
(* A machine state: r, the registers; m, the bytes of data memory that are *)
(* not zero; zf and cf; ip, a position in the code; calls, the address,    *)
(* the registers and the memory at each call of a register; end, why it    *)
(* stopped: "" while it runs, "ret" or "jmp" (to the address out) or       *)
(* "fault".  Numbers are below 2^31, so of eight bytes only four count.    *)
(***************************************************************************)
EXTENDS Integers, Sequences, XIS
LOCAL INSTANCE TLC

ByteAt(code, p) == IF p + 1 \in DOMAIN code THEN code[p + 1] ELSE 0

Signed8(b) == IF b > 127 THEN b - 256 ELSE b
Number16(code, p) == ByteAt(code, p) + 256 * ByteAt(code, p + 1)
Number32(code, p) ==
    Number16(code, p) + 65536 * ByteAt(code, p + 2) + 16777216 * Signed8(ByteAt(code, p + 3))

-----------------------------------------------------------------------------
(* Decoding: 0F before an opcode is 256 added to it. *)
BinaryOps    == {41, 33, 9, 49, 59, 133}
GroupOps     == {247, 211, 129, 193, 199}
TransferOps  == {144, 195, 116, 233, 389} \cup 80 .. 95
LoadConstant == 184 .. 191
WithModRM    == {137, 139, 136, 1, 255, 439, 438, 404, 402, 405} \cup BinaryOps \cup GroupOps
Known        == TransferOps \cup LoadConstant \cup WithModRM

ImmediateLength(opcode) ==
    CASE opcode \in LoadConstant -> 8
      [] opcode \in {233, 389}   -> 4
      [] opcode \in {199, 129}   -> 2
      [] opcode \in {116, 193}   -> 1
      [] OTHER                   -> 0

Immediate(code, p, length) ==
    CASE length = 0 -> 0
      [] length = 1 -> Signed8(ByteAt(code, p))
      [] length = 2 -> Number16(code, p)
      [] OTHER      -> Number32(code, p)

\* next is the position of the instruction after it.
Decode(code, p) ==
    LET is16    == ByteAt(code, p) = 102
        q       == IF is16 THEN p + 1 ELSE p
        prefix  == ByteAt(code, q) \in 64 .. 79
        rex(i)  == IF prefix THEN (ByteAt(code, q) \div i) % 2 ELSE 0
        o       == IF prefix THEN q + 1 ELSE q
        twobyte == ByteAt(code, o) = 15
        opcode  == IF twobyte THEN 256 + ByteAt(code, o + 1) ELSE ByteAt(code, o)
        n       == IF twobyte THEN o + 2 ELSE o + 1
        modrm   == opcode \in WithModRM
        mod     == IF modrm THEN ByteAt(code, n) \div 64 ELSE 3
        rm      == IF modrm THEN ByteAt(code, n) % 8 ELSE opcode % 8
        hasSib  == mod # 3 /\ rm = 4
        sib     == ByteAt(code, n + 1)
        d       == IF ~modrm THEN n ELSE IF hasSib THEN n + 2 ELSE n + 1
        i       == CASE mod = 1 -> d + 1 [] mod = 2 -> d + 4 [] OTHER -> d
        length  == ImmediateLength(opcode)
        index   == ((sib \div 8) % 8) + 8 * rex(2)
    IN  [valid  |-> opcode \in Known /\ mod # 0,
         size   |-> IF rex(8) = 1 THEN 64 ELSE IF is16 THEN 16 ELSE 32,
         rex    |-> prefix,
         opcode |-> opcode,
         reg    |-> (IF modrm THEN (ByteAt(code, n) \div 8) % 8 ELSE 0) + 8 * rex(4),
         direct |-> mod = 3,
         rm     |-> (IF hasSib THEN sib % 8 ELSE rm) + 8 * rex(1),
         index  |-> IF hasSib /\ index # 4 THEN {index} ELSE {},
         scale  |-> IF hasSib THEN Pow2[(sib \div 64) + 1] ELSE 1,
         disp   |-> CASE mod = 1 -> Signed8(ByteAt(code, d))
                      [] mod = 2 -> Number32(code, d)
                      [] OTHER   -> 0,
         imm    |-> Immediate(code, i, length),
         next   |-> i + length]

-----------------------------------------------------------------------------
(* Operands. *)
Low(v, size) == CASE size = 8 -> v % 256 [] size = 16 -> v % 65536 [] OTHER -> v

MemByte(m, a) == IF a \in DOMAIN m THEN m[a] ELSE 0

MemRead(m, a, size) ==
    CASE size = 8  -> MemByte(m, a)
      [] size = 16 -> MemByte(m, a) + 256 * MemByte(m, a + 1)
      [] OTHER     -> MemByte(m, a) + 256 * MemByte(m, a + 1) + 65536 * MemByte(m, a + 2)
                      + 16777216 * MemByte(m, a + 3)

MemWrite(m, a, size, v) ==
    CASE size = 8  -> (a :> v % 256) @@ m
      [] size = 16 -> (a :> v % 256 @@ a + 1 :> (v \div 256) % 256) @@ m
      [] OTHER     -> (a :> v % 256 @@ a + 1 :> (v \div 256) % 256
                       @@ a + 2 :> (v \div 65536) % 256 @@ a + 3 :> v \div 16777216) @@ m

\* Without a REX prefix the byte registers 4..7 are the second bytes of 0..3.
HighByte(d, k, size) == size = 8 /\ ~d.rex /\ k \in 4 .. 7

RegRead(s, d, k, size) ==
    IF HighByte(d, k, size) THEN (s.r[k - 4] \div 256) % 256 ELSE Low(s.r[k], size)

\* Writing 8 or 16 bits leaves the others alone; writing 32 clears them.
RegWrite(s, d, k, size, v) ==
    [s EXCEPT !.r = IF HighByte(d, k, size)
                    THEN [@ EXCEPT ![k - 4] = (@ - (@ % 65536)) + 256 * v + (@ % 256)]
                    ELSE [@ EXCEPT ![k] = (@ - Low(@, size)) + v]]

EffectiveAddress(s, d) ==
    s.r[d.rm] + d.disp + d.scale * (IF d.index = {} THEN 0 ELSE s.r[CHOOSE k \in d.index : TRUE])

RMRead(s, d, size) ==
    IF d.direct THEN RegRead(s, d, d.rm, size) ELSE MemRead(s.m, EffectiveAddress(s, d), size)

RMWrite(s, d, size, v) ==
    IF d.direct THEN RegWrite(s, d, d.rm, size, v)
    ELSE [s EXCEPT !.m = MemWrite(@, EffectiveAddress(s, d), size, v)]

-----------------------------------------------------------------------------
(* Execution. *)
Fault(s) == [s EXCEPT !.end = "fault"]

Flags(s, zero, carry) == [s EXCEPT !.zf = zero, !.cf = carry]

\* An operation of 16 bits writes v back, and sets the flags by it.
Result16(s, d, v, carry) == Flags(RMWrite(s, d, 16, v), v = 0, carry)

Binary16(s, d) ==
    LET x == RMRead(s, d, 16)
        y == RegRead(s, d, d.reg, 16)
    IN  CASE d.opcode = 41  -> Result16(s, d, Wrap(x - y), x < y)           \* sub
          [] d.opcode = 33  -> Result16(s, d, AndW(x, y), FALSE)            \* and
          [] d.opcode = 9   -> Result16(s, d, OrW(x, y), FALSE)             \* or
          [] d.opcode = 49  -> Result16(s, d, XorW(x, y), FALSE)            \* xor
          [] d.opcode = 59  -> Flags(s, x = y, y < x)                       \* cmp
          [] d.opcode = 133 -> Flags(s, AndW(x, y) = 0, FALSE)              \* test

\* The operation is in the reg field.
Group16(s, d) ==
    LET x   == RMRead(s, d, 16)
        ax  == s.r[0] % 65536
        dx  == s.r[2] % 65536
        cnt == s.r[1] % 32
        hi  == ((x \div 256) * ax + (((x % 256) * ax) \div 256)) \div 256
        pair(a, b) == RegWrite(RegWrite(s, d, 0, 16, a), d, 2, 16, b)
    IN  CASE d.opcode = 247 /\ d.reg = 3 -> Result16(s, d, Wrap(0 - x), x # 0)        \* neg
          [] d.opcode = 247 /\ d.reg = 4 -> pair(MulW(x, ax), hi)                     \* mul
          [] d.opcode = 247 /\ d.reg = 6 -> IF dx # 0 \/ x = 0 THEN Fault(s)          \* div
                                            ELSE pair(ax \div x, ax % x)
          [] d.opcode = 211 /\ d.reg = 4 -> RMWrite(s, d, 16, ShlW(x, cnt))           \* shl
          [] d.opcode = 211 /\ d.reg = 5 -> RMWrite(s, d, 16, ShrW(x, cnt))           \* shr
          [] d.opcode = 255 /\ d.reg = 0 -> Result16(s, d, Wrap(x + 1), s.cf)         \* inc
          [] d.opcode = 255 /\ d.reg = 1 -> Result16(s, d, Wrap(x - 1), s.cf)         \* dec
          [] d.opcode = 129 /\ d.reg = 4 -> Result16(s, d, AndW(x, d.imm), FALSE)     \* and
          [] d.opcode = 129 /\ d.reg = 1 -> Result16(s, d, OrW(x, d.imm), FALSE)      \* or
          [] d.opcode = 193 /\ d.reg = 1 /\ d.imm = 8 ->                              \* ror
                 RMWrite(s, d, 16, 256 * (x % 256) + (x \div 256))
          [] d.opcode = 199 /\ d.reg = 0 -> RMWrite(s, d, 16, d.imm)                  \* mov
          [] OTHER -> Fault(s)

Moves(s, d) ==
    CASE d.opcode = 137 -> RMWrite(s, d, d.size, RegRead(s, d, d.reg, d.size))
      [] d.opcode = 139 -> RegWrite(s, d, d.reg, d.size, RMRead(s, d, d.size))
      [] d.opcode = 136 -> RMWrite(s, d, 8, RegRead(s, d, d.reg, 8))
      [] d.opcode = 439 -> RegWrite(s, d, d.reg, d.size, RMRead(s, d, 16))
      [] d.opcode = 438 -> RegWrite(s, d, d.reg, d.size, RMRead(s, d, 8))
      [] d.opcode \in LoadConstant -> RegWrite(s, d, d.rm, 64, d.imm)
      [] d.opcode = 1 /\ d.size # 16 ->
             RMWrite(s, d, d.size, RMRead(s, d, d.size) + RegRead(s, d, d.reg, d.size))
      [] d.opcode = 404 -> RMWrite(s, d, 8, IF s.zf THEN 1 ELSE 0)
      [] d.opcode = 402 -> RMWrite(s, d, 8, IF s.cf THEN 1 ELSE 0)
      [] d.opcode = 405 -> RMWrite(s, d, 8, IF s.zf THEN 0 ELSE 1)
      [] OTHER -> Fault(s)

PushValue(s, v) ==
    [s EXCEPT !.r[4] = @ - 8, !.m = MemWrite(@, s.r[4] - 8, 64, v)]

PopInto(s, k) == [s EXCEPT !.r = [@ EXCEPT ![4] = @ + 8, ![k] = MemRead(s.m, s.r[4], 64)]]

\* A call of a register: the callee keeps rbx, rsp, rbp and r12..r15 and leaves
\* anything in the others.
Scratch == {0, 1, 2, 6, 7, 8, 9, 10, 11}
Leavings == 1193046

CallRegister(s, k) ==
    [s EXCEPT !.calls = Append(@, [to |-> s.r[k], r |-> s.r, m |-> s.m]),
              !.r = [x \in DOMAIN s.r |-> IF x \in Scratch THEN Leavings ELSE s.r[x]],
              !.zf = TRUE]

Transfers(s, d) ==
    LET op == d.opcode
    IN  CASE op \in 80 .. 87 -> PushValue(s, s.r[d.rm])
          [] op \in 88 .. 95 -> PopInto(s, d.rm)
          [] op = 195 -> [s EXCEPT !.end = "ret", !.out = MemRead(s.m, s.r[4], 64),
                                   !.r[4] = @ + 8]
          [] op = 116 -> IF s.zf THEN [s EXCEPT !.ip = d.next + d.imm] ELSE s
          [] op = 389 -> IF s.zf THEN s ELSE [s EXCEPT !.ip = d.next + d.imm]
          [] op = 233 -> [s EXCEPT !.ip = d.next + d.imm]
          [] op = 255 /\ d.reg = 2 -> CallRegister(s, d.rm)
          [] op = 255 /\ d.reg = 4 -> [s EXCEPT !.end = "jmp", !.out = s.r[d.rm]]
          [] OTHER -> s                                                   \* nop

Execute(s, d) ==
    LET at == [s EXCEPT !.ip = d.next]
    IN  CASE ~d.valid -> Fault(s)
          [] d.opcode \in BinaryOps -> IF d.size = 16 THEN Binary16(at, d) ELSE Fault(s)
          [] d.opcode \in GroupOps -> IF d.size = 16 THEN Group16(at, d) ELSE Fault(s)
          [] d.opcode = 255 /\ d.reg \in {0, 1} -> IF d.size = 16 THEN Group16(at, d) ELSE Fault(s)
          [] d.opcode \in TransferOps \/ d.opcode = 255 -> Transfers(at, d)
          [] OTHER -> Moves(at, d)

\* Runs until it stops, arrives at one of the positions, has made so many calls or
\* taken so many steps.
RECURSIVE Run(_, _, _, _, _)
Run(s, code, stops, calls, fuel) ==
    IF s.end # "" \/ s.ip \in stops \/ Len(s.calls) = calls \/ fuel = 0 THEN s
    ELSE Run(Execute(s, Decode(code, s.ip)), code, stops, calls, fuel - 1)

\* The positions at which an instruction begins when the bytes are read one after
\* the other, up to the end of the code or the first that means nothing.
RECURSIVE StartsFrom(_, _)
StartsFrom(code, p) ==
    IF p >= Len(code) THEN {p}
    ELSE LET d == Decode(code, p)
         IN  IF d.valid THEN {p} \cup StartsFrom(code, d.next) ELSE {}

\* Where the instruction at p may go besides the next one.
RelativeTargets(code, p) ==
    LET d == Decode(code, p)
    IN  IF d.opcode \in {116, 233, 389} THEN {d.next + d.imm} ELSE {}
=============================================================================
