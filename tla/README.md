# xsim2 in TLA+

Models, model checks and proofs for `xsim2`: a simulator of a 16-bit processor
(the X-CPU) with an interpreter and a just-in-time compiler to x64, and the
assembler that makes its executables. Paths below are relative to `src/xsim2/`
unless they begin with `src/`.

## 1. The system

| component | state | operations | correct when |
|---|---|---|---|
| instruction set, `assembler/xis.h`, `xcpudefs.h` | - | opcodes, operand classes, decoding | every component decodes alike |
| guest memory, `xsim/xmem.c` | 64 KiB of bytes | `xmem_init`, `xmem_load`, `xmem_store` | a word written is read back; no access outside memory |
| interpreter, `xsim/xcpu.c` | `xcpu`: 16 registers, `pc`, `state` (condition flag, debug bit) | `xcpu_execute`: one instruction | one instruction does what the tests expect; with the debug bit set the processor is printed after each one |
| dump, `xsim/xcpuprnt.c` | - | `xcpu_print` | prints the state as it is |
| main, `xsim/main.c` | instruction count and limit | load, run compiled code, run the interpreter's loop | the limit holds; compiled code and interpreter hand over without loss |
| register table, `jit/vreg_table.c` | use counts, seven slots r8..r14 | `solve_instruction_region`, `insert_reg` | the most used registers are mapped, none twice |
| translator, `jit/jit.c` | generated code, link requests | `jit_prepare` | generated code does what the interpreter does |
| runtime, `jit/jit_runtime.c` | function cache, overwritten call sites | `jump_dynamic`, `call_dynamic`, `call_static` | one function per address; a patched call goes where the unpatched one did |
| linker, `jit/linker.c` | address of every translated instruction | `jit_link` | a relative jump inside a function goes to its target; others are left alone |
| encoders, `jit/x64_codegen.c` | - | one function per x64 instruction | the bytes are the instruction meant |
| linked list, `linkedlist/linkedlist.c` | nodes on the heap, iterators | `ll_*` | a sequence with a cursor |
| assembler, `assembler/xas.c` | the object under construction, the position in it, the number of errors | one line after the other; then relocating, storing the table, writing the file | the file is the source's translation; exactly the sources with errors are refused; nothing is written behind the object |
| object files, `assembler/xreloc.c` | symbols, each with its relocations; the table behind the code in a file | `xreloc_symbol`, `xreloc_global`, `xreloc_reloc`, `xreloc_relocate`, `xreloc_store_table`, `xreloc_load_table` | a file loaded anywhere, or linked with another one, has every reference go to its label |
| `src/xsim1/` | the same | the version before the JIT: the same assembler, object files and `xis.h`, and a `main.c` that only interprets | as above |

How they interact. The assembler assembles, relocates and stores through `xreloc`,
and writes code followed by its table; the simulator takes the code and leaves the
table where it is. `main` loads the executable through `xmem_store`. Without a
limit it has `jit_prepare` compile address 0 and calls the result; with one, or
after an `std` or `cld`, it calls `xcpu_execute` in a loop. `jit_prepare` asks
`solve_instruction_region` which guest registers live in host registers, emits
code through the encoders, and has `jit_link` turn relative jumps into direct
ones. Generated code calls `jump_dynamic` and `call_static` for every other jump
and call; these look the address up in the function cache (a linked list),
compile what is missing and, for a static call, overwrite the caller's code.
Generated code shares with C the `xcpu` struct, guest memory, the host stack and
the host registers that the calling convention lets a C function change.

What is hard here. The program has one thread and no messages; there is no
crash recovery and nothing persists. The difficulty is in *protocol sequences*:
a guest register's value is in the struct or in a host register, and every
path of calls, jumps, recursion, `putchar` and the escape hatch must leave the
right one up to date; the host stack must balance along chains of calls and of
jumps that skip preambles; caches and patched call sites go stale; code is
overwritten in place by other code that has to fit; positions, distances and
buffers have limits that are tested late or not at all; and the edges
of 8, 16 and 64-bit arithmetic differ between interpreter and x64. The list of
these hazards, each with its line and the properties that cover it, is
`hazards` in `PROJECT.json`.

## 2. Modules

| module | models | state and actions |
|---|---|---|
| `XIS` | instruction set | operators: opcodes, decoding, the results of operations in 16 bits |
| `XMem` | `xmem.c`, `load_short`, `write_short` | operators; a memory is a function on its non-zero bytes |
| `XCpu` | `xcpu_execute` | `regs`, `pc`, `state`, `mem`, `out`, `result`; one action per opcode or group of opcodes that share a case, and `Invalid`, `DivByZero`, `MemFault` |
| `XSim` | `main` with the interpreter | adds `limit`, `count`; `Execute` is an iteration of the loop |
| `VregScan` | the register table as a function | the scan, the order of mapping |
| `VregTable` | the loop that fills the table | `counts`, `mapped`, `full`; `MapMostUsed` and `TableFull` are its iterations |
| `JitCode` | `jit_prepare`'s and `jit_link`'s results | operators: the translated instructions, the container, what becomes of a relative jump |
| `JitMachine` | `main` with the JIT | extends `XSim` with the compiled functions `fns`, the place `fn`, `ip`, `inst` in them, the host registers `phys`, `raxDirty`, the host stack `hstack`, the patched call sites `patched` and `mode`; one action per case of the translator |
| `X64` | `x64_codegen.c` | operators: the bytes each encoder writes |
| `JitEmit` | `jit_prepare`, `jit_link` and `call_static` down to the bytes they write | `memory` (the buffer as far as it is written), `gen_ptr`, `pc`, `instr_mapping` (the container), `link_requests`, `sites` (call sites not yet overwritten), `count`, ...; `Prologue`, one `Translate...` action for each way the translation loop goes on, the epilogue, one step of the linker per request, `CallStatic` |
| `X64Machine` | external: the processor, for the properties only | operators: what bytes mean and what executing them does |
| `XReloc` | `xreloc.c` | operators from table to table, and from memory to memory |
| `XAs` | `xas.c`'s `main` | `program`, `line`, `pos`, `err`, `obj`, `relocs`, `size`, `phase`, `file`, `status`; one action for each kind of line, then `EndOfFile`, `Relocate`, `StoreTable`, and the ways to exit |
| `Assembly` | - | what the assembler promises, said of the whole source: which sources are acceptable, each line's address and bytes, what is found in the file wherever it is loaded |
| `ItemList`, `LinkedList` | `linkedlist.h`'s list; `linkedlist.c` | a sequence with a cursor; the heap, one action per `ll_*` call |
| `RepoTests` | - | the fifteen programs of `tests/` as bytes, and what their `.expected` files show |

`XMemProofs`, `XSimProofs`, `VregTableProofs`, `JitCodeProofs`,
`JitMachineProofs` (on top of `XSimProofs` and `JitCodeProofs`), `JitEmitProofs`,
`XAsProofs` and `LinkedListProofs` hold the proofs. `MCXSim`,
`MCVregTable`, `MCJit`, `MCJitEmit`, `MCTests`, `MCXAs` and `MCJitFindings` give
TLC its instances; `LinkedList` needs none. Operators that end in `_Something`
are mutants: what a bug in the operator of the same name would make of it. Each
property of each passing run is broken by the mutant `PROJECT.json` lists for it.

### How the models abstract the code

*Interpreter.* One step is one call of `xcpu_execute`. Where the code exits in
the middle of an instruction (`xmem` calls `exit(1)`), the step leaves the
processor as it was and adds the message to `out`: nobody sees the half-done
instruction. `out` holds characters and dumps as records; a dump is the registers,
`pc` and `state`, not its text.

*Compiled code.* One step is the code generated for one guest instruction with
the runtime calls in it. The bytes are `JitEmit`'s subject; `JitMachine` has what
they do, as far as a guest program can tell:

- `phys[i]` is host register r(8+i), its low 16 bits and whether a higher bit
  is set (`add` is a 64-bit add, `jit.c:353`; addresses use all 64 bits,
  `jit.c:491`). `raxDirty` is the same bit for rax, which `not` reads.
- Registers that are not mapped are loaded from and stored to `regs` in every
  instruction, as `GET_OR_LOAD_VREG` and `STORE_IF_NEEDED` do. A function's table
  is computed by `SolveRegion` from the memory it is compiled from.
- A function called through the runtime gets on `hstack` a return address and the
  five registers of its preamble; a jump skips the preamble; a recursive call
  runs the version without one (`inst`). `ret` pops what the epilogue pops. When
  that is not there the outcome is not defined by the program: `result` is
  "wild", and nothing is claimed about what follows. So also for a jump through
  the entry that was never written (`linker.c:50`), an access outside guest memory, and
  a branch whose displacement overflowed. Code in which no instruction ends a
  function (`jit.c:214` then goes on around the address space and writes behind its
  buffer) translates to `<<>>`, and calling it is "wild" too.
- After a C call r8..r11 may hold any value of `Junk`, where the code relies on
  them not doing so.
- The size of generated code matters in one place, the distance over a
  branch's conditional block (`JitCode!CondBlockSize`), which the run
  `generated_code` compares with the bytes.

`JitMachine` implements `XSim`: the refinement mapping takes a guest register from
its host register while compiled code runs, `pc` from the place in the code,
and counts the `std` that left compiled code as not yet executed. It does so in every
behaviour in which `Regular` always holds: compiled code is at none of the places of
section 4. `Regular` is a state predicate, its five parts name the lines they are
about, and section 5 has the theorem.

*Generated code.* `JitEmit` writes the same code byte by byte, in the order of the
calls to the encoders, into a buffer whose first address is 0. The addresses of the
host process that the code contains are the constant `Host`. Two things are as
they are in C: the stores that `jmpr` and `callr` write without advancing
`gen_ptr` are written and then overwritten (`Write`, with its part `wasted`), and
an entry of the container that was never written holds any value of `Unwritten`.
When the whole function is there, its call sites are overwritten one after the
other with the address of a callee (`Host.callee`). `MatchesJitCode` ties the two
models together: the bytes have the instructions, entries and targets that
`JitCode` says.

`X64Machine` is written from the processor's manual and knows nothing of the
encoders. Only properties use it: they put a guest into the machine (its
registers where the table has them, any others in the struct), execute the bytes
at a position, and compare what is left with what the interpreter does.

*Assembler.* A source is a sequence of lines, a line the sequence of its tokens,
as `token()` cuts them; a token is a kind and a value, and a name the sequence of
its bytes. Memory is a function on the addresses written so far, all others hold
`Fill`, what `malloc` left there: the object has gaps that nobody writes (after a
string of odd length, for `.words`), and they go into the file and its
checksum. `main` makes one pass over the lines. Each line is one step: the label,
the relocation, the bytes, `pos`, and its check, in the code's order, so that a
line with an error may leave a relocation behind. What follows the last line is a
step each. `OpenFails` and `WriteFails` are the failures of the file system.

*Linked list.* Pointers are nodes or `Null`, freed nodes leave the domain of
`node`; a call that would follow a pointer outside it is a crash. `ll_destroy`
frees, and `ll_size` counts, the nodes that a walk along `next` comes to
(`Reached`, the smallest set closed under `next`). `Chain` says that a function
from 1..n to nodes lists all of a heap in the order of its links; the items along it
are the abstract list, and the iterator's place in it is the cursor. The allocation
of a node may fail at any time (that of the list or of the iterator does not, below). One iterator exists at a time, and the client calls
`ll_next` after `ll_has_next` said yes, as all callers in the repository do.

## 3. Runs

| run | what it shows | bounds, and why they are enough |
|---|---|---|
| `interpreter` | types; the limit is never passed (`LimitRespected`) and ends every program (`Terminates`); with the debug bit set the last output is the processor as it is (`DumpIsCurrent`) | every program of 3 instructions of an alphabet with all opcodes, an unknown one, jumps to the last byte of memory and back; limits -1 and 3; an image that is too large and one of odd size. Set-up, effect and what follows fit in 3 instructions |
| `register_table` | no register in two slots, slots filled from the top, the most used registers mapped, and the loop ends with the table `VregScan` computes | nine registers used 0 to 2 times: more than there are slots, with every pattern of ties |
| `compiled` | compiled code implements the interpreter (`JitEmulates`), an address is compiled once, the host stack is balanced, the registers are handed over; every program of the run satisfies `Regular`, the hypothesis of the theorem `CompiledImplements` (section 5), in every state | three families: every combination of instructions in a main program and a function that is called twice (first call patches the site, second uses it); all flows of calls, jumps, branches and loops of up to 4 turns between three blocks; the same with `std` or `cld` in any block |
| `compiled_recursion` | host stack and call sites agree in both versions of a recursive function, up to the point where generated code goes astray | depth 1 to 3 with 7 or 8 instructions in each of three places, with and without a jump at the end; jumps past the end after 1 to 4 loads, with and without calls before; branches over blocks of every size |
| `generated_code` | the bytes: they fit, they are what `JitCode` says, jumps stay on the beginnings of instructions, straight code does what the interpreter does, calls, jumps and linked jumps hand over registers, stack and arguments, an overwritten site does what it did (below) | 625 functions |
| `assembler` | which sources are refused, the bytes of every file, and what loading, moving and linking it gives (below) | every source of up to 3 lines of a repertoire of 14, 21 malformed lines, alone and behind a good one, and 18 more: at limits, or with a label named `r20` |
| `tests` | the fifteen repository tests print the characters and dumps of their `.expected` files, in that order and with every register (the text of the instruction beside a dump is left out) | the programs themselves, with a limit of 10000 as `tests/test.sh` passes, and without: then tests 11 and 14, which do not begin with `std`, are compiled |
| `linked_list` | the chain is well linked, nothing leaks or dangles, and every call does and returns what a sequence with a cursor does (`ImplementsList`) | 3 nodes: first, middle and last differ; 2 items |

`generated_code`. The functions: every opcode that stays in the function, with
registers in the table, in the struct or one in each, with the same register
twice, and with the stack pointer; every way to end, in the four versions of
`jit_prepare`'s flags; jumps and branches to every kind of target with 0, 3, 6 and
7 registers in the table; calls and recursion, jumps and calls by register; and
`Longest`, the longest code that 81 instructions can have (14250 bytes: a call has at
most 190). Its bounds, all in `MCJitEmit`: a function is read whole (`MaxSwept`) up to
40 instructions, and executed from its beginning (`FrameSurvives`) up to 14; an
execution has at most 400 or 700 instructions of x64 (`Fuel`), more than any of
these functions takes; calls are recorded and not followed, and what a callee
may overwrite is overwritten. `Host` has addresses below 2^31, since `X64Machine`
keeps numbers of 31 bits. Guests are three: registers all different, with and without a sign bit, and
all the same address. `CodeFitsBuffer` is about functions of up to
`MaxInstructions` = 81: with 90 calls and seven registers in the table the code no
longer fits, and the code has no limit (`jit.c:113`). Left out by name in the
properties are cases of section 4 (`loadb` into its address register when it is
in the table, `push r15`, the flag after `shl`, the byte order of `stor`, jumps to
the word past the end, the branch over seven registers), `pop r15` when r15 is in
the struct (compiled code leaves the word popped, the interpreter that word plus 2)
and division by zero.

`assembler`. `AcceptsExactly`: `main` counts an error somewhere exactly when the
source breaks a rule that `Assembly!Acceptable` states of the whole of it (well
formed lines, one line per label, every label defined or global, branches within a
signed byte, a file that fits). `FileIsTheProgram`: each line is at its address with
its bytes. `TableRoundTrips`: `xreloc_load_table` finds what
`xreloc_store_table` wrote, at any base. `LinksWithLibrary`: loaded behind
each other with a library that calls back, and relocated, both find each other's
labels, or it fails exactly when a name is missing or a branch does not reach; the
result stored and moved does so again. `CodeFitsObject` and `NoInvalidReloc` hold
while lines are read, where nothing is checked before writing. Three lines are
enough for a label, a use and a `.glob` in every order; what needs more (distances
of 127 and 128 in both directions, code and table that just fit into 65536 bytes or
just do not, a branch between two objects) has sources of its own. `Fill` is 170, a
value nothing else has, and files are loaded at 0 and 256.

The programs of `compiled` leave out what section 4 lists; in particular no
function maps so many registers that a branch out of it overflows, `r5`, the
address register, is never the result of an `add` or a `not`, and nothing is
stored with `stor`.

Fairness. `XSim!FairSpec` and `VregSpec` assume weak fairness of their only
process: the operating system lets the program go on. `Terminates` and
`EndsInOrder` need nothing else. The other runs check safety. `EndSpec` adds a
stuttering step for programs that have ended, so that in the runs over
`JitMachine` TLC's deadlock check finds any instruction for which no action is
enabled; `XAs` and `JitEmit` have such a step for their ends too, so that no line and
no instruction is without an action. `interpreter` and `register_table` turn that
check off: their programs and their loop stop.

## 4. Where the code differs from what it says

Four runs expect a violation. Each shows a disagreement between the code and what
a comment, a message or the README says, listed under `findings`:

| run | the code |
|---|---|
| `store` | `stor` writes a word in the host's byte order, `load` reads it in the guest's (`jit.c:502`) |
| `return` | a `ret` of the entry point ends the program, whatever address is on the guest's stack (`jit.c:528`, `main.c:56`) |
| `std_in_recursion` | an `std` inside a recursion hands over stale registers (`jit.c:802`) |
| `words` | the operand of `.words` is tested as a short and used as an int: -65535 passes and moves `pos` backwards, 32768 is refused (`assembler/xas.c:355`; the message says "expecting positive integer") |

The other programs of `MCJitFindings` refute `JitEmulates` in the same way
(`MCJitLeaveRecursion`: `HostStackBalanced`), each with a cfg of its own that is run
by hand (`tlc -config MCJitShift.cfg MCJitFindings`); all were reproduced with the
compiled simulator:

| cfg | the code |
|---|---|
| `MCJitJump` | `jmp` stores r8..r11 after `jump_dynamic` had the right to change them (`jit.c:254`) |
| `MCJitLeaveRecursion` | a jump from a function compiled without preamble into one with an epilogue pops what nobody pushed (`jit.c:841`) |
| `MCJitJumpRegister` | the stores before `jmpr` are overwritten: `gen_ptr` is not advanced (`jit.c:739`) |
| `MCJitCallRegister` | the same for `callr`, and no return address is pushed (`jit.c:755`) |
| `MCJitShift` | `shl` runs on into `cmp` and changes the flag (`jit.c:427`) |
| `MCJitPastTheEnd` | the linker takes a jump to the word after the function for one inside (`linker.c:45`) |
| `MCJitLongBranch` | the distance over a conditional block overflows a `char` with seven mapped registers (`jit.c:731`) |
| `MCJitNoReturnAddress` | a recursive call writes no return address to the guest's stack (`jit.c:316`) |
| `MCJitHighBits` | the carry of a 64-bit add stays in a register used as an address (`jit.c:353`); `not` keeps the upper bits of rax, since `x64_map_xor_reg2reg64` is a 16-bit xor (`jit.c:610`): two programs, so TLC needs `-continue` to show both |
| `MCJitLoadByte` | `loadb` into its address register loads from address 0 (`jit.c:508`) |
| `MCJitPush` | `push r15` swaps the bytes of the stack pointer before using it (`jit.c:583`) |
| `MCJitSelfModifying` | code is translated once and not again when it is overwritten (`jit.c:219`) |

`JitMachine!Regular` is this list as a formula, together with accesses outside guest
memory, which the interpreter refuses and compiled code does not check (`jit.c:491`).
By `CompiledImplements` (section 5) the list is complete: at any other instruction
compiled code does what the interpreter does.

Two more, for a client of the list that calls in any order (module `LinkedList`):
`MCLinkedListAddFront` (`ll_add` before the first `ll_next` follows NULL,
`linkedlist.c:208`, though line 213 has a branch for it) and
`MCLinkedListRemoveTwice` (a second `ll_remove` removes another item,
`linkedlist.c:278`, though line 250 says it returns NULL). `ll_add` after the
last item does not move `tail`; the client of `linked_list` does not add there.

Comments that the bytes do not bear out, without a consequence of their own beyond
those above: `x64_map_xor_reg2reg64` is a 16-bit xor; the comment of the comparing
encoder has its operands the other way round; `ror` is said to rotate "to the
left"; `x64_map_mov_r8_2_m8` (unused) encodes a load; `jit.c:264` counts 36 bytes of
a call site where there are 35, the number that `jit_runtime.c` overwrites. In
a function with a preamble a `jr` that leaves it calls `jump_dynamic` on a stack
that is not aligned to 16 bytes (`jit.c:668`); `FrameSurvives` has all other
functions called on an aligned one. In the version without preamble the alignment
depends on the depth of the recursion.

## 5. Proofs

TLAPS checks every theorem for all values of the constants.

| theorem | property | argument |
|---|---|---|
| `XMemProofs!WriteThenLoad` | a word stored is the word loaded | cases on which of the two bytes is zero, since a memory omits zero bytes |
| `XSimProofs!TypeCorrect` | `TypeOK` | inductive; one step per action of `XcpuExecute`, on the lemmas that every operator of `XIS` and `XMem` stays in a byte or a word |
| `XSimProofs!LimitSafe` | `LimitRespected` | inductive with `limit \in Int`, `count \in Nat` and the guard `WithinLimit` |
| `XSimProofs!DumpSafe` | `DumpIsCurrent` | every action that leaves `result` at "ok" ends in `Retire` (lemma on `Retires`), which prints when the debug bit is set |
| `VregTableProofs!VregTypeCorrect` | `VregTypeOK` | from `TableInv` below: a count is only ever set to 0, and a slot holds a register or none |
| `VregTableProofs!OneSlotEachSafe`, `FilledFromTopSafe`, `MostUsedMappedSafe` | the three properties of the table | `TableInv`: a register has its full count left or is mapped, exactly one of the two; the registers left are used no more than those mapped; the slots are filled from the top. Without the first part a register could be inserted a second time |
| `JitCodeProofs!TranslateCode` | the translation of any memory at any address is its instructions, whole and in order, up to the first that ends a function | numbers instead of data: `Fetches` is a function on `Nat`, defined by recursion and shown to exist (`Iterates`); among the numbers of instructions that end a function there is a least one (`LeastNumber`) |
| `JitCodeProofs!SolveRegionType` | any code's register table maps at most seven registers, none twice | the seven turns of the loop: after turn n the table holds n different registers, or it is finished (`AllNumbers`) |
| `JitCodeProofs!LinkedInside` | a linked jump goes to an instruction of its function | every entry of the container that was written names an instruction, and the walk back from an entry ends at the latest at the first one |
| `JitMachineProofs!JitTypeCorrect` | `JitTypeOK`, for every program | `MachineTyped` with `CacheInv`: every compiled function satisfies `IsFunction`, that is what the three theorems above say of it; `ip` is the instruction of the function `fn`, and every return address on `hstack` is behind a call that is not the function's last instruction. Without `IsFunction` in the invariant nothing is known of the place a linked jump or a `ret` goes to; a function survives in it what the guest does to its memory later, because it is a copy |
| `JitMachineProofs!HostStackSafe` | `HostStackBalanced`, while no jump leaves a recursion (`LeavesRecursion`) | `StackInv`: what is above each return address on `hstack` is what the version of the function running there has pushed (`WellStacked`), down to the bottom, and the current version's part is on top (`OnTop`). The hypothesis is needed: `MCJitLeaveRecursion` violates the property |
| `JitMachineProofs!HandoffSafe` | `HandoffKeepsRegisters`, except for an `std` or `cld` in the version without preamble (`PanicsInRecursion`) | the table maps no register twice, so that storing the mapped registers one after the other leaves each one's own value (`StoredAll`). The hypothesis is needed: the run `std_in_recursion` violates the property |
| `JitEmitProofs!EmitTypeCorrect` | `EmitTypeOK`, for any program, function, flags, host addresses | what the encoders write are bytes, the container's entries are positions in the code or never written, and requests and sites lie in it (`CodeInv`); the table's part is `SolveRegionType` |
| `JitEmitProofs!MatchesJitCodeSafe` | `MatchesJitCode`: what is generated has the instructions, the container and the block sizes that `JitMachine` executes, for any program, function, flags, host addresses | `MatchInv`, below |
| `JitEmitProofs!CodeFitsSafe` | `CodeFitsBuffer`, for any program, function, flags, host addresses and register table | `CodeInv`: the code has at most 156 bytes for the prologue, 193 for each instruction and 161 for the epilogue, and 81 * 193 + 317 = 15950. Linking and overwriting a site keep the length: `CodeInv` also says that each request is at least as long as the jump that will replace it (5 or 24 bytes), each site is 35 bytes long, and both lie inside the code. One lemma per encoder and per part of the code bounds its length |
| `JitEmitProofs!OverwritesInside` | neither the linker nor `call_static` makes the code longer | from the same invariant, as an action property |
| `XAsProofs!CodeFits`, `RelocationsValid` | `CodeFitsObject` and `NoInvalidReloc`, for any source | `XasIInv`: while lines are read, `pos` is even and at most 65536, every byte lies in the object of 65536 + 85, and the table's relocations are at even addresses up to 65538. A line starts at or below 65536 and writes at most 84 + 1 bytes. Needs `NoNegativeWords`: no `.words` has a negative count that passes the test of section 4, without which `pos` moves backwards |
| `XAsProofs!XasTypeCorrect` | `XasTypeOK`, for any source: the object is never left, by a line, by a relocation or by the stored table, and no name has two symbols | `XasIInv` until the table is stored, then `StoredInv`: a relocation writes two bytes at an even address up to 65538; an entry is checked without its name, starts below 65536 less its relocations, and with a name of 80 bytes ends at the byte before the object's last one, where the final zero goes. The folds over symbols and relocations go by induction on the set that is folded (`FoldExists`, `FoldStays`). Needs `NoNegativeWords` and `NamesLeaveRoom`: no name has more than 80 bytes. 80 is exact: with one byte more a source leaves the object (`.words 32764`, then a `.glob` of a name of 81 bytes) |
| `XAsProofs!AcceptsExactlySafe` | `AcceptsExactly`: the assembler rejects exactly the sources that are not acceptable, for any source | `LinesInv`, `TableInv` and `AcceptInv`, below. Needs `NoNegativeWords` and `NoDollar`: no label is named "$", which `token()` (xas.c:147) ensures |
| `LinkedListProofs!ListTypeCorrect`, `ListWellLinked` | `LlTypeOK`, `WellLinked`, for any nodes and items | `LlInv`: types; the heap is one `Chain` with the iterator on it; an iterator that has stepped may set its item. Per call: the chain before it gives one after it (with a node more or less, at the front, at the back or in the middle) |
| `LinkedListProofs!HeapImplementsList` | `ImplementsList`: the heap with its iterator implements a sequence with a cursor | a heap has only one chain (`OneChain`), so that the refinement mapping is determined; each call's new chain, read as items, is what `ItemList` says of the call |
| `JitMachineProofs!CompiledImplements` | `JitEmulates`, for every program, as long as compiled code stays `Regular` | below |
| `JitMachineProofs!CompiledOnceSafe`, `PatchedSitesAgreeSafe` | the cache and the call sites | `CacheInv`: besides the two properties, `fn`, every return address on `hstack` and every patched site name compiled functions (`RunningKnown`, `FramesKnown`, `SitesKnown`). A call site's function can only be compared with the cache if all of these survive the growth of `fns`, and a function, once compiled, keeps its address and its code |

*The refinement.* `CompiledImplements` says `JitSpec /\ []Regular => JitEmulates`. Its
invariant is `Emulates`: `CacheInv`, `MachineTyped` and `StackInv` of the theorems
above, and `ModeInv` (`NoZeroByte`: a memory omits zero bytes, so that two equal
memories are one function; a program that hands over is at the `std` or `cld` it
is handed over for). The initial states map by `InitAgrees`; a step is one of the
interpreter, or none for the `std` that compiled code leaves to main
(`PanicStutters`). `StepAgrees` collects one lemma for each action of `JitMachine`
(`LoadIAgrees` to `InvalidAgrees`, and `InterpretAgrees` for main's interpreter). Under
them lie three layers: `AtGuest`, that compiled code is at the instruction the
interpreter fetches (from `UpToDate`); `GuestWrite`, `GuestAdvance` and their
relatives, that writing a host register writes the guest's and that the function's
next entry is the next instruction (from `IsFunction`); `GuestStarts`,
`GuestJumpsAway` and `CallSiteAddress`, that what is compiled or cached or patched
starts at the address meant, with the registers of the struct. A `ret` needs
`StackInv`: whether the caller loads its registers again is decided by the
version that returns, and is right exactly when the two versions are paired as
`WellStacked` says (`RetReloads`). The operators of the instance are shown to be the
module's own (`SameOpcodes` to `SameResults`, `SameExecute`).

The parts of `Regular`, each the condition under which the code's case is harmless and
not the case itself:

| part | excludes | line |
|---|---|---|
| `StaysInside` | an access outside guest memory, by the interpreter or by an address with something above its 16 bits | `jit.c:491`, 353, 610 |
| `UpToDate` | an instruction overwritten after it was translated | `jit.c:219` |
| `DataAgrees` | `stor` of a word with two different bytes; `shl` that leaves another flag; `loadb` through its own register when that loads another byte; `push r15`; `pop r15` with r15 in the struct | `jit.c:502`, 427, 508, 583, 648 |
| `BranchAgrees` | a relative jump to the word past the end or into an instruction; a branch not taken whose distance overflows | `linker.c:45`, `jit.c:731` |
| `CallAgrees` | `jmp` with a mapped register in r8..r11; `jmpr` with registers not in the struct; `callr`; a recursive call unless memory already holds the return address; a `ret` to another address than the host returns to | `jit.c:254`, 739, 755, 316, 528 |
| `RecursionAgrees` | leaving the version without preamble by a jump, or by `std` or `cld` with registers not in the struct | `jit.c:841`, 802 |

The programs of `MCJitFindings` show that what is excluded does disagree, case by
case; the run `compiled`, in which `Regular` is an invariant, that programs of all
the shapes it covers meet none of them.

*The generated code and the machine's code.* `JitMachine` executes the function
that `JitCode` says is compiled; `JitEmit` generates the bytes. `MatchesJitCode` says
that they are the same function, and `MatchInv` is the invariant of the loop of
`compile_instructions`: `pc` is where the translation fetches its next instruction,
and the container has an entry for each word that was read. That the loop ends with the same
instruction is not said by its guard: it goes on to the end of the region, and
`jit_prepare` is left at the first instruction that ends a function or, without one,
where addresses repeat; that there is such a place within the words of memory is a
pigeonhole argument (`FirstEndInWord`). Two entries of the container are equal
exactly when they are of one extended instruction, since every instruction before the last
generates at least one byte (`TranslateGoes`), and the sizes of conditional
blocks are the exact lengths of the pieces (`BlockLength`, `BranchLength`, `SizedRequests`).

*What the assembler accepts.* `main` finds errors one at a time: in a line, in a
second label of one name, in `xreloc_relocate` and in `xreloc_store_table`;
`Acceptable` speaks of the whole source. Three invariants lead from one to the other.
`LinesInv`: while lines are read there is no error exactly if the lines so far are good, and a
name has a place in the table exactly if one of them has defined it. `TableInv`: then
`pos` is the sum of their lengths (`Address`), and the table `Matches` them: a
symbol for every name that is a label, is made global or is used, the label's address as its
place, and one relocation for each use, at the use's address (`Lists`, a bijection).
`AcceptInv`: after `xreloc_relocate` there is no error exactly if also the uses are
good, and the table, with "$", has the names and numbers of relocations that
`FileSize` counts (`TableListed`); after `xreloc_store_table` there is none exactly if
the source is acceptable. That relocating fails exactly for a use without a place or out of
reach (`RelocateDone`), and that storing fails exactly if the file is larger than the
memory (`StoredSize`), are inductions over the sets that the two folds go through: each
symbol's failure, and the number of base relocations it adds, is independent of the
others', and so is an entry's length. Two things were needed to get there. A program that
is too large stops being read in the middle, so that `TableInv` then only says that `pos` is
at most the size of the code. And the room that `xreloc_store_table` checks for an entry leaves
out its name (xreloc.c:213), so that an entry can end behind the memory; the file is rejected
all the same, because the test behind the loop has the whole length: `StoreFits` says so of
the table, for entries that end anywhere.

Some of these need induction: that a chain's nodes are all reached, that a heap has
one chain, and what the recursive functions of `VregScan` and `JitCode` give
after n turns. The library's induction theorems take an operator as a parameter, which
the provers here cannot instantiate; the proofs go through the least element of a
set of numbers instead (`Least` and `UpTo` in `LinkedListProofs`, `LeastNumber`
and `AllNumbers` in `JitCodeProofs` and `XAsProofs`, from `WFMin` and
`NatLessThanWellFounded`); on these rest `FoldExists` and `FoldStays`, the facts about
folds that the proofs about `XReloc` use, and `SmallSets`, induction over the subsets of
a finite set.

The bounds of `CodeFitsSafe` do not use what `SolveRegion` gives: they hold for any
entries of the register table.

Assumptions: `PhysSizeAssumption`, `XSimAssumption`, `VregAssumption`,
`JitAssumption`, `EmitAssumption`, `FillAssumption`, `ProgramsAssumption` and
`NodeAssumption` as declared in the modules; each is evaluated by a run.
`NoNegativeWords` is a hypothesis of the theorems of `XAsProofs`, `NamesLeaveRoom`
one of `XasTypeCorrect` and `NoDollar` one of `AcceptsExactlySafe`; every source of the
run `assembler` satisfies all three. `[][~LeavesRecursion]_vars` and
`[][~PanicsInRecursion]_vars` are hypotheses on the behaviour in `HostStackSafe` and
`HandoffSafe`; every program of the runs `compiled` and `compiled_recursion` whose
cfg names the property is a case they cover. `[]Regular` is the hypothesis of
`CompiledImplements`; the run `compiled` checks it for its programs. A program
that satisfies it leaves no recursion by a jump (`RegularRecursion`), so the
theorem does not need the other two.

Only model-checked:

- `Terminates` and `EndsInOrder`: liveness under fairness.
- `FlowStaysOnInstructions`, `FrameSurvives`,
  `StraightCodeAgrees`, `CallsHandOver`, `SitesKeepTheirSize`, `JumpsHandOver`,
  `LinkedJumpsArrive`: they execute code, a recursion over its length, and have the
  exceptions of section 4.
- `FileIsTheProgram`, `TableRoundTrips`, `LinksWithLibrary`: which bytes the folds of
  `XReloc` over symbols and relocations leave in memory, and what loading reads back.
- `TestsPass`: fifteen programs, run to their ends.

## 6. Not modelled, and the plan

Not modelled:

- `token()` (`assembler/xas.c`): how a line of text becomes tokens, with its escapes
  and number formats. A mnemonic or a number is given as the token it becomes.
  Of what `token()` leaves behind only the number in a label named r16 to r99 is
  kept (`NumberIn`): it is in the file until a global label of that name is linked.
- `linkedlist.c`: a refused allocation of the list (line 23) or of the iterator
  (172), and the size of the list's block, that of one pointer (22), which is enough
  only because allocators round it up.
- `vreg_table.c:24`: the counts of uses are shorts and numbers without bound in
  `VregScan` and `VregTable`. No property says anything of a function so long that
  they overflow.
- The nine encoders of `x64_codegen.c` that nobody calls.
- `xcpuprnt.c`'s layout of text, the dump files that debug builds write
  (`jit_runtime.c`), messages, usage and argument parsing.
- `src/xsim1/`: the files that are the same as in `xsim2` are covered by their
  models (`map` names the lines of `xsim2`); its `xcpu.c` is not in the tree.
- `vreg_table.c:81`'s write to `counts[-1]`; build files; the benchmarks, which take
  millions of steps.

Bounds of the model that the code does not have: `instruction_count` is kept at 0
without a limit, so its overflow is left out; `X64Machine`'s numbers have 31
bits; the list has one iterator at a time; addresses of the object are those of one
file, below 65536 + 85.

Done, in this order: `XIS`, `XMem`, `XCpu`, `XSim` and their proofs; `VregScan`,
`VregTable` and proofs; `JitCode`, `JitMachine`, the refinement to `XSim`, and
the proof about the cache; `LinkedList`; `XReloc`, `XAs`, `Assembly` and proofs;
`X64`, `JitEmit`, `X64Machine` and the proof that the code fits; the refinement of
`LinkedList` to `ItemList` proved; types and host stack of `JitMachine`, and its
refinement to `XSim`, proved; `MatchesJitCode`, the types of the
assembler and which sources it accepts proved.

What would come next:

1. `XAsProofs`: `FileIsTheProgram`. `TableInv` already says where each use is; what is
   missing is that lines, relocations and entries leave the other lines' bytes alone.
2. `LinkedContains`: a linked jump goes to the instruction whose words hold its target,
   which would reduce `BranchAgrees` to "not into an instruction".
3. A model of `token()` as a function from a line of characters to tokens, in front
   of `XAs`.
