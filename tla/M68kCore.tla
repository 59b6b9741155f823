------------------------------ MODULE M68kCore ------------------------------
(***************************************************************************)
(* The register file, memory and addressing modes of the 68020 emulator:   *)
(* m68kcpu.h up to "Program Flow", the execute loop of m68kcpu.c and the   *)
(* accessors of memory.i.                                                   *)
(*                                                                         *)
(* A byte has BB bits and a word and a long two and four bytes, so BB = 8  *)
(* is the 68020 and a smaller BB is the same code on narrower integers;    *)
(* every constant of the source that is a width (8, 16, 32, the shift mask  *)
(* 0x3f, the bit-field mask 0x1f) is written in terms of BB.  Code is a    *)
(* sequence of words from Org on, apart from the data: an opcode or a      *)
(* structured extension word is a record of its decoded fields, any other  *)
(* word a number.                                                          *)
(***************************************************************************)
EXTENDS M68kArith, Sequences

CONSTANTS BB,           \* bits in a byte
          Org,          \* where programs are loaded
          Programs,     \* name -> the words of a program
          Starts        \* name -> the cpus it may start with

ASSUME BBAssumption == BB \in Nat \ {0} /\ Org \in Nat

VARIABLES cpu,          \* registers, flags, memory and the exception raised
          prog,         \* the name of the program that runs
          code,         \* its words
          start         \* the cpu it started with

vars == <<cpu, prog, code, start>>

Mod(sz) == 2 ^ (BB * sz)

Half(sz) == 2 ^ (BB * sz - 1)

Wrap(n) == n % Mod(4)

\* No exception: vector 0 is that of a reset, which no handler raises.
None == 0

InCode(pc) == pc >= Org /\ (pc - Org) \div 2 < Len(code)

WordAt(pc) == code[((pc - Org) \div 2) + 1]

\* m68k_execute: the opcode at the program counter.  A run ends after the
\* last word of its program or at an exception.
IR == IF cpu.exc = None /\ InCode(cpu.pc) THEN WordAt(cpu.pc) ELSE [op |-> "end"]

\* m68ki_read_imm_16, and in m68k_execute the fetch of the opcode itself.
Fetched == [cpu EXCEPT !.pc = Wrap(@ + 2)]

\* m68ki_read_imm_8/16/32: a byte is the low part of a word.
ReadImm(c, sz) ==
    IF sz = 4
    THEN [c |-> [c EXCEPT !.pc = Wrap(@ + 4)],
          v |-> WordAt(c.pc) * Mod(2) + WordAt(Wrap(c.pc + 2))]
    ELSE [c |-> [c EXCEPT !.pc = Wrap(@ + 2)], v |-> WordAt(c.pc) % Mod(sz)]

\* A structured extension word is read like any other.
ReadExt(c) == [c |-> [c EXCEPT !.pc = Wrap(@ + 2)], v |-> WordAt(c.pc)]

\* m68k_read_memory_8/16/32: big endian, no alignment needed.
RECURSIVE Read(_, _, _)
Read(c, at, sz) ==
    IF sz = 1 THEN c.mem[Wrap(at)]
    ELSE Read(c, at, sz \div 2) * Mod(sz \div 2) + Read(c, at + sz \div 2, sz \div 2)

\* m68k_write_memory_8/16/32.
Write(c, at, sz, v) ==
    [c EXCEPT !.mem = [k \in DOMAIN @ |->
        LET o == Wrap(k - at)
        IN  IF o < sz THEN (v \div Mod(sz - 1 - o)) % Mod(1) ELSE @[k]]]

\* Mutant: a byte pushed moves A7 by one.
OddStack(r, sz) == sz

\* EA_AY_PI and EA_AY_PD, with EA_A7_PI_8 and EA_A7_PD_8 which keep A7 even.
Stride(r, sz) == IF r = 7 /\ sz = 1 THEN 2 ELSE sz

\* The index register of m68ki_get_ea_ix: REG_DA[e.xn], data registers first.
Index(c, e) ==
    LET r == IF e.xn < 8 THEN c.d[e.xn] ELSE c.a[e.xn - 8]
    IN  (IF e.long THEN r ELSE Signed(Half(2), r)) * 2 ^ e.scale

\* A displacement of the full extension format: absent, a word or a long.
ReadDisp(c, sz) ==
    IF sz = 0 THEN [c |-> c, v |-> 0]
    ELSE LET w == ReadImm(c, sz) IN [w EXCEPT !.v = Signed(Half(sz), @)]

\* The full extension format: base an and index xn, either perhaps suppressed,
\* base displacement bd, and memory indirection with outer displacement od.
EaFull(e, an, xn, bd, od) ==
    CASE ~e.ind -> [c |-> bd.c, at |-> Wrap(an + bd.v + xn)]
      [] e.ind /\ e.post -> [c |-> od.c, at |-> Wrap(Read(od.c, an + bd.v, 4) + xn + od.v)]
      [] e.ind /\ ~e.post -> [c |-> od.c, at |-> Wrap(Read(od.c, an + bd.v + xn, 4) + od.v)]

\* m68ki_get_ea_ix on a 68020, c the cpu after the extension word e.
EaIxOf(c, e, base) ==
    IF ~e.full THEN [c |-> c, at |-> Wrap(base + Index(c, e) + e.disp)]
    ELSE LET bd == ReadDisp(c, e.bd)
         IN  EaFull(e, IF e.bs THEN 0 ELSE base, IF e.is THEN 0 ELSE Index(c, e),
                    bd, ReadDisp(bd.c, e.od))

EaIx(c, base) == LET w == ReadExt(c) IN EaIxOf(w.c, w.v, base)

\* EA_AY_DI, EA_AW and EA_PCDI: a word added to a base.
EaDisp(w, base) == [c |-> w.c, at |-> Wrap(base + Signed(Half(2), w.v))]

\* The EA_ macros: the address of a memory operand.
Ea(c, ea, sz) ==
    CASE ea.m = "ai" -> [c |-> c, at |-> c.a[ea.r]]
      [] ea.m = "pi" -> [c |-> [c EXCEPT !.a[ea.r] = Wrap(@ + Stride(ea.r, sz))],
                         at |-> c.a[ea.r]]
      [] ea.m = "pd" -> [c |-> [c EXCEPT !.a[ea.r] = Wrap(@ - Stride(ea.r, sz))],
                         at |-> Wrap(c.a[ea.r] - Stride(ea.r, sz))]
      [] ea.m \in {"ix", "pcix"} -> EaIx(c, IF ea.m = "ix" THEN c.a[ea.r] ELSE c.pc)
      [] ea.m = "al" -> LET w == ReadImm(c, 4) IN [c |-> w.c, at |-> w.v]
      [] ea.m \in {"di", "aw", "pcdi"} ->
            EaDisp(ReadImm(c, 2), CASE ea.m = "di" -> c.a[ea.r]
                                    [] ea.m = "aw" -> 0
                                    [] ea.m = "pcdi" -> c.pc)

InMemory(e) == [c |-> e.c, at |-> [m |-> "mem", r |-> e.at]]

\* Where an operand is: a data register, an address register or memory.
Loc(c, ea, sz) ==
    IF ea.m \in {"d", "a"} THEN [c |-> c, at |-> ea]
    ELSE InMemory(Ea(c, ea, sz))

Get(c, at, sz) ==
    CASE at.m = "d" -> c.d[at.r] % Mod(sz)
      [] at.m = "a" -> c.a[at.r] % Mod(sz)
      [] at.m = "mem" -> Read(c, at.r, sz)

\* MASK_OUT_BELOW_8/16 keeps the rest of a data register.
Put(c, at, sz, v) ==
    CASE at.m = "d" -> [c EXCEPT !.d[at.r] = (@ - (@ % Mod(sz))) + (v % Mod(sz))]
      [] at.m = "a" -> [c EXCEPT !.a[at.r] = Wrap(v)]
      [] at.m = "mem" -> Write(c, at.r, sz, v)

At(l, sz) == [c |-> l.c, v |-> Get(l.c, l.at, sz)]

\* The OPER_ macros: the value of a source operand.
Oper(c, ea, sz) ==
    IF ea.m = "i" THEN ReadImm(c, sz)
    ELSE At(Loc(c, ea, sz), sz)

\* m68ki_push_16/32 and m68ki_pull_16/32.
Push(c, sz, v) ==
    LET sp == Wrap(c.a[7] - sz) IN Write([c EXCEPT !.a[7] = sp], sp, sz, v)

Pull(c, sz) ==
    [c |-> [c EXCEPT !.a[7] = Wrap(@ + sz)], v |-> Read(c, c.a[7], sz)]

\* m68ki_get_ccr and m68ki_set_ccr.
GetCcr(c) == LET bit(b, k) == IF b THEN 2 ^ k ELSE 0
             IN  bit(c.x, 4) + bit(c.n, 3) + bit(c.z, 2) + bit(c.v, 1) + bit(c.c, 0)

SetCcr(c, w) == LET bit(k) == (w \div 2 ^ k) % 2 = 1
                IN  [c EXCEPT !.x = bit(4), !.n = bit(3), !.z = bit(2),
                              !.v = bit(1), !.c = bit(0)]

\* A handler that raises an exception: m68ki_exception_trap and the like.
\* What the exception does is the business of M68kExc.
Raise(c, vector) == [c EXCEPT !.exc = vector]

Is(op) == IR.op = op

\* The handler is done: the next opcode is fetched from the new pc.
Run(c) == cpu' = c /\ UNCHANGED <<prog, code, start>>

\* The program is over.
End == Is("end") /\ UNCHANGED vars

Init == /\ prog \in DOMAIN Programs
        /\ code = Programs[prog]
        /\ cpu \in Starts[prog]
        /\ start = cpu
=============================================================================
