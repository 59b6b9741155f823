------------------------------ MODULE M68kBits ------------------------------
(***************************************************************************)
(* The shift, rotate, single-bit and bit-field handlers of                 *)
(* src/mushashi/m68k_in.c.  The register forms take the count modulo 8*BB  *)
(* (0x3f on the 68020), the immediate forms 1..BB, the memory forms 1.     *)
(***************************************************************************)
EXTENDS M68kAlu, FiniteSetsExt

Width(sz) == BB * sz

Bit(v, k) == (v \div 2 ^ k) % 2 = 1

\* m68ki_shift_8/16/32_table: the n top bits; all of them from the width on.
TopBits(sz, n) == IF n >= Width(sz) THEN Mod(sz) - 1
                  ELSE Mod(sz) - 2 ^ (Width(sz) - n)

\* ROR_8 .. ROR_33 and ROL_8 .. ROL_33 on w bits, n < w.
RotR(v, n, w) == (v \div 2 ^ n) + (v % 2 ^ n) * 2 ^ (w - n)

RotL(v, n, w) == ((v * 2 ^ n) % 2 ^ w) + v \div 2 ^ (w - n)

\* What a shift by n >= 1 gives: result, bit shifted out, overflow.
AsrOf(sz, s, n) ==
    IF n < Width(sz)
    THEN [r |-> s \div 2 ^ n + (IF NFlag(Half(sz), s) THEN TopBits(sz, n) ELSE 0),
          c |-> Bit(s, n - 1), v |-> FALSE]
    ELSE [r |-> IF NFlag(Half(sz), s) THEN Mod(sz) - 1 ELSE 0,
          c |-> NFlag(Half(sz), s), v |-> FALSE]

\* Mutant: V compares the sign before and after, not the bits in between.
AslByEnds(sz, s, n) ==
    IF n < Width(sz)
    THEN [r |-> (s * 2 ^ n) % Mod(sz), c |-> Bit(s, Width(sz) - n),
          v |-> NFlag(Half(sz), s) # NFlag(Half(sz), s * 2 ^ n)]
    ELSE [r |-> 0, c |-> n = Width(sz) /\ Bit(s, 0), v |-> s # 0]

\* V when the bits that pass through the sign are not all alike.
AslOf(sz, s, n) ==
    IF n < Width(sz)
    THEN [r |-> (s * 2 ^ n) % Mod(sz), c |-> Bit(s, Width(sz) - n),
          v |-> (s & TopBits(sz, n + 1)) \notin {0, TopBits(sz, n + 1)}]
    ELSE [r |-> 0, c |-> n = Width(sz) /\ Bit(s, 0), v |-> s # 0]

LsrOf(sz, s, n) ==
    IF n <= Width(sz)
    THEN [r |-> s \div 2 ^ n, c |-> Bit(s, n - 1), v |-> FALSE]
    ELSE [r |-> 0, c |-> FALSE, v |-> FALSE]

LslOf(sz, s, n) ==
    IF n <= Width(sz)
    THEN [r |-> (s * 2 ^ n) % Mod(sz), c |-> Bit(s, Width(sz) - n), v |-> FALSE]
    ELSE [r |-> 0, c |-> FALSE, v |-> FALSE]

RorOf(sz, s, n) ==
    LET w == Width(sz)
        m == n % w
    IN  [r |-> RotR(s, m, w), c |-> Bit(s, (m - 1) % w), v |-> FALSE]

\* A byte or word turned right round has C from its lowest bit; for a long
\* the code shifts the bit away: (src >> (32 - 0)) << 8.
RolOf(sz, s, n) ==
    LET w == Width(sz)
        m == n % w
    IN  [r |-> RotL(s, m, w), v |-> FALSE,
         c |-> IF m # 0 THEN Bit(s, w - m) ELSE sz # 4 /\ Bit(s, 0)]

\* X is one more bit of the number rotated, and C is the new X.
RoxOf(left, sz, s, n, x) ==
    LET w == Width(sz)
        wide == s + (IF x THEN 2 ^ w ELSE 0)
        r == IF left THEN RotL(wide, n % (w + 1), w + 1)
             ELSE RotR(wide, n % (w + 1), w + 1)
    IN  [r |-> r % 2 ^ w, c |-> Bit(r, w), v |-> FALSE]

ShiftOf(kind, sz, s, n, x) ==
    CASE kind = "asr" -> AsrOf(sz, s, n)
      [] kind = "asl" -> AslOf(sz, s, n)
      [] kind = "lsr" -> LsrOf(sz, s, n)
      [] kind = "lsl" -> LslOf(sz, s, n)
      [] kind = "ror" -> RorOf(sz, s, n)
      [] kind = "rol" -> RolOf(sz, s, n)
      [] kind = "roxr" -> RoxOf(FALSE, sz, s, n, x)
      [] kind = "roxl" -> RoxOf(TRUE, sz, s, n, x)

\* A count of zero changes no X and clears C, which ROXL and ROXR set to X.
Shifted(kind, l, s, n, o) ==
    IF n = 0
    THEN [LogicFlags(l.c, IR.sz, s) EXCEPT !.c = kind \in {"roxl", "roxr"} /\ l.c.x]
    ELSE [Moved(l.c, l.at, IR.sz, o.r) EXCEPT
             !.c = o.c, !.v = o.v, !.x = IF kind \in {"rol", "ror"} THEN @ ELSE o.c]

ShiftBy(kind, l, s, n) == Shifted(kind, l, s, n, ShiftOf(kind, IR.sz, s, n, l.c.x))

ShiftAt(kind, l) ==
    ShiftBy(kind, l, Get(l.c, l.at, IR.sz),
            IF IR.form = "r" THEN l.c.d[IR.x] % (8 * BB) ELSE IR.q)

Shift(kind) == Is(kind) /\ Run(ShiftAt(kind, Loc(Fetched, IR.ea, IR.sz)))

Asr == Shift("asr")

Asl == Shift("asl")

Lsr == Shift("lsr")

Lsl == Shift("lsl")

Ror == Shift("ror")

Rol == Shift("rol")

Roxr == Shift("roxr")

Roxl == Shift("roxl")

\* BTST, BCHG, BCLR and BSET: bit number modulo the width of a long register
\* or of a byte in memory; an immediate number is read before the operand.
ChangeBit(kind, l, sz, k, v) ==
    LET on == Bit(v, k)
        r == CASE kind = "bchg" -> IF on THEN v - 2 ^ k ELSE v + 2 ^ k
               [] kind = "bclr" -> IF on THEN v - 2 ^ k ELSE v
               [] kind = "bset" -> IF on THEN v ELSE v + 2 ^ k
               [] kind = "btst" -> v
    IN  [Put(l.c, l.at, sz, r) EXCEPT !.z = ~on]

BitAt(kind, l, sz, n) == ChangeBit(kind, l, sz, n % Width(sz), Get(l.c, l.at, sz))

BitOp(kind) ==
    LET n == IF IR.form = "s" THEN ReadImm(Fetched, 1) ELSE FromReg
        sz == IF IR.ea.m = "d" THEN 4 ELSE 1
    IN  Is(kind) /\ Run(BitAt(kind, Loc(n.c, IR.ea, sz), sz, n.v))

Bchg == BitOp("bchg")

Bclr == BitOp("bclr")

Bset == BitOp("bset")

Btst == BitOp("btst")

(***************************************************************************)
(* Bit fields.  The second word e: offset off (a register's if offreg),    *)
(* width w (a register's if wreg) and r, the register extracted to or      *)
(* inserted from.  The offset counts from the top bit; in memory it is     *)
(* signed and unlimited, and the truncating / and % of the code with their *)
(* correction are \div and %.                                              *)
(***************************************************************************)
LW == 4 * BB

FieldOffset(c, e) == IF e.offreg THEN c.d[e.off] ELSE e.off

\* Mutant: a width of 32 is not the 0 of its five bits.
WidthAsGiven(c, e) == (IF e.wreg THEN c.d[e.w] ELSE e.w) % LW

FieldWidth(c, e) == (((IF e.wreg THEN c.d[e.w] ELSE e.w) - 1) % LW) + 1

\* mask_base: the w top bits of a long.
FieldMask(w) == TopBits(4, w)

\* Where the field is: a register, or a long in memory and perhaps the byte
\* after it; off is the offset in the long, o the offset as given.
FieldIn(c, e, reg, at, o, off, w) ==
    [c |-> c, e |-> e, inReg |-> reg, at |-> at, o |-> o, off |-> off, w |-> w,
     spill |-> ~reg /\ off + w > LW,
     long |-> IF reg THEN c.d[at] ELSE Read(c, at, 4),
     mask |-> IF reg THEN RotR(FieldMask(w), off, LW) ELSE FieldMask(w) \div 2 ^ off]

FieldInReg(c, e, o) == FieldIn(c, e, TRUE, IR.ea.r, o, o, FieldWidth(c, e))

FieldInMem(l, e, o) ==
    FieldIn(l.c, e, FALSE, Wrap(l.at + o \div BB), o, o % BB, FieldWidth(l.c, e))

Field ==
    LET w == ReadExt(Fetched)
    IN  IF IR.ea.m = "d" THEN FieldInReg(w.c, w.v, FieldOffset(w.c, w.v) % LW)
        ELSE FieldInMem(Ea(w.c, IR.ea, 1), w.v, Signed(Half(4), FieldOffset(w.c, w.v)))

\* The bits of the field in the fifth byte: the low byte of mask_base.
SpillMask(f) == FieldMask(f.w) % Mod(1)

NewBits(kind, v, mask, ins) ==
    CASE kind = "bfchg" -> v ^^ mask
      [] kind = "bfclr" -> v - (v & mask)
      [] kind = "bfset" -> v | mask
      [] kind = "bfins" -> (v - (v & mask)) | ins
      [] kind = "bftst" -> v

\* The new fifth byte.
Spill(kind, f, c, b, ins) ==
    IF f.spill
    THEN Write([c EXCEPT !.z = @ /\ (b & SpillMask(f)) = 0],
               f.at + 4, 1, NewBits(kind, b, SpillMask(f), ins))
    ELSE c

\* The new long, then the new fifth byte.
PutField(kind, f, c, insLong, insByte) ==
    LET new == NewBits(kind, f.long, f.mask, insLong)
        c1 == IF f.inReg THEN [c EXCEPT !.d[f.at] = new] ELSE Write(c, f.at, 4, new)
    IN  Spill(kind, f, c1, IF f.spill THEN Read(c1, f.at + 4, 1) ELSE 0, insByte)

\* BFCHG, BFCLR, BFSET, BFTST: N and Z are of the old field.
ChangeField(kind, f) ==
    PutField(kind, f, [f.c EXCEPT !.n = Bit(f.long, LW - 1 - f.off),
                                  !.z = (f.long & f.mask) = 0, !.v = FALSE, !.c = FALSE],
             0, 0)

FieldOp(kind) == Is(kind) /\ Run(ChangeField(kind, Field))

Bfchg == FieldOp("bfchg")

Bfclr == FieldOp("bfclr")

Bfset == FieldOp("bfset")

Bftst == FieldOp("bftst")

\* The field at the top of a long, followed by what comes after it.
FieldData(f) ==
    IF f.inReg THEN RotL(f.long, f.off, LW)
    ELSE ((f.long * 2 ^ f.off) % Mod(4))
         + (IF f.spill THEN (Read(f.c, f.at + 4, 1) * 2 ^ f.off) \div Mod(1) ELSE 0)

\* The register is loaded with r; data is the field as a number.
Extracted(f, top, data, r) ==
    Put([f.c EXCEPT !.n = NFlag(Half(4), top), !.z = data = 0, !.v = FALSE, !.c = FALSE],
        D(f.e.r), 4, r)

Unsigned(f, top) == top \div 2 ^ (LW - f.w)

ExtractU(f, top) == Extracted(f, top, Unsigned(f, top), Unsigned(f, top))

ExtractS(f, top) ==
    Extracted(f, top, Unsigned(f, top), Signed(Half(4), top) \div 2 ^ (LW - f.w))

\* The offset of the first one bit, or that after the field; in memory it
\* counts from the offset as given.
FindFirst(f, top) ==
    LET ones == {k \in 0 .. f.w - 1 : Bit(top, LW - 1 - k)}
    IN  Extracted(f, top, Unsigned(f, top), f.o + Min(ones \cup {f.w}))

ExtractUOf(f) == ExtractU(f, FieldData(f))

ExtractSOf(f) == ExtractS(f, FieldData(f))

FindFirstOf(f) == FindFirst(f, FieldData(f))

Bfextu == Is("bfextu") /\ Run(ExtractUOf(Field))

Bfexts == Is("bfexts") /\ Run(ExtractSOf(Field))

Bfffo == Is("bfffo") /\ Run(FindFirstOf(Field))

\* N and Z are of the value inserted.
InsertBase(f, base) ==
    PutField("bfins", f, LogicFlags(f.c, 4, base),
             IF f.inReg THEN RotR(base, f.off, LW) ELSE base \div 2 ^ f.off, base % Mod(1))

Insert(f) == InsertBase(f, (f.c.d[f.e.r] * 2 ^ (LW - f.w)) % Mod(4))

Bfins == Is("bfins") /\ Run(Insert(Field))
=============================================================================
