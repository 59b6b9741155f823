------------------------------- MODULE MCCpu -------------------------------
(***************************************************************************)
(* Programs for M68kCpu and what they must compute.  A program's name has  *)
(* its family fam, the instruction op it is about, an operand size sz and  *)
(* how the operands are reached; it starts from every combination of the   *)
(* operand values listed, all values of a byte or the edges of a size,     *)
(* and its family's property relates the cpu at the end of the program to  *)
(* the cpu at its start.                                                   *)
(***************************************************************************)
EXTENDS M68kCpu, TLC

C0 == [d |-> [r \in 0..7 |-> 0], a |-> [r \in 0..7 |-> 0], pc |-> Org,
       x |-> FALSE, n |-> FALSE, z |-> FALSE, v |-> FALSE, c |-> FALSE,
       mem |-> [k \in 0..31 |-> 0], exc |-> None]

\* A cpu with some data registers, address registers and longs of memory set.
Cpu(d, a) == [C0 EXCEPT !.d = d @@ @, !.a = a @@ @]

Edges(sz) == {0, 1, Half(sz) - 1, Half(sz), Mod(sz) - 1}

Vals(sz) == IF sz = 1 THEN 0 .. Mod(1) - 1 ELSE Edges(sz)

\* A value of sz bytes in a register that holds something above it.
Junk(sz, v) == IF sz = 4 THEN v ELSE v + 5 * Mod(sz)

AI(r) == [m |-> "ai", r |-> r]

Imm == [m |-> "i", r |-> 0]

Words(sz, v) == IF sz = 4 THEN <<v \div Mod(2), v % Mod(2)>> ELSE <<v>>

Er(op, sz, ea, x) == [op |-> op, sz |-> sz, ea |-> ea, x |-> x]

Move(sz, ea, dst) == [op |-> "move", sz |-> sz, ea |-> ea, dst |-> dst]

Quickly(op, sz, ea, q) == [op |-> op, sz |-> sz, ea |-> ea, q |-> q]

Branch(op, cc, disp) == [op |-> op, sz |-> 1, cc |-> cc, disp |-> disp]

Set(cc, r) == [op |-> "scc", ea |-> D(r), cc |-> cc]

ToCcr(w) == <<[op |-> "move_toc", ea |-> Imm], w>>

FrCcr(r) == <<[op |-> "move_frc", ea |-> D(r)]>>

Id(fam, ops, szs, hows) ==
    {[fam |-> fam, op |-> o, sz |-> s, how |-> h] : o \in ops, s \in szs, h \in hows}

Over(fam) == Is("end") /\ prog.fam = fam

(***************************************************************************)
(* Numbers of two limbs: source d2:d0, destination d3:d1; in memory the    *)
(* source is at 8 and the destination at 24.  imm and quick have a source  *)
(* limb that is part of the code.                                          *)
(***************************************************************************)
ChainIds == Id("chain", {"add", "sub"}, {1, 4}, {"rr", "mm"})
            \cup Id("chain", {"add", "sub"}, {1}, {"re", "imm", "quick"})
            \cup Id("chain", {"neg"}, {1, 4}, {"rr"})

ChainImm(p) == IF p.how = "imm" THEN Half(p.sz) + 1 ELSE 3

ChainCode(p) ==
    LET xrr == [op |-> p.op \o "x_rr", sz |-> p.sz, y |-> 2, x |-> 3]
        xmm == [op |-> p.op \o "x_mm", sz |-> p.sz, y |-> 0, x |-> 1]
    IN  CASE p.op = "neg" -> <<Er("neg", p.sz, D(1), 0), Er("negx", p.sz, D(3), 0)>>
          [] p.how = "mm" -> ToCcr(4) \o <<xmm, xmm>>
          [] OTHER ->
               CASE p.how = "rr" -> <<Er(p.op \o "_er", p.sz, D(0), 1), xrr>>
                 [] p.how = "re" -> <<Er(p.op \o "_re", p.sz, AI(0), 0),
                                      Move(p.sz, AI(0), D(1)), xrr>>
                 [] p.how = "imm" -> <<Er(p.op \o "i", p.sz, D(1), 0)>>
                                     \o Words(p.sz, ChainImm(p)) \o <<xrr>>
                 [] p.how = "quick" -> <<Quickly(p.op \o "q", p.sz, D(1), ChainImm(p)), xrr>>

ChainStarts(p) ==
    LET fixed == p.how \in {"imm", "quick"}
        sz == p.sz
        vals == IF p.how \in {"mm", "re"} THEN Edges(sz) ELSE Vals(sz)
        limb(ls, ld, hs, hd) ==
            IF p.how = "mm"
            THEN Write(Write(Write(Write(Cpu(<<>>, 0 :> 8 + 2*sz @@ 1 :> 24 + 2*sz),
                             8, sz, hs), 8 + sz, sz, ls), 24, sz, hd), 24 + sz, sz, ld)
            ELSE Write(Cpu(0 :> Junk(sz, ls) @@ 1 :> Junk(sz, ld) @@ 2 :> Junk(sz, hs)
                           @@ 3 :> Junk(sz, hd), 0 :> 8), 8, sz, ld)
    IN  {limb(ls, ld, hs, hd) : ls \in IF fixed THEN {ChainImm(p)} ELSE vals,
                                ld \in vals, hs \in vals, hd \in vals}

Wide(c, p, src) ==
    IF p.how = "mm" THEN LET at == IF src THEN 8 ELSE 24
                         IN  Read(c, at, p.sz) * Mod(p.sz) + Read(c, at + p.sz, p.sz)
    ELSE LET r == IF src THEN 0 ELSE 1
         IN  (c.d[r + 2] % Mod(p.sz)) * Mod(p.sz) + (c.d[r] % Mod(p.sz))

\* An addition, subtraction or negation carried on by ADDX, SUBX or NEGX is
\* that of the wide numbers, in all five flags (Z of the whole number), and
\* what lies above the limbs in the registers is kept.
ChainsAreWide ==
    Over("chain") =>
        LET s == IF prog.op = "neg" THEN Wide(start, prog, FALSE) ELSE Wide(start, prog, TRUE)
            d == IF prog.op = "neg" THEN 0 ELSE Wide(start, prog, FALSE)
            h == Half(2 * prog.sz)
            op(a, b) == IF prog.op = "add" THEN a + b ELSE a - b
            r == Wide(cpu, prog, FALSE)
        IN  /\ r = op(d, s) % (2 * h)
            /\ cpu.c = (op(d, s) \notin 0 .. 2 * h - 1)
            /\ cpu.x = cpu.c
            /\ cpu.z = (r = 0)
            /\ cpu.n = (r >= h)
            /\ cpu.v = (op(Signed(h, d), Signed(h, s)) \notin -h .. h - 1)
            /\ prog.how # "mm" => \A i \in 0..3 :
                 cpu.d[i] \div Mod(prog.sz) = start.d[i] \div Mod(prog.sz)

(***************************************************************************)
(* Comparisons of d0 with d1, of a0 with d1, or of the operands at 8 (the  *)
(* source) and 24; the condition is then the program's op.                 *)
(***************************************************************************)
Conds == DOMAIN Cond(C0)

CmpIds == Id("cmp", Conds, {1, 4}, {"cmp", "sub"})
          \cup Id("cmp", Conds, {1}, {"cmpi", "cmpm", "tst"})
          \cup Id("cmp", Conds, {2, 4}, {"cmpa"})

CmpImm(sz) == Half(sz) + 1

\* Compare, set a register on the condition, branch over a store on it, and
\* trap on it.  The size of the branch is that of the operands.
CmpCode(p) ==
    LET first == CASE p.how = "cmp" -> <<Er("cmp", p.sz, D(1), 0)>>
                   [] p.how = "sub" -> <<Er("sub_er", p.sz, D(1), 0)>>
                   [] p.how = "cmpi" -> <<Er("cmpi", p.sz, D(0), 0)>> \o Words(p.sz, CmpImm(p.sz))
                   [] p.how = "cmpm" -> <<[op |-> "cmpm", sz |-> p.sz, y |-> 0, x |-> 1]>>
                   [] p.how = "tst" -> <<Er("tst", p.sz, D(0), 0)>>
                   [] p.how = "cmpa" -> <<Er("cmpa", p.sz, D(1), 0)>>
        jump == IF p.sz = 1 THEN <<Branch("bcc", p.op, 2)>>
                ELSE <<[Branch("bcc", p.op, 0) EXCEPT !.sz = p.sz]>> \o Words(p.sz, p.sz + 2)
        trap == IF p.op = "vs" THEN <<[op |-> "trapv"]>>
                ELSE <<[op |-> "trapcc", cc |-> p.op, sz |-> 2 * (p.sz \div 2)]>>
                     \o SubSeq(<<0, 0>>, 1, p.sz \div 2)
    IN  first \o <<Set(p.op, 2)>> \o jump \o <<Set("t", 3)>> \o trap

CmpStarts(p) ==
    {LET s == CASE p.how = "cmpi" -> CmpImm(p.sz) [] p.how = "tst" -> 0 [] OTHER -> b
         a0 == IF p.how = "cmpm" THEN 8 ELSE a
     IN  Write(Write(Cpu(0 :> Junk(p.sz, a) @@ 1 :> Junk(p.sz, s), 0 :> a0 @@ 1 :> 24),
                     8, p.sz, s), 24, p.sz, a)
       : a \in IF p.how = "cmpa" THEN Vals(4) ELSE Vals(p.sz), b \in Vals(p.sz)}

\* What a condition says of destination a and source b of a comparison.
Says(cc, sz, a, b) ==
    LET h == Half(sz)
        dif == Signed(h, a) - Signed(h, b)
    IN  CASE cc = "eq" -> a = b [] cc = "ne" -> a # b
          [] cc = "cs" -> a < b [] cc = "cc" -> a >= b
          [] cc = "hi" -> a > b [] cc = "ls" -> a <= b
          [] cc = "lt" -> dif < 0 [] cc = "ge" -> dif >= 0
          [] cc = "gt" -> dif > 0 [] cc = "le" -> dif <= 0
          [] cc = "vs" -> dif \notin -h .. h - 1 [] cc = "vc" -> dif \in -h .. h - 1
          [] cc = "mi" -> (a - b) % (2 * h) >= h [] cc = "pl" -> (a - b) % (2 * h) < h

\* Scc, Bcc and TRAPcc (TRAPV) after a comparison, a subtraction or a test
\* act exactly when the two numbers stand in the order the condition names.
BranchesCompare ==
    Over("cmp") =>
        LET asz == IF prog.how = "cmpa" THEN 4 ELSE prog.sz
            a == IF prog.how = "cmpa" THEN start.a[0] ELSE start.d[0] % Mod(asz)
            b == Signed(Half(prog.sz), start.d[1]) % Mod(asz)
            on == Says(prog.op, asz, a, b)
        IN  /\ cpu.d[2] = IF on THEN Mod(1) - 1 ELSE 0
            /\ cpu.d[3] = IF on THEN 0 ELSE Mod(1) - 1
            /\ cpu.exc = IF on THEN TRAPV ELSE None
            /\ ~on => ~InCode(cpu.pc)
            /\ prog.how = "cmpm" => cpu.a[0] = 8 + prog.sz /\ cpu.a[1] = 24 + prog.sz

(***************************************************************************)
(* Loops over the bytes from 8 on, counted by d0: the search for d1 (DBEQ) *)
(* and the copy to 24 (DBF).                                               *)
(***************************************************************************)
LoopIds == Id("loop", {"find", "copy"}, {1}, {"dbcc"})

LoopCode(p) ==
    LET body == IF p.op = "find" THEN Er("cmp", 1, PI(0), 1) ELSE Move(1, PI(0), PI(1))
    IN  <<body, [op |-> "dbcc", y |-> 0, cc |-> IF p.op = "find" THEN "eq" ELSE "f"],
          Mod(2) - 4>>

LoopStarts(p) ==
    {[Cpu(0 :> Junk(2, n) @@ 1 :> 2, 0 :> 8 @@ 1 :> 24) EXCEPT
        !.mem = (8 :> b[1] @@ 9 :> b[2] @@ 10 :> b[3]) @@ @]
       : n \in 0..2, b \in [1..3 -> {2, 5}]}

\* A DBcc loop with count n makes n + 1 rounds, fewer when the condition ends
\* it; the count, a word, is -1 when it ran out and else what is left.
LoopsCount ==
    Over("loop") =>
        LET n == start.d[0] % Mod(2)
            rounds == cpu.a[0] - 8
            hit(k) == prog.op = "find" /\ start.mem[7 + k] = 2
        IN  /\ rounds \in 1 .. n + 1
            /\ \A k \in 1 .. rounds - 1 : ~hit(k)
            /\ rounds <= n => hit(rounds)
            /\ cpu.d[0] = Junk(2, IF hit(rounds) THEN n + 1 - rounds ELSE Mod(2) - 1)
            /\ \A k \in 24 .. 26 :
                 cpu.mem[k] = IF prog.op = "copy" /\ k - 24 < rounds THEN start.mem[k - 16]
                              ELSE start.mem[k]

(***************************************************************************)
(* Shifts: d0 by the count in d1 (r), by an immediate count (i), the word  *)
(* at 8 by one (m), and d2:d0 by one in two instructions (wide).           *)
(***************************************************************************)
Kinds == {"asr", "asl", "lsr", "lsl", "ror", "rol", "roxr", "roxl"}

ShiftIds == Id("shift", Kinds, {1, 2, 4}, {"r"}) \cup Id("shift", Kinds, {1}, {"i"})
            \cup Id("shift", Kinds, {2}, {"m"})
            \cup Id("shift", {"lsl", "lsr", "asl", "asr"}, {1}, {"wide"})

ShiftIns(kind, sz, form, r) ==
    [op |-> kind, sz |-> sz, form |-> form, x |-> 1,
     q |-> IF form = "i" THEN 3 ELSE 1, ea |-> IF form = "m" THEN AI(0) ELSE D(r)]

ShiftCode(p) ==
    IF p.how # "wide" THEN <<ShiftIns(p.op, p.sz, p.how, 0)>>
    ELSE IF p.op \in {"lsl", "asl"}
         THEN <<ShiftIns("lsl", p.sz, "w", 0), ShiftIns("roxl", p.sz, "w", 2)>>
         ELSE <<ShiftIns(p.op, p.sz, "w", 2), ShiftIns("roxr", p.sz, "w", 0)>>

ShiftStarts(p) ==
    {[Write(Cpu(0 :> Junk(p.sz, v) @@ 1 :> n @@ 2 :> Junk(p.sz, (3 * v + 1) % Mod(p.sz)),
                0 :> 8), 8, p.sz, v) EXCEPT !.x = x]
       : v \in Vals(p.sz) \cup {5 * 2 ^ (BB * p.sz - 3)}, x \in BOOLEAN,
         n \in IF p.how = "r" THEN 0 .. 8 * BB + 1 ELSE {0}}

\* One bit, by the book: s has the number r and the flags c, v and x.
OneBit(kind, sz, s) ==
    LET left == kind \in {"asl", "lsl", "rol", "roxl"}
        top == s.r >= Half(sz)
        out == IF left THEN top ELSE s.r % 2 = 1
        in == CASE kind \in {"asl", "lsl", "lsr"} -> FALSE
                [] kind = "asr" -> top
                [] kind \in {"rol", "ror"} -> out
                [] kind \in {"roxl", "roxr"} -> s.x
        one(bit, b) == IF b THEN bit ELSE 0
        r == IF left THEN ((2 * s.r) % Mod(sz)) + one(1, in)
             ELSE s.r \div 2 + one(Half(sz), in)
    IN  [r |-> r, c |-> out, v |-> s.v \/ (kind = "asl" /\ top # (r >= Half(sz))),
         x |-> IF kind \in {"rol", "ror"} THEN s.x ELSE out]

Bits(kind, sz, n, s) ==
    LET after[k \in 0 .. n] == IF k = 0 THEN s ELSE OneBit(kind, sz, after[k - 1])
    IN  after[n]

\* A shift or rotation by n is n shifts by one bit, the flags of the last one
\* and every V on the way included, for counts beyond the width too; a shift
\* and a ROXL or ROXR after it are the shift of the wide number.  (C after a
\* ROL.L by a register count of the width or twice it is left out.)
ShiftsRepeat ==
    Over("shift") =>
        LET wide == prog.how = "wide"
            sz == IF wide THEN 2 * prog.sz ELSE prog.sz
            num(c) == CASE prog.how = "m" -> Read(c, 8, 2)
                        [] wide -> (c.d[2] % Mod(prog.sz)) * Mod(prog.sz) + (c.d[0] % Mod(prog.sz))
                        [] OTHER -> c.d[0] % Mod(sz)
            n == CASE prog.how = "r" -> start.d[1] % (8 * BB)
                   [] prog.how = "i" -> 3 [] OTHER -> 1
            whole == n > 0 /\ prog.op = "rol" /\ sz = 4 /\ n % Width(4) = 0
            s == Bits(prog.op, sz, n, [r |-> num(start), v |-> FALSE, x |-> start.x,
                                       c |-> prog.op \in {"roxl", "roxr"} /\ start.x])
        IN  /\ num(cpu) = s.r
            /\ cpu.x = s.x
            /\ whole \/ cpu.c = s.c
            /\ ~wide => cpu.v = s.v /\ cpu.z = (s.r = 0) /\ cpu.n = (s.r >= Half(sz))
            /\ prog.how # "m" => cpu.d[0] \div Mod(prog.sz) = start.d[0] \div Mod(prog.sz)

(***************************************************************************)
(* Bit fields of the register d0 or of memory from 8 on, offset d5 and     *)
(* width d6: a value d1 inserted and extracted; set and cleared; changed   *)
(* twice.  In memory the field stays in the long that its first byte is    *)
(* the top of.                                                             *)
(***************************************************************************)
FieldIds == Id("field", {"ins", "set", "chg"}, {4}, {"d", "m"})

FieldIns(op, p, r) ==
    <<[op |-> op, ea |-> IF p.how = "d" THEN D(0) ELSE AI(0)],
      [off |-> 5, offreg |-> TRUE, w |-> 6, wreg |-> TRUE, r |-> r]>>

FieldCode(p) ==
    CASE p.op = "ins" -> FieldIns("bfins", p, 1) \o FieldIns("bfextu", p, 2)
                         \o FieldIns("bfexts", p, 3) \o FieldIns("bfffo", p, 4)
      [] p.op = "set" -> FieldIns("bfset", p, 0) \o FieldIns("bfextu", p, 2)
                         \o FieldIns("bfclr", p, 0) \o FieldIns("bfextu", p, 3)
      [] p.op = "chg" -> FieldIns("bfchg", p, 0) \o FieldIns("bfchg", p, 0)
                         \o FieldIns("bftst", p, 0)

FieldStarts(p) ==
    {Write(Cpu(0 :> old @@ 1 :> new @@ 5 :> ow[1] % Mod(4) @@ 6 :> ow[2], 0 :> 12), 10, 4, old)
       : old \in {0, Mod(4) - 1, 1755}, new \in IF p.op = "ins" THEN {1, 2341} ELSE {0},
         ow \in {k \in ((-7) .. 13) \X {1, 2, 3, 7, 11, 12} :
                    p.how = "d" \/ (k[1] % BB) + k[2] <= LW}}

\* Bit k of the string of bits a field is in, counted from the top of the
\* register or of the byte at a0.
StringBit(c, k) == IF prog.how = "d" THEN Bit(c.d[0], LW - 1 - (k % LW))
                   ELSE Bit(c.mem[12 + k \div BB], BB - 1 - (k % BB))

\* A bit field instruction changes the bits of its field and no others; what
\* is inserted comes back, with zeros or its sign above it, and its first one
\* is found; N and Z are those of the field.
FieldsExact ==
    Over("field") =>
        LET off == IF prog.how = "d" THEN start.d[5] ELSE Signed(Half(4), start.d[5])
            w == start.d[6]
            field == {k % LW : k \in off .. off + w - 1}
            inside(k) == IF prog.how = "d" THEN k % LW \in field ELSE k \in off .. off + w - 1
            val(c) == [k \in 0 .. w - 1 |-> StringBit(c, off + k)]
            ones == {k \in 0 .. w - 1 : Bit(start.d[1], w - 1 - k)}
            new == start.d[1] % 2 ^ w
        IN  /\ \A k \in (-9) .. 27 : inside(k) \/ StringBit(cpu, k) = StringBit(start, k)
            /\ CASE prog.op = "ins" ->
                      /\ \A k \in 0 .. w - 1 : val(cpu)[k] = (k \in ones)
                      /\ cpu.d[2] = new
                      /\ cpu.d[3] = Wrap(Signed(2 ^ (w - 1), new))
                      /\ cpu.d[4] = Wrap((IF prog.how = "d" THEN off % LW ELSE off)
                                         + Min(ones \cup {w}))
                      /\ cpu.n = (0 \in ones) /\ cpu.z = (ones = {})
                 [] prog.op = "set" -> /\ cpu.d[2] = 2 ^ w - 1
                                       /\ cpu.d[3] = 0
                                       /\ ~cpu.n /\ cpu.z
                 [] prog.op = "chg" -> /\ val(cpu) = val(start)
                                       /\ cpu.n = val(start)[0]
                                       /\ cpu.z = (TRUE \notin {val(start)[k] : k \in 0 .. w - 1})

(***************************************************************************)
(* Single bits against masks: bit d1 of d0, or of the byte at 8, is set,   *)
(* cleared, changed or tested, and a copy (d3, or the byte at 24) goes     *)
(* through OR, AND or EOR with a mask made by a shift.                     *)
(***************************************************************************)
BitIds == Id("bits", {"bset", "bclr", "bchg", "btst"}, {4}, {"d", "m", "s"})
          \cup Id("bits", {"tas"}, {1}, {"m"}) \cup Id("bits", {"or", "and", "eor"}, {2}, {"ccr"})

StaticBit == 2

BitCode(p) ==
    LET dst == IF p.how = "m" THEN AI(0) ELSE D(0)
        copy == IF p.how = "m" THEN AI(1) ELSE D(3)
        msz == IF p.how = "m" THEN 1 ELSE 4
        mask == <<[op |-> "moveq", x |-> 2, q |-> 1],
                  [op |-> "lsl", sz |-> 4, form |-> "r", x |-> 5, ea |-> D(2)]>>
        not == <<Er("not", 4, D(2), 0)>>
        viaEa(op) == <<Er(op \o "_re", msz, copy, 2)>>
        viaReg(op) == IF p.how = "m" THEN viaEa(op) ELSE <<Er(op \o "_er", 4, D(2), 3)>>
        static(op, w) == <<Er(op, 4, D(3), 0)>> \o Words(4, w)
    IN  CASE p.op = "tas" -> <<Er("tas", 1, AI(0), 0)>> \o FrCcr(4)
          [] p.how = "ccr" -> <<[op |-> "move_toc", ea |-> D(0)],
                                [op |-> "logic_ccr", kind |-> p.op], 21>> \o FrCcr(1)
          [] p.how = "s" ->
               <<[op |-> p.op, form |-> "s", ea |-> D(0)], StaticBit>> \o FrCcr(4)
               \o (CASE p.op = "bset" -> static("ori", 2 ^ StaticBit)
                     [] p.op = "bclr" -> static("andi", Mod(4) - 1 - 2 ^ StaticBit)
                     [] p.op = "bchg" -> static("eori", 2 ^ StaticBit)
                     [] p.op = "btst" -> <<>>)
          [] OTHER ->
               mask \o <<[op |-> p.op, form |-> "r", x |-> 1, ea |-> dst]>> \o FrCcr(4)
               \o (CASE p.op = "bset" -> viaReg("or")
                     [] p.op = "bclr" -> not \o viaReg("and")
                     [] p.op = "bchg" -> <<Er("eor", msz, copy, 2)>>
                     [] p.op = "btst" -> <<>>)

BitStarts(p) ==
    {[Cpu(0 :> v @@ 3 :> v @@ 1 :> k @@ 5 :> k % (IF p.how = "m" THEN BB ELSE LW),
          0 :> 8 @@ 1 :> 24) EXCEPT !.mem[8] = v % Mod(1), !.mem[24] = v % Mod(1)]
       : v \in IF p.how = "ccr" THEN 0..31 ELSE {0, 2341, 1755, Mod(4) - 1},
         k \in IF p.how \in {"s", "ccr"} THEN {StaticBit} ELSE 0 .. 15}

\* A bit instruction does to the operand what the mask does, its Z is the old
\* bit, TAS sets the top bit and answers for the old byte, and a logical
\* operation on the CCR acts on every flag.
BitsAreMasks ==
    Over("bits") =>
        LET width == IF prog.how = "m" THEN BB ELSE LW
            old == IF prog.how = "m" THEN start.mem[8] ELSE start.d[0]
            z == Bit(cpu.d[4], 2)
            flag(op, a, b) == CASE op = "or" -> a \/ b [] op = "and" -> a /\ b
                                [] op = "eor" -> a # b
        IN  CASE prog.op = "tas" -> /\ cpu.mem[8] = (start.mem[8] % Half(1)) + Half(1)
                                    /\ z = (old = 0) /\ Bit(cpu.d[4], 3) = (old >= Half(1))
              [] prog.how = "ccr" ->
                   \A k \in 0..4 : Bit(cpu.d[1], k) = flag(prog.op, Bit(start.d[0], k), Bit(21, k))
              [] OTHER -> /\ cpu.d[0] = cpu.d[3]
                          /\ cpu.mem[8] = cpu.mem[24]
                          /\ z = ~Bit(old, start.d[1] % width)

\* The bit and bit-field instructions change the bits they name and no
\* others, and their flags are those of the bits.
BitsExact == FieldsExact /\ BitsAreMasks

(***************************************************************************)
(* Divisions of d0, or d3:d0, by d1 and the multiplication back.  The word *)
(* forms leave quotient and remainder in d0, the long forms in d0 and d3.  *)
(***************************************************************************)
DivIds == Id("div", {"divu", "divs"}, {2}, {"word"})
          \cup Id("div", {"divu", "divs"}, {4}, {"long", "wide"})

DivCode(p) ==
    LET sgn == p.op = "divs"
        ext(l, h) == [l |-> l, h |-> h, long |-> p.how = "wide", signed |-> sgn]
    IN  IF p.how = "word"
        THEN <<Er(p.op, 2, D(1), 0), Branch("bcc", "vs", 12), Move(4, D(0), D(4)),
               [op |-> "mul", ea |-> D(1), x |-> 4, signed |-> sgn],
               [op |-> "swap", y |-> 0],
               IF sgn THEN [op |-> "ext", y |-> 0, sz |-> 2, to |-> 4]
               ELSE [op |-> "nop"],
               Move(2, D(0), D(5)),
               Er("add_er", 4, IF sgn THEN D(0) ELSE D(5), 4)>>
        ELSE <<Er("divl", 4, D(1), 0), ext(0, 3), Branch("bcc", "vs", 6),
               Move(4, D(0), D(4)), Er("mull", 4, D(1), 0), ext(4, 5)>>

DivStarts(p) ==
    LET near(n) == {0, 1, 2, 3, 7, 100, n \div 2 - 1, n \div 2, n \div 2 + 1, n - 7, n - 2, n - 1}
        starts == {Cpu(0 :> n @@ 1 :> d @@ 3 :> h, <<>>)
                     : n \in near(Mod(4)) \cup {62, 63, 64, 65, 4031, 4032},
                       d \in near(Mod(p.sz)) \ {100},
                       h \in IF p.how = "wide" THEN {0, 1, 2, 2047, 2048, 4094, 4095} ELSE {0}}
    IN  {c \in starts : ~(p.op = "divs" /\ c.d[3] = Half(4) /\ c.d[0] = 0 /\ c.d[1] = Mod(4) - 1)}

Abs(k) == IF k < 0 THEN -k ELSE k

\* A division traps on zero, says V and changes no operand when the quotient
\* does not fit, and otherwise gives the quotient and the remainder, which
\* the multiplication turns back into the dividend.  Left out: the most
\* negative number by -1, where the code answers 0 (DIVS.W) or the dividend
\* (DIVSL); the 64-bit case, an overflow in C, is not among the starts.
DivisionInverts ==
    Over("div") =>
        LET sgn == prog.op = "divs"
            h == IF prog.how = "wide" THEN Half(8) ELSE Half(4)
            num(half, v) == IF sgn THEN Signed(half, v) ELSE v
            n == num(h, IF prog.how = "wide" THEN start.d[3] * Mod(4) + start.d[0] ELSE start.d[0])
            qh == Half(prog.sz)
            d == num(qh, start.d[1])
            least == sgn /\ n = -h /\ d = -1
            range == IF sgn THEN -qh .. qh - 1 ELSE 0 .. 2 * qh - 1
            q == num(qh, cpu.d[0])
            r == CASE prog.how # "word" -> num(qh, cpu.d[3])
                   [] prog.how = "word" -> IF sgn THEN Signed(Half(4), cpu.d[0]) ELSE cpu.d[5]
        IN  CASE d = 0 -> cpu.exc = ZERO_DIVIDE /\ cpu.d = start.d
              [] least -> TRUE
              [] d # 0 /\ Quot(n, d) \notin range -> cpu.v /\ cpu.d = start.d
              [] OTHER ->
                   /\ Abs(r) < Abs(d) /\ (r = 0 \/ (r < 0) = (n < 0))
                   /\ prog.how = "word" => cpu.d[4] = start.d[0]
                   /\ prog.how # "word" => n = q * d + r
                   /\ prog.how = "long" => cpu.d[4] = Wrap(n - r)
                   /\ prog.how = "wide" => num(h, cpu.d[5] * Mod(4) + cpu.d[4]) = n - r

(***************************************************************************)
(* Bounds: CHK of d0 against d1, and CMP2 and CHK2 of d0 or a0 against the *)
(* bounds at 8.                                                            *)
(***************************************************************************)
BoundIds == Id("bound", {"chk"}, {2, 4}, {"d"})
            \cup Id("bound", {"cmp2", "chk2"}, {2, 4}, {"d", "a"})
            \cup Id("bound", {"cmp2", "chk2"}, {1}, {"a"})

BoundCode(p) ==
    IF p.op = "chk" THEN <<Er("chk", p.sz, D(1), 0)>>
    ELSE <<Er("chk2cmp2", p.sz, AI(1), 0),
           [r |-> IF p.how = "d" THEN 0 ELSE 8, chk |-> p.op = "chk2"]>>

BoundStarts(p) ==
    {Write(Write(Cpu(0 :> Junk(p.sz, v) @@ 1 :> hi, 0 :> Junk(p.sz, v) @@ 1 :> 8),
                 8, p.sz, lo), 8 + p.sz, p.sz, hi)
       : v \in Vals(p.sz) \cup {5}, lo \in Edges(p.sz), hi \in Edges(p.sz)}

\* CHK traps exactly when the number is outside 0 .. bound, CMP2 says C and
\* CHK2 traps exactly when it is outside the bounds, the Z of both says that
\* it is one of them.  A word in a data register is signed, what is in an
\* address register and a long are not.  (Bytes in data registers are left
\* out: there the code compares one bound with and one without sign.)
BoundsTrap ==
    Over("bound") =>
        LET signed == prog.op = "chk" \/ (prog.how = "d" /\ prog.sz = 2)
            val(v) == IF signed THEN Signed(Half(prog.sz), v) ELSE v % Mod(prog.sz)
            v == val(start.d[0])
            lo == val(Read(start, 8, prog.sz))
            hi == val(Read(start, 8 + prog.sz, prog.sz))
        IN  IF prog.op = "chk"
            THEN cpu.exc = IF v \in 0 .. hi THEN None ELSE CHK
            ELSE /\ lo <= hi => cpu.c = (v \notin lo .. hi)
                 /\ cpu.z = (v \in {lo, hi})
                 /\ cpu.exc = IF prog.op = "chk2" /\ cpu.c THEN CHK ELSE None

\* Every decision the cpu makes on numbers is that of the numbers: conditions
\* after a comparison, the end of a DBcc loop, and traps on bounds.
DecisionsRight == BranchesCompare /\ LoopsCount /\ BoundsTrap

(***************************************************************************)
(* Compare and swap: the operand at 8 (and the one at 16) against d0 (d1), *)
(* to be replaced by d2 (d3).                                              *)
(***************************************************************************)
CasIds == Id("cas", {"cas"}, {1, 2, 4}, {"m"}) \cup Id("cas", {"cas2"}, {2, 4}, {"m"})

CasCode(p) ==
    IF p.op = "cas" THEN <<Er("cas", p.sz, AI(0), 0), [c |-> 0, u |-> 2]>>
    ELSE <<[op |-> "cas2", sz |-> p.sz], [r |-> 8, c |-> 0, u |-> 2],
           [r |-> 9, c |-> 1, u |-> 3]>>

CasStarts(p) ==
    LET few == {1, Half(p.sz), Mod(p.sz) - 1}
    IN  {Write(Write(Cpu(0 :> Junk(p.sz, c) @@ 1 :> Junk(p.sz, e) @@ 2 :> 2 @@ 3 :> 3,
                         0 :> 8 @@ 1 :> 16), 8, p.sz, v), 16, p.sz, w)
           : c \in few, v \in few, e \in few, w \in few}

\* Either every operand equalled its compare register, Z is set and all are
\* replaced, or Z is clear, no operand changes and every compare register has
\* its operand: a second try with them succeeds unless memory changed.
SwapsAllOrNothing ==
    Over("cas") =>
        LET n == IF prog.op = "cas" THEN 1 ELSE 2
            val(c, k) == Read(c, 8 * k, prog.sz)
            reg(c, k) == c.d[k - 1] % Mod(prog.sz)
            all == \A k \in 1 .. n : val(start, k) = reg(start, k)
        IN  /\ cpu.z = all
            /\ \A k \in 1 .. n :
                 IF all THEN val(cpu, k) = start.d[k + 1] /\ reg(cpu, k) = reg(start, k)
                 ELSE val(cpu, k) = val(start, k) /\ reg(cpu, k) = val(start, k)
            /\ \A k \in DOMAIN cpu.mem :
                 k \in 8 .. 7 + prog.sz \cup 16 .. 15 + prog.sz \/ cpu.mem[k] = start.mem[k]

(***************************************************************************)
(* Moves of d0 to memory by every addressing mode, after LEA by the same   *)
(* mode to a1, and back to d2 by (a1); the other transfers in pairs that   *)
(* undo each other.                                                        *)
(***************************************************************************)
Full(bs, is, bd, od, ind, post) ==
    [full |-> TRUE, bs |-> bs, is |-> is, bd |-> bd, od |-> od, ind |-> ind,
     post |-> post, xn |-> 1, long |-> FALSE, scale |-> 0]

Mode(m) == [m |-> m, r |-> 0]

\* mode -> the mode, its extension words and the address they lead to, with
\* a0 = 12, a2 = -2, 3 in the low word of d1 and the long 8 at address 24.
Modes ==
    [ai |-> <<Mode("ai"), <<>>, 12>>,
     di |-> <<Mode("di"), <<Mod(2) - 2>>, 10>>,
     ix |-> <<Mode("ix"), <<[full |-> FALSE, xn |-> 1, long |-> FALSE, scale |-> 1,
                             disp |-> -1]>>, 17>>,
     ixl |-> <<Mode("ix"), <<[full |-> FALSE, xn |-> 10, long |-> TRUE, scale |-> 1,
                              disp |-> 3]>>, 11>>,
     base |-> <<Mode("ix"), <<Full(FALSE, FALSE, 2, 0, FALSE, FALSE), 5>>, 20>>,
     fixed |-> <<Mode("ix"), <<Full(TRUE, TRUE, 4, 0, FALSE, FALSE), 0, 7>>, 7>>,
     pre |-> <<Mode("ix"), <<Full(FALSE, FALSE, 2, 2, TRUE, FALSE), 9, Mod(2) - 3>>, 5>>,
     post |-> <<Mode("ix"), <<Full(FALSE, FALSE, 2, 4, TRUE, TRUE), 12, 0, 2>>, 13>>,
     aw |-> <<Mode("aw"), <<16>>, 16>>,
     al |-> <<Mode("al"), <<0, 16>>, 16>>]

MoveIds == Id("move", {"move"}, {1, 2, 4}, DOMAIN Modes \cup {"pcdi", "pcix", "pd", "pd7"})
           \cup Id("move", {"move"}, {2, 4}, {"movem", "movep"})
           \cup Id("move", {"move"}, {4}, {"exg", "ptr"})

MoveList == {1, 3, 10}

MoveCode(p) ==
    LET lea(ea) == <<[op |-> "lea", ea |-> ea, x |-> 1]>>
        clr == <<Er("clr", p.sz, D(2), 0)>>
        brief(k) == [full |-> FALSE, xn |-> 1, long |-> FALSE, scale |-> 0, disp |-> k]
        stack == IF p.how = "pd7" THEN 7 ELSE 0
        exg(a, b) == [op |-> "exg", px |-> a, py |-> b]
        transfer(op) == [op |-> op, sz |-> p.sz, ea |-> AI(0), x |-> IF op = "movep_er" THEN 2 ELSE 0,
                         y |-> 0]
    IN  IF p.how \in DOMAIN Modes
        THEN LET md == Modes[p.how]
             IN  clr \o lea(md[1]) \o md[2] \o <<Move(p.sz, D(0), md[1])>> \o md[2]
                 \o <<Move(p.sz, AI(1), D(2))>>
        ELSE CASE p.how = "pcdi" -> clr \o lea(Mode("pcdi")) \o <<Mod(2) - 16, Move(p.sz, D(0), AI(1)),
                                      Move(p.sz, Mode("pcdi"), D(2)), Mod(2) - 22>>
               [] p.how = "pcix" -> clr \o lea(Mode("pcix")) \o <<brief(-19), Move(p.sz, D(0), AI(1)),
                                      Move(p.sz, Mode("pcix"), D(2)), brief(-25)>>
               [] p.how \in {"pd", "pd7"} -> <<Move(p.sz, D(0), PD(stack)), Move(p.sz, PI(stack), D(2))>>
               [] p.how = "movem" -> <<transfer("movem_re"), MoveList, [op |-> "moveq", x |-> 3, q |-> 3],
                                       transfer("movem_er"), MoveList>>
               [] p.how = "movep" -> <<transfer("movep_re"), 4, transfer("movep_er"), 4>>
               [] p.how = "exg" -> <<exg(D(0), A(1)), exg(A(1), A(2)), exg(D(1), D(0))>>
               [] p.how = "ptr" -> <<Er("movea", 4, A(0), 1), Er("adda", 2, D(0), 1),
                                     Er("suba", 4, A(0), 1), Er("cmpa", 2, D(0), 1), Set("eq", 2)>>

MoveStarts(p) ==
    {Write(Cpu(0 :> v @@ 1 :> Junk(2, 3) @@ 2 :> Junk(p.sz, 6) @@ 3 :> v,
               0 :> 12 @@ 1 :> 9 @@ 2 :> Mod(4) - 2 @@ 7 :> 30), 24, 4, 8)
       : v \in Edges(4) \cup Edges(2) \cup {1755}}

\* A move goes to the address LEA gives, big endian, and touches nothing
\* else: no byte beside it, no other register, nothing above it in a data
\* register.  Pushes and pulls, MOVEM, MOVEP and EXG undo each other, and
\* address arithmetic is on whole registers with words sign extended.
MovesLand ==
    Over("move") =>
        LET sz == prog.sz
            v == start.d[0]
            at == CASE prog.how \in DOMAIN Modes -> Modes[prog.how][3]
                    [] prog.how \in {"pcdi", "pcix"} -> 20
                    [] prog.how = "pd" -> 12 - sz
                    [] prog.how = "pd7" -> IF sz = 1 THEN 28 ELSE 30 - sz
            sext(c, k) == Wrap(Signed(Half(sz), RegDA(c, k)))
            only(S) == \A k \in DOMAIN cpu.mem \ S : cpu.mem[k] = start.mem[k]
        IN  CASE prog.how = "movem" ->
                   /\ \A k \in 0..15 : RegDA(cpu, k) =
                        IF k \in MoveList THEN sext(start, k) ELSE RegDA(start, k)
                   /\ \A k \in MoveList : Read(cpu, 12 + sz * Rank(MoveList, k), sz) =
                                            RegDA(start, k) % Mod(sz)
                   /\ only(12 .. 11 + 3 * sz)
              [] prog.how = "movep" -> /\ cpu.d[2] = Put(start, D(2), sz, v).d[2]
                                       /\ only({16 + 2 * j : j \in 0 .. sz - 1})
              [] prog.how = "exg" -> /\ cpu.d[1] = start.a[1] /\ cpu.d[0] = start.d[1]
                                     /\ cpu.a[1] = start.a[2] /\ cpu.a[2] = v
              [] prog.how = "ptr" -> /\ cpu.a[1] = Wrap(Signed(Half(2), v))
                                     /\ cpu.z /\ cpu.d[2] % Mod(1) = Mod(1) - 1
              [] OTHER -> /\ cpu.a = [start.a EXCEPT ![1] = IF prog.how \in {"pd", "pd7"} THEN @ ELSE at]
                          /\ cpu.d = Put(start, D(2), sz, v).d
                          /\ Read(cpu, at, sz) = v % Mod(sz)
                          /\ only(at .. at + sz - 1)

(***************************************************************************)
(* Calls: the argument a1 is pushed and comes back in d0.  The callee has a*)
(* frame and saved registers (rtd), reads the stack (rts), saves the flags *)
(* (rtr) or takes its return address from the stack itself (jmp).          *)
(***************************************************************************)
CallIds == Id("call", {"call"}, {4}, {"rtd", "rts", "rtr", "jmp"})

CallCode(p) ==
    LET pea == [op |-> "pea", ea |-> AI(1)]
        ext == {2, 3, 10}
        over(n) == Branch("bra", "t", 2 * n)
        movem(op, m) == <<Er(op, 4, [m |-> m, r |-> 7], 0), ext>>
        arg(r, k) == <<Move(4, [m |-> "di", r |-> r], D(0)), k>>
        clobber == [op |-> "moveq", x |-> 2, q |-> 3]
    IN  CASE p.how = "rtd" ->
               <<pea, Branch("bsr", "t", 2), over(13),
                 [op |-> "link", y |-> 6, sz |-> 2], Mod(2) - 4>> \o movem("movem_re", "pd")
               \o arg(6, 8) \o <<clobber, [op |-> "lea", ea |-> AI(1), x |-> 2]>>
               \o movem("movem_er", "pi") \o <<[op |-> "unlk", y |-> 6], [op |-> "rtd"], 4>>
          [] p.how = "rts" ->
               <<pea, [op |-> "jsr", ea |-> Mode("pcdi")], 6, Quickly("addq", 4, A(7), 4),
                 over(5), Quickly("subq", 2, A(7), 4)>> \o arg(7, 8)
               \o <<Quickly("addq", 4, A(7), 4), [op |-> "rts"]>>
          [] p.how = "rtr" ->
               <<[Branch("bsr", "t", 0) EXCEPT !.sz = 2], 4, over(3),
                 [op |-> "move_frc", ea |-> PD(7)], clobber, [op |-> "rtr"]>>
          [] p.how = "jmp" ->
               <<[op |-> "jsr", ea |-> AI(3)], over(2), Er("movea", 4, PI(7), 4),
                 [op |-> "jmp", ea |-> AI(4)]>>

CallStarts(p) ==
    {SetCcr(Cpu(2 :> 77 @@ 3 :> 4000, 1 :> v @@ 2 :> 99 @@ 3 :> Org + 4 @@ 6 :> 55 @@ 7 :> 28), f)
       : v \in Edges(4), f \in IF p.how = "rtr" THEN 0..31 ELSE {0, 31}}

\* A call comes back to the instruction after it with the stack as it was,
\* every register the callee saved, and the argument it was passed (RTR: with
\* the flags of the caller).
CallsBalance ==
    Over("call") =>
        /\ cpu.exc = None /\ cpu.pc = Org + 2 * Len(code)
        /\ cpu.a = IF prog.how = "jmp" THEN [start.a EXCEPT ![4] = Org + 2] ELSE start.a
        /\ cpu.d = CASE prog.how \in {"rtd", "rts"} -> [start.d EXCEPT ![0] = start.a[1]]
                     [] prog.how = "rtr" -> [start.d EXCEPT ![2] = 3]
                     [] prog.how = "jmp" -> start.d
        /\ \A k \in 28..31 : cpu.mem[k] = start.mem[k]
        /\ prog.how = "rtr" => GetCcr(cpu) = GetCcr(start)

Families == [chain |-> ChainIds, cmp |-> CmpIds, loop |-> LoopIds, shift |-> ShiftIds,
             field |-> FieldIds, bits |-> BitIds, div |-> DivIds, bound |-> BoundIds,
             cas |-> CasIds, move |-> MoveIds, call |-> CallIds]

Ids == UNION {Families[f] : f \in DOMAIN Families}

AllPrograms ==
    [p \in Ids |-> CASE p.fam = "chain" -> ChainCode(p)
                     [] p.fam = "cmp" -> CmpCode(p)
                     [] p.fam = "loop" -> LoopCode(p)
                     [] p.fam = "shift" -> ShiftCode(p)
                     [] p.fam = "bits" -> BitCode(p)
                     [] p.fam = "div" -> DivCode(p)
                     [] p.fam = "bound" -> BoundCode(p)
                     [] p.fam = "cas" -> CasCode(p)
                     [] p.fam = "move" -> MoveCode(p)
                     [] p.fam = "call" -> CallCode(p)
                     [] p.fam = "field" -> FieldCode(p)]

AllStarts ==
    [p \in Ids |-> CASE p.fam = "chain" -> ChainStarts(p)
                     [] p.fam = "cmp" -> CmpStarts(p)
                     [] p.fam = "loop" -> LoopStarts(p)
                     [] p.fam = "shift" -> ShiftStarts(p)
                     [] p.fam = "bits" -> BitStarts(p)
                     [] p.fam = "div" -> DivStarts(p)
                     [] p.fam = "bound" -> BoundStarts(p)
                     [] p.fam = "cas" -> CasStarts(p)
                     [] p.fam = "move" -> MoveStarts(p)
                     [] p.fam = "call" -> CallStarts(p)
                     [] p.fam = "field" -> FieldStarts(p)]
=============================================================================
