------------------------------ MODULE M68kAlu ------------------------------
(***************************************************************************)
(* The arithmetic and logic handlers of src/mushashi/m68k_in.c, one action  *)
(* for each family of handlers that differ only in size and addressing     *)
(* mode.  The fields of an opcode: sz (bytes), x and y (the register       *)
(* numbers DX/AX and DY/AY), ea (mode m, register r), q (quick data).      *)
(***************************************************************************)
EXTENDS M68kCore, Bitwise

D(r) == [m |-> "d", r |-> r]

A(r) == [m |-> "a", r |-> r]

PD(r) == [m |-> "pd", r |-> r]

PI(r) == [m |-> "pi", r |-> r]

\* N and Z of a result, V and C cleared: moves and logical operations.
LogicFlags(c, sz, r) ==
    [c EXCEPT !.n = NFlag(Half(sz), r), !.z = Low(Half(sz), r) = 0,
              !.v = FALSE, !.c = FALSE]

\* The flags of an addition: CFLAG_8/16 look at the unmasked sum, a long has
\* CFLAG_ADD_32.
AddFlags(c, sz, s, d, r) ==
    LET h == Half(sz)
        carry == IF sz = 4 THEN CFlagAdd32(h, s, d, r) ELSE CFlag(h, r)
    IN  [c EXCEPT !.n = NFlag(h, r), !.z = Low(h, r) = 0,
                  !.v = VFlagAdd(h, s, d, r), !.c = carry, !.x = carry]

SubFlags(c, sz, s, d, r) ==
    LET h == Half(sz)
        carry == IF sz = 4 THEN CFlagSub32(h, s, d, r) ELSE CFlag(h, r)
    IN  [c EXCEPT !.n = NFlag(h, r), !.z = Low(h, r) = 0,
                  !.v = VFlagSub(h, s, d, r), !.c = carry, !.x = carry]

CmpFlags(c, sz, s, d) == [SubFlags(c, sz, s, d, d - s) EXCEPT !.x = c.x]

\* Mutant: ADDX, SUBX and NEGX set Z from their own limb alone.
FreshZ(old, new) == new

\* FLAG_Z |= res: the extended operations only ever clear Z.
StickyZ(old, new) == [new EXCEPT !.z = @ /\ old.z]

XBit(c) == IF c.x THEN 1 ELSE 0

\* The computation the handlers of one family share: result and flags.
Alu(kind, c, sz, s, d) ==
    LET sum == s + d + (IF kind = "addx" THEN XBit(c) ELSE 0)
        dif == d - s - (IF kind = "subx" THEN XBit(c) ELSE 0)
        log(r) == [c |-> LogicFlags(c, sz, r), r |-> r]
    IN  CASE kind = "add" -> [c |-> AddFlags(c, sz, s, d, sum), r |-> sum]
          [] kind = "sub" -> [c |-> SubFlags(c, sz, s, d, dif), r |-> dif]
          [] kind = "addx" -> [c |-> StickyZ(c, AddFlags(c, sz, s, d, sum)), r |-> sum]
          [] kind = "subx" -> [c |-> StickyZ(c, SubFlags(c, sz, s, d, dif)), r |-> dif]
          [] kind = "and" -> log(s & d)
          [] kind = "or" -> log(s | d)
          [] kind = "eor" -> log(s ^^ d)

\* The result r of an operation is stored at an operand's location.
Store(at, r) == Put(r.c, at, IR.sz, r.r)

\* The operation on source value s and the operand at l.at.
AluAt(kind, l, s) ==
    Store(l.at, Alu(kind, l.c, IR.sz, s % Mod(IR.sz), Get(l.c, l.at, IR.sz)))

\* Source operand o to data register.
ToRegOf(kind, o) == AluAt(kind, [c |-> o.c, at |-> D(IR.x)], o.v)

ToReg(kind) == Run(ToRegOf(kind, Oper(Fetched, IR.ea, IR.sz)))

\* A value already read, s.v, to the destination operand.
ToEa(kind, s) == Run(AluAt(kind, Loc(s.c, IR.ea, IR.sz), s.v))

FromReg == [c |-> Fetched, v |-> Fetched.d[IR.x]]

Quick == [c |-> Fetched, v |-> IR.q]

\* ADDQ and SUBQ to an address register: the whole register and no flags.
QuickA(n) == Run(Put(Fetched, IR.ea, 4, Fetched.a[IR.ea.r] + n))

\* ADDX, SUBX, register to register and -(Ay) to -(Ax): the source address
\* is decremented first, then the destination's.
ExtRr(kind) == Run(AluAt(kind, [c |-> Fetched, at |-> D(IR.x)], Fetched.d[IR.y]))

ExtMmOf(kind, s) == AluAt(kind, Loc(s.c, PD(IR.x), IR.sz), s.v)

ExtMm(kind) == Run(ExtMmOf(kind, Oper(Fetched, PD(IR.y), IR.sz)))

AddEr == Is("add_er") /\ ToReg("add")

AddRe == Is("add_re") /\ ToEa("add", FromReg)

Addi == Is("addi") /\ ToEa("add", ReadImm(Fetched, IR.sz))

Addq == Is("addq") /\ IF IR.ea.m = "a" THEN QuickA(IR.q) ELSE ToEa("add", Quick)

AddxRr == Is("addx_rr") /\ ExtRr("addx")

AddxMm == Is("addx_mm") /\ ExtMm("addx")

\* ADDA, SUBA: a word is sign extended, the whole register changes, no flags.
ToAddress(sign, o) ==
    Put(o.c, A(IR.x), 4, o.c.a[IR.x] + sign * Signed(Half(IR.sz), o.v))

Adda == Is("adda") /\ Run(ToAddress(1, Oper(Fetched, IR.ea, IR.sz)))

SubEr == Is("sub_er") /\ ToReg("sub")

SubRe == Is("sub_re") /\ ToEa("sub", FromReg)

Subi == Is("subi") /\ ToEa("sub", ReadImm(Fetched, IR.sz))

Subq == Is("subq") /\ IF IR.ea.m = "a" THEN QuickA(-IR.q) ELSE ToEa("sub", Quick)

SubxRr == Is("subx_rr") /\ ExtRr("subx")

SubxMm == Is("subx_mm") /\ ExtMm("subx")

Suba == Is("suba") /\ Run(ToAddress(-1, Oper(Fetched, IR.ea, IR.sz)))

AndEr == Is("and_er") /\ ToReg("and")

AndRe == Is("and_re") /\ ToEa("and", FromReg)

Andi == Is("andi") /\ ToEa("and", ReadImm(Fetched, IR.sz))

OrEr == Is("or_er") /\ ToReg("or")

OrRe == Is("or_re") /\ ToEa("or", FromReg)

Ori == Is("ori") /\ ToEa("or", ReadImm(Fetched, IR.sz))

Eor == Is("eor") /\ ToEa("eor", FromReg)

Eori == Is("eori") /\ ToEa("eor", ReadImm(Fetched, IR.sz))

\* ANDI, ORI and EORI to CCR read a whole word; set_ccr keeps five bits.
LogicCcr == /\ Is("logic_ccr")
            /\ LET w == ReadImm(Fetched, 2)
                   r == Alu(IR.kind, w.c, 2, w.v, GetCcr(w.c)).r
               IN  Run(SetCcr(w.c, r))

\* 0 - dst: the V of the code, src & res, is VFLAG_SUB with a destination 0.
Negated(kind, l) == Store(l.at, Alu(kind, l.c, IR.sz, Get(l.c, l.at, IR.sz), 0))

Neg == Is("neg") /\ Run(Negated("sub", Loc(Fetched, IR.ea, IR.sz)))

Negx == Is("negx") /\ Run(Negated("subx", Loc(Fetched, IR.ea, IR.sz)))

\* A result stored with the flags of a move.
Moved(c, at, sz, v) == LogicFlags(Put(c, at, sz, v), sz, v)

Complement(l) == Moved(l.c, l.at, IR.sz, Mod(IR.sz) - 1 - Get(l.c, l.at, IR.sz))

NotOp == Is("not") /\ Run(Complement(Loc(Fetched, IR.ea, IR.sz)))

Cleared(l) == Moved(l.c, l.at, IR.sz, 0)

Clr == Is("clr") /\ Run(Cleared(Loc(Fetched, IR.ea, IR.sz)))

Tested(o) == LogicFlags(o.c, IR.sz, o.v)

Tst == Is("tst") /\ Run(Tested(Oper(Fetched, IR.ea, IR.sz)))

CmpReg(o) == CmpFlags(o.c, IR.sz, o.v, Get(o.c, D(IR.x), IR.sz))

Cmp == Is("cmp") /\ Run(CmpReg(Oper(Fetched, IR.ea, IR.sz)))

\* A word source is sign extended and the comparison is of longs.
CmpAddress(o) == CmpFlags(o.c, 4, Wrap(Signed(Half(IR.sz), o.v)), o.c.a[IR.x])

Cmpa == Is("cmpa") /\ Run(CmpAddress(Oper(Fetched, IR.ea, IR.sz)))

CmpWith(s, o) == CmpFlags(o.c, IR.sz, s, o.v)

\* The immediate is read before the operand.
Cmpi == /\ Is("cmpi")
        /\ LET s == ReadImm(Fetched, IR.sz) IN Run(CmpWith(s.v, Oper(s.c, IR.ea, IR.sz)))

\* (Ay)+ first, then (Ax)+.
CmpMem(s) == CmpWith(s.v, Oper(s.c, PI(IR.x), IR.sz))

Cmpm == Is("cmpm") /\ Run(CmpMem(Oper(Fetched, PI(IR.y), IR.sz)))

\* EXT.W, EXT.L and EXTB.L: from sz bytes to IR.to bytes.
Ext == /\ Is("ext")
       /\ LET r == Signed(Half(IR.sz), Fetched.d[IR.y]) % Mod(IR.to)
          IN  Run(Moved(Fetched, D(IR.y), IR.to, r))

Swap == /\ Is("swap")
        /\ LET v == Fetched.d[IR.y]
               r == (v % Mod(2)) * Mod(2) + v \div Mod(2)
           IN  Run(Moved(Fetched, D(IR.y), 4, r))

\* EXG Dx,Dy, Ax,Ay and Dx,Ay: px and py are the two registers.
Exg == /\ Is("exg")
       /\ Run(Put(Put(Fetched, IR.px, 4, Get(Fetched, IR.py, 4)),
                  IR.py, 4, Get(Fetched, IR.px, 4)))

\* The top bit of the byte is set whatever it was, the flags are of the old.
TestAndSet(c, at, v) == LogicFlags(Put(c, at, 1, v | Half(1)), 1, v)

TasAt(l) == TestAndSet(l.c, l.at, Get(l.c, l.at, 1))

Tas == Is("tas") /\ Run(TasAt(Loc(Fetched, IR.ea, 1)))

CondHolds(c) == CASE IR.cc = "t" -> TRUE
                  [] IR.cc = "f" -> FALSE
                  [] OTHER -> Cond(c)[IR.cc]

\* Sst, Ssf and Scc: the byte is all ones or zero; a register keeps the rest.
SetAt(l) == Put(l.c, l.at, 1, IF CondHolds(l.c) THEN Mod(1) - 1 ELSE 0)

Scc == Is("scc") /\ Run(SetAt(Loc(Fetched, IR.ea, 1)))
=============================================================================
